------------------------------ MODULE TableScan ------------------------------
(***************************************************************************)
(* The scan loops of TableScan over one segment, for a search value that   *)
(* has been cast to the column's type.  A PosList is the set of the        *)
(* offsets pushed; the loops push them in increasing order.                *)
(***************************************************************************)
EXTENDS Segments

ScanType == {"OpEquals", "OpNotEquals", "OpLessThan", "OpLessThanEquals",
             "OpGreaterThan", "OpGreaterThanEquals"}

\* _create_scan_operation
ScanOperation(op, l, r) ==
    CASE op = "OpEquals"            -> l = r
      [] op = "OpNotEquals"         -> l # r
      [] op = "OpLessThan"          -> l < r
      [] op = "OpLessThanEquals"    -> l <= r
      [] op = "OpGreaterThan"       -> l > r
      [] op = "OpGreaterThanEquals" -> l >= r

\* Mutant: equality does not ask whether the value is in the dictionary.
DictScanOperation_EqualsLowerBound(op, id, lower, upper) ==
    CASE op = "OpNotEquals"      -> lower = upper \/ ScanOperation(op, id, lower)
      [] op = "OpLessThanEquals" -> id < upper
      [] op = "OpGreaterThan"    -> id >= upper
      [] OTHER                   -> ScanOperation(op, id, lower)

\* The operation _tablescan_dict_segment applies to ValueIDs instead.
DictScanOperation(op, id, lower, upper) ==
    CASE op = "OpEquals"         -> lower # upper /\ ScanOperation(op, id, lower)
      [] op = "OpNotEquals"      -> lower = upper \/ ScanOperation(op, id, lower)
      [] op = "OpLessThanEquals" -> id < upper
      [] op = "OpGreaterThan"    -> id >= upper
      [] OTHER                   -> ScanOperation(op, id, lower)

ScanDictSegment(segment, op, value) ==
    {i \in DOMAIN segment.attributes :
        /\ segment.attributes[i] # NullValueId(segment)
        /\ DictScanOperation(op, segment.attributes[i],
                             LowerBound(segment, value), UpperBound(segment, value))}

ScanValueSegment(segment, op, value) ==
    {i \in DOMAIN segment.values :
        ~IsNull(segment, i) /\ ScanOperation(op, segment.values[i], value)}

ScanSegment(segment, op, value) ==
    IF segment.kind = "value" THEN ScanValueSegment(segment, op, value)
                              ELSE ScanDictSegment(segment, op, value)
=============================================================================
