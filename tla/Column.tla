------------------------------- MODULE Column --------------------------------
(***************************************************************************)
(* The life of one column of one chunk: a ValueSegment that rows are       *)
(* appended to, then a DictionarySegment built from it by compression.     *)
(* The history variable log is the column the caller believes in: the      *)
(* cells of the accepted appends, in order.                                *)
(***************************************************************************)
EXTENDS TableScan

CONSTANT MaxRows      \* bound: rows of the column

ASSUME MaxRowsAssumption == MaxRows \in Nat /\ MaxRows <= NumericMax[3]

VARIABLES segment, log

vars == <<segment, log>>

Init ==
    /\ \E type \in DataType, nullable \in BOOLEAN :
           segment = NewValueSegment(type, nullable)
    /\ log = <<>>

\* ValueSegment::append.  A variant it does not accept makes it throw before
\* anything is pushed.
AppendValue(variant) ==
    /\ segment.kind = "value"
    /\ Len(log) < MaxRows
    /\ Accepts(segment, variant)
    /\ segment' = SegmentAppend(segment, variant)
    /\ log' = Append(log, CellOf(segment.type, variant))

\* DictionarySegment's constructor; the value segment is released.
Compress ==
    /\ segment.kind = "value"
    /\ segment' = MakeDictionarySegment(segment)
    /\ UNCHANGED log

Next == (\E variant \in AllTypeVariant : AppendValue(variant)) \/ Compress

Spec == Init /\ [][Next]_vars

-----------------------------------------------------------------------------
(* Type invariant *)

\* The segment is of one of the two kinds, with one flag per value when it is
\* nullable, and log is a sequence of cells.
ColumnTypeOK ==
    /\ segment \in ValueSegments \cup DictionarySegments
    /\ log \in Seq(Cell)

-----------------------------------------------------------------------------
(* Safety *)

Compressed == segment.kind = "dictionary"

HasNull == NULL \in Range(log)

\* No logical value is smaller than or equal to the T{} that stands in for NULL.
DefaultIsReserved == \A v \in Range(log) : v # NULL => v > DefaultValue

\* A segment reads back as its rows were appended.
ReadsBack == \A i \in DOMAIN log : GetTypedValue(segment, i) = log[i]

\* Reading (get_typed_value) returns the appended cells, before and after
\* compression, except in exactly one situation: the column was compressed
\* while it held a NULL and a value at or below T{}.
LosslessExactlyWhen ==
    /\ SegmentSize(segment) = Len(log)
    /\ ReadsBack <=> (~Compressed \/ ~HasNull \/ DefaultIsReserved)

\* What compression loses is the least value stored and nothing else: NULL
\* rows stay NULL, and a row that reads differently held the least value of
\* the column.
DamageConfined ==
    \A i \in DOMAIN log :
        GetTypedValue(segment, i) # log[i] =>
            /\ log[i] # NULL
            /\ \A j \in DOMAIN log : log[j] # NULL => log[i] <= log[j]

\* The sentinel for NULL is never taken by a value: with no NULL among the
\* rows no attribute equals null_value_id, whatever the width (null_value_id
\* itself may need one bit more than the attributes).
NullIdIsFree ==
    Compressed /\ ~HasNull =>
        \A i \in DOMAIN log : segment.attributes[i] # NullValueId(segment)

\* Attribute vector and dictionary encode the order of the values: rows that
\* hold dictionary values compare like their ValueIDs, and every dictionary
\* entry is used by some row, but for one: T{} stays in the dictionary when
\* only NULLs have it, and two values below it.
EncodingPreservesOrder ==
    Compressed =>
        /\ \A i, j \in DOMAIN log :
              /\ log[i] \in Range(segment.dictionary)
              /\ log[j] \in Range(segment.dictionary)
              => (log[i] < log[j] <=> segment.attributes[i] < segment.attributes[j])
        /\ \A k \in DOMAIN segment.dictionary :
              (\E i \in DOMAIN log : segment.attributes[i] = k - 1)
                <=> \/ k = 1
                    \/ segment.dictionary[k] # DefaultValue
                    \/ DefaultValue \in Range(log)

\* Every scan type, by ValueIDs on the dictionary or by values, selects
\* exactly the non-NULL rows whose value as read from the segment compares,
\* for search values inside and outside the dictionary.
ScanAgreesWithReads ==
    \A op \in ScanType, value \in Values :
        ScanSegment(segment, op, value) =
            {i \in DOMAIN log : /\ GetTypedValue(segment, i) # NULL
                                /\ ScanOperation(op, GetTypedValue(segment, i), value)}

-----------------------------------------------------------------------------
(* What the documentation says *)

\* table_test.cpp:134, "Checking if compressed chunk and data copy are still
\* equal": a compressed segment reads as the data it was built from.
CompressedEqualsData == Compressed => ReadsBack

\* dictionary_segment.hpp:19, "Returns the value at a certain position":
\* operator[] has one possible result, and it is the cell get_typed_value reads.
ElementAccessDefined ==
    \A i \in DOMAIN log : ElementAt(segment, i) = {GetTypedValue(segment, i)}
=============================================================================
