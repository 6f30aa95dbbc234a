------------------------------- MODULE Query ---------------------------------
(***************************************************************************)
(* A Table and the result of scanning it.  The result (output) is a table  *)
(* of reference segments: positions in the table, which goes on being      *)
(* changed.  A TableScan reads the table or the last output, so that scans *)
(* of scans of any depth occur; the output of a scan of an output refers   *)
(* to the table, too.                                                      *)
(*                                                                         *)
(* There is one table, so a reference segment does not name the table it   *)
(* refers to; the target size an output copies is never used.  An offset   *)
(* or chunk of 0 is the invalid one of NULL_ROW_ID.                        *)
(***************************************************************************)
EXTENDS Table, TableScan, SequencesExt

CONSTANT MaxPositions   \* bound: length of a PosList made by the caller

ASSUME QueryAssumption == MaxPositions \in Nat

VARIABLES
    output,     \* the last output, with no chunks if there is none
    through,    \* history: the rightmost column looked at on the way to it
    query       \* how the last scan ended: "ok", "throws" or "undefined"

queryVars == <<vars, output, through, query>>

QueryAlive == Alive /\ query # "undefined"

-----------------------------------------------------------------------------
(* ReferenceSegment and the Table constructor that makes them *)

NULL_ROW_ID == [chunk |-> 0, offset |-> 0]

RowIDs(k, size) == [i \in 1 .. size |-> [chunk |-> k, offset |-> i]]

ReferenceSegment(column, pos) ==
    [kind |-> "reference", column |-> column, pos |-> pos]

SizeOf(chunk) ==
    IF chunk = NewChunk THEN 0
    ELSE IF chunk[1].kind = "reference" THEN Len(chunk[1].pos) ELSE ChunkSize(chunk)

\* The segment and the offset in it that the table has at this position.
InBounds(column, row) ==
    /\ row.chunk \in DOMAIN chunks
    /\ column \in DOMAIN chunks[row.chunk]
    /\ row.offset <= SegmentSize(chunks[row.chunk][column])

\* operator[] of a segment of the table, at any offset.  A value segment asks
\* its flags first, without a check, and then vector::at.
CellOutcome(segment, i) ==
    IF i > SegmentSize(segment)
    THEN IF DebugBuild \/ (segment.kind = "value" /\ ~segment.nullable)
         THEN "throws" ELSE "undefined"
    ELSE IF segment.kind = "dictionary" /\ segment.attributes[i] = NullValueId(segment)
    THEN "undefined" ELSE "ok"

\* Mutant: NULL_ROW_ID is looked up.
ReferencedOutcome_NoNullCheck(column, row) ==
    IF row.chunk \notin DOMAIN chunks THEN "throws"
    ELSE IF column \notin DOMAIN chunks[row.chunk] THEN "undefined"
    ELSE IF DebugBuild /\ ~InBounds(column, row) THEN "throws"
    ELSE CellOutcome(chunks[row.chunk][column], row.offset)

\* operator[] of a reference segment, at a position of its list.
ReferencedOutcome(column, row) ==
    IF row = NULL_ROW_ID THEN "ok"
    ELSE IF row.chunk \notin DOMAIN chunks THEN "throws"
    ELSE IF column \notin DOMAIN chunks[row.chunk] THEN "undefined"
    ELSE IF DebugBuild /\ ~InBounds(column, row) THEN "throws"
    ELSE CellOutcome(chunks[row.chunk][column], row.offset)

\* What it returns, for a position the table has.
ReferencedElement(column, row) ==
    IF row = NULL_ROW_ID THEN {NULL} ELSE ElementAt(chunks[row.chunk][column], row.offset)

\* Table(other_table, reference_segments): the definition is copied, every
\* column of a chunk gets the positions of the segment passed for the chunk.
\* Without any, there is one empty chunk of segments that hold no NULLs.
MakeOutput(cols, posLists) ==
    [columns |-> cols,
     chunks  |->
        IF posLists = <<>>
        THEN <<[c \in DOMAIN cols |-> NewValueSegment(cols[c].type, FALSE)]>>
        ELSE [k \in DOMAIN posLists |->
                 [c \in DOMAIN cols |-> ReferenceSegment(c, posLists[k])]]]

\* Of several steps in order, the first that is not "ok" decides.
FirstFailure(outcomes) ==
    LET bad == {i \in DOMAIN outcomes : outcomes[i] # "ok"}
    IN  IF bad = {} THEN "ok"
        ELSE outcomes[CHOOSE i \in bad : \A j \in bad : i <= j]

-----------------------------------------------------------------------------
(* Print *)

\* The elements of a chunk, column by column, as far as the chunk's size goes;
\* the rows are then read again, one by one, with the same outcome.
ChunkPrintOutcome(chunk) ==
    FirstFailure([c \in DOMAIN chunk |->
        FirstFailure([i \in 1 .. SizeOf(chunk) |->
            IF chunk[c].kind = "reference" THEN ReferencedOutcome(chunk[c].column, chunk[c].pos[i])
                                           ELSE CellOutcome(chunk[c], i)])])

PrintOutcome(input) ==
    FirstFailure([k \in DOMAIN input.chunks |-> ChunkPrintOutcome(input.chunks[k])])

-----------------------------------------------------------------------------
(* TableScan *)

\* One turn of _tablescan_reference_segment.
RowOutcome(type, column, row) ==
    IF row.chunk \notin DOMAIN chunks THEN "throws"
    ELSE IF column \notin DOMAIN chunks[row.chunk] THEN "undefined"
    ELSE IF chunks[row.chunk][column].type # type THEN "throws"
    ELSE IF InBounds(column, row) THEN "ok"
    ELSE IF DebugBuild THEN "throws" ELSE "undefined"

\* One turn of the loop over the chunks of the input.
ChunkOutcome(chunk, type, column, search) ==
    IF SizeOf(chunk) = 0 THEN "ok"
    ELSE IF column \notin DOMAIN chunk THEN "undefined"
    ELSE IF chunk[column].kind # "reference" /\ chunk[column].type # type THEN "throws"
    ELSE IF TypeCast[type, search] = CastError THEN "throws"
    ELSE IF chunk[column].kind # "reference" THEN "ok"
    ELSE FirstFailure([i \in DOMAIN chunk[column].pos |->
                          RowOutcome(type, column, chunk[column].pos[i])])

\* column_type(_column_id) comes first; a search for NULL ends there.
ScanOutcome(input, column, search) ==
    IF ColumnGetterOutcome(input.columns, column - 1) # "ok"
    THEN ColumnGetterOutcome(input.columns, column - 1)
    ELSE IF search = NULL THEN "ok"
    ELSE FirstFailure([k \in DOMAIN input.chunks |->
             ChunkOutcome(input.chunks[k], input.columns[column].type, column, search)])

\* The comparison made for a referenced row, by value in either kind of segment.
RowMatches(column, row, op, value) ==
    LET cell == GetTypedValue(chunks[row.chunk][column], row.offset)
    IN  cell # NULL /\ ScanOperation(op, cell, value)

\* The elements of a sequence that are in a set, in their order.
Selected(seq, S) ==
    FlattenSeq([n \in DOMAIN seq |-> IF seq[n] \in S THEN <<seq[n]>> ELSE <<>>])

\* Mutant: the position in the scanned chunk is kept, not the one it refers to.
PositionList_OfInput(k, segment, column, op, value) ==
    IF segment.kind = "reference"
    THEN LET all == RowIDs(k, Len(segment.pos))
         IN  Selected(all, {row \in Range(all) :
                               RowMatches(column, segment.pos[row.offset], op, value)})
    ELSE Selected(RowIDs(k, SegmentSize(segment)),
                  {[chunk |-> k, offset |-> i] : i \in ScanSegment(segment, op, value)})

\* The positions found in a segment of the input's chunk k.
PositionList(k, segment, column, op, value) ==
    IF segment.kind = "reference"
    THEN Selected(segment.pos,
                  {row \in Range(segment.pos) : RowMatches(column, row, op, value)})
    ELSE Selected(RowIDs(k, SegmentSize(segment)),
                  {[chunk |-> k, offset |-> i] : i \in ScanSegment(segment, op, value)})

\* The position list for a chunk; an empty chunk is skipped.
ChunkPositions(k, chunk, column, op, value) ==
    IF SizeOf(chunk) = 0 THEN <<>> ELSE PositionList(k, chunk[column], column, op, value)

\* Mutant: empty position lists are kept.
PositionLists_WithEmpty(input, column, op, search) ==
    IF search = NULL THEN <<>>
    ELSE [k \in DOMAIN input.chunks |->
             ChunkPositions(k, input.chunks[k], column, op,
                            TypeCast[input.columns[column].type, search])]

\* The non-empty position lists of a scan that ends well, in chunk order.
PositionLists(input, column, op, search) ==
    IF search = NULL THEN <<>>
    ELSE LET lists == [k \in DOMAIN input.chunks |->
                          ChunkPositions(k, input.chunks[k], column, op,
                                         TypeCast[input.columns[column].type, search])]
         IN  Selected(lists, Range(lists) \ {<<>>})

-----------------------------------------------------------------------------
(* The specification *)

BaseTable == [columns |-> columns, chunks |-> chunks]

NoOutput == [columns |-> <<>>, chunks |-> <<>>]

QueryInit == Init /\ output = NoOutput /\ through = 1 /\ query = "ok"

TableCall == QueryAlive /\ Next /\ UNCHANGED <<output, through, query>>

\* TableScan::_on_execute and AbstractOperator::execute: an exception leaves
\* the output as it was.
Scan(input, column, op, search) ==
    /\ QueryAlive
    /\ query' = ScanOutcome(input, column, search)
    /\ output' = IF query' = "ok"
                 THEN MakeOutput(input.columns, PositionLists(input, column, op, search))
                 ELSE output
    /\ UNCHANGED vars

ScanTable(column, op, search) ==
    /\ Scan(BaseTable, column, op, search)
    /\ through' = IF query' = "ok" THEN column ELSE through

ScanOutput(column, op, search) ==
    /\ output # NoOutput
    /\ Scan(output, column, op, search)
    /\ through' = IF query' = "ok" /\ column > through THEN column ELSE through

\* Print::_on_execute; its output is its input.
PrintTable(input) ==
    /\ QueryAlive
    /\ query' = PrintOutcome(input)
    /\ UNCHANGED <<vars, output, through>>

\* The caller makes a table of references to rows of the table, in any order,
\* more than once, and with NULL_ROW_ID among them.
Refer(pos) ==
    /\ QueryAlive
    /\ columns # <<>>
    /\ output' = MakeOutput(columns, <<pos>>)
    /\ through' = 1
    /\ query' = "ok"
    /\ UNCHANGED vars

\* Rows counted by Table::row_count, and NULL_ROW_ID.
Referable ==
    {NULL_ROW_ID} \cup
    UNION {Range(RowIDs(k, ChunkSize(chunks[k]))) : k \in DOMAIN chunks}

QueryNext ==
    \/ TableCall
    \/ \E column \in 1 .. MaxColumns, op \in ScanType, search \in AllTypeVariant :
          ScanTable(column, op, search) \/ ScanOutput(column, op, search)
    \/ PrintTable(BaseTable) \/ PrintTable(output)
    \/ \E n \in 1 .. MaxPositions : \E pos \in [1 .. n -> Referable] : Refer(pos)

QuerySpec == QueryInit /\ [][QueryNext]_queryVars

-----------------------------------------------------------------------------
(* Type invariant *)

Positions == {[chunk |-> k, offset |-> i] : k \in 0 .. MaxChunks, i \in 0 .. MaxChunkOffset}

\* An output has all columns of its definition in each of its chunks, and
\* either position lists in all of them or one empty chunk.
QueryTypeOK ==
    /\ TypeOK
    /\ query \in {"ok", "throws", "undefined"}
    /\ through \in Nat
    /\ output.columns \in Seq(ColumnDefinition)
    /\ \A k \in DOMAIN output.chunks :
          /\ DOMAIN output.chunks[k] = DOMAIN output.columns
          /\ \A c \in DOMAIN output.columns :
                LET segment == output.chunks[k][c]
                IN  IF segment.kind = "reference"
                    THEN /\ segment.column = c
                         /\ segment.pos \in Seq(Positions) \ {<<>>}
                    ELSE /\ Len(output.chunks) = 1
                         /\ segment = NewValueSegment(output.columns[c].type, FALSE)

-----------------------------------------------------------------------------
(* Safety *)

\* The position lists of a table of reference segments, one after the other.
PositionsOf(table) ==
    FlattenSeq([k \in DOMAIN table.chunks |->
                   IF SizeOf(table.chunks[k]) = 0 THEN <<>> ELSE table.chunks[k][1].pos])

\* A position of an output is one the table has, in every column up to the
\* rightmost that a scan on the way to the output has looked at: rows that
\* broke off midway are missing further to the right only, and nothing that
\* happens to the table later takes a position away.
PositionsInBounds ==
    \A row \in Range(PositionsOf(output)) \ {NULL_ROW_ID} :
        \A column \in DOMAIN output.columns : column <= through => InBounds(column, row)

\* The rows that a scan of the input finds, in order.
Found(input, column, op, search) == FlattenSeq(PositionLists(input, column, op, search))

\* A scan of an output, which compares values, and a scan of the table, which
\* compares ValueIDs in compressed chunks, agree: the second keeps, in their
\* order, those positions of the output that the first finds.
RescanIsIntersection ==
    \A column \in DOMAIN output.columns, search \in AllTypeVariant :
        /\ PositionsOf(output) # <<>>
        /\ ScanOutcome(output, column, search) = "ok"
        /\ ScanOutcome(BaseTable, column, search) = "ok"
        => \A op \in ScanType :
              LET rows == Range(Found(BaseTable, column, op, search))
              IN  Found(output, column, op, search) =
                     Selected(PositionsOf(output), rows)

\* The step left every element of the output as it was, or compressed its
\* segment and the element was a NULL, or in a segment that loses values.
ElementsKept ==
    \A row \in Range(PositionsOf(output)) \ {NULL_ROW_ID}, column \in DOMAIN output.columns :
        LET segment == chunks[row.chunk][column]
        IN  InBounds(column, row) /\ ReferencedElement(column, row)' # ReferencedElement(column, row)
                => /\ call'.op = "compress_chunk"
                   /\ \/ GetTypedValue(segment, row.offset) = NULL
                      \/ LosesByCompression(segment)

\* An output can be read at any time after the scan, through appends, new
\* chunks, refused rows and failing calls; only compress_chunk may change an
\* element, and only a NULL, or one in a segment that has a NULL and a value
\* at or below T{}.
OutputsAreStable == [][ElementsKept]_queryVars

\* Print reads elements as a caller does, without asking for NULLs or bounds.
\* If it gets through the table, in which every chunk has a segment for each
\* column, it gets through every output, whatever has happened to the table
\* since the scan: an output adds no way to fail.
OutputPrintsIfTableDoes ==
    /\ PrintOutcome(BaseTable) = "ok"
    /\ \A k \in DOMAIN chunks : Len(chunks[k]) = Len(columns)
    => PrintOutcome(output) = "ok"
=============================================================================
