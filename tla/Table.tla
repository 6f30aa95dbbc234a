------------------------------- MODULE Table ---------------------------------
(***************************************************************************)
(* A Table and the calls that change it.  Chunks and columns are numbered  *)
(* from 1.  The table is not thread-safe and has one caller, so a call is  *)
(* one step; compress_chunk, which starts threads of its own, is one step  *)
(* here and is taken apart in CompressChunk.                               *)
(*                                                                         *)
(* call holds the last call and how it ended: "ok", "throws" (the caller   *)
(* catches the exception and goes on), "terminates" (std::terminate) or    *)
(* "undefined" (the code reads or writes outside of a vector, or through a *)
(* null pointer); after the last two there is no further call.             *)
(***************************************************************************)
EXTENDS Chunk

CONSTANTS
    ColumnName,     \* names a caller gives to columns
    TargetSizes,    \* values of the constructor's target_chunk_size
    DebugBuild,     \* OPOSSUM_DEBUG: DebugAssert throws, otherwise it is void
    ThreadsMayFail, \* the system may refuse to start a thread
    MaxColumns,     \* bound: columns defined
    MaxChunks,      \* bound: chunks
    MaxRows         \* bound: rows in the table

ASSUME TableAssumption ==
    /\ TargetSizes \subseteq Nat
    /\ DebugBuild \in BOOLEAN /\ ThreadsMayFail \in BOOLEAN
    /\ MaxColumns \in Nat /\ MaxChunks \in Nat \ {0} /\ MaxRows \in Nat

VARIABLES chunks, columns, target, call

vars == <<chunks, columns, target, call>>

ColumnDefinition == [name : ColumnName, type : DataType, nullable : BOOLEAN]

\* Rows a caller passes to append, not always of the table's arity.
Rows == UNION {[1 .. n -> AllTypeVariant] : n \in 0 .. MaxColumns}

Calls == [op : {"Table", "add_column_definition", "add_column",
                "create_new_chunk", "append", "compress_chunk"},
          row : Rows,
          outcome : {"ok", "throws", "terminates", "undefined"}]

Call(op, outcome) == [op |-> op, row |-> <<>>, outcome |-> outcome]

\* The process is there and its memory is intact.
Alive == call.outcome \in {"ok", "throws"}

LastChunk == chunks[Len(chunks)]

\* ChunkOffset is an u_int32_t: bound on the rows of a chunk.
MaxChunkOffset == NumericMax[3]

\* Table::row_count; a chunk counts by the size of its first segment.
RowCount ==
    LET rows[k \in 0 .. Len(chunks)] ==
            IF k = 0 THEN 0 ELSE rows[k - 1] + ChunkSize(chunks[k])
    IN  rows[Len(chunks)]

\* The explicit constructor: one empty chunk.
Init ==
    /\ chunks = <<NewChunk>>
    /\ columns = <<>>
    /\ target \in TargetSizes
    /\ call = Call("Table", "ok")

HasColumn(name) == \E c \in DOMAIN columns : columns[c].name = name

AddColumnDefinition(def) ==
    /\ Alive
    /\ Len(columns) < MaxColumns
    /\ IF HasColumn(def.name)
       THEN /\ call' = Call("add_column_definition", "throws")
            /\ UNCHANGED columns
       ELSE /\ call' = Call("add_column_definition", "ok")
            /\ columns' = Append(columns, def)
    /\ UNCHANGED <<chunks, target>>

\* Mutant: the segment is pushed before the name is checked.
AddColumn_SegmentFirst(def) ==
    /\ Alive
    /\ Len(columns) < MaxColumns
    /\ IF DebugBuild /\ ChunkSize(chunks[1]) # 0
       THEN call' = Call("add_column", "throws") /\ UNCHANGED <<chunks, columns>>
       ELSE /\ chunks' = [chunks EXCEPT ![1] =
                             AddSegment(@, NewValueSegment(def.type, def.nullable))]
            /\ IF HasColumn(def.name)
               THEN call' = Call("add_column", "throws") /\ UNCHANGED columns
               ELSE call' = Call("add_column", "ok") /\ columns' = Append(columns, def)
    /\ UNCHANGED target

\* The only chunk looked at, and the only one that gets a segment, is the first.
AddColumn(def) ==
    /\ Alive
    /\ Len(columns) < MaxColumns
    /\ IF (DebugBuild /\ ChunkSize(chunks[1]) # 0) \/ HasColumn(def.name)
       THEN /\ call' = Call("add_column", "throws")
            /\ UNCHANGED <<chunks, columns>>
       ELSE /\ call' = Call("add_column", "ok")
            /\ columns' = Append(columns, def)
            /\ chunks' = [chunks EXCEPT ![1] =
                             AddSegment(@, NewValueSegment(def.type, def.nullable))]
    /\ UNCHANGED target

\* Mutant: the segments of a new chunk are not nullable.
FreshChunk_NotNullable ==
    [c \in DOMAIN columns |-> NewValueSegment(columns[c].type, FALSE)]

\* The chunk create_new_chunk pushes: an empty value segment per column.
FreshChunk ==
    [c \in DOMAIN columns |-> NewValueSegment(columns[c].type, columns[c].nullable)]

CreateNewChunk ==
    /\ Alive
    /\ Len(chunks) < MaxChunks
    /\ chunks' = Append(chunks, FreshChunk)
    /\ call' = Call("create_new_chunk", "ok")
    /\ UNCHANGED <<columns, target>>

\* The first segment is a DictionarySegment of the first column's type.
IsDictionaryEncoded(chunk) ==
    chunk[1].kind = "dictionary" /\ chunk[1].type = columns[1].type

\* Mutant: the comparison lets one more row in.
NeedsNewChunk_OneTooMany == ChunkSize(LastChunk) > target \/ IsDictionaryEncoded(LastChunk)

\* Mutant: a compressed chunk is not recognised.
NeedsNewChunk_SizeOnly == ChunkSize(LastChunk) = target

NeedsNewChunk == ChunkSize(LastChunk) = target \/ IsDictionaryEncoded(LastChunk)

\* The chunks when Chunk::append is called: a new one is there even if the
\* row is then refused.
ChunksForAppend == IF NeedsNewChunk THEN Append(chunks, FreshChunk) ELSE chunks

\* Without columns, or without segments in the last chunk, the look at the
\* first segment is out of bounds; so is reading a row behind its end, which
\* happens unless a column before that throws.  The DebugAssert on the arity is
\* in Chunk::append.
AppendRow(values) ==
    LET returns(outcome) == call' = [op |-> "append", row |-> values, outcome |-> outcome]
    IN  /\ Alive
        /\ RowCount < MaxRows
        /\ ChunkSize(LastChunk) < MaxChunkOffset
        /\ IF columns = <<>> \/ LastChunk = NewChunk
           THEN returns("undefined") /\ UNCHANGED chunks
           ELSE LET into == ChunksForAppend
                    last == Len(into)
                IN  /\ last <= MaxChunks
                    /\ IF Len(values) # ColumnCountOf(into[last]) /\ DebugBuild
                       THEN returns("throws") /\ chunks' = into
                       ELSE IF /\ Len(values) < ColumnCountOf(into[last])
                               /\ ~ChunkAppendThrows(into[last], values)
                       THEN returns("undefined") /\ UNCHANGED chunks
                       ELSE /\ chunks' = [into EXCEPT ![last] = ChunkAppend(@, values)]
                            /\ returns(IF ChunkAppendThrows(into[last], values)
                                       THEN "throws" ELSE "ok")
        /\ UNCHANGED <<columns, target>>

\* How the thread for column c ends.  get_chunk throws on an id out of range
\* and the DebugAssert of DictionarySegment on a segment that is no
\* ValueSegment of the column's type; an exception that leaves a thread ends
\* in std::terminate.  get_segment does not check its index.
ThreadOutcome(id, c) ==
    IF id \notin DOMAIN chunks THEN "terminates"
    ELSE IF c \notin DOMAIN chunks[id] THEN "undefined"
    ELSE IF chunks[id][c].kind = "value" /\ chunks[id][c].type = columns[c].type THEN "ok"
    ELSE IF DebugBuild THEN "terminates" ELSE "undefined"

\* When the constructor of a std::thread throws, the call ends with that
\* exception if it is the first thread, and otherwise in std::terminate, by the
\* destructor of a thread that was started and not joined.
SpawnFailures ==
    IF ~ThreadsMayFail THEN {}
    ELSE {IF c = 1 THEN "throws" ELSE "terminates" : c \in DOMAIN columns}

CompressFailures(id) ==
    SpawnFailures \cup ({ThreadOutcome(id, c) : c \in DOMAIN columns} \ {"ok"})

\* With no columns there is no thread to fail on a bad id, but the assignment
\* to _chunks[chunk_id] at the end.
CompressReturns(id) ==
    IF \A c \in DOMAIN columns : ThreadOutcome(id, c) = "ok"
    THEN {IF id \in DOMAIN chunks THEN "ok" ELSE "undefined"} ELSE {}

\* Mutant: the loop over the columns starts at the second one.
CompressedChunk_FromSecond(chunk) ==
    [c \in DOMAIN columns |-> IF c = 1 THEN chunk[c] ELSE MakeDictionarySegment(chunk[c])]

\* Mutant: the threads share col_id by reference and all see its last value.
CompressedChunk_SharedIndex(chunk) ==
    [c \in DOMAIN columns |-> MakeDictionarySegment(chunk[Len(columns)])]

CompressedChunk(chunk) == [c \in DOMAIN columns |-> MakeDictionarySegment(chunk[c])]

CompressChunk(id) ==
    /\ Alive
    /\ \E outcome \in CompressFailures(id) \cup CompressReturns(id) :
          /\ call' = Call("compress_chunk", outcome)
          /\ chunks' = IF outcome = "ok" THEN [chunks EXCEPT ![id] = CompressedChunk(@)]
                                         ELSE chunks
    /\ UNCHANGED <<columns, target>>

\* column_name, column_type and column_nullable of a table with these columns,
\* for a 0-based column id: the one behind the last is not refused.
ColumnGetterOutcome(cols, id) ==
    IF id > Len(cols) THEN "throws" ELSE IF id = Len(cols) THEN "undefined" ELSE "ok"

Next ==
    \/ \E def \in ColumnDefinition : AddColumnDefinition(def) \/ AddColumn(def)
    \/ CreateNewChunk
    \/ \E values \in Rows : AppendRow(values)
    \/ \E id \in 1 .. MaxChunks : CompressChunk(id)

Spec == Init /\ [][Next]_vars

-----------------------------------------------------------------------------
(* Type invariant *)

\* There is always a chunk, every chunk is a sequence of well-formed value and
\* dictionary segments, and no chunk has more of them than there are columns.
TypeOK ==
    /\ chunks \in Seq(Chunks) /\ chunks # <<>>
    /\ columns \in Seq(ColumnDefinition)
    /\ \A k \in DOMAIN chunks : Len(chunks[k]) <= Len(columns)
    /\ target \in TargetSizes
    /\ call \in Calls

-----------------------------------------------------------------------------
(* Safety, for any sequence of calls, failing ones and both builds included *)

\* append looks at the first segment only to see whether the chunk is
\* compressed.  That is enough: to the left of a dictionary segment there are
\* dictionary segments, up to a first one that has the first column's type.
FirstSegmentTells ==
    \A k \in DOMAIN chunks : \A c \in DOMAIN chunks[k] :
        chunks[k][c].kind = "dictionary" => IsDictionaryEncoded(chunks[k])

\* Within a chunk no segment is longer than one to its left, although rows
\* break off midway and columns are added late: so Chunk::size, the size of
\* the first segment, bounds every segment and no offset below it was skipped.
SegmentsShrinkRightward ==
    \A k \in DOMAIN chunks : \A b, c \in DOMAIN chunks[k] :
        b < c => SegmentSize(chunks[k][c]) <= SegmentSize(chunks[k][b])

\* table.hpp:15, "the maximum chunk size": no segment of any chunk outgrows a
\* target size other than 0.
ChunksWithinTarget ==
    target > 0 => \A k \in DOMAIN chunks : \A c \in DOMAIN chunks[k] :
                      SegmentSize(chunks[k][c]) <= target

\* The step made every segment of the last chunk longer by the value passed.
RowIsStored ==
    \A c \in DOMAIN chunks'[Len(chunks')] :
        LET segment == chunks'[Len(chunks')][c]
        IN  /\ SegmentSize(segment) =
                  1 + (IF Len(chunks') > Len(chunks) THEN 0
                       ELSE SegmentSize(chunks[Len(chunks)][c]))
            /\ GetTypedValue(segment, SegmentSize(segment)) =
                  CellOf(segment.type, call'.row[c])

\* An append that returns normally lengthened every segment of the last chunk
\* by the one value passed: none was skipped by append_with_type.
AppendIsWhole ==
    [][call'.op = "append" /\ call'.outcome = "ok" => RowIsStored]_vars

\* The segment has a NULL and a value at or below T{}.
LosesByCompression(segment) ==
    /\ ContainsNull(segment)
    /\ \E i \in DOMAIN segment.values :
          ~IsNull(segment, i) /\ segment.values[i] <= DefaultValue

\* The step kept every filled position, or compressed a segment that loses.
PositionsKept ==
    \A k \in DOMAIN chunks : \A c \in DOMAIN chunks[k] :
        LET before == chunks[k][c]
            after  == chunks'[k][c]
        IN  /\ SegmentSize(after) >= SegmentSize(before)
            /\ \A i \in 1 .. SegmentSize(before) :
                  GetTypedValue(after, i) # GetTypedValue(before, i) =>
                      call'.op = "compress_chunk" /\ LosesByCompression(before)

\* A position (chunk, column, offset) once filled stays filled, and reads the
\* same for ever; only compress_chunk may change it, and only in a segment
\* that has a NULL and a value at or below T{}.
PositionsAreStable == [][PositionsKept]_vars

-----------------------------------------------------------------------------
(* What the documentation and the tests say *)

\* chunk.hpp:30, append "Adds a new row"; chunk_test.cpp:44 expects the size
\* after a refused append to be the size before: a call that throws leaves the
\* segments that were there as they were.
RefusedAppendLeavesNothing ==
    [][call'.op = "append" /\ call'.outcome = "throws" =>
          \A k \in DOMAIN chunks : chunks'[k] = chunks[k]]_vars

\* table.hpp:63, adding a column "can only be done if the table does not yet
\* have any entries".
ColumnsOnlyWithoutRows ==
    [][call'.op = "add_column" /\ call'.outcome = "ok" => RowCount = 0]_vars
=============================================================================
