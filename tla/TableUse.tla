------------------------------ MODULE TableUse -------------------------------
(***************************************************************************)
(* A Table in the hands of a caller who does what table.hpp and the tests  *)
(* do, and never runs into one of the corners the Table specification has: *)
(*   - every column comes with add_column, before any create_new_chunk     *)
(*     (add_column gives its segment to the first chunk only);             *)
(*   - a row that is refused is refused by its arity or by its first       *)
(*     column (Chunk::append keeps the columns left of the refusal);       *)
(*   - rows are appended to a table with columns;                          *)
(*   - a chunk is compressed once, and the values are above T{}, or there  *)
(*     is no NULL among them;                                              *)
(*   - the target size is not 0, which bounds nothing.                     *)
(* Under these rules the Table implements AbstractTable, in a debug build, *)
(* where DebugAssert checks the arity of a row and the emptiness of the    *)
(* table, and as long as the system does not refuse to start a thread.     *)
(***************************************************************************)
EXTENDS Table

ASSUME UseAssumption == DebugBuild /\ ~ThreadsMayFail

\* The row is refused at once or not at all.
RefusedWhole(values) ==
    LET chunk == ChunksForAppend[Len(ChunksForAppend)]
    IN  Len(values) = ColumnCountOf(chunk) /\ ChunkAppendThrows(chunk, values)
            => 1 \in RejectingColumns(chunk, values)

\* DictionarySegment keeps what is in this segment.
KeepsValues(segment) ==
    ContainsNull(segment) =>
        \A i \in DOMAIN segment.values :
            IsNull(segment, i) \/ segment.values[i] > DefaultValue

UseAddColumn(def) == Len(chunks) = 1 /\ AddColumn(def)

UseAppend(values) == columns # <<>> /\ RefusedWhole(values) /\ AppendRow(values)

UseCompress(id) ==
    /\ id \in DOMAIN chunks
    /\ \A c \in DOMAIN chunks[id] : chunks[id][c].kind = "value" /\ KeepsValues(chunks[id][c])
    /\ CompressChunk(id)

UseNext ==
    \/ \E def \in ColumnDefinition : UseAddColumn(def)
    \/ CreateNewChunk
    \/ \E values \in Rows : UseAppend(values)
    \/ \E id \in 1 .. MaxChunks : UseCompress(id)

UseInit == Init /\ target > 0

UseSpec == UseInit /\ [][UseNext]_vars

-----------------------------------------------------------------------------
(* Refinement *)

\* Row i of a chunk as the typed reads of its segments give it.
RowOf(chunk, i) == [c \in DOMAIN chunk |-> GetTypedValue(chunk[c], i)]

Abstract == INSTANCE AbstractTable WITH
    schema <- columns,
    limit  <- target,
    parts  <- [k \in DOMAIN chunks |->
                  [i \in 1 .. ChunkSize(chunks[k]) |-> RowOf(chunks[k], i)]]

\* Every step of the documented use is a step of the abstract table: the rows
\* appended are the rows read, in order, through chunk turnover, refused rows
\* and compression; no call ends in std::terminate or undefined behaviour.
ImplementsAbstractTable == Abstract!Spec
=============================================================================
