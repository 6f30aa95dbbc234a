------------------------------- MODULE Chunk ---------------------------------
(***************************************************************************)
(* A Chunk is the sequence of its segments, one per column, left to right. *)
(***************************************************************************)
EXTENDS Segments

NewChunk == <<>>

AddSegment(chunk, segment) == Append(chunk, segment)

ColumnCountOf(chunk) == Len(chunk)

\* Chunk::size: the size of the first segment, whatever the others have.
ChunkSize(chunk) == IF chunk = NewChunk THEN 0 ELSE SegmentSize(chunk[1])

\* append_with_type, tried for every type: true for a value segment only.  A
\* segment of another kind is skipped without an error.
TakesValues(segment) == segment.kind = "value"

\* The columns whose ValueSegment::append throws for this row.
RejectingColumns(chunk, values) ==
    {c \in DOMAIN chunk \cap DOMAIN values :
        TakesValues(chunk[c]) /\ ~Accepts(chunk[c], values[c])}

\* Mutant: the loop goes on after a segment that refused its value.
ChunkAppend_GoesOn(chunk, values) ==
    [c \in DOMAIN chunk |->
        IF TakesValues(chunk[c]) /\ c \in DOMAIN values \ RejectingColumns(chunk, values)
        THEN SegmentAppend(chunk[c], values[c])
        ELSE chunk[c]]

\* The loop of Chunk::append goes from left to right and is left by the first
\* exception: the columns before it keep their new value.  A row that is too
\* short is not noticed before its end.
ChunkAppend(chunk, values) ==
    [c \in DOMAIN chunk |->
        IF TakesValues(chunk[c]) /\ \A r \in RejectingColumns(chunk, values) : c < r
        THEN SegmentAppend(chunk[c], values[c])
        ELSE chunk[c]]

ChunkAppendThrows(chunk, values) == RejectingColumns(chunk, values) # {}

Chunks == Seq(ValueSegments \cup DictionarySegments)
=============================================================================
