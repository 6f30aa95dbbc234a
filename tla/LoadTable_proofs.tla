-------------------------- MODULE LoadTable_proofs ---------------------------
(***************************************************************************)
(* A table used by the rules of TableUse is an AbstractTable, and what     *)
(* load_table makes of a file, for every schema, file, chunk size and set  *)
(* of values.                                                              *)
(***************************************************************************)
EXTENDS LoadTable, Table_proofs

-----------------------------------------------------------------------------
(* The rules of TableUse keep every chunk whole: it has a segment for each *)
(* column, of the column's type, and all of them are of one size.          *)

WholeChunk(chunk, cols) ==
    /\ Len(chunk) = Len(cols)
    /\ \A c \in DOMAIN chunk :
          /\ chunk[c].type = cols[c].type
          /\ chunk[c].kind = "value" => chunk[c].nullable = cols[c].nullable
          /\ SegmentSize(chunk[c]) = ChunkSize(chunk)

UseInv == IInv /\ \A k \in DOMAIN chunks : WholeChunk(chunks[k], columns)

\* The rows of a chunk, as AbstractTable has them.
PartOf(chunk) == [i \in 1 .. ChunkSize(chunk) |-> RowOf(chunk, i)]

LEMMA ChunkSizeType ==
    ASSUME NEW chunk \in Chunks
    PROVE  /\ ChunkSize(chunk) \in Nat
           /\ PartOf(chunk) \in Seq(Range(PartOf(chunk)))
           /\ Len(PartOf(chunk)) = ChunkSize(chunk)
           /\ chunk # NewChunk => 1 \in DOMAIN chunk /\ ChunkSize(chunk) = SegmentSize(chunk[1])
<1>1. chunk # NewChunk => 1 \in DOMAIN chunk
  BY ChunkType DEF NewChunk, Chunks
<1>2. ChunkSize(chunk) \in Nat
  BY <1>1, ChunkType DEF ChunkSize
<1>3. PartOf(chunk) \in [1 .. ChunkSize(chunk) -> Range(PartOf(chunk))]
  BY DEF PartOf, Range
<1> QED
  BY <1>1, <1>2, <1>3 DEF ChunkSize

LEMMA FreshChunkIsWhole ==
    ASSUME columns \in Seq(ColumnDefinition), target \in TargetSizes
    PROVE  /\ WholeChunk(FreshChunk, columns)
           /\ ChunkSize(FreshChunk) = 0 /\ PartOf(FreshChunk) = <<>>
<1>1. /\ FreshChunk \in Chunks /\ Len(FreshChunk) = Len(columns)
      /\ DOMAIN FreshChunk = DOMAIN columns
      /\ \A c \in DOMAIN FreshChunk : SegmentSize(FreshChunk[c]) = 0
  BY FreshChunkInv DEF ChunkInv, FreshChunk
<1>2. ChunkSize(FreshChunk) = 0
  BY <1>1, ChunkSizeType DEF ChunkSize
<1>3. \A c \in DOMAIN FreshChunk : /\ FreshChunk[c].type = columns[c].type
                                   /\ FreshChunk[c].nullable = columns[c].nullable
  BY DEF FreshChunk, NewValueSegment
<1> QED
  BY <1>1, <1>2, <1>3 DEF WholeChunk, PartOf

\* The row fits the columns of the chunk.
FitsChunk(chunk, values) ==
    Len(values) = Len(chunk) /\ RejectingColumns(chunk, values) = {}

\* A row that fits is the new last row of a chunk that has no dictionary
\* segments; the rows before it stay.
LEMMA GrownChunk ==
    ASSUME NEW chunk \in Chunks, WholeChunk(chunk, columns), chunk # NewChunk,
           \A c \in DOMAIN chunk : chunk[c].kind = "value",
           NEW values \in Rows, FitsChunk(chunk, values)
    PROVE  LET after == ChunkAppend(chunk, values)
           IN  /\ WholeChunk(after, columns)
               /\ PartOf(after) =
                     Append(PartOf(chunk), [c \in DOMAIN chunk |->
                                               CellOf(chunk[c].type, values[c])])
<1> DEFINE after == ChunkAppend(chunk, values)
           n == ChunkSize(chunk)
           cells == [c \in DOMAIN chunk |-> CellOf(chunk[c].type, values[c])]
<1>1. /\ Len(chunk) \in Nat /\ DOMAIN chunk = 1 .. Len(chunk) /\ 1 \in DOMAIN chunk
      /\ n \in Nat /\ Len(chunk) <= Len(values)
      /\ \A c \in DOMAIN chunk : chunk[c] \in ValueSegments
  BY ChunkType, ChunkSizeType, SegmentSizeType DEF FitsChunk
<1>2. /\ after \in Chunks /\ Len(after) = Len(chunk)
      /\ \A c \in DOMAIN chunk :
            /\ after[c] = SegmentAppend(chunk[c], values[c])
            /\ values[c] \in AllTypeVariant /\ Accepts(chunk[c], values[c])
            /\ SegmentSize(after[c]) = SegmentSize(chunk[c]) + 1
  BY <1>1, ChunkAppendProperties DEF FitsChunk
<1>3. \A c \in DOMAIN chunk : SegmentSize(chunk[c]) = n /\ Len(chunk[c].values) = n
  BY <1>1 DEF WholeChunk, SegmentSize, ValueSegments
<1>4. DOMAIN after = DOMAIN chunk /\ after # NewChunk
  BY <1>1, <1>2, ChunkType DEF NewChunk
<1>5. ASSUME NEW c \in DOMAIN chunk
      PROVE  /\ GetTypedValue(after[c], n + 1) = cells[c]
             /\ \A i \in 1 .. n : GetTypedValue(after[c], i) = GetTypedValue(chunk[c], i)
             /\ after[c].type = chunk[c].type
             /\ after[c].nullable = chunk[c].nullable
             /\ SegmentSize(after[c]) = n + 1
  <2>1. chunk[c] \in ValueSegments
    BY <1>1
  <2>2. after[c].nullable = chunk[c].nullable
    BY <1>2, <2>1 DEF SegmentAppend, ValueSegments
  <2> QED
    BY <1>2, <1>3, <2>1, <2>2, SegmentAppendReads
<1> HIDE DEF after, n, cells
<1>6. ChunkSize(after) = n + 1
  BY <1>1, <1>4, <1>5 DEF ChunkSize
<1>7. WholeChunk(after, columns)
  BY <1>2, <1>4, <1>5, <1>6 DEF WholeChunk
<1>8. RowOf(after, n + 1) = cells
  <2>1. RowOf(after, n + 1) = [c \in DOMAIN chunk |-> cells[c]]
    BY <1>4, <1>5 DEF RowOf
  <2> QED
    BY <2>1 DEF cells
<1>9. \A i \in 1 .. n : RowOf(after, i) = RowOf(chunk, i)
  BY <1>4, <1>5 DEF RowOf
<1>10. PartOf(after) = Append(PartOf(chunk), cells)
  <2>1. PartOf(chunk) = [i \in 1 .. n |-> RowOf(chunk, i)]
    BY DEF PartOf, n
  <2>2. PartOf(after) = [i \in 1 .. n + 1 |-> IF i = n + 1 THEN cells ELSE RowOf(chunk, i)]
    BY <1>1, <1>6, <1>8, <1>9 DEF PartOf
  <2> QED
    BY <1>1, <2>1, <2>2
<1> QED
  BY <1>7, <1>10 DEF after, cells

\* Compression of a chunk whose values are kept cannot be seen.
LEMMA CompressedChunkIsWhole ==
    ASSUME IInv, NEW id \in DOMAIN chunks, WholeChunk(chunks[id], columns),
           \A c \in DOMAIN chunks[id] : /\ chunks[id][c].kind = "value"
                                        /\ KeepsValues(chunks[id][c])
    PROVE  LET after == CompressedChunk(chunks[id])
           IN  /\ WholeChunk(after, columns)
               /\ PartOf(after) = PartOf(chunks[id])
<1> DEFINE chunk == chunks[id]
           after == CompressedChunk(chunk)
           n == ChunkSize(chunk)
<1>1. /\ chunk \in Chunks /\ ChunkInv(chunk, columns, Limits(target))
      /\ Len(chunk) \in Nat /\ DOMAIN chunk = 1 .. Len(chunk)
      /\ Len(chunk) = Len(columns) /\ DOMAIN columns = DOMAIN chunk
      /\ columns \in Seq(ColumnDefinition)
  BY ChunkType DEF IInv, ChunkInv, WholeChunk
<1>2. \A c \in DOMAIN chunk : chunk[c] \in ValueSegments /\ KeepsValues(chunk[c])
                              /\ SegmentSize(chunk[c]) = n
                              /\ chunk[c].type = columns[c].type
  BY <1>1, ChunkType, SegmentSizeType DEF WholeChunk
<1>3. MaxChunkOffset \in Nat /\ MaxChunkOffset > 0
  BY NumericMaxAssumption DEF MaxChunkOffset
<1>4. \A c \in DOMAIN chunk : SegmentSize(chunk[c]) <= MaxChunkOffset
  BY <1>1, <1>3 DEF ChunkInv, Limits
<1>5. /\ after = [c \in DOMAIN columns |-> MakeDictionarySegment(chunk[c])]
      /\ Len(after) = Len(columns) /\ DOMAIN after = DOMAIN chunk
  BY <1>1 DEF CompressedChunk
<1>6. ASSUME NEW c \in DOMAIN chunk
      PROVE  /\ after[c] = MakeDictionarySegment(chunk[c])
             /\ after[c].kind = "dictionary" /\ after[c].type = columns[c].type
             /\ SegmentSize(after[c]) = n
             /\ \A i \in 1 .. n : GetTypedValue(after[c], i) = GetTypedValue(chunk[c], i)
  <2>1. after[c] = MakeDictionarySegment(chunk[c]) /\ chunk[c] \in ValueSegments
    BY <1>1, <1>2, <1>5
  <2>2. ~LosesByCompression(chunk[c])
    <3> SUFFICES ASSUME NEW i \in DOMAIN chunk[c].values, ContainsNull(chunk[c]),
                        ~IsNull(chunk[c], i), chunk[c].values[i] <= DefaultValue
                 PROVE  FALSE
      BY DEF LosesByCompression
    <3>1. chunk[c].values[i] \in Values /\ chunk[c].values[i] > DefaultValue
      BY <1>2, <2>1 DEF KeepsValues, ValueSegments
    <3>2. \A v \in Values : ~(v > DefaultValue /\ v <= DefaultValue)
      BY DataTypesAssumption DEF DefaultValue
    <3> QED
      BY <3>1, <3>2
  <2>3. KeptOrCompressed(chunk[c], after[c])
    BY <1>4, <2>1, CompressionKeeps
  <2>4. /\ after[c].kind = "dictionary" /\ after[c].type = chunk[c].type
        /\ SegmentSize(after[c]) = SegmentSize(chunk[c])
    BY <2>1, MakeDictionarySegmentType DEF SegmentSize, ValueSegments
  <2> QED
    BY <1>2, <2>1, <2>2, <2>3, <2>4 DEF KeptOrCompressed
<1>7. after = NewChunk <=> chunk = NewChunk
  BY <1>1, <1>5 DEF NewChunk
<1>8. ChunkSize(after) = n
  <2>1. chunk # NewChunk => 1 \in DOMAIN chunk
    BY <1>1, ChunkSizeType
  <2> HIDE DEF chunk, after
  <2> QED
    BY <1>6, <1>7, <2>1 DEF ChunkSize
<1> HIDE DEF chunk, after, n
<1>9. WholeChunk(after, columns)
  BY <1>1, <1>5, <1>6, <1>8 DEF WholeChunk
<1>10. \A i \in 1 .. n : RowOf(after, i) = RowOf(chunk, i)
  BY <1>5, <1>6 DEF RowOf
<1>11. PartOf(after) = PartOf(chunk)
  BY <1>8, <1>10 DEF PartOf, n
<1> QED
  BY <1>9, <1>11 DEF after, chunk

\* add_column on an empty whole chunk.
LEMMA AddedSegmentIsWhole ==
    ASSUME columns \in Seq(ColumnDefinition), NEW def \in ColumnDefinition,
           NEW chunk \in Chunks, WholeChunk(chunk, columns), ChunkSize(chunk) = 0
    PROVE  LET after == AddSegment(chunk, NewValueSegment(def.type, def.nullable))
           IN  WholeChunk(after, Append(columns, def)) /\ ChunkSize(after) = 0
<1> DEFINE new == NewValueSegment(def.type, def.nullable)
           after == Append(chunk, new)
           more == Append(columns, def)
           n == Len(chunk)
<1>1. /\ n \in Nat /\ DOMAIN chunk = 1 .. n /\ Len(columns) = n
      /\ \A c \in DOMAIN chunk : SegmentSize(chunk[c]) = 0
  BY ChunkType DEF WholeChunk
<1>2. /\ new.kind = "value" /\ SegmentSize(new) = 0
      /\ new.type = def.type /\ new.nullable = def.nullable
  BY DEF NewValueSegment, SegmentSize
<1>3. chunk \in Seq(SegmentSet) /\ new \in SegmentSet
  BY NewValueSegmentType DEF Chunks, SegmentSet, ColumnDefinition
<1> HIDE DEF new
<1>4. /\ Len(after) = n + 1 /\ DOMAIN after = 1 .. n + 1
      /\ \A c \in 1 .. n : after[c] = chunk[c]
      /\ after[n + 1] = new
      /\ Len(more) = n + 1
      /\ \A c \in 1 .. n : more[c] = columns[c]
      /\ more[n + 1] = def
  BY <1>1, <1>3
<1> HIDE DEF n, after, more
<1>5. \A c \in DOMAIN after : SegmentSize(after[c]) = 0
  BY <1>1, <1>2, <1>4
<1>6. ChunkSize(after) = 0
  <2>1. after # NewChunk => 1 \in DOMAIN after
    BY <1>1, <1>4 DEF NewChunk
  <2> QED
    BY <1>5, <2>1 DEF ChunkSize
<1>7. ASSUME NEW c \in DOMAIN after
      PROVE  /\ after[c].type = more[c].type
             /\ after[c].kind = "value" => after[c].nullable = more[c].nullable
  <2>1. CASE c \in 1 .. n
    BY <1>1, <1>4, <2>1 DEF WholeChunk
  <2>2. CASE c = n + 1
    BY <1>2, <1>4, <2>2
  <2> QED
    BY <1>1, <1>4, <2>1, <2>2
<1>8. WholeChunk(after, more)
  BY <1>4, <1>5, <1>6, <1>7 DEF WholeChunk
<1> QED
  BY <1>6, <1>8 DEF AddSegment, after, more, new

-----------------------------------------------------------------------------
(* Every step of the documented use keeps the chunks whole, and is a step of *)
(* AbstractTable.                                                            *)

Parts == [k \in DOMAIN chunks |-> PartOf(chunks[k])]

LEMMA PartsProperties ==
    ASSUME UseInv
    PROVE  /\ DOMAIN Parts = DOMAIN chunks /\ Len(Parts) = Len(chunks)
           /\ Len(chunks) \in DOMAIN chunks
           /\ \A k \in DOMAIN chunks : Parts[k] = PartOf(chunks[k])
           /\ \A k \in DOMAIN chunks : Len(Parts[k]) = ChunkSize(chunks[k])
<1>1. chunks \in Seq(Chunks) /\ chunks # <<>>
  BY DEF UseInv, IInv
<1>2. \A k \in DOMAIN chunks : Len(PartOf(chunks[k])) = ChunkSize(chunks[k])
  BY <1>1, ChunkSizeType
<1> QED
  BY <1>1, <1>2 DEF Parts

\* The step is one of AbstractTable, for which the chunks are Parts.
AbstractStep == Abstract!Next \/ UNCHANGED Abstract!vars

LEMMA UseAddColumnStep ==
    ASSUME UseInv, NEW def \in ColumnDefinition, UseAddColumn(def)
    PROVE  UseInv' /\ AbstractStep
<1>1. IInv'
  BY AddColumnIInv DEF UseInv, UseAddColumn
<1>2. /\ chunks \in Seq(Chunks) /\ chunks[1] \in Chunks /\ DOMAIN chunks = {1}
      /\ WholeChunk(chunks[1], columns) /\ columns \in Seq(ColumnDefinition)
      /\ ChunkSize(chunks[1]) \in Nat
  BY ChunkSizeType DEF UseInv, IInv, UseAddColumn
<1>3. Parts[1] = PartOf(chunks[1]) /\ Len(Parts[1]) = ChunkSize(chunks[1])
  BY <1>2, PartsProperties
<1>4. Abstract!HasRows <=> ChunkSize(chunks[1]) # 0
  <2>1. Abstract!HasRows <=> PartOf(chunks[1]) # <<>>
    BY <1>2 DEF Abstract!HasRows, PartOf
  <2> QED
    BY <1>2, <2>1 DEF PartOf
<1>5. Abstract!HasName(def.name) <=> HasColumn(def.name)
  BY DEF Abstract!HasName, HasColumn
<1>6. DebugBuild
  BY UseAssumption
<1>7. CASE ChunkSize(chunks[1]) # 0 \/ HasColumn(def.name)
  <2>1. /\ chunks' = chunks /\ columns' = columns /\ target' = target
        /\ call' = Call("add_column", "throws")
    BY <1>6, <1>7 DEF UseAddColumn, AddColumn
  <2>2. UseInv'
    BY <1>1, <2>1 DEF UseInv
  <2>3. Abstract!AddColumn(def)
    BY <1>4, <1>5, <1>7, <2>1 DEF Abstract!AddColumn, Abstract!Outcome, Call
  <2> QED
    BY <2>2, <2>3 DEF AbstractStep, Abstract!Next, ColumnDefinition, Abstract!ColumnDefinition
<1>8. CASE ~(ChunkSize(chunks[1]) # 0 \/ HasColumn(def.name))
  <2> DEFINE after == AddSegment(chunks[1], NewValueSegment(def.type, def.nullable))
  <2>1. /\ chunks' = [chunks EXCEPT ![1] = after]
        /\ columns' = Append(columns, def) /\ target' = target
        /\ call' = Call("add_column", "ok")
    BY <1>8 DEF UseAddColumn, AddColumn
  <2>2. WholeChunk(after, columns') /\ ChunkSize(after) = 0
    BY <1>2, <1>8, <2>1, AddedSegmentIsWhole
  <2> HIDE DEF after
  <2>3. DOMAIN chunks' = {1} /\ chunks'[1] = after
    BY <1>2, <2>1
  <2>4. UseInv'
    BY <1>1, <2>2, <2>3 DEF UseInv
  <2>5. Parts' = Parts
    <3>1. PartOf(after) = <<>> /\ PartOf(chunks[1]) = <<>>
      BY <1>8, <2>2 DEF PartOf
    <3> QED
      BY <1>2, <2>3, <3>1 DEF Parts
  <2>6. Abstract!AddColumn(def)
    BY <1>4, <1>5, <1>8, <2>1, <2>5
    DEF Abstract!AddColumn, Abstract!Outcome, Call, Parts, PartOf
  <2> QED
    BY <2>4, <2>6 DEF AbstractStep, Abstract!Next, ColumnDefinition, Abstract!ColumnDefinition
<1> QED
  BY <1>7, <1>8

\* A new chunk at the end is a new empty part.
LEMMA NewChunkPart ==
    ASSUME UseInv
    PROVE  LET more == Append(chunks, FreshChunk)
           IN  /\ \A k \in DOMAIN more : WholeChunk(more[k], columns)
               /\ [k \in DOMAIN more |-> PartOf(more[k])] = Append(Parts, <<>>)
<1> DEFINE more == Append(chunks, FreshChunk)
           n == Len(chunks)
<1>1. /\ WholeChunk(FreshChunk, columns) /\ PartOf(FreshChunk) = <<>>
      /\ FreshChunk \in Chunks
  BY FreshChunkIsWhole, FreshChunkInv DEF UseInv, IInv, ChunkInv
<1>2. chunks \in Seq(Chunks) /\ \A k \in DOMAIN chunks : WholeChunk(chunks[k], columns)
  BY DEF UseInv, IInv
<1>3. /\ n \in Nat /\ DOMAIN chunks = 1 .. n /\ DOMAIN more = 1 .. n + 1
      /\ more[n + 1] = FreshChunk /\ \A k \in 1 .. n : more[k] = chunks[k]
  BY <1>1, <1>2
<1> HIDE DEF more, n
<1>4. \A k \in DOMAIN more : WholeChunk(more[k], columns)
  BY <1>1, <1>2, <1>3
<1>5. Parts = [k \in 1 .. n |-> PartOf(chunks[k])]
  BY <1>3 DEF Parts
<1>6. [k \in DOMAIN more |-> PartOf(more[k])] =
        [k \in 1 .. n + 1 |-> IF k = n + 1 THEN <<>> ELSE PartOf(chunks[k])]
  BY <1>1, <1>3
<1>7. [k \in DOMAIN more |-> PartOf(more[k])] = Append(Parts, <<>>)
  BY <1>3, <1>5, <1>6
<1> QED
  BY <1>4, <1>7 DEF more

LEMMA CreateNewChunkStep ==
    ASSUME UseInv, CreateNewChunk
    PROVE  UseInv' /\ AbstractStep
<1>1. IInv'
  BY CreateNewChunkIInv DEF UseInv
<1>2. /\ chunks' = Append(chunks, FreshChunk) /\ columns' = columns /\ target' = target
      /\ call' = Call("create_new_chunk", "ok")
  BY DEF CreateNewChunk
<1>3. UseInv'
  BY <1>1, <1>2, NewChunkPart DEF UseInv
<1>4. Parts' = Append(Parts, <<>>)
  BY <1>2, NewChunkPart DEF Parts
<1>5. Abstract!CreateNewChunk
  BY <1>2, <1>4 DEF Abstract!CreateNewChunk, Abstract!Outcome, Call, Parts, PartOf
<1> QED
  BY <1>3, <1>5 DEF AbstractStep, Abstract!Next

LEMMA UseCompressStep ==
    ASSUME UseInv, NEW id \in 1 .. MaxChunks, UseCompress(id)
    PROVE  UseInv' /\ AbstractStep
<1>1. IInv'
  BY CompressChunkIInv DEF UseInv, UseCompress
<1>2. /\ id \in DOMAIN chunks /\ WholeChunk(chunks[id], columns) /\ IInv
      /\ chunks[id] \in Chunks /\ columns \in Seq(ColumnDefinition)
  BY DEF UseInv, UseCompress, IInv
<1>3. DOMAIN columns = DOMAIN chunks[id]
  BY <1>2, ChunkType DEF WholeChunk
<1>4. \A c \in DOMAIN columns : ThreadOutcome(id, c) = "ok"
  BY <1>2, <1>3 DEF ThreadOutcome, WholeChunk, UseCompress
<1>5. CompressFailures(id) = {} /\ CompressReturns(id) = {"ok"}
  <2>1. SpawnFailures = {}
    BY UseAssumption DEF SpawnFailures
  <2> QED
    BY <1>2, <1>4, <2>1 DEF CompressFailures, CompressReturns
<1> DEFINE after == CompressedChunk(chunks[id])
<1>6. /\ call' = Call("compress_chunk", "ok")
      /\ chunks' = [chunks EXCEPT ![id] = after]
      /\ columns' = columns /\ target' = target
  BY <1>5 DEF UseCompress, CompressChunk
<1>7. WholeChunk(after, columns) /\ PartOf(after) = PartOf(chunks[id])
  BY <1>2, CompressedChunkIsWhole DEF UseCompress
<1> HIDE DEF after
<1>8. UseInv'
  BY <1>1, <1>6, <1>7 DEF UseInv
<1>9. Parts' = Parts
  BY <1>2, <1>6, <1>7 DEF Parts
<1>10. Abstract!CompressChunk
  BY <1>6, <1>9 DEF Abstract!CompressChunk, Abstract!Outcome, Call, Parts, PartOf
<1> QED
  BY <1>8, <1>10 DEF AbstractStep, Abstract!Next

\* The chunks when a row is appended, and the one it goes to.
LEMMA AppendsToWholeChunk ==
    ASSUME UseInv, columns # <<>>, ChunkSize(LastChunk) < MaxChunkOffset
    PROVE  LET into == ChunksForAppend
               last == Len(into)
               parts == [k \in DOMAIN into |-> PartOf(into[k])]
           IN  /\ LastChunk # NewChunk
               /\ into \in Seq(Chunks) /\ last \in DOMAIN into
               /\ \A k \in DOMAIN into : WholeChunk(into[k], columns)
               /\ into[last] # NewChunk /\ Len(into[last]) = Len(columns)
               /\ \A c \in DOMAIN into[last] : into[last][c].kind = "value"
               /\ \/ into = chunks /\ (target > 0 => ChunkSize(into[last]) < target)
                  \/ into = Append(chunks, FreshChunk)
<1> DEFINE into == ChunksForAppend
           last == Len(into)
<1>1. /\ chunks \in Seq(Chunks) /\ Len(chunks) \in DOMAIN chunks
      /\ LastChunk \in Chunks /\ WholeChunk(LastChunk, columns)
      /\ columns \in Seq(ColumnDefinition) /\ Len(columns) > 0
  BY DEF UseInv, IInv, LastChunk
<1>2. LastChunk # NewChunk
  BY <1>1 DEF WholeChunk, NewChunk
<1>3. /\ into \in Seq(Chunks) /\ last \in DOMAIN into
      /\ \A c \in DOMAIN into[last] : into[last][c].kind = "value"
      /\ \A size \in Limits(target) :
            size > 0 => \A c \in DOMAIN into[last] : SegmentSize(into[last][c]) < size
  BY <1>2, ChunksForAppendInv DEF UseInv
<1>4. \A k \in DOMAIN into : WholeChunk(into[k], columns)
  BY NewChunkPart DEF ChunksForAppend, UseInv
<1>5. into = chunks \/ into = Append(chunks, FreshChunk)
  BY DEF ChunksForAppend
<1> HIDE DEF into, last
<1>6. /\ Len(into[last]) = Len(columns) /\ into[last] # NewChunk
      /\ 1 \in DOMAIN into[last] /\ ChunkSize(into[last]) = SegmentSize(into[last][1])
  <2>1. into[last] \in Chunks /\ WholeChunk(into[last], columns)
    BY <1>3, <1>4
  <2>2. into[last] # NewChunk
    BY <1>1, <2>1 DEF WholeChunk, NewChunk
  <2> QED
    BY <2>1, <2>2, ChunkSizeType DEF WholeChunk
<1>7. target > 0 => ChunkSize(into[last]) < target
  BY <1>3, <1>6 DEF Limits
<1> QED
  BY <1>2, <1>3, <1>4, <1>5, <1>6, <1>7 DEF into, last

\* A row that is refused at once or not at all leaves the chunks as they were
\* when it was refused, or is stored as a whole.
LEMMA AppendOutcome ==
    ASSUME UseInv, columns # <<>>, NEW values \in Rows, RefusedWhole(values), AppendRow(values)
    PROVE  LET into == ChunksForAppend
               last == Len(into)
               returns(outcome) ==
                   call' = [op |-> "append", row |-> values, outcome |-> outcome]
           IN  \/ /\ ~FitsChunk(into[last], values)
                  /\ returns("throws") /\ chunks' = into
               \/ /\ FitsChunk(into[last], values)
                  /\ returns("ok")
                  /\ chunks' = [into EXCEPT ![last] = ChunkAppend(into[last], values)]
<1> DEFINE into == ChunksForAppend
           last == Len(into)
           chunk == into[last]
           returns(outcome) == call' = [op |-> "append", row |-> values, outcome |-> outcome]
<1>1. /\ LastChunk # NewChunk
      /\ into \in Seq(Chunks) /\ last \in DOMAIN into /\ chunk \in Chunks
      /\ chunk # NewChunk
  BY AppendsToWholeChunk DEF AppendRow
<1>2. Len(values) \in Nat /\ Len(chunk) \in Nat /\ DOMAIN chunk = 1 .. Len(chunk)
  BY <1>1, RowType, ChunkType
<1>3. \/ Len(values) # Len(chunk) /\ returns("throws") /\ chunks' = into
      \/ /\ Len(values) = Len(chunk)
         /\ chunks' = [into EXCEPT ![last] = ChunkAppend(chunk, values)]
         /\ returns(IF ChunkAppendThrows(chunk, values) THEN "throws" ELSE "ok")
  BY <1>1, <1>2, UseAssumption DEF AppendRow, ColumnCountOf
<1>4. Len(values) = Len(chunk) /\ ChunkAppendThrows(chunk, values) =>
        1 \in RejectingColumns(chunk, values)
  <2>1. CASE NeedsNewChunk
    <3>1. into = Append(chunks, FreshChunk)
      BY <2>1 DEF ChunksForAppend
    <3> QED
      BY <3>1 DEF RefusedWhole, ColumnCountOf
  <2>2. CASE ~NeedsNewChunk
    BY DEF RefusedWhole, ColumnCountOf
  <2> QED
    BY <2>1, <2>2
<1> HIDE DEF into, last, chunk
<1>5. CASE Len(values) = Len(chunk) /\ ChunkAppendThrows(chunk, values)
  <2>1. \A c \in DOMAIN chunk : ~(\A r \in RejectingColumns(chunk, values) : c < r)
    BY <1>2, <1>4, <1>5
  <2>2. ChunkAppend(chunk, values) = [c \in DOMAIN chunk |-> chunk[c]]
    BY <2>1 DEF ChunkAppend
  <2>3. ChunkAppend(chunk, values) = chunk
    BY <1>1, <2>2 DEF Chunks
  <2>4. chunks' = into
    BY <1>1, <1>3, <1>5, <2>3 DEF chunk
  <2>5. ~FitsChunk(chunk, values)
    BY <1>5 DEF FitsChunk, ChunkAppendThrows
  <2> QED
    BY <1>3, <1>5, <2>4, <2>5 DEF into, last, chunk
<1>6. CASE Len(values) = Len(chunk) /\ ~ChunkAppendThrows(chunk, values)
  <2>1. FitsChunk(chunk, values)
    BY <1>6 DEF FitsChunk, ChunkAppendThrows
  <2> QED
    BY <1>3, <1>6, <2>1 DEF into, last, chunk
<1>7. CASE Len(values) # Len(chunk)
  <2>1. ~FitsChunk(chunk, values)
    BY <1>7 DEF FitsChunk
  <2> QED
    BY <1>3, <1>7, <2>1 DEF into, last, chunk
<1> QED
  BY <1>5, <1>6, <1>7

\* AbstractTable accepts the rows that the chunk accepts, as the same cells.
LEMMA FitsSchema ==
    ASSUME NEW chunk \in Chunks, WholeChunk(chunk, columns), NEW values \in Rows,
           \A c \in DOMAIN chunk : chunk[c].kind = "value", columns \in Seq(ColumnDefinition)
    PROVE  /\ Abstract!Fits(values) <=> FitsChunk(chunk, values)
           /\ Abstract!Cells(values) = [c \in DOMAIN chunk |-> CellOf(chunk[c].type, values[c])]
<1>1. /\ Len(chunk) \in Nat /\ DOMAIN chunk = 1 .. Len(chunk)
      /\ Len(chunk) = Len(columns)
      /\ \A c \in DOMAIN chunk : /\ chunk[c].type = columns[c].type
                                 /\ chunk[c].nullable = columns[c].nullable
                                 /\ TakesValues(chunk[c])
  BY ChunkType DEF WholeChunk, TakesValues
<1>2. DOMAIN values = 1 .. Len(values) /\ Len(values) \in Nat
  BY RowType
<1>3. Abstract!Fits(values) <=>
        Len(values) = Len(chunk) /\ \A c \in DOMAIN chunk : Accepts(chunk[c], values[c])
  <2>1. \A c \in DOMAIN chunk :
          Accepts(chunk[c], values[c]) <=>
            IF values[c] = NULL THEN columns[c].nullable
                                ELSE TypeCast[columns[c].type, values[c]] # CastError
    BY <1>1 DEF Accepts
  <2>2. DOMAIN columns = DOMAIN chunk
    BY <1>1
  <2> QED
    BY <1>1, <2>1, <2>2 DEF Abstract!Fits
<1>4. Len(values) = Len(chunk) =>
        (RejectingColumns(chunk, values) = {} <=>
            \A c \in DOMAIN chunk : Accepts(chunk[c], values[c]))
  BY <1>1, <1>2 DEF RejectingColumns
<1>5. Abstract!Cells(values) = [c \in DOMAIN chunk |-> CellOf(chunk[c].type, values[c])]
  <2>1. DOMAIN columns = DOMAIN chunk
    BY <1>1
  <2> QED
    BY <1>1, <2>1 DEF Abstract!Cells, CellOf
<1> QED
  BY <1>3, <1>4, <1>5 DEF FitsChunk

\* A row that does not fit the columns is refused; one that does is the new
\* last row, in the last part or in a new one.
Refused(values) ==
    /\ ~Abstract!Fits(values)
    /\ Parts' = Parts \/ Parts' = Append(Parts, <<>>)
    /\ call' = [op |-> "append", row |-> values, outcome |-> "throws"]

Stored(values) ==
    /\ Abstract!Fits(values)
    /\ \/ /\ target > 0 => Len(Parts[Len(Parts)]) < target
          /\ Parts' = [Parts EXCEPT ![Len(Parts)] = Append(@, Abstract!Cells(values))]
       \/ Parts' = Append(Parts, <<Abstract!Cells(values)>>)
    /\ call' = [op |-> "append", row |-> values, outcome |-> "ok"]

LEMMA AppendedParts ==
    ASSUME UseInv, NEW values \in Rows, UseAppend(values)
    PROVE  UseInv' /\ (Refused(values) \/ Stored(values))
<1> DEFINE into == ChunksForAppend
           last == Len(into)
           chunk == into[last]
           after == ChunkAppend(chunk, values)
           cells == [c \in DOMAIN chunk |-> CellOf(chunk[c].type, values[c])]
           parts == [k \in DOMAIN into |-> PartOf(into[k])]
<1>1. IInv' /\ columns' = columns /\ target' = target
  BY AppendRowIInv DEF UseInv, UseAppend, AppendRow
<1>2. /\ into \in Seq(Chunks) /\ last \in DOMAIN into /\ chunk \in Chunks
      /\ \A k \in DOMAIN into : WholeChunk(into[k], columns)
      /\ chunk # NewChunk
      /\ \A c \in DOMAIN chunk : chunk[c].kind = "value"
      /\ \/ into = chunks /\ (target > 0 => ChunkSize(chunk) < target)
         \/ into = Append(chunks, FreshChunk)
  BY AppendsToWholeChunk DEF UseAppend, AppendRow
<1>3. \/ /\ ~FitsChunk(chunk, values)
         /\ call' = [op |-> "append", row |-> values, outcome |-> "throws"]
         /\ chunks' = into
      \/ /\ FitsChunk(chunk, values)
         /\ call' = [op |-> "append", row |-> values, outcome |-> "ok"]
         /\ chunks' = [into EXCEPT ![last] = after]
  BY AppendOutcome DEF UseAppend
<1>4. /\ Abstract!Fits(values) <=> FitsChunk(chunk, values)
      /\ Abstract!Cells(values) = cells
  BY <1>2, FitsSchema DEF UseInv, IInv
<1>5. FitsChunk(chunk, values) =>
        WholeChunk(after, columns) /\ PartOf(after) = Append(PartOf(chunk), cells)
  BY <1>2, GrownChunk
<1>6. /\ into = chunks => parts = Parts
      /\ into = Append(chunks, FreshChunk) => parts = Append(Parts, <<>>)
  BY NewChunkPart DEF Parts
<1>7. /\ DOMAIN parts = DOMAIN into /\ Len(parts) = last /\ last \in Nat
      /\ parts[last] = PartOf(chunk) /\ Len(parts[last]) = ChunkSize(chunk)
  BY <1>2, ChunkSizeType
<1>8. /\ Len(Parts) \in Nat /\ DOMAIN Parts = 1 .. Len(Parts)
      /\ Parts \in Seq(Range(Parts))
  <2>1. chunks \in Seq(Chunks)
    BY DEF UseInv, IInv
  <2>2. Parts \in [1 .. Len(chunks) -> Range(Parts)]
    BY <2>1 DEF Parts, Range
  <2> QED
    BY <2>1, <2>2
<1>10. CASE ~FitsChunk(chunk, values)
  <2>1. chunks' = into /\ call' = [op |-> "append", row |-> values, outcome |-> "throws"]
    BY <1>3, <1>10
  <2> HIDE DEF chunk, into, parts
  <2>2. UseInv'
    BY <1>1, <1>2, <2>1 DEF UseInv
  <2>3. Parts' = parts
    BY <2>1 DEF Parts, parts
  <2>4. Parts' = Parts \/ Parts' = Append(Parts, <<>>)
    BY <1>2, <1>6, <2>3
  <2> QED
    BY <1>4, <1>10, <2>1, <2>2, <2>4 DEF Refused
<1>11. CASE FitsChunk(chunk, values)
  <2>1. /\ chunks' = [into EXCEPT ![last] = after]
        /\ call' = [op |-> "append", row |-> values, outcome |-> "ok"]
    BY <1>3, <1>11
  <2>2. WholeChunk(after, columns) /\ PartOf(after) = Append(PartOf(chunk), cells)
    BY <1>5, <1>11
  <2> HIDE DEF chunk, into, last, after, cells, parts
  <2>3. DOMAIN chunks' = DOMAIN into /\ chunks'[last] = after
        /\ \A k \in DOMAIN into \ {last} : chunks'[k] = into[k]
    BY <1>2, <2>1
  <2>4. UseInv'
    BY <1>1, <1>2, <2>2, <2>3 DEF UseInv
  <2>5. Parts' = [parts EXCEPT ![last] = Append(PartOf(chunk), cells)]
    <3>1. Parts' = [k \in DOMAIN into |->
                       IF k = last THEN Append(PartOf(chunk), cells) ELSE PartOf(into[k])]
      BY <2>2, <2>3 DEF Parts
    <3> QED
      BY <1>7, <3>1 DEF parts
  <2>6. CASE into = chunks /\ (target > 0 => ChunkSize(chunk) < target)
    <3>1. /\ last = Len(Parts) /\ parts = Parts
          /\ Parts' = [Parts EXCEPT ![Len(Parts)] = Append(Parts[Len(Parts)], cells)]
          /\ Len(Parts[Len(Parts)]) = ChunkSize(chunk)
      BY <1>6, <1>7, <2>5, <2>6
    <3> QED
      BY <1>4, <1>11, <2>1, <2>4, <2>6, <3>1 DEF Stored
  <2>7. CASE into = Append(chunks, FreshChunk)
    <3>1. Parts' = Append(Parts, <<cells>>)
      <4>1. PartOf(chunk) = <<>> /\ parts = Append(Parts, <<>>)
        <5>1. PartOf(FreshChunk) = <<>>
          BY FreshChunkIsWhole DEF UseInv, IInv
        <5>2. chunk = FreshChunk
          BY <1>2, <2>7 DEF chunk, last, UseInv, IInv
        <5> QED
          BY <1>6, <2>7, <5>1, <5>2
      <4>2. Append(PartOf(chunk), cells) = <<cells>>
        BY <4>1
      <4>3. last = Len(Parts) + 1
        BY <1>7, <1>8, <4>1
      <4> DEFINE n == Len(Parts)
      <4>4. /\ Append(Parts, <<>>) = [k \in 1 .. n + 1 |-> IF k = n + 1 THEN <<>> ELSE Parts[k]]
            /\ Append(Parts, <<cells>>) =
                  [k \in 1 .. n + 1 |-> IF k = n + 1 THEN <<cells>> ELSE Parts[k]]
        BY <1>8, AppendAsFunction
      <4>5. Parts' = [parts EXCEPT ![n + 1] = <<cells>>]
        BY <2>5, <4>2, <4>3
      <4> HIDE DEF n
      <4> QED
        BY <4>1, <4>4, <4>5
    <3> QED
      BY <1>4, <1>11, <2>1, <2>4, <3>1 DEF Stored
  <2> QED
    BY <1>2, <2>6, <2>7
<1> QED
  BY <1>10, <1>11

LEMMA UseAppendStep ==
    ASSUME UseInv, NEW values \in Rows, UseAppend(values)
    PROVE  UseInv' /\ (target > 0 => AbstractStep)
<1>1. UseInv' /\ (Refused(values) \/ Stored(values))
  BY AppendedParts
<1>2. columns' = columns /\ target' = target
  BY DEF UseAppend, AppendRow
<1>3. values \in Abstract!Row
  BY DEF Rows, Abstract!Row, AllTypeVariant, Abstract!AllTypeVariant
<1>4. Refused(values) => Abstract!AppendRefused(values)
  BY <1>2 DEF Refused, Abstract!AppendRefused, Abstract!Outcome, Parts, PartOf
<1>5. target > 0 /\ Stored(values) => Abstract!AppendFitting(values)
  BY <1>2 DEF Stored, Abstract!AppendFitting, Abstract!Outcome, Abstract!Last, Parts, PartOf
<1> QED
  BY <1>1, <1>3, <1>4, <1>5 DEF AbstractStep, Abstract!Next

LEMMA UseNextStep ==
    ASSUME UseInv, [UseNext]_vars
    PROVE  UseInv' /\ (target > 0 => AbstractStep)
<1>1. CASE UNCHANGED vars
  BY <1>1 DEF vars, UseInv, IInv, AbstractStep, Abstract!vars
<1> QED
  BY <1>1, UseAddColumnStep, CreateNewChunkStep, UseAppendStep, UseCompressStep DEF UseNext

LEMMA UseInvariant == UseSpec => [](UseInv /\ target > 0)
<1>1. UseInit => UseInv /\ target > 0
  <2> SUFFICES ASSUME UseInit PROVE UseInv
    BY DEF UseInit
  <2>1. IInv
    BY InitIInv DEF UseInit
  <2>2. chunks = <<NewChunk>> /\ columns = <<>>
    BY DEF UseInit, Init
  <2>3. \A k \in DOMAIN chunks : WholeChunk(chunks[k], columns)
    BY <2>2 DEF WholeChunk, NewChunk
  <2> QED
    BY <2>1, <2>3 DEF UseInv
<1>2. UseInv /\ target > 0 /\ [UseNext]_vars => (UseInv /\ target > 0)'
  <2> SUFFICES ASSUME UseInv, target > 0, [UseNext]_vars PROVE target' = target
    BY UseNextStep
  <2> QED
    BY DEF UseNext, UseAddColumn, AddColumn, CreateNewChunk, UseAppend, AppendRow,
           UseCompress, CompressChunk, vars
<1> QED
  BY <1>1, <1>2, PTL DEF UseSpec

\* A table used by the rules of TableUse is an AbstractTable: the rows appended
\* are the rows read, through chunk turnover, refused rows and compression.
THEOREM UseImplementsAbstractTable == UseSpec => ImplementsAbstractTable
<1>1. UseInit => Abstract!Init
  <2> SUFFICES ASSUME UseInit PROVE Abstract!Init
    OBVIOUS
  <2>1. /\ chunks = <<NewChunk>> /\ columns = <<>> /\ target \in Nat \ {0}
        /\ call = [op |-> "Table", row |-> <<>>, outcome |-> "ok"]
    BY TableAssumption DEF UseInit, Init, Call
  <2>2. PartOf(NewChunk) = <<>>
    BY DEF PartOf, ChunkSize
  <2>3. Parts = <<(<<>>)>>
    BY <2>1, <2>2 DEF Parts
  <2> QED
    BY <2>1, <2>3 DEF Abstract!Init, Parts, PartOf
<1>2. UseInv /\ target > 0 /\ [UseNext]_vars => [Abstract!Next]_(Abstract!vars)
  BY UseNextStep DEF AbstractStep
<1> QED
  BY <1>1, <1>2, UseInvariant, PTL DEF UseSpec, ImplementsAbstractTable, Abstract!Spec

\* Growing the last sequence grows the whole by the same.
LEMMA FlattenGrown ==
    ASSUME NEW E, NEW ss \in Seq(Seq(E)), ss # <<>>, NEW x \in E
    PROVE  LET n == Len(ss)
           IN  FlattenSeq([ss EXCEPT ![n] = Append(ss[n], x)]) = Append(FlattenSeq(ss), x)
<1> DEFINE n == Len(ss)
           front == [i \in 1 .. n - 1 |-> ss[i]]
           longer == Append(ss[n], x)
<1>1. /\ n \in Nat /\ n >= 1 /\ DOMAIN ss = 1 .. n
      /\ ss[n] \in Seq(E) /\ longer \in Seq(E) /\ \A i \in 1 .. n - 1 : ss[i] \in Seq(E)
  OBVIOUS
<1>2. /\ front \in Seq(Seq(E)) /\ Len(front) = n - 1
  BY <1>1
<1>3. ss = Append(front, ss[n]) /\ [ss EXCEPT ![n] = longer] = Append(front, longer)
  <2>1. ASSUME NEW s \in Seq(E)
        PROVE  Append(front, s) = [i \in 1 .. n |-> IF i = n THEN s ELSE ss[i]]
    <3>1. Append(front, s) = [i \in 1 .. Len(front) + 1 |->
                                 IF i = Len(front) + 1 THEN s ELSE front[i]]
      BY <1>2, AppendAsFunction
    <3>2. ASSUME NEW i \in 1 .. n, i # n
          PROVE  front[i] = ss[i]
      <4> HIDE DEF n
      <4>1. i \in 1 .. n - 1
        BY <1>1, <3>2
      <4> QED
        BY <4>1, Zenon
    <3>3. Len(front) + 1 = n
      BY <1>1, <1>2
    <3> HIDE DEF front, n
    <3> QED
      BY <3>1, <3>2, <3>3
  <2>2. ss = [i \in 1 .. n |-> IF i = n THEN ss[n] ELSE ss[i]]
    BY <1>1
  <2>3. [ss EXCEPT ![n] = longer] = [i \in 1 .. n |-> IF i = n THEN longer ELSE ss[i]]
    BY <1>1
  <2> HIDE DEF front, longer, n
  <2> QED
    BY <1>1, <2>1, <2>2, <2>3, Zenon
<1> HIDE DEF front, n
<1>4. /\ FlattenSeq(front) \in Seq(E)
      /\ FlattenSeq(ss) = FlattenSeq(front) \o ss[n]
      /\ FlattenSeq([ss EXCEPT ![n] = longer]) = FlattenSeq(front) \o longer
  BY <1>1, <1>2, <1>3, FlattenSnoc
<1>5. FlattenSeq(front) \o Append(ss[n], x) = Append(FlattenSeq(front) \o ss[n], x)
  BY <1>1, <1>4
<1> QED
  BY <1>4, <1>5 DEF n

-----------------------------------------------------------------------------
(* load_table.  The columns are those of the header, their names distinct, *)
(* the first chunk is empty until they are there, and every line read so   *)
(* far fits them.                                                          *)

Stages == {"header", "columns", "rows", "returned", "failed", "undefined"}

HeaderInv ==
    /\ Len(columns) <= Len(file.names) /\ Len(columns) <= MaxColumns
    /\ \A c \in DOMAIN columns : columns[c] = ColumnOf(c)
    /\ \A b, c \in DOMAIN columns : b # c => file.names[b] # file.names[c]
    /\ stage = "header" => columns = <<>>
    /\ stage \in {"header", "columns"} => Len(chunks) = 1 /\ ChunkSize(chunks[1]) = 0
    /\ stage \in {"columns", "rows", "returned"} => Len(file.types) = Len(file.names)
    /\ stage \in {"rows", "returned"} => Len(columns) = Len(file.names)

LinesInv ==
    /\ line \in 1 .. Len(file.lines) + 1
    /\ stage \in {"header", "columns"} => line = 1
    /\ stage = "rows" /\ file.names = <<>> => line = 1
    /\ stage \in {"rows", "returned"} => \A l \in 1 .. line - 1 : LineFits(file.lines[l])
    /\ stage = "returned" => line = Len(file.lines) + 1

EndInv ==
    /\ stage = "failed" => ~FileFits
    /\ stage = "undefined" => file.names = <<>> /\ file.lines[1] = <<Empty>>

LoadInv ==
    /\ UseInv
    /\ file \in Files
    /\ stage \in Stages
    /\ HeaderInv /\ LinesInv /\ EndInv

LEMMA FileType ==
    ASSUME file \in Files
    PROVE  /\ file.names \in Seq(ColumnName) /\ file.types \in Seq(DataType)
           /\ Len(file.names) \in Nat /\ DOMAIN file.names = 1 .. Len(file.names)
           /\ Len(file.types) \in Nat /\ DOMAIN file.types = 1 .. Len(file.types)
           /\ Len(file.lines) \in Nat /\ DOMAIN file.lines = 1 .. Len(file.lines)
           /\ \A l \in DOMAIN file.lines : file.lines[l] \in Seq(Variants) \ {<<>>}
<1>1. PICK h \in Headers, lines \in UNION {[1 .. n -> Lines] : n \in 0 .. MaxLines} :
        file = [names |-> h[1], types |-> h[2], lines |-> lines]
  BY DEF Files
<1>2. h[1] \in Seq(ColumnName) /\ h[2] \in Seq(DataType)
  BY <1>1, LoadTableAssumption
<1>3. PICK n \in 0 .. MaxLines : lines \in [1 .. n -> Lines]
  BY <1>1
<1>4. n \in Nat /\ DOMAIN lines = 1 .. n /\ Len(lines) = n
  BY <1>3, LoadTableAssumption
<1> QED
  BY <1>1, <1>2, <1>3, <1>4, LoadTableAssumption

\* split drops an empty field behind the last delimiter, and nothing else.
LEMMA TokensOfLine ==
    ASSUME NEW fields \in Seq(Variants) \ {<<>>}
    PROVE  LET tokens == Tokens(fields)
               n == Len(fields)
           IN  /\ n \in Nat /\ n > 0 /\ DOMAIN fields = 1 .. n
               /\ tokens \in Seq(Variants) /\ Len(tokens) \in Nat
               /\ DOMAIN tokens = 1 .. Len(tokens)
               /\ Len(tokens) = IF fields[n] = Empty THEN n - 1 ELSE n
               /\ \A c \in DOMAIN tokens : tokens[c] = fields[c]
<1> DEFINE n == Len(fields)
           front == SubSeq(fields, 1, n - 1)
<1>1. n \in Nat /\ n > 0 /\ DOMAIN fields = 1 .. n
  OBVIOUS
<1>2. /\ front \in Seq(Variants) /\ Len(front) = n - 1
      /\ \A c \in 1 .. n - 1 : front[c] = fields[c]
  BY <1>1
<1>3. Tokens(fields) = IF fields[n] = Empty THEN front ELSE fields
  BY DEF Tokens, Last, Front
<1> HIDE DEF front
<1> QED
  BY <1>1, <1>2, <1>3

\* What ReadRow asks of a line is that it fits.
LEMMA LineFitsTokens ==
    ASSUME file \in Files, Len(file.types) = Len(file.names),
           NEW fields \in Seq(Variants) \ {<<>>}
    PROVE  LineFits(fields) <=>
              Len(Tokens(fields)) = Len(file.names) /\ Parses(Tokens(fields))
<1>1. /\ Len(file.names) \in Nat /\ DOMAIN file.names = 1 .. Len(file.names)
  BY FileType
<1>2. (IF fields[Len(fields)] = Empty THEN Len(fields) = Len(file.names) + 1
                                      ELSE Len(fields) = Len(file.names))
        <=> Len(Tokens(fields)) = Len(file.names)
  BY <1>1, TokensOfLine
<1>3. Len(Tokens(fields)) = Len(file.names) =>
        DOMAIN Tokens(fields) = DOMAIN file.names
          /\ \A c \in DOMAIN file.names : Tokens(fields)[c] = fields[c]
  BY <1>1, TokensOfLine
<1> QED
  BY <1>2, <1>3 DEF LineFits, Parses

\* The header of the file and what is known of its lines do not change.
LEMMA FileStays ==
    ASSUME file' = file
    PROVE  /\ FileFits' <=> FileFits
           /\ \A c : ColumnOf(c)' = ColumnOf(c)
           /\ \A fields : LineFits(fields)' <=> LineFits(fields)
BY DEF FileFits, ColumnOf, LineFits

LEMMA LoadInitInv == LoadInit => LoadInv
<1> SUFFICES ASSUME LoadInit PROVE LoadInv
  OBVIOUS
<1>1. IInv
  BY InitIInv DEF LoadInit
<1>2. chunks = <<NewChunk>> /\ columns = <<>> /\ file \in Files /\ line = 1 /\ stage = "header"
  BY DEF LoadInit, Init
<1>3. \A k \in DOMAIN chunks : WholeChunk(chunks[k], columns)
  BY <1>2 DEF WholeChunk, NewChunk
<1>4. HeaderInv
  BY <1>2, FileType, TableAssumption DEF HeaderInv, ChunkSize
<1>5. LinesInv
  BY <1>2, FileType DEF LinesInv
<1> QED
  BY <1>1, <1>2, <1>3, <1>4, <1>5 DEF LoadInv, UseInv, EndInv, Stages

\* The step keeps LoadInv, and the rules of TableUse when there are columns.
LoadStep == LoadInv' /\ (file.names # <<>> => [UseNext]_vars)

LEMMA ReadHeaderStep ==
    ASSUME LoadInv, ReadHeader
    PROVE  LoadStep
<1>1. UNCHANGED <<vars, file, line>> /\ stage = "header"
      /\ stage' = IF Len(file.types) = Len(file.names) THEN "columns" ELSE "failed"
  BY DEF ReadHeader
<1>2. UseInv'
  BY <1>1 DEF LoadInv, UseInv, IInv, vars
<1>3. stage' = "failed" => ~FileFits
  BY <1>1 DEF FileFits
<1> QED
  BY <1>1, <1>2, <1>3, FileStays
  DEF LoadStep, LoadInv, HeaderInv, LinesInv, EndInv, Stages, vars

LEMMA ColumnsDoneStep ==
    ASSUME LoadInv, ColumnsDone
    PROVE  LoadStep
<1>1. /\ UNCHANGED <<vars, file, line>> /\ stage = "columns" /\ stage' = "rows"
      /\ Len(columns) = Len(file.names)
  BY DEF ColumnsDone
<1>2. UseInv'
  BY <1>1 DEF LoadInv, UseInv, IInv, vars
<1> QED
  BY <1>1, <1>2, FileStays
  DEF LoadStep, LoadInv, HeaderInv, LinesInv, EndInv, Stages, vars

LEMMA ReturnStep ==
    ASSUME LoadInv, Return
    PROVE  LoadStep
<1>1. /\ UNCHANGED <<vars, file, line>> /\ stage = "rows" /\ stage' = "returned"
      /\ line > Len(file.lines)
  BY DEF Return
<1>2. UseInv'
  BY <1>1 DEF LoadInv, UseInv, IInv, vars
<1>3. line = Len(file.lines) + 1
  BY <1>1, FileType DEF LoadInv, LinesInv
<1> QED
  BY <1>1, <1>2, <1>3, FileStays
  DEF LoadStep, LoadInv, HeaderInv, LinesInv, EndInv, Stages, vars

LEMMA DefineColumnStep ==
    ASSUME LoadInv, DefineColumn
    PROVE  LoadStep
<1> DEFINE n == Len(columns)
           def == ColumnOf(n + 1)
<1>1. /\ stage = "columns" /\ n < Len(file.names) /\ AddColumn(def)
      /\ After("columns") /\ file' = file /\ line' = line
  BY DEF DefineColumn
<1>2. /\ columns \in Seq(ColumnDefinition) /\ n \in Nat /\ DOMAIN columns = 1 .. n
      /\ Len(file.names) \in Nat /\ DOMAIN file.names = 1 .. Len(file.names)
      /\ Len(file.types) = Len(file.names) /\ Len(chunks) = 1 /\ ChunkSize(chunks[1]) = 0
      /\ n + 1 \in DOMAIN file.names
  BY <1>1, FileType DEF LoadInv, UseInv, IInv, HeaderInv
<1>3. def \in ColumnDefinition
  BY <1>2, FileType DEF LoadInv, ColumnOf, ColumnDefinition
<1>4. UseAddColumn(def)
  BY <1>1, <1>2 DEF UseAddColumn
<1>5. UseInv'
  BY <1>3, <1>4, UseAddColumnStep DEF LoadInv
<1>6. [UseNext]_vars
  BY <1>3, <1>4 DEF UseNext
<1>7. def.name = file.names[n + 1]
      /\ \A c \in DOMAIN columns : columns[c].name = file.names[c]
  BY DEF ColumnOf, LoadInv, HeaderInv
<1> HIDE DEF def, n
<1>8. CASE HasColumn(def.name)
  <2>1. /\ UNCHANGED <<chunks, columns, target>>
        /\ call'.outcome = "throws"
    BY <1>1, <1>8 DEF AddColumn, Call
  <2>2. stage' = "failed"
    BY <1>1, <2>1 DEF After
  <2>3. PICK other \in DOMAIN columns : columns[other].name = def.name
    BY <1>8 DEF HasColumn
  <2>4. ~FileFits
    BY <1>2, <1>7, <2>3 DEF FileFits
  <2>5. \A c \in DOMAIN columns' : columns'[c] = ColumnOf(c)'
    BY <1>1, <2>1, FileStays DEF LoadInv, HeaderInv
  <2> QED
    BY <1>1, <1>5, <1>6, <2>1, <2>2, <2>4, <2>5, FileStays
    DEF LoadStep, LoadInv, HeaderInv, LinesInv, EndInv, Stages
<1>9. CASE ~HasColumn(def.name)
  <2> DEFINE new == AddSegment(chunks[1], NewValueSegment(def.type, def.nullable))
  <2>1. /\ columns' = Append(columns, def) /\ chunks' = [chunks EXCEPT ![1] = new]
        /\ call'.outcome = "ok" /\ n < MaxColumns
    BY <1>1, <1>2, <1>9 DEF AddColumn, Call, n
  <2>2. stage' = "columns"
    BY <1>1, <2>1 DEF After
  <2>3. /\ Len(columns') = n + 1 /\ DOMAIN columns' = 1 .. n + 1
        /\ columns'[n + 1] = def /\ \A c \in 1 .. n : columns'[c] = columns[c]
    BY <1>2, <1>3, <2>1 DEF n
  <2>4. Len(columns') <= Len(file.names) /\ Len(columns') <= MaxColumns
    BY <1>1, <1>2, <2>1, <2>3, TableAssumption
  <2>5. \A c \in DOMAIN columns' : columns'[c] = ColumnOf(c)'
    BY <1>1, <1>2, <2>3, FileStays DEF LoadInv, HeaderInv, def
  <2>6. \A b, c \in DOMAIN columns' : b # c => file.names[b] # file.names[c]
    <3>1. \A c \in 1 .. n : file.names[c] # file.names[n + 1]
      BY <1>2, <1>7, <1>9 DEF HasColumn
    <3> QED
      BY <1>2, <2>3, <3>1 DEF LoadInv, HeaderInv
  <2>7. Len(chunks') = 1 /\ ChunkSize(chunks'[1]) = 0
    <3>1. /\ chunks \in Seq(Chunks) /\ chunks[1] \in Chunks /\ columns \in Seq(ColumnDefinition)
          /\ WholeChunk(chunks[1], columns)
      BY <1>2 DEF LoadInv, UseInv, IInv
    <3>2. ChunkSize(new) = 0
      BY <1>2, <1>3, <3>1, AddedSegmentIsWhole
    <3> HIDE DEF new
    <3> QED
      BY <1>2, <2>1, <3>1, <3>2
  <2>8. HeaderInv'
    BY <1>1, <1>2, <2>2, <2>4, <2>5, <2>6, <2>7 DEF HeaderInv
  <2> QED
    BY <1>1, <1>5, <1>6, <2>2, <2>8, FileStays
    DEF LoadStep, LoadInv, LinesInv, EndInv, Stages
<1> QED
  BY <1>8, <1>9

\* A line that fits, in a file with columns, is appended by the rules of
\* TableUse, and is stored.
LEMMA LineIsStored ==
    ASSUME LoadInv, stage = "rows", file.names # <<>>, line \in DOMAIN file.lines,
           LineFits(file.lines[line]), AppendRow(Tokens(file.lines[line]))
    PROVE  LET tokens == Tokens(file.lines[line])
           IN  /\ tokens \in Rows /\ UseAppend(tokens) /\ Stored(tokens)
               /\ Abstract!Cells(tokens) =
                     [c \in DOMAIN file.names |->
                         TypeCast[file.types[c], file.lines[line][c]]]
<1> DEFINE fields == file.lines[line]
           tokens == Tokens(fields)
           n == Len(file.names)
           into == ChunksForAppend
           chunk == into[Len(into)]
<1>1. /\ n \in Nat /\ DOMAIN file.names = 1 .. n /\ fields \in Seq(Variants) \ {<<>>}
      /\ Len(file.types) = n /\ Len(columns) = n /\ n <= MaxColumns /\ n # 0
      /\ columns \in Seq(ColumnDefinition) /\ DOMAIN columns = 1 .. n
  BY FileType DEF LoadInv, HeaderInv, UseInv, IInv
<1>2. Len(tokens) = n /\ Parses(tokens)
  BY <1>1, LineFitsTokens DEF LoadInv
<1>3. /\ tokens \in Seq(Variants) /\ DOMAIN tokens = 1 .. n
      /\ \A c \in 1 .. n : tokens[c] = fields[c]
  BY <1>1, <1>2, TokensOfLine
<1> HIDE DEF fields, tokens, n
<1>4. tokens \in Rows
  <2>1. tokens \in [1 .. n -> AllTypeVariant]
    BY <1>2, <1>3 DEF AllTypeVariant
  <2>2. n \in 0 .. MaxColumns
    BY <1>1, TableAssumption
  <2> QED
    BY <2>1, <2>2 DEF Rows
<1>5. \A c \in 1 .. n : /\ tokens[c] # NULL /\ columns[c].type = file.types[c]
                        /\ TypeCast[columns[c].type, tokens[c]] # CastError
  <2>1. \A c \in 1 .. n : columns[c].type = file.types[c]
    BY <1>1 DEF LoadInv, HeaderInv, ColumnOf
  <2>2. \A c \in 1 .. n : tokens[c] \in Variants
    BY <1>2, <1>3
  <2> QED
    BY <1>2, <1>3, <2>1, <2>2, DataTypesAssumption DEF Parses
<1>6. Abstract!Fits(tokens)
  BY <1>1, <1>2, <1>5 DEF Abstract!Fits
<1>7. columns # <<>>
  BY <1>1
<1>8. /\ chunk \in Chunks /\ WholeChunk(chunk, columns)
      /\ \A c \in DOMAIN chunk : chunk[c].kind = "value"
  <2>1. UseInv /\ columns # <<>> /\ ChunkSize(LastChunk) < MaxChunkOffset
    BY <1>7 DEF AppendRow, LoadInv
  <2> QED
    BY <2>1, AppendsToWholeChunk
<1>9. FitsChunk(chunk, tokens)
  BY <1>1, <1>4, <1>6, <1>8, FitsSchema
<1>10. UseAppend(tokens)
  <2>1. RefusedWhole(tokens)
    BY <1>9 DEF RefusedWhole, FitsChunk, ChunkAppendThrows
  <2> QED
    BY <1>7, <2>1 DEF UseAppend, tokens, fields
<1>11. Stored(tokens)
  BY <1>4, <1>6, <1>10, AppendedParts DEF Refused, LoadInv
<1>12. Abstract!Cells(tokens) = [c \in DOMAIN file.names |-> TypeCast[file.types[c], fields[c]]]
  BY <1>1, <1>3, <1>5 DEF Abstract!Cells
<1> QED
  BY <1>4, <1>10, <1>11, <1>12 DEF tokens, fields

LEMMA ReadRowStep ==
    ASSUME LoadInv, ReadRow
    PROVE  LoadStep
<1> DEFINE fields == file.lines[line]
           tokens == Tokens(fields)
<1>1. /\ stage = "rows" /\ line <= Len(file.lines) /\ line' = line + 1 /\ file' = file
      /\ IF Len(tokens) = Len(file.names) /\ Parses(tokens)
         THEN AppendRow(tokens) /\ After("rows")
         ELSE stage' = "failed" /\ UNCHANGED vars
  BY DEF ReadRow
<1>2. /\ line \in DOMAIN file.lines /\ line \in Nat /\ line' \in 1 .. Len(file.lines) + 1
      /\ fields \in Seq(Variants) \ {<<>>}
      /\ Len(file.types) = Len(file.names) /\ Len(columns) = Len(file.names)
  BY <1>1, FileType DEF LoadInv, LinesInv, HeaderInv
<1>3. LineFits(fields) <=> Len(tokens) = Len(file.names) /\ Parses(tokens)
  BY <1>2, LineFitsTokens DEF LoadInv
<1>4. \A c \in DOMAIN columns : columns' = columns => columns'[c] = ColumnOf(c)'
  BY <1>1, FileStays DEF LoadInv, HeaderInv
<1>5. CASE ~LineFits(fields)
  <2>1. stage' = "failed" /\ UNCHANGED vars
    BY <1>1, <1>3, <1>5
  <2>2. ~FileFits
    BY <1>2, <1>5 DEF FileFits
  <2>3. UseInv'
    BY <2>1 DEF LoadInv, UseInv, IInv, vars
  <2> QED
    BY <1>1, <1>2, <1>4, <2>1, <2>2, <2>3, FileStays
    DEF LoadStep, LoadInv, HeaderInv, LinesInv, EndInv, Stages, vars
<1>6. CASE LineFits(fields) /\ file.names = <<>>
  <2>1. AppendRow(tokens) /\ After("rows") /\ columns = <<>> /\ line = 1 /\ tokens = <<>>
    BY <1>1, <1>2, <1>3, <1>6, TokensOfLine DEF LoadInv, HeaderInv, UseInv, IInv, LinesInv
  <2>2. /\ UNCHANGED <<chunks, columns, target>>
        /\ call' = [op |-> "append", row |-> tokens, outcome |-> "undefined"]
    BY <2>1 DEF AppendRow
  <2>3. stage' = "undefined"
    BY <2>1, <2>2 DEF After
  <2>4. IInv'
    <3>1. tokens \in Rows
      BY <2>1, TableAssumption DEF Rows
    <3> QED
      BY <2>1, <3>1, AppendRowIInv DEF LoadInv, UseInv
  <2>5. UseInv'
    BY <2>2, <2>4 DEF LoadInv, UseInv
  <2>6. fields = <<Empty>>
    <3>1. Len(fields) = 1 /\ fields[1] = Empty
      <4>1. Len(tokens) = 0
        BY <1>3, <1>6
      <4> HIDE DEF fields
      <4>2. /\ Len(fields) \in Nat /\ Len(fields) > 0
            /\ Len(Tokens(fields)) = IF fields[Len(fields)] = Empty THEN Len(fields) - 1
                                                                   ELSE Len(fields)
        BY <1>2, TokensOfLine
      <4> QED
        BY <4>1, <4>2
    <3> QED
      BY <1>2, <3>1
  <2> QED
    BY <1>1, <1>2, <1>4, <1>6, <2>1, <2>2, <2>3, <2>5, <2>6, FileStays
    DEF LoadStep, LoadInv, HeaderInv, LinesInv, EndInv, Stages
<1>7. CASE LineFits(fields) /\ file.names # <<>>
  <2>1. tokens \in Rows /\ UseAppend(tokens) /\ Stored(tokens)
    BY <1>1, <1>2, <1>3, <1>7, LineIsStored
  <2>2. UseInv' /\ [UseNext]_vars
    BY <2>1, AppendedParts DEF LoadInv, UseNext
  <2>3. stage' = "rows" /\ columns' = columns
    BY <1>1, <1>3, <1>7, <2>1 DEF Stored, After, AppendRow
  <2>4. \A l \in 1 .. line : LineFits(file.lines[l])
    BY <1>1, <1>2, <1>7 DEF LoadInv, LinesInv
  <2>5. LinesInv'
    BY <1>1, <1>2, <1>7, <2>3, <2>4, FileStays DEF LinesInv
  <2> QED
    BY <1>1, <1>2, <1>4, <2>2, <2>3, <2>5, FileStays
    DEF LoadStep, LoadInv, HeaderInv, EndInv, Stages
<1> QED
  BY <1>5, <1>6, <1>7

LEMMA LoadNextStep ==
    ASSUME LoadInv, [LoadNext]_loadVars
    PROVE  LoadStep
<1>1. CASE UNCHANGED loadVars
  <2>1. UNCHANGED <<vars, file, stage, line>>
    BY <1>1 DEF loadVars
  <2>2. UseInv'
    BY <2>1 DEF LoadInv, UseInv, IInv, vars
  <2> QED
    BY <2>1, <2>2, FileStays DEF LoadStep, LoadInv, HeaderInv, LinesInv, EndInv, vars
<1> QED
  BY <1>1, ReadHeaderStep, DefineColumnStep, ColumnsDoneStep, ReadRowStep, ReturnStep
  DEF LoadNext

LEMMA LoadInvariant == LoadSpec => []LoadInv
<1>1. LoadInv /\ [LoadNext]_loadVars => LoadInv'
  BY LoadNextStep DEF LoadStep
<1> QED
  BY <1>1, LoadInitInv, PTL DEF LoadSpec

\* A file is loaded if and only if it fits; the call of append that is
\* undefined is on an empty line of a file without columns.
THEOREM LoadIsExactAlways == LoadSpec => []LoadIsExact
<1>1. LoadInv => LoadIsExact
  <2> SUFFICES ASSUME LoadInv, stage = "returned" PROVE FileFits
    BY DEF LoadInv, EndInv, LoadIsExact
  <2>1. /\ Len(file.types) = Len(file.names) /\ Len(columns) = Len(file.names)
        /\ DOMAIN columns = DOMAIN file.names
    BY FileType DEF LoadInv, HeaderInv, UseInv, IInv
  <2>2. \A l \in DOMAIN file.lines : LineFits(file.lines[l])
    BY FileType DEF LoadInv, LinesInv
  <2> QED
    BY <2>1, <2>2 DEF FileFits, LoadInv, HeaderInv
<1> QED
  BY <1>1, LoadInvariant, PTL

\* load_table stays within the rules of TableUse, for any file that has a
\* column; its steps do even if the chunk size narrows to 0.
THEOREM LoadKeepsTheRules == LoadSpec => KeepsTheRules
<1>1. LoadInit => (target > 0 => UseInit)
  BY DEF LoadInit, UseInit
<1>2. LoadInv /\ [LoadNext]_loadVars =>
        [file.names # <<>> => [UseNext]_vars]_loadVars
  BY LoadNextStep DEF LoadStep
<1> QED
  BY <1>1, <1>2, LoadInvariant, PTL DEF LoadSpec, KeepsTheRules

-----------------------------------------------------------------------------
(* The rows of the table are the lines read, as cells of their columns.    *)

RowsIn == UNION {Range(Parts[k]) : k \in DOMAIN Parts}

LEMMA PartsType ==
    ASSUME UseInv, NEW E
    PROVE  /\ Parts \in Seq(Seq(RowsIn \cup E)) /\ Parts # <<>>
           /\ Len(Parts) = Len(chunks) /\ Len(chunks) \in Nat /\ Len(chunks) >= 1
           /\ \A k \in DOMAIN chunks : Len(Parts[k]) = ChunkSize(chunks[k])
<1>1. /\ chunks \in Seq(Chunks) /\ Len(chunks) \in Nat /\ Len(chunks) >= 1
      /\ DOMAIN chunks = 1 .. Len(chunks)
  BY DEF UseInv, IInv
<1>2. /\ DOMAIN Parts = DOMAIN chunks /\ Len(Parts) = Len(chunks)
      /\ \A k \in DOMAIN chunks : /\ Parts[k] = PartOf(chunks[k])
                                  /\ Len(Parts[k]) = ChunkSize(chunks[k])
  BY PartsProperties
<1>3. ASSUME NEW k \in DOMAIN chunks
      PROVE  Parts[k] \in Seq(RowsIn \cup E)
  <2>1. Parts[k] \in Seq(Range(Parts[k]))
    BY <1>1, <1>2, ChunkSizeType
  <2>2. Range(Parts[k]) \subseteq RowsIn \cup E
    BY <1>2 DEF RowsIn
  <2> QED
    BY <2>1, <2>2
<1>4. Parts = [k \in 1 .. Len(chunks) |-> Parts[k]]
  BY <1>1 DEF Parts
<1>5. Parts \in [1 .. Len(chunks) -> Seq(RowsIn \cup E)]
  BY <1>1, <1>3, <1>4
<1>6. Parts # <<>>
  BY <1>1, <1>2
<1>7. Parts \in Seq(Seq(RowsIn \cup E))
  <2>1. \A S : [1 .. Len(chunks) -> S] \subseteq Seq(S)
    BY <1>1
  <2> QED
    BY <1>5, <2>1, Zenon
<1> QED
  BY <1>1, <1>2, <1>6, <1>7

LEMMA RowsReadIs == RowsRead = FlattenSeq(Parts)
BY DEF RowsRead, Parts, PartOf

LEMMA ConcatLength ==
    ASSUME NEW E, NEW s \in Seq(E), NEW t \in Seq(E)
    PROVE  Len(s \o t) = Len(s) + Len(t)
OBVIOUS

\* row_count counts the rows there are to read.
LEMMA RowCountIs ==
    ASSUME UseInv
    PROVE  RowCount \in Nat /\ RowCount = Len(RowsRead)
<1> DEFINE n == Len(chunks)
           rows[k \in 0 .. Len(chunks)] ==
               IF k = 0 THEN 0 ELSE rows[k - 1] + ChunkSize(chunks[k])
           Counts(g) == g = [k \in 0 .. n |-> IF k = 0 THEN 0
                                              ELSE g[k - 1] + ChunkSize(chunks[k])]
<1>1. /\ Parts \in Seq(Seq(RowsIn)) /\ Parts # <<>> /\ Len(Parts) = n
      /\ n \in Nat /\ n >= 1 /\ DOMAIN chunks = 1 .. n
      /\ \A k \in 1 .. n : Len(Parts[k]) = ChunkSize(chunks[k]) /\ Parts[k] \in Seq(RowsIn)
  <2>1. RowsIn \cup {} = RowsIn
    OBVIOUS
  <2>2. /\ Parts \in Seq(Seq(RowsIn)) /\ Parts # <<>> /\ Len(Parts) = n
        /\ n \in Nat /\ n >= 1
        /\ \A k \in DOMAIN chunks : Len(Parts[k]) = ChunkSize(chunks[k])
    BY <2>1, PartsType
  <2>3. DOMAIN chunks = 1 .. n
    BY DEF UseInv, IInv
  <2> QED
    BY <2>2, <2>3
<1>2. PICK f \in [1 .. n -> Seq(RowsIn)] :
        Flattens(f, Parts, n) /\ FlattenSeq(Parts) = f[n]
  BY <1>1, FlattenIs
<1>3. RowCount = rows[n]
  BY DEF RowCount
<1> HIDE DEF n
<1>4. /\ Len(f[1]) = ChunkSize(chunks[1])
      /\ \A k \in 1 + 1 .. n : Len(f[k]) = Len(f[k - 1]) + ChunkSize(chunks[k])
      /\ \A k \in 1 .. n : Len(f[k]) \in Nat
  <2>1. \A k \in 1 .. n : f[k] = IF k = 1 THEN Parts[k] ELSE f[k - 1] \o Parts[k]
    BY <1>2 DEF Flattens
  <2>2. ASSUME NEW k \in 1 + 1 .. n
        PROVE  Len(f[k]) = Len(f[k - 1]) + ChunkSize(chunks[k])
    <3>1. /\ k \in 1 .. n /\ k # 1 /\ f[k - 1] \in Seq(RowsIn) /\ Parts[k] \in Seq(RowsIn)
          /\ Len(Parts[k]) = ChunkSize(chunks[k])
      BY <1>1, <1>2
    <3>2. f[k] = f[k - 1] \o Parts[k]
      BY <2>1, <3>1
    <3>3. Len(f[k - 1] \o Parts[k]) = Len(f[k - 1]) + Len(Parts[k])
      BY <3>1, ConcatLength
    <3> QED
      BY <3>1, <3>2, <3>3
  <2>3. Len(f[1]) = ChunkSize(chunks[1])
    BY <1>1, <2>1
  <2>4. \A k \in 1 .. n : Len(f[k]) \in Nat
    BY <1>2
  <2> QED
    BY <2>2, <2>3, <2>4
<1> DEFINE size == [k \in 0 .. n |-> IF k = 0 THEN 0 ELSE Len(f[k])]
<1>5. Counts(size)
  <2>1. \A k \in 0 .. n : size[k] = IF k = 0 THEN 0 ELSE size[k - 1] + ChunkSize(chunks[k])
    <3> TAKE k \in 0 .. n
    <3>1. CASE k = 0
      BY <3>1
    <3>2. CASE k = 1
      BY <1>1, <1>4, <3>2
    <3>3. CASE k \in 1 + 1 .. n
      <4>1. size[k] = Len(f[k]) /\ size[k - 1] = Len(f[k - 1]) /\ k # 0
        <5>1. k \in 0 .. n /\ k # 0 /\ k - 1 \in 0 .. n /\ k - 1 # 0
          BY <1>1, <3>3
        <5> QED
          BY <5>1, Zenon
      <4> HIDE DEF size
      <4> QED
        BY <1>4, <3>3, <4>1
    <3> QED
      BY <1>1, <3>1, <3>2, <3>3
  <2>2. size = [k \in 0 .. n |-> size[k]]
    OBVIOUS
  <2> HIDE DEF size
  <2> QED
    BY <2>1, <2>2
<1>6. Counts(rows)
  <2>1. \E g : Counts(g)
    BY <1>5
  <2> QED
    BY <2>1, Zenon DEF n
<1> HIDE DEF rows
<1>7. /\ rows[0] = 0
      /\ \A k \in 1 .. n : rows[k] = rows[k - 1] + ChunkSize(chunks[k])
  BY <1>1, <1>6
<1> DEFINE T == {k \in 1 .. n : rows[k] = Len(f[k])}
<1>8. 1 \in T
  <2>1. rows[1] = rows[0] + ChunkSize(chunks[1])
    BY <1>1, <1>7
  <2> QED
    BY <1>1, <1>4, <1>7, <2>1
<1>9. ASSUME NEW k \in 1 + 1 .. n, k - 1 \in T
      PROVE  k \in T
  <2>1. k \in 1 .. n /\ rows[k - 1] = Len(f[k - 1])
    BY <1>9
  <2>2. rows[k] = rows[k - 1] + ChunkSize(chunks[k])
    BY <1>7, <2>1
  <2> QED
    BY <1>4, <2>1, <2>2
<1> HIDE DEF T
<1>10. 1 .. n \subseteq T
  BY <1>1, <1>8, <1>9, SetInduction
<1>11. rows[n] = Len(f[n]) /\ Len(f[n]) \in Nat
  BY <1>1, <1>4, <1>10 DEF T
<1> QED
  BY <1>2, <1>3, <1>11, RowsReadIs

\* A stored row is the new last one, in whichever chunk it is.
LEMMA StoredRowIsLast ==
    ASSUME UseInv, NEW values, Stored(values)
    PROVE  RowsRead' = Append(RowsRead, Abstract!Cells(values))
<1> DEFINE row == Abstract!Cells(values)
           E == RowsIn \cup {row}
           n == Len(Parts)
<1>1. Parts \in Seq(Seq(E)) /\ Parts # <<>> /\ row \in E /\ <<row>> \in Seq(E)
  <2>1. Parts \in Seq(Seq(E)) /\ Parts # <<>>
    BY PartsType
  <2>2. row \in E
    OBVIOUS
  <2> HIDE DEF E, row
  <2> QED
    BY <2>1, <2>2
<1>2. RowsRead' = FlattenSeq(Parts')
  BY DEF RowsRead, Parts, PartOf
<1>3. \/ Parts' = [Parts EXCEPT ![n] = Append(Parts[n], row)]
      \/ Parts' = Append(Parts, <<row>>)
  BY DEF Stored
<1> HIDE DEF E, row, n
<1>4. CASE Parts' = [Parts EXCEPT ![n] = Append(Parts[n], row)]
  <2>1. FlattenSeq([Parts EXCEPT ![n] = Append(Parts[n], row)])
          = Append(FlattenSeq(Parts), row)
    BY <1>1, FlattenGrown DEF n
  <2> QED
    BY <1>2, <1>4, <2>1, RowsReadIs DEF row
<1>5. CASE Parts' = Append(Parts, <<row>>)
  <2>1. /\ FlattenSeq(Parts) \in Seq(E)
        /\ FlattenSeq(Append(Parts, <<row>>)) = FlattenSeq(Parts) \o <<row>>
    BY <1>1, FlattenSnoc
  <2>2. FlattenSeq(Parts) \o <<row>> = Append(FlattenSeq(Parts), row)
    BY <1>1, <2>1
  <2> QED
    BY <1>2, <1>5, <2>1, <2>2, RowsReadIs DEF row
<1> QED
  BY <1>3, <1>4, <1>5

\* The rows that the lines read so far stand for.
CellsOf(fields) == [c \in DOMAIN file.names |-> TypeCast[file.types[c], fields[c]]]

LinesRead == [l \in 1 .. line - 1 |-> CellsOf(file.lines[l])]

RowsInv ==
    /\ stage \in {"rows", "returned"} => RowsRead = LinesRead
    /\ stage \in {"failed", "undefined"} => RowCount <= line - 1

LEMMA EmptyTable ==
    ASSUME UseInv, Len(chunks) = 1, ChunkSize(chunks[1]) = 0
    PROVE  RowsRead = <<>> /\ RowCount = 0
<1> DEFINE rows == [k \in DOMAIN chunks |->
                      [i \in 1 .. ChunkSize(chunks[k]) |-> RowOf(chunks[k], i)]]
<1>1. DOMAIN chunks = {1}
  BY DEF UseInv, IInv
<1>2. rows[1] = <<>> /\ rows \in Seq(Seq({})) /\ Len(rows) = 1 /\ rows # <<>>
  <2>1. rows = [k \in 1 .. 1 |-> <<>>]
    BY <1>1
  <2> HIDE DEF rows
  <2>2. rows \in [1 .. 1 -> Seq({})] /\ rows[1] = <<>>
    BY <2>1
  <2>3. rows \in Seq(Seq({})) /\ Len(rows) = 1
    <3>1. \A S : [1 .. 1 -> S] \subseteq Seq(S)
      OBVIOUS
    <3>2. rows \in Seq(Seq({}))
      BY <2>2, <3>1, Zenon
    <3> QED
      BY <2>2, <3>2
  <2>4. rows # <<>>
    BY <2>3
  <2> QED
    BY <2>2, <2>3, <2>4
<1> HIDE DEF rows
<1>3. PICK f \in [1 .. 1 -> Seq({})] : Flattens(f, rows, 1) /\ FlattenSeq(rows) = f[1]
  BY <1>2, FlattenIs
<1>4. f[1] = rows[1]
  BY <1>3 DEF Flattens
<1>5. RowsRead = <<>>
  BY <1>2, <1>3, <1>4 DEF RowsRead, rows
<1> QED
  BY <1>5, RowCountIs

LEMMA LinesReadType ==
    ASSUME LoadInv
    PROVE  /\ line - 1 \in Nat
           /\ LinesRead \in Seq(Range(LinesRead)) /\ Len(LinesRead) = line - 1
<1>1. line - 1 \in Nat
  BY FileType DEF LoadInv, LinesInv
<1>2. LinesRead \in [1 .. line - 1 -> Range(LinesRead)]
  BY DEF LinesRead, Range
<1> QED
  BY <1>1, <1>2

\* Nothing but ReadRow adds a row.
LEMMA NoRowsStep ==
    ASSUME LoadInv, RowsInv, UNCHANGED <<chunks, columns, target>>, file' = file,
           \/ line' = line
           \/ line' = line + 1 /\ stage = "rows" /\ stage' \in {"failed", "undefined"},
           stage' \in {"rows", "returned"} => line' = line,
           stage \in {"header", "columns"} =>
              stage' \in {"header", "columns", "rows", "failed"},
           stage = "rows" => stage' \in {"rows", "returned", "failed", "undefined"},
           stage \in {"returned", "failed", "undefined"} => stage' = stage
    PROVE  RowsInv'
<1>1. RowsRead' = RowsRead /\ RowCount' = RowCount
  BY DEF RowsRead, RowOf, RowCount
<1>2. RowCount \in Nat /\ RowCount = Len(RowsRead)
  BY RowCountIs DEF LoadInv
<1>3. line' = line => LinesRead' = LinesRead
  BY DEF LinesRead, CellsOf
<1>4. CASE stage \in {"header", "columns"}
  <2>1. RowsRead = <<>> /\ RowCount = 0 /\ line = 1
    BY <1>4, EmptyTable DEF LoadInv, HeaderInv, LinesInv
  <2>2. line' = line /\ LinesRead = <<>>
    BY <1>4, <2>1 DEF LinesRead
  <2> QED
    BY <1>1, <1>3, <1>4, <2>1, <2>2 DEF RowsInv
<1>5. CASE stage = "rows"
  <2>1. RowsRead = LinesRead /\ RowCount = line - 1 /\ line - 1 \in Nat
    BY <1>2, <1>5, LinesReadType DEF RowsInv
  <2>2. line - 1 <= line' - 1
    <3>1. line \in Int
      BY FileType DEF LoadInv, LinesInv
    <3> QED
      BY <3>1
  <2> QED
    BY <1>1, <1>3, <1>5, <2>1, <2>2 DEF RowsInv
<1>6. CASE stage \in {"returned", "failed", "undefined"}
  BY <1>1, <1>3, <1>6 DEF RowsInv
<1> QED
  BY <1>4, <1>5, <1>6 DEF LoadInv, Stages

LEMMA ReadRowRows ==
    ASSUME LoadInv, RowsInv, ReadRow
    PROVE  RowsInv'
<1> DEFINE fields == file.lines[line]
           tokens == Tokens(fields)
<1>1. /\ stage = "rows" /\ line <= Len(file.lines) /\ line' = line + 1 /\ file' = file
      /\ IF Len(tokens) = Len(file.names) /\ Parses(tokens)
         THEN AppendRow(tokens) /\ After("rows")
         ELSE stage' = "failed" /\ UNCHANGED vars
  BY DEF ReadRow
<1>2. /\ line \in DOMAIN file.lines /\ line \in Nat /\ line >= 1
      /\ fields \in Seq(Variants) \ {<<>>}
      /\ Len(file.types) = Len(file.names) /\ Len(columns) = Len(file.names)
      /\ columns \in Seq(ColumnDefinition)
  BY <1>1, FileType DEF LoadInv, LinesInv, HeaderInv, UseInv, IInv
<1>3. LineFits(fields) <=> Len(tokens) = Len(file.names) /\ Parses(tokens)
  BY <1>2, LineFitsTokens DEF LoadInv
<1>4. CASE ~LineFits(fields)
  <2>1. stage' = "failed" /\ UNCHANGED vars
    BY <1>1, <1>3, <1>4
  <2> QED
    BY <1>1, <2>1, NoRowsStep DEF vars
<1>5. CASE LineFits(fields) /\ file.names = <<>>
  <2>1. AppendRow(tokens) /\ After("rows") /\ columns = <<>>
    BY <1>1, <1>2, <1>3, <1>5
  <2>2. /\ UNCHANGED <<chunks, columns, target>>
        /\ call' = [op |-> "append", row |-> tokens, outcome |-> "undefined"]
    BY <2>1 DEF AppendRow
  <2>3. stage' = "undefined"
    BY <2>1, <2>2 DEF After
  <2> QED
    BY <1>1, <2>2, <2>3, NoRowsStep
<1>6. CASE LineFits(fields) /\ file.names # <<>>
  <2>1. Stored(tokens) /\ Abstract!Cells(tokens) = CellsOf(fields)
    BY <1>1, <1>2, <1>3, <1>6, LineIsStored DEF CellsOf
  <2>2. stage' = "rows"
    BY <1>1, <1>3, <1>6, <2>1 DEF Stored, After
  <2>3. RowsRead' = Append(LinesRead, CellsOf(fields))
    BY <1>1, <2>1, StoredRowIsLast DEF LoadInv, RowsInv
  <2>4. Append(LinesRead, CellsOf(fields)) =
          [l \in 1 .. line |-> IF l = line THEN CellsOf(fields) ELSE LinesRead[l]]
    <3>1. Len(LinesRead) + 1 = line
      BY <1>2, LinesReadType
    <3>2. LinesRead \in Seq(Range(LinesRead))
      BY LinesReadType
    <3> QED
      BY <3>1, <3>2, AppendAsFunction
  <2>5. LinesRead' = [l \in 1 .. line |-> CellsOf(file.lines[l])]
    <3>1. line' - 1 = line
      BY <1>1, <1>2
    <3> QED
      BY <1>1, <3>1 DEF LinesRead, CellsOf
  <2>6. \A l \in 1 .. line :
          CellsOf(file.lines[l]) = IF l = line THEN CellsOf(fields) ELSE LinesRead[l]
    BY <1>2 DEF LinesRead
  <2>7. RowsRead' = LinesRead'
    BY <2>3, <2>4, <2>5, <2>6
  <2> QED
    BY <2>2, <2>7 DEF RowsInv
<1> QED
  BY <1>4, <1>5, <1>6

LEMMA DefineColumnRows ==
    ASSUME LoadInv, RowsInv, DefineColumn
    PROVE  RowsInv'
<1>1. /\ stage = "columns" /\ AddColumn(ColumnOf(Len(columns) + 1)) /\ After("columns")
      /\ file' = file /\ line' = line
  BY DEF DefineColumn
<1>2. CASE call' = Call("add_column", "ok")
  BY <1>1, <1>2 DEF After, Call, RowsInv
<1>3. CASE call' = Call("add_column", "throws") /\ UNCHANGED <<chunks, columns>>
  <2>1. UNCHANGED <<chunks, columns, target>> /\ stage' = "failed"
    BY <1>1, <1>3 DEF AddColumn, After, Call
  <2> QED
    BY <1>1, <2>1, NoRowsStep
<1> QED
  BY <1>1, <1>2, <1>3 DEF AddColumn

LEMMA RowsInvariant == LoadSpec => []RowsInv
<1>1. LoadInit => RowsInv
  BY DEF LoadInit, RowsInv
<1>2. LoadInv /\ RowsInv /\ [LoadNext]_loadVars => RowsInv'
  <2> SUFFICES ASSUME LoadInv, RowsInv, [LoadNext]_loadVars PROVE RowsInv'
    OBVIOUS
  <2>1. CASE ReadHeader
    BY <2>1, NoRowsStep DEF ReadHeader, vars
  <2>2. CASE ColumnsDone
    BY <2>2, NoRowsStep DEF ColumnsDone, vars
  <2>3. CASE Return
    BY <2>3, NoRowsStep DEF Return, vars
  <2>4. CASE UNCHANGED loadVars
    <3>1. UNCHANGED <<chunks, columns, target, file, stage, line>>
      BY <2>4 DEF loadVars, vars
    <3> QED
      BY <3>1, NoRowsStep DEF LoadInv, Stages
  <2> QED
    BY <2>1, <2>2, <2>3, <2>4, DefineColumnRows, ReadRowRows DEF LoadNext
<1> QED
  BY <1>1, <1>2, LoadInvariant, PTL DEF LoadSpec

\* One empty chunk until the columns are there; no more rows than lines read.
THEOREM LoadTypeCorrect == LoadSpec => []LoadTypeOK
<1>1. LoadInv /\ RowsInv => LoadTypeOK
  <2> SUFFICES ASSUME LoadInv, RowsInv PROVE LoadTypeOK
    OBVIOUS
  <2>1. TypeOK /\ file \in Files /\ stage \in Stages
    BY IInvIsEnough DEF LoadInv, UseInv
  <2>2. line \in 1 .. Len(file.lines) + 1 /\ line - 1 \in Nat
    BY LinesReadType DEF LoadInv, LinesInv
  <2>3. stage \in {"header", "columns"} => Len(chunks) = 1 /\ RowCount = 0
    BY EmptyTable DEF LoadInv, HeaderInv
  <2>4. RowCount <= line - 1
    <3>1. stage \in {"rows", "returned"} => RowCount = line - 1
      BY RowCountIs, LinesReadType DEF RowsInv, LoadInv
    <3> QED
      BY <2>1, <2>2, <2>3, <3>1 DEF RowsInv, Stages
  <2> QED
    BY <2>1, <2>2, <2>3, <2>4 DEF LoadTypeOK, Ended, Stages
<1> QED
  BY <1>1, LoadInvariant, RowsInvariant, PTL

\* The table that is returned has the columns of the header, and the rows of
\* the file in their order, whatever the chunk size asked for and narrowed.
THEOREM LoadedEqualsFileAlways == LoadSpec => []LoadedEqualsFile
<1>1. LoadInv /\ RowsInv => LoadedEqualsFile
  <2> SUFFICES ASSUME LoadInv, RowsInv, stage = "returned" PROVE LoadedEqualsFile
    BY DEF LoadedEqualsFile
  <2>1. /\ columns \in Seq(ColumnDefinition) /\ Len(columns) = Len(file.names)
        /\ DOMAIN columns = DOMAIN file.names
        /\ \A c \in DOMAIN columns : columns[c] = ColumnOf(c)
    BY FileType DEF LoadInv, HeaderInv, UseInv, IInv
  <2>2. columns = [c \in DOMAIN file.names |->
                      [name |-> file.names[c], type |-> file.types[c], nullable |-> FALSE]]
    <3>1. columns = [c \in DOMAIN columns |-> columns[c]]
      BY <2>1
    <3> QED
      BY <2>1, <3>1 DEF ColumnOf
  <2>3. /\ line = Len(file.lines) + 1 /\ line - 1 = Len(file.lines)
        /\ RowsRead = [l \in 1 .. line - 1 |-> CellsOf(file.lines[l])]
        /\ Len(RowsRead) = line - 1
    BY FileType, LinesReadType DEF LoadInv, LinesInv, RowsInv, LinesRead
  <2>4. ASSUME NEW r \in DOMAIN RowsRead, NEW c \in DOMAIN columns
        PROVE  RowsRead[r][c] = TypeCast[columns[c].type, file.lines[r][c]]
    <3>1. RowsRead[r] = CellsOf(file.lines[r])
      BY <2>3, <2>4
    <3>2. c \in DOMAIN file.names /\ columns[c].type = file.types[c]
      <4>1. c \in DOMAIN file.names /\ columns[c] = ColumnOf(c)
        BY <2>1
      <4>2. ColumnOf(c).type = file.types[c]
        BY DEF ColumnOf
      <4> QED
        BY <4>1, <4>2
    <3> QED
      BY <3>1, <3>2 DEF CellsOf
  <2> QED
    BY <2>2, <2>3, <2>4 DEF LoadedEqualsFile
<1> QED
  BY <1>1, LoadInvariant, RowsInvariant, PTL
=============================================================================
