---------------------------- MODULE Table_proofs -----------------------------
(***************************************************************************)
(* The invariants of Table, for every schema, target size, build, set of   *)
(* values and bound.                                                       *)
(***************************************************************************)
EXTENDS Table, Segments_proofs, SequencesExt

-----------------------------------------------------------------------------
(* Sequences.  What FlattenSeq makes of a sequence of any length is shown  *)
(* by induction over sets of numbers.                                      *)

LEMMA AppendAsFunction ==
    ASSUME NEW S, NEW s \in Seq(S), NEW e
    PROVE  Append(s, e) = [k \in 1 .. Len(s) + 1 |-> IF k = Len(s) + 1 THEN e ELSE s[k]]
<1>1. s \in Seq(S \cup {e}) /\ e \in S \cup {e}
  OBVIOUS
<1>2. /\ Append(s, e) \in Seq(S \cup {e}) /\ Len(Append(s, e)) = Len(s) + 1
      /\ Len(s) \in Nat /\ Append(s, e)[Len(s) + 1] = e
      /\ \A k \in 1 .. Len(s) : Append(s, e)[k] = s[k]
  BY <1>1
<1> DEFINE longer == Append(s, e)
           n == Len(s)
<1> HIDE DEF longer, n
<1>3. longer \in [1 .. n + 1 -> S \cup {e}]
  <2>1. longer \in Seq(S \cup {e}) /\ Len(longer) = n + 1
    BY <1>2 DEF longer, n
  <2> QED
    BY <2>1
<1>4. \A k \in 1 .. n + 1 : longer[k] = IF k = n + 1 THEN e ELSE s[k]
  BY <1>2 DEF longer, n
<1>5. longer = [k \in 1 .. n + 1 |-> IF k = n + 1 THEN e ELSE s[k]]
  BY <1>3, <1>4
<1> QED
  BY <1>5 DEF longer, n

LEMMA SetInduction ==
    ASSUME NEW T, NEW lo \in Nat, NEW hi \in Nat, lo \in T,
           \A k \in lo + 1 .. hi : k - 1 \in T => k \in T
    PROVE  lo .. hi \subseteq T
<1> DEFINE Rest == (lo .. hi) \ T
<1>1. SUFFICES ASSUME Rest # {} PROVE FALSE
  OBVIOUS
<1>2. PICK m \in Rest : \A k \in Rest : ~(<<k, m>> \in OpToRel(<, Nat))
  <2>1. Rest \subseteq Nat
    OBVIOUS
  <2> HIDE DEF Rest
  <2> QED
    BY <1>1, <2>1, NatLessThanWellFounded, WFMin
<1>3. \A k \in Rest : ~(k < m)
  <2>1. \A k \in Rest : k \in Nat /\ m \in Nat
    OBVIOUS
  <2> QED
    BY <1>2, <2>1 DEF OpToRel
<1>4. m \in lo + 1 .. hi /\ m - 1 \in lo .. hi
  OBVIOUS
<1>5. m - 1 \in T
  BY <1>3, <1>4
<1> QED
  BY <1>4, <1>5

\* FlattenSeq is the last value of a function that adds one sequence at a time.
Flattens(f, ss, n) ==
    f = [i \in 1 .. n |-> IF i = 1 THEN ss[i] ELSE f[i - 1] \o ss[i]]

LEMMA FlattenExists ==
    ASSUME NEW E, NEW ss, NEW n \in Nat, 1 <= n, \A i \in 1 .. n : ss[i] \in Seq(E)
    PROVE  \E f \in [1 .. n -> Seq(E)] : Flattens(f, ss, n)
<1> DEFINE T == {m \in 1 .. n : \E f \in [1 .. m -> Seq(E)] : Flattens(f, ss, m)}
<1>1. 1 \in T
  <2> DEFINE f == [i \in 1 .. 1 |-> ss[i]]
  <2>1. f \in [1 .. 1 -> Seq(E)] /\ Flattens(f, ss, 1)
    BY DEF Flattens
  <2> HIDE DEF f
  <2> QED
    BY <2>1
<1>2. ASSUME NEW m \in 1 + 1 .. n, m - 1 \in T
      PROVE  m \in T
  <2>1. PICK f \in [1 .. m - 1 -> Seq(E)] : Flattens(f, ss, m - 1)
    BY <1>2
  <2> DEFINE g == [k \in 1 .. m |-> IF k = m THEN f[m - 1] \o ss[m] ELSE f[k]]
  <2>2. /\ m \in 1 .. n /\ m # 1 /\ f[m - 1] \in Seq(E) /\ ss[m] \in Seq(E)
        /\ f[m - 1] \o ss[m] \in Seq(E)
    OBVIOUS
  <2>3. g \in [1 .. m -> Seq(E)]
    BY <2>2
  <2>4. \A i \in 1 .. m : g[i] = IF i = 1 THEN ss[i] ELSE g[i - 1] \o ss[i]
    <3> TAKE i \in 1 .. m
    <3>1. CASE i = m
      <4>1. i - 1 \in 1 .. m /\ i - 1 # m /\ i # 1 /\ g[i] = f[i - 1] \o ss[i]
        <5>1. m - 1 \in 1 .. m /\ m - 1 # m /\ m # 1
          BY <2>2
        <5>2. g[m] = f[m - 1] \o ss[m]
          <6>1. m \in 1 .. m
            BY <2>2
          <6> QED
            BY <6>1, Zenon
        <5> HIDE DEF g
        <5> QED
          BY <3>1, <5>1, <5>2, Zenon
      <4>2. g[i - 1] = f[i - 1]
        BY <4>1
      <4> HIDE DEF g
      <4> QED
        BY <4>1, <4>2
    <3>2. CASE i # m
      <4>1. i \in 1 .. m - 1 /\ g[i] = f[i] /\ (i # 1 => g[i - 1] = f[i - 1])
        BY <3>2
      <4>2. f[i] = IF i = 1 THEN ss[i] ELSE f[i - 1] \o ss[i]
        BY <2>1, <4>1 DEF Flattens
      <4> HIDE DEF g
      <4> QED
        BY <4>1, <4>2
    <3> QED
      BY <3>1, <3>2
  <2> HIDE DEF g
  <2>5. Flattens(g, ss, m)
    BY <2>3, <2>4 DEF Flattens
  <2> QED
    BY <2>2, <2>3, <2>5
<1> HIDE DEF T
<1>3. 1 .. n \subseteq T
  BY <1>1, <1>2, SetInduction
<1>4. n \in T
  BY <1>3
<1> QED
  BY <1>4 DEF T

LEMMA FlattenIs ==
    ASSUME NEW E, NEW ss \in Seq(Seq(E)), ss # <<>>
    PROVE  \E f \in [1 .. Len(ss) -> Seq(E)] :
              Flattens(f, ss, Len(ss)) /\ FlattenSeq(ss) = f[Len(ss)]
<1> DEFINE n == Len(ss)
           flatten[i \in 1 .. Len(ss)] ==
               IF i = 1 THEN ss[i] ELSE flatten[i - 1] \o ss[i]
<1>1. n \in Nat /\ 1 <= n /\ \A i \in 1 .. n : ss[i] \in Seq(E)
  OBVIOUS
<1>2. FlattenSeq(ss) = flatten[n]
  BY <1>1 DEF FlattenSeq
<1>3. \E f : Flattens(f, ss, n)
  BY <1>1, FlattenExists
<1>4. Flattens(flatten, ss, n)
  BY <1>3, Zenon DEF Flattens
<1> HIDE DEF flatten, n
<1>5. \A i \in 1 .. n : flatten[i] = IF i = 1 THEN ss[i] ELSE flatten[i - 1] \o ss[i]
  BY <1>4 DEF Flattens
<1> DEFINE T == {i \in 1 .. n : flatten[i] \in Seq(E)}
<1>6. 1 \in T
  BY <1>1, <1>5
<1>7. ASSUME NEW k \in 1 + 1 .. n, k - 1 \in T
      PROVE  k \in T
  <2>1. k \in 1 .. n /\ k # 1 /\ flatten[k - 1] \in Seq(E) /\ ss[k] \in Seq(E)
    BY <1>1, <1>7
  <2>2. flatten[k] = flatten[k - 1] \o ss[k]
    BY <1>5, <2>1
  <2>3. flatten[k] \in Seq(E)
    BY <2>1, <2>2
  <2> QED
    BY <2>1, <2>3
<1> HIDE DEF T
<1>8. 1 .. n \subseteq T
  BY <1>1, <1>6, <1>7, SetInduction
<1>9. flatten \in [1 .. n -> Seq(E)]
  BY <1>4, <1>8 DEF Flattens, T
<1> QED
  BY <1>2, <1>4, <1>9 DEF n

LEMMA FlattenSnoc ==
    ASSUME NEW E, NEW ss \in Seq(Seq(E)), NEW s \in Seq(E)
    PROVE  /\ FlattenSeq(ss) \in Seq(E)
           /\ FlattenSeq(Append(ss, s)) = FlattenSeq(ss) \o s
<1> DEFINE n == Len(ss)
           more == Append(ss, s)
<1>1. /\ n \in Nat /\ more \in Seq(Seq(E)) /\ Len(more) = n + 1
      /\ more[n + 1] = s /\ \A i \in 1 .. n : more[i] = ss[i]
  <2>1. more \in Seq(Seq(E)) /\ n \in Nat /\ Len(more) = n + 1 /\ more[n + 1] = s
    OBVIOUS
  <2>2. \A i \in 1 .. n : more[i] = ss[i]
    OBVIOUS
  <2> QED
    BY <2>1, <2>2
<1>2. n = 0 \/ ss # <<>>
  OBVIOUS
<1> HIDE DEF more, n
<1>3. PICK g \in [1 .. n + 1 -> Seq(E)] :
        Flattens(g, more, n + 1) /\ FlattenSeq(more) = g[n + 1]
  <2>1. more # <<>>
    BY <1>1
  <2> QED
    BY <1>1, <2>1, FlattenIs
<1>4. /\ g[1] = more[1]
      /\ \A i \in 1 + 1 .. n + 1 : g[i] = g[i - 1] \o more[i]
  <2>1. \A i \in 1 .. n + 1 : g[i] = IF i = 1 THEN more[i] ELSE g[i - 1] \o more[i]
    BY <1>1, <1>3 DEF Flattens
  <2>2. 1 \in 1 .. n + 1 /\ \A i \in 1 + 1 .. n + 1 : i \in 1 .. n + 1 /\ i # 1
    BY <1>1
  <2> QED
    BY <2>1, <2>2, Zenon
<1>5. CASE n = 0
  <2>1. FlattenSeq(ss) = <<>>
    BY <1>5 DEF FlattenSeq, n
  <2>2. FlattenSeq(more) = s
    BY <1>1, <1>3, <1>4, <1>5
  <2> QED
    BY <2>1, <2>2 DEF more
<1>6. CASE n # 0
  <2>1. PICK f \in [1 .. n -> Seq(E)] : Flattens(f, ss, n) /\ FlattenSeq(ss) = f[n]
    BY <1>1, <1>2, <1>6, FlattenIs DEF n
  <2>2. /\ f[1] = ss[1]
        /\ \A i \in 1 + 1 .. n : f[i] = f[i - 1] \o ss[i]
    <3>1. \A i \in 1 .. n : f[i] = IF i = 1 THEN ss[i] ELSE f[i - 1] \o ss[i]
      BY <2>1 DEF Flattens
    <3>2. 1 \in 1 .. n /\ \A i \in 1 + 1 .. n : i \in 1 .. n /\ i # 1
      BY <1>1, <1>6
    <3> QED
      BY <3>1, <3>2, Zenon
  <2> DEFINE T == {i \in 1 .. n : f[i] = g[i]}
  <2>3. 1 \in T
    BY <1>1, <1>4, <1>6, <2>2
  <2>4. ASSUME NEW k \in 1 + 1 .. n, k - 1 \in T
        PROVE  k \in T
    <3>1. k \in 1 .. n /\ k \in 1 + 1 .. n + 1 /\ f[k - 1] = g[k - 1] /\ more[k] = ss[k]
      BY <1>1, <2>4
    <3>2. f[k] = g[k]
      BY <1>4, <2>2, <3>1, Zenon
    <3> QED
      BY <3>1, <3>2
  <2> HIDE DEF T
  <2>5. 1 .. n \subseteq T
    BY <1>1, <2>3, <2>4, SetInduction
  <2>6. f[n] = g[n]
    BY <1>1, <1>6, <2>5 DEF T
  <2>7. g[n + 1] = g[n] \o s
    <3>1. \A i \in 1 + 1 .. n + 1 : i = n + 1 => g[i] = g[n] \o more[i]
      <4> SUFFICES ASSUME NEW i \in 1 + 1 .. n + 1, i = n + 1
                   PROVE  g[i] = g[n] \o more[i]
        OBVIOUS
      <4>1. i - 1 = n
        BY <1>1
      <4> QED
        BY <1>4, <4>1, Zenon
    <3>2. n + 1 \in 1 + 1 .. n + 1
      BY <1>1, <1>6
    <3> QED
      BY <1>1, <3>1, <3>2, Zenon
  <2>8. FlattenSeq(ss) \in Seq(E)
    BY <1>1, <1>6, <2>1
  <2> QED
    BY <1>3, <2>1, <2>6, <2>7, <2>8 DEF more
<1> QED
  BY <1>1, <1>5, <1>6

-----------------------------------------------------------------------------
(* Segments, chunks and rows *)

SegmentSet == ValueSegments \cup DictionarySegments

LEMMA SegmentSizeType ==
    ASSUME NEW segment \in SegmentSet
    PROVE  /\ SegmentSize(segment) \in Nat
           /\ segment.kind \in {"value", "dictionary"}
           /\ segment.kind = "value" <=> segment \in ValueSegments
BY DEF SegmentSet, SegmentSize, ValueSegments, DictionarySegments

LEMMA RowType ==
    ASSUME NEW values \in Rows
    PROVE  /\ values \in Seq(AllTypeVariant)
           /\ Len(values) \in Nat
           /\ \A c \in 1 .. Len(values) : values[c] \in AllTypeVariant
<1>1. PICK n \in 0 .. MaxColumns : values \in [1 .. n -> AllTypeVariant]
  BY DEF Rows
<1> QED
  BY <1>1, TableAssumption

LEMMA SegmentAppendSize ==
    ASSUME NEW segment \in ValueSegments, NEW variant
    PROVE  SegmentSize(SegmentAppend(segment, variant)) = SegmentSize(segment) + 1
BY DEF SegmentAppend, SegmentSize, ValueSegments

\* Chunk::append on a chunk of value segments: the segments that grow are
\* those left of the first refusal, and they grow by one.
LEMMA ChunkAppendProperties ==
    ASSUME NEW chunk \in Chunks, \A c \in DOMAIN chunk : chunk[c].kind = "value",
           NEW values \in Rows,
           Len(chunk) <= Len(values) \/ ChunkAppendThrows(chunk, values)
    PROVE  LET after == ChunkAppend(chunk, values)
               Grows(c) == \A r \in RejectingColumns(chunk, values) : c < r
           IN  /\ after \in Chunks
               /\ Len(after) = Len(chunk)
               /\ \A c \in DOMAIN chunk :
                     /\ after[c] = IF Grows(c) THEN SegmentAppend(chunk[c], values[c])
                                               ELSE chunk[c]
                     /\ Grows(c) => /\ values[c] \in AllTypeVariant
                                    /\ Accepts(chunk[c], values[c])
                     /\ after[c].kind = "value"
                     /\ SegmentSize(after[c]) =
                          IF Grows(c) THEN SegmentSize(chunk[c]) + 1 ELSE SegmentSize(chunk[c])
<1> DEFINE after == ChunkAppend(chunk, values)
           Grows(c) == \A r \in RejectingColumns(chunk, values) : c < r
<1>1. /\ Len(chunk) \in Nat /\ DOMAIN chunk = 1 .. Len(chunk)
      /\ \A c \in DOMAIN chunk : chunk[c] \in SegmentSet
  BY DEF Chunks, SegmentSet
<1>2. \A c \in DOMAIN chunk : chunk[c] \in ValueSegments /\ TakesValues(chunk[c])
  BY <1>1, SegmentSizeType DEF TakesValues
<1>3. after = [c \in DOMAIN chunk |->
                  IF Grows(c) THEN SegmentAppend(chunk[c], values[c]) ELSE chunk[c]]
  BY <1>2 DEF ChunkAppend
<1>4. ASSUME NEW c \in DOMAIN chunk
      PROVE  /\ after[c] = IF Grows(c) THEN SegmentAppend(chunk[c], values[c]) ELSE chunk[c]
             /\ Grows(c) => values[c] \in AllTypeVariant /\ Accepts(chunk[c], values[c])
             /\ after[c] \in ValueSegments
             /\ SegmentSize(after[c]) =
                  IF Grows(c) THEN SegmentSize(chunk[c]) + 1 ELSE SegmentSize(chunk[c])
  <2>1. Len(values) \in Nat /\ DOMAIN values = 1 .. Len(values)
        /\ \A b \in DOMAIN values : values[b] \in AllTypeVariant
    BY RowType
  <2>2. CASE Grows(c)
    <3>0. c \in DOMAIN values
      <4>1. CASE Len(chunk) <= Len(values)
        BY <1>1, <2>1, <4>1
      <4>2. CASE ChunkAppendThrows(chunk, values)
        <5>1. PICK r \in DOMAIN values : c < r
          BY <2>2, <4>2 DEF ChunkAppendThrows, RejectingColumns
        <5> QED
          BY <1>1, <2>1, <5>1
      <4> QED
        BY <4>1, <4>2
    <3>1. c \notin RejectingColumns(chunk, values)
      BY <1>1, <2>2
    <3>2. Accepts(chunk[c], values[c])
      BY <1>2, <3>0, <3>1 DEF RejectingColumns
    <3>3. SegmentAppend(chunk[c], values[c]) \in ValueSegments
      BY <1>2, <2>1, <3>0, <3>2, SegmentAppendType
    <3> QED
      BY <1>2, <1>3, <2>1, <2>2, <3>0, <3>2, <3>3, SegmentAppendSize
  <2>3. CASE ~Grows(c)
    BY <1>2, <1>3, <2>3
  <2> QED
    BY <2>2, <2>3
<1> HIDE DEF after
<1>5. after \in [1 .. Len(chunk) -> ValueSegments \cup DictionarySegments]
  BY <1>1, <1>3, <1>4
<1>6. after \in Chunks /\ Len(after) = Len(chunk)
  BY <1>1, <1>5 DEF Chunks
<1>7. \A c \in DOMAIN chunk : after[c].kind = "value"
  BY <1>4, SegmentSizeType DEF SegmentSet
<1> QED
  BY <1>4, <1>6, <1>7 DEF after

-----------------------------------------------------------------------------
(* The inductive invariant says of every chunk what FirstSegmentTells,     *)
(* SegmentsShrinkRightward and ChunksWithinTarget say of all of them.  The *)
(* three need each other: an append that finds no dictionary segment at    *)
(* the left has none anywhere (FirstSegmentTells), so it lengthens a       *)
(* prefix of the segments and keeps the order of their sizes; and only     *)
(* because the first segment is the longest does the test of its size      *)
(* against the target bound the others.                                    *)

ChunkInv(chunk, cols, sizes) ==
    /\ chunk \in Chunks
    /\ Len(chunk) <= Len(cols)
    /\ \A c \in DOMAIN chunk :
          chunk[c].kind = "dictionary" =>
              chunk[1].kind = "dictionary" /\ chunk[1].type = cols[1].type
    /\ \A b, c \in DOMAIN chunk :
          b < c => SegmentSize(chunk[c]) <= SegmentSize(chunk[b])
    /\ \A size \in sizes :
          size > 0 => \A c \in DOMAIN chunk : SegmentSize(chunk[c]) <= size

\* What bounds the size of a segment.
Limits(t) == {t, MaxChunkOffset}

IInv ==
    /\ chunks \in Seq(Chunks) /\ chunks # <<>>
    /\ columns \in Seq(ColumnDefinition)
    /\ target \in TargetSizes
    /\ call \in Calls
    /\ \A k \in DOMAIN chunks : ChunkInv(chunks[k], columns, Limits(target))

LEMMA IInvIsEnough ==
    IInv => TypeOK /\ FirstSegmentTells /\ SegmentsShrinkRightward /\ ChunksWithinTarget
BY DEF IInv, ChunkInv, TypeOK, FirstSegmentTells, SegmentsShrinkRightward,
       ChunksWithinTarget, IsDictionaryEncoded, Limits

LEMMA LimitsType == target \in TargetSizes => Limits(target) \in SUBSET Nat
BY TableAssumption, NumericMaxAssumption DEF Limits, MaxChunkOffset

LEMMA CallType ==
    ASSUME NEW op \in {"Table", "add_column_definition", "add_column",
                       "create_new_chunk", "append", "compress_chunk"},
           NEW outcome \in {"ok", "throws", "terminates", "undefined"}
    PROVE  Call(op, outcome) \in Calls
<1>1. <<>> \in [1 .. 0 -> AllTypeVariant] /\ 0 \in 0 .. MaxColumns
  BY TableAssumption
<1>2. <<>> \in Rows
  BY <1>1 DEF Rows
<1> QED
  BY <1>2 DEF Call, Calls

LEMMA ChunkType ==
    ASSUME NEW chunk \in Chunks
    PROVE  /\ Len(chunk) \in Nat /\ DOMAIN chunk = 1 .. Len(chunk)
           /\ \A c \in DOMAIN chunk : /\ chunk[c] \in SegmentSet
                                      /\ SegmentSize(chunk[c]) \in Nat
BY SegmentSizeType DEF Chunks, SegmentSet

LEMMA FreshChunkInv ==
    ASSUME columns \in Seq(ColumnDefinition), target \in TargetSizes
    PROVE  /\ ChunkInv(FreshChunk, columns, Limits(target))
           /\ Len(FreshChunk) = Len(columns)
           /\ \A c \in DOMAIN FreshChunk :
                 FreshChunk[c].kind = "value" /\ SegmentSize(FreshChunk[c]) = 0
<1>1. /\ Len(columns) \in Nat /\ DOMAIN columns = 1 .. Len(columns)
      /\ \A c \in DOMAIN columns : columns[c] \in ColumnDefinition
  OBVIOUS
<1>2. \A c \in DOMAIN columns : columns[c].type \in DataType /\ columns[c].nullable \in BOOLEAN
  BY <1>1 DEF ColumnDefinition
<1>3. FreshChunk \in [1 .. Len(columns) -> ValueSegments \cup DictionarySegments]
  BY <1>1, <1>2, NewValueSegmentType DEF FreshChunk
<1>4. FreshChunk \in Chunks /\ Len(FreshChunk) = Len(columns)
  BY <1>1, <1>3 DEF Chunks
<1>5. \A c \in DOMAIN FreshChunk :
        FreshChunk[c].kind = "value" /\ SegmentSize(FreshChunk[c]) = 0
  BY DEF FreshChunk, NewValueSegment, SegmentSize
<1>6. Limits(target) \in SUBSET Nat
  BY LimitsType
<1> QED
  BY <1>1, <1>4, <1>5, <1>6 DEF ChunkInv

\* A new column does not disturb a chunk that does not take part in it.
LEMMA ChunkInvStable ==
    ASSUME NEW cols \in Seq(ColumnDefinition), NEW def \in ColumnDefinition,
           NEW sizes, NEW chunk, ChunkInv(chunk, cols, sizes)
    PROVE  ChunkInv(chunk, Append(cols, def), sizes)
<1>1. Len(cols) \in Nat /\ Len(Append(cols, def)) = Len(cols) + 1
  OBVIOUS
<1>2. Len(chunk) \in Nat /\ DOMAIN chunk = 1 .. Len(chunk) /\ Len(chunk) <= Len(cols)
  BY ChunkType DEF ChunkInv
<1>3. cols # <<>> => Append(cols, def)[1] = cols[1]
  OBVIOUS
<1>4. DOMAIN chunk # {} => cols # <<>>
  BY <1>2
<1> HIDE DEF ChunkInv
<1>5. Len(chunk) <= Len(Append(cols, def))
  BY <1>1, <1>2
<1> QED
  BY <1>3, <1>4, <1>5 DEF ChunkInv

\* add_column on the first chunk: an empty value segment at its right end.
LEMMA AddSegmentInv ==
    ASSUME NEW cols \in Seq(ColumnDefinition), NEW def \in ColumnDefinition,
           NEW sizes \in SUBSET Nat, NEW old, ChunkInv(old, cols, sizes)
    PROVE  ChunkInv(AddSegment(old, NewValueSegment(def.type, def.nullable)),
                    Append(cols, def), sizes)
<1> DEFINE new == NewValueSegment(def.type, def.nullable)
           app == Append(old, new)
           more == Append(cols, def)
<1>1. new \in ValueSegments /\ new.kind = "value" /\ SegmentSize(new) = 0
  BY NewValueSegmentType DEF ColumnDefinition, NewValueSegment, SegmentSize
<1>2. /\ Len(cols) \in Nat /\ Len(more) = Len(cols) + 1
      /\ cols # <<>> => more[1] = cols[1]
  OBVIOUS
<1> HIDE DEF new, more
<1>3. /\ old \in Chunks /\ Len(old) \in Nat /\ DOMAIN old = 1 .. Len(old)
      /\ \A c \in DOMAIN old : SegmentSize(old[c]) \in Nat
      /\ Len(old) <= Len(cols)
  BY ChunkType DEF ChunkInv
<1>4. /\ app \in Chunks
      /\ Len(app) = Len(old) + 1
      /\ DOMAIN app = 1 .. Len(old) + 1
      /\ \A c \in 1 .. Len(old) : app[c] = old[c]
      /\ app[Len(old) + 1] = new
  BY <1>1, <1>3 DEF Chunks
<1> HIDE DEF app
<1>5. Len(app) <= Len(more)
  BY <1>2, <1>3, <1>4
<1>6. ASSUME NEW c \in DOMAIN app, app[c].kind = "dictionary"
      PROVE  app[1].kind = "dictionary" /\ app[1].type = more[1].type
  <2>1. c \in DOMAIN old /\ app[c] = old[c]
    BY <1>1, <1>3, <1>4, <1>6
  <2>2. old[1].kind = "dictionary" /\ old[1].type = cols[1].type
    BY <1>6, <2>1 DEF ChunkInv
  <2>3. cols # <<>> /\ app[1] = old[1]
    BY <1>3, <1>4, <2>1
  <2> QED
    BY <1>2, <2>2, <2>3
<1>7. ASSUME NEW b \in DOMAIN app, NEW c \in DOMAIN app, b < c
      PROVE  SegmentSize(app[c]) <= SegmentSize(app[b])
  <2>1. b \in DOMAIN old /\ app[b] = old[b]
    BY <1>3, <1>4, <1>7
  <2>2. CASE c \in DOMAIN old
    BY <1>3, <1>4, <1>7, <2>1, <2>2 DEF ChunkInv
  <2>3. CASE c \notin DOMAIN old
    BY <1>1, <1>3, <1>4, <2>1, <2>3
  <2> QED
    BY <2>2, <2>3
<1>8. ASSUME NEW size \in sizes, size > 0, NEW c \in DOMAIN app
      PROVE  SegmentSize(app[c]) <= size
  <2>1. CASE c \in DOMAIN old
    BY <1>3, <1>4, <1>8, <2>1 DEF ChunkInv
  <2>2. CASE c \notin DOMAIN old
    BY <1>1, <1>3, <1>4, <1>8, <2>2
  <2> QED
    BY <2>1, <2>2
<1> QED
  BY <1>4, <1>5, <1>6, <1>7, <1>8 DEF ChunkInv, AddSegment, app, new, more

LEMMA InitIInv == Init => IInv
<1> SUFFICES ASSUME Init PROVE IInv
  OBVIOUS
<1>1. NewChunk \in Chunks /\ Len(NewChunk) = 0 /\ DOMAIN NewChunk = {}
  BY DEF NewChunk, Chunks
<1>2. columns \in Seq(ColumnDefinition) /\ Len(columns) = 0 /\ target \in TargetSizes
  BY DEF Init
<1>3. ChunkInv(NewChunk, columns, Limits(target))
  BY <1>1, <1>2 DEF ChunkInv
<1>4. chunks \in Seq(Chunks) /\ chunks # <<>> /\ \A k \in DOMAIN chunks : chunks[k] = NewChunk
  BY <1>1 DEF Init
<1>5. call \in Calls
  BY CallType DEF Init
<1> QED
  BY <1>2, <1>3, <1>4, <1>5 DEF IInv

LEMMA AddColumnDefinitionIInv ==
    ASSUME IInv, NEW def \in ColumnDefinition, AddColumnDefinition(def)
    PROVE  IInv'
<1>1. columns' = columns \/ columns' = Append(columns, def)
  BY DEF AddColumnDefinition
<1>2. columns' \in Seq(ColumnDefinition)
  BY <1>1 DEF IInv
<1>3. chunks' = chunks /\ target' = target
  BY DEF AddColumnDefinition
<1>4. \A k \in DOMAIN chunks : ChunkInv(chunks[k], columns', Limits(target))
  BY <1>1, ChunkInvStable DEF IInv
<1>5. call' \in Calls
  BY CallType DEF AddColumnDefinition
<1> QED
  BY <1>2, <1>3, <1>4, <1>5 DEF IInv

LEMMA AddColumnIInv ==
    ASSUME IInv, NEW def \in ColumnDefinition, AddColumn(def)
    PROVE  IInv'
<1>1. target' = target /\ call' \in Calls
  BY CallType DEF AddColumn
<1>2. CASE UNCHANGED <<chunks, columns>>
  BY <1>1, <1>2 DEF IInv
<1>3. CASE /\ columns' = Append(columns, def)
           /\ chunks' = [chunks EXCEPT ![1] =
                            AddSegment(chunks[1], NewValueSegment(def.type, def.nullable))]
  <2>1. /\ 1 \in DOMAIN chunks /\ Limits(target) \in SUBSET Nat
        /\ columns' \in Seq(ColumnDefinition)
    BY <1>3, LimitsType DEF IInv
  <2>2. ChunkInv(chunks'[1], columns', Limits(target))
    BY <1>3, <2>1, AddSegmentInv DEF IInv
  <2>3. ASSUME NEW k \in DOMAIN chunks'
        PROVE  ChunkInv(chunks'[k], columns', Limits(target))
    <3>1. CASE k = 1
      BY <2>2, <3>1
    <3>2. CASE k # 1
      <4>1. k \in DOMAIN chunks /\ chunks'[k] = chunks[k]
        BY <1>3, <3>2
      <4> QED
        BY <1>3, <4>1, ChunkInvStable DEF IInv
    <3> QED
      BY <3>1, <3>2
  <2>4. chunks' \in Seq(Chunks) /\ chunks' # <<>>
    <3>1. chunks'[1] \in Chunks
      BY <2>2 DEF ChunkInv
    <3> QED
      BY <1>3, <2>1, <3>1 DEF IInv
  <2> QED
    BY <1>1, <2>1, <2>3, <2>4 DEF IInv
<1> QED
  BY <1>2, <1>3 DEF AddColumn

LEMMA CreateNewChunkIInv ==
    ASSUME IInv, CreateNewChunk
    PROVE  IInv'
<1>1. /\ chunks' = Append(chunks, FreshChunk)
      /\ columns' = columns /\ target' = target /\ call' \in Calls
  BY CallType DEF CreateNewChunk
<1>2. ChunkInv(FreshChunk, columns, Limits(target))
  BY FreshChunkInv DEF IInv
<1>3. FreshChunk \in Chunks
  BY <1>2 DEF ChunkInv
<1>4. chunks' \in Seq(Chunks) /\ chunks' # <<>>
  BY <1>1, <1>3 DEF IInv
<1>5. \A k \in DOMAIN chunks' : chunks'[k] = FreshChunk \/ (k \in DOMAIN chunks /\ chunks'[k] = chunks[k])
  BY <1>1 DEF IInv
<1> QED
  BY <1>1, <1>2, <1>4, <1>5 DEF IInv

\* Chunk::append on a chunk without dictionary segments and with room.
LEMMA ChunkAppendInv ==
    ASSUME NEW cols, NEW sizes \in SUBSET Nat, NEW chunk, ChunkInv(chunk, cols, sizes),
           \A c \in DOMAIN chunk : chunk[c].kind = "value",
           \A size \in sizes :
              size > 0 => \A c \in DOMAIN chunk : SegmentSize(chunk[c]) < size,
           NEW values \in Rows,
           Len(chunk) <= Len(values) \/ ChunkAppendThrows(chunk, values)
    PROVE  ChunkInv(ChunkAppend(chunk, values), cols, sizes)
<1> DEFINE after == ChunkAppend(chunk, values)
           Grows(c) == \A r \in RejectingColumns(chunk, values) : c < r
<1>1. /\ chunk \in Chunks /\ Len(chunk) \in Nat /\ DOMAIN chunk = 1 .. Len(chunk)
      /\ \A c \in DOMAIN chunk : SegmentSize(chunk[c]) \in Nat
  BY ChunkType DEF ChunkInv
<1>2. /\ after \in Chunks /\ Len(after) = Len(chunk)
      /\ \A c \in DOMAIN chunk :
            /\ after[c].kind = "value"
            /\ SegmentSize(after[c]) =
                 IF Grows(c) THEN SegmentSize(chunk[c]) + 1 ELSE SegmentSize(chunk[c])
  BY <1>1, ChunkAppendProperties
<1> HIDE DEF after
<1>3. DOMAIN after = DOMAIN chunk
  BY <1>1, <1>2, ChunkType
<1>4. RejectingColumns(chunk, values) \subseteq Int
  BY <1>1 DEF RejectingColumns
<1>5. ASSUME NEW b \in DOMAIN after, NEW c \in DOMAIN after, b < c
      PROVE  SegmentSize(after[c]) <= SegmentSize(after[b])
  <2>1. SegmentSize(chunk[c]) <= SegmentSize(chunk[b])
    BY <1>3, <1>5 DEF ChunkInv
  <2>2. Grows(c) => Grows(b)
    BY <1>1, <1>3, <1>4, <1>5
  <2> HIDE DEF Grows
  <2> QED
    BY <1>1, <1>2, <1>3, <2>1, <2>2
<1>6. \A size \in sizes :
        size > 0 => \A c \in DOMAIN after : SegmentSize(after[c]) <= size
  <2> HIDE DEF Grows
  <2> QED
    BY <1>1, <1>2, <1>3
<1>7. Len(after) <= Len(cols)
  BY <1>2 DEF ChunkInv
<1> QED
  BY <1>2, <1>3, <1>5, <1>6, <1>7 DEF ChunkInv, after

LEMMA ChunksForAppendInv ==
    ASSUME IInv, columns # <<>>, LastChunk # NewChunk,
           ChunkSize(LastChunk) < MaxChunkOffset
    PROVE  LET into == ChunksForAppend
               last == Len(into)
           IN  /\ into \in Seq(Chunks) /\ into # <<>> /\ last \in DOMAIN into
               /\ \A k \in DOMAIN into : ChunkInv(into[k], columns, Limits(target))
               /\ \A c \in DOMAIN into[last] : into[last][c].kind = "value"
               /\ \A size \in Limits(target) :
                    size > 0 => \A c \in DOMAIN into[last] : SegmentSize(into[last][c]) < size
<1>1. /\ chunks \in Seq(Chunks) /\ Len(chunks) \in DOMAIN chunks
      /\ ChunkInv(LastChunk, columns, Limits(target)) /\ target \in Nat
  BY TableAssumption DEF IInv, LastChunk
<1>0. Limits(target) \subseteq Nat
  BY <1>1, LimitsType DEF IInv
<1>2. CASE NeedsNewChunk
  <2>1. /\ ChunkInv(FreshChunk, columns, Limits(target)) /\ FreshChunk \in Chunks
        /\ \A c \in DOMAIN FreshChunk :
              FreshChunk[c].kind = "value" /\ SegmentSize(FreshChunk[c]) = 0
    BY FreshChunkInv DEF IInv, ChunkInv
  <2>2. ChunksForAppend = Append(chunks, FreshChunk)
    BY <1>2 DEF ChunksForAppend
  <2>3. /\ Append(chunks, FreshChunk) \in Seq(Chunks)
        /\ Len(Append(chunks, FreshChunk)) = Len(chunks) + 1
        /\ Append(chunks, FreshChunk)[Len(chunks) + 1] = FreshChunk
        /\ Len(chunks) + 1 \in DOMAIN Append(chunks, FreshChunk)
        /\ \A k \in DOMAIN Append(chunks, FreshChunk) :
              \/ Append(chunks, FreshChunk)[k] = FreshChunk
              \/ k \in DOMAIN chunks /\ Append(chunks, FreshChunk)[k] = chunks[k]
    BY <1>1, <2>1
  <2> QED
    BY <1>1, <2>1, <2>2, <2>3 DEF IInv
<1>3. CASE ~NeedsNewChunk
  <2>1. ChunksForAppend = chunks
    BY <1>3 DEF ChunksForAppend
  <2>2. /\ LastChunk \in Chunks /\ DOMAIN LastChunk = 1 .. Len(LastChunk)
        /\ Len(LastChunk) \in Nat /\ 1 \in DOMAIN LastChunk
        /\ \A c \in DOMAIN LastChunk : LastChunk[c] \in SegmentSet /\ SegmentSize(LastChunk[c]) \in Nat
    BY <1>1, ChunkType DEF ChunkInv, NewChunk, Chunks
  <2>3. ~IsDictionaryEncoded(LastChunk) /\ SegmentSize(LastChunk[1]) # target
    BY <1>3 DEF NeedsNewChunk, ChunkSize
  <2>4. ASSUME NEW c \in DOMAIN LastChunk
        PROVE  LastChunk[c].kind = "value"
    BY <1>1, <2>2, <2>3, SegmentSizeType DEF ChunkInv, IsDictionaryEncoded
  <2>5. ASSUME NEW size \in Limits(target), size > 0, NEW c \in DOMAIN LastChunk
        PROVE  SegmentSize(LastChunk[c]) < size
    <3>1. SegmentSize(LastChunk[1]) < size
      <4>1. SegmentSize(LastChunk[1]) <= size /\ size \in Nat
        BY <1>0, <1>1, <2>2, <2>5 DEF ChunkInv
      <4>2. SegmentSize(LastChunk[1]) # size
        BY <2>2, <2>3, <2>5 DEF ChunkSize, Limits, MaxChunkOffset
      <4> QED
        BY <2>2, <4>1, <4>2
    <3>2. SegmentSize(LastChunk[c]) <= SegmentSize(LastChunk[1])
      BY <1>1, <2>2 DEF ChunkInv
    <3> QED
      BY <1>0, <1>1, <2>2, <3>1, <3>2
  <2> QED
    BY <1>1, <2>1, <2>4, <2>5 DEF IInv, LastChunk
<1> QED
  BY <1>2, <1>3

LEMMA AppendRowIInv ==
    ASSUME IInv, NEW values \in Rows, AppendRow(values)
    PROVE  IInv'
<1> DEFINE into == ChunksForAppend
           last == Len(into)
<1>1. columns' = columns /\ target' = target /\ call' \in Calls
  BY DEF AppendRow, Calls
<1>2. CASE chunks' = chunks
  BY <1>1, <1>2 DEF IInv
<1>0. ChunkSize(LastChunk) < MaxChunkOffset
  BY DEF AppendRow
<1>3. CASE /\ columns # <<>> /\ LastChunk # NewChunk
           /\ chunks' = into
  BY <1>0, <1>1, <1>3, ChunksForAppendInv DEF IInv
<1>4. CASE /\ columns # <<>> /\ LastChunk # NewChunk
           /\ Len(into[last]) <= Len(values) \/ ChunkAppendThrows(into[last], values)
           /\ chunks' = [into EXCEPT ![last] = ChunkAppend(into[last], values)]
  <2>1. /\ into \in Seq(Chunks) /\ into # <<>> /\ last \in DOMAIN into
        /\ \A k \in DOMAIN into : ChunkInv(into[k], columns, Limits(target))
        /\ \A c \in DOMAIN into[last] : into[last][c].kind = "value"
        /\ \A size \in Limits(target) :
              size > 0 => \A c \in DOMAIN into[last] : SegmentSize(into[last][c]) < size
    BY <1>0, <1>4, ChunksForAppendInv
  <2>2. Limits(target) \in SUBSET Nat
    BY LimitsType DEF IInv
  <2> HIDE DEF into, last
  <2>3. ChunkInv(ChunkAppend(into[last], values), columns, Limits(target))
    BY <1>4, <2>1, <2>2, ChunkAppendInv
  <2>4. ChunkAppend(into[last], values) \in Chunks
    BY <2>3 DEF ChunkInv
  <2>5. chunks' \in Seq(Chunks) /\ chunks' # <<>>
    BY <1>4, <2>1, <2>4
  <2>6. \A k \in DOMAIN chunks' : ChunkInv(chunks'[k], columns, Limits(target))
    BY <1>4, <2>1, <2>3
  <2> QED
    BY <1>1, <2>5, <2>6 DEF IInv
<1> HIDE DEF into, last
<1>5. \/ chunks' = chunks
      \/ columns # <<>> /\ LastChunk # NewChunk /\ chunks' = into
      \/ /\ columns # <<>> /\ LastChunk # NewChunk
         /\ ~(Len(values) < Len(into[last])) \/ ChunkAppendThrows(into[last], values)
         /\ chunks' = [into EXCEPT ![last] = ChunkAppend(into[last], values)]
  BY DEF AppendRow, ColumnCountOf, into, last
<1>6. columns # <<>> /\ LastChunk # NewChunk => Len(into[last]) \in Nat /\ Len(values) \in Nat
  BY <1>0, ChunksForAppendInv, ChunkType, RowType DEF into, last, ChunkInv
<1> QED
  BY <1>2, <1>3, <1>4, <1>5, <1>6 DEF into, last

\* The compressed chunk has the segments' sizes, and every segment of the
\* type of its column.
LEMMA CompressedChunkInv ==
    ASSUME IInv, NEW id \in DOMAIN chunks,
           \A c \in DOMAIN columns : ThreadOutcome(id, c) = "ok"
    PROVE  ChunkInv(CompressedChunk(chunks[id]), columns, Limits(target))
<1> DEFINE old == chunks[id]
           new == CompressedChunk(old)
<1>1. /\ ChunkInv(old, columns, Limits(target))
      /\ Len(columns) \in Nat /\ DOMAIN columns = 1 .. Len(columns)
      /\ \A c \in DOMAIN columns : columns[c] \in ColumnDefinition
      /\ new = [c \in DOMAIN columns |-> MakeDictionarySegment(old[c])]
  BY DEF IInv, CompressedChunk
<1>2. \A c \in DOMAIN columns : c \in DOMAIN old /\ old[c].kind = "value"
                                 /\ old[c].type = columns[c].type
  BY DEF ThreadOutcome
<1> HIDE DEF old, new
<1>3. \A c \in DOMAIN columns : old[c] \in ValueSegments
  BY <1>1, <1>2, ChunkType, SegmentSizeType DEF ChunkInv
<1>4. ASSUME NEW c \in DOMAIN columns
      PROVE  /\ new[c] \in DictionarySegments
             /\ new[c].kind = "dictionary" /\ new[c].type = columns[c].type
             /\ SegmentSize(new[c]) = SegmentSize(old[c])
  BY <1>1, <1>2, <1>3, MakeDictionarySegmentType DEF SegmentSize
<1>5. new \in [1 .. Len(columns) -> ValueSegments \cup DictionarySegments]
  BY <1>1, <1>4
<1>6. new \in Chunks /\ Len(new) = Len(columns) /\ DOMAIN new = DOMAIN columns
  BY <1>1, <1>5 DEF Chunks
<1>7. \A b, c \in DOMAIN new : b < c => SegmentSize(new[c]) <= SegmentSize(new[b])
  BY <1>1, <1>2, <1>4, <1>6 DEF ChunkInv
<1>8. \A size \in Limits(target) :
        size > 0 => \A c \in DOMAIN new : SegmentSize(new[c]) <= size
  BY <1>1, <1>2, <1>4, <1>6 DEF ChunkInv
<1>9. \A c \in DOMAIN new : new[1].kind = "dictionary" /\ new[1].type = columns[1].type
  BY <1>1, <1>4, <1>6
<1> QED
  BY <1>1, <1>6, <1>7, <1>8, <1>9 DEF ChunkInv, new, old

LEMMA CompressChunkIInv ==
    ASSUME IInv, NEW id \in 1 .. MaxChunks, CompressChunk(id)
    PROVE  IInv'
<1>1. PICK outcome \in CompressFailures(id) \cup CompressReturns(id) :
        /\ call' = Call("compress_chunk", outcome)
        /\ chunks' = IF outcome = "ok" THEN [chunks EXCEPT ![id] = CompressedChunk(chunks[id])]
                                       ELSE chunks
  BY DEF CompressChunk
<1>2. columns' = columns /\ target' = target
  BY DEF CompressChunk
<1>3. outcome \in {"ok", "throws", "terminates", "undefined"}
  BY DEF CompressFailures, CompressReturns, SpawnFailures, ThreadOutcome
<1>4. call' \in Calls
  BY <1>1, <1>3, CallType
<1>5. CASE outcome # "ok"
  BY <1>1, <1>2, <1>4, <1>5 DEF IInv
<1>6. CASE outcome = "ok"
  <2>1. outcome \notin CompressFailures(id)
    BY <1>6 DEF CompressFailures, SpawnFailures
  <2>2. id \in DOMAIN chunks /\ \A c \in DOMAIN columns : ThreadOutcome(id, c) = "ok"
    BY <1>6, <2>1 DEF CompressReturns
  <2>3. ChunkInv(CompressedChunk(chunks[id]), columns, Limits(target))
    BY <2>2, CompressedChunkInv
  <2>4. CompressedChunk(chunks[id]) \in Chunks
    BY <2>3 DEF ChunkInv
  <2>5. chunks' \in Seq(Chunks) /\ chunks' # <<>>
    BY <1>1, <1>6, <2>2, <2>4 DEF IInv
  <2>6. \A k \in DOMAIN chunks' : ChunkInv(chunks'[k], columns, Limits(target))
    BY <1>1, <1>6, <2>2, <2>3 DEF IInv
  <2> QED
    BY <1>2, <1>4, <2>5, <2>6 DEF IInv
<1> QED
  BY <1>5, <1>6

LEMMA NextIInv == IInv /\ [Next]_vars => IInv'
<1> SUFFICES ASSUME IInv, [Next]_vars
             PROVE  IInv'
  OBVIOUS
<1>1. ASSUME NEW def \in ColumnDefinition, AddColumnDefinition(def)
      PROVE  IInv'
  BY <1>1, AddColumnDefinitionIInv
<1>2. ASSUME NEW def \in ColumnDefinition, AddColumn(def)
      PROVE  IInv'
  BY <1>2, AddColumnIInv
<1>3. CASE CreateNewChunk
  BY <1>3, CreateNewChunkIInv
<1>4. ASSUME NEW values \in Rows, AppendRow(values)
      PROVE  IInv'
  BY <1>4, AppendRowIInv
<1>5. ASSUME NEW id \in 1 .. MaxChunks, CompressChunk(id)
      PROVE  IInv'
  BY <1>5, CompressChunkIInv
<1>6. CASE UNCHANGED vars
  BY <1>6 DEF vars, IInv
<1> QED
  BY <1>1, <1>2, <1>3, <1>4, <1>5, <1>6 DEF Next

LEMMA InductiveInvariant == Spec => []IInv
BY InitIInv, NextIInv, PTL DEF Spec

\* An append that returns normally stores the whole row.
LEMMA AppendRowIsWhole ==
    ASSUME IInv, NEW values \in Rows, AppendRow(values), call'.outcome = "ok",
           NEW c \in DOMAIN chunks'[Len(chunks')]
    PROVE  LET segment == chunks'[Len(chunks')][c]
           IN  /\ SegmentSize(segment) =
                     1 + (IF Len(chunks') > Len(chunks) THEN 0
                          ELSE SegmentSize(chunks[Len(chunks)][c]))
               /\ GetTypedValue(segment, SegmentSize(segment)) =
                     CellOf(segment.type, call'.row[c])
<1> DEFINE into == ChunksForAppend
           last == Len(into)
           old == into[last]
           new == ChunkAppend(old, values)
<1>1. /\ columns # <<>> /\ LastChunk # NewChunk /\ ChunkSize(LastChunk) < MaxChunkOffset
      /\ ~(Len(values) < Len(old)) /\ ~ChunkAppendThrows(old, values)
      /\ chunks' = [into EXCEPT ![last] = new]
      /\ call'.row = values
  BY DEF AppendRow, ColumnCountOf
<1>2. /\ into \in Seq(Chunks) /\ into # <<>> /\ last \in DOMAIN into
      /\ ChunkInv(old, columns, Limits(target))
      /\ \A b \in DOMAIN old : old[b].kind = "value"
  BY <1>1, ChunksForAppendInv
<1>3. \/ Len(into) > Len(chunks) /\ old = FreshChunk
      \/ Len(into) = Len(chunks) /\ old = chunks[Len(chunks)]
  <2>1. chunks \in Seq(Chunks) /\ Len(chunks) \in Nat
    BY DEF IInv
  <2>2. FreshChunk \in Chunks
    BY FreshChunkInv DEF IInv, ChunkInv
  <2>3. CASE NeedsNewChunk
    BY <2>1, <2>2, <2>3 DEF ChunksForAppend
  <2>4. CASE ~NeedsNewChunk
    BY <2>1, <2>4 DEF ChunksForAppend
  <2> QED
    BY <2>3, <2>4
<1>4. /\ old \in Chunks /\ Len(old) \in Nat /\ DOMAIN old = 1 .. Len(old)
      /\ Len(old) <= Len(values)
      /\ \A b \in DOMAIN old : old[b] \in ValueSegments /\ SegmentSize(old[b]) \in Nat
  <2>1. old \in Chunks
    BY <1>2 DEF ChunkInv
  <2> QED
    BY <1>1, <1>2, <2>1, ChunkType, RowType, SegmentSizeType
<1> HIDE DEF into, last, old, new
<1>5. chunks'[Len(chunks')] = new /\ Len(chunks') = Len(into)
  BY <1>1, <1>2 DEF last
<1>6. RejectingColumns(old, values) = {}
  BY <1>1 DEF ChunkAppendThrows
<1>7. /\ new \in Chunks /\ Len(new) = Len(old)
      /\ \A b \in DOMAIN old : /\ new[b] = SegmentAppend(old[b], values[b])
                               /\ SegmentSize(new[b]) = SegmentSize(old[b]) + 1
  BY <1>2, <1>4, <1>6, ChunkAppendProperties DEF new
<1>8. c \in DOMAIN old
  BY <1>4, <1>5, <1>7, ChunkType
<1>9. Accepts(old[c], values[c]) /\ values[c] \in AllTypeVariant
  <2>1. old[c].kind = "value"
    BY <1>2, <1>8
  <2>2. c \in 1 .. Len(values)
    BY <1>4, <1>8, RowType
  <2> QED
    BY <1>6, <1>8, <2>1, <2>2, RowType DEF RejectingColumns, TakesValues
<1>10. /\ new[c].type = old[c].type
       /\ new[c].kind = "value"
       /\ SegmentSize(new[c]) = Len(old[c].values) + 1
       /\ GetTypedValue(new[c], Len(old[c].values) + 1) = CellOf(old[c].type, values[c])
  <2>1. SegmentSize(old[c]) = Len(old[c].values)
    BY <1>2, <1>8 DEF SegmentSize
  <2> QED
    BY <1>4, <1>7, <1>8, <1>9, <2>1, SegmentAppendReads
<1>11. SegmentSize(new[c]) = 1 + (IF Len(into) > Len(chunks) THEN 0
                                  ELSE SegmentSize(chunks[Len(chunks)][c]))
  <2>1. SegmentSize(old[c]) \in Nat /\ SegmentSize(new[c]) = SegmentSize(old[c]) + 1
    BY <1>4, <1>7, <1>8
  <2>2. CASE Len(into) > Len(chunks) /\ old = FreshChunk
    BY <1>8, <2>1, <2>2, FreshChunkInv DEF IInv
  <2>3. CASE Len(into) = Len(chunks) /\ old = chunks[Len(chunks)]
    <3>1. Len(chunks) \in Nat
      BY DEF IInv
    <3> QED
      BY <2>1, <2>3, <3>1
  <2> QED
    BY <1>3, <2>2, <2>3
<1> QED
  BY <1>1, <1>5, <1>10, <1>11

LEMMA NextAppendIsWhole ==
    ASSUME IInv, [Next]_vars
    PROVE  [call'.op = "append" /\ call'.outcome = "ok" => RowIsStored]_vars
<1>1. ASSUME NEW values \in Rows, AppendRow(values), call'.outcome = "ok"
      PROVE  RowIsStored
  BY <1>1, AppendRowIsWhole DEF RowIsStored
<1>2. \/ \E values \in Rows : AppendRow(values)
      \/ call'.op # "append"
      \/ UNCHANGED vars
  BY DEF Next, AddColumnDefinition, AddColumn, CreateNewChunk, CompressChunk, Call
<1> QED
  BY <1>1, <1>2

-----------------------------------------------------------------------------
(* Positions *)

\* What a step may do to a segment: a call other than compress_chunk keeps
\* all its cells.
Kept(before, after) ==
    /\ SegmentSize(after) >= SegmentSize(before)
    /\ \A i \in 1 .. SegmentSize(before) : GetTypedValue(after, i) = GetTypedValue(before, i)

KeptOrCompressed(before, after) ==
    /\ SegmentSize(after) >= SegmentSize(before)
    /\ \A i \in 1 .. SegmentSize(before) :
          GetTypedValue(after, i) # GetTypedValue(before, i) => LosesByCompression(before)

LEMMA SameIsKept ==
    ASSUME NEW segment \in SegmentSet
    PROVE  Kept(segment, segment)
BY SegmentSizeType DEF Kept

LEMMA AppendKeeps ==
    ASSUME NEW segment \in ValueSegments, NEW variant \in AllTypeVariant,
           Accepts(segment, variant)
    PROVE  Kept(segment, SegmentAppend(segment, variant))
<1>1. /\ SegmentSize(segment) = Len(segment.values) /\ SegmentSize(segment) \in Nat
      /\ SegmentSize(SegmentAppend(segment, variant)) = SegmentSize(segment) + 1
  BY SegmentAppendSize DEF ValueSegments, SegmentSize
<1>2. \A i \in 1 .. Len(segment.values) :
        GetTypedValue(SegmentAppend(segment, variant), i) = GetTypedValue(segment, i)
  BY SegmentAppendReads
<1> QED
  BY <1>1, <1>2 DEF Kept

LEMMA CompressionKeeps ==
    ASSUME NEW segment \in ValueSegments, SegmentSize(segment) <= MaxChunkOffset
    PROVE  KeptOrCompressed(segment, MakeDictionarySegment(segment))
<1> DEFINE after == MakeDictionarySegment(segment)
<1>1. /\ SegmentSize(segment) = Len(segment.values) /\ SegmentSize(segment) \in Nat
      /\ DOMAIN segment.values = 1 .. SegmentSize(segment)
      /\ SegmentSize(after) = SegmentSize(segment)
  BY MakeDictionarySegmentType DEF ValueSegments, SegmentSize
<1> HIDE DEF after
<1>2. ASSUME NEW i \in 1 .. SegmentSize(segment),
             GetTypedValue(after, i) # GetTypedValue(segment, i)
      PROVE  LosesByCompression(segment)
  <2>1. i \in DOMAIN segment.values /\ Len(segment.values) <= NumericMax[3]
    BY <1>1 DEF MaxChunkOffset
  <2>2. /\ ContainsNull(segment) /\ ~IsNull(segment, i)
        /\ segment.values[i] = SortedValues(segment)[1]
        /\ SortedValues(segment)[1] <= DefaultValue
    BY <1>2, <2>1, LostValues DEF after
  <2> QED
    BY <2>1, <2>2 DEF LosesByCompression
<1> QED
  BY <1>1, <1>2 DEF KeptOrCompressed, after

LEMMA AppendRowKeeps ==
    ASSUME IInv, NEW values \in Rows, AppendRow(values),
           NEW k \in DOMAIN chunks, NEW c \in DOMAIN chunks[k]
    PROVE  Kept(chunks[k][c], chunks'[k][c])
<1> DEFINE into == ChunksForAppend
           last == Len(into)
           old == into[last]
           new == ChunkAppend(old, values)
<1>1. /\ chunks \in Seq(Chunks) /\ chunks[k] \in Chunks /\ chunks[k][c] \in SegmentSet
  BY ChunkType DEF IInv, ChunkInv
<1>2. Kept(chunks[k][c], chunks[k][c])
  BY <1>1, SameIsKept
<1>3. k \in DOMAIN into /\ into[k] = chunks[k]
  <2>1. FreshChunk \in Chunks
    BY FreshChunkInv DEF IInv, ChunkInv
  <2> QED
    BY <1>1, <2>1 DEF ChunksForAppend
<1>4. \/ chunks' = chunks
      \/ chunks' = into
      \/ /\ columns # <<>> /\ LastChunk # NewChunk /\ ChunkSize(LastChunk) < MaxChunkOffset
         /\ ~(Len(values) < Len(old)) \/ ChunkAppendThrows(old, values)
         /\ chunks' = [into EXCEPT ![last] = new]
  BY DEF AppendRow, ColumnCountOf
<1>5. CASE \/ chunks' = chunks
           \/ chunks' = into
  BY <1>2, <1>3, <1>5
<1>6. CASE /\ columns # <<>> /\ LastChunk # NewChunk /\ ChunkSize(LastChunk) < MaxChunkOffset
           /\ ~(Len(values) < Len(old)) \/ ChunkAppendThrows(old, values)
           /\ chunks' = [into EXCEPT ![last] = new]
  <2>1. /\ last \in DOMAIN into /\ old \in Chunks
        /\ \A b \in DOMAIN old : old[b].kind = "value"
    BY <1>6, ChunksForAppendInv DEF ChunkInv
  <2>2. Len(old) <= Len(values) \/ ChunkAppendThrows(old, values)
    BY <1>6, <2>1, ChunkType, RowType
  <2>3. CASE k # last
    BY <1>2, <1>3, <1>6, <2>3
  <2>4. CASE k = last
    <3>1. chunks'[k] = new /\ old = chunks[k]
      BY <1>3, <1>6, <2>1, <2>4
    <3>2. old[c] \in ValueSegments
      BY <2>1, <3>1, ChunkType, SegmentSizeType
    <3> DEFINE Grows == \A r \in RejectingColumns(old, values) : c < r
    <3>3. /\ new[c] = IF Grows THEN SegmentAppend(old[c], values[c]) ELSE old[c]
          /\ Grows => values[c] \in AllTypeVariant /\ Accepts(old[c], values[c])
      BY <2>1, <2>2, <3>1, ChunkAppendProperties
    <3> HIDE DEF Grows, new, old
    <3> QED
      BY <1>2, <3>1, <3>2, <3>3, AppendKeeps
  <2> QED
    BY <2>3, <2>4
<1> QED
  BY <1>4, <1>5, <1>6

LEMMA CompressChunkKeeps ==
    ASSUME IInv, NEW id \in 1 .. MaxChunks, CompressChunk(id),
           NEW k \in DOMAIN chunks, NEW c \in DOMAIN chunks[k]
    PROVE  KeptOrCompressed(chunks[k][c], chunks'[k][c])
<1>1. /\ chunks \in Seq(Chunks) /\ chunks[k] \in Chunks /\ chunks[k][c] \in SegmentSet
      /\ SegmentSize(chunks[k][c]) <= MaxChunkOffset
      /\ DOMAIN chunks[k] = 1 .. Len(chunks[k]) /\ Len(chunks[k]) \in Nat
      /\ Len(chunks[k]) <= Len(columns)
      /\ Len(columns) \in Nat /\ DOMAIN columns = 1 .. Len(columns)
  <2>1. MaxChunkOffset > 0 /\ MaxChunkOffset \in Limits(target)
    BY NumericMaxAssumption DEF MaxChunkOffset, Limits
  <2>2. chunks[k] \in Chunks /\ SegmentSize(chunks[k][c]) <= MaxChunkOffset
    BY <2>1 DEF IInv, ChunkInv
  <2> QED
    BY <2>2, ChunkType DEF IInv, ChunkInv
<1>2. Kept(chunks[k][c], chunks[k][c])
  BY <1>1, SameIsKept
<1>3. KeptOrCompressed(chunks[k][c], chunks[k][c])
  BY <1>2 DEF Kept, KeptOrCompressed
<1>4. PICK outcome \in CompressFailures(id) \cup CompressReturns(id) :
        chunks' = IF outcome = "ok" THEN [chunks EXCEPT ![id] = CompressedChunk(chunks[id])]
                                    ELSE chunks
  BY DEF CompressChunk
<1>5. CASE outcome # "ok" \/ k # id
  BY <1>3, <1>4, <1>5
<1>6. CASE outcome = "ok" /\ k = id
  <2>1. outcome \notin CompressFailures(id)
    BY <1>6 DEF CompressFailures, SpawnFailures
  <2>2. \A b \in DOMAIN columns : ThreadOutcome(id, b) = "ok"
    BY <1>6, <2>1 DEF CompressReturns
  <2>3. c \in DOMAIN columns
    BY <1>1
  <2>4. chunks[k][c].kind = "value"
    BY <1>6, <2>2, <2>3 DEF ThreadOutcome
  <2>5. chunks[k][c] \in ValueSegments
    BY <1>1, <2>4, SegmentSizeType
  <2>6. chunks'[k][c] = MakeDictionarySegment(chunks[k][c])
    BY <1>4, <1>6, <2>3 DEF CompressedChunk
  <2> QED
    BY <1>1, <2>5, <2>6, CompressionKeeps
<1> QED
  BY <1>5, <1>6

LEMMA NextKeepsPositions ==
    ASSUME IInv, [Next]_vars, vars' # vars,
           NEW k \in DOMAIN chunks, NEW c \in DOMAIN chunks[k]
    PROVE  \/ Kept(chunks[k][c], chunks'[k][c])
           \/ call'.op = "compress_chunk" /\ KeptOrCompressed(chunks[k][c], chunks'[k][c])
<1>1. chunks \in Seq(Chunks) /\ chunks[k] \in Chunks /\ chunks[k][c] \in SegmentSet
  BY ChunkType DEF IInv, ChunkInv
<1>2. Kept(chunks[k][c], chunks[k][c])
  BY <1>1, SameIsKept
<1>3. ASSUME NEW def \in ColumnDefinition, AddColumnDefinition(def)
      PROVE  Kept(chunks[k][c], chunks'[k][c])
  BY <1>2, <1>3 DEF AddColumnDefinition
<1>4. ASSUME NEW def \in ColumnDefinition, AddColumn(def)
      PROVE  Kept(chunks[k][c], chunks'[k][c])
  <2>1. \/ chunks' = chunks
        \/ chunks' = [chunks EXCEPT ![1] =
                         AddSegment(chunks[1], NewValueSegment(def.type, def.nullable))]
    BY <1>4 DEF AddColumn
  <2>2. AddSegment(chunks[k], NewValueSegment(def.type, def.nullable))[c] = chunks[k][c]
    BY <1>1 DEF AddSegment, Chunks
  <2>3. chunks'[k][c] = chunks[k][c]
    BY <1>1, <2>1, <2>2
  <2> QED
    BY <1>2, <2>3
<1>5. CASE CreateNewChunk
  <2>1. chunks'[k] = chunks[k]
    BY <1>1, <1>5 DEF CreateNewChunk
  <2> QED
    BY <1>2, <2>1
<1>6. ASSUME NEW values \in Rows, AppendRow(values)
      PROVE  Kept(chunks[k][c], chunks'[k][c])
  BY <1>6, AppendRowKeeps
<1>7. ASSUME NEW id \in 1 .. MaxChunks, CompressChunk(id)
      PROVE  call'.op = "compress_chunk" /\ KeptOrCompressed(chunks[k][c], chunks'[k][c])
  <2>1. KeptOrCompressed(chunks[k][c], chunks'[k][c])
    BY <1>7, CompressChunkKeeps
  <2>2. call'.op = "compress_chunk"
    BY <1>7 DEF CompressChunk, Call
  <2> QED
    BY <2>1, <2>2
<1> QED
  BY <1>3, <1>4, <1>5, <1>6, <1>7 DEF Next

LEMMA NextPositionsAreStable ==
    ASSUME IInv, [Next]_vars
    PROVE  [PositionsKept]_vars
BY NextKeepsPositions DEF PositionsKept, Kept, KeptOrCompressed

-----------------------------------------------------------------------------
(* The theorems *)

\* Type correctness: every sequence of calls, also of failing ones, leaves a
\* table of well-formed segments with no more of them in a chunk than columns.
THEOREM TypeCorrect == Spec => []TypeOK
BY InductiveInvariant, IInvIsEnough, PTL

\* Table::append may go by the first segment to see whether the last chunk is
\* compressed.
THEOREM FirstSegmentTellsAlways == Spec => []FirstSegmentTells
BY InductiveInvariant, IInvIsEnough, PTL

\* Chunk::size bounds the size of every segment of the chunk, although rows
\* break off midway and columns arrive late.
THEOREM SegmentsShrinkRightwardAlways == Spec => []SegmentsShrinkRightward
BY InductiveInvariant, IInvIsEnough, PTL

\* No segment outgrows a target chunk size other than 0.
THEOREM ChunksWithinTargetAlways == Spec => []ChunksWithinTarget
BY InductiveInvariant, IInvIsEnough, PTL

\* An append that returns normally has stored every value passed: by the
\* inductive invariant the chunk it appends to holds value segments only, so
\* append_with_type skipped none.
THEOREM AppendIsWholeAlways == Spec => AppendIsWhole
BY InductiveInvariant, NextAppendIsWhole, PTL DEF Spec, AppendIsWhole

\* A position once filled stays filled and reads the same for ever, except by
\* the compression of a segment with a NULL and a value at or below T{}.
THEOREM PositionsAreStableAlways == Spec => PositionsAreStable
BY InductiveInvariant, NextPositionsAreStable, PTL DEF Spec, PositionsAreStable
=============================================================================
