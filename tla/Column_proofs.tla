---------------------------- MODULE Column_proofs ----------------------------
(***************************************************************************)
(* What a column loses by compression, for every set of values, every      *)
(* sequence of appends and every number of rows up to the range of a       *)
(* ChunkOffset.                                                            *)
(***************************************************************************)
EXTENDS Column, Segments_proofs

(* The inductive invariant: there is a value segment that reads as the log, *)
(* and the column is this segment or the dictionary segment built from it.  *)

Represents(source, cells) ==
    /\ Len(source.values) = Len(cells)
    /\ \A i \in DOMAIN cells : GetTypedValue(source, i) = cells[i]

IInv ==
    /\ log \in Seq(Cell)
    /\ Len(log) <= MaxRows
    /\ \E source \in ValueSegments :
          /\ Represents(source, log)
          /\ segment \in {source, MakeDictionarySegment(source)}

LEMMA InitIInv == Init => IInv
<1> SUFFICES ASSUME Init PROVE IInv
  OBVIOUS
<1>1. segment \in ValueSegments /\ segment.values = <<>> /\ log = <<>>
  BY NewValueSegmentType DEF Init, NewValueSegment
<1>2. Represents(segment, log)
  BY <1>1 DEF Represents
<1> QED
  BY <1>1, <1>2, MaxRowsAssumption DEF IInv

\* Appending to the segment and to the log keeps them in step.
LEMMA AppendRepresents ==
    ASSUME NEW source \in ValueSegments, NEW cells \in Seq(Cell), Represents(source, cells),
           NEW variant \in AllTypeVariant, Accepts(source, variant)
    PROVE  /\ CellOf(source.type, variant) \in Cell
           /\ Represents(SegmentAppend(source, variant),
                         Append(cells, CellOf(source.type, variant)))
<1> DEFINE cell == CellOf(source.type, variant)
           after == SegmentAppend(source, variant)
           n == Len(source.values)
           more == Append(cells, cell)
<1>1. cell \in Cell
  BY DataTypesAssumption DEF Accepts, CellOf, Cell, AllTypeVariant, ValueSegments
<1>2. /\ Len(after.values) = n + 1
      /\ GetTypedValue(after, n + 1) = cell
      /\ \A i \in 1 .. n : GetTypedValue(after, i) = GetTypedValue(source, i)
  BY SegmentAppendReads
<1>3. n = Len(cells) /\ n \in Nat /\ \A i \in 1 .. n : GetTypedValue(source, i) = cells[i]
  BY DEF Represents, ValueSegments
<1> HIDE DEF cell, after, n
<1>4. Len(more) = n + 1 /\ more[n + 1] = cell /\ \A i \in 1 .. n : more[i] = cells[i]
  BY <1>1, <1>3
<1>5. DOMAIN more = 1 .. n + 1
  BY <1>1, <1>3
<1> HIDE DEF more
<1>6. Represents(after, more)
  BY <1>2, <1>3, <1>4, <1>5 DEF Represents
<1> QED
  BY <1>1, <1>6 DEF cell, after, more

LEMMA NextIInv == IInv /\ [Next]_vars => IInv'
<1> SUFFICES ASSUME IInv, [Next]_vars
             PROVE  IInv'
  OBVIOUS
<1>1. PICK source \in ValueSegments :
        Represents(source, log) /\ segment \in {source, MakeDictionarySegment(source)}
  BY DEF IInv
<1>2. segment.kind = "value" => segment = source
  BY <1>1, MakeDictionarySegmentType
<1>3. ASSUME NEW variant \in AllTypeVariant, AppendValue(variant)
      PROVE  IInv'
  <2>1. segment = source /\ Accepts(source, variant)
    BY <1>2, <1>3 DEF AppendValue
  <2>2. segment' \in ValueSegments
    BY <1>3, <2>1, SegmentAppendType DEF AppendValue
  <2>3. /\ log' = Append(log, CellOf(source.type, variant))
        /\ CellOf(source.type, variant) \in Cell
        /\ Represents(segment', log')
    BY <1>1, <1>3, <2>1, AppendRepresents DEF AppendValue, IInv
  <2>4. log' \in Seq(Cell) /\ Len(log') <= MaxRows
    BY <1>3, <2>3, MaxRowsAssumption DEF AppendValue, IInv
  <2> QED
    BY <2>2, <2>3, <2>4 DEF IInv
<1>4. CASE Compress
  <2>1. segment' = MakeDictionarySegment(source) /\ log' = log
    BY <1>2, <1>4 DEF Compress
  <2> QED
    BY <1>1, <2>1 DEF IInv
<1>5. CASE UNCHANGED vars
  BY <1>5 DEF vars, IInv
<1> QED
  BY <1>3, <1>4, <1>5 DEF Next

LEMMA InductiveInvariant == Spec => []IInv
BY InitIInv, NextIInv, PTL DEF Spec

-----------------------------------------------------------------------------
(* What the invariant implies *)

LEMMA IInvTypeOK == IInv => ColumnTypeOK
BY MakeDictionarySegmentType DEF IInv, ColumnTypeOK

\* The rows of the log and those of the source.
LEMMA SourceRows ==
    ASSUME NEW source \in ValueSegments, NEW cells \in Seq(Cell), Represents(source, cells)
    PROVE  /\ DOMAIN source.values = DOMAIN cells
           /\ \A i \in DOMAIN cells :
                 /\ source.values[i] \in Values /\ source.values[i] \in Int
                 /\ IsNull(source, i) <=> cells[i] = NULL
                 /\ cells[i] # NULL => cells[i] = source.values[i]
           /\ ContainsNull(source) <=> NULL \in Range(cells)
<1>1. DOMAIN source.values = DOMAIN cells /\ source.kind = "value"
  BY DEF Represents, ValueSegments
<1>2. ASSUME NEW i \in DOMAIN cells
      PROVE  /\ source.values[i] \in Values /\ source.values[i] \in Int
             /\ IsNull(source, i) <=> cells[i] = NULL
             /\ cells[i] # NULL => cells[i] = source.values[i]
  <2>1. source.values[i] \in Values
    BY <1>1 DEF ValueSegments
  <2>2. source.values[i] \in Int /\ source.values[i] # NULL
    BY <2>1, DataTypesAssumption
  <2>3. cells[i] = IF IsNull(source, i) THEN NULL ELSE source.values[i]
    BY <1>1 DEF Represents, GetTypedValue
  <2> QED
    BY <2>1, <2>2, <2>3
<1>3. ContainsNull(source) <=> NULL \in Range(cells)
  BY <1>1, <1>2 DEF ContainsNull, Range
<1> QED
  BY <1>1, <1>2, <1>3

LEMMA CompressedRows ==
    ASSUME IInv, Compressed
    PROVE  \E source \in ValueSegments :
              /\ Represents(source, log)
              /\ segment = MakeDictionarySegment(source)
              /\ Len(source.values) <= NumericMax[3]
<1>1. PICK source \in ValueSegments :
        Represents(source, log) /\ segment \in {source, MakeDictionarySegment(source)}
  BY DEF IInv
<1>2. segment = MakeDictionarySegment(source)
  BY <1>1 DEF Compressed, ValueSegments
<1>3. Len(source.values) <= NumericMax[3]
  <2>1. Len(log) \in Nat /\ Len(log) <= MaxRows /\ Len(source.values) = Len(log)
    BY <1>1 DEF IInv, Represents
  <2> QED
    BY <2>1, MaxRowsAssumption, NumericMaxAssumption
<1> QED
  BY <1>1, <1>2, <1>3

\* A NULL and a value at or below T{} together lose a row, namely one that
\* holds the least value; nothing else does.
LEMMA IInvLossless == IInv => LosslessExactlyWhen
<1> SUFFICES ASSUME IInv PROVE LosslessExactlyWhen
  OBVIOUS
<1>0. log \in Seq(Cell)
  BY DEF IInv
<1>1. CASE ~Compressed
  <2>1. segment \in ValueSegments /\ Represents(segment, log)
    BY <1>1, MakeDictionarySegmentType DEF IInv, Compressed
  <2>2. SegmentSize(segment) = Len(log) /\ ReadsBack
    BY <2>1 DEF SegmentSize, Represents, ReadsBack, ValueSegments
  <2> QED
    BY <1>1, <2>2 DEF LosslessExactlyWhen
<1>2. CASE Compressed
  <2>1. PICK source \in ValueSegments :
          /\ Represents(source, log)
          /\ segment = MakeDictionarySegment(source)
          /\ Len(source.values) <= NumericMax[3]
    BY <1>2, CompressedRows
  <2> DEFINE least == SortedValues(source)[1]
  <2>2. SegmentSize(segment) = Len(log)
    BY <2>1, MakeDictionarySegmentType DEF SegmentSize, Represents
  <2>3. /\ DOMAIN source.values = DOMAIN log
        /\ \A i \in DOMAIN log :
              /\ source.values[i] \in Values /\ source.values[i] \in Int
              /\ IsNull(source, i) <=> log[i] = NULL
              /\ log[i] # NULL => log[i] = source.values[i]
        /\ ContainsNull(source) <=> HasNull
    BY <1>0, <2>1, SourceRows DEF HasNull
  <2>4. \A i \in DOMAIN log :
          GetTypedValue(segment, i) # log[i] <=> HasNull /\ log[i] # NULL /\ log[i] = least
    BY <2>1, <2>3, LostValues DEF Represents
  <2>5. DefaultIsReserved <=> \A i \in DOMAIN log : log[i] # NULL => log[i] > DefaultValue
    BY DEF DefaultIsReserved, Range
  <2>6. ASSUME HasNull
        PROVE  /\ least \in Int /\ least <= DefaultValue
               /\ \A i \in DOMAIN log : least <= source.values[i]
               /\ \E i \in DOMAIN log : source.values[i] = least
    <3>1. source.values # <<>>
      BY <2>3, <2>6 DEF ContainsNull
    <3>2. /\ least \in Values
          /\ \A i \in DOMAIN log : least <= source.values[i]
          /\ \E i \in DOMAIN log : source.values[i] = least
      BY <2>3, <3>1, FirstSortedIsLeast
    <3>3. least <= DefaultValue
      BY <2>1, <2>3, <2>6, <3>1, <3>2, LostValues
    <3> QED
      BY <3>2, <3>3, DataTypesAssumption
  <2> HIDE DEF least
  <2>7. DefaultValue \in Int
    BY DEF DefaultValue
  <2>8. ASSUME HasNull, DefaultIsReserved
        PROVE  ReadsBack
    BY <2>3, <2>4, <2>5, <2>6, <2>7, <2>8 DEF ReadsBack
  <2>9. ASSUME HasNull, ~DefaultIsReserved
        PROVE  ~ReadsBack
    <3>1. PICK i \in DOMAIN log : log[i] # NULL /\ ~(log[i] > DefaultValue)
      BY <2>5, <2>9
    <3>2. PICK j \in DOMAIN log : source.values[j] = least
      BY <2>6, <2>9
    <3>3. CASE log[j] # NULL
      BY <2>3, <2>4, <2>9, <3>2, <3>3 DEF ReadsBack
    <3>4. CASE log[j] = NULL
      <4>1. source.values[j] = DefaultValue
        BY <2>3, <3>2, <3>4 DEF IsNull, ValueSegments, NullsHoldDefault
      <4>2. log[i] = least
        BY <2>3, <2>6, <2>7, <2>9, <3>1, <3>2, <4>1
      <4> QED
        BY <2>4, <2>9, <3>1, <4>2 DEF ReadsBack
    <3> QED
      BY <3>3, <3>4
  <2>10. ~HasNull => ReadsBack
    BY <2>4 DEF ReadsBack
  <2> QED
    BY <1>2, <2>2, <2>8, <2>9, <2>10 DEF LosslessExactlyWhen
<1> QED
  BY <1>1, <1>2

LEMMA IInvDamage == IInv => DamageConfined
<1> SUFFICES ASSUME IInv, NEW i \in DOMAIN log, GetTypedValue(segment, i) # log[i]
             PROVE  log[i] # NULL /\ \A j \in DOMAIN log : log[j] # NULL => log[i] <= log[j]
  BY DEF DamageConfined
<1>0. log \in Seq(Cell)
  BY DEF IInv
<1>1. Compressed
  BY IInvLossless DEF LosslessExactlyWhen, ReadsBack
<1>2. PICK source \in ValueSegments :
        /\ Represents(source, log)
        /\ segment = MakeDictionarySegment(source)
        /\ Len(source.values) <= NumericMax[3]
  BY <1>1, CompressedRows
<1> DEFINE least == SortedValues(source)[1]
<1>3. /\ DOMAIN source.values = DOMAIN log
      /\ \A j \in DOMAIN log :
            /\ IsNull(source, j) <=> log[j] = NULL
            /\ log[j] # NULL => log[j] = source.values[j]
  BY <1>0, <1>2, SourceRows
<1>4. ~IsNull(source, i) /\ source.values[i] = least
  BY <1>2, <1>3, LostValues DEF Represents
<1>5. \A j \in DOMAIN log : least <= source.values[j]
  <2>1. source.values # <<>>
    BY <1>3
  <2> QED
    BY <1>3, <2>1, FirstSortedIsLeast
<1> HIDE DEF least
<1> QED
  BY <1>3, <1>4, <1>5

LEMMA IInvNullId == IInv => NullIdIsFree
<1> SUFFICES ASSUME IInv, Compressed, ~HasNull, NEW i \in DOMAIN log
             PROVE  segment.attributes[i] # NullValueId(segment)
  BY DEF NullIdIsFree
<1>0. log \in Seq(Cell)
  BY DEF IInv
<1>1. PICK source \in ValueSegments :
        /\ Represents(source, log)
        /\ segment = MakeDictionarySegment(source)
        /\ Len(source.values) <= NumericMax[3]
  BY CompressedRows
<1>2. /\ i \in DOMAIN source.values /\ ~IsNull(source, i) /\ ~ContainsNull(source)
  BY <1>0, <1>1, SourceRows DEF HasNull, Range
<1>3. source.values[i] \in Range(FillDictionary(source))
  BY <1>2, DictionaryHolds
<1> QED
  BY <1>1, <1>2, <1>3, DictionaryReads

-----------------------------------------------------------------------------
(* ValueIDs and scans *)

\* The attribute of a row, by what the row holds.
LEMMA AttributeOfRow ==
    ASSUME NEW source \in ValueSegments, Len(source.values) <= NumericMax[3],
           NEW i \in DOMAIN source.values
    PROVE  LET dictionary == FillDictionary(source)
               attribute == MakeDictionarySegment(source).attributes[i]
           IN  /\ IsNull(source, i) => attribute = Len(dictionary)
               /\ ~IsNull(source, i) /\ source.values[i] \in Range(dictionary) =>
                     \E k \in DOMAIN dictionary :
                        dictionary[k] = source.values[i] /\ attribute = k - 1
               /\ ~IsNull(source, i) /\ source.values[i] \notin Range(dictionary) =>
                     attribute = 0
<1>1. MakeDictionarySegment(source).attributes[i] = EncodedId(source, i)
  BY AttributesHoldIds
<1>2. IsNull(source, i) => EncodedId(source, i) = Len(FillDictionary(source))
  BY DEF EncodedId, NullValueIdOf
<1>3. ~IsNull(source, i) /\ source.values[i] \notin Range(FillDictionary(source)) =>
        EncodedId(source, i) = 0
  BY DEF EncodedId, InvertedDictionary
<1> QED
  BY <1>1, <1>2, <1>3, EncodedIdOfKnown

\* Every entry of the dictionary is stored by some row.  With a NULL among the
\* rows, some row stores a value below the first entry.
LEMMA EntryIsStored ==
    ASSUME NEW source \in ValueSegments, NEW k \in DOMAIN FillDictionary(source)
    PROVE  /\ \E i \in DOMAIN source.values : source.values[i] = FillDictionary(source)[k]
           /\ ContainsNull(source) =>
                 \E i \in DOMAIN source.values :
                    /\ source.values[i] \notin Range(FillDictionary(source))
                    /\ source.values[i] < FillDictionary(source)[1]
<1> DEFINE dictionary == FillDictionary(source)
           sorted == SortedValues(source)
<1>1. /\ sorted \in Seq(Values) /\ dictionary \in Seq(Values)
      /\ \A i, j \in DOMAIN sorted : i < j => sorted[i] < sorted[j]
      /\ Range(sorted) = Range(source.values)
  BY SortedValuesProperties, FillDictionaryProperties
<1>2. /\ ~ContainsNull(source) => dictionary = sorted
      /\ ContainsNull(source) =>
            /\ Len(sorted) > 0 /\ Len(dictionary) = Len(sorted) - 1
            /\ \A j \in 1 .. Len(dictionary) : dictionary[j] = sorted[j + 1]
  BY FillDictionaryProperties
<1> HIDE DEF dictionary, sorted
<1>3. \A j \in DOMAIN sorted : \E i \in DOMAIN source.values : source.values[i] = sorted[j]
  BY <1>1 DEF Range
<1>4. \A j \in DOMAIN sorted : sorted[j] \in Int
  <2>1. \A j \in DOMAIN sorted : sorted[j] \in Values
    BY <1>1
  <2> QED
    BY <2>1, DataTypesAssumption
<1>5. k \in DOMAIN dictionary
  BY DEF dictionary
<1>6. \E j \in DOMAIN sorted : dictionary[k] = sorted[j]
  BY <1>1, <1>2, <1>5
<1>7. ASSUME ContainsNull(source)
      PROVE  \E i \in DOMAIN source.values :
                source.values[i] \notin Range(dictionary) /\ source.values[i] < dictionary[1]
  <2>1. 1 \in DOMAIN sorted /\ 2 \in DOMAIN sorted /\ dictionary[1] = sorted[2]
    BY <1>1, <1>2, <1>5, <1>7
  <2>2. PICK i \in DOMAIN source.values : source.values[i] = sorted[1]
    BY <1>3, <2>1
  <2>3. ASSUME NEW j \in DOMAIN dictionary PROVE dictionary[j] # sorted[1]
    <3>1. j + 1 \in DOMAIN sorted /\ 1 < j + 1 /\ dictionary[j] = sorted[j + 1]
      BY <1>1, <1>2, <1>7, <2>3
    <3>2. sorted[1] < sorted[j + 1] /\ sorted[1] \in Int
      BY <1>1, <1>4, <2>1, <3>1
    <3> QED
      BY <3>1, <3>2
  <2>4. sorted[1] < sorted[2]
    BY <1>1, <2>1
  <2> QED
    BY <2>1, <2>2, <2>3, <2>4 DEF Range
<1> QED
  BY <1>3, <1>6, <1>7 DEF dictionary

\* The first entry is always used: by the rows that hold it, by the rows whose
\* value was dropped, or, when the dropped value was the T{} of the NULLs, by
\* rows above T{}.
LEMMA IInvEncoding == IInv => EncodingPreservesOrder
<1> SUFFICES ASSUME IInv, Compressed PROVE EncodingPreservesOrder
  BY DEF EncodingPreservesOrder
<1>0. log \in Seq(Cell)
  BY DEF IInv
<1>1. PICK source \in ValueSegments :
        /\ Represents(source, log)
        /\ segment = MakeDictionarySegment(source)
        /\ Len(source.values) <= NumericMax[3]
  BY CompressedRows
<1> DEFINE dictionary == FillDictionary(source)
           n == Len(dictionary)
           value(i) == source.values[i]
           id(i) == segment.attributes[i]
<1>2. /\ DOMAIN source.values = DOMAIN log
      /\ \A i \in DOMAIN log : /\ value(i) \in Int
                               /\ IsNull(source, i) <=> log[i] = NULL
                               /\ log[i] # NULL => log[i] = value(i)
      /\ ContainsNull(source) <=> NULL \in Range(log)
  BY <1>0, <1>1, SourceRows
<1>3. segment.dictionary = dictionary
  BY <1>1 DEF MakeDictionarySegment
<1>4. \A i \in DOMAIN log :
        /\ log[i] = NULL => id(i) = n
        /\ log[i] # NULL /\ value(i) \in Range(dictionary) =>
              \E k \in DOMAIN dictionary : dictionary[k] = value(i) /\ id(i) = k - 1
        /\ log[i] # NULL /\ value(i) \notin Range(dictionary) => id(i) = 0
  BY <1>1, <1>2, AttributeOfRow
<1>5. \A k \in DOMAIN dictionary :
        /\ \E i \in DOMAIN log : value(i) = dictionary[k]
        /\ ContainsNull(source) =>
              \E i \in DOMAIN log : value(i) \notin Range(dictionary) /\ value(i) < dictionary[1]
  BY <1>2, EntryIsStored
<1>6. /\ n \in Nat /\ DOMAIN dictionary = 1 .. n
      /\ \A k \in 1 .. n : dictionary[k] \in Int /\ dictionary[k] # NULL
      /\ \A j, k \in 1 .. n : j < k => dictionary[j] < dictionary[k]
  <2>1. /\ dictionary \in Seq(Values)
        /\ \A j, k \in DOMAIN dictionary : j < k => dictionary[j] < dictionary[k]
    BY FillDictionaryProperties
  <2> HIDE DEF dictionary
  <2>2. n \in Nat /\ DOMAIN dictionary = 1 .. n
    BY <2>1
  <2>3. \A k \in 1 .. n : dictionary[k] \in Values
    BY <2>1
  <2>4. \A k \in 1 .. n : dictionary[k] \in Int /\ dictionary[k] # NULL
    BY <2>3, DataTypesAssumption
  <2> QED
    BY <2>1, <2>2, <2>4
<1>7. \A i \in DOMAIN log : log[i] = NULL => value(i) = DefaultValue
  <2> SUFFICES ASSUME NEW i \in DOMAIN log, log[i] = NULL
               PROVE  value(i) = DefaultValue
    OBVIOUS
  <2>1. source.nullable /\ source.nulls[i] /\ i \in DOMAIN source.values
    BY <1>2 DEF IsNull
  <2>2. i \in DOMAIN source.nulls
    BY <2>1 DEF ValueSegments
  <2> QED
    BY <2>1, <2>2 DEF ValueSegments, NullsHoldDefault
<1> HIDE DEF dictionary, n, value, id
<1>8. \A j, k \in 1 .. n : dictionary[j] = dictionary[k] => j = k
  BY <1>6
<1>9. ASSUME NEW i \in DOMAIN log, NEW j \in DOMAIN log,
             log[i] \in Range(dictionary), log[j] \in Range(dictionary)
      PROVE  log[i] < log[j] <=> id(i) < id(j)
  <2>1. log[i] # NULL /\ log[j] # NULL
    BY <1>6, <1>9 DEF Range
  <2>2. log[i] = value(i) /\ log[j] = value(j)
    BY <1>2, <2>1
  <2>3. PICK k \in 1 .. n : dictionary[k] = log[i] /\ id(i) = k - 1
    BY <1>4, <1>6, <1>9, <2>1, <2>2
  <2>4. PICK m \in 1 .. n : dictionary[m] = log[j] /\ id(j) = m - 1
    BY <1>4, <1>6, <1>9, <2>1, <2>2
  <2>5. k < m <=> dictionary[k] < dictionary[m]
    BY <1>6
  <2> QED
    BY <1>6, <2>3, <2>4, <2>5
<1>10. ASSUME NEW i \in DOMAIN log, NEW k \in 1 .. n, log[i] # NULL, value(i) = dictionary[k]
       PROVE  id(i) = k - 1
  <2>1. value(i) \in Range(dictionary)
    BY <1>6, <1>10 DEF Range
  <2>2. PICK j \in 1 .. n : dictionary[j] = value(i) /\ id(i) = j - 1
    BY <1>4, <1>6, <1>10, <2>1
  <2> QED
    BY <1>8, <1>10, <2>2
<1>11. ASSUME NEW i \in DOMAIN log, NEW k \in 1 .. n, id(i) = k - 1
       PROVE  k = 1 \/ (log[i] # NULL /\ log[i] = dictionary[k])
  <2>1. log[i] # NULL
    BY <1>4, <1>6, <1>11
  <2>2. CASE value(i) \notin Range(dictionary)
    BY <1>4, <1>11, <2>1, <2>2
  <2>3. CASE value(i) \in Range(dictionary)
    <3>1. PICK j \in 1 .. n : dictionary[j] = value(i) /\ id(i) = j - 1
      BY <1>4, <1>6, <2>1, <2>3
    <3> QED
      BY <1>2, <1>11, <2>1, <3>1
  <2> QED
    BY <2>2, <2>3
<1>12. ASSUME NEW k \in 1 .. n
       PROVE  (\E i \in DOMAIN log : id(i) = k - 1)
                <=> k = 1 \/ dictionary[k] # DefaultValue \/ DefaultValue \in Range(log)
  <2>1. PICK i \in DOMAIN log : value(i) = dictionary[k]
    BY <1>5, <1>6
  <2>2. CASE dictionary[k] # DefaultValue
    BY <1>7, <1>10, <2>1, <2>2
  <2>3. CASE dictionary[k] = DefaultValue /\ DefaultValue \in Range(log)
    <3>1. PICK j \in DOMAIN log : log[j] = DefaultValue
      BY <2>3 DEF Range
    <3>2. log[j] # NULL
      BY <1>6, <2>3, <3>1
    <3> QED
      BY <1>2, <1>10, <2>3, <3>1, <3>2
  <2>4. CASE k = 1 /\ dictionary[k] = DefaultValue /\ DefaultValue \notin Range(log)
    <3>1. log[i] = NULL
      BY <1>2, <2>1, <2>4 DEF Range
    <3>2. PICK j \in DOMAIN log : value(j) \notin Range(dictionary) /\ value(j) < dictionary[1]
      BY <1>2, <1>5, <1>6, <3>1 DEF Range
    <3>3. log[j] # NULL
      BY <1>2, <1>6, <1>7, <2>4, <3>2
    <3>4. id(j) = 0
      BY <1>4, <3>2, <3>3
    <3> QED
      BY <2>4, <3>4
  <2>5. CASE k # 1 /\ dictionary[k] = DefaultValue /\ DefaultValue \notin Range(log)
    BY <1>11, <2>5 DEF Range
  <2> QED
    BY <2>2, <2>3, <2>4, <2>5
<1> QED
  BY <1>3, <1>6, <1>9, <1>12 DEF EncodingPreservesOrder, id

LEMMA IInvScan == IInv => ScanAgreesWithReads
<1> SUFFICES ASSUME IInv, NEW op \in ScanType, NEW value \in Values
             PROVE  ScanSegment(segment, op, value) =
                      {i \in DOMAIN log : /\ GetTypedValue(segment, i) # NULL
                                          /\ ScanOperation(op, GetTypedValue(segment, i), value)}
  BY DEF ScanAgreesWithReads
<1>1. ScanSegment(segment, op, value) = Matches(segment, op, value)
  <2>1. CASE Compressed
    <3>1. PICK source \in ValueSegments :
            /\ segment = MakeDictionarySegment(source)
            /\ Len(source.values) <= NumericMax[3]
      BY <2>1, CompressedRows
    <3>2. segment \in DictionarySegments /\ WellFormed(segment)
      BY <3>1, MakeDictionarySegmentType, CompressedIsWellFormed
    <3> QED
      BY <3>2, ScanDictIsExact
  <2>2. CASE ~Compressed
    <3>1. segment \in ValueSegments
      BY <2>2, MakeDictionarySegmentType DEF IInv, Compressed
    <3> QED
      BY <3>1, ScanValueIsExact
  <2> QED
    BY <2>1, <2>2
<1>2. 1 .. SegmentSize(segment) = DOMAIN log
  <2>1. SegmentSize(segment) = Len(log) /\ log \in Seq(Cell)
    BY IInvLossless DEF LosslessExactlyWhen, IInv
  <2> QED
    BY <2>1
<1> QED
  BY <1>1, <1>2 DEF Matches

-----------------------------------------------------------------------------
(* The theorems *)

\* Type correctness of the column and its log.
THEOREM ColumnTypeCorrect == Spec => []ColumnTypeOK
BY InductiveInvariant, IInvTypeOK, PTL

\* Compression keeps every cell, except when the column holds a NULL and a
\* value at or below T{}; then it does not.
THEOREM LosslessExactlyWhenAlways == Spec => []LosslessExactlyWhen
BY InductiveInvariant, IInvLossless, PTL

\* What compression loses is the least value and nothing else; no NULL is lost.
THEOREM DamageConfinedAlways == Spec => []DamageConfined
BY InductiveInvariant, IInvDamage, PTL

\* Without NULLs no attribute is taken for null_value_id, at any width.
THEOREM NullIdIsFreeAlways == Spec => []NullIdIsFree
BY InductiveInvariant, IInvNullId, PTL

\* Rows compare like their ValueIDs, and the only dictionary entry that no row
\* may use is the T{} of the NULLs, when two values lie below it.
THEOREM EncodingPreservesOrderAlways == Spec => []EncodingPreservesOrder
BY InductiveInvariant, IInvEncoding, PTL

\* A scan selects the rows that read as non-NULL values that compare, on value
\* segments and by ValueIDs on dictionary segments, for every search value.
THEOREM ScanAgreesWithReadsAlways == Spec => []ScanAgreesWithReads
BY InductiveInvariant, IInvScan, PTL
=============================================================================
