--------------------------- MODULE Segments_proofs ---------------------------
(***************************************************************************)
(* What the operators of Segments and TableScan return, for every set of   *)
(* values.                                                                 *)
(***************************************************************************)
EXTENDS TableScan, SequenceTheorems, FunctionTheorems, FiniteSetTheorems,
        WellFoundedInduction, TLAPS

LEMMA NewValueSegmentType ==
    ASSUME NEW type \in DataType, NEW nullable \in BOOLEAN
    PROVE  NewValueSegment(type, nullable) \in ValueSegments
<1>1. NullsHoldDefault(NewValueSegment(type, nullable))
  BY DEF NewValueSegment, NullsHoldDefault
<1> QED
  BY <1>1 DEF NewValueSegment, ValueSegments

LEMMA SegmentAppendType ==
    ASSUME NEW segment \in ValueSegments, NEW variant \in AllTypeVariant,
           Accepts(segment, variant)
    PROVE  SegmentAppend(segment, variant) \in ValueSegments
<1> DEFINE cell == CellOf(segment.type, variant)
           stored == IF cell = NULL THEN DefaultValue ELSE cell
           values == Append(segment.values, stored)
           nulls == IF segment.nullable THEN Append(segment.nulls, cell = NULL)
                                        ELSE segment.nulls
           after == SegmentAppend(segment, variant)
<1>1. cell \in Cell
  BY DataTypesAssumption DEF Accepts, CellOf, Cell, AllTypeVariant, ValueSegments
<1>2. stored \in Values /\ (cell = NULL => stored = DefaultValue)
  BY <1>1, DataTypesAssumption DEF Cell
<1>3. after = [segment EXCEPT !.values = values, !.nulls = nulls]
  BY DEF SegmentAppend
<1>4. (cell = NULL) \in BOOLEAN
  OBVIOUS
<1>5. /\ segment.values \in Seq(Values) /\ segment.nulls \in Seq(BOOLEAN)
      /\ segment.nullable \in BOOLEAN
      /\ Len(segment.nulls) = IF segment.nullable THEN Len(segment.values) ELSE 0
      /\ NullsHoldDefault(segment)
  BY DEF ValueSegments
<1>6. ASSUME NEW flag \in BOOLEAN, flag => stored = DefaultValue, segment.nullable
      PROVE  /\ Append(segment.nulls, flag) \in Seq(BOOLEAN)
             /\ Len(Append(segment.nulls, flag)) = Len(values)
             /\ \A i \in DOMAIN Append(segment.nulls, flag) :
                   Append(segment.nulls, flag)[i] => values[i] = DefaultValue
  <2>1. /\ Len(Append(segment.nulls, flag)) = Len(segment.nulls) + 1
        /\ Len(values) = Len(segment.values) + 1
        /\ Append(segment.nulls, flag) \in Seq(BOOLEAN)
    BY <1>2, <1>5
  <2>2. ASSUME NEW i \in 1 .. Len(segment.nulls)
        PROVE  Append(segment.nulls, flag)[i] => values[i] = DefaultValue
    BY <1>5, <1>6 DEF NullsHoldDefault
  <2>3. /\ Append(segment.nulls, flag)[Len(segment.nulls) + 1] = flag
        /\ values[Len(segment.nulls) + 1] = stored
    BY <1>5, <1>6
  <2> HIDE DEF values
  <2> QED
    BY <1>5, <1>6, <2>1, <2>2, <2>3
<1> HIDE DEF cell, after
<1>7. values \in Seq(Values)
  BY <1>2, <1>5
<1>8. /\ nulls \in Seq(BOOLEAN)
      /\ Len(nulls) = IF segment.nullable THEN Len(values) ELSE 0
      /\ \A i \in DOMAIN nulls : nulls[i] => values[i] = DefaultValue
  <2>1. CASE segment.nullable
    BY <1>2, <1>4, <1>6, <2>1
  <2>2. CASE ~segment.nullable
    BY <1>5, <2>2
  <2> QED
    BY <2>1, <2>2
<1> HIDE DEF stored, values, nulls
<1>9. after.values = values /\ after.nulls = nulls
  BY <1>3 DEF ValueSegments
<1>10. NullsHoldDefault(after)
  BY <1>8, <1>9 DEF NullsHoldDefault
<1>11. /\ after \in [kind : {"value"}, type : DataType, nullable : BOOLEAN,
                     values : Seq(Values), nulls : Seq(BOOLEAN)]
       /\ after.nullable = segment.nullable
  BY <1>3, <1>7, <1>8 DEF ValueSegments
<1>12. after \in ValueSegments
  BY <1>8, <1>9, <1>10, <1>11 DEF ValueSegments
<1> QED
  BY <1>12 DEF after

LEMMA StoredIdIsNat ==
    ASSUME NEW width \in 1 .. 3, NEW id \in Nat
    PROVE  StoredId(width, id) \in Nat
<1>1. NumericMax[width] + 1 \in Nat \ {0}
  BY NumericMaxAssumption
<1> QED
  BY <1>1 DEF StoredId

LEMMA StoredIdFits ==
    ASSUME NEW width \in 1 .. 3, NEW id \in Nat, id <= NumericMax[width]
    PROVE  StoredId(width, id) = id
<1> DEFINE max == NumericMax[width]
<1>1. max \in Nat
  BY NumericMaxAssumption
<1> HIDE DEF max
<1>2. id <= max => id % (max + 1) = id
  BY <1>1
<1> QED
  BY <1>2 DEF StoredId, max

LEMMA AttributeVectorWidthType ==
    ASSUME NEW distinct \in Nat
    PROVE  AttributeVectorWidth(distinct) \in 1 .. 3
BY DEF AttributeVectorWidth

\* The sorted copy of the values: each of them once, in ascending order.
LEMMA SortedValuesProperties ==
    ASSUME NEW segment \in ValueSegments
    PROVE  LET sorted == SortedValues(segment)
           IN  /\ sorted \in Seq(Values)
               /\ Range(sorted) = Range(segment.values)
               /\ \A i, j \in DOMAIN sorted : i < j => sorted[i] < sorted[j]
               /\ \A i \in DOMAIN segment.values :
                     \E k \in DOMAIN sorted : sorted[k] = segment.values[i]
<1> DEFINE present == Range(segment.values)
           sorted == SortedDistinct(present)
<1>1. /\ segment.values \in Seq(Values)
      /\ segment.values \in [1 .. Len(segment.values) -> Values]
  BY DEF ValueSegments
<1>2. present \in SUBSET Values /\ \A i \in DOMAIN segment.values : segment.values[i] \in present
  BY <1>1 DEF Range
<1>3. /\ sorted \in Seq(present)
      /\ Range(sorted) = present
      /\ \A i, j \in DOMAIN sorted : i < j => sorted[i] < sorted[j]
  BY <1>2, SortedDistinctAssumption
<1>4. sorted \in Seq(Values)
  BY <1>2, <1>3
<1>5. \A v \in present : \E k \in DOMAIN sorted : sorted[k] = v
  BY <1>3 DEF Range
<1> QED
  BY <1>2, <1>3, <1>4, <1>5 DEF SortedValues

\* fill_dictionary: the sorted values, without the first if there is a NULL.
LEMMA FillDictionaryProperties ==
    ASSUME NEW segment \in ValueSegments
    PROVE  LET dictionary == FillDictionary(segment)
               sorted     == SortedValues(segment)
           IN  /\ dictionary \in Seq(Values)
               /\ \A i, j \in DOMAIN dictionary : i < j => dictionary[i] < dictionary[j]
               /\ ~ContainsNull(segment) => dictionary = sorted
               /\ ContainsNull(segment) =>
                     /\ Len(sorted) > 0 /\ Len(dictionary) = Len(sorted) - 1
                     /\ \A k \in 1 .. Len(dictionary) : dictionary[k] = sorted[k + 1]
<1> DEFINE sorted == SortedValues(segment)
<1>1. /\ sorted \in Seq(Values)
      /\ \A i, j \in DOMAIN sorted : i < j => sorted[i] < sorted[j]
      /\ \A i \in DOMAIN segment.values : \E k \in DOMAIN sorted : sorted[k] = segment.values[i]
  BY SortedValuesProperties
<1> HIDE DEF sorted
<1>2. CASE ~ContainsNull(segment)
  BY <1>1, <1>2 DEF FillDictionary, sorted
<1>3. CASE ContainsNull(segment)
  <2>1. PICK i \in DOMAIN segment.values : IsNull(segment, i)
    BY <1>3 DEF ContainsNull
  <2>2. DOMAIN sorted # {} /\ sorted # <<>>
    BY <1>1, <2>1
  <2>3. /\ Tail(sorted) \in Seq(Values)
        /\ Len(Tail(sorted)) = Len(sorted) - 1
        /\ \A k \in 1 .. Len(Tail(sorted)) : Tail(sorted)[k] = sorted[k + 1]
        /\ Len(sorted) > 0
    BY <1>1, <2>2, HeadTailProperties
  <2>4. \A k, j \in DOMAIN Tail(sorted) : k < j => Tail(sorted)[k] < Tail(sorted)[j]
    BY <1>1, <2>3
  <2> QED
    BY <1>3, <2>3, <2>4 DEF FillDictionary, sorted
<1> QED
  BY <1>2, <1>3

\* There are at most as many distinct values as there are rows.
LEMMA DistinctCountBound ==
    ASSUME NEW segment \in ValueSegments
    PROVE  Len(SortedValues(segment)) <= Len(segment.values)
<1> DEFINE present == Range(segment.values)
           sorted == SortedValues(segment)
           n == Len(sorted)
           m == Len(segment.values)
<1>1. /\ segment.values \in [1 .. m -> Values]
      /\ m \in Nat
  BY DEF ValueSegments
<1>2. /\ sorted \in [1 .. n -> Values]
      /\ n \in Nat
      /\ Range(sorted) = present
      /\ \A i, j \in 1 .. n : i < j => sorted[i] < sorted[j]
  BY SortedValuesProperties
<1>3. segment.values \in Surjection(1 .. m, present)
  BY <1>1, Fun_RangeProperties
<1> HIDE DEF present, m
<1>4. Cardinality(present) <= m
  <2>1. ExistsSurjection(1 .. m, present)
    BY <1>3 DEF ExistsSurjection
  <2> QED
    BY <1>1, <2>1, FS_SurjCardinalityBound
<1> HIDE DEF sorted, n
<1>5. sorted \in Surjection(1 .. n, present)
  BY <1>2, Fun_RangeProperties
<1>6. sorted \in [1 .. n -> present]
  BY <1>5 DEF Surjection
<1>7. \A i, j \in 1 .. n : sorted[i] = sorted[j] => i = j
  <2> SUFFICES ASSUME NEW i \in 1 .. n, NEW j \in 1 .. n, i # j
               PROVE  sorted[i] # sorted[j]
    OBVIOUS
  <2>1. sorted[i] \in Int /\ sorted[j] \in Int
    BY <1>2, DataTypesAssumption
  <2>2. sorted[i] < sorted[j] \/ sorted[j] < sorted[i]
    BY <1>2
  <2> QED
    BY <2>1, <2>2
<1>8. ExistsBijection(1 .. n, present)
  BY <1>5, <1>6, <1>7, Fun_IsBij DEF ExistsBijection
<1>9. Cardinality(present) = n
  BY <1>2, <1>8, FS_CountingElements
<1> QED
  BY <1>4, <1>9 DEF sorted, n, m

LEMMA EncodedIdType ==
    ASSUME NEW segment \in ValueSegments, NEW i \in DOMAIN segment.values
    PROVE  EncodedId(segment, i) \in 0 .. Len(FillDictionary(segment))
<1> DEFINE dictionary == FillDictionary(segment)
           value == segment.values[i]
<1>1. dictionary \in Seq(Values)
  BY FillDictionaryProperties
<1>2. Len(dictionary) \in Nat
  BY <1>1
<1>0. EncodedId(segment, i) = IF IsNull(segment, i) THEN Len(dictionary)
                              ELSE InvertedDictionary(dictionary, value)
  BY DEF EncodedId, NullValueIdOf
<1>3. CASE value \in Range(dictionary)
  <2>1. \E k \in DOMAIN dictionary : dictionary[k] = value
    BY <1>3 DEF Range
  <2>2. (CHOOSE k \in DOMAIN dictionary : dictionary[k] = value) \in 1 .. Len(dictionary)
    BY <1>1, <2>1
  <2>3. InvertedDictionary(dictionary, value) \in 0 .. Len(dictionary)
    BY <1>2, <1>3, <2>2 DEF InvertedDictionary
  <2> HIDE DEF dictionary, value
  <2> QED
    BY <1>0, <1>2, <2>3 DEF dictionary
<1>4. CASE value \notin Range(dictionary)
  <2>1. InvertedDictionary(dictionary, value) = 0
    BY <1>4 DEF InvertedDictionary
  <2> HIDE DEF dictionary, value
  <2> QED
    BY <1>0, <1>2, <2>1 DEF dictionary
<1> QED
  BY <1>3, <1>4

LEMMA MakeDictionarySegmentType ==
    ASSUME NEW segment \in ValueSegments
    PROVE  /\ MakeDictionarySegment(segment) \in DictionarySegments
           /\ MakeDictionarySegment(segment).type = segment.type
           /\ MakeDictionarySegment(segment).kind = "dictionary"
           /\ Len(MakeDictionarySegment(segment).attributes) = Len(segment.values)
<1> DEFINE width == AttributeVectorWidth(Len(SortedValues(segment)))
           attributes == [i \in DOMAIN segment.values |->
                             StoredId(width, EncodedId(segment, i))]
<1>1. width \in 1 .. 3
  BY AttributeVectorWidthType, SortedValuesProperties
<1>2. FillDictionary(segment) \in Seq(Values) /\ Len(FillDictionary(segment)) \in Nat
  BY FillDictionaryProperties
<1> HIDE DEF width
<1>3. ASSUME NEW i \in DOMAIN segment.values
      PROVE  StoredId(width, EncodedId(segment, i)) \in Nat
  <2>1. EncodedId(segment, i) \in Nat
    BY <1>2, EncodedIdType
  <2> QED
    BY <1>1, <2>1, StoredIdIsNat
<1>4. /\ DOMAIN segment.values = 1 .. Len(segment.values)
      /\ Len(segment.values) \in Nat
      /\ segment.type \in DataType
  BY DEF ValueSegments
<1>5. attributes \in [1 .. Len(segment.values) -> Nat]
  BY <1>3, <1>4
<1>6. attributes \in Seq(Nat) /\ Len(attributes) = Len(segment.values)
  BY <1>4, <1>5
<1> HIDE DEF attributes
<1>7. MakeDictionarySegment(segment) =
        [kind |-> "dictionary", type |-> segment.type, dictionary |-> FillDictionary(segment),
         width |-> width, attributes |-> attributes]
  BY DEF MakeDictionarySegment, width, attributes
<1> QED
  BY <1>1, <1>2, <1>4, <1>6, <1>7 DEF DictionarySegments

-----------------------------------------------------------------------------
(* Reading *)

\* An append adds the cell at the end and leaves the cells before it.
LEMMA SegmentAppendReads ==
    ASSUME NEW segment \in ValueSegments, NEW variant \in AllTypeVariant,
           Accepts(segment, variant)
    PROVE  LET after == SegmentAppend(segment, variant)
               n     == Len(segment.values)
           IN  /\ after.kind = "value" /\ after.type = segment.type
               /\ Len(after.values) = n + 1
               /\ GetTypedValue(after, n + 1) = CellOf(segment.type, variant)
               /\ \A i \in 1 .. n : GetTypedValue(after, i) = GetTypedValue(segment, i)
<1> DEFINE cell == CellOf(segment.type, variant)
           stored == IF cell = NULL THEN DefaultValue ELSE cell
           after == SegmentAppend(segment, variant)
           n == Len(segment.values)
           values == Append(segment.values, stored)
           nulls == IF segment.nullable THEN Append(segment.nulls, cell = NULL)
                                        ELSE segment.nulls
<1>1. /\ after.kind = "value" /\ after.values = values /\ after.nulls = nulls
      /\ after.nullable = segment.nullable /\ segment.kind = "value"
      /\ after.type = segment.type
  BY DEF SegmentAppend, ValueSegments
<1>2. /\ n \in Nat /\ Len(values) = n + 1
      /\ values[n + 1] = stored
      /\ \A i \in 1 .. n : values[i] = segment.values[i]
  BY DEF ValueSegments
<1>3. segment.nullable => /\ nulls[n + 1] = (cell = NULL)
                          /\ \A i \in 1 .. n : nulls[i] = segment.nulls[i]
  BY DEF ValueSegments
<1>4. cell = NULL => segment.nullable
  BY DataTypesAssumption DEF Accepts, CellOf, ValueSegments, AllTypeVariant
<1> HIDE DEF cell, after, values, nulls, n
<1>5. GetTypedValue(after, n + 1) = cell
  BY <1>1, <1>2, <1>3, <1>4 DEF GetTypedValue, IsNull
<1>6. \A i \in 1 .. n : GetTypedValue(after, i) = GetTypedValue(segment, i)
  BY <1>1, <1>2, <1>3 DEF GetTypedValue, IsNull
<1> QED
  BY <1>1, <1>2, <1>5, <1>6 DEF after, n, cell

\* The value of a row is the first one sorted, or is in the dictionary.
LEMMA DictionaryHolds ==
    ASSUME NEW segment \in ValueSegments, NEW i \in DOMAIN segment.values
    PROVE  LET dictionary == FillDictionary(segment)
               sorted     == SortedValues(segment)
               value      == segment.values[i]
           IN  \/ value \in Range(dictionary)
               \/ ContainsNull(segment) /\ value = sorted[1] /\ value \notin Range(dictionary)
<1> DEFINE dictionary == FillDictionary(segment)
           sorted == SortedValues(segment)
           value == segment.values[i]
<1>1. /\ sorted \in Seq(Values)
      /\ \A k, j \in DOMAIN sorted : k < j => sorted[k] < sorted[j]
      /\ \E k \in DOMAIN sorted : sorted[k] = value
  BY SortedValuesProperties
<1>2. /\ dictionary \in Seq(Values)
      /\ ~ContainsNull(segment) => dictionary = sorted
      /\ ContainsNull(segment) =>
            /\ Len(sorted) > 0 /\ Len(dictionary) = Len(sorted) - 1
            /\ \A k \in 1 .. Len(dictionary) : dictionary[k] = sorted[k + 1]
  BY FillDictionaryProperties
<1> HIDE DEF sorted, dictionary, value
<1>3. PICK k \in DOMAIN sorted : sorted[k] = value
  BY <1>1
<1>4. CASE ~ContainsNull(segment)
  BY <1>2, <1>3, <1>4 DEF Range, dictionary, sorted, value
<1>5. CASE ContainsNull(segment) /\ k > 1
  <2>1. k - 1 \in 1 .. Len(dictionary) /\ dictionary[k - 1] = value
    BY <1>1, <1>2, <1>3, <1>5
  <2>2. value \in Range(dictionary)
    BY <1>2, <2>1 DEF Range
  <2> QED
    BY <2>2 DEF dictionary, value
<1>6. CASE ContainsNull(segment) /\ k = 1
  <2>1. \A j \in DOMAIN dictionary : dictionary[j] # value
    <3> SUFFICES ASSUME NEW j \in DOMAIN dictionary PROVE dictionary[j] # value
      OBVIOUS
    <3>1. j + 1 \in DOMAIN sorted /\ dictionary[j] = sorted[j + 1] /\ j \in Nat /\ j > 0
      BY <1>1, <1>2, <1>6
    <3>2. 1 < j + 1 /\ 1 \in DOMAIN sorted
      BY <1>6, <3>1
    <3>3. sorted[1] < sorted[j + 1]
      BY <1>1, <3>1, <3>2
    <3>4. sorted[1] \in Values
      BY <1>1, <3>2
    <3>5. sorted[1] \in Int
      BY <3>4, DataTypesAssumption
    <3> QED
      BY <1>3, <1>6, <3>1, <3>3, <3>5
  <2>2. value \notin Range(dictionary)
    BY <2>1 DEF Range
  <2> QED
    BY <1>3, <1>6, <2>2 DEF dictionary, sorted, value
<1> QED
  BY <1>1, <1>3, <1>4, <1>5, <1>6

\* The first sorted value is a value of some row, and none is smaller.
LEMMA FirstSortedIsLeast ==
    ASSUME NEW segment \in ValueSegments, segment.values # <<>>
    PROVE  LET sorted == SortedValues(segment)
           IN  /\ sorted # <<>> /\ sorted[1] \in Values
               /\ \E i \in DOMAIN segment.values : segment.values[i] = sorted[1]
               /\ \A i \in DOMAIN segment.values : sorted[1] <= segment.values[i]
<1> DEFINE sorted == SortedValues(segment)
<1>1. /\ sorted \in Seq(Values)
      /\ Range(sorted) = Range(segment.values)
      /\ \A i, j \in DOMAIN sorted : i < j => sorted[i] < sorted[j]
      /\ \A i \in DOMAIN segment.values :
            \E k \in DOMAIN sorted : sorted[k] = segment.values[i]
  BY SortedValuesProperties
<1>2. /\ segment.values \in Seq(Values) /\ 1 \in DOMAIN segment.values
  BY DEF ValueSegments
<1> HIDE DEF sorted
<1>3. DOMAIN sorted # {}
  BY <1>1, <1>2
<1>4. sorted # <<>> /\ 1 \in DOMAIN sorted /\ sorted[1] \in Values
  BY <1>1, <1>3
<1>5. \E i \in DOMAIN segment.values : segment.values[i] = sorted[1]
  <2>1. sorted[1] \in Range(segment.values)
    BY <1>1, <1>4 DEF Range
  <2> QED
    BY <2>1 DEF Range
<1>6. ASSUME NEW i \in DOMAIN segment.values
      PROVE  sorted[1] <= segment.values[i]
  <2>1. PICK k \in DOMAIN sorted : sorted[k] = segment.values[i]
    BY <1>1
  <2>2. k = 1 \/ (1 < k /\ sorted[1] < sorted[k])
    BY <1>1, <1>4
  <2>0. segment.values[i] \in Values
    BY <1>2
  <2>3. sorted[1] \in Int /\ segment.values[i] \in Int
    BY <1>4, <2>0, DataTypesAssumption
  <2> QED
    BY <2>1, <2>2, <2>3
<1> QED
  BY <1>4, <1>5, <1>6 DEF sorted

\* The attribute vector is wide enough for every ValueID put into it, that of
\* NULL included.
LEMMA AttributesHoldIds ==
    ASSUME NEW segment \in ValueSegments, Len(segment.values) <= NumericMax[3],
           NEW i \in DOMAIN segment.values
    PROVE  MakeDictionarySegment(segment).attributes[i] = EncodedId(segment, i)
<1> DEFINE sorted == SortedValues(segment)
           distinct == Len(sorted)
           dictionary == FillDictionary(segment)
           width == AttributeVectorWidth(distinct)
           id == EncodedId(segment, i)
<1>1. /\ sorted \in Seq(Values) /\ distinct \in Nat /\ distinct <= Len(segment.values)
      /\ Len(segment.values) \in Nat /\ sorted # <<>>
  <2>1. segment.values # <<>> /\ Len(segment.values) \in Nat
    BY DEF ValueSegments
  <2> QED
    BY <2>1, FirstSortedIsLeast, SortedValuesProperties, DistinctCountBound
<1>2. /\ dictionary \in Seq(Values)
      /\ ~ContainsNull(segment) => dictionary = sorted
      /\ ContainsNull(segment) => Len(dictionary) = distinct - 1
  BY FillDictionaryProperties
<1>3. MakeDictionarySegment(segment).attributes[i] = StoredId(width, id)
  BY DEF MakeDictionarySegment
<1>4. id \in 0 .. distinct - 1
  <2>1. CASE IsNull(segment, i)
    <3>1. ContainsNull(segment) /\ id = Len(dictionary)
      BY <2>1 DEF ContainsNull, EncodedId, NullValueIdOf
    <3> HIDE DEF dictionary, distinct, id
    <3> QED
      BY <1>1, <1>2, <3>1
  <2>2. CASE ~IsNull(segment, i) /\ segment.values[i] \in Range(dictionary)
    <3>1. \E k \in DOMAIN dictionary : dictionary[k] = segment.values[i]
      BY <2>2 DEF Range
    <3>2. id = (CHOOSE k \in DOMAIN dictionary : dictionary[k] = segment.values[i]) - 1
      BY <2>2 DEF EncodedId, InvertedDictionary
    <3>3. PICK k \in DOMAIN dictionary : id = k - 1
      BY <3>1, <3>2
    <3> HIDE DEF dictionary, id, sorted
    <3>4. k \in 1 .. distinct
      BY <1>1, <1>2, <3>3
    <3> HIDE DEF distinct
    <3> QED
      BY <1>1, <3>3, <3>4
  <2>3. CASE ~IsNull(segment, i) /\ segment.values[i] \notin Range(dictionary)
    <3>1. id = 0
      BY <2>3 DEF EncodedId, InvertedDictionary
    <3>2. distinct > 0
      BY <1>1
    <3> HIDE DEF distinct, id
    <3> QED
      BY <1>1, <3>1, <3>2
  <2> QED
    BY <2>1, <2>2, <2>3
<1> HIDE DEF sorted, distinct, dictionary, id
<1>5. width \in 1 .. 3 /\ distinct - 1 <= NumericMax[width]
  BY <1>1, <1>4, NumericMaxAssumption DEF AttributeVectorWidth
<1>6. NumericMax[width] \in Nat
  BY <1>5, NumericMaxAssumption
<1> HIDE DEF width
<1>7. id \in Nat /\ id <= NumericMax[width]
  BY <1>1, <1>4, <1>5, <1>6
<1>8. StoredId(width, id) = id
  BY <1>5, <1>7, StoredIdFits
<1> QED
  BY <1>3, <1>8 DEF id

\* How the rows of a value segment read after compression: NULLs as NULLs,
\* values of the dictionary as themselves, any other value as another cell.
LEMMA DictionaryReads ==
    ASSUME NEW segment \in ValueSegments, Len(segment.values) <= NumericMax[3],
           NEW i \in DOMAIN segment.values
    PROVE  LET compressed == MakeDictionarySegment(segment)
               known == segment.values[i] \in Range(FillDictionary(segment))
           IN  /\ IsNull(segment, i) => GetTypedValue(compressed, i) = NULL
               /\ ~IsNull(segment, i) /\ known =>
                     /\ GetTypedValue(compressed, i) = segment.values[i]
                     /\ compressed.attributes[i] # NullValueId(compressed)
               /\ ~IsNull(segment, i) /\ ~known =>
                     GetTypedValue(compressed, i) # segment.values[i]
<1> DEFINE compressed == MakeDictionarySegment(segment)
           dictionary == FillDictionary(segment)
           value == segment.values[i]
           id == EncodedId(segment, i)
<1>1. /\ compressed.kind = "dictionary" /\ compressed.dictionary = dictionary
      /\ compressed.attributes[i] = id
  BY AttributesHoldIds DEF MakeDictionarySegment
<1>2. /\ dictionary \in Seq(Values) /\ value \in Values
  BY FillDictionaryProperties DEF ValueSegments
<1>3. Len(dictionary) \in Nat /\ \A k \in DOMAIN dictionary : dictionary[k] \in Values
  BY <1>2
<1>4. CASE IsNull(segment, i)
  <2>1. id = Len(dictionary)
    BY <1>4 DEF EncodedId, NullValueIdOf
  <2> HIDE DEF compressed, dictionary, id
  <2> QED
    BY <1>1, <1>4, <2>1 DEF GetTypedValue, NullValueId, NullValueIdOf, compressed
<1>5. CASE ~IsNull(segment, i) /\ value \in Range(dictionary)
  <2>1. \E k \in DOMAIN dictionary : dictionary[k] = value
    BY <1>5 DEF Range
  <2>2. id = (CHOOSE k \in DOMAIN dictionary : dictionary[k] = value) - 1
    BY <1>5 DEF EncodedId, InvertedDictionary
  <2>3. PICK k \in DOMAIN dictionary : id = k - 1 /\ dictionary[k] = value
    BY <2>1, <2>2
  <2> HIDE DEF compressed, dictionary, id, value
  <2>4. k \in 1 .. Len(dictionary)
    BY <1>2
  <2>5. id # Len(dictionary) /\ id + 1 = k
    BY <1>3, <2>3, <2>4
  <2>6. compressed.attributes[i] # NullValueId(compressed)
    BY <1>1, <2>5 DEF NullValueId, NullValueIdOf
  <2>7. GetTypedValue(compressed, i) = value
    BY <1>1, <2>3, <2>5, <2>6 DEF GetTypedValue, ValueOfValueId
  <2> QED
    BY <1>5, <2>6, <2>7 DEF compressed, dictionary, value
<1>6. CASE ~IsNull(segment, i) /\ value \notin Range(dictionary)
  <2>1. id = 0
    BY <1>6 DEF EncodedId, InvertedDictionary
  <2>2. \A k \in DOMAIN dictionary : dictionary[k] # value
    BY <1>6 DEF Range
  <2>3. NULL # value
    BY <1>2, DataTypesAssumption
  <2> HIDE DEF compressed, dictionary, id, value
  <2>4. GetTypedValue(compressed, i) # value
    <3>1. CASE Len(dictionary) = 0
      BY <1>1, <2>1, <2>3, <3>1 DEF GetTypedValue, NullValueId, NullValueIdOf
    <3>2. CASE Len(dictionary) # 0
      <4>1. 1 \in DOMAIN dictionary
        BY <1>2, <1>3, <3>2
      <4>2. GetTypedValue(compressed, i) = dictionary[1]
        BY <1>1, <2>1, <3>2 DEF GetTypedValue, NullValueId, NullValueIdOf, ValueOfValueId
      <4> QED
        BY <2>2, <4>1, <4>2
    <3> QED
      BY <3>1, <3>2
  <2> QED
    BY <1>6, <2>4 DEF compressed, dictionary, value
<1> QED
  BY <1>4, <1>5, <1>6

\* A row is read differently after compression exactly if it holds the least
\* value and some other row is NULL; that least value is at or below T{}.
LEMMA LostValues ==
    ASSUME NEW segment \in ValueSegments, Len(segment.values) <= NumericMax[3],
           NEW i \in DOMAIN segment.values
    PROVE  LET compressed == MakeDictionarySegment(segment)
               least == SortedValues(segment)[1]
           IN  /\ GetTypedValue(compressed, i) # GetTypedValue(segment, i) <=>
                     ContainsNull(segment) /\ ~IsNull(segment, i) /\ segment.values[i] = least
               /\ ContainsNull(segment) => least <= DefaultValue
<1> DEFINE compressed == MakeDictionarySegment(segment)
           sorted == SortedValues(segment)
           least == sorted[1]
           dictionary == FillDictionary(segment)
           value == segment.values[i]
           known == value \in Range(dictionary)
<1>1. /\ GetTypedValue(segment, i) = IF IsNull(segment, i) THEN NULL ELSE value
      /\ segment.values # <<>>
  BY DEF GetTypedValue, ValueSegments
<1>2. known \/ (ContainsNull(segment) /\ value = least)
  BY DictionaryHolds
<1>3. ContainsNull(segment) /\ value = least => ~known
  <2> SUFFICES ASSUME ContainsNull(segment), value = least, known
               PROVE  FALSE
    OBVIOUS
  <2>1. PICK k \in DOMAIN dictionary : dictionary[k] = value
    BY DEF Range
  <2>2. /\ sorted \in Seq(Values) /\ dictionary \in Seq(Values)
        /\ \A a, b \in DOMAIN sorted : a < b => sorted[a] < sorted[b]
    BY SortedValuesProperties, FillDictionaryProperties
  <2>3. /\ Len(sorted) > 0 /\ Len(dictionary) = Len(sorted) - 1
        /\ \A j \in 1 .. Len(dictionary) : dictionary[j] = sorted[j + 1]
    BY FillDictionaryProperties
  <2> HIDE DEF sorted, dictionary, value
  <2>4. /\ 1 \in DOMAIN sorted /\ k + 1 \in DOMAIN sorted /\ 1 < k + 1
        /\ dictionary[k] = sorted[k + 1]
    BY <2>2, <2>3
  <2>5. sorted[1] < sorted[k + 1]
    BY <2>2, <2>4
  <2>6. sorted[1] \in Values
    BY <2>2, <2>4
  <2>7. sorted[1] \in Int
    BY <2>6, DataTypesAssumption
  <2> QED
    BY <2>1, <2>4, <2>5, <2>7
<1>4. ContainsNull(segment) => least <= DefaultValue
  <2> SUFFICES ASSUME ContainsNull(segment) PROVE least <= DefaultValue
    OBVIOUS
  <2>1. PICK j \in DOMAIN segment.values : segment.nullable /\ segment.nulls[j]
    BY DEF ContainsNull, IsNull
  <2>2. segment.values[j] = DefaultValue
    BY <2>1 DEF ValueSegments, NullsHoldDefault
  <2> HIDE DEF least
  <2> QED
    BY <1>1, <2>2, FirstSortedIsLeast DEF least
<1>5. /\ IsNull(segment, i) => GetTypedValue(compressed, i) = NULL
      /\ ~IsNull(segment, i) /\ known => GetTypedValue(compressed, i) = value
      /\ ~IsNull(segment, i) /\ ~known => GetTypedValue(compressed, i) # value
  BY DictionaryReads
<1> HIDE DEF compressed, least, value, known
<1> QED
  BY <1>1, <1>2, <1>3, <1>4, <1>5 DEF compressed, least, value

-----------------------------------------------------------------------------
(* Scans *)

\* What a scan relies on: an ascending dictionary with fewer entries than
\* INVALID_VALUE_ID, and attributes that are its ValueIDs or null_value_id.
WellFormed(segment) ==
    LET dictionary == segment.dictionary
    IN  /\ dictionary \in Seq(Values)
        /\ Len(dictionary) <= INVALID_VALUE_ID
        /\ \A i, j \in DOMAIN dictionary : i < j => dictionary[i] < dictionary[j]
        /\ \A i \in DOMAIN segment.attributes : segment.attributes[i] \in 0 .. Len(dictionary)

LEMMA EncodedIdOfKnown ==
    ASSUME NEW segment \in ValueSegments, NEW i \in DOMAIN segment.values,
           ~IsNull(segment, i), segment.values[i] \in Range(FillDictionary(segment))
    PROVE  \E k \in DOMAIN FillDictionary(segment) :
              FillDictionary(segment)[k] = segment.values[i] /\ EncodedId(segment, i) = k - 1
<1> DEFINE dictionary == FillDictionary(segment)
           value == segment.values[i]
<1>1. \E k \in DOMAIN dictionary : dictionary[k] = value
  BY DEF Range
<1>2. EncodedId(segment, i) = (CHOOSE k \in DOMAIN dictionary : dictionary[k] = value) - 1
  BY DEF EncodedId, InvertedDictionary
<1> HIDE DEF dictionary, value
<1>3. \E k \in DOMAIN dictionary : dictionary[k] = value /\ EncodedId(segment, i) = k - 1
  BY <1>1, <1>2
<1> QED
  BY <1>3 DEF dictionary, value

LEMMA CompressedIsWellFormed ==
    ASSUME NEW segment \in ValueSegments, Len(segment.values) <= NumericMax[3]
    PROVE  WellFormed(MakeDictionarySegment(segment))
<1> DEFINE compressed == MakeDictionarySegment(segment)
           dictionary == FillDictionary(segment)
           sorted == SortedValues(segment)
<1>1. /\ compressed.dictionary = dictionary
      /\ DOMAIN compressed.attributes = DOMAIN segment.values
  BY DEF MakeDictionarySegment
<1>2. /\ dictionary \in Seq(Values)
      /\ \A i, j \in DOMAIN dictionary : i < j => dictionary[i] < dictionary[j]
      /\ ~ContainsNull(segment) => dictionary = sorted
      /\ ContainsNull(segment) => Len(sorted) > 0 /\ Len(dictionary) = Len(sorted) - 1
  BY FillDictionaryProperties
<1>3. \A i \in DOMAIN segment.values : compressed.attributes[i] \in 0 .. Len(dictionary)
  BY AttributesHoldIds, EncodedIdType
<1>4. sorted \in Seq(Values) /\ Len(sorted) <= Len(segment.values)
  BY SortedValuesProperties, DistinctCountBound
<1>5. Len(segment.values) \in Nat /\ NumericMax[3] \in Nat
  BY NumericMaxAssumption DEF ValueSegments
<1> HIDE DEF compressed, dictionary, sorted
<1>6. Len(dictionary) <= INVALID_VALUE_ID
  BY <1>2, <1>4, <1>5 DEF INVALID_VALUE_ID
<1> QED
  BY <1>1, <1>2, <1>3, <1>6 DEF WellFormed, compressed

\* Indices up to the first that fails: as many as the last of them says.
LEMMA PrefixCount ==
    ASSUME NEW n \in Nat, NEW S \in SUBSET (1 .. n),
           \A i \in S : \A j \in 1 .. i : j \in S
    PROVE  /\ Cardinality(S) \in 0 .. n
           /\ S = 1 .. Cardinality(S)
<1> DEFINE Ends == {m \in Nat : m + 1 \notin S}
<1>1. n \in Ends
  OBVIOUS
<1>2. PICK m \in Ends : \A k \in Ends : ~(<<k, m>> \in OpToRel(<, Nat))
  <2>1. Ends \subseteq Nat /\ Ends # {}
    BY <1>1
  <2> HIDE DEF Ends
  <2> QED
    BY <2>1, NatLessThanWellFounded, WFMin
<1>3. m \in Nat /\ m + 1 \notin S
  OBVIOUS
<1>4. \A k \in Ends : ~(k < m)
  BY <1>2 DEF OpToRel
<1>5. ASSUME NEW j \in 1 .. m PROVE j \in S
  <2>1. j - 1 \in Nat /\ j - 1 < m /\ (j - 1) + 1 = j
    BY <1>3
  <2> QED
    BY <1>4, <2>1
<1>6. ASSUME NEW j \in S PROVE j \in 1 .. m
  <2>1. j \in 1 .. n
    OBVIOUS
  <2>2. m + 1 \notin 1 .. j
    BY <1>3
  <2> QED
    BY <1>3, <2>1, <2>2
<1>7. S = 1 .. m
  BY <1>5, <1>6
<1>8. Cardinality(1 .. m) = m
  BY <1>3, FS_Interval
<1>9. m <= n
  BY <1>3, <1>5
<1> QED
  BY <1>3, <1>7, <1>8, <1>9

\* std::lower_bound and std::upper_bound split the dictionary at the value.
LEMMA BoundProperties ==
    ASSUME NEW segment, WellFormed(segment), NEW value \in Values
    PROVE  LET dictionary == segment.dictionary
               n == Len(dictionary)
           IN  \E l, u \in 0 .. n :
                  /\ l <= u /\ u <= l + 1
                  /\ \A k \in 1 .. n : dictionary[k] < value <=> k <= l
                  /\ \A k \in 1 .. n : dictionary[k] <= value <=> k <= u
                  /\ LowerBound(segment, value) = IF l = n THEN INVALID_VALUE_ID ELSE l
                  /\ UpperBound(segment, value) = IF u = n THEN INVALID_VALUE_ID ELSE u
<1> DEFINE dictionary == segment.dictionary
           n == Len(dictionary)
           less == {k \in DOMAIN dictionary : dictionary[k] < value}
           atMost == {k \in DOMAIN dictionary : dictionary[k] <= value}
           l == Cardinality(less)
           u == Cardinality(atMost)
<1>1. /\ n \in Nat /\ DOMAIN dictionary = 1 .. n /\ value \in Int
      /\ \A k \in 1 .. n : dictionary[k] \in Int
      /\ \A i, j \in 1 .. n : i < j => dictionary[i] < dictionary[j]
  <2>1. dictionary \in Seq(Values) /\ Values \subseteq Int
    BY DataTypesAssumption DEF WellFormed
  <2>2. \A i, j \in DOMAIN dictionary : i < j => dictionary[i] < dictionary[j]
    BY DEF WellFormed
  <2> HIDE DEF dictionary
  <2>3. n \in Nat /\ DOMAIN dictionary = 1 .. n
    BY <2>1
  <2>4. \A k \in 1 .. n : dictionary[k] \in Values
    BY <2>1
  <2>5. \A k \in 1 .. n : dictionary[k] \in Int
    BY <2>1, <2>4
  <2>6. value \in Int
    BY <2>1
  <2> QED
    BY <2>2, <2>3, <2>5, <2>6
<1>2. /\ LowerBound(segment, value) = IF l = n THEN INVALID_VALUE_ID ELSE l
      /\ UpperBound(segment, value) = IF u = n THEN INVALID_VALUE_ID ELSE u
  BY DEF LowerBound, UpperBound
<1> HIDE DEF dictionary, n
<1>3. l \in 0 .. n /\ less = 1 .. l
  <2>1. less \in SUBSET (1 .. n) /\ \A i \in less : \A j \in 1 .. i : j \in less
    BY <1>1
  <2> HIDE DEF less
  <2> QED
    BY <1>1, <2>1, PrefixCount
<1>4. u \in 0 .. n /\ atMost = 1 .. u
  <2>1. atMost \in SUBSET (1 .. n) /\ \A i \in atMost : \A j \in 1 .. i : j \in atMost
    BY <1>1
  <2> HIDE DEF atMost
  <2> QED
    BY <1>1, <2>1, PrefixCount
<1>5. /\ \A k \in 1 .. n : dictionary[k] < value <=> k \in less
      /\ \A k \in 1 .. n : dictionary[k] <= value <=> k \in atMost
  BY <1>1
<1> HIDE DEF less, atMost, l, u
<1>6. /\ \A k \in 1 .. n : dictionary[k] < value <=> k <= l
      /\ \A k \in 1 .. n : dictionary[k] <= value <=> k <= u
  BY <1>3, <1>4, <1>5
<1>7. l <= u
  BY <1>1, <1>3, <1>4, <1>6
<1>8. u <= l + 1
  <2> SUFFICES ASSUME l + 2 <= u PROVE FALSE
    BY <1>3, <1>4
  <2>1. l + 1 \in 1 .. n /\ l + 2 \in 1 .. n
    BY <1>1, <1>3, <1>4
  <2>2. dictionary[l + 1] < dictionary[l + 2]
    BY <1>1, <1>3, <2>1
  <2>3. ~(dictionary[l + 1] < value) /\ dictionary[l + 2] <= value
    BY <1>3, <1>4, <1>6, <2>1
  <2> QED
    BY <1>1, <2>1, <2>2, <2>3
<1> QED
  BY <1>2, <1>3, <1>4, <1>6, <1>7, <1>8 DEF dictionary, n

\* The operation on ValueIDs is the operation on the values.
LEMMA DictScanAgrees ==
    ASSUME NEW segment, WellFormed(segment), NEW value \in Values, NEW op \in ScanType,
           NEW id \in Nat, id < Len(segment.dictionary)
    PROVE  DictScanOperation(op, id, LowerBound(segment, value), UpperBound(segment, value))
              <=> ScanOperation(op, ValueOfValueId(segment, id), value)
<1> DEFINE dictionary == segment.dictionary
           n == Len(dictionary)
           lower == LowerBound(segment, value)
           upper == UpperBound(segment, value)
           held == dictionary[id + 1]
<1>1. PICK l, u \in 0 .. n :
        /\ l <= u /\ u <= l + 1
        /\ \A k \in 1 .. n : dictionary[k] < value <=> k <= l
        /\ \A k \in 1 .. n : dictionary[k] <= value <=> k <= u
        /\ lower = IF l = n THEN INVALID_VALUE_ID ELSE l
        /\ upper = IF u = n THEN INVALID_VALUE_ID ELSE u
  BY BoundProperties
<1>2. /\ n \in Nat /\ n <= INVALID_VALUE_ID /\ INVALID_VALUE_ID \in Nat
      /\ dictionary \in Seq(Values)
  BY NumericMaxAssumption DEF WellFormed, INVALID_VALUE_ID
<1>3. id + 1 \in 1 .. n /\ held \in Int /\ value \in Int
  <2>1. id + 1 \in 1 .. n
    BY <1>2
  <2>2. held \in Values
    BY <1>2, <2>1
  <2> QED
    BY <2>1, <2>2, DataTypesAssumption
<1>4. (held < value <=> id < l) /\ (held <= value <=> id < u)
  <2>1. (held < value <=> id + 1 <= l) /\ (held <= value <=> id + 1 <= u)
    BY <1>1, <1>3
  <2> HIDE DEF held, n
  <2> QED
    BY <1>1, <2>1
<1>5. ValueOfValueId(segment, id) = held
  BY DEF ValueOfValueId
<1> HIDE DEF dictionary, n, lower, upper, held
<1>6. /\ lower \in Nat /\ upper \in Nat
      /\ id < lower <=> id < l
      /\ id < upper <=> id < u
      /\ lower # upper <=> l # u
      /\ l # u => (id = lower <=> id = l)
  BY <1>1, <1>2, <1>3
<1>7. DictScanOperation(op, id, lower, upper) <=> ScanOperation(op, held, value)
  <2>1. CASE op = "OpEquals"
    BY <1>1, <1>3, <1>4, <1>6, <2>1 DEF DictScanOperation, ScanOperation
  <2>2. CASE op = "OpNotEquals"
    BY <1>1, <1>3, <1>4, <1>6, <2>2 DEF DictScanOperation, ScanOperation
  <2>3. CASE op = "OpLessThan"
    BY <1>1, <1>3, <1>4, <1>6, <2>3 DEF DictScanOperation, ScanOperation
  <2>4. CASE op = "OpLessThanEquals"
    BY <1>1, <1>3, <1>4, <1>6, <2>4 DEF DictScanOperation, ScanOperation
  <2>5. CASE op = "OpGreaterThan"
    BY <1>1, <1>3, <1>4, <1>6, <2>5 DEF DictScanOperation, ScanOperation
  <2>6. CASE op = "OpGreaterThanEquals"
    BY <1>1, <1>3, <1>4, <1>6, <2>6 DEF DictScanOperation, ScanOperation
  <2> QED
    BY <2>1, <2>2, <2>3, <2>4, <2>5, <2>6 DEF ScanType
<1> QED
  BY <1>5, <1>7 DEF lower, upper

\* The rows a scan has to find: those that are not NULL and compare.
Matches(segment, op, value) ==
    {i \in 1 .. SegmentSize(segment) :
        /\ GetTypedValue(segment, i) # NULL
        /\ ScanOperation(op, GetTypedValue(segment, i), value)}

LEMMA ScanDictIsExact ==
    ASSUME NEW segment \in DictionarySegments, WellFormed(segment),
           NEW op \in ScanType, NEW value \in Values
    PROVE  ScanSegment(segment, op, value) = Matches(segment, op, value)
<1>1. /\ segment.kind = "dictionary" /\ SegmentSize(segment) = Len(segment.attributes)
      /\ DOMAIN segment.attributes = 1 .. Len(segment.attributes)
      /\ Len(segment.dictionary) \in Nat
  BY DEF DictionarySegments, SegmentSize
<1>2. ASSUME NEW i \in DOMAIN segment.attributes
      PROVE  (/\ segment.attributes[i] # NullValueId(segment)
              /\ DictScanOperation(op, segment.attributes[i],
                                   LowerBound(segment, value), UpperBound(segment, value)))
             <=> (/\ GetTypedValue(segment, i) # NULL
                  /\ ScanOperation(op, GetTypedValue(segment, i), value))
  <2>1. segment.attributes[i] \in 0 .. Len(segment.dictionary)
    BY DEF WellFormed
  <2>2. CASE segment.attributes[i] = NullValueId(segment)
    BY <1>1, <2>2 DEF GetTypedValue
  <2>3. CASE segment.attributes[i] # NullValueId(segment)
    <3> DEFINE id == segment.attributes[i]
    <3>1. id \in Nat /\ id < Len(segment.dictionary)
      BY <1>1, <2>1, <2>3 DEF NullValueId, NullValueIdOf
    <3>2. GetTypedValue(segment, i) = ValueOfValueId(segment, id)
      BY <1>1, <2>3 DEF GetTypedValue
    <3>3. ValueOfValueId(segment, id) # NULL
      <4>1. segment.dictionary \in Seq(Values) /\ id + 1 \in 1 .. Len(segment.dictionary)
        BY <1>1, <3>1 DEF WellFormed
      <4>2. segment.dictionary[id + 1] \in Values
        BY <4>1
      <4> QED
        BY <4>2, DataTypesAssumption DEF ValueOfValueId
    <3>4. DictScanOperation(op, id, LowerBound(segment, value), UpperBound(segment, value))
            <=> ScanOperation(op, ValueOfValueId(segment, id), value)
      BY <3>1, DictScanAgrees
    <3> QED
      BY <2>3, <3>2, <3>3, <3>4
  <2> QED
    BY <2>2, <2>3
<1>3. ScanSegment(segment, op, value) = ScanDictSegment(segment, op, value)
  BY <1>1 DEF ScanSegment
<1> QED
  BY <1>1, <1>2, <1>3 DEF ScanDictSegment, Matches

LEMMA ScanValueIsExact ==
    ASSUME NEW segment \in ValueSegments, NEW op, NEW value
    PROVE  ScanSegment(segment, op, value) = Matches(segment, op, value)
<1>1. /\ segment.kind = "value" /\ SegmentSize(segment) = Len(segment.values)
      /\ DOMAIN segment.values = 1 .. Len(segment.values)
      /\ \A i \in DOMAIN segment.values : segment.values[i] \in Values
  BY DEF ValueSegments, SegmentSize
<1>2. \A i \in DOMAIN segment.values :
        /\ segment.values[i] # NULL
        /\ GetTypedValue(segment, i) = IF IsNull(segment, i) THEN NULL ELSE segment.values[i]
  BY <1>1, DataTypesAssumption DEF GetTypedValue
<1> QED
  BY <1>1, <1>2 DEF ScanSegment, ScanValueSegment, Matches
=============================================================================
