------------------------------ MODULE Segments -------------------------------
(***************************************************************************)
(* ValueSegment, DictionarySegment and the FixedWidthIntegerVector inside  *)
(* the latter, as records and operators on them.  Positions in a segment   *)
(* (ChunkOffset) are 1-based here; ValueIDs are 0-based as in the code, so *)
(* ValueID k is entry k + 1 of the dictionary.                             *)
(***************************************************************************)
EXTENDS DataTypes, Sequences, Functions

CONSTANTS
    NumericMax,         \* numeric_limits::max of u_int8_t, u_int16_t, u_int32_t
    SortedDistinct(_)   \* std::sort followed by std::unique and erase

\* The contract of std::sort and std::unique, on the values of one segment.
ASSUME SortedDistinctAssumption ==
    \A S \in SUBSET Values :
        /\ SortedDistinct(S) \in Seq(S)
        /\ Range(SortedDistinct(S)) = S
        /\ \A i, j \in DOMAIN SortedDistinct(S) :
               i < j => SortedDistinct(S)[i] < SortedDistinct(S)[j]

ASSUME NumericMaxAssumption ==
    /\ NumericMax \in [1 .. 3 -> Nat]
    /\ NumericMax[1] < NumericMax[2]
    /\ NumericMax[2] < NumericMax[3]

-----------------------------------------------------------------------------
(* ValueSegment *)

NewValueSegment(type, nullable) ==
    [kind |-> "value", type |-> type, nullable |-> nullable,
     values |-> <<>>, nulls |-> <<>>]

\* ValueSegment::append does not throw.
Accepts(segment, variant) ==
    IF variant = NULL THEN segment.nullable
                      ELSE TypeCast[segment.type, variant] # CastError

\* The cell that an accepted variant becomes.
CellOf(type, variant) ==
    IF variant = NULL THEN NULL ELSE TypeCast[type, variant]

\* Mutant: a flag is pushed for NULLs only.
SegmentAppend_FlagsNullsOnly(segment, variant) ==
    LET cell == CellOf(segment.type, variant)
    IN  [segment EXCEPT
            !.values = Append(@, IF cell = NULL THEN DefaultValue ELSE cell),
            !.nulls  = IF cell = NULL THEN Append(@, TRUE) ELSE @]

\* A NULL is stored as T{} with its flag set; only a nullable segment has flags.
SegmentAppend(segment, variant) ==
    LET cell == CellOf(segment.type, variant)
    IN  [segment EXCEPT
            !.values = Append(@, IF cell = NULL THEN DefaultValue ELSE cell),
            !.nulls  = IF segment.nullable THEN Append(@, cell = NULL) ELSE @]

IsNull(segment, i) == segment.nullable /\ segment.nulls[i]

ContainsNull(segment) == \E i \in DOMAIN segment.values : IsNull(segment, i)

-----------------------------------------------------------------------------
(* FixedWidthIntegerVector: an entry keeps the low bits of the ValueID. *)

StoredId(width, id) == id % (NumericMax[width] + 1)

\* Mutant: the first comparison is off by one.
AttributeVectorWidth_OffByOne(distinct) ==
    IF distinct = 0 \/ distinct - 2 <= NumericMax[1] THEN 1
    ELSE IF distinct - 1 <= NumericMax[2] THEN 2 ELSE 3

\* The fourth branch of the code throws; it needs more than 2^32 distinct
\* values in a chunk, whose offsets are 32 bits wide.
AttributeVectorWidth(distinct) ==
    IF distinct = 0 \/ distinct - 1 <= NumericMax[1] THEN 1
    ELSE IF distinct - 1 <= NumericMax[2] THEN 2 ELSE 3

-----------------------------------------------------------------------------
(* DictionarySegment *)

INVALID_VALUE_ID == NumericMax[3]

\* Mutant: neither sorted nor made unique.
SortedValues_AsStored(segment) == segment.values

SortedValues(segment) == SortedDistinct(Range(segment.values))

\* fill_dictionary drops the first entry when some row is NULL, taking it to
\* be the T{} stored for the NULLs.
FillDictionary(segment) ==
    IF ContainsNull(segment) THEN Tail(SortedValues(segment))
                             ELSE SortedValues(segment)

\* inverted_dictionary[value]: operator[] of the unordered_map inserts
\* ValueID 0 for a value that is not in the dictionary.
InvertedDictionary(dictionary, value) ==
    IF value \in Range(dictionary)
    THEN (CHOOSE k \in DOMAIN dictionary : dictionary[k] = value) - 1
    ELSE 0

\* null_value_id() of a segment with this dictionary.
NullValueIdOf(dictionary) == Len(dictionary)

\* Mutant: the null flag is not looked at.
EncodedId_IgnoresNull(segment, i) ==
    InvertedDictionary(FillDictionary(segment), segment.values[i])

\* The ValueID that fill_attributes_vector computes for row i.
EncodedId(segment, i) ==
    LET dictionary == FillDictionary(segment)
    IN  IF IsNull(segment, i)
        THEN NullValueIdOf(dictionary)
        ELSE InvertedDictionary(dictionary, segment.values[i])

\* The constructor: dictionary, width of the attribute vector, its entries.
MakeDictionarySegment(segment) ==
    LET width == AttributeVectorWidth(Len(SortedValues(segment)))
    IN  [kind |-> "dictionary", type |-> segment.type,
         dictionary |-> FillDictionary(segment), width |-> width,
         attributes |-> [i \in DOMAIN segment.values |->
                            StoredId(width, EncodedId(segment, i))]]

\* Mutant: null_value_id cast to the type of the attribute vector.
NullValueId_Narrowed(segment) ==
    StoredId(segment.width, NullValueIdOf(segment.dictionary))

NullValueId(segment) == NullValueIdOf(segment.dictionary)

\* value_of_value_id and decompress for an id inside the dictionary.
ValueOfValueId(segment, id) == segment.dictionary[id + 1]

\* std::lower_bound and std::upper_bound on the sorted dictionary: the number
\* of entries before the bound, or INVALID_VALUE_ID when it is the end.
LowerBound(segment, value) ==
    LET n == Cardinality({k \in DOMAIN segment.dictionary : segment.dictionary[k] < value})
    IN  IF n = Len(segment.dictionary) THEN INVALID_VALUE_ID ELSE n

UpperBound(segment, value) ==
    LET n == Cardinality({k \in DOMAIN segment.dictionary : segment.dictionary[k] <= value})
    IN  IF n = Len(segment.dictionary) THEN INVALID_VALUE_ID ELSE n

-----------------------------------------------------------------------------
(* Reading either kind of segment *)

SegmentSize(segment) ==
    IF segment.kind = "value" THEN Len(segment.values) ELSE Len(segment.attributes)

\* get_typed_value: NULL stands for std::nullopt.
GetTypedValue(segment, i) ==
    IF segment.kind = "value"
    THEN IF IsNull(segment, i) THEN NULL ELSE segment.values[i]
    ELSE IF segment.attributes[i] = NullValueId(segment) THEN NULL
         ELSE ValueOfValueId(segment, segment.attributes[i])

\* operator[]: the cells it may return.  For a dictionary segment it is
\* decompress, which does not look for null_value_id and then reads behind
\* the last entry of the dictionary: undefined, so any value.
ElementAt(segment, i) ==
    IF segment.kind = "dictionary" /\ segment.attributes[i] = NullValueId(segment)
    THEN Values
    ELSE {GetTypedValue(segment, i)}

NullsHoldDefault(segment) ==
    \A i \in DOMAIN segment.nulls : segment.nulls[i] => segment.values[i] = DefaultValue

\* A nullable segment has a flag for each value; a NULL is stored as T{}.
ValueSegments ==
    {s \in [kind : {"value"}, type : DataType, nullable : BOOLEAN,
            values : Seq(Values), nulls : Seq(BOOLEAN)] :
        /\ Len(s.nulls) = IF s.nullable THEN Len(s.values) ELSE 0
        /\ NullsHoldDefault(s)}

DictionarySegments ==
    [kind : {"dictionary"}, type : DataType, dictionary : Seq(Values),
     width : 1 .. 3, attributes : Seq(Nat)]
=============================================================================
