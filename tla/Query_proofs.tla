---------------------------- MODULE Query_proofs -----------------------------
(***************************************************************************)
(* What is true of a table and the output of scans over it, for every      *)
(* schema, target size, build, set of values and bound.                    *)
(***************************************************************************)
EXTENDS Query, Table_proofs

-----------------------------------------------------------------------------
(* Sequences *)

LEMMA FunctionIsSeq ==
    ASSUME NEW F, NEW n \in Nat, NEW f \in [1 .. n -> F]
    PROVE  f \in Seq(F) /\ Len(f) = n
OBVIOUS

\* A set that holds <<>> and is closed under Append holds every sequence.
LEMMA SeqInduction ==
    ASSUME NEW E, NEW T, <<>> \in T,
           \A u \in Seq(E), e \in E : u \in T => Append(u, e) \in T
    PROVE  Seq(E) \subseteq T
<1> SUFFICES ASSUME NEW s \in Seq(E) PROVE s \in T
  OBVIOUS
<1> DEFINE Prefix(n) == [i \in 1 .. n |-> s[i]]
           U == {n \in 0 .. Len(s) : Prefix(n) \in T}
<1>1. Len(s) \in Nat /\ s = Prefix(Len(s)) /\ \A i \in 1 .. Len(s) : s[i] \in E
  BY LenProperties
<1>2. 0 \in U
  <2>1. Prefix(0) = <<>>
    OBVIOUS
  <2> QED
    BY <1>1, <2>1
<1>3. ASSUME NEW n \in 0 + 1 .. Len(s), n - 1 \in U
      PROVE  n \in U
  <2>1. n \in 1 .. Len(s) /\ n - 1 \in Nat /\ Prefix(n - 1) \in T
    BY <1>1, <1>3
  <2>2. Prefix(n - 1) \in Seq(E) /\ Len(Prefix(n - 1)) = n - 1
    BY <1>1, <2>1
  <2>3. Append(Prefix(n - 1), s[n]) = Prefix(n)
    <3>1. Append(Prefix(n - 1), s[n]) =
            [i \in 1 .. (n - 1) + 1 |-> IF i = (n - 1) + 1 THEN s[n] ELSE Prefix(n - 1)[i]]
      BY <2>2, AppendAsFunction
    <3> QED
      BY <2>1, <3>1
  <2> HIDE DEF Prefix
  <2>4. Prefix(n) \in T
    BY <1>1, <2>1, <2>2, <2>3
  <2> QED
    BY <1>1, <2>1, <2>4
<1> HIDE DEF U, Prefix
<1>4. 0 .. Len(s) \subseteq U
  BY <1>1, <1>2, <1>3, SetInduction
<1> QED
  BY <1>1, <1>4 DEF U

LEMMA RangeOfAppend ==
    ASSUME NEW E, NEW s \in Seq(E), NEW e
    PROVE  Range(Append(s, e)) = Range(s) \cup {e}
<1> DEFINE n == Len(s)
<1>1. Append(s, e) = [k \in 1 .. n + 1 |-> IF k = n + 1 THEN e ELSE s[k]]
  BY AppendAsFunction
<1>2. n \in Nat /\ DOMAIN s = 1 .. n
  BY LenProperties
<1> HIDE DEF n
<1>3. n + 1 \in 1 .. n + 1 /\ \A k \in 1 .. n + 1 : k = n + 1 \/ k \in 1 .. n
  BY <1>2
<1>4. \A k \in 1 .. n : k \in 1 .. n + 1 /\ k # n + 1
  BY <1>2
<1> QED
  BY <1>1, <1>2, <1>3, <1>4 DEF Range

\* The pieces that Selected strings together.
Pieces(s, S) == [n \in DOMAIN s |-> IF s[n] \in S THEN <<s[n]>> ELSE <<>>]

LEMMA SelectedType ==
    ASSUME NEW E, NEW s \in Seq(E), NEW S
    PROVE  /\ Selected(s, S) \in Seq(E \cap S)
           /\ Selected(s, S) \in Seq(E)
           /\ Pieces(s, S) \in Seq(Seq(E))
<1>1. Pieces(s, S) \in Seq(Seq(E \cap S))
  <2>1. \A n \in 1 .. Len(s) : s[n] \in S => <<s[n]>> \in Seq(E \cap S)
    OBVIOUS
  <2>2. <<>> \in Seq(E \cap S) /\ DOMAIN s = 1 .. Len(s)
    OBVIOUS
  <2>3. Pieces(s, S) \in [1 .. Len(s) -> Seq(E \cap S)]
    <3> DEFINE F == Seq(E \cap S)
    <3>1. \A n \in 1 .. Len(s) : (IF s[n] \in S THEN <<s[n]>> ELSE <<>>) \in F
      BY <2>1, <2>2
    <3> HIDE DEF F
    <3>2. Pieces(s, S) \in [1 .. Len(s) -> F]
      BY <2>2, <3>1, Zenon DEF Pieces
    <3> QED
      BY <3>2 DEF F
  <2> QED
    BY <2>3
<1>2. Selected(s, S) \in Seq(E \cap S)
  BY <1>1, FlattenSnoc, EmptySeq DEF Selected, Pieces
<1>3. Seq(E \cap S) \subseteq Seq(E)
  BY SeqMonotonic
<1>4. Pieces(s, S) \in Seq(Seq(E))
  BY <1>1, <1>3, SeqMonotonic
<1> QED
  BY <1>2, <1>3, <1>4

LEMMA SelectedSnoc ==
    ASSUME NEW E, NEW s \in Seq(E), NEW e \in E, NEW S
    PROVE  /\ Selected(<<>>, S) = <<>>
           /\ Selected(Append(s, e), S) =
                  IF e \in S THEN Append(Selected(s, S), e) ELSE Selected(s, S)
<1> DEFINE piece == IF e \in S THEN <<e>> ELSE <<>>
           n == Len(s)
<1>1. Append(s, e) = [k \in 1 .. n + 1 |-> IF k = n + 1 THEN e ELSE s[k]]
  BY AppendAsFunction
<1>2. Pieces(s, S) \in Seq(Seq(E)) /\ Len(Pieces(s, S)) = n
  <2>1. DOMAIN Pieces(s, S) = 1 .. n
    BY DEF Pieces
  <2>2. Pieces(s, S) \in Seq(Seq(E)) /\ n \in Nat
    BY SelectedType, LenProperties
  <2> QED
    BY <2>1, <2>2, LenProperties
<1>3. Append(Pieces(s, S), piece) =
        [k \in 1 .. n + 1 |-> IF k = n + 1 THEN piece ELSE Pieces(s, S)[k]]
  BY <1>2, AppendAsFunction
<1>4. Pieces(Append(s, e), S) = Append(Pieces(s, S), piece)
  <2>1. DOMAIN Append(s, e) = 1 .. n + 1 /\ DOMAIN s = 1 .. n
    BY <1>1
  <2>2. \A k \in 1 .. n + 1 :
          (IF Append(s, e)[k] \in S THEN <<Append(s, e)[k]>> ELSE <<>>) =
          (IF k = n + 1 THEN piece ELSE Pieces(s, S)[k])
    <3> SUFFICES ASSUME NEW k \in 1 .. n + 1
                 PROVE  (IF Append(s, e)[k] \in S THEN <<Append(s, e)[k]>> ELSE <<>>) =
                        (IF k = n + 1 THEN piece ELSE Pieces(s, S)[k])
      OBVIOUS
    <3>1. CASE k = n + 1
      BY <1>1, <3>1
    <3>2. CASE k # n + 1
      <4>1. k \in DOMAIN s /\ Append(s, e)[k] = s[k]
        BY <1>1, <2>1, <3>2
      <4> QED
        BY <3>2, <4>1 DEF Pieces
    <3> QED
      BY <3>1, <3>2
  <2>3. Pieces(Append(s, e), S) = [k \in 1 .. n + 1 |->
            IF Append(s, e)[k] \in S THEN <<Append(s, e)[k]>> ELSE <<>>]
    BY <2>1 DEF Pieces
  <2> HIDE DEF piece, n
  <2> QED
    BY <1>3, <2>2, <2>3
<1>5. piece \in Seq(E)
  OBVIOUS
<1>6. Selected(Append(s, e), S) = Selected(s, S) \o piece
  <2> HIDE DEF piece
  <2>1. FlattenSeq(Append(Pieces(s, S), piece)) = FlattenSeq(Pieces(s, S)) \o piece
    BY <1>2, <1>5, FlattenSnoc
  <2> QED
    BY <1>4, <2>1 DEF Selected, Pieces
<1>7. Selected(s, S) \in Seq(E)
  BY SelectedType
<1>8. Selected(<<>>, S) = <<>>
  BY DEF Selected, FlattenSeq
<1> HIDE DEF piece
<1>9. e \in S => Selected(s, S) \o <<e>> = Append(Selected(s, S), e)
  BY <1>7, AppendIsConcat
<1>10. Selected(s, S) \o <<>> = Selected(s, S)
  BY <1>7, ConcatEmptySeq
<1> QED
  BY <1>6, <1>8, <1>9, <1>10 DEF piece
\* Dropping elements from a concatenation is dropping them from its parts.
LEMMA SelectedConcat ==
    ASSUME NEW E, NEW s \in Seq(E), NEW t \in Seq(E), NEW S
    PROVE  Selected(s \o t, S) = Selected(s, S) \o Selected(t, S)
<1> DEFINE T == {u \in Seq(E) : Selected(s \o u, S) = Selected(s, S) \o Selected(u, S)}
<1>1. <<>> \in T
  <2>1. <<>> \in Seq(E) /\ Selected(s, S) \in Seq(E)
    BY EmptySeq, SelectedType
  <2>2. s \o <<>> = s /\ Selected(s, S) \o <<>> = Selected(s, S)
    BY <2>1, ConcatEmptySeq
  <2>3. Selected(<<>>, S) = <<>>
    BY DEF Selected, FlattenSeq
  <2> QED
    BY <2>1, <2>2, <2>3
<1>2. ASSUME NEW u \in Seq(E), NEW e \in E, u \in T
      PROVE  Append(u, e) \in T
  <2>1. /\ Append(u, e) \in Seq(E) /\ s \o u \in Seq(E)
        /\ s \o Append(u, e) = Append(s \o u, e)
    <3>1. <<e>> \in Seq(E) /\ Append(u, e) = u \o <<e>> /\ s \o u \in Seq(E)
      BY AppendIsConcat, ConcatProperties
    <3>2. Append(s \o u, e) = (s \o u) \o <<e>>
      BY <3>1, AppendIsConcat
    <3>3. (s \o u) \o <<e>> = s \o (u \o <<e>>)
      BY <3>1, ConcatAssociative
    <3> QED
      BY <3>1, <3>2, <3>3, AppendProperties
  <2>2. /\ Selected(s, S) \in Seq(E) /\ Selected(u, S) \in Seq(E)
        /\ Selected(s \o u, S) = Selected(s, S) \o Selected(u, S)
    BY <1>2, SelectedType
  <2>3. Selected(s \o Append(u, e), S) =
          IF e \in S THEN Append(Selected(s \o u, S), e) ELSE Selected(s \o u, S)
    <3>1. Selected(Append(s \o u, e), S) =
            IF e \in S THEN Append(Selected(s \o u, S), e) ELSE Selected(s \o u, S)
      BY <2>1, SelectedSnoc
    <3> QED
      BY <2>1, <3>1, Zenon
  <2>4. Selected(Append(u, e), S) =
          IF e \in S THEN Append(Selected(u, S), e) ELSE Selected(u, S)
    BY SelectedSnoc
  <2>5. Append(Selected(s, S) \o Selected(u, S), e) = Selected(s, S) \o Append(Selected(u, S), e)
    <3> DEFINE a == Selected(s, S)
               b == Selected(u, S)
    <3> HIDE DEF a, b
    <3>1. /\ a \in Seq(E) /\ b \in Seq(E) /\ <<e>> \in Seq(E) /\ a \o b \in Seq(E)
          /\ Append(b, e) = b \o <<e>>
      BY <2>2, AppendIsConcat, ConcatProperties DEF a, b
    <3>2. Append(a \o b, e) = (a \o b) \o <<e>>
      BY <3>1, AppendIsConcat
    <3>3. (a \o b) \o <<e>> = a \o (b \o <<e>>)
      <4>1. a \in Seq(E) /\ b \in Seq(E) /\ <<e>> \in Seq(E)
        BY <3>1
      <4> QED
        BY <4>1, ConcatAssociative
    <3>4. Append(a \o b, e) = a \o Append(b, e)
      BY <3>1, <3>2, <3>3, Zenon
    <3> QED
      BY <3>4 DEF a, b
  <2> QED
    BY <2>1, <2>2, <2>3, <2>4, <2>5
<1> HIDE DEF T
<1>3. Seq(E) \subseteq T
  BY <1>1, <1>2, SeqInduction
<1> QED
  BY <1>3 DEF T

LEMMA SelectedRange ==
    ASSUME NEW E, NEW s \in Seq(E), NEW S
    PROVE  Range(Selected(s, S)) = Range(s) \cap S
<1> DEFINE T == {u \in Seq(E) : Range(Selected(u, S)) = Range(u) \cap S}
<1>1. <<>> \in T
  BY EmptySeq DEF Selected, FlattenSeq, Range
<1>2. ASSUME NEW u \in Seq(E), NEW e \in E, u \in T
      PROVE  Append(u, e) \in T
  <2>1. Selected(u, S) \in Seq(E) /\ Append(u, e) \in Seq(E)
    BY SelectedType, AppendProperties
  <2>2. \A v \in Seq(E) : Range(Append(v, e)) = Range(v) \cup {e}
    BY RangeOfAppend
  <2>3. Selected(Append(u, e), S) =
          IF e \in S THEN Append(Selected(u, S), e) ELSE Selected(u, S)
    BY SelectedSnoc
  <2>4. Range(Selected(u, S)) = Range(u) \cap S
    BY <1>2
  <2>5. Range(Selected(Append(u, e), S)) =
          IF e \in S THEN Range(Selected(u, S)) \cup {e} ELSE Range(Selected(u, S))
    BY <2>1, <2>2, <2>3
  <2>6. Range(Append(u, e)) = Range(u) \cup {e}
    BY <2>2
  <2>7. Range(Selected(Append(u, e), S)) = Range(Append(u, e)) \cap S
    BY <2>4, <2>5, <2>6
  <2> QED
    BY <2>1, <2>7
<1> HIDE DEF T
<1>3. Seq(E) \subseteq T
  BY <1>1, <1>2, SeqInduction
<1> QED
  BY <1>3 DEF T

\* Sets that agree on the elements of a sequence select the same.
LEMMA SelectedAgrees ==
    ASSUME NEW E, NEW s \in Seq(E), NEW S, NEW U,
           \A x \in Range(s) : x \in S <=> x \in U
    PROVE  Selected(s, S) = Selected(s, U)
<1>1. \A n \in DOMAIN s : s[n] \in S <=> s[n] \in U
  BY DEF Range
<1>2. Pieces(s, S) = Pieces(s, U)
  BY <1>1 DEF Pieces
<1> QED
  BY <1>2 DEF Selected, Pieces
\* The elements of a concatenation are those of its parts.
LEMMA FlattenRange ==
    ASSUME NEW E, NEW ss \in Seq(Seq(E))
    PROVE  Range(FlattenSeq(ss)) = UNION {Range(ss[k]) : k \in DOMAIN ss}
<1> DEFINE Parts(v) == UNION {Range(v[k]) : k \in DOMAIN v}
           T == {v \in Seq(Seq(E)) : Range(FlattenSeq(v)) = Parts(v)}
<1>1. <<>> \in T
  BY EmptySeq DEF FlattenSeq, Range
<1>2. ASSUME NEW v \in Seq(Seq(E)), NEW s \in Seq(E), v \in T
      PROVE  Append(v, s) \in T
  <2>1. /\ Append(v, s) \in Seq(Seq(E)) /\ FlattenSeq(v) \in Seq(E)
        /\ FlattenSeq(Append(v, s)) = FlattenSeq(v) \o s
    BY FlattenSnoc, AppendProperties
  <2>2. Range(FlattenSeq(Append(v, s))) = Range(FlattenSeq(v)) \cup Range(s)
    BY <2>1, RangeConcatenation
  <2>3. /\ DOMAIN v = 1 .. Len(v) /\ Len(v) \in Nat
        /\ DOMAIN Append(v, s) = 1 .. Len(v) + 1
        /\ Append(v, s)[Len(v) + 1] = s
        /\ \A k \in 1 .. Len(v) : Append(v, s)[k] = v[k]
    BY <2>1, LenProperties, AppendProperties
  <2>4. /\ \A k \in DOMAIN Append(v, s) : k \in DOMAIN v \/ k = Len(v) + 1
        /\ \A k \in DOMAIN v : k \in DOMAIN Append(v, s)
        /\ Len(v) + 1 \in DOMAIN Append(v, s)
    BY <2>3
  <2>5. Parts(Append(v, s)) = Parts(v) \cup Range(s)
    BY <2>3, <2>4
  <2> QED
    BY <1>2, <2>1, <2>2, <2>5
<1> HIDE DEF T
<1>3. Seq(Seq(E)) \subseteq T
  BY <1>1, <1>2, SeqInduction
<1> QED
  BY <1>3 DEF T

LEMMA SelectedOfFlatten ==
    ASSUME NEW E, NEW ss \in Seq(Seq(E)), NEW S
    PROVE  /\ [k \in DOMAIN ss |-> Selected(ss[k], S)] \in Seq(Seq(E))
           /\ Selected(FlattenSeq(ss), S) = FlattenSeq([k \in DOMAIN ss |-> Selected(ss[k], S)])
<1> DEFINE Each(v) == [k \in DOMAIN v |-> Selected(v[k], S)]
           T == {v \in Seq(Seq(E)) : Selected(FlattenSeq(v), S) = FlattenSeq(Each(v))}
<1>1. ASSUME NEW v \in Seq(Seq(E)) PROVE Each(v) \in Seq(Seq(E)) /\ Len(Each(v)) = Len(v)
  <2>1. \A k \in DOMAIN v : v[k] \in Seq(E)
    OBVIOUS
  <2>2. \A k \in DOMAIN v : Selected(v[k], S) \in Seq(E)
    BY <2>1, SelectedType
  <2>3. DOMAIN v = 1 .. Len(v) /\ Len(v) \in Nat
    BY LenProperties
  <2> DEFINE F == Seq(E)
  <2> HIDE DEF F
  <2>4. Each(v) \in [1 .. Len(v) -> F]
    BY <2>2, <2>3, Zenon DEF F
  <2> HIDE DEF Each
  <2>5. Each(v) \in Seq(F) /\ Len(Each(v)) = Len(v)
    BY <2>3, <2>4, FunctionIsSeq
  <2> QED
    BY <2>5 DEF F
<1>2. <<>> \in T
  <2>1. Each(<<>>) = <<>> /\ <<>> \in Seq(Seq(E))
    BY EmptySeq
  <2>2. FlattenSeq(<<>>) = <<>> /\ Selected(<<>>, S) = <<>>
    BY DEF FlattenSeq, Selected
  <2> QED
    BY <2>1, <2>2, Zenon
<1>3. ASSUME NEW v \in Seq(Seq(E)), NEW s \in Seq(E), v \in T
      PROVE  Append(v, s) \in T
  <2>1. /\ Append(v, s) \in Seq(Seq(E)) /\ FlattenSeq(v) \in Seq(E)
        /\ FlattenSeq(Append(v, s)) = FlattenSeq(v) \o s
    BY FlattenSnoc, AppendProperties
  <2>2. Selected(FlattenSeq(v) \o s, S) = Selected(FlattenSeq(v), S) \o Selected(s, S)
    BY <2>1, SelectedConcat
  <2>3. Selected(s, S) \in Seq(E) /\ Each(v) \in Seq(Seq(E)) /\ Len(Each(v)) = Len(v)
    BY <1>1, SelectedType
  <2>4. Each(Append(v, s)) = Append(Each(v), Selected(s, S))
    <3> DEFINE n == Len(v)
    <3>1. Append(v, s) = [k \in 1 .. n + 1 |-> IF k = n + 1 THEN s ELSE v[k]]
      BY AppendAsFunction
    <3>2. Append(Each(v), Selected(s, S)) =
            [k \in 1 .. n + 1 |-> IF k = n + 1 THEN Selected(s, S) ELSE Each(v)[k]]
      <4> DEFINE each == Each(v)
      <4> HIDE DEF each
      <4>1. each \in Seq(Seq(E)) /\ Len(each) = n
        BY <2>3 DEF each
      <4>2. Append(each, Selected(s, S)) =
              [k \in 1 .. n + 1 |-> IF k = n + 1 THEN Selected(s, S) ELSE each[k]]
        BY <4>1, AppendAsFunction
      <4> QED
        BY <4>2 DEF each
    <3>3. DOMAIN v = 1 .. n /\ n \in Nat
      BY LenProperties
    <3> HIDE DEF n
    <3>4. \A k \in 1 .. n + 1 : k # n + 1 => k \in 1 .. n
      BY <3>3
    <3> QED
      BY <3>1, <3>2, <3>3, <3>4
  <2>5. FlattenSeq(Append(Each(v), Selected(s, S))) = FlattenSeq(Each(v)) \o Selected(s, S)
    <3> HIDE DEF Each
    <3> QED
      BY <2>3, FlattenSnoc
  <2>6. Selected(FlattenSeq(v), S) = FlattenSeq(Each(v))
    BY <1>3
  <2> HIDE DEF Each
  <2>7. Selected(FlattenSeq(Append(v, s)), S) = FlattenSeq(Each(Append(v, s)))
    BY <2>1, <2>2, <2>4, <2>5, <2>6
  <2> QED
    BY <2>1, <2>7
<1>4. Each(ss) \in Seq(Seq(E))
  BY <1>1
<1> HIDE DEF T
<1>5. Seq(Seq(E)) \subseteq T
  BY <1>2, <1>3, SeqInduction
<1> QED
  BY <1>4, <1>5 DEF T

\* Empty parts do not show in a concatenation.
LEMMA FlattenNonEmpty ==
    ASSUME NEW E, NEW ss \in Seq(Seq(E)), NEW S,
           \A k \in DOMAIN ss : ss[k] \in S \/ ss[k] = <<>>
    PROVE  FlattenSeq(Selected(ss, S)) = FlattenSeq(ss)
<1> DEFINE Fine(v) == \A k \in DOMAIN v : v[k] \in S \/ v[k] = <<>>
           T == {v \in Seq(Seq(E)) : Fine(v) => FlattenSeq(Selected(v, S)) = FlattenSeq(v)}
<1>1. <<>> \in T
  <2>1. <<>> \in Seq(Seq(E))
    BY EmptySeq
  <2>2. FlattenSeq(<<>>) = <<>> /\ Selected(<<>>, S) = <<>>
    BY DEF FlattenSeq, Selected
  <2> QED
    BY <2>1, <2>2, Zenon
<1>2. ASSUME NEW v \in Seq(Seq(E)), NEW s \in Seq(E), v \in T, Fine(Append(v, s))
      PROVE  FlattenSeq(Selected(Append(v, s), S)) = FlattenSeq(Append(v, s))
  <2>1. /\ FlattenSeq(v) \in Seq(E)
        /\ FlattenSeq(Append(v, s)) = FlattenSeq(v) \o s
    BY FlattenSnoc
  <2>2. /\ DOMAIN v = 1 .. Len(v) /\ Len(v) \in Nat
        /\ DOMAIN Append(v, s) = 1 .. Len(v) + 1
        /\ Append(v, s)[Len(v) + 1] = s
        /\ \A k \in 1 .. Len(v) : Append(v, s)[k] = v[k]
    BY LenProperties, AppendProperties
  <2>3. Fine(v)
    <3>1. \A k \in DOMAIN v : k \in DOMAIN Append(v, s) /\ Append(v, s)[k] = v[k]
      BY <2>2
    <3> QED
      BY <1>2, <3>1, Zenon
  <2>4. s \in S \/ s = <<>>
    <3>1. Len(v) + 1 \in DOMAIN Append(v, s)
      BY <2>2
    <3>2. Append(v, s)[Len(v) + 1] \in S \/ Append(v, s)[Len(v) + 1] = <<>>
      BY <1>2, <3>1, Zenon
    <3> QED
      BY <2>2, <3>2, Zenon
  <2>5. FlattenSeq(Selected(v, S)) = FlattenSeq(v)
    BY <1>2, <2>3
  <2>6. Selected(Append(v, s), S) = IF s \in S THEN Append(Selected(v, S), s) ELSE Selected(v, S)
    BY SelectedSnoc
  <2>7. Selected(v, S) \in Seq(Seq(E))
    BY SelectedType
  <2>8. FlattenSeq(Append(Selected(v, S), s)) = FlattenSeq(Selected(v, S)) \o s
    BY <2>7, FlattenSnoc
  <2>9. CASE s \in S
    BY <2>1, <2>5, <2>6, <2>8, <2>9
  <2>10. CASE s \notin S
    <3>1. FlattenSeq(v) \o <<>> = FlattenSeq(v)
      BY <2>1, ConcatEmptySeq
    <3> QED
      BY <2>1, <2>4, <2>5, <2>6, <2>10, <3>1
  <2> QED
    BY <2>9, <2>10
<1>3. ASSUME NEW v \in Seq(Seq(E)), NEW s \in Seq(E), v \in T
      PROVE  Append(v, s) \in T
  <2>1. Append(v, s) \in Seq(Seq(E))
    BY AppendProperties
  <2> HIDE DEF Fine
  <2> QED
    BY <1>2, <1>3, <2>1
<1> HIDE DEF T
<1>4. Seq(Seq(E)) \subseteq T
  BY <1>1, <1>3, SeqInduction
<1> QED
  BY <1>4 DEF T

-----------------------------------------------------------------------------
(* Outcomes *)

\* A loop ends well when every turn of it does.
LEMMA AllTurnsWell ==
    ASSUME NEW f, DOMAIN f \subseteq Nat
    PROVE  /\ FirstFailure(f) = "ok" <=> \A i \in DOMAIN f : f[i] = "ok"
           /\ FirstFailure(f) # "ok" => \E i \in DOMAIN f : FirstFailure(f) = f[i]
<1> DEFINE bad == {i \in DOMAIN f : f[i] # "ok"}
           first == CHOOSE i \in bad : \A j \in bad : i <= j
<1>1. FirstFailure(f) = IF bad = {} THEN "ok" ELSE f[first]
  BY DEF FirstFailure
<1>2. ASSUME bad # {} PROVE first \in bad
  <2>1. PICK m \in bad : \A k \in bad : ~(<<k, m>> \in OpToRel(<, Nat))
    <3>1. bad \subseteq Nat
      OBVIOUS
    <3> HIDE DEF bad
    <3> QED
      BY <1>2, <3>1, NatLessThanWellFounded, WFMin
  <2>2. \A k \in bad : k \in Nat /\ m \in Nat
    OBVIOUS
  <2>3. \A k \in bad : m <= k
    <3> HIDE DEF bad
    <3>1. \A k \in bad : ~(k < m)
      BY <2>1, <2>2 DEF OpToRel
    <3> QED
      BY <2>2, <3>1
  <2> HIDE DEF bad
  <2> QED
    BY <2>3, Zenon
<1> QED
  BY <1>1, <1>2

-----------------------------------------------------------------------------
(* A call on the table keeps every segment, lengthens it by an accepted    *)
(* value, or compresses it; new segments are value segments.               *)

Lengthened(before, after) ==
    /\ before \in ValueSegments
    /\ \E variant \in AllTypeVariant :
          Accepts(before, variant) /\ after = SegmentAppend(before, variant)

Grown(before, after) == after = before \/ Lengthened(before, after)

Compressed(before, after) ==
    /\ before \in ValueSegments /\ SegmentSize(before) <= MaxChunkOffset
    /\ after = MakeDictionarySegment(before)

ChunkGrown(old, new) ==
    /\ DOMAIN old \subseteq DOMAIN new
    /\ \A c \in DOMAIN old : Grown(old[c], new[c])
    /\ \A c \in DOMAIN new \ DOMAIN old : new[c].kind = "value"

ChunkCompressed(old, new) ==
    /\ DOMAIN new = DOMAIN old
    /\ \A c \in DOMAIN old : Compressed(old[c], new[c])

OnlyValues(chunk) == \A c \in DOMAIN chunk : chunk[c].kind = "value"

ChunksGrown(old, new) ==
    /\ DOMAIN old \subseteq DOMAIN new
    /\ \A k \in DOMAIN old : ChunkGrown(old[k], new[k])
    /\ \A k \in DOMAIN new \ DOMAIN old : OnlyValues(new[k])

LEMMA SameIsGrown == \A old : ChunksGrown(old, old) /\ ChunkGrown(old, old)
BY DEF ChunksGrown, ChunkGrown, Grown

\* One chunk more at the end.
LEMMA FreshIsGrown ==
    ASSUME IInv
    PROVE  /\ ChunksGrown(chunks, Append(chunks, FreshChunk))
           /\ OnlyValues(FreshChunk)
           /\ Len(Append(chunks, FreshChunk)) = Len(chunks) + 1
<1> DEFINE more == Append(chunks, FreshChunk)
<1>1. OnlyValues(FreshChunk) /\ FreshChunk \in Chunks /\ chunks \in Seq(Chunks)
  BY FreshChunkInv DEF IInv, ChunkInv, OnlyValues
<1>2. /\ Len(more) = Len(chunks) + 1 /\ Len(chunks) \in Nat
      /\ DOMAIN chunks = 1 .. Len(chunks) /\ DOMAIN more = 1 .. Len(chunks) + 1
      /\ more[Len(chunks) + 1] = FreshChunk
      /\ \A k \in 1 .. Len(chunks) : more[k] = chunks[k]
  BY <1>1, AppendProperties, LenProperties
<1> HIDE DEF more
<1>3. \A k \in DOMAIN chunks : k \in DOMAIN more /\ ChunkGrown(chunks[k], more[k])
  BY <1>2, SameIsGrown
<1>4. \A k \in DOMAIN more \ DOMAIN chunks : k = Len(chunks) + 1
  BY <1>2
<1>5. ChunksGrown(chunks, more)
  BY <1>1, <1>2, <1>3, <1>4 DEF ChunksGrown
<1> QED
  BY <1>1, <1>2, <1>5 DEF more

LEMMA AddColumnGrows ==
    ASSUME IInv, NEW def \in ColumnDefinition, AddColumn(def)
    PROVE  ChunksGrown(chunks, chunks') /\ Len(chunks') = Len(chunks)
<1> DEFINE new == NewValueSegment(def.type, def.nullable)
<1>1. chunks' = chunks \/ chunks' = [chunks EXCEPT ![1] = Append(chunks[1], new)]
  BY DEF AddColumn, AddSegment
<1>2. CASE chunks' = chunks
  BY <1>2, SameIsGrown
<1>3. CASE chunks' = [chunks EXCEPT ![1] = Append(chunks[1], new)]
  <2>1. /\ chunks \in Seq(Chunks) /\ 1 \in DOMAIN chunks /\ chunks[1] \in Seq(SegmentSet)
        /\ Len(chunks) \in Nat /\ DOMAIN chunks = 1 .. Len(chunks)
    BY DEF IInv, Chunks, SegmentSet
  <2>2. new \in SegmentSet /\ new.kind = "value"
    BY NewValueSegmentType DEF SegmentSet, ColumnDefinition, NewValueSegment
  <2>3. ChunkGrown(chunks[1], Append(chunks[1], new))
    <3> DEFINE old == chunks[1]
               more == Append(old, new)
    <3>1. /\ Len(old) \in Nat /\ DOMAIN old = 1 .. Len(old)
          /\ DOMAIN more = 1 .. Len(old) + 1 /\ more[Len(old) + 1] = new
          /\ \A c \in 1 .. Len(old) : more[c] = old[c]
      BY <2>1, <2>2, AppendProperties, LenProperties
    <3> HIDE DEF old, more, new
    <3>2. \A c \in DOMAIN old : c \in DOMAIN more
      BY <3>1
    <3>3. \A c \in DOMAIN more \ DOMAIN old : c = Len(old) + 1
      BY <3>1
    <3>4. ChunkGrown(old, more)
      BY <2>2, <3>1, <3>2, <3>3 DEF ChunkGrown, Grown
    <3> QED
      BY <3>4 DEF old, more
  <2> HIDE DEF new
  <2>4. DOMAIN chunks' = DOMAIN chunks /\ Len(chunks') = Len(chunks)
    BY <1>3, <2>1
  <2>5. \A k \in DOMAIN chunks : ChunkGrown(chunks[k], chunks'[k])
    BY <1>3, <2>1, <2>3, SameIsGrown
  <2> QED
    BY <2>4, <2>5 DEF ChunksGrown
<1> QED
  BY <1>1, <1>2, <1>3

LEMMA AppendRowGrows ==
    ASSUME IInv, NEW values \in Rows, AppendRow(values), Len(chunks) <= MaxChunks
    PROVE  ChunksGrown(chunks, chunks') /\ Len(chunks') <= MaxChunks
<1> DEFINE into == ChunksForAppend
           last == Len(into)
           old == into[last]
           new == ChunkAppend(old, values)
<1>1. \/ chunks' = chunks
      \/ /\ last <= MaxChunks
         /\ columns # <<>> /\ LastChunk # NewChunk /\ ChunkSize(LastChunk) < MaxChunkOffset
         /\ chunks' = into
      \/ /\ last <= MaxChunks
         /\ columns # <<>> /\ LastChunk # NewChunk /\ ChunkSize(LastChunk) < MaxChunkOffset
         /\ ~(Len(values) < Len(old)) \/ ChunkAppendThrows(old, values)
         /\ chunks' = [into EXCEPT ![last] = new]
  BY DEF AppendRow, ColumnCountOf
<1>2. ChunksGrown(chunks, into)
  BY FreshIsGrown, SameIsGrown DEF ChunksForAppend
<1>3. CASE chunks' = chunks
  BY <1>3, SameIsGrown
<1>4. CASE chunks' = into /\ last <= MaxChunks
  BY <1>2, <1>4
<1>5. CASE /\ last <= MaxChunks
           /\ columns # <<>> /\ LastChunk # NewChunk /\ ChunkSize(LastChunk) < MaxChunkOffset
           /\ ~(Len(values) < Len(old)) \/ ChunkAppendThrows(old, values)
           /\ chunks' = [into EXCEPT ![last] = new]
  <2>1. /\ into \in Seq(Chunks) /\ last \in DOMAIN into /\ old \in Chunks
        /\ \A b \in DOMAIN old : old[b].kind = "value"
    BY <1>5, ChunksForAppendInv DEF ChunkInv
  <2>2. Len(old) <= Len(values) \/ ChunkAppendThrows(old, values)
    BY <1>5, <2>1, ChunkType, RowType
  <2> DEFINE Grows(c) == \A r \in RejectingColumns(old, values) : c < r
  <2>3. /\ new \in Chunks /\ Len(new) = Len(old)
        /\ \A c \in DOMAIN old :
              /\ new[c] = IF Grows(c) THEN SegmentAppend(old[c], values[c]) ELSE old[c]
              /\ Grows(c) => values[c] \in AllTypeVariant /\ Accepts(old[c], values[c])
              /\ new[c].kind = "value"
    BY <2>1, <2>2, ChunkAppendProperties
  <2>4. \A c \in DOMAIN old : old[c] \in ValueSegments
    BY <2>1, ChunkType, SegmentSizeType
  <2>5. DOMAIN new = DOMAIN old
    BY <2>1, <2>3, ChunkType
  <2> HIDE DEF into, last, old, new, Grows
  <2>6. ChunkGrown(old, new)
    BY <2>3, <2>4, <2>5 DEF ChunkGrown, Grown, Lengthened
  <2>7. /\ DOMAIN chunks' = DOMAIN into /\ chunks'[last] = new /\ Len(chunks') = last
        /\ \A k \in DOMAIN into : k # last => chunks'[k] = into[k]
    BY <1>5, <2>1 DEF last
  <2>8. OnlyValues(new)
    BY <2>3, <2>5 DEF OnlyValues
  <2>9. ASSUME NEW k \in DOMAIN chunks
        PROVE  k \in DOMAIN chunks' /\ ChunkGrown(chunks[k], chunks'[k])
    <3>1. k \in DOMAIN into /\ into[k] = chunks[k]
      <4>1. chunks \in Seq(Chunks) /\ FreshChunk \in Chunks
        BY FreshChunkInv DEF IInv, ChunkInv
      <4> QED
        BY <4>1 DEF into, ChunksForAppend
    <3> QED
      BY <2>6, <2>7, <3>1, SameIsGrown DEF old
  <2>10. \A k \in DOMAIN chunks' \ DOMAIN chunks : OnlyValues(chunks'[k])
    BY <1>2, <2>7, <2>8 DEF ChunksGrown
  <2> QED
    BY <1>5, <2>7, <2>9, <2>10 DEF ChunksGrown
<1> QED
  BY <1>1, <1>3, <1>4, <1>5

LEMMA CompressChunkKeepsShape ==
    ASSUME IInv, NEW id \in 1 .. MaxChunks, CompressChunk(id)
    PROVE  /\ DOMAIN chunks' = DOMAIN chunks /\ Len(chunks') = Len(chunks)
           /\ \A k \in DOMAIN chunks : \/ chunks'[k] = chunks[k]
                                       \/ ChunkCompressed(chunks[k], chunks'[k])
<1>1. PICK outcome \in CompressFailures(id) \cup CompressReturns(id) :
        chunks' = IF outcome = "ok" THEN [chunks EXCEPT ![id] = CompressedChunk(chunks[id])]
                                    ELSE chunks
  BY DEF CompressChunk
<1>2. CASE outcome # "ok"
  BY <1>1, <1>2
<1>3. CASE outcome = "ok"
  <2>1. outcome \notin CompressFailures(id)
    BY <1>3 DEF CompressFailures, SpawnFailures
  <2>2. id \in DOMAIN chunks /\ \A c \in DOMAIN columns : ThreadOutcome(id, c) = "ok"
    BY <1>3, <2>1 DEF CompressReturns
  <2> DEFINE old == chunks[id]
             new == CompressedChunk(old)
  <2>3. /\ chunks \in Seq(Chunks) /\ ChunkInv(old, columns, Limits(target)) /\ old \in Chunks
        /\ Len(columns) \in Nat /\ DOMAIN columns = 1 .. Len(columns)
        /\ Len(old) \in Nat /\ DOMAIN old = 1 .. Len(old) /\ Len(old) <= Len(columns)
    BY <2>2, ChunkType DEF IInv, ChunkInv
  <2>4. \A c \in DOMAIN columns : c \in DOMAIN old /\ old[c].kind = "value"
    BY <2>2 DEF ThreadOutcome
  <2>5. DOMAIN new = DOMAIN columns /\ \A c \in DOMAIN columns : new[c] = MakeDictionarySegment(old[c])
    BY DEF CompressedChunk
  <2>6. MaxChunkOffset \in Limits(target) /\ MaxChunkOffset > 0
    BY NumericMaxAssumption DEF MaxChunkOffset, Limits
  <2> HIDE DEF old, new
  <2>7. DOMAIN columns = DOMAIN old
    <3>1. Len(columns) > 0 => Len(columns) \in DOMAIN columns
      BY <2>3
    <3>2. Len(columns) > 0 => Len(columns) \in DOMAIN old
      BY <2>4, <3>1
    <3>3. Len(columns) > 0 => Len(columns) <= Len(old)
      BY <2>3, <3>2
    <3>4. Len(columns) = Len(old)
      <4> DEFINE n == Len(columns)
                 m == Len(old)
      <4>1. n \in Nat /\ m \in Nat /\ m <= n /\ (n > 0 => n <= m)
        BY <2>3, <3>3
      <4> HIDE DEF n, m
      <4>2. n = m
        BY <4>1
      <4> QED
        BY <4>2 DEF n, m
    <3> QED
      BY <2>3, <3>4
  <2>8. \A c \in DOMAIN old : old[c] \in ValueSegments /\ SegmentSize(old[c]) <= MaxChunkOffset
    <3>1. \A c \in DOMAIN old : SegmentSize(old[c]) <= MaxChunkOffset
      BY <2>3, <2>6 DEF ChunkInv
    <3>2. \A c \in DOMAIN old : old[c] \in SegmentSet /\ old[c].kind = "value"
      BY <2>3, <2>4, <2>7, ChunkType
    <3> QED
      BY <3>1, <3>2, SegmentSizeType
  <2>9. ChunkCompressed(old, new)
    BY <2>5, <2>7, <2>8 DEF ChunkCompressed, Compressed
  <2>10. chunks' = [chunks EXCEPT ![id] = new]
    BY <1>1, <1>3 DEF new, old
  <2>11. DOMAIN chunks' = DOMAIN chunks /\ Len(chunks') = Len(chunks)
    BY <2>2, <2>3, <2>10
  <2> QED
    BY <2>2, <2>9, <2>10, <2>11 DEF old
<1> QED
  BY <1>2, <1>3

\* A step of the table.
TableStep ==
    \/ ChunksGrown(chunks, chunks')
    \/ /\ call'.op = "compress_chunk"
       /\ DOMAIN chunks' = DOMAIN chunks
       /\ \A k \in DOMAIN chunks : \/ chunks'[k] = chunks[k]
                                   \/ ChunkCompressed(chunks[k], chunks'[k])

LEMMA NextTableStep ==
    ASSUME IInv, Next, Len(chunks) <= MaxChunks
    PROVE  /\ TableStep
           /\ Len(chunks') <= MaxChunks
           /\ Len(columns) <= Len(columns')
<1>1. columns \in Seq(ColumnDefinition) /\ Len(columns) \in Nat
  BY DEF IInv
<1>2. ASSUME NEW def \in ColumnDefinition, AddColumnDefinition(def)
      PROVE  TableStep /\ Len(chunks') <= MaxChunks /\ Len(columns) <= Len(columns')
  <2>1. chunks' = chunks /\ (columns' = columns \/ columns' = Append(columns, def))
    BY <1>2 DEF AddColumnDefinition
  <2> QED
    BY <1>1, <2>1, SameIsGrown DEF TableStep
<1>3. ASSUME NEW def \in ColumnDefinition, AddColumn(def)
      PROVE  TableStep /\ Len(chunks') <= MaxChunks /\ Len(columns) <= Len(columns')
  <2>1. columns' = columns \/ columns' = Append(columns, def)
    BY <1>3 DEF AddColumn
  <2> QED
    BY <1>1, <1>3, <2>1, AddColumnGrows DEF TableStep
<1>4. CASE CreateNewChunk
  <2>1. /\ chunks' = Append(chunks, FreshChunk) /\ columns' = columns
        /\ Len(chunks) < MaxChunks /\ Len(chunks) \in Nat
    BY <1>4 DEF CreateNewChunk, IInv
  <2>2. Len(chunks') <= MaxChunks
    BY <2>1, FreshIsGrown, TableAssumption
  <2> QED
    BY <1>1, <2>1, <2>2, FreshIsGrown DEF TableStep
<1>5. ASSUME NEW values \in Rows, AppendRow(values)
      PROVE  TableStep /\ Len(chunks') <= MaxChunks /\ Len(columns) <= Len(columns')
  <2>1. columns' = columns
    BY <1>5 DEF AppendRow
  <2> QED
    BY <1>1, <1>5, <2>1, AppendRowGrows DEF TableStep
<1>6. ASSUME NEW id \in 1 .. MaxChunks, CompressChunk(id)
      PROVE  TableStep /\ Len(chunks') <= MaxChunks /\ Len(columns) <= Len(columns')
  <2>1. columns' = columns /\ call'.op = "compress_chunk"
    BY <1>6 DEF CompressChunk, Call
  <2> QED
    BY <1>1, <1>6, <2>1, CompressChunkKeepsShape DEF TableStep
<1> QED
  BY <1>2, <1>3, <1>4, <1>5, <1>6 DEF Next

-----------------------------------------------------------------------------
(* The inductive invariant.  An output is made from a definition no wider  *)
(* than the table's and from lists of rows that the table has, in every    *)
(* column up to the rightmost that a scan has looked at.  That the other   *)
(* columns to the left have them follows from SegmentsShrinkRightward, so  *)
(* IInv is part of it.  Dictionary segments are well-formed: scans of the  *)
(* table compare their ValueIDs, scans of the output their values.         *)

DictionariesWellFormed ==
    \A k \in DOMAIN chunks : \A c \in DOMAIN chunks[k] :
        chunks[k][c].kind = "dictionary" => WellFormed(chunks[k][c])

\* The rows that these chunks have, up to a column, and NULL_ROW_ID.
Held(rows, upTo) ==
    {row \in [chunk : Nat, offset : Nat] :
        row # NULL_ROW_ID =>
            /\ row.chunk \in DOMAIN rows
            /\ row.offset >= 1
            /\ \A column \in 1 .. upTo :
                  /\ column \in DOMAIN rows[row.chunk]
                  /\ row.offset <= SegmentSize(rows[row.chunk][column])}

NonEmptyLists(H) == Seq(Seq(H) \ {<<>>})

\* An output that a scan or a caller made.
MadeOf(cols, lists) ==
    /\ cols \in Seq(ColumnDefinition) /\ cols # <<>>
    /\ Len(cols) <= Len(columns)
    /\ lists \in NonEmptyLists(Held(chunks, through))
    /\ output = MakeOutput(cols, lists)

QInv ==
    /\ IInv
    /\ DictionariesWellFormed
    /\ Len(chunks) <= MaxChunks
    /\ query \in {"ok", "throws", "undefined"}
    /\ through \in Nat \ {0}
    /\ output = NoOutput \/ \E cols, lists : MadeOf(cols, lists)

LEMMA NonEmptyListsGrow ==
    ASSUME NEW G, NEW H, G \subseteq H
    PROVE  NonEmptyLists(G) \subseteq NonEmptyLists(H)
<1>1. Seq(G) \subseteq Seq(H)
  BY SeqMonotonic
<1>2. Seq(G) \ {<<>>} \subseteq Seq(H) \ {<<>>}
  BY <1>1
<1> QED
  BY <1>2, SeqMonotonic DEF NonEmptyLists

LEMMA NonEmptyListsType ==
    ASSUME NEW H, NEW lists \in NonEmptyLists(H)
    PROVE  /\ lists \in Seq(Seq(H))
           /\ \A k \in DOMAIN lists : lists[k] \in Seq(H) /\ lists[k] # <<>>
           /\ FlattenSeq(lists) \in Seq(H)
           /\ Len(lists) \in Nat /\ DOMAIN lists = 1 .. Len(lists)
<1>1. lists \in Seq(Seq(H))
  <2>1. Seq(H) \ {<<>>} \subseteq Seq(H)
    OBVIOUS
  <2> QED
    BY <2>1, SeqMonotonic DEF NonEmptyLists
<1>2. \A k \in DOMAIN lists : lists[k] \in Seq(H) \ {<<>>}
  BY ElementOfSeq, LenProperties DEF NonEmptyLists
<1>3. FlattenSeq(lists) \in Seq(H)
  BY <1>1, EmptySeq, FlattenSnoc
<1> QED
  BY <1>1, <1>2, <1>3, LenProperties

\* Dropping the empty lists.
LEMMA DropEmpty ==
    ASSUME NEW H, NEW lists \in Seq(Seq(H))
    PROVE  LET kept == Selected(lists, Range(lists) \ {<<>>})
           IN  kept \in NonEmptyLists(H) /\ FlattenSeq(kept) = FlattenSeq(lists)
<1> DEFINE S == Range(lists) \ {<<>>}
<1>1. Selected(lists, S) \in Seq(Seq(H) \cap S)
  BY SelectedType
<1>2. Seq(H) \cap S \subseteq Seq(H) \ {<<>>}
  OBVIOUS
<1>3. Selected(lists, S) \in NonEmptyLists(H)
  <2> HIDE DEF S
  <2> QED
    BY <1>1, <1>2, SeqMonotonic DEF NonEmptyLists
<1>4. \A k \in DOMAIN lists : lists[k] \in S \/ lists[k] = <<>>
  BY DEF Range
<1>5. FlattenSeq(Selected(lists, S)) = FlattenSeq(lists)
  <2> HIDE DEF S
  <2> QED
    BY <1>4, FlattenNonEmpty
<1> QED
  BY <1>3, <1>5

\* The chunks of an output: a single empty one, or one for each list.
LEMMA EmptyOutput ==
    ASSUME NEW cols \in Seq(ColumnDefinition), cols # <<>>, NEW made,
           made = MakeOutput(cols, <<>>)
    PROVE  /\ made.columns = cols /\ made # NoOutput
           /\ DOMAIN made.chunks = {1} /\ Len(made.chunks) = 1
           /\ made.chunks[1] = [c \in DOMAIN cols |-> NewValueSegment(cols[c].type, FALSE)]
           /\ SizeOf(made.chunks[1]) = 0
<1> DEFINE empty == [c \in DOMAIN cols |-> NewValueSegment(cols[c].type, FALSE)]
<1>1. 1 \in DOMAIN cols
  OBVIOUS
<1>2. made.columns = cols /\ made # NoOutput
  BY DEF MakeOutput, NoOutput
<1>3. made.chunks = <<empty>>
  BY DEF MakeOutput
<1>4. SizeOf(empty) = 0
  <2>1. empty[1] = NewValueSegment(cols[1].type, FALSE)
    BY <1>1
  <2>2. empty # NewChunk
    <3>1. DOMAIN empty = DOMAIN cols /\ DOMAIN NewChunk = {}
      BY DEF NewChunk
    <3> QED
      BY <1>1, <3>1
  <2> HIDE DEF empty
  <2> QED
    BY <2>1, <2>2 DEF SizeOf, ChunkSize, SegmentSize, NewValueSegment
<1> HIDE DEF empty
<1>5. /\ DOMAIN <<empty>> = {1} /\ Len(<<empty>>) = 1 /\ <<empty>>[1] = empty
  OBVIOUS
<1> QED
  BY <1>2, <1>3, <1>4, <1>5 DEF empty

LEMMA OutputChunks ==
    ASSUME NEW cols \in Seq(ColumnDefinition), cols # <<>>,
           NEW lists, lists # <<>>, NEW made, made = MakeOutput(cols, lists)
    PROVE  /\ made.columns = cols /\ made # NoOutput
           /\ DOMAIN made.chunks = DOMAIN lists
           /\ \A k \in DOMAIN lists :
                 /\ DOMAIN made.chunks[k] = DOMAIN cols
                 /\ \A c \in DOMAIN cols : made.chunks[k][c] = ReferenceSegment(c, lists[k])
                 /\ SizeOf(made.chunks[k]) = Len(lists[k])
                 /\ made.chunks[k][1].pos = lists[k]
<1> DEFINE refs(k) == [c \in DOMAIN cols |-> ReferenceSegment(c, lists[k])]
<1>1. 1 \in DOMAIN cols
  OBVIOUS
<1>2. made.columns = cols /\ made # NoOutput
  BY DEF MakeOutput, NoOutput
<1>3. made.chunks = [k \in DOMAIN lists |-> refs(k)]
  BY DEF MakeOutput
<1>4. ASSUME NEW k \in DOMAIN lists
      PROVE  SizeOf(refs(k)) = Len(lists[k]) /\ refs(k)[1].pos = lists[k]
  <2>1. refs(k)[1] = ReferenceSegment(1, lists[k])
    BY <1>1
  <2>2. refs(k) # NewChunk
    <3>1. DOMAIN refs(k) = DOMAIN cols /\ DOMAIN NewChunk = {}
      BY DEF NewChunk
    <3> QED
      BY <1>1, <3>1
  <2> HIDE DEF refs
  <2> QED
    BY <2>1, <2>2 DEF SizeOf, ReferenceSegment
<1>5. \A k \in DOMAIN lists : /\ DOMAIN refs(k) = DOMAIN cols
                              /\ \A c \in DOMAIN cols : refs(k)[c] = ReferenceSegment(c, lists[k])
  OBVIOUS
<1> HIDE DEF refs
<1> QED
  BY <1>2, <1>3, <1>4, <1>5

LEMMA OutputPositions ==
    ASSUME NEW cols \in Seq(ColumnDefinition), cols # <<>>,
           NEW H, NEW lists \in NonEmptyLists(H)
    PROVE  PositionsOf(MakeOutput(cols, lists)) = FlattenSeq(lists)
<1> DEFINE made == MakeOutput(cols, lists)
           each == [k \in DOMAIN made.chunks |->
                       IF SizeOf(made.chunks[k]) = 0 THEN <<>> ELSE made.chunks[k][1].pos]
<1>1. PositionsOf(made) = FlattenSeq(each)
  BY DEF PositionsOf
<1> HIDE DEF made
<1>0. made = MakeOutput(cols, lists)
  BY DEF made
<1>2. CASE lists = <<>>
  <2>1. DOMAIN made.chunks = {1} /\ SizeOf(made.chunks[1]) = 0
    BY <1>0, <1>2, EmptyOutput
  <2>2. each = <<(<<>>)>>
    BY <2>1
  <2>3. FlattenSeq(<<(<<>>)>>) = <<>>
    <3>1. <<>> \in Seq(Seq(H)) /\ <<>> \in Seq(H)
      BY EmptySeq
    <3>2. FlattenSeq(Append(<<>>, <<>>)) = FlattenSeq(<<>>) \o <<>>
      BY <3>1, FlattenSnoc
    <3>3. FlattenSeq(<<>>) = <<>>
      BY DEF FlattenSeq
    <3>4. Append(<<>>, <<>>) = <<(<<>>)>> /\ <<>> \o <<>> = <<>>
      OBVIOUS
    <3> QED
      BY <3>2, <3>3, <3>4
  <2>4. FlattenSeq(<<>>) = <<>>
    BY DEF FlattenSeq
  <2> QED
    BY <1>1, <1>2, <2>2, <2>3, <2>4 DEF made
<1>3. CASE lists # <<>>
  <2>1. /\ DOMAIN made.chunks = DOMAIN lists
        /\ \A k \in DOMAIN lists : /\ SizeOf(made.chunks[k]) = Len(lists[k])
                                   /\ made.chunks[k][1].pos = lists[k]
    BY <1>0, <1>3, OutputChunks
  <2>2. \A k \in DOMAIN lists : Len(lists[k]) # 0
    BY NonEmptyListsType
  <2>3. lists = [k \in DOMAIN lists |-> lists[k]]
    BY NonEmptyListsType
  <2>4. each = [k \in DOMAIN lists |-> lists[k]]
    BY <2>1, <2>2
  <2> QED
    BY <1>1, <2>3, <2>4 DEF made
<1> QED
  BY <1>2, <1>3

-----------------------------------------------------------------------------
(* A step of the table takes no row from it. *)

LEMMA SegmentGrows ==
    ASSUME NEW before, NEW after,
           \/ after = before /\ before \in SegmentSet
           \/ Lengthened(before, after)
           \/ Compressed(before, after)
    PROVE  SegmentSize(before) <= SegmentSize(after)
<1>1. CASE after = before /\ before \in SegmentSet
  BY <1>1, SegmentSizeType
<1>2. CASE Lengthened(before, after)
  <2>1. SegmentSize(after) = SegmentSize(before) + 1 /\ SegmentSize(before) \in Nat
    BY <1>2, SegmentAppendSize, SegmentSizeType DEF Lengthened, SegmentSet
  <2> QED
    BY <2>1
<1>3. CASE Compressed(before, after)
  <2>1. before \in ValueSegments /\ after = MakeDictionarySegment(before)
    BY <1>3 DEF Compressed
  <2>2. SegmentSize(after) = SegmentSize(before) /\ SegmentSize(before) \in Nat
    BY <2>1, MakeDictionarySegmentType DEF ValueSegments, SegmentSize
  <2> QED
    BY <2>2
<1> QED
  BY <1>1, <1>2, <1>3

\* What became of a segment in a step of the table.
LEMMA SegmentStep ==
    ASSUME IInv, TableStep, NEW k \in DOMAIN chunks, NEW c \in DOMAIN chunks[k]
    PROVE  /\ k \in DOMAIN chunks' /\ c \in DOMAIN chunks'[k]
           /\ chunks[k][c] \in SegmentSet
           /\ SegmentSize(chunks[k][c]) <= SegmentSize(chunks'[k][c])
           /\ \/ Grown(chunks[k][c], chunks'[k][c])
              \/ Compressed(chunks[k][c], chunks'[k][c]) /\ call'.op = "compress_chunk"
<1>1. chunks[k][c] \in SegmentSet
  BY ChunkType DEF IInv, ChunkInv
<1>2. /\ k \in DOMAIN chunks' /\ c \in DOMAIN chunks'[k]
      /\ \/ Grown(chunks[k][c], chunks'[k][c])
         \/ Compressed(chunks[k][c], chunks'[k][c]) /\ call'.op = "compress_chunk"
  BY DEF TableStep, ChunksGrown, ChunkGrown, ChunkCompressed, Grown
<1>3. SegmentSize(chunks[k][c]) <= SegmentSize(chunks'[k][c])
  BY <1>1, <1>2, SegmentGrows DEF Grown
<1> QED
  BY <1>1, <1>2, <1>3

LEMMA RowsStay ==
    ASSUME IInv, IInv', TableStep, NEW column \in Nat, NEW row \in [chunk : Nat, offset : Nat],
           InBounds(column, row)
    PROVE  InBounds(column, row)'
<1> DEFINE k == row.chunk
<1>1. /\ k \in DOMAIN chunks /\ column \in DOMAIN chunks[k]
      /\ row.offset <= SegmentSize(chunks[k][column]) /\ row.offset \in Nat
  BY DEF InBounds
<1>2. /\ k \in DOMAIN chunks' /\ column \in DOMAIN chunks'[k]
      /\ SegmentSize(chunks[k][column]) <= SegmentSize(chunks'[k][column])
  BY <1>1, SegmentStep
<1>3. SegmentSize(chunks[k][column]) \in Nat /\ SegmentSize(chunks'[k][column]) \in Nat
  <2>1. /\ chunks[k] \in Chunks
        /\ chunks'[k] \in Chunks
    BY <1>1, <1>2 DEF IInv, ChunkInv
  <2> QED
    BY <1>1, <1>2, <2>1, ChunkType
<1>4. row.offset <= SegmentSize(chunks'[k][column])
  BY <1>1, <1>2, <1>3
<1> QED
  BY <1>2, <1>4 DEF InBounds

LEMMA HeldStays ==
    ASSUME IInv, IInv', TableStep, NEW upTo \in Nat
    PROVE  Held(chunks, upTo) \subseteq Held(chunks', upTo)
<1> SUFFICES ASSUME NEW row \in Held(chunks, upTo), row # NULL_ROW_ID
             PROVE  /\ row.chunk \in DOMAIN chunks'
                    /\ \A column \in 1 .. upTo : InBounds(column, row)'
  BY DEF Held, InBounds
<1>1. /\ row \in [chunk : Nat, offset : Nat]
      /\ row.chunk \in DOMAIN chunks
      /\ \A column \in 1 .. upTo : InBounds(column, row)
  BY DEF Held, InBounds
<1>2. row.chunk \in DOMAIN chunks'
  <2>1. DOMAIN chunks \subseteq DOMAIN chunks'
    BY DEF TableStep, ChunksGrown
  <2> QED
    BY <1>1, <2>1
<1>3. \A column \in 1 .. upTo : column \in Nat
  OBVIOUS
<1>4. \A column \in 1 .. upTo : InBounds(column, row)'
  BY <1>1, <1>3, RowsStay
<1> QED
  BY <1>1, <1>2, <1>4

LEMMA DictionariesStayWellFormed ==
    ASSUME IInv, DictionariesWellFormed, TableStep
    PROVE  DictionariesWellFormed'
<1> SUFFICES ASSUME NEW k \in DOMAIN chunks', NEW c \in DOMAIN chunks'[k],
                    chunks'[k][c].kind = "dictionary"
             PROVE  WellFormed(chunks'[k][c])
  BY DEF DictionariesWellFormed
<1>1. CASE k \in DOMAIN chunks /\ c \in DOMAIN chunks[k]
  <2>1. \/ Grown(chunks[k][c], chunks'[k][c])
        \/ Compressed(chunks[k][c], chunks'[k][c])
    BY <1>1, SegmentStep
  <2>2. CASE chunks'[k][c] = chunks[k][c]
    BY <1>1, <2>2 DEF DictionariesWellFormed
  <2>3. CASE Lengthened(chunks[k][c], chunks'[k][c])
    BY <2>3 DEF Lengthened, SegmentAppend, ValueSegments
  <2>4. CASE Compressed(chunks[k][c], chunks'[k][c])
    <3>1. /\ chunks[k][c] \in ValueSegments
          /\ Len(chunks[k][c].values) <= NumericMax[3]
          /\ chunks'[k][c] = MakeDictionarySegment(chunks[k][c])
      BY <2>4 DEF Compressed, SegmentSize, ValueSegments, MaxChunkOffset
    <3> QED
      BY <3>1, CompressedIsWellFormed
  <2> QED
    BY <2>1, <2>2, <2>3, <2>4 DEF Grown
<1>2. CASE k \in DOMAIN chunks /\ c \notin DOMAIN chunks[k]
  BY <1>2 DEF TableStep, ChunksGrown, ChunkGrown, ChunkCompressed
<1>3. CASE k \notin DOMAIN chunks
  BY <1>3 DEF TableStep, ChunksGrown, OnlyValues
<1> QED
  BY <1>1, <1>2, <1>3

-----------------------------------------------------------------------------
(* Scans *)

\* The segments of a chunk of the table: none is longer than one to its left.
LEMMA SizesInChunk ==
    ASSUME IInv, NEW k \in DOMAIN chunks
    PROVE  /\ k \in Nat \ {0}
           /\ SizeOf(chunks[k]) = ChunkSize(chunks[k])
           /\ ChunkSize(chunks[k]) # 0 =>
                 /\ 1 \in DOMAIN chunks[k]
                 /\ ChunkSize(chunks[k]) = SegmentSize(chunks[k][1])
           /\ \A c \in DOMAIN chunks[k] :
                 /\ c \in Nat \ {0} /\ c <= Len(columns)
                 /\ chunks[k][c] \in SegmentSet /\ chunks[k][c].kind # "reference"
                 /\ SegmentSize(chunks[k][c]) \in Nat
                 /\ SegmentSize(chunks[k][c]) <= MaxChunkOffset
                 /\ \A b \in 1 .. c :
                       /\ b \in DOMAIN chunks[k]
                       /\ SegmentSize(chunks[k][c]) <= SegmentSize(chunks[k][b])
<1> DEFINE chunk == chunks[k]
<1>1. /\ chunks \in Seq(Chunks) /\ columns \in Seq(ColumnDefinition)
      /\ ChunkInv(chunk, columns, Limits(target)) /\ chunk \in Chunks
  BY DEF IInv, ChunkInv
<1>2. /\ Len(chunk) \in Nat /\ DOMAIN chunk = 1 .. Len(chunk)
      /\ \A c \in DOMAIN chunk : chunk[c] \in SegmentSet /\ SegmentSize(chunk[c]) \in Nat
  BY <1>1, ChunkType
<1>3. /\ Len(chunk) <= Len(columns) /\ Len(columns) \in Nat
      /\ \A b, c \in DOMAIN chunk : b < c => SegmentSize(chunk[c]) <= SegmentSize(chunk[b])
      /\ \A c \in DOMAIN chunk : SegmentSize(chunk[c]) <= MaxChunkOffset
  <2>1. MaxChunkOffset \in Limits(target) /\ MaxChunkOffset > 0
    BY NumericMaxAssumption DEF MaxChunkOffset, Limits
  <2> QED
    BY <1>1, <2>1 DEF ChunkInv
<1>4. k \in Nat \ {0}
  BY <1>1
<1>5. \A c \in DOMAIN chunk : chunk[c].kind # "reference"
  BY <1>2, SegmentSizeType
<1> HIDE DEF chunk
<1>6. chunk # NewChunk => 1 \in DOMAIN chunk
  <2>1. Len(chunk) = 0 => chunk = <<>>
    BY <1>1 DEF Chunks
  <2> QED
    BY <1>2, <2>1 DEF NewChunk
<1>7. SizeOf(chunk) = ChunkSize(chunk)
  BY <1>5, <1>6 DEF SizeOf, ChunkSize
<1>8. ChunkSize(chunk) # 0 => 1 \in DOMAIN chunk /\ ChunkSize(chunk) = SegmentSize(chunk[1])
  BY <1>6 DEF ChunkSize
<1>9. ASSUME NEW c \in DOMAIN chunk
      PROVE  /\ c \in Nat \ {0} /\ c <= Len(columns)
             /\ \A b \in 1 .. c : b \in DOMAIN chunk /\ SegmentSize(chunk[c]) <= SegmentSize(chunk[b])
  BY <1>2, <1>3
<1> QED
  BY <1>2, <1>3, <1>4, <1>5, <1>7, <1>8, <1>9 DEF chunk

LEMMA RowIDsRange ==
    ASSUME NEW k \in Nat, NEW size \in Nat
    PROVE  /\ RowIDs(k, size) \in Seq([chunk : Nat, offset : Nat])
           /\ Range(RowIDs(k, size)) = {[chunk |-> k, offset |-> i] : i \in 1 .. size}
<1>1. RowIDs(k, size) \in [1 .. size -> [chunk : Nat, offset : Nat]]
  BY DEF RowIDs
<1>2. RowIDs(k, size) \in Seq([chunk : Nat, offset : Nat])
  BY <1>1, FunctionIsSeq
<1>3. Range(RowIDs(k, size)) = {[chunk |-> k, offset |-> i] : i \in 1 .. size}
  BY DEF RowIDs, Range
<1> QED
  BY <1>2, <1>3

LEMMA ScanSegmentType ==
    ASSUME NEW segment \in SegmentSet, NEW op, NEW value
    PROVE  ScanSegment(segment, op, value) \subseteq 1 .. SegmentSize(segment)
<1>1. CASE segment \in ValueSegments
  BY <1>1 DEF ValueSegments, ScanSegment, ScanValueSegment, SegmentSize
<1>2. CASE segment \in DictionarySegments
  BY <1>2 DEF DictionarySegments, ScanSegment, ScanDictSegment, SegmentSize
<1> QED
  BY <1>1, <1>2 DEF SegmentSet

\* A scan that ends well has looked at every chunk.
LEMMA GoodScan ==
    ASSUME NEW input, input.columns \in Seq(ColumnDefinition), DOMAIN input.chunks \subseteq Nat,
           NEW column \in Nat \ {0}, NEW search \in AllTypeVariant,
           ScanOutcome(input, column, search) = "ok"
    PROVE  /\ column \in DOMAIN input.columns
           /\ input.columns[column].type \in DataType
           /\ search # NULL =>
                 /\ search \in Variants
                 /\ \A k \in DOMAIN input.chunks :
                       ChunkOutcome(input.chunks[k], input.columns[column].type, column, search) = "ok"
<1> DEFINE turns == [k \in DOMAIN input.chunks |->
                        ChunkOutcome(input.chunks[k], input.columns[column].type, column, search)]
<1>1. /\ ColumnGetterOutcome(input.columns, column - 1) = "ok"
      /\ search # NULL => FirstFailure(turns) = "ok"
  BY DEF ScanOutcome
<1>2. column \in DOMAIN input.columns
  BY <1>1 DEF ColumnGetterOutcome
<1>3. input.columns[column].type \in DataType
  <2>1. input.columns[column] \in ColumnDefinition
    BY <1>2, ElementOfSeq, LenProperties
  <2> QED
    BY <2>1 DEF ColumnDefinition
<1>4. search # NULL => \A k \in DOMAIN input.chunks : turns[k] = "ok"
  <2>1. DOMAIN turns = DOMAIN input.chunks
    OBVIOUS
  <2> HIDE DEF turns
  <2> QED
    BY <1>1, <2>1, AllTurnsWell
<1> QED
  BY <1>2, <1>3, <1>4 DEF AllTypeVariant

LEMMA GoodTableChunk ==
    ASSUME IInv, NEW k \in DOMAIN chunks, NEW type, NEW column, NEW search,
           ChunkOutcome(chunks[k], type, column, search) = "ok", SizeOf(chunks[k]) # 0
    PROVE  /\ column \in DOMAIN chunks[k] /\ chunks[k][column].type = type
           /\ TypeCast[type, search] # CastError
BY SizesInChunk DEF ChunkOutcome

\* What a scan of the table finds in a chunk, it has up to the column.
LEMMA FoundInTable ==
    ASSUME IInv, NEW column \in Nat \ {0}, NEW op, NEW search \in AllTypeVariant,
           search # NULL, ScanOutcome(BaseTable, column, search) = "ok", NEW value,
           NEW k \in DOMAIN chunks
    PROVE  ChunkPositions(k, chunks[k], column, op, value) \in Seq(Held(chunks, column))
<1> DEFINE segment == chunks[k][column]
           all == RowIDs(k, SegmentSize(segment))
           offsets == ScanSegment(segment, op, value)
           S == {[chunk |-> k, offset |-> i] : i \in offsets}
<1>1. CASE SizeOf(chunks[k]) = 0
  BY <1>1, EmptySeq DEF ChunkPositions
<1>2. CASE SizeOf(chunks[k]) # 0
  <2>1. ChunkOutcome(chunks[k], columns[column].type, column, search) = "ok"
    BY GoodScan DEF BaseTable, IInv
  <2>2. column \in DOMAIN chunks[k]
    BY <1>2, <2>1, GoodTableChunk
  <2>3. /\ k \in Nat \ {0} /\ segment \in SegmentSet /\ segment.kind # "reference"
        /\ SegmentSize(segment) \in Nat
        /\ \A b \in 1 .. column : b \in DOMAIN chunks[k]
                                  /\ SegmentSize(segment) <= SegmentSize(chunks[k][b])
        /\ \A b \in 1 .. column : SegmentSize(chunks[k][b]) \in Nat
    BY <2>2, SizesInChunk
  <2>4. ChunkPositions(k, chunks[k], column, op, value) = Selected(all, S)
    BY <1>2, <2>3 DEF ChunkPositions, PositionList
  <2>5. offsets \subseteq 1 .. SegmentSize(segment)
    BY <2>3, ScanSegmentType
  <2>6. all \in Seq([chunk : Nat, offset : Nat])
    BY <2>3, RowIDsRange
  <2>7. Selected(all, S) \in Seq([chunk : Nat, offset : Nat] \cap S)
    <3> HIDE DEF all, S
    <3> QED
      BY <2>6, SelectedType
  <2>8. ASSUME NEW i \in offsets
        PROVE  [chunk |-> k, offset |-> i] \in Held(chunks, column)
    <3>1. i \in Nat /\ i >= 1 /\ i <= SegmentSize(segment)
      BY <2>3, <2>5
    <3>2. \A b \in 1 .. column : i <= SegmentSize(chunks[k][b])
      BY <2>3, <3>1
    <3> QED
      BY <2>3, <3>1, <3>2 DEF Held
  <2>9. [chunk : Nat, offset : Nat] \cap S \subseteq Held(chunks, column)
    BY <2>8
  <2> QED
    BY <2>4, <2>7, <2>9, SeqMonotonic
<1> QED
  BY <1>1, <1>2

MatchingRows(pos, column, op, value) ==
    {row \in Range(pos) : RowMatches(column, row, op, value)}

\* A scan of an output that ends well has looked every row up.
LEMMA GoodOutputChunk ==
    ASSUME NEW cols, NEW lists, MadeOf(cols, lists), lists # <<>>,
           NEW column \in Nat \ {0}, NEW search \in AllTypeVariant, search # NULL,
           ScanOutcome(output, column, search) = "ok",
           NEW k \in DOMAIN lists
    PROVE  /\ column \in DOMAIN cols /\ TypeCast[cols[column].type, search] # CastError
           /\ \A row \in Range(lists[k]) : RowOutcome(cols[column].type, column, row) = "ok"
<1> DEFINE chunk == output.chunks[k]
           pos == lists[k]
           type == cols[column].type
           turns == [i \in DOMAIN pos |-> RowOutcome(type, column, pos[i])]
<1>1. /\ cols \in Seq(ColumnDefinition) /\ cols # <<>>
      /\ lists \in NonEmptyLists(Held(chunks, through)) /\ output = MakeOutput(cols, lists)
  BY DEF MadeOf
<1>2. /\ output.columns = cols /\ DOMAIN output.chunks = DOMAIN lists
      /\ DOMAIN chunk = DOMAIN cols /\ SizeOf(chunk) = Len(pos)
      /\ \A c \in DOMAIN cols : chunk[c] = ReferenceSegment(c, pos)
  BY <1>1, OutputChunks
<1>3. /\ DOMAIN lists \subseteq Nat
      /\ pos \in Seq(Held(chunks, through)) /\ pos # <<>>
  BY <1>1, NonEmptyListsType
<1>4. Len(pos) # 0 /\ DOMAIN pos \subseteq Nat
  BY <1>3
<1>5. column \in DOMAIN cols /\ ChunkOutcome(chunk, type, column, search) = "ok"
  BY <1>1, <1>2, <1>3, GoodScan
<1>6. chunk[column].kind = "reference" /\ chunk[column].pos = pos
  <2> HIDE DEF chunk, pos
  <2>1. chunk[column] = ReferenceSegment(column, pos)
    BY <1>2, <1>5
  <2> QED
    BY <2>1 DEF ReferenceSegment
<1>7. TypeCast[type, search] # CastError /\ FirstFailure(turns) = "ok"
  <2> HIDE DEF chunk, pos, type
  <2> QED
    BY <1>2, <1>4, <1>5, <1>6 DEF ChunkOutcome
<1>8. \A i \in DOMAIN pos : RowOutcome(type, column, pos[i]) = "ok"
  <2>1. DOMAIN turns = DOMAIN pos /\ \A i \in DOMAIN pos : turns[i] = RowOutcome(type, column, pos[i])
    OBVIOUS
  <2> HIDE DEF turns, pos, type
  <2> QED
    BY <1>4, <1>7, <2>1, AllTurnsWell
<1>9. \A row \in Range(pos) : RowOutcome(type, column, row) = "ok"
  BY <1>8 DEF Range
<1> QED
  BY <1>5, <1>7, <1>9

LEMMA OutputChunkPositions ==
    ASSUME NEW cols, NEW lists, MadeOf(cols, lists), lists # <<>>,
           NEW column \in DOMAIN cols, NEW k \in DOMAIN lists, NEW op, NEW value
    PROVE  ChunkPositions(k, output.chunks[k], column, op, value) =
              Selected(lists[k], MatchingRows(lists[k], column, op, value))
<1> DEFINE chunk == output.chunks[k]
           pos == lists[k]
<1>1. /\ cols \in Seq(ColumnDefinition) /\ cols # <<>>
      /\ lists \in NonEmptyLists(Held(chunks, through)) /\ output = MakeOutput(cols, lists)
  BY DEF MadeOf
<1>2. /\ SizeOf(chunk) = Len(pos)
      /\ \A c \in DOMAIN cols : chunk[c] = ReferenceSegment(c, pos)
  BY <1>1, OutputChunks
<1>3. pos \in Seq(Held(chunks, through)) /\ pos # <<>>
  BY <1>1, NonEmptyListsType
<1>4. Len(pos) # 0
  BY <1>3
<1> HIDE DEF chunk, pos
<1>5. chunk[column].kind = "reference" /\ chunk[column].pos = pos
  <2>1. chunk[column] = ReferenceSegment(column, pos)
    BY <1>2
  <2> QED
    BY <2>1 DEF ReferenceSegment
<1>6. ChunkPositions(k, chunk, column, op, value)
         = Selected(pos, MatchingRows(pos, column, op, value))
  BY <1>2, <1>4, <1>5 DEF ChunkPositions, PositionList, MatchingRows
<1> QED
  BY <1>6 DEF chunk, pos

LEMMA GoodRow ==
    ASSUME NEW type, NEW column, NEW row, RowOutcome(type, column, row) = "ok"
    PROVE  /\ row.chunk \in DOMAIN chunks /\ column \in DOMAIN chunks[row.chunk]
           /\ chunks[row.chunk][column].type = type
           /\ row.offset <= SegmentSize(chunks[row.chunk][column])
BY DEF RowOutcome, InBounds

\* The rows looked at are there up to the column, so that nothing is lost by
\* calling them rows up to the rightmost column looked at.
LEMMA FoundInOutput ==
    ASSUME IInv, NEW cols, NEW lists, MadeOf(cols, lists), through \in Nat \ {0},
           NEW column \in Nat \ {0}, NEW op, NEW search \in AllTypeVariant, search # NULL,
           ScanOutcome(output, column, search) = "ok", NEW value,
           NEW k \in DOMAIN output.chunks
    PROVE  ChunkPositions(k, output.chunks[k], column, op, value)
              \in Seq(Held(chunks, IF column > through THEN column ELSE through))
<1> DEFINE upTo == IF column > through THEN column ELSE through
<1>1. /\ cols \in Seq(ColumnDefinition) /\ cols # <<>>
      /\ lists \in NonEmptyLists(Held(chunks, through)) /\ output = MakeOutput(cols, lists)
  BY DEF MadeOf
<1>2. CASE lists = <<>>
  <2>1. output = MakeOutput(cols, <<>>)
    BY <1>1, <1>2
  <2>2. DOMAIN output.chunks = {1} /\ SizeOf(output.chunks[1]) = 0
    BY <1>1, <2>1, EmptyOutput
  <2>3. k = 1
    BY <2>2
  <2> QED
    BY <2>2, <2>3, EmptySeq DEF ChunkPositions
<1>3. CASE lists # <<>>
  <2> DEFINE pos == lists[k]
             S == MatchingRows(pos, column, op, value)
  <2>1. DOMAIN output.chunks = DOMAIN lists
    BY <1>1, <1>3, OutputChunks
  <2>2. pos \in Seq(Held(chunks, through))
    BY <1>1, <2>1, NonEmptyListsType
  <2>3. /\ ChunkPositions(k, output.chunks[k], column, op, value) = Selected(pos, S)
        /\ \A row \in Range(pos) : RowOutcome(cols[column].type, column, row) = "ok"
    <3>1. k \in DOMAIN lists
      BY <2>1
    <3>2. /\ column \in DOMAIN cols
          /\ \A row \in Range(lists[k]) : RowOutcome(cols[column].type, column, row) = "ok"
      BY <1>3, <3>1, GoodOutputChunk
    <3> QED
      BY <1>3, <3>1, <3>2, OutputChunkPositions
  <2>4. ASSUME NEW row \in Held(chunks, through), row \in Range(pos)
        PROVE  row \in Held(chunks, upTo)
    <3>1. /\ row.chunk \in DOMAIN chunks /\ column \in DOMAIN chunks[row.chunk]
          /\ row.offset <= SegmentSize(chunks[row.chunk][column])
      BY <2>3, <2>4, GoodRow
    <3>2. /\ row \in [chunk : Nat, offset : Nat]
          /\ row # NULL_ROW_ID =>
                row.offset >= 1
      BY DEF Held
    <3>3. \A b \in 1 .. column :
             /\ b \in DOMAIN chunks[row.chunk]
             /\ SegmentSize(chunks[row.chunk][column]) <= SegmentSize(chunks[row.chunk][b])
             /\ SegmentSize(chunks[row.chunk][b]) \in Nat
      BY <3>1, SizesInChunk
    <3>4. SegmentSize(chunks[row.chunk][column]) \in Nat /\ row.offset \in Nat
      BY <3>1, <3>2, SizesInChunk
    <3>5. \A b \in 1 .. column :
             b \in DOMAIN chunks[row.chunk] /\ row.offset <= SegmentSize(chunks[row.chunk][b])
      BY <3>1, <3>3, <3>4
    <3>6. CASE column > through
      BY <3>1, <3>2, <3>5, <3>6 DEF Held
    <3>7. CASE ~(column > through)
      BY <2>4, <3>7
    <3> QED
      BY <3>6, <3>7
  <2>5. Selected(pos, S) \in Seq(Held(chunks, through) \cap S)
    <3> HIDE DEF S
    <3> QED
      BY <2>2, SelectedType
  <2>6. Held(chunks, through) \cap S \subseteq Held(chunks, upTo)
    BY <2>4 DEF MatchingRows
  <2> QED
    BY <2>3, <2>5, <2>6, SeqMonotonic
<1> QED
  BY <1>2, <1>3

-----------------------------------------------------------------------------
(* Outcomes and outputs of the operators *)

Outcomes == {"ok", "throws", "undefined"}

\* What a table that is scanned or printed looks like.
Shaped(input) ==
    /\ input.columns \in Seq(ColumnDefinition)
    /\ \E n \in Nat : DOMAIN input.chunks = 1 .. n
    /\ \A k \in DOMAIN input.chunks :
          /\ DOMAIN input.chunks[k] \subseteq Nat
          /\ \A c \in DOMAIN input.chunks[k] :
                input.chunks[k][c].kind = "reference" => DOMAIN input.chunks[k][c].pos \subseteq Nat

LEMMA TableIsShaped ==
    ASSUME IInv PROVE Shaped(BaseTable)
<1>1. columns \in Seq(ColumnDefinition) /\ Len(chunks) \in Nat /\ DOMAIN chunks = 1 .. Len(chunks)
  BY DEF IInv
<1>2. \A k \in DOMAIN chunks : DOMAIN chunks[k] \subseteq Nat
  BY SizesInChunk
<1>3. \A k \in DOMAIN chunks : \A c \in DOMAIN chunks[k] : chunks[k][c].kind # "reference"
  BY SizesInChunk
<1> QED
  BY <1>1, <1>2, <1>3 DEF Shaped, BaseTable

LEMMA MadeIsShaped ==
    ASSUME NEW cols, NEW lists, MadeOf(cols, lists)
    PROVE  Shaped(output) /\ output # NoOutput /\ output.columns = cols
<1>1. /\ cols \in Seq(ColumnDefinition) /\ cols # <<>>
      /\ lists \in NonEmptyLists(Held(chunks, through)) /\ output = MakeOutput(cols, lists)
  BY DEF MadeOf
<1>2. DOMAIN cols \subseteq Nat
  BY <1>1
<1>3. CASE lists = <<>>
  <2>1. output = MakeOutput(cols, <<>>)
    BY <1>1, <1>3
  <2>2. /\ output.columns = cols /\ output # NoOutput /\ DOMAIN output.chunks = {1}
        /\ output.chunks[1] = [c \in DOMAIN cols |-> NewValueSegment(cols[c].type, FALSE)]
    BY <1>1, <2>1, EmptyOutput
  <2>3. /\ DOMAIN output.chunks[1] = DOMAIN cols
        /\ \A c \in DOMAIN cols : output.chunks[1][c].kind = "value"
    BY <2>2 DEF NewValueSegment
  <2>4. {1} = 1 .. 1
    OBVIOUS
  <2> QED
    BY <1>1, <1>2, <2>2, <2>3, <2>4 DEF Shaped
<1>4. CASE lists # <<>>
  <2>1. /\ output.columns = cols /\ output # NoOutput /\ DOMAIN output.chunks = DOMAIN lists
        /\ \A k \in DOMAIN lists :
              /\ DOMAIN output.chunks[k] = DOMAIN cols
              /\ \A c \in DOMAIN cols : output.chunks[k][c] = ReferenceSegment(c, lists[k])
    BY <1>1, <1>4, OutputChunks
  <2>2. /\ Len(lists) \in Nat /\ DOMAIN lists = 1 .. Len(lists)
        /\ \A k \in DOMAIN lists : lists[k] \in Seq(Held(chunks, through))
    BY <1>1, NonEmptyListsType
  <2>3. \A k \in DOMAIN lists : DOMAIN lists[k] \subseteq Nat
    BY <2>2
  <2>4. ASSUME NEW k \in DOMAIN output.chunks
        PROVE  /\ DOMAIN output.chunks[k] \subseteq Nat
               /\ \A c \in DOMAIN output.chunks[k] : DOMAIN output.chunks[k][c].pos \subseteq Nat
    <3>1. k \in DOMAIN lists /\ DOMAIN output.chunks[k] = DOMAIN cols
      BY <2>1
    <3>2. ASSUME NEW c \in DOMAIN cols
          PROVE  DOMAIN output.chunks[k][c].pos \subseteq Nat
      <4>1. output.chunks[k][c] = ReferenceSegment(c, lists[k])
        BY <2>1, <3>1
      <4>2. output.chunks[k][c].pos = lists[k]
        BY <4>1 DEF ReferenceSegment
      <4> QED
        BY <2>3, <3>1, <4>2
    <3> QED
      BY <1>2, <3>1, <3>2
  <2>5. output.columns \in Seq(ColumnDefinition) /\ \E n \in Nat : DOMAIN output.chunks = 1 .. n
    BY <1>1, <2>1, <2>2
  <2> QED
    BY <2>1, <2>4, <2>5 DEF Shaped
<1> QED
  BY <1>3, <1>4

LEMMA OutputIsShaped ==
    ASSUME QInv PROVE Shaped(output)
<1>1. CASE output = NoOutput
  <2>1. DOMAIN <<>> = 1 .. 0 /\ <<>> \in Seq(ColumnDefinition)
    BY EmptySeq
  <2> QED
    BY <1>1, <2>1 DEF Shaped, NoOutput
<1>2. CASE \E cols, lists : MadeOf(cols, lists)
  BY <1>2, MadeIsShaped
<1> QED
  BY <1>1, <1>2 DEF QInv

LEMMA ScanOutcomeType ==
    ASSUME NEW input, Shaped(input), NEW column, NEW search
    PROVE  ScanOutcome(input, column, search) \in Outcomes
<1> DEFINE type == input.columns[column].type
           turn(k) == ChunkOutcome(input.chunks[k], type, column, search)
           turns == [k \in DOMAIN input.chunks |-> turn(k)]
<1>1. ASSUME NEW k \in DOMAIN input.chunks
      PROVE  turn(k) \in Outcomes
  <2> DEFINE chunk == input.chunks[k]
             rows == [i \in DOMAIN chunk[column].pos |-> RowOutcome(type, column, chunk[column].pos[i])]
  <2>1. \/ turn(k) \in Outcomes
        \/ /\ column \in DOMAIN chunk /\ chunk[column].kind = "reference"
           /\ turn(k) = FirstFailure(rows)
    <3> HIDE DEF type, rows
    <3> QED
      BY DEF ChunkOutcome, Outcomes, rows
  <2>2. \A i \in DOMAIN rows : rows[i] \in Outcomes
    <3> HIDE DEF type, chunk
    <3> QED
      BY DEF RowOutcome, Outcomes
  <2>3. column \in DOMAIN chunk /\ chunk[column].kind = "reference" => DOMAIN rows \subseteq Nat
    BY DEF Shaped
  <2> HIDE DEF rows, turn, chunk
  <2> QED
    BY <2>1, <2>2, <2>3, AllTurnsWell DEF Outcomes
<1>2. DOMAIN turns \subseteq Nat /\ \A k \in DOMAIN turns : turns[k] \in Outcomes
  <2> HIDE DEF turn
  <2> QED
    BY <1>1 DEF Shaped
<1>3. \/ ScanOutcome(input, column, search) \in Outcomes
      \/ ScanOutcome(input, column, search) = FirstFailure(turns)
  BY DEF ScanOutcome, ColumnGetterOutcome, Outcomes
<1> HIDE DEF turns
<1> QED
  BY <1>2, <1>3, AllTurnsWell DEF Outcomes

\* What Print does with an element.
PrintedCell(segment, i) ==
    IF segment.kind = "reference" THEN ReferencedOutcome(segment.column, segment.pos[i])
                                  ELSE CellOutcome(segment, i)

LEMMA PrintOutcomeType ==
    ASSUME NEW input, Shaped(input)
    PROVE  PrintOutcome(input) \in Outcomes
<1> DEFINE cell(k, c, i) == PrintedCell(input.chunks[k][c], i)
           cells(k, c) == [i \in 1 .. SizeOf(input.chunks[k]) |-> cell(k, c, i)]
           inChunk(k) == [c \in DOMAIN input.chunks[k] |-> FirstFailure(cells(k, c))]
           turns == [k \in DOMAIN input.chunks |-> FirstFailure(inChunk(k))]
<1>1. PrintOutcome(input) = FirstFailure(turns)
  BY DEF PrintOutcome, ChunkPrintOutcome, PrintedCell
<1>2. ASSUME NEW k \in DOMAIN input.chunks, NEW c \in DOMAIN input.chunks[k]
      PROVE  FirstFailure(cells(k, c)) \in Outcomes
  <2>1. \A i : cell(k, c, i) \in Outcomes
    BY DEF PrintedCell, CellOutcome, ReferencedOutcome, Outcomes
  <2>2. DOMAIN cells(k, c) \subseteq Nat /\ \A i \in DOMAIN cells(k, c) : cells(k, c)[i] \in Outcomes
    <3> HIDE DEF cell
    <3> QED
      BY <2>1
  <2> HIDE DEF cells
  <2> QED
    BY <2>2, AllTurnsWell DEF Outcomes
<1>3. ASSUME NEW k \in DOMAIN input.chunks
      PROVE  FirstFailure(inChunk(k)) \in Outcomes
  <2>1. DOMAIN inChunk(k) \subseteq Nat /\ \A c \in DOMAIN inChunk(k) : inChunk(k)[c] \in Outcomes
    <3> HIDE DEF cells
    <3> QED
      BY <1>2 DEF Shaped
  <2> HIDE DEF inChunk
  <2> QED
    BY <2>1, AllTurnsWell DEF Outcomes
<1>4. DOMAIN turns \subseteq Nat /\ \A k \in DOMAIN turns : turns[k] \in Outcomes
  <2> HIDE DEF inChunk
  <2> QED
    BY <1>3 DEF Shaped
<1> HIDE DEF turns
<1> QED
  BY <1>1, <1>4, AllTurnsWell DEF Outcomes

\* Print gets through a table when it gets through each of its elements.
LEMMA PrintIsOk ==
    ASSUME NEW input, Shaped(input)
    PROVE  PrintOutcome(input) = "ok" <=>
              \A k \in DOMAIN input.chunks : \A c \in DOMAIN input.chunks[k] :
                 \A i \in 1 .. SizeOf(input.chunks[k]) : PrintedCell(input.chunks[k][c], i) = "ok"
<1> DEFINE cell(k, c, i) == PrintedCell(input.chunks[k][c], i)
           cells(k, c) == [i \in 1 .. SizeOf(input.chunks[k]) |-> cell(k, c, i)]
           inChunk(k) == [c \in DOMAIN input.chunks[k] |-> FirstFailure(cells(k, c))]
           turns == [k \in DOMAIN input.chunks |-> FirstFailure(inChunk(k))]
<1>1. PrintOutcome(input) = FirstFailure(turns)
  BY DEF PrintOutcome, ChunkPrintOutcome, PrintedCell
<1>2. \A k, c : FirstFailure(cells(k, c)) = "ok" <=>
                   \A i \in 1 .. SizeOf(input.chunks[k]) : cell(k, c, i) = "ok"
  <2> SUFFICES ASSUME NEW k, NEW c
               PROVE  FirstFailure(cells(k, c)) = "ok" <=>
                         \A i \in 1 .. SizeOf(input.chunks[k]) : cell(k, c, i) = "ok"
    OBVIOUS
  <2> HIDE DEF cell
  <2>1. /\ DOMAIN cells(k, c) = 1 .. SizeOf(input.chunks[k]) /\ DOMAIN cells(k, c) \subseteq Nat
        /\ \A i \in 1 .. SizeOf(input.chunks[k]) : cells(k, c)[i] = cell(k, c, i)
    OBVIOUS
  <2> HIDE DEF cells
  <2> QED
    BY <2>1, AllTurnsWell
<1>3. \A k \in DOMAIN input.chunks :
         FirstFailure(inChunk(k)) = "ok" <=>
            \A c \in DOMAIN input.chunks[k] : FirstFailure(cells(k, c)) = "ok"
  <2> SUFFICES ASSUME NEW k \in DOMAIN input.chunks
               PROVE  FirstFailure(inChunk(k)) = "ok" <=>
                         \A c \in DOMAIN input.chunks[k] : FirstFailure(cells(k, c)) = "ok"
    OBVIOUS
  <2> HIDE DEF cells
  <2>1. /\ DOMAIN inChunk(k) = DOMAIN input.chunks[k] /\ DOMAIN inChunk(k) \subseteq Nat
        /\ \A c \in DOMAIN input.chunks[k] : inChunk(k)[c] = FirstFailure(cells(k, c))
    BY DEF Shaped
  <2> HIDE DEF inChunk
  <2> QED
    BY <2>1, AllTurnsWell
<1>4. FirstFailure(turns) = "ok" <=> \A k \in DOMAIN input.chunks : FirstFailure(inChunk(k)) = "ok"
  <2> HIDE DEF inChunk
  <2>1. /\ DOMAIN turns = DOMAIN input.chunks /\ DOMAIN turns \subseteq Nat
        /\ \A k \in DOMAIN input.chunks : turns[k] = FirstFailure(inChunk(k))
    BY DEF Shaped
  <2> HIDE DEF turns
  <2> QED
    BY <2>1, AllTurnsWell
<1> HIDE DEF cells, inChunk, turns
<1> QED
  BY <1>1, <1>2, <1>3, <1>4

\* The position lists that a scan makes, chunk by chunk.
ListsFound(input, column, op, search) ==
    [k \in DOMAIN input.chunks |->
        ChunkPositions(k, input.chunks[k], column, op,
                       TypeCast[input.columns[column].type, search])]

\* The lists of a scan are those found in the chunks, without the empty ones.
LEMMA PositionListsType ==
    ASSUME NEW input, Shaped(input), NEW column, NEW op, NEW search, search # NULL, NEW H,
           \A k \in DOMAIN input.chunks :
              ChunkPositions(k, input.chunks[k], column, op, TypeCast[input.columns[column].type, search])
                 \in Seq(H)
    PROVE  /\ PositionLists(input, column, op, search) \in NonEmptyLists(H)
           /\ Found(input, column, op, search) = FlattenSeq(ListsFound(input, column, op, search))
<1> DEFINE value == TypeCast[input.columns[column].type, search]
           lists == [k \in DOMAIN input.chunks |->
                        ChunkPositions(k, input.chunks[k], column, op, value)]
<1>1. PositionLists(input, column, op, search) = Selected(lists, Range(lists) \ {<<>>})
  BY DEF PositionLists
<1>2. PICK n \in Nat : DOMAIN input.chunks = 1 .. n
  BY DEF Shaped
<1>3. lists \in [1 .. n -> Seq(H)]
  BY <1>2
<1>4. lists \in Seq(Seq(H))
  BY <1>3, FunctionIsSeq
<1> HIDE DEF lists
<1>5. PositionLists(input, column, op, search) \in NonEmptyLists(H)
      /\ FlattenSeq(PositionLists(input, column, op, search)) = FlattenSeq(lists)
  BY <1>1, <1>4, DropEmpty
<1> QED
  BY <1>5 DEF Found, ListsFound, lists

-----------------------------------------------------------------------------
(* QInv is inductive *)

LEMMA EmptyIsNonEmptyLists == \A H : <<>> \in NonEmptyLists(H)
BY EmptySeq DEF NonEmptyLists

\* The table stays, and so does the output, or it is made anew.
LEMMA OperatorStep ==
    ASSUME QInv, UNCHANGED vars, query' \in Outcomes, through' \in Nat \ {0},
           \/ output' = output /\ through' = through
           \/ \E cols, lists :
                 /\ cols \in Seq(ColumnDefinition) /\ cols # <<>>
                 /\ Len(cols) <= Len(columns)
                 /\ lists \in NonEmptyLists(Held(chunks, through'))
                 /\ output' = MakeOutput(cols, lists)
    PROVE  QInv'
<1>1. chunks' = chunks /\ columns' = columns
  BY DEF vars
<1>2. IInv'
  BY NextIInv DEF QInv
<1>3. DictionariesWellFormed' /\ Len(chunks') <= MaxChunks
  BY <1>1 DEF QInv, DictionariesWellFormed
<1>4. output' = NoOutput \/ \E cols, lists : MadeOf(cols, lists)'
  <2>1. CASE output' = output /\ through' = through
    BY <1>1, <2>1 DEF QInv, MadeOf
  <2>2. CASE \E cols, lists :
                /\ cols \in Seq(ColumnDefinition) /\ cols # <<>>
                /\ Len(cols) <= Len(columns)
                /\ lists \in NonEmptyLists(Held(chunks, through'))
                /\ output' = MakeOutput(cols, lists)
    BY <1>1, <2>2 DEF MadeOf
  <2> QED
    BY <2>1, <2>2
<1> QED
  BY <1>2, <1>3, <1>4 DEF QInv, Outcomes

LEMMA ScanTableQInv ==
    ASSUME QInv, NEW column \in 1 .. MaxColumns, NEW op \in ScanType, NEW search \in AllTypeVariant,
           ScanTable(column, op, search)
    PROVE  QInv'
<1> DEFINE lists == PositionLists(BaseTable, column, op, search)
<1>1. /\ query' = ScanOutcome(BaseTable, column, search) /\ UNCHANGED vars
      /\ output' = IF query' = "ok" THEN MakeOutput(columns, lists) ELSE output
      /\ through' = IF query' = "ok" THEN column ELSE through
  BY DEF ScanTable, Scan, BaseTable
<1>2. IInv /\ column \in Nat \ {0} /\ through \in Nat \ {0}
  BY TableAssumption DEF QInv
<1>3. Shaped(BaseTable)
  BY <1>2, TableIsShaped
<1>4. query' \in Outcomes
  BY <1>1, <1>3, ScanOutcomeType
<1>5. CASE query' # "ok"
  <2> HIDE DEF lists
  <2> QED
    BY <1>1, <1>2, <1>4, <1>5, OperatorStep
<1>6. CASE query' = "ok"
  <2>1. columns \in Seq(ColumnDefinition) /\ columns # <<>> /\ Len(columns) <= Len(columns)
    <3>1. BaseTable.columns = columns
      BY DEF BaseTable
    <3>2. BaseTable.columns \in Seq(ColumnDefinition) /\ DOMAIN BaseTable.chunks \subseteq Nat
      BY <1>3 DEF Shaped
    <3>3. column \in DOMAIN BaseTable.columns
      BY <1>1, <1>2, <1>6, <3>2, GoodScan
    <3> QED
      BY <1>2, <3>1, <3>3 DEF IInv
  <2>2. lists \in NonEmptyLists(Held(chunks, column))
    <3>1. CASE search = NULL
      BY <3>1, EmptyIsNonEmptyLists DEF PositionLists
    <3>2. CASE search # NULL
      <4>1. BaseTable.columns = columns /\ BaseTable.chunks = chunks
        BY DEF BaseTable
      <4>2. \A k \in DOMAIN BaseTable.chunks :
               ChunkPositions(k, BaseTable.chunks[k], column, op,
                              TypeCast[BaseTable.columns[column].type, search])
                  \in Seq(Held(chunks, column))
        BY <1>1, <1>2, <1>6, <3>2, <4>1, FoundInTable
      <4> QED
        BY <1>3, <3>2, <4>2, PositionListsType
    <3> QED
      BY <3>1, <3>2
  <2> HIDE DEF lists
  <2>3. output' = MakeOutput(columns, lists) /\ through' = column
    BY <1>1, <1>6
  <2> QED
    BY <1>1, <1>2, <1>4, <2>1, <2>2, <2>3, OperatorStep
<1> QED
  BY <1>5, <1>6

LEMMA ScanOutputQInv ==
    ASSUME QInv, NEW column \in 1 .. MaxColumns, NEW op \in ScanType, NEW search \in AllTypeVariant,
           ScanOutput(column, op, search)
    PROVE  QInv'
<1> DEFINE found == PositionLists(output, column, op, search)
           upTo == IF column > through THEN column ELSE through
<1>1. /\ query' = ScanOutcome(output, column, search) /\ UNCHANGED vars /\ output # NoOutput
      /\ output' = IF query' = "ok" THEN MakeOutput(output.columns, found) ELSE output
      /\ through' = IF query' = "ok" /\ column > through THEN column ELSE through
  BY DEF ScanOutput, Scan
<1>2. IInv /\ column \in Nat \ {0} /\ through \in Nat \ {0}
  BY TableAssumption DEF QInv
<1>3. Shaped(output)
  BY OutputIsShaped
<1>4. query' \in Outcomes
  BY <1>1, <1>3, ScanOutcomeType
<1>5. PICK cols, lists : MadeOf(cols, lists)
  BY <1>1 DEF QInv
<1>6. CASE query' # "ok"
  <2> HIDE DEF found
  <2> QED
    BY <1>1, <1>2, <1>4, <1>6, OperatorStep
<1>7. CASE query' = "ok"
  <2>1. output.columns = cols
    BY <1>5, MadeIsShaped
  <2>2. found \in NonEmptyLists(Held(chunks, upTo))
    <3>1. CASE search = NULL
      BY <3>1, EmptyIsNonEmptyLists DEF PositionLists
    <3>2. CASE search # NULL
      <4>1. \A k \in DOMAIN output.chunks :
               ChunkPositions(k, output.chunks[k], column, op,
                              TypeCast[output.columns[column].type, search])
                  \in Seq(Held(chunks, upTo))
        BY <1>1, <1>2, <1>5, <1>7, <3>2, FoundInOutput
      <4> QED
        BY <1>3, <3>2, <4>1, PositionListsType
    <3> QED
      BY <3>1, <3>2
  <2>3. through' = upTo
    BY <1>1, <1>7
  <2> HIDE DEF found, upTo
  <2>4. output' = MakeOutput(cols, found)
    BY <1>1, <1>7, <2>1
  <2>5. through' \in Nat \ {0}
    BY <1>1, <1>2
  <2>6. cols \in Seq(ColumnDefinition) /\ cols # <<>> /\ Len(cols) <= Len(columns)
    BY <1>5 DEF MadeOf
  <2> QED
    BY <1>1, <1>4, <2>2, <2>3, <2>4, <2>5, <2>6, OperatorStep
<1> QED
  BY <1>6, <1>7

LEMMA ReferQInv ==
    ASSUME QInv, NEW n \in 1 .. MaxPositions, NEW pos \in [1 .. n -> Referable], Refer(pos)
    PROVE  QInv'
<1>1. /\ UNCHANGED vars /\ columns # <<>> /\ output' = MakeOutput(columns, <<pos>>)
      /\ through' = 1 /\ query' = "ok"
  BY DEF Refer
<1>2. IInv /\ columns \in Seq(ColumnDefinition) /\ n \in Nat
  BY QueryAssumption DEF QInv, IInv
<1>3. ASSUME NEW row \in Referable
      PROVE  row \in Held(chunks, 1)
  <2>1. CASE row = NULL_ROW_ID
    BY <2>1 DEF Held, NULL_ROW_ID
  <2>2. ASSUME NEW k \in DOMAIN chunks, row \in Range(RowIDs(k, ChunkSize(chunks[k])))
        PROVE  row \in Held(chunks, 1)
    <3>1. /\ k \in Nat /\ (ChunkSize(chunks[k]) # 0 => /\ 1 \in DOMAIN chunks[k]
                                                      /\ ChunkSize(chunks[k]) = SegmentSize(chunks[k][1])
                                                      /\ SegmentSize(chunks[k][1]) \in Nat)
      BY <1>2, SizesInChunk
    <3>2. ChunkSize(chunks[k]) \in Nat
      BY <3>1
    <3>3. PICK i \in 1 .. ChunkSize(chunks[k]) : row = [chunk |-> k, offset |-> i]
      <4> DEFINE size == ChunkSize(chunks[k])
      <4> HIDE DEF size
      <4>1. Range(RowIDs(k, size)) = {[chunk |-> k, offset |-> i] : i \in 1 .. size}
        BY <3>1, <3>2, RowIDsRange DEF size
      <4>2. row \in Range(RowIDs(k, size))
        BY <2>2 DEF size
      <4>3. \E i \in 1 .. size : row = [chunk |-> k, offset |-> i]
        BY <4>1, <4>2
      <4> QED
        BY <4>3 DEF size
    <3>4. ChunkSize(chunks[k]) # 0 /\ i \in Nat /\ i >= 1
      BY <3>2, <3>3
    <3>5. \A column \in 1 .. 1 : column = 1
      OBVIOUS
    <3> QED
      BY <3>1, <3>3, <3>4, <3>5 DEF Held
  <2> QED
    BY <2>1, <2>2 DEF Referable
<1>4. pos \in Seq(Held(chunks, 1)) /\ pos # <<>>
  <2>1. pos \in [1 .. n -> Held(chunks, 1)]
    BY <1>3
  <2>2. pos \in Seq(Held(chunks, 1)) /\ Len(pos) = n
    BY <1>2, <2>1, FunctionIsSeq
  <2> QED
    BY <2>2
<1>5. <<pos>> \in NonEmptyLists(Held(chunks, 1))
  BY <1>4 DEF NonEmptyLists
<1>6. <<pos>> \in NonEmptyLists(Held(chunks, through')) /\ through' \in Nat \ {0}
  BY <1>1, <1>5
<1>7. query' \in Outcomes /\ Len(columns) <= Len(columns)
  BY <1>1, <1>2 DEF Outcomes
<1> DEFINE lists == <<pos>>
<1> HIDE DEF lists
<1>8. lists \in NonEmptyLists(Held(chunks, through')) /\ output' = MakeOutput(columns, lists)
  BY <1>1, <1>6 DEF lists
<1> QED
  BY <1>1, <1>2, <1>6, <1>7, <1>8, OperatorStep

\* A call on the table, which may widen it and takes no row from it.
LEMMA TableCallQInv ==
    ASSUME QInv, TableCall PROVE QInv'
<1>1. Next /\ output' = output /\ through' = through /\ query' = query
  BY DEF TableCall
<1>2. IInv /\ DictionariesWellFormed /\ Len(chunks) <= MaxChunks /\ through \in Nat \ {0}
  BY DEF QInv
<1>3. IInv'
  BY <1>1, <1>2, NextIInv
<1>4. TableStep /\ Len(chunks') <= MaxChunks /\ Len(columns) <= Len(columns')
  BY <1>1, <1>2, NextTableStep
<1>5. DictionariesWellFormed'
  BY <1>2, <1>4, DictionariesStayWellFormed
<1>6. ASSUME NEW cols, NEW lists, MadeOf(cols, lists)
      PROVE  MadeOf(cols, lists)'
  <2>1. /\ cols \in Seq(ColumnDefinition) /\ cols # <<>> /\ Len(cols) <= Len(columns)
        /\ lists \in NonEmptyLists(Held(chunks, through)) /\ output = MakeOutput(cols, lists)
    BY <1>6 DEF MadeOf
  <2>2. Held(chunks, through) \subseteq Held(chunks', through)
    BY <1>2, <1>3, <1>4, HeldStays
  <2>3. lists \in NonEmptyLists(Held(chunks', through))
    BY <2>1, <2>2, NonEmptyListsGrow
  <2>4. Len(cols) <= Len(columns')
    <3>1. Len(cols) \in Nat /\ Len(columns) \in Nat /\ Len(columns') \in Nat
      BY <1>2, <1>3, <2>1 DEF IInv
    <3> QED
      BY <1>4, <2>1, <3>1
  <2> QED
    BY <1>1, <2>1, <2>3, <2>4 DEF MadeOf
<1>7. output' = NoOutput \/ \E cols, lists : MadeOf(cols, lists)'
  <2>1. CASE output = NoOutput
    BY <1>1, <2>1
  <2>2. CASE \E cols, lists : MadeOf(cols, lists)
    BY <1>6, <2>2
  <2> QED
    BY <2>1, <2>2 DEF QInv
<1> QED
  BY <1>1, <1>2, <1>3, <1>4, <1>5, <1>7 DEF QInv

LEMMA InitQInv ==
    ASSUME QueryInit PROVE QInv
<1>1. Init /\ output = NoOutput /\ through = 1 /\ query = "ok"
  BY DEF QueryInit
<1>2. IInv
  BY <1>1, InitIInv
<1>3. chunks = <<(<<>>)>>
  BY <1>1 DEF Init, NewChunk
<1>4. Len(chunks) <= MaxChunks /\ DictionariesWellFormed
  BY <1>3, TableAssumption DEF DictionariesWellFormed
<1> QED
  BY <1>1, <1>2, <1>4 DEF QInv

LEMMA NextQInv ==
    ASSUME QInv, [QueryNext]_queryVars
    PROVE  QInv'
<1>1. CASE UNCHANGED queryVars
  <2>1. UNCHANGED vars /\ query' = query /\ output' = output /\ through' = through
    BY <1>1 DEF queryVars
  <2>2. query' \in Outcomes /\ through' \in Nat \ {0}
    BY <2>1 DEF QInv, Outcomes
  <2> QED
    BY <2>1, <2>2, OperatorStep
<1>2. CASE TableCall
  BY <1>2, TableCallQInv
<1>3. ASSUME NEW input, Shaped(input), PrintTable(input)
      PROVE  QInv'
  <2>1. UNCHANGED vars /\ query' = PrintOutcome(input) /\ output' = output /\ through' = through
    BY <1>3 DEF PrintTable
  <2>2. query' \in Outcomes /\ through' \in Nat \ {0}
    BY <1>3, <2>1, PrintOutcomeType DEF QInv
  <2> QED
    BY <2>1, <2>2, OperatorStep
<1>4. Shaped(BaseTable) /\ Shaped(output)
  BY TableIsShaped, OutputIsShaped DEF QInv
<1> QED
  BY <1>1, <1>2, <1>3, <1>4, ScanTableQInv, ScanOutputQInv, ReferQInv DEF QueryNext

LEMMA QueryInductiveInvariant == QuerySpec => []QInv
BY InitQInv, NextQInv, PTL DEF QuerySpec

-----------------------------------------------------------------------------
(* What follows from QInv *)

\* A row of the table is within the bounds of chunk ids and offsets.
LEMMA HeldRow ==
    ASSUME IInv, NEW upTo \in Nat \ {0}, NEW row \in Held(chunks, upTo), row # NULL_ROW_ID
    PROVE  /\ row \in [chunk : Nat, offset : Nat]
           /\ row.chunk \in DOMAIN chunks /\ 1 \in DOMAIN chunks[row.chunk]
           /\ row.offset \in 1 .. SizeOf(chunks[row.chunk])
           /\ row.offset <= MaxChunkOffset
           /\ \A column \in 1 .. upTo : InBounds(column, row)
<1>1. /\ row \in [chunk : Nat, offset : Nat]
      /\ row.chunk \in DOMAIN chunks /\ row.offset >= 1
      /\ \A column \in 1 .. upTo : InBounds(column, row)
  BY DEF Held, InBounds
<1>2. 1 \in 1 .. upTo
  OBVIOUS
<1>3. /\ 1 \in DOMAIN chunks[row.chunk]
      /\ row.offset <= SegmentSize(chunks[row.chunk][1])
  BY <1>1, <1>2 DEF InBounds
<1>4. /\ SizeOf(chunks[row.chunk]) = ChunkSize(chunks[row.chunk])
      /\ SegmentSize(chunks[row.chunk][1]) \in Nat
      /\ SegmentSize(chunks[row.chunk][1]) <= MaxChunkOffset
  BY <1>1, <1>3, SizesInChunk
<1>5. ChunkSize(chunks[row.chunk]) = SegmentSize(chunks[row.chunk][1])
  BY <1>3 DEF ChunkSize, NewChunk
<1>6. MaxChunkOffset \in Nat
  BY NumericMaxAssumption DEF MaxChunkOffset
<1>7. row.offset \in 1 .. SizeOf(chunks[row.chunk]) /\ row.offset <= MaxChunkOffset
  BY <1>1, <1>3, <1>4, <1>5, <1>6
<1> QED
  BY <1>1, <1>3, <1>7

LEMMA OutputRows ==
    ASSUME QInv
    PROVE  PositionsOf(output) \in Seq(Held(chunks, through))
<1>1. CASE output = NoOutput
  <2>1. PositionsOf(output) = FlattenSeq(<<>>)
    BY <1>1 DEF PositionsOf, NoOutput
  <2>2. FlattenSeq(<<>>) = <<>>
    BY DEF FlattenSeq
  <2> QED
    BY <2>1, <2>2, EmptySeq
<1>2. ASSUME NEW cols, NEW lists, MadeOf(cols, lists)
      PROVE  PositionsOf(output) \in Seq(Held(chunks, through))
  BY <1>2, OutputPositions, NonEmptyListsType DEF MadeOf
<1> QED
  BY <1>1, <1>2 DEF QInv

LEMMA QInvBounds ==
    ASSUME QInv PROVE PositionsInBounds
<1> SUFFICES ASSUME NEW row \in Range(PositionsOf(output)) \ {NULL_ROW_ID},
                    NEW column \in DOMAIN output.columns, column <= through
             PROVE  InBounds(column, row)
  BY DEF PositionsInBounds
<1>1. row \in Held(chunks, through)
  BY OutputRows DEF Range
<1>2. column \in 1 .. through
  BY OutputIsShaped DEF Shaped, QInv
<1> QED
  BY <1>1, <1>2, HeldRow DEF QInv

LEMMA QInvType ==
    ASSUME QInv PROVE QueryTypeOK
<1>1. TypeOK /\ query \in {"ok", "throws", "undefined"} /\ through \in Nat
  BY IInvIsEnough DEF QInv
<1>2. output.columns \in Seq(ColumnDefinition)
  BY OutputIsShaped DEF Shaped
<1> DEFINE Fits(k, c) ==
               LET segment == output.chunks[k][c]
               IN  IF segment.kind = "reference"
                   THEN segment.column = c /\ segment.pos \in Seq(Positions) \ {<<>>}
                   ELSE /\ Len(output.chunks) = 1
                        /\ segment = NewValueSegment(output.columns[c].type, FALSE)
<1>3. ASSUME NEW k \in DOMAIN output.chunks
      PROVE  /\ DOMAIN output.chunks[k] = DOMAIN output.columns
             /\ \A c \in DOMAIN output.columns : Fits(k, c)
  <2>1. output # NoOutput
    BY DEF NoOutput
  <2>2. PICK cols, lists : MadeOf(cols, lists)
    BY <2>1 DEF QInv
  <2>3. /\ cols \in Seq(ColumnDefinition) /\ cols # <<>>
        /\ lists \in NonEmptyLists(Held(chunks, through)) /\ output = MakeOutput(cols, lists)
    BY <2>2 DEF MadeOf
  <2>4. CASE lists = <<>>
    <3>1. output = MakeOutput(cols, <<>>)
      BY <2>3, <2>4
    <3>2. /\ output.columns = cols /\ k = 1 /\ Len(output.chunks) = 1
          /\ output.chunks[1] = [c \in DOMAIN cols |-> NewValueSegment(cols[c].type, FALSE)]
      <4>1. /\ output.columns = cols /\ DOMAIN output.chunks = {1} /\ Len(output.chunks) = 1
            /\ output.chunks[1] = [c \in DOMAIN cols |-> NewValueSegment(cols[c].type, FALSE)]
        BY <2>3, <3>1, EmptyOutput
      <4> QED
        BY <4>1
    <3>3. \A c \in DOMAIN cols : output.chunks[k][c] = NewValueSegment(cols[c].type, FALSE)
      BY <3>2
    <3>4. \A c : NewValueSegment(cols[c].type, FALSE).kind = "value"
      BY DEF NewValueSegment
    <3> QED
      BY <3>2, <3>3, <3>4
  <2>5. CASE lists # <<>>
    <3>1. /\ output.columns = cols /\ k \in DOMAIN lists
          /\ DOMAIN output.chunks[k] = DOMAIN cols
          /\ \A c \in DOMAIN cols : output.chunks[k][c] = ReferenceSegment(c, lists[k])
      BY <2>3, <2>5, OutputChunks
    <3>2. lists[k] \in Seq(Held(chunks, through)) /\ lists[k] # <<>>
      BY <2>3, <3>1, NonEmptyListsType
    <3>3. ASSUME NEW row \in Held(chunks, through)
          PROVE  row \in Positions
      <4>1. MaxChunks \in Nat /\ MaxChunkOffset \in Nat
        BY TableAssumption, NumericMaxAssumption DEF MaxChunkOffset
      <4>2. row \in [chunk : Nat, offset : Nat]
        BY DEF Held
      <4>3. row.chunk \in 0 .. MaxChunks /\ row.offset \in 0 .. MaxChunkOffset
        <5>1. CASE row = NULL_ROW_ID
          BY <4>1, <5>1 DEF NULL_ROW_ID
        <5>2. CASE row # NULL_ROW_ID
          <6>1. row.chunk \in DOMAIN chunks /\ row.offset <= MaxChunkOffset
            BY <5>2, HeldRow DEF QInv
          <6>2. Len(chunks) <= MaxChunks /\ Len(chunks) \in Nat /\ DOMAIN chunks = 1 .. Len(chunks)
            BY DEF QInv, IInv
          <6> QED
            BY <4>1, <4>2, <6>1, <6>2
        <5> QED
          BY <5>1, <5>2
      <4>4. row = [chunk |-> row.chunk, offset |-> row.offset]
        BY <4>2
      <4> QED
        BY <4>3, <4>4 DEF Positions
    <3>4. Held(chunks, through) \subseteq Positions
      BY <3>3
    <3>5. lists[k] \in Seq(Positions) \ {<<>>}
      BY <3>2, <3>4, SeqMonotonic
    <3>6. \A c, pos : ReferenceSegment(c, pos).kind = "reference"
                      /\ ReferenceSegment(c, pos).column = c /\ ReferenceSegment(c, pos).pos = pos
      BY DEF ReferenceSegment
    <3>7. ASSUME NEW c \in DOMAIN cols PROVE Fits(k, c)
      <4>1. output.chunks[k][c] = ReferenceSegment(c, lists[k])
        BY <3>1
      <4>2. /\ output.chunks[k][c].kind = "reference" /\ output.chunks[k][c].column = c
            /\ output.chunks[k][c].pos = lists[k]
        BY <3>6, <4>1
      <4> QED
        BY <3>5, <4>2
    <3> HIDE DEF Fits
    <3> QED
      BY <3>1, <3>7
  <2> QED
    BY <2>4, <2>5
<1> QED
  BY <1>1, <1>2, <1>3 DEF QueryTypeOK

-----------------------------------------------------------------------------
(* Scanning an output *)

\* What a scan finds in a chunk of the table are the rows that the comparison
\* by value finds: in a compressed chunk, too, where ValueIDs are compared.
LEMMA ChunkFinds ==
    ASSUME IInv, DictionariesWellFormed, NEW column \in Nat \ {0}, NEW op \in ScanType,
           NEW value \in Values, NEW k \in DOMAIN chunks, SizeOf(chunks[k]) # 0,
           column \in DOMAIN chunks[k], NEW i
    PROVE  [chunk |-> k, offset |-> i] \in Range(ChunkPositions(k, chunks[k], column, op, value))
              <=> /\ i \in 1 .. SegmentSize(chunks[k][column])
                  /\ RowMatches(column, [chunk |-> k, offset |-> i], op, value)
<1> DEFINE segment == chunks[k][column]
           all == RowIDs(k, SegmentSize(segment))
           offsets == ScanSegment(segment, op, value)
           S == {[chunk |-> k, offset |-> j] : j \in offsets}
<1>1. /\ k \in Nat /\ segment \in SegmentSet /\ segment.kind # "reference"
      /\ SegmentSize(segment) \in Nat
  BY SizesInChunk
<1>2. ChunkPositions(k, chunks[k], column, op, value) = Selected(all, S)
  BY <1>1 DEF ChunkPositions, PositionList
<1>3. /\ all \in Seq([chunk : Nat, offset : Nat])
      /\ Range(all) = {[chunk |-> k, offset |-> j] : j \in 1 .. SegmentSize(segment)}
  BY <1>1, RowIDsRange
<1>4. Range(Selected(all, S)) = Range(all) \cap S
  <2> HIDE DEF all, S
  <2> QED
    BY <1>3, SelectedRange
<1>5. offsets = Matches(segment, op, value)
  <2>1. CASE segment \in ValueSegments
    BY <2>1, ScanValueIsExact
  <2>2. CASE segment \in DictionarySegments
    <3>1. WellFormed(segment)
      BY <2>2 DEF DictionariesWellFormed, DictionarySegments
    <3> QED
      BY <2>2, <3>1, ScanDictIsExact
  <2> QED
    BY <1>1, <2>1, <2>2 DEF SegmentSet
<1> HIDE DEF offsets
<1>6. [chunk |-> k, offset |-> i] \in Range(all) \cap S
         <=> i \in 1 .. SegmentSize(segment) /\ i \in offsets
  <2>1. \A j : [chunk |-> k, offset |-> i] = [chunk |-> k, offset |-> j] <=> i = j
    <3> SUFFICES ASSUME NEW j, [chunk |-> k, offset |-> i] = [chunk |-> k, offset |-> j]
                 PROVE  i = j
      OBVIOUS
    <3>1. [chunk |-> k, offset |-> i].offset = [chunk |-> k, offset |-> j].offset
      OBVIOUS
    <3> QED
      BY <3>1
  <2>2. [chunk |-> k, offset |-> i] \in Range(all) <=> i \in 1 .. SegmentSize(segment)
    <3> HIDE DEF all, segment
    <3> QED
      BY <1>3, <2>1
  <2>3. [chunk |-> k, offset |-> i] \in S <=> i \in offsets
    BY <2>1
  <2> HIDE DEF all, S
  <2> QED
    BY <2>2, <2>3
<1>7. i \in 1 .. SegmentSize(segment) =>
         (i \in offsets <=> RowMatches(column, [chunk |-> k, offset |-> i], op, value))
  <2> SUFFICES ASSUME i \in 1 .. SegmentSize(segment)
               PROVE  i \in offsets <=>
                         RowMatches(column, [chunk |-> k, offset |-> i], op, value)
    OBVIOUS
  <2>1. i \in offsets <=> /\ GetTypedValue(segment, i) # NULL
                          /\ ScanOperation(op, GetTypedValue(segment, i), value)
    BY <1>5 DEF Matches
  <2> QED
    BY <2>1 DEF RowMatches
<1> HIDE DEF all, S
<1> QED
  BY <1>2, <1>4, <1>6, <1>7

\* A scan of the table that ends well finds a row of it if and only if the
\* comparison by value does, and the segments it has looked at have the
\* column's type.
LEMMA TableFinds ==
    ASSUME IInv, DictionariesWellFormed, NEW column \in Nat \ {0}, NEW op \in ScanType,
           NEW search \in AllTypeVariant, search # NULL,
           ScanOutcome(BaseTable, column, search) = "ok",
           NEW row \in [chunk : Nat, offset : Nat],
           row.chunk \in DOMAIN chunks, column \in DOMAIN chunks[row.chunk],
           row.offset \in 1 .. SegmentSize(chunks[row.chunk][column])
    PROVE  LET value == TypeCast[columns[column].type, search]
           IN  /\ chunks[row.chunk][column].type = columns[column].type
               /\ row \in Range(Found(BaseTable, column, op, search))
                     <=> RowMatches(column, row, op, value)
<1> DEFINE type == columns[column].type
           value == TypeCast[type, search]
           at(k) == ChunkPositions(k, chunks[k], column, op, value)
           each == [k \in DOMAIN chunks |-> at(k)]
           k == row.chunk
           i == row.offset
<1>1. BaseTable.columns = columns /\ BaseTable.chunks = chunks /\ Shaped(BaseTable)
  BY TableIsShaped DEF BaseTable
<1>2. /\ type \in DataType /\ search \in Variants
      /\ \A j \in DOMAIN chunks : ChunkOutcome(chunks[j], type, column, search) = "ok"
  <2>1. BaseTable.columns \in Seq(ColumnDefinition) /\ DOMAIN BaseTable.chunks \subseteq Nat
    BY <1>1 DEF Shaped
  <2> QED
    BY <1>1, <2>1, GoodScan
<1>3. \A j \in DOMAIN chunks : at(j) \in Seq(Held(chunks, column))
  BY FoundInTable
<1>4. Found(BaseTable, column, op, search) = FlattenSeq(each)
  <2>1. \A j \in DOMAIN BaseTable.chunks :
           ChunkPositions(j, BaseTable.chunks[j], column, op,
                          TypeCast[BaseTable.columns[column].type, search])
              \in Seq(Held(chunks, column))
    BY <1>1, <1>3
  <2>2. Found(BaseTable, column, op, search) = FlattenSeq(ListsFound(BaseTable, column, op, search))
    <3> HIDE DEF each, at, type, value
    <3> QED
      BY <1>1, <2>1, PositionListsType
  <2>3. ListsFound(BaseTable, column, op, search) = each
    BY <1>1 DEF ListsFound
  <2> HIDE DEF each
  <2> QED
    BY <2>2, <2>3
<1>5. each \in Seq(Seq(Held(chunks, column)))
  <2>1. Len(chunks) \in Nat /\ DOMAIN chunks = 1 .. Len(chunks)
    BY DEF IInv
  <2> HIDE DEF at
  <2>2. each \in [1 .. Len(chunks) -> Seq(Held(chunks, column))]
    BY <1>3, <2>1
  <2> QED
    BY <2>1, <2>2, FunctionIsSeq
<1>6. Range(Found(BaseTable, column, op, search)) = UNION {Range(at(j)) : j \in DOMAIN chunks}
  <2>1. Range(FlattenSeq(each)) = UNION {Range(each[j]) : j \in DOMAIN each}
    <3> HIDE DEF each
    <3> QED
      BY <1>5, FlattenRange
  <2>2. DOMAIN each = DOMAIN chunks /\ \A j \in DOMAIN chunks : each[j] = at(j)
    OBVIOUS
  <2> HIDE DEF each, at
  <2> QED
    BY <1>4, <2>1, <2>2
<1>7. SizeOf(chunks[k]) # 0
  <2>1. /\ 1 \in DOMAIN chunks[k] /\ SizeOf(chunks[k]) = ChunkSize(chunks[k])
        /\ SegmentSize(chunks[k][column]) <= SegmentSize(chunks[k][1])
        /\ SegmentSize(chunks[k][column]) \in Nat /\ SegmentSize(chunks[k][1]) \in Nat
    <3>1. 1 \in 1 .. column
      OBVIOUS
    <3> QED
      BY <3>1, SizesInChunk
  <2>2. ChunkSize(chunks[k]) = SegmentSize(chunks[k][1])
    BY <2>1 DEF ChunkSize, NewChunk
  <2> QED
    BY <2>1, <2>2
<1>8. chunks[k][column].type = type /\ TypeCast[type, search] # CastError
  <2>1. ChunkOutcome(chunks[k], type, column, search) = "ok"
    BY <1>2
  <2>2. k \in DOMAIN chunks
    OBVIOUS
  <2> HIDE DEF type, value, k, i, at, each
  <2> QED
    BY <1>7, <2>1, <2>2, SizesInChunk DEF ChunkOutcome
<1>9. value \in Values
  BY <1>2, <1>8, DataTypesAssumption
<1>10. row = [chunk |-> k, offset |-> i]
  OBVIOUS
<1>11. row \in Range(at(k)) <=> RowMatches(column, row, op, value)
  <2> HIDE DEF value
  <2> QED
    BY <1>7, <1>9, <1>10, ChunkFinds
<1>12. ASSUME NEW j \in DOMAIN chunks, row \in Range(at(j))
       PROVE  j = k
  <2>1. CASE SizeOf(chunks[j]) = 0
    <3>1. at(j) = <<>>
      BY <2>1 DEF ChunkPositions
    <3>2. Range(<<>>) = {}
      BY DEF Range
    <3> HIDE DEF at
    <3> QED
      BY <1>12, <3>1, <3>2
  <2>2. CASE SizeOf(chunks[j]) # 0
    <3>1. column \in DOMAIN chunks[j]
      <4>1. ChunkOutcome(chunks[j], type, column, search) = "ok"
        BY <1>2
      <4> HIDE DEF type, at, each, value
      <4> QED
        BY <2>2, <4>1, GoodTableChunk
    <3>2. /\ chunks[j][column].kind # "reference" /\ j \in Nat
          /\ SegmentSize(chunks[j][column]) \in Nat
      BY <3>1, SizesInChunk
    <3> DEFINE all == RowIDs(j, SegmentSize(chunks[j][column]))
               S == {[chunk |-> j, offset |-> m] : m \in ScanSegment(chunks[j][column], op, value)}
    <3>3. at(j) = Selected(all, S)
      BY <2>2, <3>2 DEF ChunkPositions, PositionList
    <3>4. all \in Seq([chunk : Nat, offset : Nat])
      BY <3>2, RowIDsRange
    <3>5. Range(at(j)) \subseteq S
      <4> HIDE DEF all, S, at
      <4> QED
        BY <3>3, <3>4, SelectedRange
    <3>6. \A r \in S : r.chunk = j
      <4>1. \A m : [chunk |-> j, offset |-> m].chunk = j
        OBVIOUS
      <4> QED
        BY <4>1
    <3> HIDE DEF S, at
    <3> QED
      BY <1>12, <3>5, <3>6
  <2> QED
    BY <2>1, <2>2
<1>13. row \in Range(Found(BaseTable, column, op, search)) <=> row \in Range(at(k))
  <2> HIDE DEF at
  <2> QED
    BY <1>6, <1>12
<1> QED
  BY <1>8, <1>11, <1>13

LEMMA QInvRescan ==
    ASSUME QInv PROVE RescanIsIntersection
<1> SUFFICES ASSUME NEW column \in DOMAIN output.columns, NEW search \in AllTypeVariant,
                    PositionsOf(output) # <<>>,
                    ScanOutcome(output, column, search) = "ok",
                    ScanOutcome(BaseTable, column, search) = "ok",
                    NEW op \in ScanType
             PROVE  Found(output, column, op, search) =
                       Selected(PositionsOf(output), Range(Found(BaseTable, column, op, search)))
  BY DEF RescanIsIntersection
<1> DEFINE H == Held(chunks, through)
           R == Range(Found(BaseTable, column, op, search))
<1>1. /\ IInv /\ DictionariesWellFormed /\ Shaped(output)
      /\ column \in Nat \ {0}
  <2>1. output.columns \in Seq(ColumnDefinition)
    BY OutputIsShaped DEF Shaped
  <2> QED
    BY <2>1, OutputIsShaped DEF QInv
<1>2. CASE search = NULL
  <2>1. /\ Found(output, column, op, search) = <<>>
        /\ Found(BaseTable, column, op, search) = <<>>
    <3>1. FlattenSeq(<<>>) = <<>>
      BY DEF FlattenSeq
    <3> QED
      BY <1>2, <3>1 DEF Found, PositionLists
  <2>2. R = {}
    BY <2>1 DEF Range
  <2>3. Selected(PositionsOf(output), R) \in Seq(H \cap R)
    <3> HIDE DEF H, R
    <3> QED
      BY OutputRows, SelectedType DEF H
  <2>4. Selected(PositionsOf(output), R) \in Seq({})
    <3>1. H \cap R = {}
      BY <2>2
    <3> HIDE DEF H, R
    <3> QED
      BY <2>3, <3>1
  <2>5. Selected(PositionsOf(output), R) = <<>>
    BY <2>4
  <2> QED
    BY <2>1, <2>5
<1>3. CASE search # NULL
  <2>1. output # NoOutput
    BY DEF NoOutput
  <2>2. PICK cols, lists : MadeOf(cols, lists)
    BY <2>1 DEF QInv
  <2>3. /\ cols \in Seq(ColumnDefinition) /\ cols # <<>>
        /\ lists \in NonEmptyLists(H) /\ output = MakeOutput(cols, lists)
        /\ output.columns = cols
    BY <2>2, MadeIsShaped DEF MadeOf
  <2>4. PositionsOf(output) = FlattenSeq(lists)
    BY <2>3, OutputPositions
  <2>5. lists # <<>>
    <3>1. FlattenSeq(<<>>) = <<>>
      BY DEF FlattenSeq
    <3> QED
      BY <2>4, <3>1
  <2>6. /\ DOMAIN output.chunks = DOMAIN lists
        /\ lists \in Seq(Seq(H)) /\ DOMAIN lists = 1 .. Len(lists) /\ Len(lists) \in Nat
        /\ \A k \in DOMAIN lists : lists[k] \in Seq(H)
    BY <2>3, <2>5, OutputChunks, NonEmptyListsType
  <2> DEFINE value == TypeCast[cols[column].type, search]
             M(k) == MatchingRows(lists[k], column, op, value)
  <2>7. ASSUME NEW k \in DOMAIN lists
        PROVE  /\ ChunkPositions(k, output.chunks[k], column, op, value) = Selected(lists[k], M(k))
               /\ Selected(lists[k], M(k)) = Selected(lists[k], R)
    <3>1. column \in DOMAIN cols
      BY <2>3
    <3>2. ChunkPositions(k, output.chunks[k], column, op, value) = Selected(lists[k], M(k))
      <4> HIDE DEF value
      <4> QED
        BY <2>2, <2>5, <3>1, OutputChunkPositions
    <3>3. ASSUME NEW row \in Range(lists[k])
          PROVE  row \in M(k) <=> row \in R
      <4>1. RowOutcome(cols[column].type, column, row) = "ok"
        BY <1>1, <1>3, <2>2, <2>5, GoodOutputChunk
      <4>2. /\ row.chunk \in DOMAIN chunks /\ column \in DOMAIN chunks[row.chunk]
            /\ chunks[row.chunk][column].type = cols[column].type
            /\ row.offset <= SegmentSize(chunks[row.chunk][column])
        BY <4>1, GoodRow
      <4>3. row \in H
        BY <2>6 DEF Range
      <4>4. row # NULL_ROW_ID
        <5>1. 0 \notin DOMAIN chunks
          BY <1>1 DEF IInv
        <5> QED
          BY <4>2, <5>1 DEF NULL_ROW_ID
      <4>5. row \in [chunk : Nat, offset : Nat] /\ row.offset >= 1
        BY <4>3, <4>4 DEF Held
      <4>6. row.offset \in 1 .. SegmentSize(chunks[row.chunk][column])
        <5>1. SegmentSize(chunks[row.chunk][column]) \in Nat
          BY <1>1, <4>2, SizesInChunk
        <5> QED
          BY <4>2, <4>5, <5>1
      <4>7. /\ chunks[row.chunk][column].type = columns[column].type
            /\ row \in R <=> RowMatches(column, row, op, TypeCast[columns[column].type, search])
        BY <1>1, <1>3, <4>2, <4>5, <4>6, TableFinds
      <4>8. row \in R <=> RowMatches(column, row, op, value)
        <5> HIDE DEF R
        <5> QED
          BY <4>2, <4>7
      <4> HIDE DEF R, value
      <4> QED
        BY <4>8 DEF MatchingRows
    <3>4. Selected(lists[k], M(k)) = Selected(lists[k], R)
      <4> HIDE DEF H, R, M
      <4> QED
        BY <2>6, <3>3, SelectedAgrees
    <3> QED
      BY <3>2, <3>4
  <2> DEFINE found(k) == ChunkPositions(k, output.chunks[k], column, op,
                                        TypeCast[output.columns[column].type, search])
  <2>8. \A k \in DOMAIN lists : found(k) = Selected(lists[k], R)
    BY <2>3, <2>7
  <2>9. \A k \in DOMAIN lists : Selected(lists[k], R) \in Seq(H)
    <3> HIDE DEF H, R
    <3> QED
      BY <2>6, SelectedType
  <2>10. Found(output, column, op, search) = FlattenSeq(ListsFound(output, column, op, search))
    <3>1. \A k \in DOMAIN output.chunks :
             ChunkPositions(k, output.chunks[k], column, op,
                            TypeCast[output.columns[column].type, search]) \in Seq(H)
      <4> HIDE DEF H, R
      <4> QED
        BY <2>6, <2>8, <2>9
    <3> HIDE DEF H
    <3> QED
      BY <1>1, <1>3, <3>1, PositionListsType
  <2>11. ListsFound(output, column, op, search) = [k \in DOMAIN lists |-> Selected(lists[k], R)]
    <3>1. ListsFound(output, column, op, search) = [k \in DOMAIN output.chunks |-> found(k)]
      BY DEF ListsFound
    <3> HIDE DEF found, R
    <3> QED
      BY <2>6, <2>8, <3>1
  <2>12. Selected(FlattenSeq(lists), R) = FlattenSeq([k \in DOMAIN lists |-> Selected(lists[k], R)])
    <3> HIDE DEF H, R
    <3> QED
      BY <2>6, SelectedOfFlatten
  <2> HIDE DEF found
  <2> QED
    BY <2>4, <2>10, <2>11, <2>12
<1> QED
  BY <1>2, <1>3

-----------------------------------------------------------------------------
(* Printing an output *)

LEMMA QInvPrints ==
    ASSUME QInv PROVE OutputPrintsIfTableDoes
<1> SUFFICES ASSUME PrintOutcome(BaseTable) = "ok",
                    \A k \in DOMAIN chunks : Len(chunks[k]) = Len(columns)
             PROVE  PrintOutcome(output) = "ok"
  BY DEF OutputPrintsIfTableDoes
<1>1. IInv /\ Shaped(BaseTable) /\ Shaped(output)
  BY TableIsShaped, OutputIsShaped DEF QInv
\* Every element of the table is read without harm, so every segment is as
\* long as the first of its chunk.
<1>2. \A k \in DOMAIN chunks : \A c \in DOMAIN chunks[k] : \A i \in 1 .. SizeOf(chunks[k]) :
         CellOutcome(chunks[k][c], i) = "ok"
  <2>1. BaseTable.chunks = chunks
    BY DEF BaseTable
  <2>2. \A k \in DOMAIN chunks : \A c \in DOMAIN chunks[k] : \A i \in 1 .. SizeOf(chunks[k]) :
           PrintedCell(chunks[k][c], i) = "ok"
    BY <1>1, <2>1, PrintIsOk
  <2>3. \A k \in DOMAIN chunks : \A c \in DOMAIN chunks[k] : chunks[k][c].kind # "reference"
    BY <1>1, SizesInChunk
  <2> QED
    BY <2>2, <2>3 DEF PrintedCell
<1>3. ASSUME NEW k \in DOMAIN output.chunks, NEW c \in DOMAIN output.chunks[k],
             NEW i \in 1 .. SizeOf(output.chunks[k])
      PROVE  PrintedCell(output.chunks[k][c], i) = "ok"
  <2>1. output # NoOutput
    BY DEF NoOutput
  <2>2. PICK cols, lists : MadeOf(cols, lists)
    BY <2>1 DEF QInv
  <2>3. /\ cols \in Seq(ColumnDefinition) /\ cols # <<>> /\ Len(cols) <= Len(columns)
        /\ lists \in NonEmptyLists(Held(chunks, through)) /\ output = MakeOutput(cols, lists)
    BY <2>2 DEF MadeOf
  <2>4. lists # <<>>
    <3>1. SUFFICES ASSUME output = MakeOutput(cols, <<>>) PROVE FALSE
      BY <2>3
    <3>2. DOMAIN output.chunks = {1} /\ SizeOf(output.chunks[1]) = 0
      BY <2>3, <3>1, EmptyOutput
    <3>3. k = 1
      BY <3>2
    <3> QED
      BY <3>2, <3>3
  <2>5. /\ k \in DOMAIN lists /\ c \in DOMAIN cols /\ SizeOf(output.chunks[k]) = Len(lists[k])
        /\ output.chunks[k][c] = ReferenceSegment(c, lists[k])
    BY <2>3, <2>4, OutputChunks
  <2>6. lists[k] \in Seq(Held(chunks, through))
    BY <2>3, <2>5, NonEmptyListsType
  <2> DEFINE row == lists[k][i]
  <2>7. row \in Held(chunks, through)
    BY <2>5, <2>6
  <2>8. PrintedCell(output.chunks[k][c], i) = ReferencedOutcome(c, row)
    <3>1. /\ ReferenceSegment(c, lists[k]).kind = "reference"
          /\ ReferenceSegment(c, lists[k]).column = c
          /\ ReferenceSegment(c, lists[k]).pos = lists[k]
      BY DEF ReferenceSegment
    <3> QED
      BY <2>5, <3>1 DEF PrintedCell
  <2> HIDE DEF row
  <2>9. CASE row = NULL_ROW_ID
    BY <2>8, <2>9 DEF ReferencedOutcome
  <2>10. CASE row # NULL_ROW_ID
    <3>1. row.chunk \in DOMAIN chunks /\ row.offset \in 1 .. SizeOf(chunks[row.chunk])
      BY <1>1, <2>7, <2>10, HeldRow DEF QInv
    <3>2. c \in DOMAIN chunks[row.chunk]
      <4>1. /\ chunks[row.chunk] \in Chunks /\ Len(chunks[row.chunk]) = Len(columns)
        BY <1>1, <3>1 DEF IInv, ChunkInv
      <4>2. /\ DOMAIN chunks[row.chunk] = 1 .. Len(chunks[row.chunk])
            /\ Len(chunks[row.chunk]) \in Nat
        BY <4>1, ChunkType
      <4>3. c \in 1 .. Len(cols) /\ Len(cols) \in Nat
        BY <2>3, <2>5
      <4> QED
        BY <2>3, <4>1, <4>2, <4>3
    <3>3. CellOutcome(chunks[row.chunk][c], row.offset) = "ok"
      BY <1>2, <3>1, <3>2
    <3>4. row.offset <= SegmentSize(chunks[row.chunk][c])
      <4>1. ~(row.offset > SegmentSize(chunks[row.chunk][c]))
        BY <3>3 DEF CellOutcome
      <4>2. SegmentSize(chunks[row.chunk][c]) \in Nat /\ row.offset \in Nat
        BY <1>1, <2>7, <3>1, <3>2, SizesInChunk DEF Held
      <4> QED
        BY <4>1, <4>2
    <3> QED
      BY <2>8, <3>1, <3>2, <3>3, <3>4 DEF ReferencedOutcome, InBounds
  <2> QED
    BY <2>9, <2>10
<1> QED
  BY <1>1, <1>3, PrintIsOk

-----------------------------------------------------------------------------
(* Reading an output while the table goes on *)

LEMMA ElementStep ==
    ASSUME NEW before \in SegmentSet, NEW after, Grown(before, after) \/ Compressed(before, after),
           NEW i \in 1 .. SegmentSize(before), ElementAt(after, i) # ElementAt(before, i)
    PROVE  /\ Compressed(before, after)
           /\ GetTypedValue(before, i) = NULL \/ LosesByCompression(before)
<1>1. CASE Lengthened(before, after)
  <2>1. PICK variant \in AllTypeVariant :
           /\ before \in ValueSegments /\ Accepts(before, variant)
           /\ after = SegmentAppend(before, variant)
    BY <1>1 DEF Lengthened
  <2>2. GetTypedValue(after, i) = GetTypedValue(before, i)
    BY <2>1, AppendKeeps DEF Kept
  <2>3. before.kind = "value" /\ after.kind = "value"
    BY <2>1, SegmentAppendReads DEF ValueSegments
  <2> QED
    BY <2>2, <2>3 DEF ElementAt
<1>2. CASE Compressed(before, after)
  <2>1. /\ before \in ValueSegments /\ SegmentSize(before) <= MaxChunkOffset
        /\ after = MakeDictionarySegment(before)
    BY <1>2 DEF Compressed
  <2>2. GetTypedValue(after, i) # GetTypedValue(before, i) => LosesByCompression(before)
    BY <2>1, CompressionKeeps DEF KeptOrCompressed
  <2>3. after.kind = "dictionary" /\ before.kind = "value"
    BY <2>1, MakeDictionarySegmentType DEF ValueSegments
  <2>4. ElementAt(before, i) = {GetTypedValue(before, i)}
    BY <2>3 DEF ElementAt
  <2>5. GetTypedValue(after, i) # NULL => ElementAt(after, i) = {GetTypedValue(after, i)}
    BY <2>3 DEF ElementAt, GetTypedValue
  <2> QED
    BY <1>2, <2>2, <2>4, <2>5
<1> QED
  BY <1>1, <1>2 DEF Grown

LEMMA NextKeepsElements ==
    ASSUME QInv, [QueryNext]_queryVars
    PROVE  [ElementsKept]_queryVars
<1> SUFFICES ASSUME NEW row \in Range(PositionsOf(output)) \ {NULL_ROW_ID},
                    NEW column \in DOMAIN output.columns,
                    InBounds(column, row),
                    ReferencedElement(column, row)' # ReferencedElement(column, row)
             PROVE  /\ call'.op = "compress_chunk"
                    /\ \/ GetTypedValue(chunks[row.chunk][column], row.offset) = NULL
                       \/ LosesByCompression(chunks[row.chunk][column])
  BY DEF ElementsKept
<1> DEFINE before == chunks[row.chunk][column]
           after == chunks'[row.chunk][column]
           i == row.offset
<1>1. row # NULL_ROW_ID /\ row \in Held(chunks, through)
  BY OutputRows DEF Range
<1>2. /\ row.chunk \in DOMAIN chunks /\ column \in DOMAIN chunks[row.chunk]
      /\ i <= SegmentSize(before)
  BY DEF InBounds
<1>3. ElementAt(after, i) # ElementAt(before, i)
  BY <1>1 DEF ReferencedElement
<1>4. IInv /\ i \in Nat /\ i >= 1 /\ SegmentSize(before) \in Nat /\ before \in SegmentSet
  BY <1>1, <1>2, SizesInChunk DEF QInv, Held
<1>5. chunks' # chunks
  BY <1>3
<1>6. Next
  BY <1>5 DEF QueryNext, TableCall, ScanTable, ScanOutput, Scan, PrintTable, Refer, queryVars, vars
<1>7. TableStep
  BY <1>6, NextTableStep DEF QInv
<1>8. \/ Grown(before, after)
      \/ Compressed(before, after) /\ call'.op = "compress_chunk"
  BY <1>2, <1>4, <1>7, SegmentStep
<1>9. i \in 1 .. SegmentSize(before)
  BY <1>2, <1>4
<1> HIDE DEF before, after, i
<1>10. Compressed(before, after) /\ (GetTypedValue(before, i) = NULL \/ LosesByCompression(before))
  BY <1>3, <1>4, <1>8, <1>9, ElementStep
<1>11. before # after
  BY <1>3
<1>12. ~Lengthened(before, after)
  <2>1. after.kind = "dictionary"
    BY <1>10, MakeDictionarySegmentType DEF Compressed
  <2> QED
    BY <2>1, SegmentAppendReads DEF Lengthened
<1> QED
  BY <1>8, <1>10, <1>11, <1>12 DEF Grown, before, i

-----------------------------------------------------------------------------
(* The theorems *)

\* Type correctness: whatever the table goes through and whatever is scanned,
\* an output is a table of references in all of its columns, or one empty
\* chunk, and its positions fit the types that hold them.
THEOREM QueryTypeCorrect == QuerySpec => []QueryTypeOK
BY QueryInductiveInvariant, QInvType, PTL

\* A position of an output is one the table has, in every column up to the
\* rightmost that a scan on the way to the output has looked at.
THEOREM PositionsInBoundsAlways == QuerySpec => []PositionsInBounds
BY QueryInductiveInvariant, QInvBounds, PTL

\* A scan of an output keeps, in their order, those of its positions that the
\* same scan of the table finds: comparing values and comparing the ValueIDs
\* of compressed chunks come to the same.
THEOREM RescanIsIntersectionAlways == QuerySpec => []RescanIsIntersection
BY QueryInductiveInvariant, QInvRescan, PTL

\* If Print gets through the table, it gets through every output.
THEOREM OutputPrintsIfTableDoesAlways == QuerySpec => []OutputPrintsIfTableDoes
BY QueryInductiveInvariant, QInvPrints, PTL

\* An output can be read at any time after the scan; only compress_chunk may
\* change an element, and only a NULL, or one in a segment that has a NULL and
\* a value at or below T{}.
THEOREM OutputsAreStableAlways == QuerySpec => OutputsAreStable
BY QueryInductiveInvariant, NextKeepsElements, PTL DEF QuerySpec, OutputsAreStable
=============================================================================
