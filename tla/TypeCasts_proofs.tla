--------------------------- MODULE TypeCasts_proofs ---------------------------
(***************************************************************************)
(* What a cast to the type of a column keeps, refuses and does to the      *)
(* order of the numbers, for all types that are as coarse against each     *)
(* other as TypeCastsAssumption and RepresentableAssumption say.           *)
(***************************************************************************)
EXTENDS TypeCasts, WellFoundedInduction, TLAPS

(* Whole numbers are multiples of One. *)

Whole(n) == n \in Int /\ n % One = 0

LEMMA OneIsPositive == One \in Nat /\ One > 0
BY TypeCastsAssumption

LEMMA Division ==
    ASSUME NEW n \in Int
    PROVE  /\ n \div One \in Int
           /\ n % One \in 0 .. One - 1
           /\ n % One = n - One * (n \div One)
BY OneIsPositive

LEMMA MultipleIsWhole ==
    ASSUME NEW q \in Int
    PROVE  Whole(One * q)
<1>1. (One * q) % One = 0
  BY OneIsPositive
<1> QED
  BY <1>1, OneIsPositive DEF Whole

\* Two whole numbers are equal or at least One apart.
LEMMA WholeGap ==
    ASSUME NEW m, NEW n, Whole(m), Whole(n), m < n
    PROVE  m + One <= n
<1> DEFINE p == m \div One
           q == n \div One
<1>1. /\ m \in Int /\ p \in Int /\ m = One * p
      /\ n \in Int /\ q \in Int /\ n = One * q
  <2>1. m \in Int /\ n \in Int /\ m % One = 0 /\ n % One = 0
    BY DEF Whole
  <2>2. p \in Int /\ q \in Int
    BY <2>1, Division
  <2>3. 0 = m - One * p /\ 0 = n - One * q
    BY <2>1, Division
  <2> HIDE DEF p, q
  <2>4. One * p \in Int /\ One * q \in Int
    BY <2>2, OneIsPositive
  <2> QED
    BY <2>1, <2>2, <2>3, <2>4
<1> HIDE DEF p, q
<1>2. q > p
  BY <1>1, OneIsPositive
<1>3. One * q >= One * p + One
  BY <1>1, <1>2, OneIsPositive
<1> QED
  BY <1>1, <1>3

\* Cutting off the fraction goes towards zero, by less than One.
LEMMA TruncatedProperties ==
    ASSUME NEW n \in Int
    PROVE  /\ Whole(Truncated(n))
           /\ n >= 0 => 0 <= Truncated(n) /\ Truncated(n) <= n /\ n < Truncated(n) + One
           /\ n < 0 => Truncated(n) <= 0 /\ n <= Truncated(n) /\ Truncated(n) < n + One
<1>1. CASE n >= 0
  <2> DEFINE q == n \div One
  <2>1. q \in Int /\ n % One \in 0 .. One - 1 /\ n % One = n - One * q
    BY Division
  <2>2. Truncated(n) = q * One
    BY <1>1 DEF Truncated
  <2> HIDE DEF q
  <2>3. q * One = One * q /\ One * q \in Int
    BY <2>1, OneIsPositive
  <2>4. One * q <= n /\ n < One * q + One
    BY <2>1, <2>3, OneIsPositive
  <2>5. 0 <= One * q
    <3> SUFFICES ASSUME q < 0 PROVE FALSE
      BY <2>1, OneIsPositive
    <3>1. One * 0 >= One * q + One
      BY <2>1, OneIsPositive
    <3> QED
      BY <1>1, <2>3, <2>4, <3>1, OneIsPositive
  <2> QED
    BY <1>1, <2>1, <2>2, <2>3, <2>4, <2>5, MultipleIsWhole
<1>2. CASE n < 0
  <2> DEFINE q == (-n) \div One
  <2>1. q \in Int /\ (-n) % One \in 0 .. One - 1 /\ (-n) % One = (-n) - One * q
    BY Division
  <2>2. Truncated(n) = -(q * One)
    BY <1>2 DEF Truncated
  <2> HIDE DEF q
  <2>3. -(q * One) = One * (-q) /\ One * q \in Int /\ One * (-q) = -(One * q)
    BY <2>1, OneIsPositive
  <2>4. One * q <= -n /\ -n < One * q + One
    BY <2>1, <2>3, OneIsPositive
  <2>5. 0 <= One * q
    <3> SUFFICES ASSUME q < 0 PROVE FALSE
      BY <2>1, OneIsPositive
    <3>1. One * 0 >= One * q + One
      BY <2>1, OneIsPositive
    <3> QED
      BY <1>2, <2>3, <2>4, <3>1, OneIsPositive
  <2>6. Whole(One * (-q))
    BY <2>1, MultipleIsWhole
  <2> QED
    BY <1>2, <2>1, <2>2, <2>3, <2>4, <2>5, <2>6, OneIsPositive
<1> QED
  BY <1>1, <1>2

LEMMA TruncatedOfWhole ==
    ASSUME NEW n, Whole(n)
    PROVE  Truncated(n) = n
<1>1. n \in Int /\ Whole(Truncated(n)) /\ Truncated(n) \in Int
  BY TruncatedProperties DEF Whole
<1>2. ~(Truncated(n) < n) /\ ~(n < Truncated(n))
  BY <1>1, TruncatedProperties, WholeGap, OneIsPositive
<1> QED
  BY <1>1, <1>2

LEMMA TruncatedIsMonotone ==
    ASSUME NEW m \in Int, NEW n \in Int, m <= n
    PROVE  Truncated(m) <= Truncated(n)
<1>1. /\ Whole(Truncated(m)) /\ Truncated(m) \in Int
      /\ Whole(Truncated(n)) /\ Truncated(n) \in Int
  BY TruncatedProperties DEF Whole
<1> SUFFICES ASSUME Truncated(n) < Truncated(m) PROVE FALSE
  BY <1>1
<1>2. Truncated(n) + One <= Truncated(m)
  BY <1>1, WholeGap
<1> QED
  BY <1>1, <1>2, TruncatedProperties, OneIsPositive

-----------------------------------------------------------------------------
(* Rounding *)

\* Among two numbers at the same distance there is a lesser one.
LEMMA NearestExists ==
    ASSUME NEW S \in SUBSET Int, S # {}, NEW n \in Int
    PROVE  \E m \in S : \A k \in S :
              Distance(m, n) < Distance(k, n) \/ (Distance(m, n) = Distance(k, n) /\ m <= k)
<1> DEFINE Distances == {Distance(m, n) : m \in S}
<1>1. \A m \in S : Distance(m, n) \in Nat
  BY DEF Distance
<1>2. PICK d \in Distances : \A e \in Distances : ~(<<e, d>> \in OpToRel(<, Nat))
  <2>1. Distances \subseteq Nat /\ Distances # {}
    BY <1>1
  <2> HIDE DEF Distances
  <2> QED
    BY <2>1, NatLessThanWellFounded, WFMin
<1>3. d \in Nat
  BY <1>1
<1>4. \A k \in S : d <= Distance(k, n)
  <2>1. \A e \in Distances : e \in Nat => ~(e < d)
    BY <1>2, <1>3 DEF OpToRel
  <2> QED
    BY <1>1, <1>3, <2>1
<1>5. PICK m \in S : Distance(m, n) = d
  OBVIOUS
<1>6. CASE n - d \in S
  BY <1>1, <1>3, <1>4, <1>6 DEF Distance
<1>7. CASE n - d \notin S
  BY <1>1, <1>3, <1>4, <1>5, <1>7 DEF Distance
<1> QED
  BY <1>6, <1>7

LEMMA NearestProperties ==
    ASSUME NEW S \in SUBSET Int, S # {}, NEW n \in Int
    PROVE  /\ Nearest(S, n) \in S /\ Nearest(S, n) \in Int
           /\ \A k \in S :
                 \/ Distance(Nearest(S, n), n) < Distance(k, n)
                 \/ Distance(Nearest(S, n), n) = Distance(k, n) /\ Nearest(S, n) <= k
<1>1. Nearest(S, n) \in S /\ \A k \in S :
         \/ Distance(Nearest(S, n), n) < Distance(k, n)
         \/ Distance(Nearest(S, n), n) = Distance(k, n) /\ Nearest(S, n) <= k
  BY NearestExists DEF Nearest
<1> QED
  BY <1>1

LEMMA NearestOfMember ==
    ASSUME NEW S \in SUBSET Int, NEW n \in S
    PROVE  Nearest(S, n) = n
<1> DEFINE m == Nearest(S, n)
<1>1. m \in Int /\ (Distance(m, n) < Distance(n, n) \/ (Distance(m, n) = Distance(n, n) /\ m <= n))
  BY NearestProperties
<1> HIDE DEF m
<1>2. m = n
  BY <1>1 DEF Distance
<1> QED
  BY <1>2 DEF m

LEMMA NearestIsMonotone ==
    ASSUME NEW S \in SUBSET Int, S # {}, NEW m \in Int, NEW n \in Int, m <= n
    PROVE  Nearest(S, m) <= Nearest(S, n)
<1> DEFINE a == Nearest(S, m)
           b == Nearest(S, n)
<1>1. a \in Int /\ b \in Int
  BY NearestProperties
<1>2. Distance(a, m) < Distance(b, m) \/ (Distance(a, m) = Distance(b, m) /\ a <= b)
  BY NearestProperties
<1>3. Distance(b, n) < Distance(a, n) \/ (Distance(b, n) = Distance(a, n) /\ b <= a)
  BY NearestProperties
<1> HIDE DEF a, b
<1>4. a <= b
  BY <1>1, <1>2, <1>3 DEF Distance
<1> QED
  BY <1>4 DEF a, b
-----------------------------------------------------------------------------
(* Casts to an integral type *)

Doubles == Representable["double"]

ToDouble(n) == Nearest(Doubles, n)

LEMMA DoubleProperties ==
    /\ Doubles \subseteq Int /\ Doubles # {}
    /\ \A n \in Int : ToDouble(n) \in Doubles /\ ToDouble(n) \in Int
    /\ \A n \in Doubles : ToDouble(n) = n
    /\ \A m, n \in Int : m <= n => ToDouble(m) <= ToDouble(n)
<1>1. Doubles \in SUBSET Int /\ Doubles # {}
  BY TypeCastsAssumption DEF Doubles, Numeric, Floating
<1> QED
  BY <1>1, NearestProperties, NearestOfMember, NearestIsMonotone DEF ToDouble

LEMMA IntegralProperties ==
    ASSUME NEW type \in Integral
    PROVE  /\ Representable[type] \subseteq Int
           /\ Whole(Least(type)) /\ Least(type) <= 0
           /\ Whole(Greatest(type)) /\ Greatest(type) >= 0
           /\ \A n : n \in Representable[type] <=>
                        Whole(n) /\ Least(type) <= n /\ n <= Greatest(type)
           /\ Least(type) \in Doubles /\ Greatest(type) + One \in Doubles
<1>1. Representable[type] \subseteq Int
  BY TypeCastsAssumption DEF Numeric
<1>2. /\ Least(type) \in Representable[type] /\ Greatest(type) \in Representable[type]
      /\ 0 \in Representable[type]
      /\ Least(type) \in Doubles /\ Greatest(type) + One \in Doubles
      /\ Representable[type] = {n \in Least(type) .. Greatest(type) : n % One = 0}
  BY RepresentableAssumption DEF Doubles
<1>3. Least(type) \in Int /\ Greatest(type) \in Int
  BY <1>1, <1>2
<1>4. \A n : n \in Representable[type] <=>
                Whole(n) /\ Least(type) <= n /\ n <= Greatest(type)
  BY <1>2, <1>3 DEF Whole
<1> HIDE DEF Least, Greatest
<1> QED
  BY <1>1, <1>2, <1>3, <1>4

\* A double that numeric_cast does not refuse is cut off to a number the type
\* has: the doubles next to its ends are not refused where they should be.
LEMMA NumericCastType ==
    ASSUME NEW type \in Integral, NEW n \in Doubles, NumericCast(type, n) # CastError
    PROVE  NumericCast(type, n) = Truncated(n) /\ Truncated(n) \in Representable[type]
<1> DEFINE least == Least(type)
           greatest == Greatest(type)
           low == ToDouble(least - One)
           high == ToDouble(greatest + One)
<1>1. /\ NumericCast(type, n) = Truncated(n)
      /\ ~(n <= low) /\ ~(n >= high)
  BY DEF NumericCast, ToDouble, Doubles
<1>2. /\ Whole(least) /\ least \in Int /\ least <= 0 /\ Whole(greatest) /\ greatest \in Int
      /\ greatest >= 0 /\ greatest + One \in Doubles
      /\ \A m : m \in Representable[type] <=> Whole(m) /\ least <= m /\ m <= greatest
  BY IntegralProperties DEF Whole
<1>3. n \in Int /\ One \in Nat /\ One > 0
  BY DoubleProperties, OneIsPositive
<1>4. low \in Int /\ high = greatest + One
  BY <1>2, <1>3, DoubleProperties
<1>5. least - One < n
  <2> DEFINE bound == least - One
  <2>1. bound \in Int
    BY <1>2, <1>3
  <2>2. Distance(low, bound) <= Distance(n, bound)
    <3>1. \/ Distance(low, bound) < Distance(n, bound)
          \/ Distance(low, bound) = Distance(n, bound) /\ low <= n
      BY <2>1, DoubleProperties, NearestProperties DEF ToDouble
    <3>2. Distance(low, bound) \in Int /\ Distance(n, bound) \in Int
      BY <1>3, <1>4, <2>1 DEF Distance
    <3> QED
      BY <3>1, <3>2
  <2> HIDE DEF bound, low
  <2>3. bound < n
    BY <1>1, <1>3, <1>4, <2>1, <2>2 DEF Distance
  <2> QED
    BY <2>3 DEF bound
<1> HIDE DEF least, greatest, low, high
<1>6. /\ Whole(Truncated(n)) /\ Truncated(n) \in Int
      /\ n >= 0 => 0 <= Truncated(n) /\ Truncated(n) <= n
      /\ n < 0 => Truncated(n) <= 0 /\ n <= Truncated(n)
  BY <1>3, TruncatedProperties DEF Whole
<1>7. least <= Truncated(n)
  <2> SUFFICES ASSUME Truncated(n) < least PROVE FALSE
    BY <1>2, <1>6
  <2>1. Truncated(n) + One <= least
    BY <1>2, <1>6, WholeGap
  <2> QED
    BY <1>2, <1>3, <1>5, <1>6, <2>1
<1>8. Truncated(n) <= greatest
  <2> SUFFICES ASSUME greatest < Truncated(n) PROVE FALSE
    BY <1>2, <1>6
  <2>1. greatest + One <= Truncated(n)
    BY <1>2, <1>6, WholeGap
  <2> QED
    BY <1>1, <1>2, <1>3, <1>4, <1>6, <2>1
<1> QED
  BY <1>1, <1>2, <1>6, <1>7, <1>8

\* A whole number that the type does not have is refused.
LEMMA FarNumberIsRefused ==
    ASSUME NEW type \in Integral, NEW text, Whole(text), text \notin Representable[type]
    PROVE  /\ NumericCast(type, ToDouble(text)) = CastError
           /\ text <= Least(type) \/ text >= Greatest(type)
<1> DEFINE least == Least(type)
           greatest == Greatest(type)
<1>1. /\ Whole(least) /\ least \in Int /\ Whole(greatest) /\ greatest \in Int
      /\ text \in Int /\ One \in Nat /\ One > 0
      /\ ~(least <= text /\ text <= greatest)
  BY IntegralProperties, OneIsPositive DEF Whole
<1>2. text <= least - One \/ text >= greatest + One
  <2> HIDE DEF least, greatest
  <2>1. text < least => text + One <= least
    BY <1>1, WholeGap
  <2>2. greatest < text => greatest + One <= text
    BY <1>1, WholeGap
  <2> QED
    BY <1>1, <2>1, <2>2
<1>3. ToDouble(text) <= ToDouble(least - One) \/ ToDouble(text) >= ToDouble(greatest + One)
  <2>1. least - One \in Int /\ greatest + One \in Int
    BY <1>1
  <2> HIDE DEF least, greatest
  <2> QED
    BY <1>1, <1>2, <2>1, DoubleProperties
<1>5. NumericCast(type, ToDouble(text)) = CastError
  BY <1>3 DEF NumericCast, ToDouble, Doubles
<1>6. text <= least \/ text >= greatest
  BY <1>1
<1> QED
  BY <1>5, <1>6

\* Next to the ends of an integral type, and on whole numbers, doubles are no
\* finer than they have to be.
LEMMA DoublesOfIntegral ==
    ASSUME NEW type \in Integral
    PROVE  /\ \A n \in Representable[type] :
                 /\ Whole(ToDouble(n))
                 /\ n \in ShortTexts => n \in Doubles
           /\ ToDouble(Least(type) - One) \in {Least(type) - One, Least(type)}
<1>1. Representable[type] \subseteq Int
  BY IntegralProperties
<1>2. \A n \in Representable[type] :
         /\ Nearest(Representable["double"], n) % One = 0
         /\ n \in ShortTexts => n \in Representable["double"]
  BY RepresentableAssumption
<1>3. Nearest(Representable["double"], Least(type) - One) \in {Least(type) - One, Least(type)}
  BY RepresentableAssumption
<1> HIDE DEF Least
<1>4. \A n \in Representable[type] : ToDouble(n) \in Int
  BY <1>1, DoubleProperties
<1> QED
  BY <1>2, <1>3, <1>4 DEF ToDouble, Doubles, Whole

\* numeric_cast gives back a whole number of the type exactly if it gets it as
\* a double that is safe.
LEMMA SafeDoubleIsKept ==
    ASSUME NEW type \in Integral, NEW n \in Representable[type]
    PROVE  NumericCast(type, ToDouble(n)) = n <=> SafeDouble(type, n)
<1> DEFINE least == Least(type)
           greatest == Greatest(type)
           low == ToDouble(least - One)
           high == ToDouble(greatest + One)
<1>1. /\ n \in Int /\ Whole(n) /\ least <= n /\ n <= greatest
      /\ least \in Int /\ greatest \in Int /\ least \in Doubles /\ greatest + One \in Doubles
      /\ One \in Nat /\ One > 0 /\ CastError # n
  <2>1. CastError \notin Int
    BY TypeCastsAssumption
  <2> QED
    BY <2>1, IntegralProperties, OneIsPositive DEF Whole
<1>2. /\ Whole(ToDouble(n)) /\ ToDouble(n) \in Doubles /\ Truncated(ToDouble(n)) = ToDouble(n)
      /\ n \in Doubles => ToDouble(n) = n
  BY <1>1, DoublesOfIntegral, DoubleProperties, TruncatedOfWhole
<1>3. high = greatest + One
  BY <1>1, DoubleProperties
<1>4. low \in {least - One, least} /\ low \in Doubles
  <2>1. low \in {least - One, least}
    BY DoublesOfIntegral
  <2>2. least - One \in Int
    BY <1>1
  <2> QED
    BY <2>1, <2>2, DoubleProperties
<1>5. NumericCast(type, ToDouble(n)) =
         IF ToDouble(n) <= low \/ ToDouble(n) >= high THEN CastError ELSE ToDouble(n)
  BY <1>2 DEF NumericCast, ToDouble, Doubles
<1>6. SafeDouble(type, n) <=> n \in Doubles /\ (n = least => n - One \in Doubles)
  BY DEF SafeDouble, Doubles
<1> HIDE DEF least, greatest, low, high
<1>7. CASE n \notin Doubles
  BY <1>1, <1>2, <1>5, <1>6, <1>7
<1>8. CASE n \in Doubles /\ n # least
  <2>1. ToDouble(n) = n /\ ~(n <= low) /\ ~(n >= high)
    BY <1>1, <1>2, <1>3, <1>4, <1>8
  <2> QED
    BY <1>5, <1>6, <1>8, <2>1
<1>9. CASE n \in Doubles /\ n = least
  <2>1. ToDouble(n) = n /\ ~(n >= high)
    BY <1>1, <1>2, <1>3, <1>9
  <2>2. CASE least - One \in Doubles
    <3>1. low = least - One
      BY <1>1, <2>2, DoubleProperties DEF low
    <3>2. ~(n <= low)
      BY <1>1, <1>9, <3>1
    <3> QED
      BY <1>5, <1>6, <1>9, <2>1, <2>2, <3>2
  <2>3. CASE least - One \notin Doubles
    <3>1. low = least
      BY <1>4, <2>3
    <3>2. n <= low
      BY <1>1, <1>9, <3>1
    <3> QED
      BY <1>1, <1>5, <1>6, <1>9, <2>1, <2>3, <3>2
  <2> QED
    BY <2>2, <2>3
<1> QED
  BY <1>7, <1>8, <1>9
-----------------------------------------------------------------------------
(* type_cast *)

LEMMA TextProperties ==
    ASSUME NEW variant \in Variant
    PROVE  /\ variant.type \in Type
           /\ variant.number = Word \/ variant.number \in Int
           /\ Text(variant) = Word <=> variant.number = Word
           /\ variant.number # Word => Text(variant) \in Int
           /\ variant.type \in Floating =>
                 /\ variant.number \in Representable[variant.type] /\ variant.number \in Int
                 /\ Text(variant) = Nearest(ShortTexts, variant.number)
                 /\ Text(variant) \in ShortTexts
           /\ variant.type \notin Floating => Text(variant) = variant.number
           /\ variant.type \in Integral => variant.number \in Representable[variant.type]
           /\ variant.type = "string" => variant.number \in LongTexts \cup {Word}
           /\ InDigits(variant) \in BOOLEAN
           /\ InDigits(variant) => Whole(Text(variant))
           /\ variant.type \in Integral => InDigits(variant)
<1>1. /\ variant.type \in Type
      /\ variant.type = "string" => variant.number \in LongTexts \cup {Word}
      /\ variant.type # "string" =>
            variant.type \in Numeric /\ variant.number \in Representable[variant.type]
      /\ variant.type = "string" /\ variant.digits =>
            variant.number # Word /\ variant.number % One = 0
      /\ variant.type = "string" => variant.digits \in BOOLEAN
  BY DEF Variant, Type, Numeric, Integral, Floating
<1>2. variant.number = Word \/ variant.number \in Int
  BY <1>1, TypeCastsAssumption
<1>3. variant.type \in Floating =>
        /\ variant.number \in Representable[variant.type] /\ variant.number \in Int
        /\ Text(variant) = Nearest(ShortTexts, variant.number)
        /\ Text(variant) \in ShortTexts /\ Text(variant) \in Int
  <2> SUFFICES ASSUME variant.type \in Floating
               PROVE  /\ variant.number \in Representable[variant.type]
                      /\ variant.number \in Int
                      /\ Text(variant) = Nearest(ShortTexts, variant.number)
                      /\ Text(variant) \in ShortTexts /\ Text(variant) \in Int
    OBVIOUS
  <2>1. variant.number \in Representable[variant.type] /\ variant.number \in Int
    BY <1>1, TypeCastsAssumption DEF Floating, Numeric
  <2>2. Text(variant) = Nearest(ShortTexts, variant.number)
    BY DEF Text
  <2>3. ShortTexts \in SUBSET Int /\ ShortTexts # {}
    BY TypeCastsAssumption
  <2> QED
    BY <2>1, <2>2, <2>3, NearestProperties
<1>4. variant.type \notin Floating => Text(variant) = variant.number
  BY DEF Text
<1>5. variant.type \in Integral => variant.number \in Representable[variant.type]
  BY <1>1 DEF Integral
<1>6. InDigits(variant) \in BOOLEAN /\ (variant.type \in Integral => InDigits(variant))
  BY DEF InDigits
<1>7. ASSUME InDigits(variant) PROVE Whole(Text(variant))
  <2>1. CASE variant.type \in Integral
    <3>1. variant.type \notin Floating
      BY <2>1 DEF Integral, Floating
    <3> QED
      BY <1>4, <1>5, <2>1, <3>1, IntegralProperties
  <2>2. CASE variant.type = "string" /\ variant.digits
    BY <1>1, <1>2, <1>4, <2>2 DEF Floating, Whole
  <2>3. CASE variant.type \in Floating /\ Text(variant) % One = 0
    BY <1>3, <2>3 DEF Whole
  <2> QED
    BY <1>7, <2>1, <2>2, <2>3 DEF InDigits
<1> QED
  BY <1>1, <1>2, <1>3, <1>4, <1>5, <1>6, <1>7, TypeCastsAssumption

\* A cast to a floating point type that is not an error rounds the text.
LEMMA FloatingCast ==
    ASSUME NEW type \in Floating, NEW variant \in Variant
    PROVE  /\ TypeCast(type, variant) \in Representable[type] \cup {CastError}
           /\ TypeCast(type, variant) # CastError =>
                 /\ variant.number \in Int /\ Text(variant) \in Int
                 /\ variant.type = type => TypeCast(type, variant) = variant.number
                 /\ variant.type # type =>
                       TypeCast(type, variant) = Nearest(Representable[type], Text(variant))
<1>1. Representable[type] \in SUBSET Int /\ Representable[type] # {}
  BY TypeCastsAssumption DEF Floating, Numeric
<1>2. type # "string" /\ type \notin Integral
  BY DEF Floating, Integral
<1>3. CASE variant.type = type
  <2>1. TypeCast(type, variant) = variant.number
    BY <1>3 DEF TypeCast
  <2> QED
    BY <1>1, <1>3, <2>1, TextProperties
<1>4. CASE variant.type # type
  <2>1. TypeCast(type, variant) = LexicalCast(type, variant)
    BY <1>2, <1>4 DEF TypeCast
  <2>2. CASE variant.number = Word
    BY <1>2, <1>4, <2>1, <2>2, TextProperties DEF LexicalCast
  <2>3. CASE variant.number # Word
    <3>1. variant.number \in Int /\ Text(variant) \in Int /\ Text(variant) # Word
      BY <2>3, TextProperties
    <3>2. TypeCast(type, variant) = Nearest(Representable[type], Text(variant))
      BY <1>2, <2>1, <3>1 DEF LexicalCast
    <3> QED
      BY <1>1, <1>4, <3>1, <3>2, NearestProperties
  <2> QED
    BY <2>2, <2>3
<1> QED
  BY <1>3, <1>4

\* A cast to an integral type keeps a text in digits or refuses it, and cuts
\* the fraction off the double nearest to any other.
LEMMA IntegralCast ==
    ASSUME NEW type \in Integral, NEW variant \in Variant, variant.number # Word
    PROVE  LET text == Text(variant)
               cell == TypeCast(type, variant)
           IN  \/ InDigits(variant) /\ text \in Representable[type] /\ cell = text
               \/ /\ InDigits(variant) /\ text \notin Representable[type] /\ cell = CastError
                  /\ text <= Least(type) \/ text >= Greatest(type)
               \/ /\ ~InDigits(variant) /\ text \in Int
                  /\ cell = NumericCast(type, ToDouble(text))
<1> DEFINE text == Text(variant)
           cell == TypeCast(type, variant)
<1>1. /\ text \in Int /\ text # Word
      /\ variant.type = type => text = variant.number /\ text \in Representable[type]
      /\ variant.type = type => InDigits(variant)
      /\ InDigits(variant) => Whole(text)
  BY TextProperties, TypeCastsAssumption DEF Integral, Floating
<1>2. /\ variant.type = type => cell = variant.number
      /\ variant.type # type /\ LexicalCast(type, variant) = CastError =>
            cell = ViaDouble(type, variant)
      /\ variant.type # type /\ LexicalCast(type, variant) # CastError =>
            cell = LexicalCast(type, variant)
  BY DEF TypeCast
<1>3. LexicalCast(type, variant) =
         IF InDigits(variant) /\ text \in Representable[type] THEN text ELSE CastError
  BY <1>1 DEF LexicalCast, Integral, Floating
<1>4. CastError # text
  BY <1>1, TypeCastsAssumption
<1>5. ViaDouble(type, variant) = NumericCast(type, ToDouble(text))
  BY <1>1 DEF ViaDouble, LexicalCast, ToDouble, Doubles, Floating
<1> HIDE DEF text, cell
<1>6. CASE InDigits(variant) /\ text \in Representable[type]
  BY <1>1, <1>2, <1>3, <1>4, <1>6 DEF text, cell
<1>7. CASE InDigits(variant) /\ text \notin Representable[type]
  <2>1. cell = CastError /\ (text <= Least(type) \/ text >= Greatest(type))
    BY <1>1, <1>2, <1>3, <1>5, <1>7, FarNumberIsRefused
  <2> QED
    BY <1>7, <2>1 DEF text, cell
<1>8. CASE ~InDigits(variant)
  BY <1>1, <1>2, <1>3, <1>5, <1>8 DEF text, cell
<1> QED
  BY <1>6, <1>7, <1>8

\* A string that spells no number is refused.
LEMMA IntegralCastOfWord ==
    ASSUME NEW type \in Integral, NEW variant \in Variant, variant.number = Word
    PROVE  TypeCast(type, variant) = CastError
<1>1. Text(variant) = Word /\ Word \notin Int /\ CastError \notin Int
  BY TextProperties, TypeCastsAssumption
<1>2. variant.type # type
  BY <1>1, TextProperties, IntegralProperties
<1> QED
  BY <1>1, <1>2 DEF TypeCast, LexicalCast, ViaDouble, Integral, Floating
-----------------------------------------------------------------------------
(* The column *)

\* Whatever has been cast, it was cast to the column's type.
IInv ==
    /\ column \in Type
    /\ \A c \in casts : /\ c.given \in Variant
                        /\ c = [given |-> c.given, cell |-> TypeCast(column, c.given)]

LEMMA InductiveInvariant == Spec => []IInv
<1>1. Init => IInv
  BY DEF Init, IInv
<1>2. IInv /\ [Next]_vars => IInv'
  <2> SUFFICES ASSUME IInv, [Next]_vars PROVE IInv'
    OBVIOUS
  <2>1. ASSUME NEW variant \in Variant, CastToColumn(variant) PROVE IInv'
    <3>1. Casts[column, variant] = TypeCast(column, variant)
      BY DEF Casts, IInv
    <3>2. /\ casts' = casts \cup {[given |-> variant, cell |-> TypeCast(column, variant)]}
          /\ column' = column
      BY <2>1, <3>1 DEF CastToColumn
    <3> QED
      BY <3>2 DEF IInv
  <2>2. CASE UNCHANGED vars
    BY <2>2 DEF vars, IInv
  <2> QED
    BY <2>1, <2>2 DEF Next
<1> QED
  BY <1>1, <1>2, PTL DEF Spec

LEMMA IInvTypeOK == IInv => CastTypeOK
<1> DEFINE Cells == IF column = "string"
                    THEN ShortTexts \cup LongTexts \cup {Word}
                            \cup UNION {Representable[t] : t \in Integral}
                    ELSE Representable[column] \cup {CastError}
<1>0. IInv /\ (\A c \in casts : c.cell \in Cells) => CastTypeOK
  <2> SUFFICES ASSUME IInv, \A c \in casts : c.cell \in Cells PROVE CastTypeOK
    OBVIOUS
  <2>1. ASSUME NEW c \in casts PROVE c \in [given : Variant, cell : Cells]
    <3>1. c = [given |-> c.given, cell |-> TypeCast(column, c.given)] /\ c.given \in Variant
      BY DEF IInv
    <3>2. c.cell \in Cells
      OBVIOUS
    <3> HIDE DEF Cells
    <3> QED
      BY <3>1, <3>2
  <2> QED
    BY <2>1 DEF CastTypeOK, IInv
<1> SUFFICES ASSUME IInv, NEW c \in casts PROVE c.cell \in Cells
  BY <1>0
<1> DEFINE variant == c.given
<1>1. variant \in Variant /\ c.cell = TypeCast(column, variant) /\ column \in Type
  BY DEF IInv
<1> HIDE DEF variant
<1>2. CASE column = "string"
  <2>1. c.cell = IF variant.type = "string" THEN variant.number ELSE Text(variant)
    BY <1>1, <1>2 DEF TypeCast, LexicalCast, Integral
  <2>2. variant.type \in Floating \/ variant.type \in Integral \/ variant.type = "string"
    BY <1>1, TextProperties DEF Type, Numeric
  <2> QED
    BY <1>1, <1>2, <2>1, <2>2, TextProperties DEF Integral, Floating
<1>3. CASE column \in Floating
  BY <1>1, <1>3, FloatingCast DEF Floating
<1>4. CASE column \in Integral
  <2>1. CASE variant.number = Word
    BY <1>1, <1>4, <2>1, IntegralCastOfWord DEF Integral
  <2>2. CASE variant.number # Word
    <3>1. CASE /\ Text(variant) \in Int
               /\ c.cell = NumericCast(column, ToDouble(Text(variant)))
      BY <1>4, <3>1, NumericCastType, DoubleProperties DEF Integral
    <3> QED
      BY <1>1, <1>4, <2>2, <3>1, IntegralCast DEF Integral
  <2> QED
    BY <2>1, <2>2
<1> QED
  BY <1>1, <1>2, <1>3, <1>4 DEF Type, Numeric

LEMMA IInvWholeNumbers == IInv => WholeNumbersKept
<1> SUFFICES ASSUME IInv, column \in Integral, NEW c \in casts,
                    c.given.number \in Representable[column]
             PROVE  c.cell = c.given.number
                      <=> /\ Text(c.given) = c.given.number
                          /\ InDigits(c.given) \/ SafeDouble(column, c.given.number)
  BY DEF WholeNumbersKept
<1> DEFINE variant == c.given
           number == variant.number
           text == Text(variant)
<1>1. variant \in Variant /\ c.cell = TypeCast(column, variant)
  BY DEF IInv
<1>2. Whole(number) /\ number \in Int /\ number # Word /\ CastError \notin Int
  <2>1. Whole(number)
    BY IntegralProperties
  <2> QED
    BY <2>1, TypeCastsAssumption DEF Whole
<1>3. /\ variant.type \in Floating =>
            /\ number \in Representable[variant.type]
            /\ text = Nearest(ShortTexts, number) /\ text \in ShortTexts
      /\ variant.type \notin Floating => text = number
  BY <1>1, TextProperties
<1>4. variant.type \in Floating => Whole(text)
  <2>1. ShortTexts \subseteq Int
    BY TypeCastsAssumption
  <2>2. variant.type \in Floating => Nearest(ShortTexts, number) % One = 0
    BY <1>2, <1>3, RepresentableAssumption DEF Whole
  <2> QED
    BY <1>3, <2>1, <2>2 DEF Whole
<1>5. \/ InDigits(variant) /\ text \in Representable[column] /\ c.cell = text
      \/ InDigits(variant) /\ text \notin Representable[column] /\ c.cell = CastError
      \/ ~InDigits(variant) /\ c.cell = NumericCast(column, ToDouble(text))
  BY <1>1, <1>2, IntegralCast
<1> HIDE DEF variant, number, text
<1>6. CASE InDigits(variant)
  BY <1>2, <1>5, <1>6 DEF number, text, variant
<1>7. CASE ~InDigits(variant) /\ text = number
  <2>1. NumericCast(column, ToDouble(number)) = number <=> SafeDouble(column, number)
    BY SafeDoubleIsKept DEF number, variant
  <2> QED
    BY <1>5, <1>7, <2>1 DEF number, text, variant
<1>8. CASE ~InDigits(variant) /\ text # number
  <2>1. Whole(text) /\ text \in ShortTexts /\ c.cell = NumericCast(column, ToDouble(text))
    BY <1>3, <1>4, <1>5, <1>8
  <2>2. CASE text \notin Representable[column]
    <3>1. c.cell = CastError
      BY <2>1, <2>2, FarNumberIsRefused
    <3> QED
      BY <1>2, <1>8, <3>1 DEF number, text, variant
  <2>3. CASE text \in Representable[column]
    <3>1. text \in Doubles /\ ToDouble(text) = text /\ Truncated(text) = text
      BY <2>1, <2>3, DoublesOfIntegral, DoubleProperties, TruncatedOfWhole
    <3>2. c.cell \in {CastError, text}
      BY <2>1, <3>1, NumericCastType
    <3> QED
      BY <1>2, <1>8, <3>2 DEF number, text, variant
  <2> QED
    BY <2>2, <2>3
<1> QED
  BY <1>6, <1>7, <1>8

\* What the cast gets to see is the text or the double nearest to it.
LEMMA IInvClose == IInv => CastIsClose
<1> SUFFICES ASSUME IInv, column \in Integral, NEW c \in casts
             PROVE  IF c.cell = CastError
                    THEN \/ c.given.number = Word
                         \/ Seen(c.given) <= Least(column) \/ Seen(c.given) >= Greatest(column)
                    ELSE Distance(c.cell, Seen(c.given)) < One
  BY DEF CastIsClose
<1> DEFINE variant == c.given
           text == Text(variant)
           seen == Seen(variant)
<1>1. variant \in Variant /\ c.cell = TypeCast(column, variant)
  BY DEF IInv
<1>2. CASE variant.number = Word
  BY <1>1, <1>2, IntegralCastOfWord
<1>3. CASE variant.number # Word
  <2>1. text \in Int /\ One > 0 /\ One \in Nat /\ CastError \notin Int
    BY <1>1, <1>3, TextProperties, OneIsPositive, TypeCastsAssumption
  <2>2. /\ InDigits(variant) => seen = text
        /\ ~InDigits(variant) => seen = ToDouble(text)
    BY DEF Seen, ToDouble, Doubles
  <2>3. \/ InDigits(variant) /\ c.cell = text
        \/ /\ InDigits(variant) /\ c.cell = CastError
           /\ text <= Least(column) \/ text >= Greatest(column)
        \/ ~InDigits(variant) /\ c.cell = NumericCast(column, ToDouble(text))
    BY <1>1, <1>3, IntegralCast
  <2> HIDE DEF text, seen
  <2>5. CASE InDigits(variant) /\ c.cell = text
    <3>1. Distance(c.cell, seen) = 0
      BY <2>1, <2>2, <2>5 DEF Distance
    <3> QED
      BY <2>1, <2>5, <3>1 DEF seen, variant
  <2>6. CASE /\ InDigits(variant) /\ c.cell = CastError
             /\ text <= Least(column) \/ text >= Greatest(column)
    BY <2>2, <2>6 DEF seen, variant
  <2>7. CASE ~InDigits(variant) /\ c.cell = NumericCast(column, ToDouble(text))
    <3>1. seen \in Doubles /\ seen \in Int /\ c.cell = NumericCast(column, seen)
      BY <2>1, <2>2, <2>7, DoubleProperties
    <3>2. CASE c.cell # CastError
      <4>1. c.cell = Truncated(seen)
        BY <3>1, <3>2, NumericCastType
      <4>2. /\ Truncated(seen) \in Int
            /\ seen >= 0 => Truncated(seen) <= seen /\ seen < Truncated(seen) + One
            /\ seen < 0 => seen <= Truncated(seen) /\ Truncated(seen) < seen + One
        BY <3>1, TruncatedProperties DEF Whole
      <4>3. Distance(Truncated(seen), seen) < One
        BY <2>1, <3>1, <4>2 DEF Distance
      <4> QED
        BY <3>2, <4>1, <4>3 DEF seen, variant
    <3>3. CASE c.cell = CastError
      <4> DEFINE least == Least(column)
                 greatest == Greatest(column)
      <4>1. /\ least \in Int /\ least \in Doubles
            /\ greatest \in Int /\ greatest + One \in Doubles
        BY IntegralProperties DEF Whole
      <4>2. ToDouble(least) = least /\ ToDouble(greatest + One) = greatest + One
        BY <4>1, DoubleProperties
      <4>3. ToDouble(least - One) <= least /\ ToDouble(least - One) \in Int
        <5>1. least - One \in Int /\ least - One <= least
          BY <2>1, <4>1
        <5> QED
          BY <4>1, <4>2, <5>1, DoubleProperties
      <4>4. Truncated(seen) \in Int
        BY <3>1, TruncatedProperties DEF Whole
      <4>5. seen <= ToDouble(least - One) \/ seen >= ToDouble(greatest + One)
        BY <2>1, <3>1, <3>3, <4>4 DEF NumericCast, ToDouble, Doubles
      <4> HIDE DEF least, greatest
      <4>6. seen <= least \/ seen >= greatest
        BY <2>1, <3>1, <4>1, <4>2, <4>3, <4>5
      <4> QED
        BY <3>3, <4>6 DEF seen, variant, least, greatest
    <3> QED
      BY <3>2, <3>3
  <2> QED
    BY <2>3, <2>5, <2>6, <2>7
<1> QED
  BY <1>2, <1>3
\* Where a cast to an integral column ends: at the whole part of its number, if
\* it starts from the number.
LEMMA UnharmedIntegralCast ==
    ASSUME NEW type \in Integral, type = column, NEW variant \in Variant, Unharmed(variant),
           TypeCast(type, variant) # CastError
    PROVE  variant.number \in Int /\ TypeCast(type, variant) = Truncated(variant.number)
<1>1. variant.number # Word
  BY IntegralCastOfWord
<1> DEFINE text == Text(variant)
           number == variant.number
           cell == TypeCast(type, variant)
<1>2. number \in Int /\ text \in Int
  BY <1>1, TextProperties
<1>3. variant.type = type => cell = number /\ Whole(number)
  BY IntegralProperties, TextProperties DEF TypeCast
<1>4. CASE variant.type = type
  BY <1>2, <1>3, <1>4, TruncatedOfWhole
<1>5. CASE variant.type # type
  <2>1. text = number /\ Truncated(Seen(variant)) = Truncated(number)
    BY <1>5 DEF Unharmed
  <2>2. InDigits(variant) => Whole(text)
    BY TextProperties
  <2>3. \/ InDigits(variant) /\ cell = text
        \/ ~InDigits(variant) /\ cell = NumericCast(type, ToDouble(text))
    BY <1>1, IntegralCast
  <2>4. ~InDigits(variant) => Seen(variant) = ToDouble(text)
    BY DEF Seen, ToDouble, Doubles
  <2>5. ToDouble(text) \in Doubles
    BY <1>2, DoubleProperties
  <2>6. ~InDigits(variant) => cell = Truncated(Seen(variant))
    BY <2>3, <2>4, <2>5, NumericCastType
  <2> QED
    BY <1>2, <2>1, <2>2, <2>3, <2>6, TruncatedOfWhole
<1> QED
  BY <1>2, <1>4, <1>5

\* Short texts are cast to an integral type in their order, whichever of the
\* two routes each of them takes: one in digits is a double, so that the other
\* route would lead to the same number.
LEMMA ShortTextsKeepOrder ==
    ASSUME NEW type \in Integral,
           NEW row \in Variant, row.type \in Floating, TypeCast(type, row) # CastError,
           NEW search \in Variant, search.type \in Floating, TypeCast(type, search) # CastError,
           Text(row) <= Text(search)
    PROVE  TypeCast(type, row) <= TypeCast(type, search)
<1>1. ASSUME NEW v \in Variant, v.type \in Floating, TypeCast(type, v) # CastError
      PROVE  Text(v) \in Int /\ TypeCast(type, v) = Truncated(ToDouble(Text(v)))
  <2>1. /\ Text(v) \in ShortTexts /\ Text(v) \in Int /\ v.number # Word
        /\ InDigits(v) => Whole(Text(v))
    BY <1>1, TextProperties, TypeCastsAssumption
  <2>2. \/ InDigits(v) /\ Text(v) \in Representable[type] /\ TypeCast(type, v) = Text(v)
        \/ TypeCast(type, v) = NumericCast(type, ToDouble(Text(v)))
    BY <1>1, <2>1, IntegralCast
  <2>3. CASE InDigits(v) /\ Text(v) \in Representable[type] /\ TypeCast(type, v) = Text(v)
    BY <2>1, <2>3, DoublesOfIntegral, DoubleProperties, TruncatedOfWhole
  <2>4. CASE TypeCast(type, v) = NumericCast(type, ToDouble(Text(v)))
    BY <1>1, <2>1, <2>4, DoubleProperties, NumericCastType
  <2> QED
    BY <2>1, <2>2, <2>3, <2>4
<1>2. /\ Text(row) \in Int /\ TypeCast(type, row) = Truncated(ToDouble(Text(row)))
      /\ Text(search) \in Int /\ TypeCast(type, search) = Truncated(ToDouble(Text(search)))
  BY <1>1
<1> QED
  BY <1>2, DoubleProperties, TruncatedIsMonotone

\* Both casts round and cut off in the same way, and both ways are monotone.
LEMMA IInvOrder == IInv => ScansKeepOrder
<1> SUFFICES ASSUME IInv, column \in Numeric,
                    NEW r \in {c \in casts : c.cell # CastError},
                    NEW s \in {c \in casts : c.cell # CastError},
                    \/ r.given.type = s.given.type /\ r.given.type \in Floating
                    \/ Unharmed(r.given) /\ Unharmed(s.given),
                    r.given.number <= s.given.number
             PROVE  r.cell <= s.cell
  BY DEF ScansKeepOrder
<1> DEFINE row == r.given
           search == s.given
<1>1. /\ row \in Variant /\ r.cell = TypeCast(column, row) /\ r.cell # CastError
      /\ search \in Variant /\ s.cell = TypeCast(column, search) /\ s.cell # CastError
  BY DEF IInv
<1>2. CASE row.type = search.type /\ row.type \in Floating
  <2>1. ShortTexts \in SUBSET Int /\ ShortTexts # {}
    BY TypeCastsAssumption
  <2>2. /\ row.number \in Int /\ search.number \in Int
        /\ Text(row) = Nearest(ShortTexts, row.number)
        /\ Text(search) = Nearest(ShortTexts, search.number)
        /\ Text(row) \in Int /\ Text(search) \in Int
    BY <1>1, <1>2, <2>1, TextProperties
  <2>3. Text(row) <= Text(search)
    BY <2>1, <2>2, NearestIsMonotone
  <2>4. CASE column \in Integral
    BY <1>1, <1>2, <2>3, <2>4, ShortTextsKeepOrder
  <2>5. CASE column \in Floating
    <3>1. Representable[column] \in SUBSET Int /\ Representable[column] # {}
      BY <2>5, TypeCastsAssumption DEF Floating, Numeric
    <3>2. CASE row.type = column
      BY <1>1, <1>2, <2>5, <3>2, FloatingCast
    <3>3. CASE row.type # column
      BY <1>1, <1>2, <2>2, <2>3, <2>5, <3>1, <3>3, FloatingCast, NearestIsMonotone
    <3> QED
      BY <3>2, <3>3
  <2> QED
    BY <2>4, <2>5 DEF Numeric
<1>3. CASE Unharmed(row) /\ Unharmed(search)
  <2>1. CASE column \in Integral
    <3>1. /\ row.number \in Int /\ r.cell = Truncated(row.number)
          /\ search.number \in Int /\ s.cell = Truncated(search.number)
      BY <1>1, <1>3, <2>1, UnharmedIntegralCast
    <3> QED
      BY <3>1, TruncatedIsMonotone
  <2>2. CASE column \in Floating
    <3>1. Representable[column] \in SUBSET Int /\ Representable[column] # {}
      BY <2>2, TypeCastsAssumption DEF Floating, Numeric
    <3>2. ASSUME NEW v \in Variant, Unharmed(v), TypeCast(column, v) # CastError
          PROVE  /\ v.number \in Int
                 /\ TypeCast(column, v) = Nearest(Representable[column], v.number)
      <4>1. v.number \in Int
        BY <2>2, <3>2, FloatingCast
      <4>2. CASE v.type = column
        <5>1. TypeCast(column, v) = v.number /\ v.number \in Representable[column]
          BY <2>2, <3>2, <4>2, FloatingCast, TextProperties
        <5> QED
          BY <3>1, <4>1, <5>1, NearestOfMember
      <4>3. CASE v.type # column
        BY <2>2, <3>2, <4>1, <4>3, FloatingCast DEF Unharmed
      <4> QED
        BY <4>2, <4>3
    <3>3. /\ row.number \in Int /\ r.cell = Nearest(Representable[column], row.number)
          /\ search.number \in Int /\ s.cell = Nearest(Representable[column], search.number)
      BY <1>1, <1>3, <3>2
    <3> QED
      BY <3>1, <3>3, NearestIsMonotone
  <2> QED
    BY <2>1, <2>2 DEF Numeric
<1> QED
  BY <1>2, <1>3

-----------------------------------------------------------------------------
(* The theorems *)

\* A cast gives a number the column's type has, or an error: the range check
\* of numeric_cast works although the ends of a long are not all doubles.
THEOREM CastTypeCorrect == Spec => []CastTypeOK
BY InductiveInvariant, IInvTypeOK, PTL

\* An integral column keeps exactly the whole numbers whose text spells them, if
\* it is in digits alone or they pass through double unharmed.
THEOREM WholeNumbersKeptAlways == Spec => []WholeNumbersKept
BY InductiveInvariant, IInvWholeNumbers, PTL

\* An integral column is never more than the fraction away from what it is
\* given; what it refuses is at or beyond its ends.
THEOREM CastIsCloseAlways == Spec => []CastIsClose
BY InductiveInvariant, IInvClose, PTL

\* A row and a search value compare after their casts as their numbers do,
\* whichever of the two routes to an integral type each of them took.
THEOREM ScansKeepOrderAlways == Spec => []ScansKeepOrder
BY InductiveInvariant, IInvOrder, PTL
=============================================================================
