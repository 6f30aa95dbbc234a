------------------------------ MODULE TypeCasts -------------------------------
(***************************************************************************)
(* type_cast, and what it makes of a scan: a row is cast to the column's   *)
(* type when it is appended, the search value when the column is scanned.  *)
(*                                                                         *)
(* A variant is a type with a number; a string is the text of a number, or *)
(* Word, which is none.  A text that spells a number does it in digits     *)
(* alone, or with a point or an exponent, which an integral type does not  *)
(* read.  One is the number 1, so that there are fractions.  What a type   *)
(* can hold is a set of numbers, and so are the texts of floating point    *)
(* values, for which the stream in lexical_cast writes six digits.  All    *)
(* numbers are within the range of a float.                                *)
(***************************************************************************)
EXTENDS Integers, FiniteSets

CONSTANTS
    One,            \* the number 1
    Representable,  \* numeric type -> the numbers it has
    ShortTexts,     \* numbers that six decimal digits spell
    ExponentFrom,   \* floating point values from here on have one in their texts
    LongTexts,      \* numbers whose texts are passed as strings
    Word,           \* a string that spells no number
    CastError,      \* stands for bad_lexical_cast or bad_numeric_cast
    MaxCasts        \* bound: casts made for the column

Integral == {"int", "long"}
Floating == {"float", "double"}
Numeric  == Integral \cup Floating
Type     == Numeric \cup {"string"}

ASSUME TypeCastsAssumption ==
    /\ One \in Nat \ {0}
    /\ Representable \in [Numeric -> SUBSET Int]
    /\ \A type \in Integral : \A n \in Representable[type] : n % One = 0
    /\ ShortTexts \subseteq Int /\ LongTexts \subseteq Int
    /\ ShortTexts # {} /\ \A type \in Floating : Representable[type] # {}
    /\ Word \notin Int /\ CastError \notin Int
    /\ ExponentFrom \in Nat
    /\ MaxCasts \in Nat

\* AllTypeVariant, NULL apart, which never gets to type_cast.  A string that
\* spells a whole number may or may not be in digits alone.
Variant ==
    {v \in [type : {"string"}, number : LongTexts \cup {Word}, digits : BOOLEAN] :
        v.digits => v.number # Word /\ v.number % One = 0}
    \cup UNION {[type : {t}, number : Representable[t]] : t \in Numeric}

Distance(m, n) == IF m < n THEN n - m ELSE m - n

\* The member of S nearest to n; of two, the lesser.
Nearest(S, n) ==
    CHOOSE m \in S : \A k \in S :
        Distance(m, n) < Distance(k, n) \/ (Distance(m, n) = Distance(k, n) /\ m <= k)

\* The text of a variant, by operator<< of the type it holds: its number,
Text(variant) ==
    IF variant.type \in Floating THEN Nearest(ShortTexts, variant.number)
                                 ELSE variant.number

\* and whether it is written in digits alone.
InDigits(variant) ==
    \/ variant.type \in Integral
    \/ variant.type = "string" /\ variant.digits
    \/ /\ variant.type \in Floating
       /\ Text(variant) % One = 0 /\ Distance(Text(variant), 0) < ExponentFrom

Least(type) == CHOOSE m \in Representable[type] : \A k \in Representable[type] : m <= k
Greatest(type) == CHOOSE m \in Representable[type] : \A k \in Representable[type] : k <= m

\* How coarse the types are.  An integral type has the whole numbers between
\* its ends, which are -2^n and 2^n - 1, and 2^n is a double.  The doubles
\* nearest to whole numbers are whole; those in range that six digits spell
\* are doubles, as 10^6 * 5^13 < 2^53 and a long ends before 10^19.  Below the
\* lower end, -2^n - 1 is a double, or -2^n is the nearest.
ASSUME RepresentableAssumption ==
    /\ \A type \in Integral :
          /\ {Least(type), 0, Greatest(type)} \subseteq Representable[type]
          /\ Representable[type] = {n \in Least(type) .. Greatest(type) : n % One = 0}
          /\ {Least(type), Greatest(type) + One} \subseteq Representable["double"]
          /\ Nearest(Representable["double"], Least(type) - One)
                \in {Least(type) - One, Least(type)}
          /\ \A n \in Representable[type] :
                /\ Nearest(Representable["double"], n) % One = 0
                /\ n \in ShortTexts => n \in Representable["double"]
    /\ \A type \in Floating : \A n \in Representable[type] :
          n % One = 0 => Nearest(ShortTexts, n) % One = 0

\* lexical_cast from the text of a variant.  An integral type takes digits only.
LexicalCast(type, variant) ==
    LET text == Text(variant)
    IN  IF type = "string" THEN text
        ELSE IF text = Word THEN CastError
        ELSE IF type \in Floating THEN Nearest(Representable[type], text)
        ELSE IF InDigits(variant) /\ text \in Representable[type] THEN text
        ELSE CastError

\* Towards zero.
Truncated(n) == IF n >= 0 THEN (n \div One) * One ELSE -(((-n) \div One) * One)

\* numeric_cast from a double; its bounds are doubles, too.
NumericCast(type, n) ==
    LET double(m) == Nearest(Representable["double"], m)
    IN  IF n <= double(Least(type) - One) \/ n >= double(Greatest(type) + One)
        THEN CastError ELSE Truncated(n)

\* Mutant: static_cast, which keeps the low bits.
ViaDouble_StaticCast(type, variant) ==
    IF Text(variant) = Word THEN CastError
    ELSE Least(type) + ((Truncated(LexicalCast("double", variant)) - Least(type))
                           % (Greatest(type) - Least(type) + One))

\* Mutant: the fraction is cut off without a look at the range.
ViaDouble_Unchecked(type, variant) ==
    IF Text(variant) = Word THEN CastError ELSE Truncated(LexicalCast("double", variant))

\* The second attempt for an integral type, by way of double.
ViaDouble(type, variant) ==
    IF Text(variant) = Word THEN CastError
                            ELSE NumericCast(type, LexicalCast("double", variant))

\* Mutant: numbers always go through double.
TypeCast_AlwaysDouble(type, variant) ==
    IF variant.type = type THEN variant.number
    ELSE IF type \in Integral THEN ViaDouble(type, variant)
    ELSE LexicalCast(type, variant)

\* Mutant: an integral type gets no second attempt.
TypeCast_NoSecondAttempt(type, variant) ==
    IF variant.type = type THEN variant.number
    ELSE LexicalCast(type, variant)

TypeCast(type, variant) ==
    IF variant.type = type THEN variant.number
    ELSE IF type \in Integral /\ LexicalCast(type, variant) = CastError
    THEN ViaDouble(type, variant)
    ELSE LexicalCast(type, variant)

\* Every cast once.
Casts == [p \in Type \X Variant |-> TypeCast(p[1], p[2])]

-----------------------------------------------------------------------------
(* A column of one type, and what is cast to that type for it *)

VARIABLES
    column,     \* the column's type
    casts       \* what has been cast: the variant given, and its cell or CastError

vars == <<column, casts>>

Init == column \in Type /\ casts = {}

\* A row is appended or the column is scanned for a value: both cast what they
\* are given, which is not NULL, to the column's type.
CastToColumn(variant) ==
    /\ Cardinality(casts) < MaxCasts
    /\ casts' = casts \cup {[given |-> variant, cell |-> Casts[column, variant]]}
    /\ UNCHANGED column

Next == \E variant \in Variant : CastToColumn(variant)

Spec == Init /\ [][Next]_vars

-----------------------------------------------------------------------------
(* Type invariant *)

\* A cast to a numeric type gives a number the type has, or an error.
CastTypeOK ==
    /\ column \in Type
    /\ casts \subseteq
          [given : Variant,
           cell  : IF column = "string"
                   THEN ShortTexts \cup LongTexts \cup {Word}
                           \cup UNION {Representable[t] : t \in Integral}
                   ELSE Representable[column] \cup {CastError}]

-----------------------------------------------------------------------------
(* Safety *)

\* The number that a cast to an integral type gets to see: the text of the
\* variant, and if that is not in digits alone the double nearest to it.
Seen(variant) ==
    IF InDigits(variant) THEN Text(variant)
                         ELSE Nearest(Representable["double"], Text(variant))

\* A double that numeric_cast lets through; the least number of the type only
\* if the bound below it is a double of its own, which it is not for a long.
SafeDouble(type, n) ==
    /\ n \in Representable["double"]
    /\ n = Least(type) => n - One \in Representable["double"]

\* An integral column keeps a whole number it has room for exactly if the text
\* of the variant spells it, which for a float or double takes that six digits
\* do, and the text is in digits alone or the way through double is safe:
\* "9007199254740993.0" is lost to a long, and so is its least number with a
\* point.
WholeNumbersKept ==
    column \in Integral =>
        \A c \in casts :
            LET number == c.given.number
            IN  number \in Representable[column] =>
                    (c.cell = number
                        <=> /\ Text(c.given) = number
                            /\ InDigits(c.given) \/ SafeDouble(column, number))

\* In an integral column a number becomes one less than 1 away from what the
\* cast gets to see of it.  It never wraps around, and is not refused either
\* unless it is no number, or at or beyond the ends of the type.
CastIsClose ==
    column \in Integral =>
        \A c \in casts :
            IF c.cell = CastError
            THEN \/ c.given.number = Word
                 \/ Seen(c.given) <= Least(column) \/ Seen(c.given) >= Greatest(column)
            ELSE Distance(c.cell, Seen(c.given)) < One

\* The cast to the column's type starts from the number itself: it is of that
\* type, or its text spells it out, and if the way to an integral type is
\* through double, that double has the same whole part.
Unharmed(variant) ==
    \/ variant.type = column
    \/ /\ Text(variant) = variant.number
       /\ column \in Integral => Truncated(Seen(variant)) = Truncated(variant.number)

\* A scan compares two casts, of the row and of the search value.  If both come
\* as the same floating point type, or neither is harmed on its way into the
\* cast, the casts are equal or in the order of the numbers, by whichever of
\* the routes each of them came: so =, <= and >= find every row whose number
\* compares, and #, < and > none whose number does not.
ScansKeepOrder ==
    column \in Numeric =>
        \A row, search \in {c \in casts : c.cell # CastError} :
            /\ \/ row.given.type = search.given.type /\ row.given.type \in Floating
               \/ Unharmed(row.given) /\ Unharmed(search.given)
            /\ row.given.number <= search.given.number
            => row.cell <= search.cell
=============================================================================
