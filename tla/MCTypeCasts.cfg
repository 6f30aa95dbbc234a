SPECIFICATION Spec
CONSTANTS
    One = 10
    Word = Word
    CastError = CastError
    Representable <- MCRepresentable
    ShortTexts <- MCShortTexts
    ExponentFrom = 30
    LongTexts <- MCLongTexts
    MaxCasts = 2
INVARIANTS
    CastTypeOK
    WholeNumbersKept
    CastIsClose
    ScansKeepOrder
\* Ends at the bound.
CHECK_DEADLOCK FALSE
