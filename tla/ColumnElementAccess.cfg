SPECIFICATION Spec
CONSTANTS
    int = int
    unparsable = unparsable
    NULL = NULL
    CastError = CastError
    DataType <- MCDataType
    Values <- MCValues
    Variants <- MCVariants
    TypeCast <- MCTypeCast
    NumericMax <- MCNumericMax
    SortedDistinct <- MCSortedDistinct
    MaxRows = 5
INVARIANT
    ElementAccessDefined
CHECK_DEADLOCK FALSE
