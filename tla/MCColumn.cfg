SPECIFICATION Spec
CONSTANTS
    int = int
    unparsable = unparsable
    NULL = NULL
    CastError = CastError
    DataType <- MCDataType
    Values <- MCValues
    Variants <- MCVariants
    TypeCast <- MCTypeCast
    NumericMax <- MCNumericMax
    SortedDistinct <- MCSortedDistinct
    MaxRows = 5
INVARIANTS
    ColumnTypeOK
    LosslessExactlyWhen
    DamageConfined
    NullIdIsFree
    EncodingPreservesOrder
    ScanAgreesWithReads
\* A caller may stop using the column after it is compressed.
CHECK_DEADLOCK FALSE
