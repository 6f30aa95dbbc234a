SPECIFICATION UseSpec
CONSTANTS
    int = int
    unparsable = unparsable
    NULL = NULL
    CastError = CastError
    DataType <- MCDataType
    Values <- MCValues
    Variants <- MCVariants
    TypeCast <- MCTypeCast
    NumericMax <- MCNumericMax
    SortedDistinct <- MCSortedDistinct
    ColumnName = {a, b}
    TargetSizes = {0, 1, 2}
    DebugBuild = TRUE
    ThreadsMayFail = FALSE
    MaxColumns = 2
    MaxChunks = 3
    MaxRows = 3
SYMMETRY MCSymmetry
PROPERTY
    ImplementsAbstractTable
\* Ends at the bounds.
CHECK_DEADLOCK FALSE
