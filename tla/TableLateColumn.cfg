SPECIFICATION Spec
CONSTANTS
    int = int
    string = string
    unparsable = unparsable
    NULL = NULL
    CastError = CastError
    DataType <- MCOneType
    Values <- MCValues
    Variants <- MCVariants
    TypeCast <- MCTypeCast
    NumericMax <- MCNumericMax
    SortedDistinct <- MCSortedDistinct
    ColumnName = {a, b}
    TargetSizes = {2}
    DebugBuild = TRUE
    ThreadsMayFail = FALSE
    MaxColumns = 2
    MaxChunks = 3
    MaxRows = 2
PROPERTY
    ColumnsOnlyWithoutRows
\* Ends after undefined behaviour or at the bounds.
CHECK_DEADLOCK FALSE
