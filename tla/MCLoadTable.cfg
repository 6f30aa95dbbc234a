SPECIFICATION LoadSpec
CONSTANTS
    int = int
    string = string
    word = word
    a = a
    b = b
    Empty = Empty
    NULL = NULL
    CastError = CastError
    DataType <- MCDataType
    Values <- MCValues
    Variants <- MCVariants
    TypeCast <- MCTypeCast
    NumericMax <- MCNumericMax
    SortedDistinct <- MCSortedDistinct
    Headers <- MCHeaders
    Lines <- MCLines
    ColumnName = {a, b}
    TargetSizes = {0, 1, 2}
    AskedSizes = {1, 8, 10}
    DebugBuild = TRUE
    ThreadsMayFail = FALSE
    MaxColumns = 2
    MaxChunks = 3
    MaxRows = 3
    MaxLines = 2
INVARIANTS
    LoadTypeOK
    LoadedEqualsFile
    LoadIsExact
PROPERTIES
    KeepsTheRules
    LoadEnds
\* The load ends.
CHECK_DEADLOCK FALSE
