SPECIFICATION ThreadedSpec
CONSTANTS
    int = int
    string = string
    NULL = NULL
    CastError = CastError
    DataType <- MCDataType
    Values <- MCValues
    Variants <- MCVariants
    TypeCast <- MCTypeCast
    NumericMax <- MCNumericMax
    SortedDistinct <- MCSortedDistinct
    ColumnName = {a, b}
    TargetSizes = {2}
    DebugBuild = TRUE
    ThreadsMayFail = TRUE
    MaxColumns = 2
    MaxChunks = 2
    MaxRows = 1
INVARIANTS
    ThreadedTypeOK
    CollectsFinishedSegments
PROPERTIES
    ImplementsTable
    CallReturns
\* Ends after std::terminate, undefined behaviour or at the bounds.
CHECK_DEADLOCK FALSE
