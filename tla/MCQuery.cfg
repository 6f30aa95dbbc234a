SPECIFICATION QuerySpec
CONSTANTS
    int = int
    NULL = NULL
    CastError = CastError
    DataType <- MCDataType
    Values <- MCValues
    Variants <- MCVariants
    TypeCast <- MCTypeCast
    NumericMax <- MCNumericMax
    SortedDistinct <- MCSortedDistinct
    ColumnName = {a, b}
    TargetSizes = {2}
    DebugBuild = FALSE
    ThreadsMayFail = FALSE
    MaxColumns = 2
    MaxChunks = 2
    MaxRows = 2
    MaxPositions = 1
SYMMETRY MCSymmetry
VIEW MCView
INVARIANTS
    QueryTypeOK
    PositionsInBounds
    RescanIsIntersection
    OutputPrintsIfTableDoes
PROPERTY
    OutputsAreStable
\* Ends after std::terminate, undefined behaviour or at the bounds.
CHECK_DEADLOCK FALSE
