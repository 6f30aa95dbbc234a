SPECIFICATION Spec
CONSTANTS
    int = int
    string = string
    unparsable = unparsable
    NULL = NULL
    CastError = CastError
    DataType <- MCTwoTypes
    Values <- MCValues
    Variants <- MCVariants
    TypeCast <- MCTypeCast
    NumericMax <- MCNumericMax
    SortedDistinct <- MCSortedDistinct
    ColumnName = {a, b}
    TargetSizes = {0, 1}
    DebugBuild = TRUE
    ThreadsMayFail = TRUE
    MaxColumns = 2
    MaxChunks = 3
    MaxRows = 2
SYMMETRY MCSymmetry
INVARIANTS
    TypeOK
    FirstSegmentTells
    SegmentsShrinkRightward
    ChunksWithinTarget
PROPERTIES
    AppendIsWhole
    PositionsAreStable
\* Ends after std::terminate, undefined behaviour or at the bounds.
CHECK_DEADLOCK FALSE
