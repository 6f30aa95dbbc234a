SPECIFICATION Spec
CONSTANTS
    Name = {a, b}
    BaseTable = {s, t}
    nullptr = nullptr
    MaxOperators = 3
SYMMETRY MCSymmetry
INVARIANTS
    OperatorsTypeOK
    OutputMatchesFlag
    OutputsFollowInputs
    UndefinedOnlyByMisuse
PROPERTY
    ImplementsPlan
\* Ends after undefined behaviour.
CHECK_DEADLOCK FALSE
