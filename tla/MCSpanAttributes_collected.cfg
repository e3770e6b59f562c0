\* Every combination of attributes and arguments.
CONSTANTS
    Callee <- MCCallee
    Arguments <- MCArguments
    NULL = NULL
    UNNAMED = UNNAMED
    SCALAR = SCALAR
    GARBAGE = GARBAGE
SPECIFICATION Spec
INVARIANTS
    TypeOK
    OwnAttributesAreCollected
    OwnMarksCount
    SpanArgumentsKeepTheirNames
    OthersKeepReferences
CHECK_DEADLOCK FALSE
