\* A parameter that carries SpanAttribute in an interface only.
CONSTANTS
    Callee <- MCCallee
    Arguments <- MCArguments
    NULL = NULL
    UNNAMED = UNNAMED
    SCALAR = SCALAR
    GARBAGE = GARBAGE
SPECIFICATION Spec
INVARIANT InterfaceAttributesAreCollected
CHECK_DEADLOCK FALSE
