\* Two pre hooks for functions without variables but their parameters.
CONSTANTS
    Shape <- MCShape
    Passed <- MCPassed
    Returned <- MCReturned
    Value = {"a", "b", "c", "d", "x", "y"}
    Counted = {"d", "x"}
    Hooks = 2
    Rooms = {1, 4}
    FrameSize = 16
    Limit = 3
    DEFAULT = "DEFAULT"
    NULL = "NULL"
    UNDEF = "UNDEF"
    TEMP = "TEMP"
    GARBAGE = "GARBAGE"
SPECIFICATION Spec
INVARIANTS
    TypeOK
    TemporariesStay
    FrameHoldsArguments
    ExtraArgumentsAreReleased
PROPERTY ImplementsList
CHECK_DEADLOCK FALSE
