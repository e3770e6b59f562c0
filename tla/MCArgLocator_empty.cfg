\* A call without arguments whose pre hook sets one.
CONSTANTS
    Shape <- TwoOptional
    Passed <- NoArguments
    Returned <- One
    Value = {"a", "b", "c", "d", "x", "y"}
    Counted = {"d", "x"}
    Hooks = 1
    Rooms = {1, 4}
    FrameSize = 16
    Limit = 3
    DEFAULT = "DEFAULT"
    NULL = "NULL"
    UNDEF = "UNDEF"
    TEMP = "TEMP"
    GARBAGE = "GARBAGE"
SPECIFICATION Spec
INVARIANT NotProvidedCanBeModified
CHECK_DEADLOCK FALSE
