\* An argument beyond the parameters of a function with a local variable.
CONSTANTS
    Shape <- WithLocal
    Passed <- Extra
    Returned <- One
    Value = {"a", "b", "c", "d", "x", "y"}
    Counted = {"d", "x"}
    Hooks = 2
    Rooms = {1, 4}
    FrameSize = 16
    Limit = 3
    DEFAULT = "DEFAULT"
    NULL = "NULL"
    UNDEF = "UNDEF"
    TEMP = "TEMP"
    GARBAGE = "GARBAGE"
SPECIFICATION Spec
PROPERTY ExtraArgumentsCanBeModified
CHECK_DEADLOCK FALSE
