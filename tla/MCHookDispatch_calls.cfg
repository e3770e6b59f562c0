\* Calls within hooks and bodies, with exceptions, exit() and replaced values.
CONSTANTS
    Function = {"f", "g"}
    Main = "main"
    Hook = {"h1", "h2", "h3", "h4", "bad"}
    Pre <- MCPre
    Post <- MCPost
    Runnable = {"h1", "h2", "h3", "h4"}
    Named = {"h1", "h3"}
    Typed = {"h3"}
    Value = {v1, v2}
    Exception = {e1}
    UNWIND = UNWIND
    NULL = NULL
    GARBAGE = GARBAGE
    MaxDepth = 3
SPECIFICATION Spec
INVARIANTS
    TypeOK
    HooksRunOnceInOrder
    HooksSeeCurrentState
    FramesGoOnAsRaised
PROPERTIES
    HooksAreTransparent
    LoopsGoOn
CHECK_DEADLOCK FALSE
