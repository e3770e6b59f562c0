\* The same program, and what a document says of exceptions in post hooks.
CONSTANTS
    Function = {"f", "g"}
    Main = "main"
    Hook = {"h1", "h2", "h3", "h4", "bad"}
    Pre <- MCPre
    Post <- MCPost
    Runnable = {"h1", "h2", "h3", "h4"}
    Named = {"h1", "h3"}
    Typed = {"h3"}
    Value = {v1, v2}
    Exception = {e1}
    UNWIND = UNWIND
    NULL = NULL
    GARBAGE = GARBAGE
    MaxDepth = 3
SPECIFICATION Spec
PROPERTY
    PostHooksModifyExceptions
CHECK_DEADLOCK FALSE
