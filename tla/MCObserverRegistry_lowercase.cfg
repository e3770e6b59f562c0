\* tests/function_internal.phpt hooks a function whose name is in lower case.
CONSTANTS
    Name <- MCName
    Lower <- MCLower
    FunctionTable = "functions"
    MethodTable = {"run"}
    Callee = {"Foo()"}
    Home <- MCHome
    Own <- MCOwn
    Parent <- MCParent
    Interfaces <- MCInterfaces
    WithSpan = {}
    Hook = {"h1", "h2", "h3"}
    AttrPre = "h3"
    AttrPost = NULL
    Registration <- LowercaseCalls
    Addr = {a1, a2, a3, a4, a5}
    NULL = NULL
    MaxRepeats = 1
    MaxRequests = 1
SYMMETRY Addresses
SPECIFICATION Spec
PROPERTY EveryRegistrationCounts
CHECK_DEADLOCK FALSE
