\* A request that registers a hook and ends.
CONSTANTS
    Name <- MCName
    Lower <- MCLower
    FunctionTable = "functions"
    MethodTable = {"run"}
    Callee <- MCCallee
    Home <- MCHome
    Own <- MCOwn
    Parent <- MCParent
    Interfaces <- MCInterfaces
    WithSpan = {}
    Hook = {"h1", "h2", "h3"}
    AttrPre = "h3"
    AttrPost = NULL
    Registration <- InterfaceCalls
    Addr = {a1, a2, a3, a4, a5}
    NULL = NULL
    MaxRepeats = 1
    MaxRequests = 1
SYMMETRY Addresses
SPECIFICATION Spec
INVARIANTS
    RequestsEndGracefully
CHECK_DEADLOCK FALSE
