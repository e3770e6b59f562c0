\* Scripts that follow the rules: the registry implements the contract.
CONSTANTS
    Name <- MCName
    Lower <- MCLower
    FunctionTable = "functions"
    MethodTable = {"run"}
    Callee <- MCCallee
    Home <- MCHome
    Own <- MCOwn
    Parent <- MCParent
    Interfaces <- MCInterfaces
    WithSpan = {"Base::run"}
    Hook = {"h1", "h2", "h3"}
    AttrPre = "h3"
    AttrPost = NULL
    Registration <- DisciplinedCalls
    Addr = {a1, a2, a3, a4, a5}
    NULL = NULL
    MaxRepeats = 1
    MaxRequests = 2
SYMMETRY Addresses
SPECIFICATION Spec
INVARIANTS
    TypeOK
    LowercaseKeyAlways
    NoFaultWhileClean
    RegistrationsAreKept
    SlotsHoldAggregates
    MemoryInv
    ContractInv
PROPERTY ImplementsContract
CHECK_DEADLOCK FALSE
