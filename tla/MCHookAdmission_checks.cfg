\* The three checks before a hook, for every list, closure and call.
CONSTANTS
    Conflicts <- MCConflicts
    Separator = {",", " "}
    Loaded <- MCLoaded
    Closure <- MCClosure
    Handler <- MCHandler
    Given <- MCGiven
    Class = {"Foo", "Bar"}
SPECIFICATION Spec
INVARIANTS
    TypeOK
    DocumentedHooksRun
    ChecksCatchTheRest
PROPERTY DisabledByConflicts
