\* One context, no failure of the OS: the promise of BindScope.
CONSTANTS
    PU <- MCPU
    Levels <- MCLevels
    Ctx = {c1}
    BIND_STACK_SIZE = 4
    CreateFlags <- MCPlain
    InitBindings <- MCInitBindings
    Requests <- MCRequests
    SetOutcomes <- MCAlwaysSets
SPECIFICATION Spec
INVARIANTS TypeOK TopInForce
PROPERTIES KeepsScope
