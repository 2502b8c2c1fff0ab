\* Two contexts, no failure of the OS: does a pop revert to the previous binding?
CONSTANTS
    PU <- MCPU
    Levels <- MCLevels
    Ctx = {c1, c2}
    BIND_STACK_SIZE = 3
    CreateFlags <- MCPlain
    InitBindings <- MCUnbound
    Requests <- MCFewRequests
    SetOutcomes <- MCAlwaysSets
SPECIFICATION Spec
PROPERTIES RevertsToPrevious
