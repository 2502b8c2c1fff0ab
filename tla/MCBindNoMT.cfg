\* One context with QUO_CREATE_NO_MT, no failure of the OS: does a pop revert to the previous binding?
CONSTANTS
    PU <- MCPU
    Levels <- MCLevels
    Ctx = {c1}
    BIND_STACK_SIZE = 3
    CreateFlags <- MCNoMT
    InitBindings <- MCUnbound
    Requests <- MCFewRequests
    SetOutcomes <- MCAlwaysSets
SPECIFICATION Spec
PROPERTIES PopUndoesPush
