\* Two contexts on one affinity mask, with and without QUO_CREATE_NO_MT, through
\* guards and without.
CONSTANTS
    PU <- MCPU
    Levels <- MCLevels
    Ctx = {c1, c2}
    BIND_STACK_SIZE = 3
    CreateFlags <- MCEitherFlag
    InitBindings <- MCTwoBindings
    Requests <- MCFewRequests
    SetOutcomes <- MCMayRefuse
SYMMETRY MCSymmetry
SPECIFICATION GuardSpec
INVARIANTS UndoAligned BalancedScopes
PROPERTIES PopReverts TerminatesOnlyIfRefused OutermostRestores
CHECK_DEADLOCK FALSE
