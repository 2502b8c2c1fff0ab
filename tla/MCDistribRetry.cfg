\* Does the first barrier still keep rebinding out after a failed call?
CONSTANTS
    PU <- MCPU
    Levels <- MCLevels
    N = 2
    Affinities <- MCTwoAffinities
    Calls <- MCTwoCalls
    Failing <- MCOpenFails
SPECIFICATION Spec
INVARIANTS Snapshot
CHECK_DEADLOCK FALSE
