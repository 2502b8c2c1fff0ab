\* Any step may fail; a rank that fails alone can leave the others stuck.
CONSTANTS
    PU <- MCPU
    Levels <- MCLevels
    N = 2
    Affinities <- MCTwoAffinities
    Calls <- MCEarlyReturns
    Failing <- MCAnyFails
SPECIFICATION Spec
INVARIANTS AgreeUntilFailure
PROPERTIES ReturnUntilFailure
CHECK_DEADLOCK FALSE
