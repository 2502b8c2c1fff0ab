\* Does the number of processes of a resource stay within the maximum?
CONSTANTS
    PU <- MCPU
    Levels <- MCLevels
    N = 3
    Affinities <- MCAffinities
    Calls <- MCOverPU
    Failing <- MCNever
SPECIFICATION Spec
INVARIANTS WithinMax
