\* Two calls of three ranks that rebind themselves in between.
CONSTANTS
    PU <- MCPU
    Levels <- MCLevels
    N = 3
    Affinities <- MCAffinities
    Calls <- MCTwoCalls
    Failing <- MCNever
SPECIFICATION Spec
INVARIANTS TypeOK Snapshot SamePhase AttachesToPublished NothingLinked DecisionsAddUp
PROPERTIES Publishes
