\* Three ranks on one to three hosts; any step may fail, and a rank that fails alone can leave others stuck.
CONSTANTS
    PU <- MCPU
    Levels <- MCLevels
    N = 3
    NetNums <- MCNetNums
    Flags <- MCFlags
    Failing <- MCFailing
SPECIFICATION Spec
INVARIANTS TypeOK NodesAreHosts FindsPublished SameTopology NothingLeftLinked
PROPERTIES ReturnsUnlessLeftAlone Publishes
CHECK_DEADLOCK FALSE
