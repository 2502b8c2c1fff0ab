\* Two allocations of three ranks; any step may fail.
CONSTANTS
    N = 3
    Sizes <- MCSizes
    SIZE_MOD = 16
    Names = {p1}
    Failing <- MCAnyFails
SPECIFICATION Spec
INVARIANTS TypeOK TilesUnlessWrapped ReadsBack Apart LinkedOnlyInside
PROPERTIES Publishes ReturnsUnlessLeftAlone
CHECK_DEADLOCK FALSE
