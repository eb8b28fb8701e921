SPECIFICATION HybridFairSpec
CONSTANTS
    Names = {"x", "y", "a", "d", "f"}
    Sources <- MCSources
    Targets <- MCTargets
    Starts <- MCStarts
    RsyncStarts <- MCRsyncStarts
    Ops = {"copy", "move"}
    Vanishing <- MCSources
    Leaving <- MCLeaving
    Appearing <- MCAppearing
    Now = 9
INVARIANTS
    StaysTree
    NothingForgotten
PROPERTIES
    KeepsPromise
    GetsOn
CHECK_DEADLOCK FALSE
