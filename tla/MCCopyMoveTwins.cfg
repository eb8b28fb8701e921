SPECIFICATION HybridSpec
CONSTANTS
    Names = {"x", "y", "a", "d", "f"}
    Sources <- MCTwins
    Targets <- MCTwinTargets
    Starts <- MCTwinStarts
    RsyncStarts = {}
    Ops = {"move"}
    Vanishing = {}
    Leaving = {}
    Appearing = {}
    Now = 9
PROPERTY AskedBeforeLoss
CHECK_DEADLOCK FALSE
