\* Two files in one window, under fairness of the main loop.
SPECIFICATION FairSpec
CONSTANTS
    Names = {"a", "b"}
    Hidden = {"b"}
    Windows = {"w1"}
    Details = {1}
    Touched = {"a"}
    DirStates = {"ok"}
    Nums = {1, 2, 3, 4}
    CloseWhenMissing = TRUE
INVARIANTS
    NoLostRescan
    QuietIsComplete
PROPERTIES
    ChangesAreShown
    RescansHappen
CHECK_DEADLOCK FALSE
