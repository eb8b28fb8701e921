\* One hidden file seen by two windows, its details changing.
SPECIFICATION Spec
CONSTANTS
    Names = {"dot"}
    Hidden = {"dot"}
    Windows = {"w1", "w2"}
    Details = {1, 2}
    Touched = {"dot"}
    DirStates = {"ok", "locked", "gone"}
    Nums = {1, 2, 3, 4}
    CloseWhenMissing = TRUE
INVARIANTS
    TypeOK
    NoDangling
    NoLostUpdate
    KnownIsKeyed
CHECK_DEADLOCK FALSE
