SPECIFICATION Spec
CONSTANTS
    Names = {"a"}
    Hidden = {}
    Windows = {"w1"}
    Details = {1, 2}
    Touched = {"a"}
    DirStates = {"ok", "locked", "gone"}
    Nums = {1, 2, 3, 4, 5}
    CloseWhenMissing = FALSE
INVARIANT NoDangling
CHECK_DEADLOCK FALSE
