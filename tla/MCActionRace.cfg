SPECIFICATION Spec
CONSTANTS
    Jobs <- MCUnmounts
    Policies = {"ask"}
    MaxToggles = 2
    MaxAborts = 0
INVARIANT UnmountIsSafe
CHECK_DEADLOCK FALSE
