SPECIFICATION FairSpec
CONSTANTS
    Jobs <- MCJobs
    Policies = {"ask", "replace", "skip", "newer"}
    MaxToggles = 1
    MaxAborts = 2
INVARIANTS
    TypeOK
    OnePipe
    
    ClosedOrOutOfStep
    NoOrphan
    ErrorsAreShown
PROPERTIES
    EndIsNoticed
    CancelWorks
    OnlyTheUserIsWaitedFor
CHECK_DEADLOCK FALSE
