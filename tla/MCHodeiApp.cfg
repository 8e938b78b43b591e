SPECIFICATION FairSpec
CONSTANTS
    Requests = {r1, r2}
    PendingCap = 1
    Schedulers = {"greedy", "roundrobin"}
    MaxPools = 2
    Cancellable = {r1}
INVARIANTS
    EndTimeConsistent
    CrashIsARace
PROPERTIES
    FailureOverwrittenOnlyLate
    RequestLeavesPending
CHECK_DEADLOCK FALSE
