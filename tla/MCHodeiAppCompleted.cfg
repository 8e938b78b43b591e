SPECIFICATION Spec
CONSTANTS
    Requests = {r1}
    PendingCap = 1
    Schedulers = {"greedy"}
    MaxPools = 1
    Cancellable = {r1}
PROPERTIES
    CompletedFollowsTransitionMap
CHECK_DEADLOCK FALSE
