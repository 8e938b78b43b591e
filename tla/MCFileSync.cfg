SPECIFICATION FairSpec
CONSTANTS
    MaxCalls = 2
    Names = {1, 2}
    Trees <- MCTrees
    Requests <- MCRequests
    Services <- MCServices
    ProgressCap = 1
    Impatient = {1}
    Offsets = {2}
    MaxFaults = 1
    MaxMessages = 2
INVARIANTS
    HarmOnlyByOverlap
    NobodyLeftGuessing
    DoneMeansSynced
PROPERTIES
    CancelledEnds
CHECK_DEADLOCK FALSE
