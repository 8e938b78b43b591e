SPECIFICATION FairSpec
CONSTANTS
    Pipes = {stdout}
    OutputCap = 2
    MaxLines = 1
    MaxTicks = 1
INVARIANTS
    NoSendAfterClose
    FailureToldFirst
    SuccessMisjudged
    StoppedIsGone
PROPERTIES
    EndsUnlessAbandoned
CHECK_DEADLOCK FALSE
