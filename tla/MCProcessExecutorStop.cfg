SPECIFICATION FairSpec
CONSTANTS
    Pipes = {stdout}
    OutputCap = 2
    MaxLines = 1
    MaxTicks = 1
PROPERTIES
    StopIsAnswered
CHECK_DEADLOCK FALSE
