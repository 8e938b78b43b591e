SPECIFICATION FairSpec
CONSTANTS
    OutputCap = 4
    MaxLines = 2
PROPERTIES
    SlotReleasedWhenDone
CHECK_DEADLOCK FALSE
