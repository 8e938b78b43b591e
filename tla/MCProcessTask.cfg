SPECIFICATION FairSpec
CONSTANTS
    OutputCap = 4
    MaxLines = 2
INVARIANTS
    OutcomeIsOfTheProcess
    ContainerReaped
PROPERTIES
    EndsOrWedges
    ClientIsTold
    AnnouncedOrJammed
    LifecycleImplemented
CHECK_DEADLOCK FALSE
