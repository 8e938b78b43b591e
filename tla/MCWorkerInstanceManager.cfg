SPECIFICATION FairSpec
CONSTANTS
    Tasks = {t1, t2, t3, t4}
    NoTask = NoTask
    MaxConcurrent = 2
    QueueCap = 1
    Slow = {t4}
INVARIANTS
    SlotConservation
    PlacedOnce
PROPERTIES
    SlotsImplemented
    AcceptedIsStarted
    AddTaskReturns
    StopTerminates
CHECK_DEADLOCK FALSE
