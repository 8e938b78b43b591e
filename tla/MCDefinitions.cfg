SPECIFICATION DefinitionsSpec
CONSTANTS
    MaxCalls = 3
    Ops <- MCOps
    Ids = {1, 2, 3}
    Names = {1, 2}
    Start <- MCStart
    Sizes = {0, 1, 2}
    DefaultSize = 10
INVARIANTS
    WalkIsComplete
    RowsAccounted
PROPERTIES
    CreatedKept
CHECK_DEADLOCK FALSE
