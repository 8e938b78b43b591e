SPECIFICATION Spec
CONSTANTS
    p1 = p1
    p2 = p2
    Keys = {p1, p2}
    Calls = {c1, c2, c3, c4}
    NoCall = NoCall
    NoRow = NoRow
    Definitions <- MCDefinitions
    FactoryTypes = {"Docker"}
SYMMETRY CallSymmetry
INVARIANTS
    ErrorLeavesNoPool
    AnsweredPoolIsActive
PROPERTIES
    ReplacedOnlyByOverlap
    DeletedStaysDeleted
CHECK_DEADLOCK FALSE
