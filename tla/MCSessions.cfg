SPECIFICATION Spec
CONSTANTS
    Users = {u1}
    Requests = {r1, r2}
    NoUser = NoUser
    MaxPairs = 2
    MaxExpired = 1
    Mortal = {1}
    MaxFaults = 1
SYMMETRY RequestSymmetry
INVARIANTS
    RevokedForGood
    
    CacheVouches
    DeletedUserGetsNothing
PROPERTIES
    DeletedStaysDeleted
CHECK_DEADLOCK FALSE
