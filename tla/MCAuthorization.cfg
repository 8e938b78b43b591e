SPECIFICATION Spec
CONSTANTS
    Requests = {r1, r2}
    NewIds = {"id"}
    RoleNames = {"Admin"}
    GroupNames = {"Admins"}
    RoleDefs <- MCRoleDefs
    GroupDefs <- MCGroupDefs
    Setup <- MCSetup
    PageSize = 2
    MaxCalls = 4
SYMMETRY RequestSymmetry
INVARIANTS
    GrantsAreBacked
    RevokedStaysRevoked
    GroupsComeWithRoles
CHECK_DEADLOCK FALSE
