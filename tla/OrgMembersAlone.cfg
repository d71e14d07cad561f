SPECIFICATION Spec
CONSTANTS
    Users = {u1, u2}
    Roles = {r1, r2}
    Names = {owner, n1, n2}
    RoleOwner = owner
    Calls = {c1}
    None = None
    Watched <- WatchedRules
INVARIANTS TypeOK PolicyMirrored OwnerRemains
PROPERTIES DriftHeals
