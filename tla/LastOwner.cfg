SPECIFICATION Safety
CONSTANTS
    Users = {u1, u2}
    Roles = {r1, r2}
    Names = {owner, n1}
    RoleOwner = owner
    Calls = {c1, c2}
    None = None
    Watched = {}
SYMMETRY Symmetry
INVARIANTS OwnerRemains
