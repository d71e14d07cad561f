SPECIFICATION ClientSpec
CONSTANTS
    Replicas = {r1, r2}
    Requests = {q1, q2}
    Roles = {a, b}
    RoleCacheTTL = 2
    MaxChanges = 1
    Reloading = {r1}
    PolicyRoles = {x, y}
    Permissions = {p, q}
    PageSize = 1
    MaxId = 5
CONSTRAINT Within
SYMMETRY Symmetry
INVARIANTS TypesOK ModelMirrorsCaches EvictedRolesStayOut RolesStayBounded SnapshotWithinReload
