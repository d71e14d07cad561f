SPECIFICATION AuthnSpec
CONSTANTS
    Requests = {c1, c2}
    defaultSessionLifetime = 3
    SessionAbsoluteLifetime = 4
    MaxSessionCacheTTL = 2
    m1 = m1
    m2 = m2
    Managers = {m1, m2}
    Followers = {m2}
    KeyCalls = {c1, c2}
    Checks = {g1}
    PreviousGenerations = 1
    MaxVersion = 3
    e1 = e1
    p1 = p1
    Emails = {e1}
    Federated = {f1}
    Passkeys = {p1}
    EmailClaim <- EmailOf
    Transitions = {t1, t2}
    Logins = {c1, c2}
    maxAuthAttempts = 2
    MaxUsers = 2
    MaxSessions = 2
CONSTRAINT Within
SYMMETRY Symmetry
INVARIANTS ExpiryWithinAbsolute SnapshotWithinSession TypesOK RevokedKeyStaysOut RotationReachesGateway SessionForOwner FailuresBounded
PROPERTIES RevokedNeverResolves
