SPECIFICATION Spec
CONSTANTS
    Requests = {q1, q2}
    defaultSessionLifetime = 3
    SessionAbsoluteLifetime = 4
    MaxSessionCacheTTL = 2
SYMMETRY Symmetry
PROPERTIES LiveSessionIsFound
