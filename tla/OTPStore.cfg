SPECIFICATION Spec
CONSTANTS
    Requests = {q1, q2}
    maxAttempts = 2
    MaxCodes = 2
    MaxLost = 1
SYMMETRY Symmetry
INVARIANTS CodeUsedOnce GuessesBounded SendsBounded TypeOK
