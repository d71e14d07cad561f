SPECIFICATION Safety
CONSTANTS
    Events = {e1}
    Relays = {r1, r2}
    LeaseIds = {l1, l2, l3, l4}
    NoLease = NoLease
    LeaseDuration = 2
    PublishTimeout = 1
    RetryDelay = 1
    RetryCap = 2
    MaxPerPoll = 2
    DedupWindow = 3
    AttemptCap = 3
    MaxStops = 1
    MaxInFlight = 2
    Pauses = TRUE
SYMMETRY Symmetry
INVARIANTS TypeOK OneLiveHolder
PROPERTIES DeliverySafety
