SPECIFICATION Spec
CONSTANTS
    Events = {e1, e2}
    Relays = {r1}
    LeaseIds = {l1, l2, l3}
    NoLease = NoLease
    LeaseDuration = 2
    PublishTimeout = 1
    RetryDelay = 1
    RetryCap = 1
    MaxPerPoll = 1
    DedupWindow = 3
    AttemptCap = 1
    MaxStops = 1
    MaxInFlight = 1
    Pauses = FALSE
PROPERTIES SecondCopyIsLate DeliverySpec
