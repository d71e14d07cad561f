SPECIFICATION FlowsSpec
CONSTANTS
    Codes = {c1}
    UserCodes = {u1}
    Users = {v1, v2}
    Clients = {k1, k2}
    Requests = {q1, q2, q3}
    MaxMints = 1
    None = None
    Calls = {v1, v2}
    Keys = {q1, q2, q3}
    NoKey = NoKey
    MaxAssets = 3
CONSTRAINT Within
SYMMETRY Symmetry
INVARIANTS TypesOK MintsOnce MintsFollowApproval UploadSessionsHold DisplayedAvatar
