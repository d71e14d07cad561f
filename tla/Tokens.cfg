SPECIFICATION TokensSpec
CONSTANTS
    Tokens = {t1, t2, t3}
    Requests = {q1, q2}
    NoToken = NoToken
    CodeUsers = {u1, u2}
    Scopes = {s1, s2}
    Auths = {a1, a2}
    CodeCalls = {q1, q2}
    Nobody = Nobody
SYMMETRY Symmetry
INVARIANTS TypesOK OneLiveTokenPerFamily OneChildPerToken QuietRevocationHolds GrantFollowsDecisions RevocationReachesFamilies
PROPERTIES RevokedNeverRotates CodeLifecycleHolds
