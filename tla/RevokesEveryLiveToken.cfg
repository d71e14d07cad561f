SPECIFICATION Spec
CONSTANTS
    Tokens = {t1, t2, t3}
    Requests = {q1, q2}
    NoToken = NoToken
SYMMETRY Symmetry
PROPERTIES RevokesEveryLiveToken
