SPECIFICATION Spec
CONSTANTS
    None = None
    User = {u1}
    Req = {r1, r2}
    MaxAttempt = 2
    MaxTime = 2
    StateTTL = 0
    Window = 1
    MaxHits = 3
SYMMETRY Requests
INVARIANTS TypeOK OneSetup EndedIsGone OneTokenPerLogin RateIsLimited
