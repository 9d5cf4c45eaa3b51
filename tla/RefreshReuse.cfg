SPECIFICATION Spec
CONSTANTS
    r1 = r1
    r2 = r2
    f1 = f1
    NoToken = NoToken
    Request <- TwoRequests
    Family <- OneFamily
    RefreshTTL = 2
    MaxClock = 1
    MaxLosses = 0
SYMMETRY RequestSymmetry
INVARIANT ReuseKillsFamily
