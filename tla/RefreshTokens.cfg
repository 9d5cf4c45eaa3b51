SPECIFICATION Spec
CONSTANTS
    r1 = r1
    r2 = r2
    f1 = f1
    NoToken = NoToken
    Request <- TwoRequests
    Family <- OneFamily
    RefreshTTL = 2
    MaxClock = 2
    MaxLosses = 1
SYMMETRY RequestSymmetry
INVARIANT TypeOK
INVARIANT UniqueHash
INVARIANT ExchangeRevokes
INVARIANT ForkNeedsOverlap
PROPERTY LedgerSpec
INVARIANT HeldAccounted
