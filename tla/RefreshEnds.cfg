SPECIFICATION FairSpec
CONSTANTS
    r1 = r1
    r2 = r2
    f1 = f1
    NoToken = NoToken
    Request <- TwoRequests
    Family <- OneFamily
    RefreshTTL = 3
    MaxClock = 2
    MaxLosses = 0
PROPERTY EveryRequestEnds
