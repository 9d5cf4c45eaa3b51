SPECIFICATION FairSpec
CONSTANTS
    r1 = r1
    r2 = r2
    i1 = i1
    i2 = i2
    i3 = i3
    ada = ada
    bob = bob
    all = all
    onlyBob = onlyBob
    Request = {r1, r2}
    Name = {ada, bob}
    Fold <- FoldOfTwo
    Id = {i1, i2, i3}
    Key = {all}
    Matches <- MatchesAll
    Statements <- OneStatement
    File <- Crossing
    TTL = 1
    MaxEntries = 1
    NoEntry = NoEntry
    Nothing = Nothing
PROPERTIES EveryRequestEnds EventuallyFresh
