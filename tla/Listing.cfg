SPECIFICATION Spec
CONSTANTS
    c1 = c1
    None = None
    Client = {c1}
    Stock <- Profiles
    Lists <- ListRequests
    Searches <- Questions
    Words <- Used
    Contains <- Inside
    CountryMap <- Codes
    CountryOrder <- LongestFirst
    Pages <- FirstPages
    MaxLimit = 2
    MaxEntries = 2
INVARIANTS
    TypeOK
    WrongNeedsBlanks
    SameMeaningSameKey
    QuietWalkIsExport
    GrowingWalkMissesNothing
    NextHasRows
    PhrasingsCollapse
