SPECIFICATION FairSpec
CONSTANTS
    p1 = p1  p2 = p2  p3 = p3
    Self = Self
    Others <- TwoPeers
    PathManagers <- WithAndWithout
    Service <- AllServices
    MayCancel = TRUE
    MaxChanges = 2
INVARIANTS GoodProviderSuffices RaceAccounted
PROPERTIES FetchEndsUnlessHung RacersEnd RaceHidesHungProviders
CHECK_DEADLOCK FALSE
