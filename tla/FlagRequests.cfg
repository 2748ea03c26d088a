\* Two clients write two flags, and an informer follows.
CONSTANTS
    c1 = c1
    c2 = c2
    n1 = n1
    n2 = n2
    Clients <- TwoClients
    Names <- TwoNames
    None = None
    NoDelta = NoDelta
    MaxVersion = 3
    MaxFaults = 1
SPECIFICATION FairSpec
INVARIANTS TypeOK CacheFollowsOneVersion
PROPERTIES EditsSurvive ListersGoForward CacheCatchesUp
\* The writes of a behavior are bounded.
CHECK_DEADLOCK FALSE
