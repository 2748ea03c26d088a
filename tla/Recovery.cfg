SPECIFICATION FairOwnedSpec
CONSTANTS
    k1 = k1
    k2 = k2
    n1 = n1
    n2 = n2
    w1 = w1
    w2 = w2
    NoName = NoName
    None = None
    NoRef = NoRef
    Keys <- OneKey
    Names <- OneName
    Workers <- OneWorker
    Disturbances = {"crash", "api", "relist", "configmap", "orphan"}
    MaxUserWrites = 3
    MaxFaults = 1
    MaxLag = 2
\* The system comes to rest when the users are done and no flag is left.
CHECK_DEADLOCK FALSE
INVARIANTS
    StaleCreateIsInFlight
    BackOffIsScheduled
PROPERTIES
    UserSpecPreserved
    
