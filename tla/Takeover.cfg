SPECIFICATION FairConflictSpec
CONSTANTS
    k1 = k1
    k2 = k2
    n1 = n1
    n2 = n2
    w1 = w1
    w2 = w2
    NoName = NoName
    None = None
    NoRef = NoRef
    Keys <- TwoKeys
    Names <- OneName
    Workers <- OneWorker
    Disturbances = {}
    MaxUserWrites = 4
    MaxFaults = 0
    MaxLag = 2
\* The system comes to rest when the users are done and no flag is left.
CHECK_DEADLOCK FALSE
INVARIANTS
    WorkScheduled
PROPERTIES
    NoStarvation
    Converges
