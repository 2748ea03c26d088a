SPECIFICATION Spec
CONSTANTS
    k1 = k1
    k2 = k2
    n1 = n1
    n2 = n2
    w1 = w1
    w2 = w2
    NoName = NoName
    None = None
    NoRef = NoRef
    Keys <- OneKey
    Names <- TwoNames
    Workers <- TwoWorkers
    Disturbances = {"fields", "configmap"}
    MaxUserWrites = 3
    MaxFaults = 0
    MaxLag = 1
\* The system comes to rest when the users are done and no flag is left.
CHECK_DEADLOCK FALSE
SYMMETRY Symmetry
INVARIANTS
    TypeOK
    SyncInv
    NoConcurrentSync
    BackOffIsScheduled
    StaleCreateIsInFlight
    WorkScheduled
    OneWritePerRequest
PROPERTIES
    UserSpecPreserved
    ConfigMapsNotOverwritten
