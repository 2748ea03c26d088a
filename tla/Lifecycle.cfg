SPECIFICATION FairSpec
CONSTANTS
    w1 = w1
    w2 = w2
    k1 = k1
    k2 = k2
    None = None
    Workers <- TwoWorkers
    Keys <- TwoKeys
    Rules <- TestedRules
    MaxSignals = 3
\* The process ends.
CHECK_DEADLOCK FALSE
INVARIANTS
    TypeOK
    WorkersSeeSyncedCaches
PROPERTIES
    ComesToServe
    SignalEndsProcess
    ServingStopsCleanly
