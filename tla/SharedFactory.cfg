\* Two goroutines use one factory for two types, with two stop channels.
CONSTANTS
    c1 = c1
    c2 = c2
    t1 = t1
    t2 = t2
    s1 = s1
    s2 = s2
    Callers <- TwoCallers
    Types <- TwoTypes
    Channels <- TwoChannels
    None = None
    MaxCalls = 4
SPECIFICATION FairSpec
INVARIANTS TypeOK OneInformerPerType StartedOnce
PROPERTIES WaitCoversStarted CallsReturn
\* The calls of a behavior are bounded.
CHECK_DEADLOCK FALSE
