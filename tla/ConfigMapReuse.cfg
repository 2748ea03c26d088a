SPECIFICATION Spec
CONSTANTS
    c1 = c1
    c2 = c2
    x = x
    y = y
    None = None
    Clients <- BothClients
    Contents <- BothContents
    Names = {"flags"}
    MaxCalls = 4
    MaxFaults = 1
SYMMETRY Symmetry
\* Every behavior ends when the calls are used up.
CHECK_DEADLOCK FALSE
PROPERTIES
    CreatesWhenMissing
