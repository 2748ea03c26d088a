\* Two workers read two flags through a lister and change copies of them.
CONSTANTS
    r1 = r1
    r2 = r2
    n1 = n1
    n2 = n2
    A = A
    Readers <- TwoReaders
    Names <- TwoNames
    ConfigMapNames <- OneConfigMapName
    Data <- TwoData
    None = None
    Received <- ThreeFlags
    MaxCells = 4
SPECIFICATION Spec
SYMMETRY Symmetry
INVARIANT CopiesAreApart
PROPERTY ActsLikeValues
\* The cells of a behavior are bounded.
CHECK_DEADLOCK FALSE
