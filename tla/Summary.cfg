\* Two packages with two tests each; two failures are listed.
CONSTANTS
    p1 = p1
    p2 = p2
    t1 = t1
    t2 = t2
    Packages <- TwoPackages
    Tests <- TwoTests
    Overall = Overall
    MaxReported = 2
    MaxLines = 2
SPECIFICATION Spec
INVARIANTS ExitTellsOfFailedTests CountsAreExact  FailuresAreReported
\* The summary ends with its input.
CHECK_DEADLOCK FALSE
