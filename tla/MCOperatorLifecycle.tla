------------------------- MODULE MCOperatorLifecycle -------------------------
(* A small instance of OperatorLifecycle for TLC.                            *)
EXTENDS OperatorLifecycle, TLC

CONSTANTS w1, w2, k1, k2

TwoWorkers == {w1, w2}
TwoKeys == {k1, k2}

==============================================================================
