---------------------------- MODULE MCTestSummary ----------------------------
(* A small instance of TestSummary for TLC.                                  *)
EXTENDS TestSummary, TLC

CONSTANTS p1, p2, t1, t2

TwoPackages == {p1, p2}
TwoTests == {t1, t2}

==============================================================================
