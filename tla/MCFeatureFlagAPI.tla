--------------------------- MODULE MCFeatureFlagAPI ---------------------------
(* Small instances of FeatureFlagAPI for TLC.                                *)
EXTENDS FeatureFlagAPI, TLC

CONSTANTS c1, c2, n1, n2

TwoClients == {c1, c2}
TwoNames == {n1, n2}

==============================================================================
