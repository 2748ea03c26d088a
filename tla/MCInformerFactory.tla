-------------------------- MODULE MCInformerFactory --------------------------
(* A small instance of InformerFactory for TLC.                              *)
EXTENDS InformerFactory, TLC

CONSTANTS c1, c2, t1, t2, s1, s2

TwoCallers == {c1, c2}
TwoTypes == {t1, t2}
TwoChannels == {s1, s2}

==============================================================================
