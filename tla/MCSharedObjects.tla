--------------------------- MODULE MCSharedObjects ---------------------------
(* A small instance of SharedObjects for TLC.                                *)
EXTENDS SharedObjects, TLC

CONSTANTS r1, r2, n1, n2, A

TwoReaders == {r1, r2}
TwoNames == {n1, n2}
OneConfigMapName == {A}
TwoData == {0, 1}

\* Flags without parts, with one part, and with both.
ThreeFlags ==
    {[cm |-> A, parts |-> [p \in Parts |-> None]],
     [cm |-> A, parts |-> [p \in Parts |-> IF p = "metadata" THEN 1 ELSE None]],
     [cm |-> A, parts |-> [p \in Parts |-> IF p = "metadata" THEN 0 ELSE 1]]}

Symmetry == Permutations(TwoReaders) \cup Permutations(TwoNames)

==============================================================================
