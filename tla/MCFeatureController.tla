------------------------- MODULE MCFeatureController -------------------------
(* Small instances of FeatureController for TLC.                             *)
EXTENDS FeatureController, TLC

CONSTANTS k1, k2, n1, n2, w1, w2

OneKey == {k1}
TwoKeys == {k1, k2}
OneName == {n1}
TwoNames == {n1, n2}
OneWorker == {w1}
TwoWorkers == {w1, w2}

\* k1 and k2 name the same ConfigMap, k1 owns it, and k2 is in back-off after an
\* attempt.  The state is reached where k2 had another ConfigMap (outside Names)
\* before a user made it name n1.
ConflictInit ==
    LET contested == (k1 :> [uid |-> 1, rv |-> 2, cm |-> n1, raw |-> FALSE])
                     @@ (k2 :> [uid |-> 3, rv |-> 5, cm |-> n1, raw |-> FALSE])
        owned     == n1 :> RefTo(k1, contested[k1])
    IN  /\ flags = contested /\ flagCache = contested
        /\ configmaps = owned /\ cmCache = owned
        /\ flagWatch = [k \in Keys |-> <<>>] /\ flagNotify = [k \in Keys |-> <<>>]
        /\ cmWatch = [n \in Names |-> <<>>] /\ cmNotify = [n \in Names |-> <<>>]
        /\ flagInitial = {} /\ cmInitial = {}
        /\ queue = <<>> /\ dirty = {} /\ processing = {}
        /\ waiting = {k2} /\ failing = {k2}
        /\ NoWork
        /\ phase = "running" /\ faults = 0 /\ userWrites = 3 /\ revision = 5

ConflictSpec == ConflictInit /\ [][Next]_vars

FairConflictSpec == ConflictSpec /\ Fairness

\* A reachable state: k1 has been created and has its ConfigMap, and everything
\* is at rest.
OwnedInit ==
    LET synced == k1 :> [uid |-> 1, rv |-> 2, cm |-> n1, raw |-> FALSE]
        owned  == n1 :> RefTo(k1, synced[k1])
    IN  /\ flags = synced /\ flagCache = synced
        /\ configmaps = owned /\ cmCache = owned
        /\ flagWatch = [k \in Keys |-> <<>>] /\ flagNotify = [k \in Keys |-> <<>>]
        /\ cmWatch = [n \in Names |-> <<>>] /\ cmNotify = [n \in Names |-> <<>>]
        /\ flagInitial = {} /\ cmInitial = {}
        /\ QueueInit
        /\ NoWork
        /\ phase = "running" /\ faults = 0 /\ userWrites = 1 /\ revision = 2

OwnedSpec == OwnedInit /\ [][Next]_vars

FairOwnedSpec == OwnedSpec /\ Fairness

\* The workers are interchangeable, and so are the names of ConfigMaps.
Symmetry == Permutations({w1, w2}) \cup Permutations({n1, n2})

==============================================================================
