------------------------------ MODULE ValueCache ------------------------------
(* What the readers of a lister may believe (controller.go, "NEVER modify    *)
(* objects from the store"): each has the flags as they were when it asked,  *)
(* as values of its own, and so has each of its copies, whatever the         *)
(* informer and other readers do.  FeatureController is written this way.    *)
EXTENDS Sequences, Naturals

CONSTANTS Readers, Names,
          Values,   \* the contents of a flag
          None

VARIABLES cached,   \* the flag the informer has under a name
          held,     \* per reader: the flags its last Get or List returned
          own       \* per reader: its copies of them

vars == <<cached, held, own>>

Init ==
    /\ cached = [n \in Names |-> None]
    /\ held = [r \in Readers |-> <<>>]
    /\ own = [r \in Readers |-> <<>>]

Store(n) ==
    /\ UNCHANGED <<held, own>>
    /\ \E v \in Values \cup {None} : cached' = [cached EXCEPT ![n] = v]

Get(r, n) ==
    /\ held' = [held EXCEPT ![r] = IF cached[n] = None THEN <<>> ELSE <<cached[n]>>]
    /\ UNCHANGED <<cached, own>>

\* All cached flags, in any order.
List(r) ==
    /\ UNCHANGED <<cached, own>>
    /\ \E order \in [1 .. Len(held'[r]) -> Names] :
         /\ {order[i] : i \in DOMAIN order} = {n \in Names : cached[n] # None}
         /\ \A i, j \in DOMAIN order : order[i] = order[j] => i = j
         /\ held' = [held EXCEPT ![r] = [i \in DOMAIN order |-> cached[order[i]]]]

Copy(r) ==
    /\ own' = [own EXCEPT ![r] = held[r]]
    /\ UNCHANGED <<cached, held>>

Modify(r) ==
    /\ UNCHANGED <<cached, held>>
    /\ \E i \in DOMAIN own[r], v \in Values : own' = [own EXCEPT ![r][i] = v]

Next ==
    \/ \E n \in Names : Store(n)
    \/ \E r \in Readers : List(r) \/ Copy(r) \/ Modify(r) \/ \E n \in Names : Get(r, n)

Spec == Init /\ [][Next]_vars

==============================================================================
