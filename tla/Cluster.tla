------------------------------- MODULE Cluster -------------------------------
(* The part of a Kubernetes cluster the operator works against, in one       *)
(* namespace: the API server's FeatureFlags and ConfigMaps, the users who    *)
(* write them, and the garbage collector.  None of it is code of this        *)
(* repository; it is modelled from what pkg/controllers/feature reads,       *)
(* writes and relies on (owner references, UIDs, resource versions).         *)
(*                                                                           *)
(* A FeatureFlag is its identity, its version, the one field of its spec the *)
(* controller reads, and whether its stored form differs from what the typed *)
(* clientset writes: the fields of types.go are not omitted when they are    *)
(* empty, and it drops those it does not know.  A ConfigMap is its           *)
(* controller owner reference: the controller reads nothing else of it, and  *)
(* writes nothing else in it.                                                *)
EXTENDS Naturals

CONSTANTS Keys,           \* names of FeatureFlags
          Names,          \* names of ConfigMaps
          NoName,         \* an empty Spec.ConfigMapName
          None,           \* no object under this name
          NoRef,          \* an object without a controller owner reference
          MaxUserWrites   \* bound: requests the users send in a behavior

FlagObjects == [uid : Nat, rv : Nat, cm : Names \cup {NoName}, raw : BOOLEAN]
Refs        == [kind : {"FeatureFlag", "Other"}, name : Keys, uid : Nat]

ASSUME ClusterAssumption ==
    /\ NoName \notin Names
    /\ None \notin Keys \cup Names \cup FlagObjects
    /\ None \notin Refs \cup {NoRef}
    /\ NoRef \notin Refs
    /\ MaxUserWrites \in Nat

VARIABLES flags,       \* the FeatureFlags the API server holds
          configmaps,  \* the ConfigMaps it holds, as owner references
          revision,    \* of the FeatureFlags; numbers their UIDs and versions
          userWrites   \* user requests so far

ClusterInit ==
    /\ flags = [k \in Keys |-> None]
    /\ configmaps = [n \in Names |-> None]
    /\ revision = 0
    /\ userWrites = 0

\* The reference metav1.NewControllerRef builds to the flag f stored under k.
RefTo(k, f) == [kind |-> "FeatureFlag", name |-> k, uid |-> f.uid]

\* References to owners of another kind: their UID is no flag's.
ForeignRefs == [kind : {"Other"}, name : Keys, uid : {0}]

\* The owner of a ConfigMap is gone: no live flag has the UID it refers to.
Dangling(ref) ==
    /\ ref \notin {None, NoRef}
    /\ ref.kind = "FeatureFlag"
    /\ \A k \in Keys : flags[k] # None => flags[k].uid # ref.uid

------------------------------------------------------------------------------
(* Requests of the users.                                                    *)

UserWrite ==
    /\ userWrites < MaxUserWrites
    /\ userWrites' = userWrites + 1

\* The API server stores f under k, as a version of its own.
StoreFlag(k, f) ==
    /\ revision' = revision + 1
    /\ flags' = [flags EXCEPT ![k] = [f EXCEPT !.rv = revision']]

\* From a manifest (docs/examples/example-featureflags.yaml), without status.
UserCreatesFlag(k, cm) ==
    /\ UserWrite
    /\ flags[k] = None
    /\ StoreFlag(k, [uid |-> revision + 1, rv |-> 0, cm |-> cm, raw |-> TRUE])
    /\ UNCHANGED configmaps

UserEditsFlag(k, cm, raw) ==
    /\ UserWrite
    /\ flags[k] # None
    /\ StoreFlag(k, [flags[k] EXCEPT !.cm = cm, !.raw = raw])
    /\ UNCHANGED configmaps

UserDeletesFlag(k) ==
    /\ UserWrite
    /\ flags[k] # None
    /\ flags' = [flags EXCEPT ![k] = None]
    /\ UNCHANGED <<configmaps, revision>>

UserCreatesConfigMap(n, ref) ==
    /\ UserWrite
    /\ configmaps[n] = None
    /\ configmaps' = [configmaps EXCEPT ![n] = ref]
    /\ UNCHANGED <<flags, revision>>

\* A change of the contents (ref as it was) or of the owner reference.
UserEditsConfigMap(n, ref) ==
    /\ UserWrite
    /\ configmaps[n] # None
    /\ configmaps' = [configmaps EXCEPT ![n] = ref]
    /\ UNCHANGED <<flags, revision>>

UserDeletesConfigMap(n) ==
    /\ UserWrite
    /\ configmaps[n] # None
    /\ configmaps' = [configmaps EXCEPT ![n] = None]
    /\ UNCHANGED <<flags, revision>>

------------------------------------------------------------------------------
(* The garbage collector deletes what a deleted flag owned.                  *)

CollectGarbage(n) ==
    /\ Dangling(configmaps[n])
    /\ configmaps' = [configmaps EXCEPT ![n] = None]
    /\ UNCHANGED <<flags, revision, userWrites>>

==============================================================================
