---------------------------- MODULE FeatureFlagAPI ----------------------------
(* The requests of the typed clientset for FeatureFlags                      *)
(* (clientset/versioned/typed/feature/v1alpha1) as the API server answers    *)
(* them, and the list and the watch the informer is built on                 *)
(* (informers/externalversions/feature/v1alpha1).                            *)
(*                                                                           *)
(* What matters of a flag's contents is whose edits it holds: a client adds  *)
(* its own to the copy it has read, so an update that undoes another's edit  *)
(* shows.  Every write has a version; history has the store after each.      *)
EXTENDS Sequences, Naturals

CONSTANTS Clients,
          Names,
          None,
          NoDelta,      \* nothing is queued of an object
          MaxVersion,   \* bound: writes in a behavior
          MaxFaults     \* bound: lost answers, ended watches, compactions

Flags == [uid : Nat, rv : Nat, edits : SUBSET Clients]

ASSUME APIAssumption ==
    /\ None \notin Names \cup Flags
    /\ NoDelta \notin Flags \cup {None}
    /\ MaxVersion \in Nat /\ MaxFaults \in Nat

VARIABLES history,    \* the store after each write, the empty one first
          copy,       \* per client: the flag it holds, under its name
          deleting,   \* what requests to delete the collection have still to delete
          reflector,  \* what the informer's reflector does next
          seen,       \* the version of the last list or event
          queued,     \* per name: the youngest delta the informer has not taken
          cache,      \* the informer's objects, which the lister returns
          shown,      \* per name: the youngest version the lister has returned
          missed,     \* names whose deletion a list has not told the queue
          oldest,     \* the oldest version the server can list or watch from
          faults

clientVars == <<copy, deleting>>
cacheVars  == <<reflector, seen, queued, cache, shown, missed>>
vars == <<history, clientVars, cacheVars, oldest, faults>>

NoFlags == [n \in Names |-> None]

Init ==
    /\ history = <<NoFlags>>
    /\ copy = [c \in Clients |-> None]
    /\ deleting = {}
    /\ reflector = "list" /\ seen = 0
    /\ queued = [n \in Names |-> NoDelta]
    /\ cache = NoFlags /\ shown = [n \in Names |-> 0]
    /\ missed = {}
    /\ oldest = 1
    /\ faults = 0

version == Len(history)
store   == history[version]

Write(n, flag) ==
    /\ version <= MaxVersion
    /\ history' = Append(history, [store EXCEPT ![n] = flag])

Fault == faults < MaxFaults /\ faults' = faults + 1

Holds(c, n, flag) == copy' = [copy EXCEPT ![c] = [name |-> n, flag |-> flag]]
Drops(c) == copy' = [copy EXCEPT ![c] = None]

\* The client takes the object of the answer, or the answer is lost.
Answered(c, n, flag) ==
    \/ Holds(c, n, flag) /\ UNCHANGED faults
    \/ Drops(c) /\ Fault

------------------------------------------------------------------------------
(* The requests.                                                             *)

Get_Unchecked(c, n) ==    \* mutant: the error is dropped, the empty result used
    /\ copy[c] = None
    /\ Holds(c, n, IF store[n] # None THEN store[n] ELSE [uid |-> 0, rv |-> 0, edits |-> {}])
    /\ UNCHANGED <<history, deleting, cacheVars, oldest, faults>>

Get(c, n) ==
    /\ store[n] # None
    /\ copy[c] = None
    /\ Holds(c, n, store[n])
    /\ UNCHANGED <<history, deleting, cacheVars, oldest, faults>>

\* The client edits its own copy.
Edit(c) ==
    /\ copy[c] # None
    /\ copy' = [copy EXCEPT ![c].flag.edits = @ \cup {c}]
    /\ UNCHANGED <<history, deleting, cacheVars, oldest, faults>>

Create(c, n) ==
    LET flag == [uid |-> version + 1, rv |-> version + 1, edits |-> {c}] IN
    /\ copy[c] = None
    /\ store[n] = None
    /\ Write(n, flag)
    /\ Answered(c, n, flag)
    /\ UNCHANGED <<deleting, cacheVars, oldest>>

\* A PUT of the client's copy.  The server refuses it when its version is not
\* the stored one, and writes nothing when its contents are.
Update_Forced(c) ==    \* mutant: the body is sent without its resource version
    /\ copy[c] # None
    /\ LET n == copy[c].name
           flag == [copy[c].flag EXCEPT !.rv = version + 1] IN
         IF store[n] # None
           THEN Write(n, flag) /\ Answered(c, n, flag)
           ELSE Drops(c) /\ UNCHANGED <<history, faults>>
    /\ UNCHANGED <<deleting, cacheVars, oldest>>

Update(c) ==
    /\ copy[c] # None
    /\ LET n == copy[c].name
           flag == [copy[c].flag EXCEPT !.rv = version + 1] IN
         IF store[n] # None /\ store[n].rv = copy[c].flag.rv
           THEN IF store[n] = copy[c].flag
                  THEN Answered(c, n, store[n]) /\ UNCHANGED history
                  ELSE Write(n, flag) /\ Answered(c, n, flag)
           ELSE Drops(c) /\ UNCHANGED <<history, faults>>
    /\ UNCHANGED <<deleting, cacheVars, oldest>>

\* The definition of FeatureFlag has no status subresource: not found.
UpdateStatus(c) ==
    /\ copy[c] # None
    /\ Drops(c)
    /\ UNCHANGED <<history, deleting, cacheVars, oldest, faults>>

\* A patch says what to change and no version: the server applies it to what
\* it stores.
Patch(c, n) ==
    /\ store[n] # None
    /\ LET flag == [store[n] EXCEPT !.rv = version + 1, !.edits = @ \cup {c}] IN
         IF c \in store[n].edits
           THEN Answered(c, n, store[n]) /\ UNCHANGED history
           ELSE Write(n, flag) /\ Answered(c, n, flag)
    /\ UNCHANGED <<deleting, cacheVars, oldest>>

Delete(n) ==
    /\ store[n] # None
    /\ Write(n, None)
    /\ UNCHANGED <<clientVars, cacheVars, oldest, faults>>

\* The server lists the collection and deletes one by one what it has listed.
DeleteCollection ==
    /\ deleting' = deleting \cup {n \in Names : store[n] # None}
    /\ UNCHANGED <<history, copy, cacheVars, oldest, faults>>

DeleteNext(n) ==
    /\ n \in deleting
    /\ deleting' = deleting \ {n}
    /\ IF store[n] # None THEN Write(n, None) ELSE UNCHANGED history
    /\ UNCHANGED <<copy, cacheVars, oldest, faults>>

Request(c) ==
    \/ Edit(c) \/ Update(c) \/ UpdateStatus(c)
    \/ \E n \in Names : Get(c, n) \/ Create(c, n) \/ Patch(c, n)

Deletion == DeleteCollection \/ \E n \in Names : Delete(n) \/ DeleteNext(n)

------------------------------------------------------------------------------
(* The informer: its reflector lists through ListFunc, then watches through  *)
(* WatchFunc from the version of the list.  Both queue deltas per object,    *)
(* which the informer takes into its cache one object after the other.       *)

\* What the lister returns of n once the queue is drained.
Latest(n) == IF queued[n] = NoDelta THEN cache[n] ELSE queued[n]

\* The queue is handed a list.  It looks for what is gone from the list among
\* the cached objects only: one still waiting to be added is missed.
Replace(listed) ==
    /\ queued' = [n \in Names |->
                     IF listed[n] # None \/ cache[n] # None THEN listed[n] ELSE queued[n]]
    /\ missed' = {n \in Names : listed[n] = None /\ cache[n] = None /\ Latest(n) # None}
    /\ UNCHANGED <<cache, shown>>

\* The list may come from a server that is behind, but is not older than what
\* the reflector asks for, the version it has seen.
List_Unversioned ==    \* mutant: ListFunc does not pass the reflector's options on
    /\ reflector = "list"
    /\ \E v \in oldest .. version : Replace(history[v]) /\ seen' = v
    /\ reflector' = "connect"
    /\ UNCHANGED <<history, clientVars, oldest, faults>>

List ==
    /\ reflector = "list"
    /\ \E v \in oldest .. version :
         v >= seen /\ Replace(history[v]) /\ seen' = v
    /\ reflector' = "connect"
    /\ UNCHANGED <<history, clientVars, oldest, faults>>

\* A watch from a version the server has forgotten is refused.
Watch_Unversioned ==    \* mutant: WatchFunc does not pass the reflector's options on
    /\ reflector = "connect"
    /\ reflector' = "watch" /\ seen' = version
    /\ queued' = [n \in Names |-> IF store[n] = None THEN queued[n] ELSE store[n]]
    /\ UNCHANGED <<history, clientVars, cache, shown, missed, oldest, faults>>

Watch ==
    /\ reflector = "connect"
    /\ reflector' = IF seen < oldest THEN "list" ELSE "watch"
    /\ UNCHANGED <<history, clientVars, seen, queued, cache, shown, missed, oldest, faults>>

Changed(v) == CHOOSE n \in Names : history[v][n] # history[v - 1][n]

Receive ==
    /\ reflector = "watch" /\ seen < version
    /\ seen' = seen + 1
    /\ LET n == Changed(seen') IN
         /\ queued' = [queued EXCEPT ![n] = history[seen'][n]]
         /\ missed' = missed \ {n}
    /\ UNCHANGED <<history, clientVars, reflector, cache, shown, oldest, faults>>

\* The informer takes what is queued of one object, all its deltas at once.
Pop(n) ==
    /\ queued[n] # NoDelta
    /\ cache' = [cache EXCEPT ![n] = queued[n]]
    /\ queued' = [queued EXCEPT ![n] = NoDelta]
    /\ shown' = [shown EXCEPT ![n] = IF queued[n] = None THEN @ ELSE queued[n].rv]
    /\ UNCHANGED <<history, clientVars, reflector, seen, missed, oldest, faults>>

\* A watch ends: its timeout is over, or its connection is lost.
EndWatch ==
    /\ reflector = "watch"
    /\ reflector' \in {"connect", "list"}
    /\ Fault
    /\ UNCHANGED <<history, clientVars, seen, queued, cache, shown, missed, oldest>>

Compact ==
    /\ oldest' \in (oldest + 1) .. version
    /\ Fault
    /\ UNCHANGED <<history, clientVars, cacheVars>>

Reflect == List \/ Watch \/ Receive

------------------------------------------------------------------------------

Next ==
    \/ \E c \in Clients : Request(c)
    \/ Deletion
    \/ Reflect
    \/ \E n \in Names : Pop(n)
    \/ EndWatch
    \/ Compact

Spec == Init /\ [][Next]_vars

\* The reflector and the informer run and the server answers; clients owe
\* nothing.
FairSpec == Spec /\ WF_vars(Reflect) /\ \A n \in Names : WF_vars(Pop(n))

------------------------------------------------------------------------------
(* Properties.                                                               *)

\* The variables have their types, a flag's version is that of the write that
\* left it, no write leaves the store as it was, and a client holds nothing but
\* flags there are or were.
TypeOK ==
    /\ version \in 1 .. MaxVersion + 1
    /\ \A v \in 1 .. version : \A n \in Names :
         history[v][n] = None \/ /\ history[v][n].rv \in 2 .. v
                                 /\ history[v][n].uid \in 2 .. history[v][n].rv
                                 /\ history[v][n].edits \in SUBSET Clients
                                 /\ history[history[v][n].rv][n] = history[v][n]
    /\ \A v \in 2 .. version : history[v] # history[v - 1]
    /\ \A c \in Clients :
         copy[c] = None \/ /\ copy[c].name \in Names
                           /\ copy[c].flag.rv \in 2 .. version
                           /\ copy[c].flag.uid \in 2 .. copy[c].flag.rv
    /\ deleting \in SUBSET Names
    /\ reflector \in {"list", "connect", "watch"}
    /\ seen \in 0 .. version
    /\ queued \in [Names -> Flags \cup {None, NoDelta}]
    /\ cache \in [Names -> Flags \cup {None}]
    /\ shown \in [Names -> 0 .. seen]
    /\ missed \in SUBSET Names
    /\ oldest \in 1 .. version
    /\ faults \in 0 .. MaxFaults

\* No request undoes an edit of another client: between two versions of one
\* flag no edit gets lost, however stale the copy that was sent, and whether or
\* not the answers came (Update, Patch; controller.go relies on it).
EditsSurvive ==
    [][\A n \in Names :
         store[n] # None /\ store'[n] # None /\ store'[n].uid = store[n].uid
            => store[n].edits \subseteq store'[n].edits]_vars

\* The objects reach the cache one by one, and the lister may return a mixture
\* of versions; but what is cached and queued of each adds up to what the store
\* held at the version seen, through lists, events and ended watches.  (Only an
\* object that is gone before it was cached may be missed by a list.)
CacheFollowsOneVersion ==
    \A n \in Names :
       n \in missed \/ Latest(n) = IF seen = 0 THEN None ELSE history[seen][n]

\* The lister returns the versions of an object in their order, each of them
\* once, also when the flag is deleted and created in between.
ListersGoForward ==
    [][\A n \in Names : cache'[n] \notin {cache[n], None} => cache'[n].rv > shown[n]]_vars

\* When the writes come to an end the cache has them all, whatever watches
\* ended and versions were forgotten.
CacheCatchesUp == <>[](\A n \in Names : cache[n] = store[n] \/ n \in missed)

==============================================================================
