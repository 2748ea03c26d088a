-------------------------- MODULE FeatureController --------------------------
(* The FeatureFlag controller of pkg/controllers/feature/controller.go: the  *)
(* event handlers NewFeatureController registers, the work queue they feed,  *)
(* and the workers Run starts, which make sure every FeatureFlag has the     *)
(* ConfigMap its spec names.  It runs against the cluster of module Cluster, *)
(* sees it through two informers and may crash and be restarted.             *)
EXTENDS Cluster, WorkQueue

CONSTANTS Workers,       \* the goroutines Run starts, threadiness of them
          Disturbances,  \* which of the disturbances below may happen
          MaxFaults,     \* bound: faults in a behavior
          MaxLag         \* bound: see Informer

ASSUME ControllerAssumption ==
    /\ Disturbances \subseteq {"crash", "api", "relist", "fields", "configmap", "orphan"}
    /\ MaxFaults \in Nat
    /\ MaxLag \in Nat

VARIABLES phase,     \* of the process: "down", "syncing" its caches, "running"
          faults,    \* faults so far
          flagCache, flagWatch, flagNotify, flagInitial,
          cmCache, cmWatch, cmNotify, cmInitial,
          pc,        \* per worker: where it is in processNextWorkItem
          item,      \* per worker: the key it is processing
          flag       \* per worker: the FeatureFlag its syncHandler has read

FlagInformer == INSTANCE Informer WITH
    Ids <- Keys, store <- flags, cache <- flagCache, watch <- flagWatch,
    notify <- flagNotify, initial <- flagInitial

ConfigMapInformer == INSTANCE Informer WITH
    Ids <- Names, store <- configmaps, cache <- cmCache, watch <- cmWatch,
    notify <- cmNotify, initial <- cmInitial

clusterVars == <<flags, configmaps, revision, userWrites>>
flagVars    == <<flagCache, flagWatch, flagNotify, flagInitial>>
cmVars      == <<cmCache, cmWatch, cmNotify, cmInitial>>
queueVars   == <<queue, dirty, processing, waiting, failing>>
workerVars  == <<pc, item, flag>>
vars == <<clusterVars, flagVars, cmVars, queueVars, workerVars, phase, faults>>

NoWork ==
    /\ pc = [w \in Workers |-> "get"]
    /\ item = [w \in Workers |-> None]
    /\ flag = [w \in Workers |-> None]

Init ==
    /\ ClusterInit
    /\ FlagInformer!InformerInit
    /\ ConfigMapInformer!InformerInit
    /\ QueueInit
    /\ NoWork
    /\ phase = "down"
    /\ faults = 0

Up == phase # "down"

\* One of the faults under study happens.
Fault(kind) ==
    /\ kind \in Disturbances
    /\ faults < MaxFaults
    /\ faults' = faults + 1

------------------------------------------------------------------------------
(* The cluster changes, and the watches report it.                           *)

ControllerUnchanged ==
    UNCHANGED <<flagCache, flagNotify, flagInitial, cmCache, cmNotify, cmInitial,
                queueVars, workerVars, phase, faults>>

\* An edit leaves the form of the rest as it is, or brings in fields the typed
\* clientset does not know.
FlagChanges(k) ==
    /\ \/ \E cm \in Names \cup {NoName} :
            \/ UserCreatesFlag(k, cm)
            \/ UserEditsFlag(k, cm, flags[k].raw)
            \/ "fields" \in Disturbances /\ UserEditsFlag(k, cm, TRUE)
       \/ UserDeletesFlag(k)
    /\ FlagInformer!Emit(k)
    /\ UNCHANGED cmWatch
    /\ ControllerUnchanged

\* Users may write ConfigMaps too, the ones of the controller among them.
ConfigMapChanges(n) ==
    /\ "configmap" \in Disturbances
    /\ \/ \E ref \in ForeignRefs \cup {NoRef} : UserCreatesConfigMap(n, ref)
       \/ UserEditsConfigMap(n, configmaps[n])
       \/ "orphan" \in Disturbances /\ UserEditsConfigMap(n, NoRef)
       \/ UserDeletesConfigMap(n)
    /\ ConfigMapInformer!Emit(n)
    /\ UNCHANGED flagWatch
    /\ ControllerUnchanged

GarbageCollector(n) ==
    /\ Len(cmWatch[n]) < MaxLag
    /\ CollectGarbage(n)
    /\ ConfigMapInformer!Emit(n)
    /\ UNCHANGED flagWatch
    /\ ControllerUnchanged

------------------------------------------------------------------------------
(* The process: operator.go starts the informers, and Run starts the workers *)
(* once both caches are synced.  A crash loses everything in memory.         *)

Start ==
    /\ phase = "down"
    /\ phase' = "syncing"
    /\ UNCHANGED <<clusterVars, flagVars, cmVars, queueVars, workerVars, faults>>

StartWorkers_FlagsOnly ==    \* mutant: Run waits for one of the two caches
    /\ phase = "syncing"
    /\ FlagInformer!HasSynced
    /\ phase' = "running"
    /\ UNCHANGED <<clusterVars, flagVars, cmVars, queueVars, workerVars, faults>>

StartWorkers ==
    /\ phase = "syncing"
    /\ ConfigMapInformer!HasSynced /\ FlagInformer!HasSynced
    /\ phase' = "running"
    /\ UNCHANGED <<clusterVars, flagVars, cmVars, queueVars, workerVars, faults>>

Crash ==
    /\ Up
    /\ Fault("crash")
    /\ phase' = "down"
    /\ FlagInformer!Restart
    /\ ConfigMapInformer!Restart
    /\ QueueRestart
    /\ pc' = [w \in Workers |-> "get"]
    /\ item' = [w \in Workers |-> None]
    /\ flag' = [w \in Workers |-> None]
    /\ UNCHANGED clusterVars

------------------------------------------------------------------------------
(* The informers, and the handlers NewFeatureController registers.           *)

ListFlags ==
    /\ Up /\ ~FlagInformer!Listed
    /\ FlagInformer!List
    /\ UNCHANGED <<clusterVars, cmVars, queueVars, workerVars, phase, faults>>

ListConfigMaps ==
    /\ Up /\ ~ConfigMapInformer!Listed
    /\ ConfigMapInformer!List
    /\ UNCHANGED <<clusterVars, flagVars, queueVars, workerVars, phase, faults>>

\* The watch breaks; the reflector lists again.
RelistFlags ==
    /\ Up /\ FlagInformer!Listed
    /\ Fault("relist")
    /\ FlagInformer!List
    /\ UNCHANGED <<clusterVars, cmVars, queueVars, workerVars, phase>>

RelistConfigMaps ==
    /\ Up /\ ConfigMapInformer!Listed
    /\ Fault("relist")
    /\ ConfigMapInformer!List
    /\ UNCHANGED <<clusterVars, flagVars, queueVars, workerVars, phase>>

PopFlag(k) ==
    /\ FlagInformer!Pop(k)
    /\ UNCHANGED <<clusterVars, cmVars, queueVars, workerVars, phase, faults>>

PopConfigMap(n) ==
    /\ ConfigMapInformer!Pop(n)
    /\ UNCHANGED <<clusterVars, flagVars, queueVars, workerVars, phase, faults>>

\* The flag handlers enqueue on add and update; there is none for a delete.
enqueueFeatureFlag(k) == Add(k)


HandleFlag(k) ==
    /\ FlagInformer!Notified(k)
    /\ IF Head(flagNotify[k]).kind = "delete" THEN UNCHANGED queueVars
                                              ELSE enqueueFeatureFlag(k)
    /\ UNCHANGED <<clusterVars, cmVars, workerVars, phase, faults>>

\* Enqueue the flag that owns an object, if the lister knows one of its name.
handleObject(ref) ==
    IF ref # NoRef /\ ref.kind = "FeatureFlag" /\ flagCache[ref.name] # None
      THEN enqueueFeatureFlag(ref.name)
      ELSE UNCHANGED queueVars

HandleConfigMap_NoDeleteFunc(n) ==    \* mutant: deletes are not handled
    /\ ConfigMapInformer!Notified(n)
    /\ LET told == Head(cmNotify[n])
       IN  IF told.kind \in {"resync", "delete"} THEN UNCHANGED queueVars
                                               ELSE handleObject(told.obj)
    /\ UNCHANGED <<clusterVars, flagVars, workerVars, phase, faults>>

\* An update to the same resource version is a resync, and ignored.
HandleConfigMap(n) ==
    /\ ConfigMapInformer!Notified(n)
    /\ LET told == Head(cmNotify[n])
       IN  IF told.kind = "resync" THEN UNCHANGED queueVars
                                   ELSE handleObject(told.obj)
    /\ UNCHANGED <<clusterVars, flagVars, workerVars, phase, faults>>

ResyncFlags ==
    /\ FlagInformer!Resync
    /\ UNCHANGED <<clusterVars, cmVars, queueVars, workerVars, phase, faults>>

ResyncConfigMaps ==
    /\ ConfigMapInformer!Resync
    /\ UNCHANGED <<clusterVars, flagVars, queueVars, workerVars, phase, faults>>

------------------------------------------------------------------------------
(* The workers: processNextWorkItem and, from "flag" to "update", the        *)
(* syncHandler it calls.  A step ends where other goroutines or the API      *)
(* server may act: each lister read, each request, each work queue call.     *)

At(w, label) == phase = "running" /\ pc[w] = label
Goto(w, label) == pc' = [pc EXCEPT ![w] = label]

BackOff(k) ==
    /\ Elapse(k)
    /\ UNCHANGED <<clusterVars, flagVars, cmVars, workerVars, phase, faults>>

GetItem_DoneAtOnce(w) ==    \* mutant: Done is called, not deferred
    /\ At(w, "get")
    /\ queue # <<>>
    /\ item' = [item EXCEPT ![w] = Head(queue)]
    /\ queue' = Tail(queue) /\ dirty' = dirty \ {Head(queue)}
    /\ Goto(w, "flag")
    /\ UNCHANGED <<clusterVars, flagVars, cmVars, processing, waiting, failing, flag, phase, faults>>

GetItem(w) ==
    /\ At(w, "get")
    /\ \E k \in Keys : Get(k) /\ item' = [item EXCEPT ![w] = k]
    /\ Goto(w, "flag")
    /\ UNCHANGED <<clusterVars, flagVars, cmVars, flag, phase, faults>>

LookupFlag_AnyName(w) ==    \* mutant: no check of an empty name
    /\ At(w, "flag")
    /\ LET found == flagCache[item[w]]
       IN  IF found = None THEN Goto(w, "forget") /\ UNCHANGED flag
                           ELSE Goto(w, "configmap") /\ flag' = [flag EXCEPT ![w] = found]
    /\ UNCHANGED <<clusterVars, flagVars, cmVars, queueVars, item, phase, faults>>

\* A flag that is gone, or names no ConfigMap, is dropped without an error.
LookupFlag(w) ==
    /\ At(w, "flag")
    /\ LET found == flagCache[item[w]]
       IN  IF found = None \/ found.cm = NoName
             THEN Goto(w, "forget") /\ UNCHANGED flag
             ELSE Goto(w, "configmap") /\ flag' = [flag EXCEPT ![w] = found]
    /\ UNCHANGED <<clusterVars, flagVars, cmVars, queueVars, item, phase, faults>>

IsControlledBy(ref, f) == ref # NoRef /\ ref.uid = f.uid

LookupConfigMap_Absorbs(w) ==    \* mutant: a foreign ConfigMap is no error
    /\ At(w, "configmap")
    /\ LET found == cmCache[flag[w].cm]
       IN  Goto(w, CASE found = None                  -> "create"
                     [] found # None
                        /\ IsControlledBy(found, flag[w]) -> "update"
                     [] OTHER                         -> "forget")
    /\ UNCHANGED <<clusterVars, flagVars, cmVars, queueVars, item, flag, phase, faults>>

LookupConfigMap(w) ==
    /\ At(w, "configmap")
    /\ LET found == cmCache[flag[w].cm]
       IN  Goto(w, CASE found = None                  -> "create"
                     [] found # None
                        /\ IsControlledBy(found, flag[w]) -> "update"
                     [] OTHER                         -> "requeue")
    /\ UNCHANGED <<clusterVars, flagVars, cmVars, queueVars, item, flag, phase, faults>>

CreateConfigMap_OrUpdate(w) ==    \* mutant: creates or overwrites
    /\ At(w, "create")
    /\ configmaps' = [configmaps EXCEPT ![flag[w].cm] = RefTo(item[w], flag[w])]
    /\ ConfigMapInformer!Emit(flag[w].cm)
    /\ Goto(w, "update")
    /\ UNCHANGED <<flags, revision, userWrites, flagVars, cmCache, cmNotify, cmInitial,
                   queueVars, item, flag, phase, faults>>

\* POST of newConfigMap(flag); AlreadyExists is an error like any other.
CreateConfigMap(w) ==
    /\ At(w, "create")
    /\ LET n == flag[w].cm
       IN  IF configmaps[n] = None
             THEN /\ configmaps' = [configmaps EXCEPT ![n] = RefTo(item[w], flag[w])]
                  /\ ConfigMapInformer!Emit(n)
                  /\ \/ Goto(w, "update") /\ UNCHANGED faults
                     \/ Goto(w, "requeue") /\ Fault("api")    \* the answer is lost
             ELSE /\ Goto(w, "requeue")
                  /\ UNCHANGED <<configmaps, cmWatch, faults>>
    /\ UNCHANGED <<flags, revision, userWrites, flagVars, cmCache, cmNotify, cmInitial,
                   queueVars, item, flag, phase>>

updateFeatureFlagStatus_Forced(w) ==    \* mutant: no resource version in the PUT
    /\ At(w, "update")
    /\ IF flags[item[w]] # None
         THEN /\ StoreFlag(item[w], [flag[w] EXCEPT !.raw = FALSE])
              /\ FlagInformer!Emit(item[w])
              /\ Goto(w, "forget")
         ELSE Goto(w, "requeue") /\ UNCHANGED <<flags, revision, flagWatch>>
    /\ UNCHANGED <<configmaps, userWrites, cmVars, flagCache, flagNotify, flagInitial,
                   queueVars, item, flag, phase, faults>>

updateFeatureFlagStatus_Always(w) ==    \* mutant: each sync writes something new
    /\ At(w, "update")
    /\ LET k == item[w]
       IN  IF flags[k] # None /\ flags[k].rv = flag[w].rv
             THEN /\ StoreFlag(k, [flag[w] EXCEPT !.raw = FALSE])
                  /\ FlagInformer!Emit(k)
                  /\ Goto(w, "forget")
             ELSE Goto(w, "requeue") /\ UNCHANGED <<flags, revision, flagWatch>>
    /\ UNCHANGED <<configmaps, userWrites, cmVars, flagCache, flagNotify, flagInitial,
                   queueVars, item, flag, phase, faults>>

\* PUT of a copy of the flag as it was read, encoded from the Go types: status
\* and replicas are added if they are missing, and fields the types do not know
\* are gone.  The API server refuses it when the version it was read at is not
\* the stored one, and writes nothing when it is what is stored.
updateFeatureFlagStatus(w) ==
    /\ At(w, "update")
    /\ LET k == item[w]
           encoded == [flag[w] EXCEPT !.raw = FALSE]
       IN  IF flags[k] # None /\ flags[k].rv = flag[w].rv
             THEN /\ IF flags[k] = encoded
                       THEN UNCHANGED <<flags, revision, flagWatch>>
                       ELSE StoreFlag(k, encoded) /\ FlagInformer!Emit(k)
                  /\ \/ Goto(w, "forget") /\ UNCHANGED faults
                     \/ Goto(w, "requeue") /\ Fault("api")    \* the answer is lost
             ELSE /\ Goto(w, "requeue")
                  /\ UNCHANGED <<flags, revision, flagWatch, faults>>
    /\ UNCHANGED <<configmaps, userWrites, cmVars, flagCache, flagNotify, flagInitial,
                   queueVars, item, flag, phase>>

\* A request fails before it has an effect.
RequestFails(w) ==
    /\ At(w, "create") \/ At(w, "update")
    /\ Fault("api")
    /\ Goto(w, "requeue")
    /\ UNCHANGED <<clusterVars, flagVars, cmVars, queueVars, item, flag, phase>>

Requeue_WithoutDone(w) ==    \* mutant: the error path returns before Done
    /\ At(w, "requeue")
    /\ AddRateLimited(item[w])
    /\ Goto(w, "get")
    /\ item' = [item EXCEPT ![w] = None]
    /\ flag' = [flag EXCEPT ![w] = None]
    /\ UNCHANGED <<clusterVars, flagVars, cmVars, phase, faults>>

Requeue(w) ==
    /\ At(w, "requeue")
    /\ AddRateLimited(item[w])
    /\ Goto(w, "done")
    /\ UNCHANGED <<clusterVars, flagVars, cmVars, item, flag, phase, faults>>

ForgetItem_Omitted(w) ==    \* mutant: success does not call Forget
    /\ At(w, "forget")
    /\ Goto(w, "done")
    /\ UNCHANGED <<clusterVars, flagVars, cmVars, queueVars, item, flag, phase, faults>>

ForgetItem(w) ==
    /\ At(w, "forget")
    /\ Forget(item[w])
    /\ Goto(w, "done")
    /\ UNCHANGED <<clusterVars, flagVars, cmVars, item, flag, phase, faults>>

FinishItem(w) ==
    /\ At(w, "done")
    /\ Done(item[w])
    /\ Goto(w, "get")
    /\ item' = [item EXCEPT ![w] = None]
    /\ flag' = [flag EXCEPT ![w] = None]
    /\ UNCHANGED <<clusterVars, flagVars, cmVars, phase, faults>>

Work(w) ==
    \/ GetItem(w) \/ LookupFlag(w) \/ LookupConfigMap(w) \/ CreateConfigMap(w)
    \/ updateFeatureFlagStatus(w) \/ Requeue(w) \/ ForgetItem(w) \/ FinishItem(w)

------------------------------------------------------------------------------

Next ==
    \/ \E k \in Keys : FlagChanges(k) \/ PopFlag(k) \/ HandleFlag(k) \/ BackOff(k)
    \/ \E n \in Names : \/ ConfigMapChanges(n) \/ GarbageCollector(n)
                        \/ PopConfigMap(n) \/ HandleConfigMap(n)
    \/ ListFlags \/ ListConfigMaps \/ RelistFlags \/ RelistConfigMaps
    \/ ResyncFlags \/ ResyncConfigMaps
    \/ Start \/ StartWorkers \/ Crash
    \/ \E w \in Workers : Work(w) \/ RequestFails(w)

Spec == Init /\ [][Next]_vars

(* Everything but the users' requests and the faults goes on: goroutines are *)
(* scheduled, the API server answers, timers fire (the resync every ten      *)
(* minutes, cmd/app/operator.go), Kubernetes restarts the process.           *)
Fairness ==
    /\ WF_vars(Start) /\ WF_vars(StartWorkers)
    /\ WF_vars(ListFlags) /\ WF_vars(ListConfigMaps)
    /\ WF_vars(ResyncFlags)
    /\ \A k \in Keys : WF_vars(PopFlag(k)) /\ WF_vars(HandleFlag(k)) /\ WF_vars(BackOff(k))
    /\ \A n \in Names : /\ WF_vars(PopConfigMap(n)) /\ WF_vars(HandleConfigMap(n))
                        /\ WF_vars(GarbageCollector(n))
    /\ \A w \in Workers : WF_vars(Work(w))

FairSpec == Spec /\ Fairness

------------------------------------------------------------------------------
(* Properties.                                                               *)

ClusterTypeOK ==
    /\ flags \in [Keys -> FlagObjects \cup {None}]
    /\ configmaps \in [Names -> Refs \cup {NoRef} \cup {None}]
    /\ revision \in Nat
    /\ userWrites \in Nat

\* A worker past Get has a key, one before it no flag, and one past the check of the empty name has a
\* flag that names a ConfigMap.
WorkerTypeOK ==
    /\ pc \in [Workers -> {"get", "flag", "configmap", "create", "update",
                           "requeue", "forget", "done"}]
    /\ item \in [Workers -> Keys \cup {None}]
    /\ flag \in [Workers -> FlagObjects \cup {None}]
    /\ \A w \in Workers :
          /\ IF pc[w] = "get" THEN flag[w] = None ELSE item[w] \in Keys
          /\ pc[w] \in {"configmap", "create", "update"} => flag[w] # None /\ flag[w].cm \in Names

ProcessTypeOK ==
    /\ phase \in {"down", "syncing", "running"}
    /\ faults \in Nat

\* The variables have their types, and no worker gets past the early returns
\* of syncHandler without what they check.
TypeOK ==
    /\ ClusterTypeOK
    /\ FlagInformer!InformerTypeOK(FlagObjects)
    /\ ConfigMapInformer!InformerTypeOK(Refs \cup {NoRef})
    /\ QueueTypeOK(Keys)
    /\ WorkerTypeOK
    /\ ProcessTypeOK

\* No two workers process the same FeatureFlag at once, although handlers and
\* back-offs add it again while it is processed (controller.go: "we are never
\* processing the same item simultaneously in two different workers").
NoConcurrentSync ==
    \A v, w \in Workers : item[v] # None /\ item[v] = item[w] => v = w

\* A key the rate limiter counts failures of is always on its way to another
\* attempt, in back-off, in the queue or at a worker: processNextWorkItem
\* neither drops a failed key nor leaves the count of one that is through.
BackOffIsScheduled == failing \subseteq dirty \cup processing \cup waiting

\* A worker that creates a ConfigMap that exists does so only because its cache
\* is behind: the ConfigMap is in the cache by now, or about to enter it, so
\* that the retry after AlreadyExists sees it.
StaleCreateIsInFlight ==
    \A w \in Workers :
        pc[w] = "create" => LET n == flag[w].cm
                            IN  configmaps[n] = None \/ cmCache[n] # None \/ cmWatch[n] # <<>>

\* The owner references that are, by name, to flag k.
RefsTo(k) == [kind : {"FeatureFlag"}, name : {k}, uid : Nat]

\* Something will look at flag k again: it is in the queue, at a worker or in
\* back-off, or a notification is pending that will enqueue it.
Scheduled(k, n) ==
    \/ k \in dirty \cup processing \cup waiting
    \/ flagNotify[k] # <<>>
    \/ cmWatch[n] # <<>>
    \/ \E i \in 1 .. Len(cmNotify[n]) :
           cmNotify[n][i].kind # "resync" /\ cmNotify[n][i].obj \in RefsTo(k)

\* A flag whose ConfigMap is missing is never forgotten: whatever the order in
\* which the two informers, the handlers and the workers see the changes, as
\* long as no watch is lost and nobody removes owner references.
WorkScheduled ==
    \A k \in Keys :
        flagCache[k] # None /\ flagCache[k].cm # NoName /\ cmCache[flagCache[k].cm] = None
            => Scheduled(k, flagCache[k].cm)

\* What users have set of a flag in the fields FeatureFlagSpec has.
Settings(f) == IF f = None THEN None ELSE [uid |-> f.uid, cm |-> f.cm]

\* The controller writes whole FeatureFlags back from its cache, and never
\* undoes a user's edit of a field of FeatureFlagSpec, nor brings a flag back:
\* those change by requests of the users only.  (Fields the type does not have
\* it does drop.)
UserSpecPreserved ==
    [][userWrites' = userWrites => \A k \in Keys : Settings(flags'[k]) = Settings(flags[k])]_vars

\* The controller does not keep itself busy: its PUT is an event, the event
\* enqueues the flag, and the next sync sends the PUT again, but each request of
\* a user leads to at most one version of a flag by the controller, however
\* often, late or by whom the flag is synced.
OneWritePerRequest == revision <= 2 * userWrites

\* An existing ConfigMap changes only when a user writes it, or vanishes when
\* the garbage collector finds its owner gone: the controller never overwrites
\* or takes over what it did not create.
ConfigMapsNotOverwritten ==
    [][\A n \in Names : configmaps[n] # None /\ configmaps'[n] # configmaps[n]
          => userWrites' # userWrites \/ (Dangling(configmaps[n]) /\ configmaps'[n] = None)]_vars

\* Every flag that names a ConfigMap has it, and no ConfigMap is left of a
\* flag that is gone.
Converged ==
    /\ \A k \in Keys : flags[k] # None /\ flags[k].cm # NoName => configmaps[flags[k].cm] # None
    /\ \A n \in Names : ~Dangling(configmaps[n])

\* When users and faults leave it alone the cluster converges, and stays so
\* (syncHandler: "attempts to converge the two").
Converges == <>[]Converged

\* Every key that needs processing is handed to a worker in the end, whatever
\* is processed, fails and backs off meanwhile.
NoStarvation == \A k \in Keys : k \in dirty ~> k \notin dirty

------------------------------------------------------------------------------
(* What makes the safety properties inductive.                               *)

\* The keys the work queue has handed out are the ones the workers hold, each
\* one by one worker.
HeldKeys ==
    /\ \A w \in Workers : pc[w] = "get" => item[w] = None
    /\ \A w \in Workers : item[w] # None => item[w] \in processing
    /\ \A k \in processing : \E w \in Workers : item[w] = k
    /\ NoConcurrentSync

\* A worker about to call Done has settled the back-off of its key: it has
\* forgotten its failures, or scheduled the next attempt.
Settled ==
    \A w \in Workers : pc[w] = "done" => item[w] \notin failing \/ item[w] \in waiting \cup dirty

\* The versions of flag k that exist somewhere: stored, on their way to the
\* cache, cached, or read by a worker.
Copies(k) ==
    ({flags[k], flagCache[k]}
     \cup {flagWatch[k][i].obj : i \in 1 .. Len(flagWatch[k])}
     \cup {flag[w] : w \in {v \in Workers : item[v] = k}}) \ {None}

\* A resource version stands for one version of the flag.
VersionsAreUnique ==
    \A k \in Keys : \A x, y \in Copies(k) : x.rv <= revision /\ (x.rv = y.rv => x = y)

\* Every owner reference of ConfigMap n the controller may come to read.
OwnerRefs(n) ==
    ({configmaps[n], cmCache[n]} \cup {cmWatch[n][i].obj : i \in 1 .. Len(cmWatch[n])})
        \ {None, NoRef}

\* A UID belongs to one flag, whatever versions of it are around, and is in the
\* owner references of its ConfigMaps only.
UidsAreUnique ==
    \A k \in Keys : \A x \in Copies(k) :
       /\ x.uid \in 1 .. revision
       /\ \A j \in Keys : \A y \in Copies(j) : x.uid = y.uid => j = k
       /\ \A n \in Names : \A ref \in OwnerRefs(n) : ref.uid = x.uid => ref \in RefsTo(k)

\* Owner references never run ahead of the UIDs in use.
RefsAreOld == \A n \in Names : \A ref \in OwnerRefs(n) : ref.uid <= revision

\* Workers run when the caches are synced, and not before.
WorkersAreSynced ==
    /\ phase = "running" => FlagInformer!HasSynced /\ ConfigMapInformer!HasSynced
    /\ \A w \in Workers : pc[w] # "get" => phase = "running"

\* Flag k will be looked at again, even when the worker that has it is through.
Pending(k) == k \in dirty \cup waiting \/ flagNotify[k] # <<>>

\* The flag of a worker in the middle of syncHandler is the cached one, or the
\* key will be processed once more.
FlagIsCurrent ==
    \A w \in Workers : pc[w] \in {"configmap", "create"} =>
       flagCache[item[w]] \in {None, flag[w]} \/ Pending(item[w])

\* No watch breaks, and nobody removes owner references.
Lossless == Disturbances \cap {"relist", "orphan"} = {}

\* The deletion of a ConfigMap of k under the name n will be told to a handler.
Guarded(k, n) ==
    \/ cmCache[n] \in RefsTo(k)
    \/ \E i \in 1 .. Len(cmWatch[n]) : cmWatch[n][i].obj \in RefsTo(k)
    \/ \E i \in 1 .. Len(cmNotify[n]) :
           cmNotify[n][i].kind # "resync" /\ cmNotify[n][i].obj \in RefsTo(k)

\* A flag no worker is about to create the ConfigMap of, or to retry, is
\* pending, or has one whose deletion will not go unnoticed.
NothingForgotten ==
    \A k \in Keys :
       \/ flagCache[k] = None
       \/ flagCache[k].cm = NoName
       \/ \E w \in Workers : item[w] = k /\ pc[w] \in {"flag", "configmap", "create", "requeue"}
       \/ Pending(k)
       \/ Guarded(k, flagCache[k].cm)

\* The inductive invariant of the controller.
SyncInv ==
    /\ TypeOK
    /\ QueueInv
    /\ HeldKeys
    /\ Settled
    /\ BackOffIsScheduled
    /\ VersionsAreUnique
    /\ UidsAreUnique /\ RefsAreOld
    /\ WorkersAreSynced
    /\ ConfigMapInformer!FollowsStore
    /\ FlagInformer!DeletesAreOfTheGone
    /\ FlagIsCurrent
    /\ Lossless => ConfigMapInformer!NoneReplaced /\ NothingForgotten

==============================================================================
