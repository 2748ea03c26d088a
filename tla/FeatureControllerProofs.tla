----------------------- MODULE FeatureControllerProofs -----------------------
(* Theorems about FeatureController, for all sets of flags, ConfigMaps and   *)
(* workers, and all bounds.                                                  *)
EXTENDS FeatureController, FiniteSetTheorems, TLAPS

FlagFacts == INSTANCE InformerProofs WITH
    Ids <- Keys, store <- flags, cache <- flagCache, watch <- flagWatch,
    notify <- flagNotify, initial <- flagInitial

ConfigMapFacts == INSTANCE InformerProofs WITH
    Ids <- Names, store <- configmaps, cache <- cmCache, watch <- cmWatch,
    notify <- cmNotify, initial <- cmInitial

------------------------------------------------------------------------------
(* What the operations of the work queue preserve, for any keys.             *)

LEMMA QueueTypes ==
    ASSUME NEW Items, NEW k \in Items, QueueTypeOK(Items),
           \/ Add(k) \/ Get(k) \/ Done(k) \/ AddRateLimited(k) \/ Forget(k)
           \/ Elapse(k) \/ QueueRestart
    PROVE  QueueTypeOK(Items)'
<1> USE DEF QueueTypeOK
<1>1. CASE Add(k)
  BY <1>1 DEF Add, Enqueue
<1>2. CASE Get(k)
  BY <1>2 DEF Get
<1>3. CASE Done(k)
  BY <1>3 DEF Done
<1>4. CASE AddRateLimited(k)
  BY <1>4 DEF AddRateLimited
<1>5. CASE Forget(k)
  BY <1>5 DEF Forget
<1>6. CASE Elapse(k)
  BY <1>6 DEF Elapse, Enqueue
<1>7. CASE QueueRestart
  BY <1>7 DEF QueueRestart
<1> QED
  BY <1>1, <1>2, <1>3, <1>4, <1>5, <1>6, <1>7

\* Appending a new element keeps a sequence without duplicates.
LEMMA AppendUnique ==
    ASSUME NEW Items, NEW s \in Seq(Items), NEW k \in Items,
           \A i, j \in 1 .. Len(s) : s[i] = s[j] => i = j,
           \A i \in 1 .. Len(s) : s[i] # k
    PROVE  LET t == Append(s, k)
           IN  /\ \A i, j \in 1 .. Len(t) : t[i] = t[j] => i = j
               /\ \A i \in 1 .. Len(t) : t[i] = k \/ \E j \in 1 .. Len(s) : t[i] = s[j]
               /\ \A i \in 1 .. Len(s) : t[i] = s[i]
               /\ Len(t) = Len(s) + 1
               /\ t[Len(t)] = k
OBVIOUS

LEMMA EnqueueInv ==
    ASSUME NEW Items, NEW k \in Items, QueueTypeOK(Items), QueueInv,
           Enqueue(k), processing' = processing
    PROVE  QueueInv'
<1> USE DEF QueueTypeOK, QueueInv, Enqueue
<1>1. CASE k \in dirty \cup processing
  BY <1>1
<1>2. CASE k \notin dirty \cup processing
  <2>1. queue \in Seq(Items) /\ queue' = Append(queue, k) /\ dirty' = dirty \cup {k}
    BY <1>2
  <2>2. \A i \in 1 .. Len(queue) : queue[i] # k
    BY <1>2
  <2> QED
    BY <1>2, <2>1, <2>2, AppendUnique
<1> QED
  BY <1>1, <1>2

\* No operation of the queue loses a key, queues it twice or queues one that is
\* being processed.
LEMMA QueueSteps ==
    ASSUME NEW Items, NEW k \in Items, QueueTypeOK(Items), QueueInv,
           \/ Add(k) \/ Get(k) \/ (Done(k) /\ k \in processing)
           \/ AddRateLimited(k) \/ Forget(k) \/ Elapse(k) \/ QueueRestart
    PROVE  QueueInv'
<1>1. CASE Add(k)
  BY <1>1, EnqueueInv DEF Add
<1>2. CASE Get(k)
  <2>1. /\ queue \in Seq(Items) /\ queue # <<>> /\ queue[1] = k
        /\ queue' = Tail(queue)
        /\ dirty' = dirty \ {k} /\ processing' = processing \cup {k}
    BY <1>2 DEF Get, QueueTypeOK
  <2>2. /\ Len(queue') = Len(queue) - 1
        /\ \A i \in 1 .. Len(queue') : queue'[i] = queue[i + 1] /\ i + 1 \in 1 .. Len(queue)
    BY <2>1
  <2>3. ASSUME NEW i \in 1 .. Len(queue')
        PROVE  queue'[i] \in dirty' \ processing'
    BY <2>1, <2>2 DEF QueueInv
  <2>4. ASSUME NEW j \in dirty' \ processing'
        PROVE  \E i \in 1 .. Len(queue') : queue'[i] = j
    <3>1. PICK i \in 1 .. Len(queue) : queue[i] = j
      BY <2>1 DEF QueueInv
    <3>2. i # 1
      BY <2>1, <3>1
    <3> QED
      BY <2>1, <2>2, <3>1, <3>2
  <2>5. ASSUME NEW i \in 1 .. Len(queue'), NEW j \in 1 .. Len(queue'), queue'[i] = queue'[j]
        PROVE  i = j
    BY <2>1, <2>2, <2>5 DEF QueueInv
  <2> QED
    BY <2>3, <2>4, <2>5 DEF QueueInv
<1>3. CASE Done(k) /\ k \in processing
  <2>1. queue \in Seq(Items) /\ processing' = processing \ {k} /\ dirty' = dirty
    BY <1>3 DEF Done, QueueTypeOK
  <2>2. \A i \in 1 .. Len(queue) : queue[i] # k
    BY <1>3 DEF QueueInv
  <2>3. CASE k \in dirty
    <3>1. queue' = Append(queue, k)
      BY <1>3, <2>3 DEF Done
    <3> QED
      BY <2>1, <2>2, <2>3, <3>1, AppendUnique DEF QueueInv
  <2>4. CASE k \notin dirty
    BY <1>3, <2>1, <2>4 DEF Done, QueueInv
  <2> QED
    BY <2>3, <2>4
<1>4. CASE AddRateLimited(k)
  BY <1>4 DEF AddRateLimited, QueueInv
<1>5. CASE Forget(k)
  BY <1>5 DEF Forget, QueueInv
<1>6. CASE Elapse(k)
  BY <1>6, EnqueueInv DEF Elapse
<1>7. CASE QueueRestart
  BY <1>7 DEF QueueRestart, QueueInv
<1> QED
  BY <1>1, <1>2, <1>3, <1>4, <1>5, <1>6, <1>7

------------------------------------------------------------------------------
(* Every action takes a step of each informer and of the work queue, or      *)
(* leaves it alone, and each of these steps preserves the types.             *)

FlagStep ==
    \/ \E k \in Keys : FlagInformer!Emit(k) /\ UNCHANGED <<flagCache, flagNotify, flagInitial>>
    \/ \E k \in Keys : FlagInformer!Pop(k) \/ FlagInformer!Notified(k)
    \/ FlagInformer!List \/ FlagInformer!Resync \/ FlagInformer!Restart
    \/ UNCHANGED <<flagCache, flagWatch, flagNotify, flagInitial>>

\* The informer of FeatureFlags in the words of InformerProofs.
LEMMA FlagFactsTypes ==
    /\ None \notin FlagObjects
    /\ FlagInformer!InformerTypeOK(FlagObjects) <=> FlagFacts!InformerTypeOK(FlagObjects)
    /\ FlagInformer!InformerTypeOK(FlagObjects)' <=> FlagFacts!InformerTypeOK(FlagObjects)'
BY ClusterAssumption DEF FlagInformer!InformerTypeOK, FlagFacts!InformerTypeOK,
         FlagInformer!Changes, FlagFacts!Changes,
         FlagInformer!Notifications, FlagFacts!Notifications,
         FlagInformer!Kinds, FlagFacts!Kinds

LEMMA FlagFactsStep ==
    ASSUME FlagStep
    PROVE  FlagFacts!Step
BY DEF FlagStep, FlagFacts!Step,
         FlagInformer!Emit, FlagFacts!Emit, FlagInformer!List,
         FlagFacts!List, FlagInformer!Pop, FlagFacts!Pop,
         FlagInformer!Notified, FlagFacts!Notified, FlagInformer!Resync,
         FlagFacts!Resync, FlagInformer!Restart, FlagFacts!Restart,
         FlagInformer!Told, FlagFacts!Told, FlagInformer!Change,
         FlagFacts!Change, FlagInformer!Notification,
         FlagFacts!Notification, FlagInformer!Listed, FlagFacts!Listed,
         FlagInformer!HasSynced, FlagFacts!HasSynced,
         FlagInformer!EmptyStreams, FlagFacts!EmptyStreams,
         FlagInformer!Caught, FlagFacts!Caught

LEMMA FlagInformerTypes ==
    ASSUME ClusterTypeOK, ClusterTypeOK', FlagStep,
           FlagInformer!InformerTypeOK(FlagObjects)
    PROVE  FlagInformer!InformerTypeOK(FlagObjects)'
BY FlagFactsTypes, FlagFactsStep, FlagFacts!InformerTypes DEF ClusterTypeOK

ConfigMapStep ==
    \/ \E n \in Names : ConfigMapInformer!Emit(n) /\ UNCHANGED <<cmCache, cmNotify, cmInitial>>
    \/ \E n \in Names : ConfigMapInformer!Pop(n) \/ ConfigMapInformer!Notified(n)
    \/ ConfigMapInformer!List \/ ConfigMapInformer!Resync \/ ConfigMapInformer!Restart
    \/ UNCHANGED <<cmCache, cmWatch, cmNotify, cmInitial>>

LEMMA ConfigMapInformerTypes ==
    ASSUME ClusterTypeOK, ClusterTypeOK', ConfigMapStep,
           ConfigMapInformer!InformerTypeOK(Refs \cup {NoRef})
    PROVE  ConfigMapInformer!InformerTypeOK(Refs \cup {NoRef})'
<1>1. ConfigMapFacts!InformerTypeOK(Refs \cup {NoRef})
  BY DEF ConfigMapInformer!InformerTypeOK, ConfigMapFacts!InformerTypeOK,
         ConfigMapInformer!Changes, ConfigMapFacts!Changes,
         ConfigMapInformer!Notifications, ConfigMapFacts!Notifications,
         ConfigMapInformer!Kinds, ConfigMapFacts!Kinds
<1>2. None \notin Refs \cup {NoRef}
  BY ClusterAssumption
<1>3. ConfigMapFacts!Step
  BY DEF ConfigMapStep, ConfigMapFacts!Step,
         ConfigMapInformer!Emit, ConfigMapFacts!Emit,
         ConfigMapInformer!List, ConfigMapFacts!List, ConfigMapInformer!Pop,
         ConfigMapFacts!Pop, ConfigMapInformer!Notified,
         ConfigMapFacts!Notified, ConfigMapInformer!Resync,
         ConfigMapFacts!Resync, ConfigMapInformer!Restart,
         ConfigMapFacts!Restart, ConfigMapInformer!Told,
         ConfigMapFacts!Told, ConfigMapInformer!Change,
         ConfigMapFacts!Change, ConfigMapInformer!Notification,
         ConfigMapFacts!Notification, ConfigMapInformer!Listed,
         ConfigMapFacts!Listed, ConfigMapInformer!HasSynced,
         ConfigMapFacts!HasSynced, ConfigMapInformer!EmptyStreams,
         ConfigMapFacts!EmptyStreams, ConfigMapInformer!Caught,
         ConfigMapFacts!Caught
<1>4. ConfigMapFacts!InformerTypeOK(Refs \cup {NoRef})'
  BY <1>1, <1>2, <1>3, ConfigMapFacts!InformerTypes DEF ClusterTypeOK
<1> QED
  BY <1>4 DEF ConfigMapInformer!InformerTypeOK, ConfigMapFacts!InformerTypeOK,
         ConfigMapInformer!Changes, ConfigMapFacts!Changes,
         ConfigMapInformer!Notifications, ConfigMapFacts!Notifications,
         ConfigMapInformer!Kinds, ConfigMapFacts!Kinds

QueueStep ==
    \/ \E k \in Keys : Add(k) \/ Get(k) \/ Done(k) \/ AddRateLimited(k) \/ Forget(k) \/ Elapse(k)
    \/ QueueRestart
    \/ UNCHANGED queueVars

LEMMA QueueStepTypes ==
    ASSUME QueueTypeOK(Keys), QueueStep
    PROVE  QueueTypeOK(Keys)'
<1>1. CASE UNCHANGED queueVars
  BY <1>1 DEF QueueTypeOK, queueVars
<1>2. CASE QueueRestart
  BY <1>2 DEF QueueTypeOK, QueueRestart
<1> QED
  BY <1>1, <1>2, QueueTypes DEF QueueStep

\* What a step must show to preserve the types.
LEMMA StepTypes ==
    ASSUME TypeOK, ClusterTypeOK', FlagStep, ConfigMapStep, QueueStep,
           WorkerTypeOK', ProcessTypeOK'
    PROVE  TypeOK'
BY FlagInformerTypes, ConfigMapInformerTypes, QueueStepTypes DEF TypeOK

\* A handler of ConfigMaps gets an object, never a missing one.
LEMMA HeadOfNotify ==
    ASSUME TypeOK, NEW n \in Names, HandleConfigMap(n)
    PROVE  Head(cmNotify[n]).obj \in Refs \cup {NoRef}
<1>1. /\ cmNotify[n] \in Seq(ConfigMapInformer!Notifications(Refs \cup {NoRef}))
      /\ cmNotify[n] # <<>>
  BY DEF TypeOK, HandleConfigMap, ConfigMapInformer!Notified, ConfigMapInformer!InformerTypeOK
<1>2. Head(cmNotify[n]) \in ConfigMapInformer!Notifications(Refs \cup {NoRef})
  BY <1>1
<1> QED
  BY <1>2 DEF ConfigMapInformer!Notifications

\* What the API server stores is a flag.
LEMMA StoreTypes ==
    ASSUME ClusterTypeOK, NEW k \in Keys, NEW f \in FlagObjects, StoreFlag(k, f)
    PROVE  /\ revision' = revision + 1 /\ revision' \in Nat
           /\ flags' = [flags EXCEPT ![k] = [f EXCEPT !.rv = revision']]
           /\ flags' \in [Keys -> FlagObjects \cup {None}]
<1>1. revision' = revision + 1 /\ revision' \in Nat
  BY DEF StoreFlag, ClusterTypeOK
<1>2. [f EXCEPT !.rv = revision'] \in FlagObjects
  BY <1>1 DEF FlagObjects
<1> QED
  BY <1>1, <1>2 DEF StoreFlag, ClusterTypeOK

\* The flag a user's request stores.
LEMMA UserStores ==
    ASSUME ClusterTypeOK, NEW k \in Keys, FlagChanges(k), ~UserDeletesFlag(k)
    PROVE  \E f \in FlagObjects : /\ StoreFlag(k, f)
                                  /\ f.uid = IF flags[k] = None THEN revision + 1 ELSE flags[k].uid
<1>1. ASSUME NEW cm \in Names \cup {NoName}, UserCreatesFlag(k, cm)
      PROVE  \E f \in FlagObjects : /\ StoreFlag(k, f)
                                    /\ f.uid = IF flags[k] = None THEN revision + 1 ELSE flags[k].uid
  <2> DEFINE f == [uid |-> revision + 1, rv |-> 0, cm |-> cm, raw |-> TRUE]
  <2>1. f \in FlagObjects /\ f.uid = revision + 1
    BY DEF ClusterTypeOK, FlagObjects
  <2>2. StoreFlag(k, f) /\ flags[k] = None
    BY <1>1 DEF UserCreatesFlag
  <2> HIDE DEF f
  <2> QED
    BY <2>1, <2>2
<1>2. ASSUME NEW cm \in Names \cup {NoName}, NEW raw, flags[k] # None => raw \in BOOLEAN,
             UserEditsFlag(k, cm, raw)
      PROVE  \E f \in FlagObjects : /\ StoreFlag(k, f)
                                    /\ f.uid = IF flags[k] = None THEN revision + 1 ELSE flags[k].uid
  <2> DEFINE f == [flags[k] EXCEPT !.cm = cm, !.raw = raw]
  <2>1. flags[k] # None /\ flags[k] \in FlagObjects
    BY <1>2 DEF UserEditsFlag, ClusterTypeOK
  <2>2. f \in FlagObjects /\ f.uid = flags[k].uid
    BY <1>2, <2>1 DEF FlagObjects
  <2>3. StoreFlag(k, f)
    BY <1>2 DEF UserEditsFlag
  <2> HIDE DEF f
  <2> QED
    BY <2>1, <2>2, <2>3
<1>3. flags[k] # None => flags[k].raw \in BOOLEAN
  BY DEF ClusterTypeOK, FlagObjects
<1> QED
  BY <1>1, <1>2, <1>3 DEF FlagChanges

LEMMA ChangeTypes ==
    ASSUME ClusterTypeOK, NEW k \in Keys, FlagChanges(k)
    PROVE  ClusterTypeOK'
<1>0. userWrites' = userWrites + 1 /\ configmaps' = configmaps
  BY DEF FlagChanges, UserCreatesFlag, UserEditsFlag, UserDeletesFlag, UserWrite
<1>1. userWrites' \in Nat /\ configmaps' = configmaps
  BY <1>0 DEF ClusterTypeOK
<1>2. CASE UserDeletesFlag(k)
  BY <1>1, <1>2 DEF UserDeletesFlag, ClusterTypeOK
<1>3. CASE ~UserDeletesFlag(k)
  BY <1>1, <1>3, UserStores, StoreTypes DEF ClusterTypeOK
<1> QED
  BY <1>2, <1>3

\* A PUT writes nothing, or stores the flag as the worker has read it, in the
\* form the typed clientset gives it.
LEMMA Puts ==
    ASSUME TypeOK, NEW w \in Workers, updateFeatureFlagStatus(w)
    PROVE  LET k == item[w]
               f == [flag[w] EXCEPT !.raw = FALSE]
           IN  /\ k \in Keys /\ flag[w] \in FlagObjects /\ f \in FlagObjects
               /\ UNCHANGED <<configmaps, userWrites, flagCache, flagNotify, flagInitial, item, flag>>
               /\ \/ UNCHANGED <<flags, revision, flagWatch>>
                  \/ /\ flags[k] # None /\ flags[k].rv = flag[w].rv /\ flags[k] # f
                     /\ StoreFlag(k, f) /\ FlagInformer!Emit(k)
<1> DEFINE k == item[w]
           f == [flag[w] EXCEPT !.raw = FALSE]
<1>1. k \in Keys /\ flag[w] \in FlagObjects
  BY DEF TypeOK, WorkerTypeOK, updateFeatureFlagStatus, At
<1>2. f \in FlagObjects
  BY <1>1 DEF FlagObjects
<1>3. UNCHANGED <<configmaps, userWrites, flagCache, flagNotify, flagInitial, item, flag>>
  BY DEF updateFeatureFlagStatus
<1>4. \/ UNCHANGED <<flags, revision, flagWatch>>
      \/ /\ flags[k] # None /\ flags[k].rv = flag[w].rv /\ flags[k] # f
         /\ StoreFlag(k, f) /\ FlagInformer!Emit(k)
  BY DEF updateFeatureFlagStatus
<1> QED
  BY <1>1, <1>2, <1>3, <1>4

LEMMA NextTypes ==
    ASSUME TypeOK, Next
    PROVE  TypeOK'
<1> USE DEF TypeOK, clusterVars, flagVars, cmVars, queueVars, workerVars,
            FlagStep, ConfigMapStep, QueueStep
<1>c. ASSUME UNCHANGED clusterVars PROVE ClusterTypeOK'
  BY <1>c DEF ClusterTypeOK
<1>w. ASSUME UNCHANGED workerVars PROVE WorkerTypeOK'
  BY <1>w DEF WorkerTypeOK
<1>p. ASSUME UNCHANGED <<phase, faults>> PROVE ProcessTypeOK'
  BY <1>p DEF ProcessTypeOK
<1>f. ASSUME NEW kind, Fault(kind) PROVE faults' \in Nat
  BY <1>f DEF Fault, ProcessTypeOK
<1>1. ASSUME NEW k \in Keys, FlagChanges(k)
      PROVE  TypeOK'
  <2>1. ClusterTypeOK'
    BY <1>1, ChangeTypes
  <2> QED
    BY <1>1, <1>w, <1>p, <2>1, StepTypes DEF FlagChanges, ControllerUnchanged,
       UserCreatesFlag, UserEditsFlag, UserDeletesFlag
<1>2. ASSUME NEW n \in Names, ConfigMapChanges(n)
      PROVE  TypeOK'
  <2>1. \A ref \in ForeignRefs : ref \in Refs
    BY DEF ForeignRefs, Refs
  <2>2. ClusterTypeOK'
    BY <1>2, <2>1 DEF ConfigMapChanges, UserCreatesConfigMap, UserEditsConfigMap,
                      UserDeletesConfigMap, UserWrite, ClusterTypeOK
  <2> QED
    BY <1>2, <1>w, <1>p, <2>2, StepTypes DEF ConfigMapChanges, ControllerUnchanged
<1>3. ASSUME NEW n \in Names, GarbageCollector(n)
      PROVE  TypeOK'
  <2>1. ClusterTypeOK'
    BY <1>3 DEF GarbageCollector, CollectGarbage, ClusterTypeOK
  <2> QED
    BY <1>3, <1>w, <1>p, <2>1, StepTypes DEF GarbageCollector, CollectGarbage, ControllerUnchanged
<1>4. CASE Start \/ StartWorkers
  BY <1>4, <1>c, <1>w, StepTypes DEF Start, StartWorkers, ProcessTypeOK
<1>5. CASE Crash
  <2>1. WorkerTypeOK'
    BY <1>5 DEF Crash, WorkerTypeOK
  <2>2. ProcessTypeOK'
    BY <1>5, <1>f DEF Crash, ProcessTypeOK
  <2> QED
    BY <1>5, <1>c, <2>1, <2>2, StepTypes DEF Crash
<1>6. CASE ListFlags \/ ListConfigMaps \/ ResyncFlags \/ ResyncConfigMaps
  BY <1>6, <1>c, <1>w, <1>p, StepTypes DEF ListFlags, ListConfigMaps, ResyncFlags, ResyncConfigMaps
<1>7. CASE RelistFlags \/ RelistConfigMaps
  <2>1. ProcessTypeOK'
    BY <1>7, <1>f DEF RelistFlags, RelistConfigMaps, ProcessTypeOK
  <2> QED
    BY <1>7, <1>c, <1>w, <2>1, StepTypes DEF RelistFlags, RelistConfigMaps
<1>8. ASSUME NEW k \in Keys, PopFlag(k) \/ HandleFlag(k)
      PROVE  TypeOK'
  BY <1>8, <1>c, <1>w, <1>p, StepTypes DEF PopFlag, HandleFlag, enqueueFeatureFlag
<1>9. ASSUME NEW n \in Names, PopConfigMap(n)
      PROVE  TypeOK'
  BY <1>9, <1>c, <1>w, <1>p, StepTypes DEF PopConfigMap
<1>10. ASSUME NEW n \in Names, HandleConfigMap(n)
       PROVE  TypeOK'
  <2>1. Head(cmNotify[n]).obj \in Refs \cup {NoRef}
    BY <1>10, HeadOfNotify
  <2>2. QueueStep
    BY <1>10, <2>1 DEF HandleConfigMap, handleObject, enqueueFeatureFlag, Refs
  <2> QED
    BY <1>10, <1>c, <1>w, <1>p, <2>2, StepTypes DEF HandleConfigMap
<1>11. ASSUME NEW k \in Keys, BackOff(k)
       PROVE  TypeOK'
  BY <1>11, <1>c, <1>w, <1>p, StepTypes DEF BackOff
<1>12. ASSUME NEW w \in Workers, Work(w) \/ RequestFails(w)
       PROVE  TypeOK'
  <2> USE DEF At, Goto
  <2>1. CASE GetItem(w)
    <3>1. WorkerTypeOK'
      BY <2>1 DEF GetItem, WorkerTypeOK
    <3> QED
      BY <2>1, <1>c, <1>p, <3>1, StepTypes DEF GetItem
  <2>2. CASE LookupFlag(w)
    <3>1. flagCache \in [Keys -> FlagObjects \cup {None}] /\ item[w] \in Keys
      BY <2>2 DEF LookupFlag, FlagInformer!InformerTypeOK, WorkerTypeOK
    <3>2. WorkerTypeOK'
      BY <2>2, <3>1 DEF LookupFlag, WorkerTypeOK, FlagObjects
    <3> QED
      BY <2>2, <1>c, <1>p, <3>2, StepTypes DEF LookupFlag
  <2>3. CASE LookupConfigMap(w)
    <3>1. WorkerTypeOK'
      BY <2>3 DEF LookupConfigMap, WorkerTypeOK
    <3> QED
      BY <2>3, <1>c, <1>p, <3>1, StepTypes DEF LookupConfigMap
  <2>4. CASE CreateConfigMap(w)
    <3>1. /\ item[w] \in Keys /\ flag[w] \in FlagObjects /\ flag[w].cm \in Names
      BY <2>4 DEF CreateConfigMap, WorkerTypeOK
    <3>2. RefTo(item[w], flag[w]) \in Refs
      BY <3>1 DEF RefTo, Refs, FlagObjects
    <3>3. ClusterTypeOK'
      BY <2>4, <3>1, <3>2 DEF CreateConfigMap, ClusterTypeOK
    <3>4. WorkerTypeOK'
      BY <2>4 DEF CreateConfigMap, WorkerTypeOK
    <3>5. ProcessTypeOK'
      BY <2>4, <1>f DEF CreateConfigMap, ProcessTypeOK
    <3> QED
      BY <2>4, <3>1, <3>3, <3>4, <3>5, StepTypes DEF CreateConfigMap
  <2>5. CASE updateFeatureFlagStatus(w)
    <3>2. ClusterTypeOK'
      BY <2>5, Puts, StoreTypes DEF ClusterTypeOK
    <3>3. WorkerTypeOK'
      BY <2>5 DEF updateFeatureFlagStatus, WorkerTypeOK
    <3>4. ProcessTypeOK'
      BY <2>5, <1>f DEF updateFeatureFlagStatus, ProcessTypeOK
    <3>5. FlagStep
      BY <2>5, Puts
    <3> QED
      BY <2>5, <3>2, <3>3, <3>4, <3>5, StepTypes DEF updateFeatureFlagStatus
  <2>6. CASE RequestFails(w)
    <3>1. WorkerTypeOK' /\ ProcessTypeOK'
      BY <2>6, <1>f DEF RequestFails, WorkerTypeOK, ProcessTypeOK
    <3> QED
      BY <2>6, <1>c, <3>1, StepTypes DEF RequestFails
  <2>7. CASE Requeue(w) \/ ForgetItem(w) \/ FinishItem(w)
    <3>1. item[w] \in Keys
      BY <2>7 DEF Requeue, ForgetItem, FinishItem, WorkerTypeOK
    <3>2. WorkerTypeOK'
      BY <2>7 DEF Requeue, ForgetItem, FinishItem, WorkerTypeOK
    <3> QED
      BY <2>7, <1>c, <1>p, <3>1, <3>2, StepTypes DEF Requeue, ForgetItem, FinishItem
  <2> QED
    BY <1>12, <2>1, <2>2, <2>3, <2>4, <2>5, <2>6, <2>7 DEF Work
<1> QED
  BY <1>1, <1>2, <1>3, <1>4, <1>5, <1>6, <1>7, <1>8, <1>9, <1>10, <1>11, <1>12 DEF Next

LEMMA InitTypes == Init => TypeOK
<1> SUFFICES ASSUME Init PROVE TypeOK
  OBVIOUS
<1>1. ClusterTypeOK /\ WorkerTypeOK /\ ProcessTypeOK /\ QueueTypeOK(Keys)
  BY DEF Init, ClusterInit, QueueInit, NoWork, ClusterTypeOK, WorkerTypeOK, ProcessTypeOK,
         QueueTypeOK
<1>2. FlagInformer!InformerTypeOK(FlagObjects)
  BY DEF Init, FlagInformer!InformerInit, FlagInformer!InformerTypeOK, FlagInformer!EmptyStreams
<1>3. ConfigMapInformer!InformerTypeOK(Refs \cup {NoRef})
  BY DEF Init, ConfigMapInformer!InformerInit, ConfigMapInformer!InformerTypeOK,
         ConfigMapInformer!EmptyStreams
<1> QED
  BY <1>1, <1>2, <1>3 DEF TypeOK

LEMMA StutterTypes == TypeOK /\ UNCHANGED vars => TypeOK'
<1> SUFFICES ASSUME TypeOK, UNCHANGED vars PROVE TypeOK'
  OBVIOUS
<1>1. ClusterTypeOK' /\ WorkerTypeOK' /\ ProcessTypeOK'
  BY DEF TypeOK, ClusterTypeOK, WorkerTypeOK, ProcessTypeOK, vars, clusterVars, workerVars
<1>2. FlagStep /\ ConfigMapStep /\ QueueStep
  BY DEF FlagStep, ConfigMapStep, QueueStep, vars, flagVars, cmVars
<1> QED
  BY <1>1, <1>2, StepTypes

\* Every variable keeps its type in every behavior of the controller, and no
\* worker gets past the early returns of syncHandler without what they check.
THEOREM TypeCorrect == Spec => []TypeOK
<1>1. TypeOK /\ [Next]_vars => TypeOK'
  BY NextTypes, StutterTypes
<1> QED
  BY <1>1, InitTypes, PTL DEF Spec

------------------------------------------------------------------------------
(* The work queue and the workers.                                           *)

Untouched == UNCHANGED <<queueVars, workerVars>>

Enqueues == UNCHANGED workerVars /\ \E k \in Keys : Add(k) \/ Elapse(k)

\* Worker w takes a step within syncHandler.
Syncs(w) ==
    /\ pc[w] \notin {"get", "done"}
    /\ \E label : label \notin {"get", "done"} /\ pc' = [pc EXCEPT ![w] = label]
    /\ flag' = flag \/ LookupFlag(w)
    /\ UNCHANGED <<queueVars, item>>

\* What an action does to the work queue and the workers.
LEMMA StepKinds ==
    ASSUME TypeOK, Next
    PROVE  \/ Untouched \/ Enqueues \/ Crash
           \/ \E w \in Workers : Syncs(w) \/ GetItem(w) \/ Requeue(w) \/ ForgetItem(w) \/ FinishItem(w)
<1> USE DEF Untouched, Enqueues, queueVars, workerVars
<1>1. ASSUME NEW k \in Keys, FlagChanges(k)
      PROVE  Untouched
  BY <1>1 DEF FlagChanges, ControllerUnchanged
<1>2. ASSUME NEW n \in Names, ConfigMapChanges(n) \/ GarbageCollector(n)
      PROVE  Untouched
  BY <1>2 DEF ConfigMapChanges, GarbageCollector, ControllerUnchanged
<1>3. CASE Start \/ StartWorkers
  BY <1>3 DEF Start, StartWorkers
<1>4. CASE ListFlags \/ ListConfigMaps \/ RelistFlags \/ RelistConfigMaps
  BY <1>4 DEF ListFlags, ListConfigMaps, RelistFlags, RelistConfigMaps
<1>5. CASE ResyncFlags \/ ResyncConfigMaps
  BY <1>5 DEF ResyncFlags, ResyncConfigMaps
<1>6. ASSUME NEW k \in Keys, PopFlag(k)
      PROVE  Untouched
  BY <1>6 DEF PopFlag
<1>7. ASSUME NEW n \in Names, PopConfigMap(n)
      PROVE  Untouched
  BY <1>7 DEF PopConfigMap
<1>8. ASSUME NEW k \in Keys, HandleFlag(k)
      PROVE  Untouched \/ Enqueues
  BY <1>8 DEF HandleFlag, enqueueFeatureFlag
<1>9. ASSUME NEW n \in Names, HandleConfigMap(n)
      PROVE  Untouched \/ Enqueues
  <2> DEFINE ref == Head(cmNotify[n]).obj
  <2>1. ref \in Refs \cup {NoRef}
    BY <1>9, HeadOfNotify
  <2>2. ref # NoRef => ref.name \in Keys
    BY <2>1 DEF Refs
  <2> QED
    BY <1>9, <2>2 DEF HandleConfigMap, handleObject, enqueueFeatureFlag
<1>10. ASSUME NEW k \in Keys, BackOff(k)
       PROVE  Enqueues
  BY <1>10 DEF BackOff
<1>11. ASSUME NEW w \in Workers,
              LookupFlag(w) \/ LookupConfigMap(w) \/ CreateConfigMap(w)
                \/ updateFeatureFlagStatus(w) \/ RequestFails(w)
       PROVE  Syncs(w)
  BY <1>11 DEF LookupFlag, LookupConfigMap, CreateConfigMap, updateFeatureFlagStatus,
               RequestFails, At, Goto, Syncs
<1> QED
  BY <1>1, <1>2, <1>3, <1>4, <1>5, <1>6, <1>7, <1>8, <1>9, <1>10, <1>11 DEF Next, Work

LEMMA NextQueue ==
    ASSUME TypeOK, QueueInv, HeldKeys, Next
    PROVE  QueueInv' /\ HeldKeys'
<1> USE DEF HeldKeys, NoConcurrentSync
<1>t. /\ pc \in [Workers -> {"get", "flag", "configmap", "create", "update",
                             "requeue", "forget", "done"}]
      /\ item \in [Workers -> Keys \cup {None}]
      /\ \A w \in Workers : pc[w] # "get" => item[w] \in Keys
      /\ QueueTypeOK(Keys)
  BY DEF TypeOK, WorkerTypeOK
<1>1. CASE Untouched
  BY <1>1 DEF Untouched, QueueInv, queueVars, workerVars
<1>2. CASE Enqueues
  <2>1. QueueInv'
    BY <1>2, <1>t, QueueSteps DEF Enqueues
  <2> QED
    BY <1>2, <2>1 DEF Enqueues, Add, Elapse, workerVars
<1>3. CASE Crash
  BY <1>3 DEF Crash, QueueRestart, QueueInv
<1>4. ASSUME NEW w \in Workers, Syncs(w)
      PROVE  QueueInv' /\ HeldKeys'
  BY <1>4, <1>t DEF Syncs, QueueInv, queueVars
<1>5. ASSUME NEW w \in Workers, GetItem(w)
      PROVE  QueueInv' /\ HeldKeys'
  <2>1. PICK k \in Keys : Get(k) /\ item' = [item EXCEPT ![w] = k]
    BY <1>5 DEF GetItem
  <2>2. QueueInv'
    BY <2>1, <1>t, QueueSteps
  <2>3. k \notin processing /\ processing' = processing \cup {k}
    <3>1. queue \in Seq(Keys) /\ queue # <<>> /\ k = queue[1]
      BY <2>1, <1>t DEF Get, QueueTypeOK
    <3> QED
      BY <2>1, <3>1 DEF Get, QueueInv
  <2>4. pc[w] = "get" /\ pc' = [pc EXCEPT ![w] = "flag"]
    BY <1>5 DEF GetItem, At, Goto
  <2>5. None \notin processing \cup {k}
    BY <1>t, ClusterAssumption DEF QueueTypeOK
  <2>6. \A j \in processing' : \E v \in Workers : item'[v] = j
    BY <1>t, <2>1, <2>3, <2>4, <2>5
  <2>7. NoConcurrentSync'
    BY <1>t, <2>1, <2>3, <2>4, <2>5
  <2> QED
    BY <1>t, <2>1, <2>2, <2>3, <2>4, <2>6, <2>7
<1>6. ASSUME NEW w \in Workers, Requeue(w) \/ ForgetItem(w)
      PROVE  QueueInv' /\ HeldKeys'
  <2>1. item[w] \in Keys /\ (AddRateLimited(item[w]) \/ Forget(item[w]))
    BY <1>6, <1>t DEF Requeue, ForgetItem, At
  <2>2. QueueInv'
    BY <2>1, <1>t, QueueSteps
  <2>3. HeldKeys'
    BY <1>6, <1>t, <2>1 DEF Requeue, ForgetItem, At, Goto, AddRateLimited, Forget
  <2> QED
    BY <2>2, <2>3
<1>7. ASSUME NEW w \in Workers, FinishItem(w)
      PROVE  QueueInv' /\ HeldKeys'
  <2>1. item[w] \in Keys /\ item[w] \in processing /\ Done(item[w])
    BY <1>7, <1>t, ClusterAssumption DEF FinishItem, At
  <2>2. QueueInv'
    BY <2>1, <1>t, QueueSteps
  <2>3. /\ processing' = processing \ {item[w]}
        /\ item' = [item EXCEPT ![w] = None] /\ pc' = [pc EXCEPT ![w] = "get"]
    BY <1>7, <2>1 DEF FinishItem, Goto, Done
  <2> QED
    BY <1>t, <2>1, <2>2, <2>3
<1> QED
  BY <1>1, <1>2, <1>3, <1>4, <1>5, <1>6, <1>7, StepKinds

LEMMA NextBackOff ==
    ASSUME TypeOK, QueueInv, HeldKeys, Settled, BackOffIsScheduled, Next
    PROVE  Settled' /\ BackOffIsScheduled'
<1> USE DEF Settled, BackOffIsScheduled
<1>t. /\ pc \in [Workers -> {"get", "flag", "configmap", "create", "update",
                             "requeue", "forget", "done"}]
      /\ item \in [Workers -> Keys \cup {None}]
      /\ \A w \in Workers : pc[w] # "get" => item[w] \in processing
      /\ \A v, w \in Workers : pc[v] # "get" /\ item[v] = item[w] => v = w
      /\ QueueTypeOK(Keys)
  BY ClusterAssumption DEF TypeOK, WorkerTypeOK, HeldKeys, NoConcurrentSync
<1>1. CASE Untouched
  BY <1>1 DEF Untouched, queueVars, workerVars
<1>2. CASE Enqueues
  BY <1>2 DEF Enqueues, Add, Elapse, Enqueue, workerVars
<1>3. CASE Crash
  BY <1>3 DEF Crash, QueueRestart
<1>4. ASSUME NEW w \in Workers, Syncs(w)
      PROVE  Settled' /\ BackOffIsScheduled'
  BY <1>4, <1>t DEF Syncs, queueVars
<1>5. ASSUME NEW w \in Workers, GetItem(w)
      PROVE  Settled' /\ BackOffIsScheduled'
  <2>1. PICK k \in Keys : Get(k) /\ item' = [item EXCEPT ![w] = k]
    BY <1>5 DEF GetItem
  <2>2. k \notin processing
    <3>1. queue \in Seq(Keys) /\ queue # <<>> /\ k = queue[1]
      BY <2>1, <1>t DEF Get, QueueTypeOK
    <3> QED
      BY <3>1 DEF QueueInv
  <2>3. pc[w] = "get" /\ pc' = [pc EXCEPT ![w] = "flag"]
    BY <1>5 DEF GetItem, At, Goto
  <2>4. Settled'
    BY <1>t, <2>1, <2>2, <2>3 DEF Get
  <2>5. BackOffIsScheduled'
    BY <2>1 DEF Get
  <2> QED
    BY <2>4, <2>5
<1>6. ASSUME NEW w \in Workers, Requeue(w)
      PROVE  Settled' /\ BackOffIsScheduled'
  BY <1>6, <1>t DEF Requeue, At, Goto, AddRateLimited
<1>7. ASSUME NEW w \in Workers, ForgetItem(w)
      PROVE  Settled' /\ BackOffIsScheduled'
  BY <1>7, <1>t DEF ForgetItem, At, Goto, Forget
<1>8. ASSUME NEW w \in Workers, FinishItem(w)
      PROVE  Settled' /\ BackOffIsScheduled'
  BY <1>8, <1>t DEF FinishItem, At, Goto, Done
<1> QED
  BY <1>1, <1>2, <1>3, <1>4, <1>5, <1>6, <1>7, <1>8, StepKinds

------------------------------------------------------------------------------
(* Versions of flags: a user's request or a PUT makes a new one.             *)

\* A copy of flag k is a flag.
LEMMA CopyTypes ==
    ASSUME TypeOK, NEW k \in Keys, NEW x \in Copies(k)
    PROVE  x \in FlagObjects /\ x.rv \in Nat
<1> DEFINE Object == FlagObjects \cup {None}
<1>1. /\ flags[k] \in Object /\ flagCache[k] \in Object
      /\ flagWatch[k] \in Seq(FlagInformer!Changes(Object))
      /\ \A w \in Workers : flag[w] \in Object
  BY DEF TypeOK, ClusterTypeOK, WorkerTypeOK, FlagInformer!InformerTypeOK
<1>2. ASSUME NEW i \in 1 .. Len(flagWatch[k])
      PROVE  flagWatch[k][i].obj \in Object
  <2>1. flagWatch[k][i] \in FlagInformer!Changes(Object)
    BY <1>1
  <2> QED
    BY <2>1 DEF FlagInformer!Changes
<1>3. x \in FlagObjects
  BY <1>1, <1>2 DEF Copies
<1> QED
  BY <1>3 DEF FlagObjects

\* The flag a request just stored under k.
Fresh(k, x) == revision' = revision + 1 /\ x = flags'[k] /\ x.rv = revision'

\* What an action does to the API server.
LEMMA Writes ==
    ASSUME TypeOK, Next
    PROVE  \/ UNCHANGED clusterVars
           \/ \E k \in Keys : FlagChanges(k)
           \/ \E n \in Names : ConfigMapChanges(n) \/ GarbageCollector(n)
           \/ \E w \in Workers : CreateConfigMap(w) \/ updateFeatureFlagStatus(w)
<1>1. ASSUME NEW n \in Names, PopConfigMap(n) \/ HandleConfigMap(n)
      PROVE  UNCHANGED clusterVars
  BY <1>1 DEF PopConfigMap, HandleConfigMap
<1>2. ASSUME NEW k \in Keys, PopFlag(k) \/ HandleFlag(k) \/ BackOff(k)
      PROVE  UNCHANGED clusterVars
  BY <1>2 DEF PopFlag, HandleFlag, BackOff
<1>3. CASE \/ ListFlags \/ ListConfigMaps \/ RelistFlags \/ RelistConfigMaps
           \/ ResyncFlags \/ ResyncConfigMaps \/ Start \/ StartWorkers \/ Crash
  BY <1>3 DEF ListFlags, ListConfigMaps, RelistFlags, RelistConfigMaps, ResyncFlags,
              ResyncConfigMaps, Start, StartWorkers, Crash
<1>4. ASSUME NEW w \in Workers,
             \/ GetItem(w) \/ LookupFlag(w) \/ LookupConfigMap(w)
             \/ RequestFails(w) \/ Requeue(w) \/ ForgetItem(w) \/ FinishItem(w)
      PROVE  UNCHANGED clusterVars
  BY <1>4 DEF GetItem, LookupFlag, LookupConfigMap, RequestFails, Requeue, ForgetItem, FinishItem
<1> QED
  BY <1>1, <1>2, <1>3, <1>4 DEF Next, Work

LEMMA NextWrites ==
    ASSUME TypeOK, Next
    PROVE  /\ revision \in Nat /\ revision' \in {revision, revision + 1}
           /\ \/ userWrites' = userWrites + 1 /\ \E k \in Keys : FlagChanges(k)
              \/ userWrites' = userWrites /\ \E w \in Workers : updateFeatureFlagStatus(w)
              \/ userWrites' \in {userWrites, userWrites + 1} /\ UNCHANGED <<flags, revision>>
<1>t. ClusterTypeOK /\ revision \in Nat
  BY DEF TypeOK, ClusterTypeOK
<1>1. ASSUME NEW k \in Keys, FlagChanges(k)
      PROVE  userWrites' = userWrites + 1 /\ revision' \in {revision, revision + 1}
  <2>1. userWrites' = userWrites + 1
    BY <1>1 DEF FlagChanges, UserCreatesFlag, UserEditsFlag, UserDeletesFlag, UserWrite
  <2>2. UserDeletesFlag(k) => revision' = revision
    BY DEF UserDeletesFlag
  <2> QED
    BY <1>1, <1>t, <2>1, <2>2, UserStores, StoreTypes
<1>2. ASSUME NEW n \in Names, ConfigMapChanges(n)
      PROVE  userWrites' = userWrites + 1 /\ UNCHANGED <<flags, revision>>
  BY <1>2 DEF ConfigMapChanges, UserCreatesConfigMap, UserEditsConfigMap,
              UserDeletesConfigMap, UserWrite
<1>3. ASSUME NEW n \in Names, GarbageCollector(n)
      PROVE  UNCHANGED <<flags, revision, userWrites>>
  BY <1>3 DEF GarbageCollector, CollectGarbage
<1>4. ASSUME NEW w \in Workers, CreateConfigMap(w)
      PROVE  UNCHANGED <<flags, revision, userWrites>>
  BY <1>4 DEF CreateConfigMap
<1>5. ASSUME NEW w \in Workers, updateFeatureFlagStatus(w)
      PROVE  userWrites' = userWrites /\ revision' \in {revision, revision + 1}
  BY <1>5, <1>t, Puts, StoreTypes
<1> QED
  BY <1>1, <1>2, <1>3, <1>4, <1>5, <1>t, Writes DEF clusterVars

\* What an action stores under k is a copy there was, or fresh.
LEMMA StoredCopies ==
    ASSUME TypeOK, Next, NEW k \in Keys, flags'[k] # None
    PROVE  flags'[k] \in Copies(k) \/ Fresh(k, flags'[k])
<1>t. ClusterTypeOK /\ flags \in [Keys -> FlagObjects \cup {None}]
  BY DEF TypeOK, ClusterTypeOK
<1>1. CASE flags'[k] = flags[k]
  BY <1>1 DEF Copies
<1>s. ASSUME NEW j \in Keys, NEW f \in FlagObjects, StoreFlag(j, f)
      PROVE  flags'[k] = flags[k] \/ Fresh(k, flags'[k])
  <2>1. /\ revision' = revision + 1 /\ revision' \in Nat
        /\ flags' = [flags EXCEPT ![j] = [f EXCEPT !.rv = revision']]
    BY <1>s, <1>t, StoreTypes
  <2>2. [f EXCEPT !.rv = revision'].rv = revision'
    BY DEF FlagObjects
  <2> QED
    BY <1>t, <2>1, <2>2 DEF Fresh
<1>2. ASSUME NEW j \in Keys, FlagChanges(j)
      PROVE  flags'[k] = flags[k] \/ Fresh(k, flags'[k])
  <2>1. UserDeletesFlag(j) => flags'[k] = flags[k]
    BY <1>t DEF UserDeletesFlag
  <2> QED
    BY <1>2, <1>s, <1>t, <2>1, UserStores
<1>3. ASSUME NEW w \in Workers, updateFeatureFlagStatus(w)
      PROVE  flags'[k] = flags[k] \/ Fresh(k, flags'[k])
  BY <1>3, <1>s, Puts
<1> QED
  BY <1>1, <1>2, <1>3, NextWrites

LEMMA NextFlagStep ==
    ASSUME TypeOK, Next
    PROVE  FlagStep
<1> USE DEF FlagStep, flagVars
<1>1. ASSUME NEW k \in Keys, FlagChanges(k) \/ PopFlag(k) \/ HandleFlag(k) \/ BackOff(k)
      PROVE  FlagStep
  BY <1>1 DEF FlagChanges, ControllerUnchanged, PopFlag, HandleFlag, BackOff
<1>2. ASSUME NEW n \in Names, \/ ConfigMapChanges(n) \/ GarbageCollector(n)
                              \/ PopConfigMap(n) \/ HandleConfigMap(n)
      PROVE  FlagStep
  BY <1>2 DEF ConfigMapChanges, GarbageCollector, ControllerUnchanged, PopConfigMap, HandleConfigMap
<1>3. CASE \/ ListFlags \/ ListConfigMaps \/ RelistFlags \/ RelistConfigMaps
           \/ ResyncFlags \/ ResyncConfigMaps \/ Start \/ StartWorkers \/ Crash
  BY <1>3 DEF ListFlags, ListConfigMaps, RelistFlags, RelistConfigMaps, ResyncFlags,
              ResyncConfigMaps, Start, StartWorkers, Crash
<1>4. ASSUME NEW w \in Workers, updateFeatureFlagStatus(w)
      PROVE  FlagStep
  BY <1>4, Puts
<1>5. ASSUME NEW w \in Workers,
             \/ GetItem(w) \/ LookupFlag(w) \/ LookupConfigMap(w) \/ CreateConfigMap(w)
             \/ RequestFails(w) \/ Requeue(w) \/ ForgetItem(w) \/ FinishItem(w)
      PROVE  FlagStep
  BY <1>5 DEF GetItem, LookupFlag, LookupConfigMap, CreateConfigMap, RequestFails, Requeue,
              ForgetItem, FinishItem
<1> QED
  BY <1>1, <1>2, <1>3, <1>4, <1>5 DEF Next, Work

\* What the informer knows of k after a step was a copy, or is what is stored.
LEMMA InformerCopies ==
    ASSUME TypeOK, FlagStep, NEW k \in Keys, NEW x,
           \/ x = flagCache'[k]
           \/ \E i \in 1 .. Len(flagWatch'[k]) : x = flagWatch'[k][i].obj
    PROVE  x \in Copies(k) \cup {flags'[k], None}
<1>1. FlagFacts!Known(k)' \subseteq FlagFacts!Known(k) \cup {flags[k], flags'[k], None}
  BY FlagFactsTypes, FlagFactsStep, FlagFacts!KnownStep DEF TypeOK
<1>2. FlagFacts!Known(k) \cup {flags[k]} \subseteq Copies(k) \cup {None}
  BY DEF FlagFacts!Known, Copies
<1> QED
  BY <1>1, <1>2 DEF FlagFacts!Known

\* The flag a worker holds after a step was a copy of the flag of its key.
LEMMA WorkerCopies ==
    ASSUME TypeOK, Next, NEW k \in Keys, NEW v \in Workers, item'[v] = k, flag'[v] # None
    PROVE  flag'[v] \in Copies(k)
<1>t. /\ item \in [Workers -> Keys \cup {None}] /\ flag \in [Workers -> FlagObjects \cup {None}]
      /\ \A w \in Workers : pc[w] = "get" => flag[w] = None
  BY DEF TypeOK, WorkerTypeOK
<1>1. CASE item'[v] = item[v] /\ flag'[v] = flag[v]
  BY <1>1 DEF Copies
<1>2. ASSUME NEW w \in Workers, LookupFlag(w)
      PROVE  flag'[v] \in Copies(k)
  <2>1. item' = item /\ (flag' = flag \/ flag' = [flag EXCEPT ![w] = flagCache[item[w]]])
    BY <1>2 DEF LookupFlag
  <2>2. item[v] = k /\ (flag'[v] = flag[v] \/ flag'[v] = flagCache[k])
    BY <1>t, <2>1
  <2> QED
    BY <2>2 DEF Copies
<1>3. ASSUME NEW w \in Workers, GetItem(w)
      PROVE  flag'[v] \in Copies(k)
  <2>1. pc[w] = "get" /\ flag' = flag /\ \E j \in Keys : item' = [item EXCEPT ![w] = j]
    BY <1>3 DEF GetItem, At
  <2>2. v # w
    BY <1>t, <2>1
  <2> QED
    BY <1>1, <1>t, <2>1, <2>2
<1>4. ASSUME NEW w \in Workers, FinishItem(w)
      PROVE  flag'[v] \in Copies(k)
  BY <1>1, <1>4, <1>t DEF FinishItem
<1>5. CASE Crash
  BY <1>5 DEF Crash
<1>6. CASE Untouched \/ Enqueues
  BY <1>1, <1>6 DEF Untouched, Enqueues, workerVars
<1>7. ASSUME NEW w \in Workers, Requeue(w) \/ ForgetItem(w)
      PROVE  flag'[v] \in Copies(k)
  BY <1>1, <1>7 DEF Requeue, ForgetItem
<1>8. ASSUME NEW w \in Workers, Syncs(w)
      PROVE  flag'[v] \in Copies(k)
  BY <1>1, <1>2, <1>8 DEF Syncs
<1> QED
  BY <1>2, <1>3, <1>4, <1>5, <1>6, <1>7, <1>8, StepKinds

LEMMA NextCopies ==
    ASSUME TypeOK, Next, NEW k \in Keys, NEW x \in Copies(k)'
    PROVE  x \in Copies(k) \/ Fresh(k, x)
<1>1. x # None
  BY DEF Copies
<1>2. CASE x = flags'[k]
  BY <1>1, <1>2, StoredCopies
<1>3. CASE x = flagCache'[k] \/ \E i \in 1 .. Len(flagWatch'[k]) : x = flagWatch'[k][i].obj
  <2>1. x \in Copies(k) \cup {flags'[k], None}
    BY <1>3, NextFlagStep, InformerCopies
  <2> QED
    BY <1>1, <1>2, <2>1
<1>4. ASSUME NEW w \in Workers, item'[w] = k, x = flag'[w]
      PROVE  x \in Copies(k)
  BY <1>1, <1>4, WorkerCopies
<1> QED
  BY <1>2, <1>3, <1>4 DEF Copies

LEMMA NextVersions ==
    ASSUME TypeOK, VersionsAreUnique, Next
    PROVE  VersionsAreUnique'
<1> SUFFICES ASSUME NEW k \in Keys, NEW x \in Copies(k)', NEW y \in Copies(k)'
             PROVE  x.rv <= revision' /\ (x.rv = y.rv => x = y)
  BY DEF VersionsAreUnique
<1>1. /\ x \in Copies(k) \/ Fresh(k, x)
      /\ y \in Copies(k) \/ Fresh(k, y)
  BY NextCopies
<1>2. revision \in Nat /\ revision' \in {revision, revision + 1}
  BY NextWrites
<1>3. /\ x \in Copies(k) => x.rv \in Nat /\ x.rv <= revision
      /\ y \in Copies(k) => y.rv \in Nat /\ y.rv <= revision
      /\ x \in Copies(k) /\ y \in Copies(k) /\ x.rv = y.rv => x = y
  BY CopyTypes DEF VersionsAreUnique
<1> QED
  BY <1>1, <1>2, <1>3 DEF Fresh

------------------------------------------------------------------------------
(* The informer of ConfigMaps and the store it follows.                      *)

ConfigMapReported(n) ==
    /\ ConfigMapInformer!Emit(n)
    /\ UNCHANGED <<cmCache, cmNotify, cmInitial>>
    /\ \A m \in Names \ {n} : configmaps'[m] = configmaps[m]

\* The informer of ConfigMaps runs no handler, and does not lose its watch when
\* none is lost.
ConfigMapUntold ==
    \/ \E n \in Names : ConfigMapReported(n)
                        /\ (Lossless => ConfigMapInformer!Outlives(configmaps[n], configmaps'[n]))
    \/ /\ UNCHANGED configmaps
       /\ \/ \E n \in Names : ConfigMapInformer!Pop(n)
          \/ (Lossless => ~ConfigMapInformer!Listed) /\ ConfigMapInformer!List
          \/ ConfigMapInformer!Resync
          \/ UNCHANGED cmVars

\* What an action does to the ConfigMaps and their informer.
LEMMA NextConfigMapStep ==
    ASSUME TypeOK, Next
    PROVE  ConfigMapUntold \/ Crash \/ \E n \in Names : HandleConfigMap(n)
<1> USE DEF ConfigMapUntold, ConfigMapReported, cmVars, clusterVars
<1>t. configmaps \in [Names -> Refs \cup {NoRef} \cup {None}]
  BY DEF TypeOK, ClusterTypeOK
<1>1. ASSUME NEW k \in Keys, FlagChanges(k)
      PROVE  ConfigMapUntold
  BY <1>1 DEF FlagChanges, ControllerUnchanged, UserCreatesFlag, UserEditsFlag, UserDeletesFlag
<1>2. ASSUME NEW n \in Names, ConfigMapChanges(n)
      PROVE  ConfigMapUntold
  <2>1. ConfigMapReported(n)
    BY <1>2, <1>t DEF ConfigMapChanges, ControllerUnchanged, UserCreatesConfigMap,
       UserEditsConfigMap, UserDeletesConfigMap
  <2>2. Lossless => ConfigMapInformer!Outlives(configmaps[n], configmaps'[n])
    BY <1>2, <1>t DEF ConfigMapChanges, UserCreatesConfigMap, UserEditsConfigMap,
       UserDeletesConfigMap, Lossless, ConfigMapInformer!Outlives
  <2> QED
    BY <2>1, <2>2
<1>3. ASSUME NEW n \in Names, GarbageCollector(n)
      PROVE  ConfigMapUntold
  BY <1>3, <1>t DEF GarbageCollector, CollectGarbage, ControllerUnchanged, ConfigMapInformer!Outlives
<1>4. CASE Start \/ StartWorkers \/ ListFlags \/ RelistFlags \/ ResyncFlags
  BY <1>4 DEF Start, StartWorkers, ListFlags, RelistFlags, ResyncFlags
<1>5. CASE ListConfigMaps \/ RelistConfigMaps \/ ResyncConfigMaps
  BY <1>5 DEF ListConfigMaps, RelistConfigMaps, ResyncConfigMaps, Fault, Lossless
<1>6. ASSUME NEW k \in Keys, PopFlag(k) \/ HandleFlag(k) \/ BackOff(k)
      PROVE  ConfigMapUntold
  BY <1>6 DEF PopFlag, HandleFlag, BackOff
<1>7. ASSUME NEW n \in Names, PopConfigMap(n)
      PROVE  ConfigMapUntold
  BY <1>7 DEF PopConfigMap
<1>8. ASSUME NEW w \in Workers, CreateConfigMap(w)
      PROVE  ConfigMapUntold
  <2> DEFINE n == flag[w].cm
  <2>1. n \in Names
    BY <1>8 DEF CreateConfigMap, At, TypeOK, WorkerTypeOK
  <2>2. CASE configmaps[n] = None
    <3>1. /\ configmaps' = [configmaps EXCEPT ![n] = RefTo(item[w], flag[w])]
          /\ ConfigMapInformer!Emit(n)
          /\ UNCHANGED <<cmCache, cmNotify, cmInitial>>
      BY <1>8, <2>2 DEF CreateConfigMap
    <3> QED
      BY <1>t, <2>1, <2>2, <3>1 DEF ConfigMapInformer!Outlives
  <2>3. CASE configmaps[n] # None
    BY <1>8, <2>3 DEF CreateConfigMap
  <2> QED
    BY <2>2, <2>3
<1>9. ASSUME NEW w \in Workers,
             \/ GetItem(w) \/ LookupFlag(w) \/ LookupConfigMap(w) \/ updateFeatureFlagStatus(w)
             \/ RequestFails(w) \/ Requeue(w) \/ ForgetItem(w) \/ FinishItem(w)
      PROVE  ConfigMapUntold
  BY <1>9 DEF GetItem, LookupFlag, LookupConfigMap, updateFeatureFlagStatus, RequestFails, Requeue,
              ForgetItem, FinishItem
<1> QED
  BY <1>1, <1>2, <1>3, <1>4, <1>5, <1>6, <1>7, <1>8, <1>9 DEF Next, Work

\* The same in the words of InformerProofs.
LEMMA ConfigMapFactsApply ==
    ASSUME TypeOK
    PROVE  /\ ConfigMapFacts!InformerTypeOK(Refs \cup {NoRef})
           /\ None \notin Refs \cup {NoRef}
           /\ None \notin Names
           /\ ConfigMapInformer!FollowsStore <=> ConfigMapFacts!FollowsStore
           /\ ConfigMapInformer!FollowsStore' <=> ConfigMapFacts!FollowsStore'
           /\ ConfigMapInformer!NoneReplaced <=> ConfigMapFacts!NoneReplaced
           /\ ConfigMapInformer!NoneReplaced' <=> ConfigMapFacts!NoneReplaced'
<1>1. ConfigMapFacts!InformerTypeOK(Refs \cup {NoRef})
  BY DEF TypeOK, ConfigMapInformer!InformerTypeOK, ConfigMapFacts!InformerTypeOK,
         ConfigMapInformer!Changes, ConfigMapFacts!Changes,
         ConfigMapInformer!Notifications, ConfigMapFacts!Notifications,
         ConfigMapInformer!Kinds, ConfigMapFacts!Kinds
<1>2. None \notin Refs \cup {NoRef} /\ None \notin Names
  BY ClusterAssumption
<1>3. /\ ConfigMapInformer!FollowsStore <=> ConfigMapFacts!FollowsStore
      /\ ConfigMapInformer!FollowsStore' <=> ConfigMapFacts!FollowsStore'
  BY DEF ConfigMapInformer!FollowsStore, ConfigMapFacts!FollowsStore,
         ConfigMapInformer!Listed, ConfigMapFacts!Listed
<1>4. /\ ConfigMapInformer!NoneReplaced <=> ConfigMapFacts!NoneReplaced
      /\ ConfigMapInformer!NoneReplaced' <=> ConfigMapFacts!NoneReplaced'
  BY DEF ConfigMapInformer!NoneReplaced, ConfigMapFacts!NoneReplaced,
         ConfigMapInformer!Outlives, ConfigMapFacts!Outlives
<1> QED
  BY <1>1, <1>2, <1>3, <1>4

LEMMA ConfigMapFactsSteps ==
    ASSUME TypeOK, Next
    PROVE  /\ ConfigMapFacts!Runs \/ \E n \in Names : ConfigMapFacts!Reported(n)
           /\ Lossless => ConfigMapFacts!Unbroken
           /\ Lossless /\ ConfigMapUntold => ConfigMapFacts!Untold
<1> USE DEF cmVars, clusterVars
<1>1. ASSUME NEW n \in Names
      PROVE  /\ ConfigMapReported(n) <=> ConfigMapFacts!Reported(n)
             /\ ConfigMapInformer!Pop(n) <=> ConfigMapFacts!Pop(n)
             /\ ConfigMapInformer!Notified(n) <=> ConfigMapFacts!Notified(n)
  BY DEF ConfigMapReported, ConfigMapFacts!Reported, ConfigMapInformer!Emit, ConfigMapFacts!Emit,
         ConfigMapInformer!Pop, ConfigMapFacts!Pop, ConfigMapInformer!Told, ConfigMapFacts!Told,
         ConfigMapInformer!Notified, ConfigMapFacts!Notified,
         ConfigMapInformer!Change, ConfigMapFacts!Change,
         ConfigMapInformer!Notification, ConfigMapFacts!Notification,
         ConfigMapInformer!Listed, ConfigMapFacts!Listed
<1>2. /\ ConfigMapInformer!List <=> ConfigMapFacts!List
      /\ ConfigMapInformer!Resync <=> ConfigMapFacts!Resync
      /\ ConfigMapInformer!Restart <=> ConfigMapFacts!Restart
      /\ ConfigMapInformer!Listed <=> ConfigMapFacts!Listed
  BY DEF ConfigMapInformer!List, ConfigMapFacts!List, ConfigMapInformer!Resync, ConfigMapFacts!Resync,
         ConfigMapInformer!Restart, ConfigMapFacts!Restart,
         ConfigMapInformer!Change, ConfigMapFacts!Change,
         ConfigMapInformer!Notification, ConfigMapFacts!Notification,
         ConfigMapInformer!Listed, ConfigMapFacts!Listed,
         ConfigMapInformer!HasSynced, ConfigMapFacts!HasSynced,
         ConfigMapInformer!EmptyStreams, ConfigMapFacts!EmptyStreams,
         ConfigMapInformer!Caught, ConfigMapFacts!Caught
<1>3. \A old, new : ConfigMapInformer!Outlives(old, new) <=> ConfigMapFacts!Outlives(old, new)
  BY DEF ConfigMapInformer!Outlives, ConfigMapFacts!Outlives
<1>4. ASSUME ConfigMapUntold
      PROVE  /\ ConfigMapFacts!Runs \/ \E n \in Names : ConfigMapFacts!Reported(n)
             /\ Lossless => ConfigMapFacts!Untold
  <2>1. ASSUME NEW n \in Names, ConfigMapReported(n),
               Lossless => ConfigMapInformer!Outlives(configmaps[n], configmaps'[n])
        PROVE  /\ \E m \in Names : ConfigMapFacts!Reported(m)
               /\ Lossless => ConfigMapFacts!Untold
    BY <1>1, <2>1 DEF ConfigMapFacts!Untold, ConfigMapInformer!Outlives, ConfigMapFacts!Outlives
  <2>2. CASE /\ UNCHANGED configmaps
             /\ \/ \E n \in Names : ConfigMapInformer!Pop(n)
                \/ (Lossless => ~ConfigMapInformer!Listed) /\ ConfigMapInformer!List
                \/ ConfigMapInformer!Resync
                \/ UNCHANGED cmVars
    BY <1>1, <1>2, <2>2 DEF ConfigMapFacts!Runs, ConfigMapFacts!Untold
  <2> QED
    BY <1>4, <2>1, <2>2 DEF ConfigMapUntold
<1>5. ASSUME Crash
      PROVE  ConfigMapFacts!Runs /\ ConfigMapFacts!Unbroken
  BY <1>2, <1>5 DEF Crash, ConfigMapFacts!Runs, ConfigMapFacts!Unbroken
<1>6. ASSUME NEW n \in Names, HandleConfigMap(n)
      PROVE  ConfigMapFacts!Runs /\ ConfigMapFacts!Unbroken
  BY <1>1, <1>6 DEF HandleConfigMap, ConfigMapFacts!Runs, ConfigMapFacts!Unbroken
<1> QED
  BY <1>4, <1>5, <1>6, NextConfigMapStep DEF ConfigMapFacts!Unbroken

LEMMA NextConfigMapInformer ==
    ASSUME TypeOK, Next, ConfigMapInformer!FollowsStore
    PROVE  /\ ConfigMapInformer!FollowsStore'
           /\ Lossless /\ ConfigMapInformer!NoneReplaced => ConfigMapInformer!NoneReplaced'
<1>1. ConfigMapFacts!FollowsStore'
  BY ConfigMapFactsApply, ConfigMapFactsSteps, ConfigMapFacts!FollowsStoreStep
<1>2. ASSUME Lossless, ConfigMapInformer!NoneReplaced
      PROVE  ConfigMapFacts!NoneReplaced'
  BY <1>2, ConfigMapFactsApply, ConfigMapFactsSteps, ConfigMapFacts!NoneReplacedStep
<1> QED
  BY <1>1, <1>2, ConfigMapFactsApply
------------------------------------------------------------------------------
(* UIDs: only a user's request makes a new one.                              *)

\* What a user's request changes.
LEMMA FlagChangesOne ==
    ASSUME TypeOK, NEW k \in Keys, FlagChanges(k)
    PROVE  /\ userWrites' = userWrites + 1
           /\ \A j \in Keys \ {k} : flags'[j] = flags[j]
           /\ flags'[k] # None => \/ flags'[k].uid = revision + 1 /\ revision' = revision + 1
                                  \/ flags[k] # None /\ flags'[k].uid = flags[k].uid
           /\ UNCHANGED configmaps
<1>t. ClusterTypeOK /\ flags \in [Keys -> FlagObjects \cup {None}]
  BY DEF TypeOK, ClusterTypeOK
<1>1. userWrites' = userWrites + 1 /\ UNCHANGED configmaps
  BY DEF FlagChanges, UserCreatesFlag, UserEditsFlag, UserDeletesFlag, UserWrite
<1>2. CASE UserDeletesFlag(k)
  BY <1>t, <1>1, <1>2 DEF UserDeletesFlag
<1>3. CASE ~UserDeletesFlag(k)
  <2>1. PICK f \in FlagObjects :
           /\ StoreFlag(k, f)
           /\ f.uid = IF flags[k] = None THEN revision + 1 ELSE flags[k].uid
    BY <1>3, <1>t, UserStores
  <2>2. /\ revision' = revision + 1
        /\ flags' = [flags EXCEPT ![k] = [f EXCEPT !.rv = revision']]
    BY <2>1, <1>t, StoreTypes
  <2>3. [f EXCEPT !.rv = revision'].uid = f.uid
    BY DEF FlagObjects
  <2> QED
    BY <1>t, <1>1, <2>1, <2>2, <2>3
<1> QED
  BY <1>2, <1>3

\* The UID of a copy is one of the key before the step, or a new one.
LEMMA UidOrigin ==
    ASSUME TypeOK, Next, NEW k \in Keys, NEW x \in Copies(k)'
    PROVE  \/ \E z \in Copies(k) : x.uid = z.uid
           \/ FlagChanges(k) /\ flags'[k] # flags[k] /\ x.uid = revision + 1 /\ x.uid = revision'
<1>t. ClusterTypeOK /\ flags \in [Keys -> FlagObjects \cup {None}] /\ revision \in Nat
  BY DEF TypeOK, ClusterTypeOK
<1>0. x # None
  BY DEF Copies
<1>1. SUFFICES ASSUME Fresh(k, x), x \notin Copies(k)
               PROVE  \/ \E z \in Copies(k) : x.uid = z.uid
                      \/ FlagChanges(k) /\ x.uid = revision + 1 /\ x.uid = revision'
  BY <1>0, NextCopies DEF Fresh, Copies
<1>2. x = flags'[k] /\ flags'[k] # flags[k] /\ revision' = revision + 1
  BY <1>0, <1>1 DEF Fresh, Copies
<1>3. ASSUME NEW j \in Keys, FlagChanges(j)
      PROVE  \/ \E z \in Copies(k) : x.uid = z.uid
             \/ FlagChanges(k) /\ x.uid = revision + 1 /\ x.uid = revision'
  BY <1>0, <1>2, <1>3, FlagChangesOne DEF Copies
<1>4. ASSUME NEW w \in Workers, updateFeatureFlagStatus(w)
      PROVE  \E z \in Copies(k) : x.uid = z.uid
  <2> DEFINE f == [flag[w] EXCEPT !.raw = FALSE]
  <2>1. item[w] \in Keys /\ flag[w] \in FlagObjects /\ f \in FlagObjects /\ StoreFlag(item[w], f)
    BY <1>2, <1>4, Puts
  <2>2. flags' = [flags EXCEPT ![item[w]] = [f EXCEPT !.rv = revision']]
    BY <1>t, <2>1, StoreTypes
  <2>3. item[w] = k /\ x = [f EXCEPT !.rv = revision']
    BY <1>t, <1>2, <2>2
  <2>4. x.uid = flag[w].uid
    BY <2>1, <2>3 DEF FlagObjects
  <2>5. flag[w] # None
    BY <2>1, ClusterAssumption
  <2> QED
    BY <2>3, <2>4, <2>5 DEF Copies
<1> QED
  BY <1>t, <1>2, <1>3, <1>4, NextWrites

\* An owner reference after a step was there before, is a user's and of another
\* kind, or is the one CreateConfigMap has just stored.
LEMMA RefOrigin ==
    ASSUME TypeOK, Next, NEW n \in Names, NEW ref \in OwnerRefs(n)'
    PROVE  \/ ref \in OwnerRefs(n)
           \/ ref.uid = 0
           \/ \E w \in Workers : CreateConfigMap(w) /\ ref = RefTo(item[w], flag[w])
<1>t. configmaps \in [Names -> Refs \cup {NoRef} \cup {None}]
  BY DEF TypeOK, ClusterTypeOK
<1>1. ref \notin {None, NoRef}
  BY DEF OwnerRefs
<1>2. ConfigMapFacts!Step
  BY ConfigMapFactsSteps DEF ConfigMapFacts!Runs, ConfigMapFacts!Reported, ConfigMapFacts!Step
<1>3. ref \in ConfigMapFacts!Known(n) \cup {configmaps[n], configmaps'[n]}
  <2>1. ConfigMapFacts!Known(n)' \subseteq ConfigMapFacts!Known(n) \cup {configmaps[n], configmaps'[n], None}
    BY <1>2, ConfigMapFactsApply, ConfigMapFacts!KnownStep
  <2> QED
    BY <1>1, <2>1 DEF OwnerRefs, ConfigMapFacts!Known
<1>4. ref \in OwnerRefs(n) \/ ref = configmaps'[n]
  BY <1>1, <1>3 DEF OwnerRefs, ConfigMapFacts!Known
<1>5. ASSUME ref = configmaps'[n], configmaps'[n] # configmaps[n]
      PROVE  ref.uid = 0 \/ \E w \in Workers : CreateConfigMap(w) /\ ref = RefTo(item[w], flag[w])
  <2>1. ASSUME NEW k \in Keys, FlagChanges(k)
        PROVE  FALSE
    BY <1>5, <2>1, FlagChangesOne
  <2>2. ASSUME NEW m \in Names, ConfigMapChanges(m)
        PROVE  ref.uid = 0
    <3>1. configmaps'[n] \in ForeignRefs \cup {NoRef, None}
      BY <1>5, <1>t, <2>2 DEF ConfigMapChanges, UserCreatesConfigMap, UserEditsConfigMap,
         UserDeletesConfigMap
    <3> QED
      BY <1>1, <1>5, <3>1 DEF ForeignRefs
  <2>3. ASSUME NEW m \in Names, GarbageCollector(m)
        PROVE  FALSE
    BY <1>1, <1>5, <1>t, <2>3 DEF GarbageCollector, CollectGarbage
  <2>4. ASSUME NEW w \in Workers, CreateConfigMap(w)
        PROVE  ref = RefTo(item[w], flag[w])
    BY <1>5, <1>t, <2>4 DEF CreateConfigMap
  <2>5. ASSUME NEW w \in Workers, updateFeatureFlagStatus(w)
        PROVE  FALSE
    BY <1>5, <2>5 DEF updateFeatureFlagStatus
  <2>6. CASE UNCHANGED clusterVars
    BY <1>5, <2>6 DEF clusterVars
  <2> QED
    BY <2>1, <2>2, <2>3, <2>4, <2>5, <2>6, Writes
<1> QED
  BY <1>1, <1>4, <1>5 DEF OwnerRefs

LEMMA RefTypes ==
    ASSUME TypeOK, NEW n \in Names, NEW ref \in OwnerRefs(n)
    PROVE  ref \in Refs /\ ref.uid \in Nat
<1> DEFINE Events == ConfigMapInformer!Changes(Refs \cup {NoRef} \cup {None})
<1>1. /\ configmaps[n] \in Refs \cup {NoRef} \cup {None}
      /\ cmCache[n] \in Refs \cup {NoRef} \cup {None}
      /\ cmWatch[n] \in Seq(Events)
  BY DEF TypeOK, ClusterTypeOK, ConfigMapInformer!InformerTypeOK
<1>2. ASSUME NEW i \in 1 .. Len(cmWatch[n])
      PROVE  cmWatch[n][i].obj \in Refs \cup {NoRef} \cup {None}
  <2>1. cmWatch[n][i] \in Events
    BY <1>1
  <2> QED
    BY <2>1 DEF ConfigMapInformer!Changes
<1>3. ref \in Refs
  BY <1>1, <1>2 DEF OwnerRefs
<1> QED
  BY <1>3 DEF Refs

\* The flag a worker creates a ConfigMap for.
LEMMA CreatedFor ==
    ASSUME TypeOK, NEW w \in Workers, CreateConfigMap(w)
    PROVE  /\ item[w] \in Keys
           /\ flag[w] \in Copies(item[w])
           /\ flag[w].cm \in Names
           /\ RefTo(item[w], flag[w]).uid = flag[w].uid
           /\ RefTo(item[w], flag[w]) \in RefsTo(item[w])
           /\ UNCHANGED <<flags, revision, userWrites>>
<1>1. item[w] \in Keys /\ flag[w] # None /\ flag[w] \in FlagObjects /\ flag[w].cm \in Names
  BY DEF CreateConfigMap, At, TypeOK, WorkerTypeOK
<1>2. flag[w].uid \in Nat
  BY <1>1 DEF FlagObjects
<1> QED
  BY <1>1, <1>2 DEF Copies, RefsTo, RefTo, CreateConfigMap

LEMMA NextUids ==
    ASSUME TypeOK, Next, UidsAreUnique, RefsAreOld
    PROVE  UidsAreUnique' /\ RefsAreOld'
<1>w. revision \in Nat /\ revision' \in {revision, revision + 1}
  BY NextWrites
<1>k. \A k \in Keys : \A x \in Copies(k) :
         /\ x.uid \in 1 .. revision
         /\ \A j \in Keys : \A y \in Copies(j) : x.uid = y.uid => j = k
         /\ \A n \in Names : \A ref \in OwnerRefs(n) : ref.uid = x.uid => ref \in RefsTo(k)
  BY DEF UidsAreUnique
<1>r. \A n \in Names : \A ref \in OwnerRefs(n) : ref.uid \in Nat /\ ref.uid <= revision
  BY RefTypes DEF RefsAreOld
<1>1. ASSUME NEW k \in Keys, NEW x \in Copies(k)'
      PROVE  x.uid \in 1 .. revision'
  <2>1. CASE \E z \in Copies(k) : x.uid = z.uid
    BY <1>w, <1>k, <2>1
  <2>2. CASE FlagChanges(k) /\ x.uid = revision + 1 /\ x.uid = revision'
    BY <1>w, <2>2
  <2> QED
    BY <2>1, <2>2, UidOrigin
<1>2. ASSUME NEW k \in Keys, NEW x \in Copies(k)', NEW j \in Keys, NEW y \in Copies(j)',
             x.uid = y.uid, j # k
      PROVE  FALSE
  <2>1. \/ \E z \in Copies(k) : x.uid = z.uid
        \/ FlagChanges(k) /\ flags'[k] # flags[k] /\ x.uid = revision + 1
    BY UidOrigin
  <2>2. \/ \E z \in Copies(j) : y.uid = z.uid
        \/ FlagChanges(j) /\ y.uid = revision + 1
    BY UidOrigin
  <2>3. ASSUME FlagChanges(j), flags'[k] # flags[k]
        PROVE  FALSE
    BY <1>2, <2>3, FlagChangesOne
  <2>4. ASSUME NEW z \in Copies(k) \cup Copies(j)
        PROVE  z.uid # revision + 1
    <3>1. z.uid \in 1 .. revision
      BY <1>k
    <3> QED
      BY <1>w, <3>1
  <2> QED
    BY <1>2, <1>k, <2>1, <2>2, <2>3, <2>4
<1>3. ASSUME NEW k \in Keys, NEW x \in Copies(k)', NEW n \in Names, NEW ref \in OwnerRefs(n)',
             ref.uid = x.uid
      PROVE  ref \in RefsTo(k)
  <2>1. CASE ref \in OwnerRefs(n)
    <3>1. x.uid # revision + 1
      BY <1>3, <1>w, <1>r, <2>1
    <3>2. PICK z \in Copies(k) : x.uid = z.uid
      BY <3>1, UidOrigin
    <3> QED
      BY <1>3, <1>k, <2>1, <3>2
  <2>2. CASE ref.uid = 0
    <3>1. x.uid \in 1 .. revision'
      BY <1>1
    <3> QED
      BY <1>3, <1>w, <2>2, <3>1
  <2>3. ASSUME NEW w \in Workers, CreateConfigMap(w), ref = RefTo(item[w], flag[w])
        PROVE  ref \in RefsTo(k)
    <3>1. /\ item[w] \in Keys /\ flag[w] \in Copies(item[w]) /\ ref.uid = flag[w].uid
          /\ ref \in RefsTo(item[w])
          /\ revision' = revision
      BY <2>3, CreatedFor
    <3>2. PICK z \in Copies(k) : x.uid = z.uid
      BY <1>w, <3>1, UidOrigin
    <3>3. item[w] = k
      BY <1>3, <1>k, <3>1, <3>2
    <3> QED
      BY <3>1, <3>3
  <2> QED
    BY <2>1, <2>2, <2>3, RefOrigin
<1>4. ASSUME NEW n \in Names, NEW ref \in OwnerRefs(n)'
      PROVE  ref.uid <= revision'
  <2>1. CASE ref \in OwnerRefs(n)
    BY <1>w, <1>r, <2>1
  <2>2. CASE ref.uid = 0
    BY <1>w, <2>2
  <2>3. ASSUME NEW w \in Workers, CreateConfigMap(w), ref = RefTo(item[w], flag[w])
        PROVE  ref.uid <= revision'
    <3>1. item[w] \in Keys /\ flag[w] \in Copies(item[w]) /\ ref.uid = flag[w].uid
      BY <2>3, CreatedFor
    <3>2. flag[w].uid \in 1 .. revision
      BY <1>k, <3>1
    <3> QED
      BY <1>w, <3>1, <3>2
  <2> QED
    BY <2>1, <2>2, <2>3, RefOrigin
<1>5. UidsAreUnique'
  BY <1>1, <1>2, <1>3 DEF UidsAreUnique
<1> QED
  BY <1>4, <1>5 DEF RefsAreOld

------------------------------------------------------------------------------
(* Workers and informers.                                                    *)

\* What an action does to a worker it is not a step of.
LEMMA OwnSteps ==
    ASSUME TypeOK, Next, NEW w \in Workers
    PROVE  \/ pc'[w] = pc[w] /\ item'[w] = item[w] /\ flag'[w] = flag[w]
           \/ Work(w) \/ RequestFails(w)
           \/ Crash
<1>t. /\ pc \in [Workers -> {"get", "flag", "configmap", "create", "update",
                             "requeue", "forget", "done"}]
      /\ item \in [Workers -> Keys \cup {None}]
      /\ flag \in [Workers -> FlagObjects \cup {None}]
  BY DEF TypeOK, WorkerTypeOK
<1>1. CASE Untouched \/ Enqueues
  BY <1>1 DEF Untouched, Enqueues, workerVars
<1>2. ASSUME NEW v \in Workers, Syncs(v), v # w
      PROVE  pc'[w] = pc[w] /\ item'[w] = item[w] /\ flag'[w] = flag[w]
  BY <1>2, <1>t DEF Syncs, LookupFlag
<1>3. ASSUME NEW v \in Workers, v # w,
             GetItem(v) \/ Requeue(v) \/ ForgetItem(v) \/ FinishItem(v)
      PROVE  pc'[w] = pc[w] /\ item'[w] = item[w] /\ flag'[w] = flag[w]
  BY <1>3, <1>t DEF GetItem, Requeue, ForgetItem, FinishItem, Goto
<1>4. CASE GetItem(w) \/ Requeue(w) \/ ForgetItem(w) \/ FinishItem(w)
  BY <1>4 DEF Work
<1>5. CASE Syncs(w)
  <2>1. ASSUME NEW v \in Workers, Work(v) \/ RequestFails(v), v # w
        PROVE  pc'[w] = pc[w] /\ item'[w] = item[w] /\ flag'[w] = flag[w]
    BY <2>1, <1>t DEF Work, RequestFails, GetItem, LookupFlag, LookupConfigMap, CreateConfigMap,
       updateFeatureFlagStatus, Requeue, ForgetItem, FinishItem, Goto
  <2>2. ASSUME NEW k \in Keys, FlagChanges(k) \/ PopFlag(k) \/ HandleFlag(k) \/ BackOff(k)
        PROVE  UNCHANGED workerVars
    BY <2>2 DEF FlagChanges, ControllerUnchanged, PopFlag, HandleFlag, BackOff
  <2>3. ASSUME NEW n \in Names, \/ ConfigMapChanges(n) \/ GarbageCollector(n)
                                \/ PopConfigMap(n) \/ HandleConfigMap(n)
        PROVE  UNCHANGED workerVars
    BY <2>3 DEF ConfigMapChanges, GarbageCollector, ControllerUnchanged, PopConfigMap, HandleConfigMap
  <2>4. CASE \/ ListFlags \/ ListConfigMaps \/ RelistFlags \/ RelistConfigMaps
             \/ ResyncFlags \/ ResyncConfigMaps \/ Start \/ StartWorkers
    BY <2>4 DEF ListFlags, ListConfigMaps, RelistFlags, RelistConfigMaps, ResyncFlags,
       ResyncConfigMaps, Start, StartWorkers, workerVars
  <2> QED
    BY <2>1, <2>2, <2>3, <2>4 DEF Next, workerVars
<1> QED
  BY <1>1, <1>2, <1>3, <1>4, <1>5, StepKinds

LEMMA NextSynced ==
    ASSUME TypeOK, Next, WorkersAreSynced
    PROVE  WorkersAreSynced'
<1>t. pc \in [Workers -> {"get", "flag", "configmap", "create", "update",
                          "requeue", "forget", "done"}]
  BY DEF TypeOK, WorkerTypeOK
<1> USE DEF WorkersAreSynced, FlagInformer!HasSynced, ConfigMapInformer!HasSynced
<1>1. CASE Crash
  BY <1>1 DEF Crash
<1>2. CASE Start \/ StartWorkers
  <2>1. UNCHANGED workerVars
    BY <1>2 DEF Start, StartWorkers, workerVars
  <2> QED
    BY <1>2, <2>1 DEF Start, StartWorkers, workerVars, flagVars, cmVars,
       FlagInformer!HasSynced, ConfigMapInformer!HasSynced
<1>3. ASSUME flagInitial' \subseteq flagInitial \/ phase # "running",
             cmInitial' \subseteq cmInitial \/ phase # "running",
             phase' = phase,
             \A w \in Workers : pc'[w] = pc[w] \/ phase = "running"
      PROVE  WorkersAreSynced'
  BY <1>3
<1>4. ASSUME NEW k \in Keys, FlagChanges(k) \/ PopFlag(k) \/ HandleFlag(k) \/ BackOff(k)
      PROVE  WorkersAreSynced'
  BY <1>3, <1>4 DEF FlagChanges, ControllerUnchanged, PopFlag, HandleFlag, BackOff, FlagInformer!Pop,
     FlagInformer!Notified, flagVars, cmVars, workerVars
<1>5. ASSUME NEW n \in Names, \/ ConfigMapChanges(n) \/ GarbageCollector(n)
                              \/ PopConfigMap(n) \/ HandleConfigMap(n)
      PROVE  WorkersAreSynced'
  BY <1>3, <1>5 DEF ConfigMapChanges, GarbageCollector, ControllerUnchanged, PopConfigMap,
     HandleConfigMap, ConfigMapInformer!Pop, ConfigMapInformer!Notified, flagVars, cmVars, workerVars
<1>6. CASE ListFlags \/ RelistFlags \/ ResyncFlags
  <2>1. flagInitial' \subseteq flagInitial \/ ~FlagInformer!Listed
    BY <1>6 DEF ListFlags, RelistFlags, ResyncFlags, FlagInformer!List, FlagInformer!Resync
  <2>2. FlagInformer!Listed \/ phase # "running"
    BY DEF FlagInformer!Listed
  <2> QED
    BY <1>3, <1>6, <2>1, <2>2 DEF ListFlags, RelistFlags, ResyncFlags, cmVars, workerVars
<1>7. CASE ListConfigMaps \/ RelistConfigMaps \/ ResyncConfigMaps
  <2>1. cmInitial' \subseteq cmInitial \/ ~ConfigMapInformer!Listed
    BY <1>7 DEF ListConfigMaps, RelistConfigMaps, ResyncConfigMaps, ConfigMapInformer!List,
       ConfigMapInformer!Resync
  <2>2. ConfigMapInformer!Listed \/ phase # "running"
    BY DEF ConfigMapInformer!Listed
  <2> QED
    BY <1>3, <1>7, <2>1, <2>2 DEF ListConfigMaps, RelistConfigMaps, ResyncConfigMaps, flagVars,
       workerVars
<1>8. ASSUME NEW w \in Workers, Work(w) \/ RequestFails(w)
      PROVE  WorkersAreSynced'
  <2>1. phase = "running" /\ phase' = phase
    BY <1>8 DEF Work, RequestFails, GetItem, LookupFlag, LookupConfigMap, CreateConfigMap,
       updateFeatureFlagStatus, Requeue, ForgetItem, FinishItem, At
  <2>2. flagInitial' = flagInitial /\ cmInitial' = cmInitial
    BY <1>8 DEF Work, RequestFails, GetItem, LookupFlag, LookupConfigMap, CreateConfigMap,
       updateFeatureFlagStatus, Requeue, ForgetItem, FinishItem, flagVars, cmVars
  <2> QED
    BY <1>3, <2>1, <2>2
<1> QED
  BY <1>1, <1>2, <1>4, <1>5, <1>6, <1>7, <1>8 DEF Next

LEMMA NextDeletes ==
    ASSUME TypeOK, Next, FlagInformer!DeletesAreOfTheGone
    PROVE  FlagInformer!DeletesAreOfTheGone'
<1>1. FlagFacts!InformerTypeOK(FlagObjects) /\ FlagFacts!DeletesAreOfTheGone
  BY FlagFactsTypes DEF TypeOK, FlagInformer!DeletesAreOfTheGone, FlagFacts!DeletesAreOfTheGone
<1>2. FlagFacts!Step
  BY NextFlagStep, FlagFactsStep
<1>3. FlagFacts!DeletesAreOfTheGone'
  BY <1>1, <1>2, FlagFactsTypes, FlagFacts!DeletesAreOfTheGoneStep
<1> QED
  BY <1>3 DEF FlagInformer!DeletesAreOfTheGone, FlagFacts!DeletesAreOfTheGone

------------------------------------------------------------------------------
(* Flags that will be looked at again.                                       *)

\* The keys of the work queue, after any action, for a key no worker takes.
LEMMA QueueKeeps ==
    ASSUME TypeOK, Next, NEW k \in Keys, k \in dirty \cup waiting
    PROVE  \/ k \in dirty' \cup waiting'
           \/ \E w \in Workers : GetItem(w) /\ item'[w] = k /\ pc'[w] = "flag"
           \/ Crash
<1>t. item \in [Workers -> Keys \cup {None}] /\ item \in [Workers -> Keys \cup {None}]
      /\ pc \in [Workers -> {"get", "flag", "configmap", "create", "update",
                             "requeue", "forget", "done"}]
  BY DEF TypeOK, WorkerTypeOK
<1>1. CASE Untouched \/ Enqueues
  BY <1>1 DEF Untouched, Enqueues, queueVars, Add, Elapse, Enqueue
<1>2. ASSUME NEW w \in Workers, Syncs(w) \/ Requeue(w) \/ ForgetItem(w) \/ FinishItem(w)
      PROVE  k \in dirty' \cup waiting'
  BY <1>2 DEF Syncs, queueVars, Requeue, ForgetItem, FinishItem, AddRateLimited, Forget, Done
<1>3. ASSUME NEW w \in Workers, GetItem(w)
      PROVE  k \in dirty' \cup waiting' \/ (item'[w] = k /\ pc'[w] = "flag")
  BY <1>3, <1>t DEF GetItem, Get, Goto
<1> QED
  BY <1>1, <1>2, <1>3, StepKinds

\* What an action does to the notifications of a flag.
LEMMA FlagNotices ==
    ASSUME TypeOK, Next, FlagInformer!DeletesAreOfTheGone, NEW k \in Keys, flagNotify[k] # <<>>
    PROVE  \/ flagNotify'[k] # <<>> \/ flagCache[k] = None
           \/ k \in dirty'
           \/ Crash
<1> DEFINE Notices == FlagInformer!Notifications(FlagObjects)
<1>t. flagNotify \in [Keys -> Seq(Notices)] /\ flagNotify[k] \in Seq(Notices)
  BY DEF TypeOK, FlagInformer!InformerTypeOK
<1>g. \/ \E j \in Keys : PopFlag(j) \/ HandleFlag(j)
      \/ ResyncFlags
      \/ flagNotify' = flagNotify
      \/ Crash
  <2>1. ASSUME NEW j \in Keys, FlagChanges(j) \/ BackOff(j)
        PROVE  flagNotify' = flagNotify
    BY <2>1 DEF FlagChanges, ControllerUnchanged, BackOff, flagVars
  <2>2. ASSUME NEW n \in Names, \/ ConfigMapChanges(n) \/ GarbageCollector(n)
                                \/ PopConfigMap(n) \/ HandleConfigMap(n)
        PROVE  flagNotify' = flagNotify
    BY <2>2 DEF ConfigMapChanges, GarbageCollector, ControllerUnchanged, PopConfigMap,
       HandleConfigMap, flagVars
  <2>3. CASE \/ ListFlags \/ ListConfigMaps \/ RelistFlags \/ RelistConfigMaps
             \/ ResyncConfigMaps \/ Start \/ StartWorkers
    BY <2>3 DEF ListFlags, ListConfigMaps, RelistFlags, RelistConfigMaps, FlagInformer!List,
       ResyncConfigMaps, Start, StartWorkers, flagVars
  <2>4. ASSUME NEW w \in Workers, Work(w) \/ RequestFails(w)
        PROVE  flagNotify' = flagNotify
    BY <2>4 DEF Work, RequestFails, GetItem, LookupFlag, LookupConfigMap, CreateConfigMap,
       updateFeatureFlagStatus, Requeue, ForgetItem, FinishItem, flagVars
  <2> QED
    BY <2>1, <2>2, <2>3, <2>4 DEF Next
<1> HIDE DEF Notices
<1>1. ASSUME NEW j \in Keys, PopFlag(j)
      PROVE  flagNotify'[k] # <<>>
  <2> DEFINE told == FlagInformer!Told(k, Head(flagWatch[k]))
  <2>1. flagNotify'[k] = flagNotify[k] \/ flagNotify'[k] = flagNotify[k] \o told
    BY <1>1, <1>t DEF PopFlag, FlagInformer!Pop
  <2>2. told = <<>> \/ \E e : told = <<e>>
    BY DEF FlagInformer!Told
  <2> HIDE DEF told
  <2>3. flagNotify[k] \o <<>> = flagNotify[k] /\ \A e : flagNotify[k] \o <<e>> # <<>>
    BY <1>t
  <2> QED
    BY <2>1, <2>2, <2>3
<1>2. ASSUME NEW j \in Keys, HandleFlag(j), j # k
      PROVE  flagNotify'[k] # <<>>
  BY <1>2, <1>t DEF HandleFlag, FlagInformer!Notified
<1>3. CASE HandleFlag(k)
  <2>1. flagNotify'[k] = Tail(flagNotify[k])
    BY <1>3, <1>t DEF HandleFlag, FlagInformer!Notified
  <2>2. CASE Head(flagNotify[k]).kind # "delete"
    BY <1>3, <2>2 DEF HandleFlag, enqueueFeatureFlag, Add, Enqueue
  <2>3. CASE Head(flagNotify[k]).kind = "delete"
    <3>1. Tail(flagNotify[k]) = <<>> => Len(flagNotify[k]) = 1
      <4>1. Len(flagNotify[k]) \in Nat \ {0} /\ Len(Tail(flagNotify[k])) = Len(flagNotify[k]) - 1
        BY <1>t
      <4>2. \A n \in Nat \ {0} : n - 1 = 0 => n = 1
        OBVIOUS
      <4>3. Len(<<>>) = 0
        OBVIOUS
      <4> QED
        BY <4>1, <4>2, <4>3
    <3>2. Tail(flagNotify[k]) = <<>> => flagCache[k] = None
      BY <1>t, <2>3, <3>1 DEF FlagInformer!DeletesAreOfTheGone
    <3> QED
      BY <2>1, <3>2
  <2> QED
    BY <2>2, <2>3
<1>4. CASE ResyncFlags
  BY <1>4 DEF ResyncFlags, FlagInformer!Resync, FlagInformer!EmptyStreams
<1> QED
  BY <1>g, <1>1, <1>2, <1>3, <1>4

\* The cached version of a flag changes only with a notification.
LEMMA FlagCacheChanges ==
    ASSUME TypeOK, Next, NEW k \in Keys
    PROVE  flagCache'[k] \in {flagCache[k], None} \/ flagNotify'[k] # <<>>
<1> DEFINE Object  == FlagObjects \cup {None}
           Events  == FlagInformer!Changes(Object)
           Notices == FlagInformer!Notifications(FlagObjects)
<1>t. /\ flagCache \in [Keys -> Object]
      /\ flagWatch \in [Keys -> Seq(Events)]
      /\ flagNotify \in [Keys -> Seq(Notices)]
  BY DEF TypeOK, FlagInformer!InformerTypeOK
<1> HIDE DEF Object, Events, Notices
<1>1. ASSUME NEW j \in Keys, FlagInformer!Pop(j)
      PROVE  flagCache'[k] \in {flagCache[k], None} \/ flagNotify'[k] # <<>>
  <2>1. CASE j # k
    BY <1>1, <1>t, <2>1 DEF FlagInformer!Pop
  <2>2. CASE j = k
    <3> DEFINE c == Head(flagWatch[k])
    <3>1. /\ flagCache'[k] = c.obj
          /\ flagNotify'[k] = flagNotify[k] \o FlagInformer!Told(k, c)
      BY <1>1, <1>t, <2>2 DEF FlagInformer!Pop
    <3>2. c.obj = None \/ \E e : FlagInformer!Told(k, c) = <<e>>
      BY DEF FlagInformer!Told
    <3> HIDE DEF c
    <3>3. ASSUME NEW e, FlagInformer!Told(k, c) = <<e>>
          PROVE  flagNotify'[k] # <<>>
      <4>1. flagNotify[k] \in Seq(Notices)
        BY <1>t
      <4>2. flagNotify[k] \o <<e>> # <<>>
        BY <4>1
      <4> QED
        BY <3>1, <3>3, <4>2
    <3> QED
      BY <3>1, <3>2, <3>3
  <2> QED
    BY <2>1, <2>2
<1>2. CASE FlagInformer!Restart
  BY <1>2 DEF FlagInformer!Restart
<1>3. CASE ~(FlagInformer!Restart \/ \E j \in Keys : FlagInformer!Pop(j))
  BY <1>3, NextFlagStep DEF FlagStep, FlagInformer!Notified, FlagInformer!List, FlagInformer!Resync
<1> QED
  BY <1>1, <1>2, <1>3

\* A flag stays pending until a worker takes its key, or it vanishes.
LEMMA PendingStays ==
    ASSUME TypeOK, Next, FlagInformer!DeletesAreOfTheGone, NEW k \in Keys, Pending(k),
           flagCache'[k] # None
    PROVE  \/ Pending(k)'
           \/ \E w \in Workers : GetItem(w) /\ item'[w] = k /\ pc'[w] = "flag"
<1>1. ~Crash
  BY DEF Crash, FlagInformer!Restart
<1>2. CASE k \in dirty \cup waiting
  BY <1>1, <1>2, QueueKeeps DEF Pending
<1>3. CASE flagNotify[k] # <<>>
  <2>1. CASE flagCache[k] = None
    BY <2>1, FlagCacheChanges DEF Pending
  <2>2. CASE flagCache[k] # None
    BY <1>1, <1>3, <2>2, FlagNotices DEF Pending
  <2> QED
    BY <2>1, <2>2
<1> QED
  BY <1>2, <1>3 DEF Pending

LEMMA NextCurrent ==
    ASSUME TypeOK, HeldKeys', Next, FlagInformer!DeletesAreOfTheGone, FlagIsCurrent
    PROVE  FlagIsCurrent'
<1> SUFFICES ASSUME NEW w \in Workers, pc'[w] \in {"configmap", "create"},
                    NEW k, k = item'[w],
                    flagCache'[k] \notin {None, flag'[w]}
             PROVE  Pending(k)'
  BY DEF FlagIsCurrent, Pending
<1>t. /\ pc \in [Workers -> {"get", "flag", "configmap", "create", "update",
                             "requeue", "forget", "done"}]
      /\ item \in [Workers -> Keys \cup {None}]
      /\ flag \in [Workers -> FlagObjects \cup {None}]
      /\ \A v \in Workers : pc[v] # "get" => item[v] \in Keys
  BY DEF TypeOK, WorkerTypeOK
<1>1. CASE LookupFlag(w)
  <2>1. item'[w] = item[w] /\ flag'[w] = flagCache[item[w]] /\ flagCache' = flagCache
    BY <1>1, <1>t DEF LookupFlag, Goto, flagVars
  <2> QED
    BY <2>1
<1>2. CASE ~LookupFlag(w)
  <2>1. item'[w] = item[w] /\ flag'[w] = flag[w] /\ pc[w] \in {"configmap", "create"}
    <3>1. CASE Crash
      BY <3>1 DEF Crash
    <3>2. CASE Work(w) \/ RequestFails(w)
      BY <1>2, <1>t, <3>2 DEF Work, RequestFails, GetItem, LookupConfigMap, CreateConfigMap,
         updateFeatureFlagStatus, Requeue, ForgetItem, FinishItem, At, Goto
    <3> QED
      BY <3>1, <3>2, OwnSteps
  <2>2. k \in Keys
    BY <1>t, <2>1
  <2>3. ASSUME NEW v \in Workers, item'[v] = k, pc'[v] = "flag"
        PROVE  FALSE
    <3>1. k # None
      BY <2>2, ClusterAssumption
    <3>2. v = w
      BY <2>3, <3>1 DEF HeldKeys, NoConcurrentSync
    <3> QED
      BY <2>3, <3>2
  <2>4. CASE Pending(k)
    BY <2>2, <2>3, <2>4, PendingStays
  <2>5. CASE flagCache[k] \in {None, flag[w]}
    BY <2>1, <2>2, <2>5, FlagCacheChanges DEF Pending
  <2> QED
    BY <2>1, <2>4, <2>5 DEF FlagIsCurrent
<1> QED
  BY <1>1, <1>2

------------------------------------------------------------------------------
(* No flag is forgotten, when no watch breaks.                               *)

LEMMA GuardedStays ==
    ASSUME TypeOK, Next, ConfigMapInformer!FollowsStore, Lossless, ConfigMapInformer!NoneReplaced,
           NEW k \in Keys, NEW n \in Names, Guarded(k, n), flagCache[k] # None, ~Crash
    PROVE  Guarded(k, n)' \/ k \in dirty'
<1>r. RefsTo(k) \in SUBSET (Refs \cup {NoRef})
  BY DEF RefsTo, Refs
<1>g. /\ Guarded(k, n) <=> ConfigMapFacts!Guards(RefsTo(k), n)
      /\ Guarded(k, n)' <=> ConfigMapFacts!Guards(RefsTo(k), n)'
  BY DEF Guarded, ConfigMapFacts!Guards
<1>1. CASE ConfigMapUntold
  <2>1. ConfigMapFacts!Untold
    BY <1>1, ConfigMapFactsSteps
  <2> QED
    BY <1>r, <1>g, <2>1, ConfigMapFactsApply, ConfigMapFacts!GuardsStep
<1>2. ASSUME NEW m \in Names, HandleConfigMap(m)
      PROVE  Guarded(k, n)' \/ k \in dirty'
  <2>1. ConfigMapInformer!Notified(m) /\ cmNotify[m] # <<>>
    BY <1>2 DEF HandleConfigMap, ConfigMapInformer!Notified
  <2>2. ConfigMapFacts!Notified(m)
    BY <2>1 DEF ConfigMapInformer!Notified, ConfigMapFacts!Notified
  <2>3. \/ ConfigMapFacts!Guards(RefsTo(k), n)'
        \/ m = n /\ cmNotify[n][1].kind # "resync" /\ cmNotify[n][1].obj \in RefsTo(k)
    BY <1>r, <1>g, <2>2, ConfigMapFactsApply, ConfigMapFacts!GuardsTold
  <2>4. ASSUME m = n, cmNotify[n][1].kind # "resync", cmNotify[n][1].obj \in RefsTo(k)
        PROVE  k \in dirty'
    <3> DEFINE ref == cmNotify[n][1].obj
    <3>1. Head(cmNotify[n]) = cmNotify[n][1]
      BY <2>1, <2>4 DEF TypeOK, ConfigMapInformer!InformerTypeOK
    <3>2. ref \in Refs /\ ref.kind = "FeatureFlag" /\ ref.name = k
      BY <2>4 DEF RefsTo, Refs
    <3>3. ref # NoRef
      BY <3>2, ClusterAssumption
    <3>4. handleObject(ref)
      BY <1>2, <2>4, <3>1 DEF HandleConfigMap
    <3> QED
      BY <3>2, <3>3, <3>4 DEF handleObject, enqueueFeatureFlag, Add, Enqueue
  <2> QED
    BY <1>g, <2>3, <2>4
<1> QED
  BY <1>1, <1>2, NextConfigMapStep

\* A worker in the middle of syncHandler, with a key nobody will look at again.
LEMMA BusyWorker ==
    ASSUME TypeOK, Next, UidsAreUnique, WorkersAreSynced, FlagIsCurrent,
           NEW w \in Workers, pc[w] \in {"flag", "configmap", "create", "requeue"},
           NEW k \in Keys, item[w] = k, ~Pending(k),
           flagCache[k] # None, NEW n \in Names, n = flagCache[k].cm, ~Crash
    PROVE  \/ item'[w] = k /\ pc'[w] \in {"flag", "configmap", "create", "requeue"}
           \/ Pending(k)'
           \/ Guarded(k, n)'
<1>t. /\ pc \in [Workers -> {"get", "flag", "configmap", "create", "update",
                             "requeue", "forget", "done"}]
      /\ item \in [Workers -> Keys \cup {None}]
      /\ flag \in [Workers -> FlagObjects \cup {None}]
  BY DEF TypeOK, WorkerTypeOK
<1>n. flagCache[k] \in Copies(k) /\ n # NoName
  BY ClusterAssumption DEF Copies
<1>f. pc[w] \in {"configmap", "create"} => flag[w] = flagCache[k]
  BY DEF FlagIsCurrent
<1>1. CASE pc'[w] = pc[w] /\ item'[w] = item[w]
  BY <1>1
<1>2. CASE LookupFlag(w)
  BY <1>t, <1>n, <1>2 DEF LookupFlag, Goto, At
<1>3. CASE LookupConfigMap(w)
  <2>1. flag[w] = flagCache[k] /\ UNCHANGED cmVars /\ item' = item
    BY <1>3, <1>f DEF LookupConfigMap, At
  <2>2. CASE cmCache[n] # None /\ IsControlledBy(cmCache[n], flagCache[k])
    <3>1. cmCache[n] \in OwnerRefs(n) /\ cmCache[n].uid = flagCache[k].uid
      BY <2>2 DEF IsControlledBy, OwnerRefs
    <3>2. cmCache[n] \in RefsTo(k)
      BY <1>n, <3>1 DEF UidsAreUnique
    <3> QED
      BY <2>1, <3>2 DEF Guarded, cmVars
  <2>3. CASE ~(cmCache[n] # None /\ IsControlledBy(cmCache[n], flagCache[k]))
    BY <1>t, <1>3, <2>1, <2>3 DEF LookupConfigMap, Goto
  <2> QED
    BY <2>2, <2>3
<1>4. CASE CreateConfigMap(w)
  <2>1. flag[w] = flagCache[k] /\ item' = item /\ phase = "running"
    BY <1>4, <1>f DEF CreateConfigMap, At
  <2>2. CASE pc'[w] = "requeue"
    BY <2>1, <2>2
  <2>3. CASE pc'[w] # "requeue"
    <3> DEFINE ref == RefTo(k, flagCache[k])
               e   == ConfigMapInformer!Change(configmaps'[n], FALSE)
    <3>1. /\ configmaps[n] = None
          /\ configmaps' = [configmaps EXCEPT ![n] = ref]
          /\ ConfigMapInformer!Emit(n)
      BY <1>t, <1>4, <2>1, <2>3 DEF CreateConfigMap, Goto
    <3>2. configmaps'[n] = ref /\ ref \in RefsTo(k)
      BY <1>n, <1>4, <2>1, <3>1, CreatedFor DEF TypeOK, ClusterTypeOK
    <3>3. ConfigMapInformer!Listed
      BY <2>1 DEF WorkersAreSynced, ConfigMapInformer!HasSynced, ConfigMapInformer!Listed
    <3>4. cmWatch' = [cmWatch EXCEPT ![n] = Append(@, e)]
      BY <3>1, <3>3 DEF ConfigMapInformer!Emit
    <3>5. e.obj \in RefsTo(k)
      BY <3>2 DEF ConfigMapInformer!Change
    <3> HIDE DEF e
    <3>6. \E i \in 1 .. Len(cmWatch'[n]) : cmWatch'[n][i] = e
      <4> DEFINE Events == ConfigMapInformer!Changes(Refs \cup {NoRef} \cup {None})
      <4>1. cmWatch \in [Names -> Seq(Events)] /\ cmWatch[n] \in Seq(Events)
        BY <1>n DEF TypeOK, ConfigMapInformer!InformerTypeOK
      <4> HIDE DEF Events
      <4>2. cmWatch'[n] = Append(cmWatch[n], e)
        BY <1>n, <3>4, <4>1
      <4>3. /\ Len(cmWatch[n]) + 1 \in 1 .. Len(Append(cmWatch[n], e))
            /\ Append(cmWatch[n], e)[Len(cmWatch[n]) + 1] = e
        BY <4>1
      <4> QED
        BY <4>2, <4>3
    <3> QED
      BY <3>5, <3>6 DEF Guarded
  <2> QED
    BY <2>2, <2>3
<1>5. CASE Requeue(w)
  BY <1>5 DEF Requeue, AddRateLimited, Pending
<1>6. CASE RequestFails(w)
  BY <1>t, <1>6 DEF RequestFails, Goto
<1>7. CASE GetItem(w) \/ updateFeatureFlagStatus(w) \/ ForgetItem(w) \/ FinishItem(w)
  BY <1>7 DEF GetItem, updateFeatureFlagStatus, ForgetItem, FinishItem, At
<1> QED
  BY <1>1, <1>2, <1>3, <1>4, <1>5, <1>6, <1>7, OwnSteps DEF Work

LEMMA NextNothingForgotten ==
    ASSUME TypeOK, Next, UidsAreUnique, WorkersAreSynced, ConfigMapInformer!FollowsStore,
           FlagInformer!DeletesAreOfTheGone, FlagIsCurrent,
           Lossless, ConfigMapInformer!NoneReplaced, NothingForgotten
    PROVE  NothingForgotten'
<1> SUFFICES ASSUME NEW k \in Keys, NEW n, flagCache'[k] # None, n = flagCache'[k].cm, n # NoName,
                    ~Pending(k)'
             PROVE  \/ \E w \in Workers : item'[w] = k /\ pc'[w] \in {"flag", "configmap", "create", "requeue"}
                    \/ Guarded(k, n)'
  BY DEF NothingForgotten, Guarded
<1>1. flagCache'[k] = flagCache[k]
  BY FlagCacheChanges DEF Pending
<1>2. ~Crash
  BY DEF Crash, FlagInformer!Restart
<1>n. n \in Names
  BY <1>1 DEF TypeOK, FlagInformer!InformerTypeOK, FlagObjects
<1>3. CASE Pending(k)
  BY <1>3, PendingStays
<1>4. ASSUME NEW w \in Workers, item[w] = k, pc[w] \in {"flag", "configmap", "create", "requeue"},
             ~Pending(k)
      PROVE  \/ item'[w] = k /\ pc'[w] \in {"flag", "configmap", "create", "requeue"}
             \/ Guarded(k, n)'
  BY <1>1, <1>2, <1>n, <1>4, BusyWorker
<1>5. CASE Guarded(k, n)
  <2>1. Guarded(k, n)' \/ k \in dirty'
    BY <1>1, <1>2, <1>n, <1>5, GuardedStays
  <2> QED
    BY <2>1 DEF Pending
<1> QED
  BY <1>1, <1>3, <1>4, <1>5 DEF NothingForgotten

------------------------------------------------------------------------------
(* The invariant, and what follows from it.                                  *)

LEMMA InitSync == Init => SyncInv
<1> SUFFICES ASSUME Init PROVE SyncInv
  OBVIOUS
<1>1. TypeOK
  BY InitTypes
<1>2. QueueInv /\ HeldKeys /\ Settled /\ BackOffIsScheduled
  BY DEF Init, QueueInit, NoWork, QueueInv, HeldKeys, NoConcurrentSync, Settled, BackOffIsScheduled
<1>3. ASSUME NEW k \in Keys
      PROVE  Copies(k) = {}
  BY DEF Init, ClusterInit, NoWork, FlagInformer!InformerInit, FlagInformer!EmptyStreams, Copies
<1>4. ASSUME NEW n \in Names
      PROVE  OwnerRefs(n) = {}
  BY DEF Init, ClusterInit, ConfigMapInformer!InformerInit, ConfigMapInformer!EmptyStreams, OwnerRefs
<1>5. VersionsAreUnique /\ UidsAreUnique /\ RefsAreOld
  BY <1>3, <1>4 DEF VersionsAreUnique, UidsAreUnique, RefsAreOld
<1>6. WorkersAreSynced /\ FlagIsCurrent
  BY DEF Init, NoWork, WorkersAreSynced, FlagIsCurrent
<1>7. ConfigMapInformer!FollowsStore /\ ConfigMapInformer!NoneReplaced
  BY DEF Init, ConfigMapInformer!InformerInit, ConfigMapInformer!EmptyStreams, ConfigMapInformer!Listed,
         ConfigMapInformer!FollowsStore, ConfigMapInformer!NoneReplaced
<1>8. FlagInformer!DeletesAreOfTheGone /\ NothingForgotten
  BY DEF Init, FlagInformer!InformerInit, FlagInformer!DeletesAreOfTheGone, NothingForgotten
<1> QED
  BY <1>1, <1>2, <1>5, <1>6, <1>7, <1>8 DEF SyncInv

LEMMA StutterSync == SyncInv /\ UNCHANGED vars => SyncInv'
<1> SUFFICES ASSUME SyncInv, UNCHANGED vars
             PROVE  SyncInv'
  OBVIOUS
<1> USE DEF SyncInv, vars, clusterVars, flagVars, cmVars, queueVars, workerVars
<1>1. TypeOK'
  BY StutterTypes
<1>2. (QueueInv /\ HeldKeys /\ Settled /\ BackOffIsScheduled)'
  BY DEF QueueInv, HeldKeys, NoConcurrentSync, Settled, BackOffIsScheduled
<1>3. /\ \A k \in Keys : Copies(k)' = Copies(k)
      /\ \A n \in Names : OwnerRefs(n)' = OwnerRefs(n)
  BY DEF Copies, OwnerRefs
<1>4. (VersionsAreUnique /\ UidsAreUnique /\ RefsAreOld)'
  BY <1>3 DEF VersionsAreUnique, UidsAreUnique, RefsAreOld
<1>5. WorkersAreSynced' /\ FlagIsCurrent'
  BY DEF WorkersAreSynced, FlagInformer!HasSynced, ConfigMapInformer!HasSynced, FlagIsCurrent, Pending
<1>6. /\ ConfigMapInformer!FollowsStore'
      /\ ConfigMapInformer!NoneReplaced => ConfigMapInformer!NoneReplaced'
  BY DEF ConfigMapInformer!FollowsStore, ConfigMapInformer!Listed, ConfigMapInformer!NoneReplaced
<1>7. FlagInformer!DeletesAreOfTheGone'
  BY DEF FlagInformer!DeletesAreOfTheGone
<1>8. NothingForgotten => NothingForgotten'
  BY DEF NothingForgotten, Pending, Guarded
<1> QED
  BY <1>1, <1>2, <1>4, <1>5, <1>6, <1>7, <1>8

LEMMA NextSync == SyncInv /\ [Next]_vars => SyncInv'
<1>1. ASSUME SyncInv, Next
      PROVE  SyncInv'
  <2> USE <1>1 DEF SyncInv
  <2>1. (QueueInv /\ HeldKeys /\ Settled /\ BackOffIsScheduled)'
    BY NextQueue, NextBackOff
  <2>2. (VersionsAreUnique /\ UidsAreUnique /\ RefsAreOld)'
    BY NextVersions, NextUids
  <2>3. WorkersAreSynced'
    BY NextSynced
  <2>4. /\ ConfigMapInformer!FollowsStore'
        /\ Lossless /\ ConfigMapInformer!NoneReplaced => ConfigMapInformer!NoneReplaced'
    BY NextConfigMapInformer
  <2>5. FlagInformer!DeletesAreOfTheGone'
    BY NextDeletes
  <2>6. FlagIsCurrent'
    BY <2>1, NextCurrent
  <2>7. Lossless => NothingForgotten'
    BY NextNothingForgotten
  <2> QED
    BY <2>1, <2>2, <2>3, <2>4, <2>5, <2>6, <2>7, NextTypes DEF Lossless
<1> QED
  BY <1>1, StutterSync

\* The inductive invariant holds in every reachable state.
THEOREM SyncInvariant == Spec => []SyncInv
BY InitSync, NextSync, PTL DEF Spec

\* "We are never processing the same item simultaneously in two different
\* workers": however many workers Run starts.
THEOREM WorkersExcludeEachOther == Spec => []NoConcurrentSync
<1>1. SyncInv => NoConcurrentSync
  BY DEF SyncInv, HeldKeys
<1> QED
  BY <1>1, SyncInvariant, PTL

\* processNextWorkItem neither drops a failed key nor leaves the failure count
\* of a key that is through.
THEOREM FailedKeysAreRetried == Spec => []BackOffIsScheduled
<1>1. SyncInv => BackOffIsScheduled
  BY DEF SyncInv
<1> QED
  BY <1>1, SyncInvariant, PTL

\* The ConfigMap a worker fails to create, because it exists, is in the cache
\* by then or on its way there: the retry after AlreadyExists will see it,
\* whatever crashed, was lost or was listed again.
THEOREM RetriesSeeTheConfigMap == Spec => []StaleCreateIsInFlight
<1>1. SyncInv => StaleCreateIsInFlight
  <2> SUFFICES ASSUME SyncInv, NEW w \in Workers, pc[w] = "create"
               PROVE  LET n == flag[w].cm
                      IN  configmaps[n] = None \/ cmCache[n] # None \/ cmWatch[n] # <<>>
    BY DEF StaleCreateIsInFlight
  <2>1. flag[w].cm \in Names
    BY DEF SyncInv, TypeOK, WorkerTypeOK
  <2>2. ConfigMapInformer!Listed
    BY DEF SyncInv, WorkersAreSynced, ConfigMapInformer!HasSynced, ConfigMapInformer!Listed
  <2> QED
    BY <2>1, <2>2 DEF SyncInv, ConfigMapInformer!FollowsStore
<1> QED
  BY <1>1, SyncInvariant, PTL

\* No flag whose ConfigMap is missing is forgotten, as long as no watch is lost
\* and nobody removes owner references: the handlers, the queue and the workers
\* pass it on, in whatever order the two informers see the changes, and through
\* failed requests and crashes.
THEOREM NoFlagIsForgotten ==
    ASSUME Lossless
    PROVE  Spec => []WorkScheduled
<1>1. SyncInv => WorkScheduled
  <2> SUFFICES ASSUME SyncInv, NEW k \in Keys, NEW n, flagCache[k] # None, n = flagCache[k].cm,
                      n # NoName, cmCache[n] = None
               PROVE  Scheduled(k, n)
    BY DEF WorkScheduled, Scheduled
  <2> USE DEF Scheduled
  <2>1. CASE \E w \in Workers : item[w] = k /\ pc[w] \in {"flag", "configmap", "create", "requeue"}
    BY <2>1, ClusterAssumption DEF SyncInv, HeldKeys
  <2>2. CASE Pending(k)
    BY <2>2 DEF Pending
  <2>3. CASE Guarded(k, n)
    <3>1. None \notin RefsTo(k)
      BY ClusterAssumption DEF RefsTo, Refs
    <3> QED
      BY <2>3, <3>1 DEF Guarded
  <2> QED
    BY <2>1, <2>2, <2>3 DEF SyncInv, NothingForgotten
<1> QED
  BY <1>1, SyncInvariant, PTL

\* A PUT that writes replaces the very version the worker has read, when that is
\* not in the form of the typed clientset: it changes this form, and nothing else.
LEMMA PutChangesTheForm ==
    ASSUME SyncInv, NEW w \in Workers, updateFeatureFlagStatus(w)
    PROVE  \/ UNCHANGED <<flags, revision>>
           \/ LET k == item[w]
              IN  /\ k \in Keys /\ flags[k] # None /\ flags[k].raw
                  /\ revision' = revision + 1
                  /\ flags' = [flags EXCEPT ![k] = [flags[k] EXCEPT !.raw = FALSE, !.rv = revision']]
<1> DEFINE k == item[w]
           f == [flag[w] EXCEPT !.raw = FALSE]
<1> SUFFICES ASSUME ~UNCHANGED <<flags, revision>>
             PROVE  /\ k \in Keys /\ flags[k] # None /\ flags[k].raw
                    /\ revision' = revision + 1
                    /\ flags' = [flags EXCEPT ![k] = [flags[k] EXCEPT !.raw = FALSE, !.rv = revision']]
  OBVIOUS
<1>t. TypeOK /\ ClusterTypeOK
  BY DEF SyncInv, TypeOK
<1>1. /\ k \in Keys /\ flag[w] \in FlagObjects /\ f \in FlagObjects
      /\ flags[k] # None /\ flags[k].rv = flag[w].rv /\ flags[k] # f
      /\ StoreFlag(k, f)
  BY <1>t, Puts
<1>2. flags[k] \in Copies(k) /\ flag[w] \in Copies(k)
  BY <1>1, ClusterAssumption DEF Copies
<1>3. flags[k] = flag[w]
  BY <1>1, <1>2 DEF SyncInv, VersionsAreUnique
<1>4. flag[w].raw
  BY <1>1, <1>3 DEF FlagObjects
<1>5. /\ revision' = revision + 1
      /\ flags' = [flags EXCEPT ![k] = [f EXCEPT !.rv = revision']]
  BY <1>1, <1>t, StoreTypes
<1> QED
  BY <1>1, <1>3, <1>4, <1>5

\* The controller writes whole flags back from its cache, and never undoes a
\* user's edit of a field of FeatureFlagSpec, nor brings a deleted flag back.
THEOREM UsersKeepTheirEdits == Spec => UserSpecPreserved
<1> DEFINE Kept == \A k \in Keys : Settings(flags'[k]) = Settings(flags[k])
<1>1. ASSUME SyncInv, Next, userWrites' = userWrites
      PROVE  Kept
  <2>t. /\ userWrites \in Nat /\ TypeOK
        /\ flags \in [Keys -> FlagObjects \cup {None}]
    BY <1>1 DEF SyncInv, TypeOK, ClusterTypeOK
  <2>1. CASE flags' = flags
    BY <2>1
  <2>2. ASSUME NEW w \in Workers, updateFeatureFlagStatus(w), flags' # flags,
               NEW k \in Keys
        PROVE  Settings(flags'[k]) = Settings(flags[k])
    <3> DEFINE j == item[w]
               f == [flags[j] EXCEPT !.raw = FALSE, !.rv = revision']
    <3>1. j \in Keys /\ flags[j] # None /\ flags' = [flags EXCEPT ![j] = f] /\ revision' = revision + 1
      BY <1>1, <2>2, PutChangesTheForm
    <3>2. CASE k # j
      BY <2>t, <3>1, <3>2
    <3>3. CASE k = j
      <4>1. flags[k] \in FlagObjects /\ flags'[k] = f
        BY <2>t, <3>1, <3>3
      <4>2. revision' \in Nat
        BY <3>1, <2>t DEF TypeOK, ClusterTypeOK
      <4>3. f \in FlagObjects /\ f.uid = flags[k].uid /\ f.cm = flags[k].cm
        BY <3>3, <4>1, <4>2 DEF FlagObjects
      <4>4. f # None /\ flags[k] # None
        BY <3>1, <3>3, <4>3, ClusterAssumption
      <4> HIDE DEF f
      <4> QED
        BY <4>1, <4>3, <4>4 DEF Settings
    <3> QED
      BY <3>2, <3>3
  <2> QED
    BY <1>1, <2>t, <2>1, <2>2, NextWrites
<1>2. SyncInv /\ [Next]_vars => (userWrites' = userWrites => Kept)
  BY <1>1 DEF vars, clusterVars
<1> QED
  BY <1>2, SyncInvariant, PTL DEF Spec, UserSpecPreserved

\* The flags the controller may still write.
RawFlags == {k \in Keys : flags[k] # None /\ flags[k].raw}

\* Each request of a user pays for its own version and for one PUT that brings
\* the flag into the form of the typed clientset.
WritesArePaidFor ==
    IsFiniteSet(RawFlags) /\ revision + Cardinality(RawFlags) <= 2 * userWrites

LEMMA NextPaidFor ==
    ASSUME SyncInv, Next, WritesArePaidFor
    PROVE  WritesArePaidFor'
<1>t. /\ TypeOK /\ ClusterTypeOK
      /\ flags \in [Keys -> FlagObjects \cup {None}]
      /\ revision \in Nat /\ userWrites \in Nat
  BY DEF SyncInv, TypeOK, ClusterTypeOK
<1>r. IsFiniteSet(RawFlags) /\ Cardinality(RawFlags) \in Nat
  BY FS_CardinalityType DEF WritesArePaidFor
<1>1. ASSUME NEW k \in Keys, \A j \in Keys \ {k} : flags'[j] = flags[j]
      PROVE  IsFiniteSet(RawFlags') /\ Cardinality(RawFlags') \in 0 .. Cardinality(RawFlags) + 1
  <2>1. /\ IsFiniteSet(RawFlags \cup {k})
        /\ Cardinality(RawFlags \cup {k}) <= Cardinality(RawFlags) + 1
    BY <1>r, FS_AddElement
  <2>2. RawFlags' \subseteq RawFlags \cup {k}
    BY <1>1 DEF RawFlags
  <2>3. /\ IsFiniteSet(RawFlags')
        /\ Cardinality(RawFlags') <= Cardinality(RawFlags \cup {k})
    BY <2>1, <2>2, FS_Subset
  <2>4. Cardinality(RawFlags') \in Nat /\ Cardinality(RawFlags \cup {k}) \in Nat
    BY <2>1, <2>3, FS_CardinalityType
  <2> QED
    BY <1>r, <2>1, <2>3, <2>4
<1>2. ASSUME NEW k \in Keys, FlagChanges(k), userWrites' = userWrites + 1
      PROVE  WritesArePaidFor'
  <2>1. IsFiniteSet(RawFlags') /\ Cardinality(RawFlags') \in 0 .. Cardinality(RawFlags) + 1
    BY <1>t, <1>1, <1>2, FlagChangesOne
  <2>2. revision' \in {revision, revision + 1}
    BY <1>t, NextWrites
  <2> QED
    BY <1>t, <1>r, <1>2, <2>1, <2>2 DEF WritesArePaidFor
<1>3. ASSUME userWrites' \in {userWrites, userWrites + 1}, UNCHANGED <<flags, revision>>
      PROVE  WritesArePaidFor'
  BY <1>t, <1>r, <1>3 DEF WritesArePaidFor, RawFlags
<1>4. ASSUME NEW w \in Workers, updateFeatureFlagStatus(w), userWrites' = userWrites,
             ~UNCHANGED <<flags, revision>>
      PROVE  WritesArePaidFor'
  <2> DEFINE k == item[w]
             f == [flags[k] EXCEPT !.raw = FALSE, !.rv = revision']
  <2>1. /\ k \in Keys /\ flags[k] # None /\ flags[k].raw
        /\ revision' = revision + 1
        /\ flags' = [flags EXCEPT ![k] = f]
    BY <1>4, PutChangesTheForm
  <2>2. flags[k] \in FlagObjects
    BY <1>t, <2>1
  <2>3. f.raw = FALSE
    BY <2>2 DEF FlagObjects
  <2> HIDE DEF f
  <2>4. RawFlags' = RawFlags \ {k} /\ k \in RawFlags
    BY <1>t, <2>1, <2>3 DEF RawFlags
  <2>5. IsFiniteSet(RawFlags') /\ Cardinality(RawFlags') = Cardinality(RawFlags) - 1
    BY <1>r, <2>4, FS_RemoveElement
  <2> QED
    BY <1>t, <1>r, <1>4, <2>1, <2>5 DEF WritesArePaidFor
<1> QED
  BY <1>t, <1>2, <1>3, <1>4, NextWrites

\* The PUT, the event it makes and the sync the event leads to do not keep the
\* controller busy: however often and by however many workers flags are synced,
\* there is at most one version by the controller for each request of a user.
THEOREM SyncsSettle == Spec => []OneWritePerRequest
<1>1. Init => WritesArePaidFor
  <2> SUFFICES ASSUME Init PROVE WritesArePaidFor
    OBVIOUS
  <2>1. RawFlags = {} /\ revision = 0 /\ userWrites = 0
    BY DEF Init, ClusterInit, RawFlags
  <2> QED
    BY <2>1, FS_EmptySet DEF WritesArePaidFor
<1>2. SyncInv /\ WritesArePaidFor /\ [Next]_vars => WritesArePaidFor'
  <2>1. WritesArePaidFor /\ UNCHANGED vars => WritesArePaidFor'
    BY DEF WritesArePaidFor, RawFlags, vars, clusterVars
  <2> QED
    BY <2>1, NextPaidFor
<1>3. SyncInv /\ WritesArePaidFor => OneWritePerRequest
  <2> SUFFICES ASSUME SyncInv, WritesArePaidFor PROVE OneWritePerRequest
    OBVIOUS
  <2>1. /\ revision \in Nat /\ userWrites \in Nat
        /\ Cardinality(RawFlags) \in Nat
    BY FS_CardinalityType DEF SyncInv, TypeOK, ClusterTypeOK, WritesArePaidFor
  <2> QED
    BY <2>1 DEF WritesArePaidFor, OneWritePerRequest
<1> QED
  BY <1>1, <1>2, <1>3, SyncInvariant, PTL DEF Spec

\* The controller overwrites no ConfigMap and takes none over.
THEOREM ConfigMapsAreKept == Spec => ConfigMapsNotOverwritten
<1> DEFINE Kept(n) == configmaps[n] # None /\ configmaps'[n] # configmaps[n]
                        => \/ userWrites' # userWrites
                           \/ Dangling(configmaps[n]) /\ configmaps'[n] = None
<1>1. ASSUME SyncInv, Next, NEW n \in Names
      PROVE  Kept(n)
  <2>t. TypeOK /\ configmaps \in [Names -> Refs \cup {NoRef} \cup {None}] /\ userWrites \in Nat
    BY <1>1 DEF SyncInv, TypeOK, ClusterTypeOK
  <2>1. ASSUME NEW k \in Keys, FlagChanges(k)
        PROVE  Kept(n)
    BY <2>1, <2>t DEF FlagChanges, UserCreatesFlag, UserEditsFlag, UserDeletesFlag, UserWrite
  <2>2. ASSUME NEW m \in Names, ConfigMapChanges(m)
        PROVE  Kept(n)
    BY <2>2, <2>t DEF ConfigMapChanges, UserCreatesConfigMap, UserEditsConfigMap,
                      UserDeletesConfigMap, UserWrite
  <2>3. ASSUME NEW m \in Names, GarbageCollector(m)
        PROVE  Kept(n)
    BY <2>3, <2>t DEF GarbageCollector, CollectGarbage
  <2>4. ASSUME NEW w \in Workers, CreateConfigMap(w)
        PROVE  Kept(n)
    <3>1. flag[w].cm \in Names
      BY <2>4, <2>t DEF TypeOK, WorkerTypeOK, CreateConfigMap, At
    <3> QED
      BY <2>4, <2>t, <3>1 DEF CreateConfigMap
  <2>5. ASSUME NEW w \in Workers, updateFeatureFlagStatus(w)
        PROVE  Kept(n)
    BY <2>5 DEF updateFeatureFlagStatus
  <2>6. CASE UNCHANGED clusterVars
    BY <2>6 DEF clusterVars
  <2> QED
    BY <1>1, <2>t, <2>1, <2>2, <2>3, <2>4, <2>5, <2>6, Writes
<1>2. SyncInv /\ [Next]_vars
        => \A n \in Names : configmaps[n] # None /\ configmaps'[n] # configmaps[n]
              => userWrites' # userWrites \/ (Dangling(configmaps[n]) /\ configmaps'[n] = None)
  BY <1>1 DEF vars, clusterVars
<1> QED
  BY <1>2, SyncInvariant, PTL DEF Spec, ConfigMapsNotOverwritten

==============================================================================
