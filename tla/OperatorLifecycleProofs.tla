----------------------- MODULE OperatorLifecycleProofs -----------------------
(* Theorems about OperatorLifecycle, for any workers, items and Role, and    *)
(* any number of signals.                                                    *)
EXTENDS OperatorLifecycle, TLAPS

\* The types; signals are handled once the handler is set up; workers exist
\* once Run has launched them, which it does when both caches have synced.
LifecycleInv ==
    /\ TypeOK
    /\ WorkersSeeSyncedCaches
    /\ main \in {"config", "signals"} => handler = "none"
    /\ main = "launch" => \A i \in Informers : Synced(i)
    /\ \A w \in Workers : worker[w] # "none" => main \in {"serving", "returned"}

------------------------------------------------------------------------------

\* The process starts in the invariant, and no step leaves it.
LEMMA LifecycleInit == Init => LifecycleInv
<1> SUFFICES ASSUME Init PROVE LifecycleInv
  OBVIOUS
<1>1. informer \in [Informers -> {"absent", "requested", "started", "listing", "synced",
                                  "stopped", "syncedAndStopped"}]
  BY DEF Init
<1>2. /\ worker \in [Workers -> {"none", "loop", "get", "work", "ended"}]
      /\ item \in [Workers -> Keys \cup {None}]
      /\ \A w \in Workers : worker[w] = "none" /\ item[w] = None
  BY DEF Init
<1>3. /\ signals \in 0 .. SignalBuffer /\ sent \in 0 .. MaxSignals
      /\ stop = FALSE /\ shutDown = FALSE /\ handler = "none" /\ queue = {}
      /\ main = "config" /\ exit = "no"
  BY LifecycleAssumption DEF Init, SignalBuffer
<1>4. TypeOK
  BY <1>1, <1>2, <1>3 DEF TypeOK
<1> QED
  BY <1>4 DEF Init, LifecycleInv, WorkersSeeSyncedCaches

LEMMA LifecycleStep == LifecycleInv /\ [Next]_vars => LifecycleInv'
<1> SUFFICES ASSUME LifecycleInv, [Next]_vars PROVE LifecycleInv'
  OBVIOUS
<1>t. TypeOK /\ WorkersSeeSyncedCaches
  BY DEF LifecycleInv
<1>1. CASE Signal
  <2>1. TypeOK'
    BY <1>t, <1>1, LifecycleAssumption
    DEF Signal, Exit, TypeOK, SignalBuffer, queueVars
  <2>2. WorkersSeeSyncedCaches'
    BY <1>t, <1>1 DEF Signal, WorkersSeeSyncedCaches, Synced, queueVars
  <2> QED
    BY <1>t, <1>1, <2>1, <2>2 DEF Signal, LifecycleInv, Synced, queueVars
<1>2. CASE FirstSignal
  <2>1. TypeOK'
    BY <1>t, <1>2 DEF FirstSignal, TypeOK, SignalBuffer, mainVars, queueVars
  <2>2. WorkersSeeSyncedCaches'
    BY <1>t, <1>2 DEF FirstSignal, WorkersSeeSyncedCaches, Synced, queueVars
  <2> QED
    BY <1>t, <1>2, <2>1, <2>2
    DEF FirstSignal, LifecycleInv, Synced, mainVars, queueVars
<1>3. CASE SecondSignal
  <2>1. TypeOK'
    BY <1>t, <1>3 DEF SecondSignal, Exit, TypeOK, SignalBuffer, queueVars
  <2>2. WorkersSeeSyncedCaches'
    BY <1>t, <1>3 DEF SecondSignal, WorkersSeeSyncedCaches, Synced, queueVars
  <2> QED
    BY <1>t, <1>3, <2>1, <2>2 DEF SecondSignal, LifecycleInv, Synced, queueVars
<1>4. CASE Configure
  <2>1. TypeOK'
    BY <1>t, <1>4 DEF Configure, MainStep, Exit, TypeOK, signalVars, queueVars
  <2>2. WorkersSeeSyncedCaches'
    BY <1>t, <1>4 DEF Configure, WorkersSeeSyncedCaches, Synced, queueVars
  <2> QED
    BY <1>t, <1>4, <2>1, <2>2
    DEF Configure, MainStep, LifecycleInv, signalVars, queueVars
<1>5. CASE SetupSignalHandler
  <2>1. TypeOK'
    BY <1>t, <1>5
    DEF SetupSignalHandler, MainStep, LifecycleInv, TypeOK, queueVars
  <2>2. WorkersSeeSyncedCaches'
    BY <1>t, <1>5
    DEF SetupSignalHandler, WorkersSeeSyncedCaches, Synced, queueVars
  <2> QED
    BY <1>t, <1>5, <2>1, <2>2
    DEF SetupSignalHandler, MainStep, LifecycleInv, queueVars
<1>6. CASE NewFeatureController
  <2>1. TypeOK'
    BY <1>t, <1>6
    DEF NewFeatureController, MainStep, TypeOK, signalVars, queueVars
  <2>2. WorkersSeeSyncedCaches'
    BY <1>t, <1>6
    DEF NewFeatureController, MainStep, LifecycleInv, WorkersSeeSyncedCaches, queueVars
  <2> QED
    BY <1>t, <1>6, <2>1, <2>2
    DEF NewFeatureController, MainStep, LifecycleInv, queueVars
<1>7. CASE StartConfigMapFactory
  <2>1. TypeOK'
    BY <1>t, <1>7
    DEF StartConfigMapFactory, StartFactory, MainStep, TypeOK, signalVars, queueVars
  <2>2. WorkersSeeSyncedCaches'
    BY <1>t, <1>7
    DEF StartConfigMapFactory, StartFactory, WorkersSeeSyncedCaches, Synced, queueVars
  <2> QED
    BY <1>t, <1>7, <2>1, <2>2
    DEF StartConfigMapFactory, StartFactory, MainStep, LifecycleInv, queueVars
<1>8. CASE StartFlagFactory
  <2>1. TypeOK'
    BY <1>t, <1>8
    DEF StartFlagFactory, StartFactory, MainStep, TypeOK, signalVars, queueVars
  <2>2. WorkersSeeSyncedCaches'
    BY <1>t, <1>8
    DEF StartFlagFactory, StartFactory, WorkersSeeSyncedCaches, Synced, queueVars
  <2> QED
    BY <1>t, <1>8, <2>1, <2>2
    DEF StartFlagFactory, StartFactory, MainStep, LifecycleInv, queueVars
<1>9. CASE WaitForCacheSync
  <2>1. TypeOK'
    <3>1. CASE UNCHANGED <<exit, shutDown>> /\ main' \in {"launch", "poll"}
      BY <1>t, <1>9, <3>1 DEF WaitForCacheSync, TypeOK, signalVars
    <3>2. CASE stop /\ main' = "returned" /\ shutDown' = TRUE /\ exit' = "1"
      BY <1>t, <1>9, <3>2 DEF WaitForCacheSync, TypeOK, signalVars
    <3> QED
      BY <1>9, <3>1, <3>2 DEF WaitForCacheSync, MainStep, Exit
  <2>2. WorkersSeeSyncedCaches'
    BY <1>t, <1>9 DEF WaitForCacheSync, WorkersSeeSyncedCaches, Synced
  <2> QED
    BY <1>t, <1>9, <2>1, <2>2
    DEF WaitForCacheSync, MainStep, LifecycleInv, Synced
<1>10. CASE LaunchWorkers
  <2>1. TypeOK'
    BY <1>t, <1>10
    DEF LaunchWorkers, MainStep, LifecycleInv, TypeOK, signalVars
  <2>2. WorkersSeeSyncedCaches'
    BY <1>t, <1>10
    DEF LaunchWorkers, MainStep, LifecycleInv, WorkersSeeSyncedCaches, Synced
  <2> QED
    BY <1>t, <1>10, <2>1, <2>2 DEF LaunchWorkers, MainStep, LifecycleInv
<1>11. CASE ShutDownQueue
  <2>1. TypeOK'
    BY <1>t, <1>11 DEF ShutDownQueue, MainStep, TypeOK, signalVars
  <2>2. WorkersSeeSyncedCaches'
    BY <1>t, <1>11 DEF ShutDownQueue, WorkersSeeSyncedCaches, Synced
  <2> QED
    BY <1>t, <1>11, <2>1, <2>2 DEF ShutDownQueue, MainStep, LifecycleInv
<1>12. CASE MainReturns
  <2>1. TypeOK'
    BY <1>t, <1>12
    DEF MainReturns, MainStep, Exit, TypeOK, signalVars, queueVars
  <2>2. WorkersSeeSyncedCaches'
    BY <1>t, <1>12 DEF MainReturns, WorkersSeeSyncedCaches, Synced, queueVars
  <2> QED
    BY <1>t, <1>12, <2>1, <2>2 DEF MainReturns, MainStep, LifecycleInv
<1>13. ASSUME NEW i \in Informers, BeginList(i)
      PROVE  LifecycleInv'
  <2>1. TypeOK'
    BY <1>t, <1>13
    DEF BeginList, InformerStep, TypeOK, mainVars, signalVars, queueVars
  <2>2. WorkersSeeSyncedCaches'
    BY <1>t, <1>13
    DEF BeginList, InformerStep, WorkersSeeSyncedCaches, Synced, queueVars
  <2> QED
    BY <1>t, <1>13, <2>1, <2>2
    DEF BeginList, InformerStep, LifecycleInv, Synced, mainVars, signalVars, queueVars
<1>14. ASSUME NEW i \in Informers, CacheFilled(i)
      PROVE  LifecycleInv'
  <2>1. TypeOK'
    BY <1>t, <1>14
    DEF CacheFilled, InformerStep, TypeOK, mainVars, signalVars, queueVars
  <2>2. WorkersSeeSyncedCaches'
    BY <1>t, <1>14
    DEF CacheFilled, InformerStep, WorkersSeeSyncedCaches, Synced, queueVars
  <2> QED
    BY <1>t, <1>14, <2>1, <2>2
    DEF CacheFilled, InformerStep, LifecycleInv, Synced, mainVars, signalVars, queueVars
<1>15. ASSUME NEW i \in Informers, StopInformer(i)
      PROVE  LifecycleInv'
  <2>1. TypeOK'
    <3>1. PICK to \in {"stopped", "syncedAndStopped"} : informer' = [informer EXCEPT ![i] = to]
      BY <1>15 DEF StopInformer, InformerStep
    <3>2. informer' \in [Informers -> {"absent", "requested", "started", "listing", "synced",
                                       "stopped", "syncedAndStopped"}]
      BY <1>t, <3>1 DEF TypeOK
    <3>3. UNCHANGED <<mainVars, signalVars, queueVars>>
      BY <1>15 DEF StopInformer, InformerStep
    <3> QED
      BY <1>t, <3>2, <3>3 DEF TypeOK, mainVars, signalVars, queueVars
  <2>2. WorkersSeeSyncedCaches'
    BY <1>t, <1>15
    DEF StopInformer, InformerStep, TypeOK, WorkersSeeSyncedCaches, Synced, queueVars
  <2> QED
    BY <1>t, <1>15, <2>1, <2>2
    DEF StopInformer, InformerStep, LifecycleInv, TypeOK, Synced, Informers, mainVars, queueVars
<1>16. ASSUME NEW k \in Keys, Enqueue(k)
      PROVE  LifecycleInv'
  <2>1. TypeOK'
    BY <1>t, <1>16 DEF Enqueue, TypeOK, mainVars, signalVars
  <2>2. WorkersSeeSyncedCaches'
    BY <1>t, <1>16 DEF Enqueue, WorkersSeeSyncedCaches, Synced
  <2> QED
    BY <1>t, <1>16, <2>1, <2>2
    DEF Enqueue, LifecycleInv, Synced, mainVars, signalVars
<1>17. ASSUME NEW w \in Workers, LoopOrEnd(w)
      PROVE  LifecycleInv'
  <2>1. TypeOK'
    BY <1>t, <1>17 DEF LoopOrEnd, WorkerStep, TypeOK, mainVars, signalVars
  <2>2. WorkersSeeSyncedCaches'
    BY <1>t, <1>17 DEF LoopOrEnd, WorkerStep, WorkersSeeSyncedCaches, Synced
  <2> QED
    BY <1>t, <1>17, <2>1, <2>2
    DEF LoopOrEnd, WorkerStep, LifecycleInv, mainVars
<1>18. ASSUME NEW w \in Workers, GetItem(w)
      PROVE  LifecycleInv'
  <2>1. TypeOK'
    BY <1>t, <1>18 DEF GetItem, WorkerStep, TypeOK, mainVars, signalVars
  <2>2. WorkersSeeSyncedCaches'
    BY <1>t, <1>18 DEF GetItem, WorkerStep, WorkersSeeSyncedCaches, Synced
  <2> QED
    BY <1>t, <1>18, <2>1, <2>2 DEF GetItem, WorkerStep, LifecycleInv, mainVars
<1>19. ASSUME NEW w \in Workers, GetShutDown(w)
      PROVE  LifecycleInv'
  <2>1. TypeOK'
    BY <1>t, <1>19 DEF GetShutDown, WorkerStep, TypeOK, mainVars, signalVars
  <2>2. WorkersSeeSyncedCaches'
    BY <1>t, <1>19 DEF GetShutDown, WorkerStep, WorkersSeeSyncedCaches, Synced
  <2> QED
    BY <1>t, <1>19, <2>1, <2>2
    DEF GetShutDown, WorkerStep, LifecycleInv, mainVars
<1>20. ASSUME NEW w \in Workers, FinishItem(w)
      PROVE  LifecycleInv'
  <2>1. TypeOK'
    BY <1>t, <1>20 DEF FinishItem, WorkerStep, TypeOK, mainVars, signalVars
  <2>2. WorkersSeeSyncedCaches'
    BY <1>t, <1>20 DEF FinishItem, WorkerStep, WorkersSeeSyncedCaches, Synced
  <2> QED
    BY <1>t, <1>20, <2>1, <2>2
    DEF FinishItem, WorkerStep, LifecycleInv, mainVars
<1>21. CASE UNCHANGED vars
  <2>1. TypeOK'
    BY <1>t, <1>21 DEF vars, TypeOK, mainVars, signalVars, queueVars
  <2>2. WorkersSeeSyncedCaches'
    BY <1>t, <1>21 DEF vars, WorkersSeeSyncedCaches, Synced, queueVars
  <2> QED
    BY <1>t, <1>21, <2>1, <2>2
    DEF vars, LifecycleInv, Synced, mainVars, signalVars, queueVars
<1> QED
  BY <1>1, <1>2, <1>3, <1>4, <1>5, <1>6, <1>7, <1>8, <1>9, <1>10, <1>11, <1>12, <1>13, <1>14, <1>15, <1>16, <1>17, <1>18, <1>19, <1>20, <1>21
  DEF Next, HandleSignals, Main, Inform, Work

------------------------------------------------------------------------------

\* In every reachable state of the process the strengthened invariant holds.
THEOREM LifecycleInvariant == Spec => []LifecycleInv
<1>1. Init => LifecycleInv
  BY LifecycleInit
<1>2. LifecycleInv /\ [Next]_vars => LifecycleInv'
  BY LifecycleStep
<1> QED
  BY <1>1, <1>2, PTL DEF Spec

\* The types of the variables; no two workers hold one item, stopCh is closed
\* by the first signal, and the queue is shut down after it (Run).
THEOREM TypeCorrect == Spec => []TypeOK
<1>1. LifecycleInv => TypeOK
  BY DEF LifecycleInv
<1> QED
  BY <1>1, LifecycleInvariant, PTL

\* No worker runs before both caches have synced, whatever signals come and
\* whatever the Role grants.
THEOREM WorkersStartSynced == Spec => []WorkersSeeSyncedCaches
<1>1. LifecycleInv => WorkersSeeSyncedCaches
  BY DEF LifecycleInv
<1> QED
  BY <1>1, LifecycleInvariant, PTL

==============================================================================
