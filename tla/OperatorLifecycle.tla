-------------------------- MODULE OperatorLifecycle --------------------------
(* The operator's process from start to exit: main.go and app.Run, the       *)
(* signal handler of app/utils.go, the informers' start-up, and Run of the   *)
(* FeatureController with its workers.  The goroutines of main, the signal   *)
(* handler, each informer and each worker interleave; the process ends when  *)
(* main returns or any of them exits.  What a worker does with an item is    *)
(* the matter of FeatureController; here it is being worked on or not.       *)
EXTENDS Naturals

CONSTANTS Workers,    \* the goroutines FeatureController.Run launches
          Keys,       \* the work items
          Rules,      \* what the operator's Role grants: [group, resource, verb]
          None,
          MaxSignals  \* bound: shutdown signals sent to the process

ASSUME LifecycleAssumption == None \notin Keys /\ MaxSignals \in Nat

Informers == {"configmaps", "flags"}

\* The API groups of the two clientsets, and what each informer lists.
FlagGroup == "featurecontroller.featured.io"
CoreGroup == ""
Group(i)    == IF i = "flags" THEN FlagGroup ELSE CoreGroup
Resource(i) == IF i = "flags" THEN "featureflags" ELSE "configmaps"

\* The rules of the chart's Role, and with those TestRBACNamespaced asks for;
\* the test names no API group, which stands for the core group.
ChartRules ==
    [group : {FlagGroup},
     resource : {"featureflags", "featureflags/finalizers", "configmaps"},
     verb : {"get", "list", "create", "update", "delete", "deletecollection", "watch"}]

TestedRules ==
    ChartRules
      \cup [group : {CoreGroup}, resource : {"configmaps"},
            verb : {"create", "update", "watch", "get", "list"}]
      \cup [group : {CoreGroup}, resource : {"featureflags"}, verb : {"create", "get", "list"}]

Permitted(verb, i) == [group |-> Group(i), resource |-> Resource(i), verb |-> verb] \in Rules

SignalBuffer == 2   \* make(chan os.Signal, 2)

VARIABLES main,      \* what the main goroutine does next
          handler,   \* the signal goroutine: which signal it waits for
          signals,   \* the signals in its channel
          sent,      \* the signals sent so far
          stop,      \* whether stopCh is closed
          exit,      \* how the process ended: its exit code or "killed"
          informer,  \* how far each informer is
          worker,    \* what each worker goroutine does next
          item,      \* the work item it holds
          queue,     \* the items in the work queue
          shutDown   \* whether the work queue is shut down

mainVars   == <<main, exit>>
signalVars == <<handler, signals, sent, stop>>
queueVars  == <<worker, item, queue, shutDown>>
vars == <<mainVars, signalVars, informer, queueVars>>

Init ==
    /\ main = "config" /\ exit = "no"
    /\ handler = "none" /\ signals = 0 /\ sent = 0 /\ stop = FALSE
    /\ informer = [i \in Informers |-> "absent"]
    /\ worker = [w \in Workers |-> "none"]
    /\ item = [w \in Workers |-> None]
    /\ queue = {} /\ shutDown = FALSE

Alive == exit = "no"

Exit(code) == exit' = code

------------------------------------------------------------------------------
(* Signals.                                                                  *)

\* A shutdown signal kills a process that has not asked for it; the channel
\* drops those it has no room for.
Signal ==
    /\ Alive /\ sent < MaxSignals
    /\ sent' = sent + 1
    /\ IF handler = "none"
         THEN Exit("killed") /\ UNCHANGED signals
         ELSE /\ signals' = IF signals < SignalBuffer THEN signals + 1 ELSE signals
              /\ UNCHANGED exit
    /\ UNCHANGED <<main, handler, stop, informer, queueVars>>

\* The first signal closes stopCh.
FirstSignal_LeavesStopOpen ==    \* mutant: close(stop) is missing
    /\ Alive /\ handler = "first" /\ signals > 0
    /\ signals' = signals - 1
    /\ handler' = "second"
    /\ UNCHANGED <<sent, stop, mainVars, informer, queueVars>>

FirstSignal ==
    /\ Alive /\ handler = "first" /\ signals > 0
    /\ signals' = signals - 1
    /\ stop' = TRUE
    /\ handler' = "second"
    /\ UNCHANGED <<sent, mainVars, informer, queueVars>>

\* The second one ends the process at once.
SecondSignal ==
    /\ Alive /\ handler = "second" /\ signals > 0
    /\ signals' = signals - 1
    /\ Exit("1")
    /\ UNCHANGED <<main, handler, sent, stop, informer, queueVars>>

------------------------------------------------------------------------------
(* The main goroutine.                                                       *)

MainStep(from, to) == Alive /\ main = from /\ main' = to

\* Flags and kubeconfig are read; a wrong one ends the process.
Configure ==
    /\ \/ MainStep("config", "signals") /\ UNCHANGED exit
       \/ MainStep("config", "returned") /\ Exit("1")
    /\ UNCHANGED <<signalVars, informer, queueVars>>

SetupSignalHandler ==
    /\ MainStep("signals", "controller")
    /\ handler' = "first"
    /\ UNCHANGED <<signals, sent, stop, exit, informer, queueVars>>

\* Asking for listers, HasSynced and event handlers requests the informers.
NewFeatureController_OneInformer ==    \* mutant: the flags' informer is not requested
    /\ MainStep("controller", "startConfigMaps")
    /\ informer' = [informer EXCEPT !["configmaps"] = "requested"]
    /\ UNCHANGED <<signalVars, exit, queueVars>>

NewFeatureController ==
    /\ MainStep("controller", "startConfigMaps")
    /\ informer' = [i \in Informers |-> "requested"]
    /\ UNCHANGED <<signalVars, exit, queueVars>>

\* A factory starts the informers requested so far.
StartFactory(i, from, to) ==
    /\ MainStep(from, to)
    /\ informer' = IF informer[i] = "requested" THEN [informer EXCEPT ![i] = "started"]
                                                 ELSE informer
    /\ UNCHANGED <<signalVars, exit, queueVars>>

StartConfigMapFactory == StartFactory("configmaps", "startConfigMaps", "startFlags")
StartFlagFactory      == StartFactory("flags", "startFlags", "sync")

Synced(i) == informer[i] \in {"synced", "syncedAndStopped"}

\* WaitForCacheSync looks at the caches before it looks at stopCh, then at
\* either as they come.  Failing, Run shuts the queue down and app.Run exits.
WaitForCacheSync_AnyCache ==    \* mutant: one synced cache is enough
    /\ \/ (\E i \in Informers : Synced(i)) /\ MainStep("sync", "launch") /\ UNCHANGED <<exit, shutDown>>
       \/ (\A i \in Informers : ~Synced(i)) /\ MainStep("sync", "poll") /\ UNCHANGED <<exit, shutDown>>
       \/ (\E i \in Informers : Synced(i)) /\ MainStep("poll", "launch") /\ UNCHANGED <<exit, shutDown>>
       \/ stop /\ MainStep("poll", "returned") /\ shutDown' = TRUE /\ Exit("1")
    /\ UNCHANGED <<signalVars, informer, worker, item, queue>>

WaitForCacheSync ==
    /\ \/ /\ \A i \in Informers : Synced(i)
          /\ MainStep("sync", "launch") \/ MainStep("poll", "launch")
          /\ UNCHANGED <<exit, shutDown>>
       \/ /\ \E i \in Informers : ~Synced(i)
          /\ MainStep("sync", "poll")
          /\ UNCHANGED <<exit, shutDown>>
       \/ /\ stop
          /\ MainStep("poll", "returned")
          /\ shutDown' = TRUE
          /\ Exit("1")
    /\ UNCHANGED <<signalVars, informer, worker, item, queue>>

LaunchWorkers ==
    /\ MainStep("launch", "serving")
    /\ worker' = [w \in Workers |-> "loop"]
    /\ UNCHANGED <<signalVars, exit, informer, item, queue, shutDown>>

\* Run wakes up when stopCh is closed, and shuts the queue down on its way out.
ShutDownQueue_Omitted ==    \* mutant: no deferred ShutDown, and Run waits for its workers
    /\ stop
    /\ \A w \in Workers : worker[w] = "ended"
    /\ MainStep("serving", "returned")
    /\ UNCHANGED <<signalVars, exit, informer, queueVars>>

ShutDownQueue ==
    /\ stop
    /\ MainStep("serving", "returned")
    /\ shutDown' = TRUE
    /\ UNCHANGED <<signalVars, exit, informer, worker, item, queue>>

\* main returns, and the process ends with it.
MainReturns ==
    /\ MainStep("returned", "returned")
    /\ Exit("0")
    /\ UNCHANGED <<signalVars, informer, queueVars>>

------------------------------------------------------------------------------
(* The informers.                                                            *)

InformerStep(i, from, to) ==
    /\ Alive
    /\ informer[i] = from
    /\ informer' = [informer EXCEPT ![i] = to]
    /\ UNCHANGED <<mainVars, signalVars, queueVars>>

BeginList(i)    == ~stop /\ InformerStep(i, "started", "listing")
\* A list or a watch that is forbidden is tried again for ever.  The cache has
\* synced once a list was answered.
CacheFilled(i)  == Permitted("list", i) /\ InformerStep(i, "listing", "synced")
StopInformer(i) ==
    /\ stop
    /\ \/ \E s \in {"started", "listing"} : InformerStep(i, s, "stopped")
       \/ InformerStep(i, "synced", "syncedAndStopped")

\* An event handler adds a key, which a queue shut down ignores.  Notifications
\* on their way are still delivered when the informer has stopped.
Enqueue(k) ==
    /\ Alive
    /\ \E i \in Informers : informer[i] \in {"listing", "synced", "syncedAndStopped"}
    /\ ~shutDown
    /\ queue' = queue \cup {k}
    /\ UNCHANGED <<mainVars, signalVars, informer, worker, item, shutDown>>

------------------------------------------------------------------------------
(* The workers: wait.Until around runWorker around processNextWorkItem.      *)

WorkerStep(w, from, to) ==
    /\ Alive
    /\ worker[w] = from
    /\ worker' = [worker EXCEPT ![w] = to]
    /\ UNCHANGED <<mainVars, signalVars, informer, shutDown>>

\* wait.Until looks at stopCh before each call of runWorker.
LoopOrEnd(w) ==
    /\ \/ ~stop /\ WorkerStep(w, "loop", "get")
       \/ stop /\ WorkerStep(w, "loop", "ended")
    /\ UNCHANGED <<item, queue>>

\* The queue hands out what it still holds after it was shut down.
GetItem(w) ==
    /\ WorkerStep(w, "get", "work")
    /\ \E k \in queue \ {item[v] : v \in Workers} :
          item' = [item EXCEPT ![w] = k] /\ queue' = queue \ {k}

GetShutDown(w) ==
    /\ shutDown /\ queue = {}
    /\ WorkerStep(w, "get", "loop")
    /\ UNCHANGED <<item, queue>>

FinishItem(w) ==
    /\ WorkerStep(w, "work", "get")
    /\ item' = [item EXCEPT ![w] = None]
    /\ UNCHANGED queue

------------------------------------------------------------------------------

Main == \/ Configure \/ SetupSignalHandler \/ NewFeatureController
        \/ StartConfigMapFactory \/ StartFlagFactory \/ WaitForCacheSync
        \/ LaunchWorkers \/ ShutDownQueue \/ MainReturns
HandleSignals == FirstSignal \/ SecondSignal
Inform(i) == BeginList(i) \/ CacheFilled(i) \/ StopInformer(i)
Work(w) == LoopOrEnd(w) \/ GetItem(w) \/ GetShutDown(w) \/ FinishItem(w)

Next == \/ Signal \/ HandleSignals \/ Main
        \/ \E i \in Informers : Inform(i)
        \/ \E k \in Keys : Enqueue(k)
        \/ \E w \in Workers : Work(w)

Spec == Init /\ [][Next]_vars

\* Every goroutine that can run is scheduled, and lists are answered.  Users
\* owe no event and no signal.
FairSpec ==
    /\ Spec
    /\ WF_vars(Main) /\ WF_vars(HandleSignals)
    /\ \A i \in Informers : WF_vars(Inform(i))
    /\ \A w \in Workers : WF_vars(Work(w))

------------------------------------------------------------------------------
(* Properties.                                                               *)

\* The variables have their types, items are held by one worker that works on
\* them, and the stages of start-up and shutdown come in their order.
TypeOK ==
    /\ main \in {"config", "signals", "controller", "startConfigMaps", "startFlags",
                 "sync", "poll", "launch", "serving", "returned"}
    /\ exit \in {"no", "0", "1", "killed"}
    /\ handler \in {"none", "first", "second"}
    /\ signals \in 0 .. SignalBuffer /\ sent \in 0 .. MaxSignals
    /\ informer \in [Informers -> {"absent", "requested", "started", "listing", "synced",
                                   "stopped", "syncedAndStopped"}]
    /\ worker \in [Workers -> {"none", "loop", "get", "work", "ended"}]
    /\ item \in [Workers -> Keys \cup {None}]
    /\ queue \subseteq Keys
    /\ stop \in BOOLEAN /\ shutDown \in BOOLEAN
    /\ stop <=> handler = "second"
    /\ shutDown => stop
    /\ \A w \in Workers : worker[w] = "work" <=> item[w] # None
    /\ \A v, w \in Workers : item[v] = item[w] => v = w \/ item[v] = None

\* No item is worked on before both caches have synced (controller.go: "Wait
\* for the caches to be synced before starting workers").
WorkersSeeSyncedCaches ==
    \A w \in Workers : worker[w] # "none" => \A i \in Informers : Synced(i)

\* An operator whose configuration is good and that gets no signal comes to
\* serve, with all its workers running.
ComesToServe ==
    main = "signals" ~> \/ main = "serving" /\ \A w \in Workers : worker[w] # "none"
                        \/ sent > 0

\* A signal the handler has received ends the process, whatever the workers do.
SignalEndsProcess == signals > 0 ~> ~Alive

\* Shutting down, a process that nobody interrupts again exits with 0 once it
\* serves, even if all its workers wait on an empty queue.
ServingStopsCleanly ==
    main = "serving" /\ signals > 0 ~> exit = "0" \/ sent > 1

\* Run's comment: at shutdown it waits "for workers to finish processing their
\* current work items" (controller.go).
WorkersFinish == exit = "0" => \A w \in Workers : item[w] = None

==============================================================================
