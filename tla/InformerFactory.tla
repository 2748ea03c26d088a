--------------------------- MODULE InformerFactory ---------------------------
(* sharedInformerFactory of pkg/generated/informers/externalversions: it     *)
(* makes one informer per type, shares it among all who ask, and runs those  *)
(* that were asked for.  Any goroutine may call it at any time; a mutex      *)
(* guards its maps.  WaitForCacheSync copies the map under the mutex and     *)
(* waits without it.                                                         *)
EXTENDS Naturals

CONSTANTS Callers,   \* goroutines that use the factory
          Types,     \* types of objects
          Channels,  \* stop channels
          None,
          MaxCalls   \* bound: calls in a behavior

\* An informer is told from others of its type by the caller that made it.
Ids == [type : Types, maker : Callers]

ASSUME FactoryAssumption ==
    /\ None \notin Callers \cup Types \cup Ids
    /\ MaxCalls \in Nat

VARIABLES lock,       \* who holds the mutex
          informers,  \* the factory's map: the informer of each type
          started,    \* the types whose informer was started
          state,      \* how far each informer is
          channel,    \* the stop channel it runs with
          runs,       \* how many goroutines run it
          closed,     \* the stop channels closed
          pc,         \* where each caller is; a method's name: about to lock
          arg,        \* its argument: a type or a stop channel
          left,       \* the types its loop has still to visit
          result,     \* what its WaitForCacheSync found so far
          calls,
          \* history, read by the properties only:
          handed,     \* the informers InformerFor has returned
          promised,   \* those handed out before the call of a Start that is over
          due         \* per caller: handed or promised when its call began

mapVars      == <<lock, informers, started>>
informerVars == <<state, channel, runs>>
callerVars   == <<pc, arg, left, result>>
history      == <<handed, promised, due>>
vars == <<mapVars, informerVars, closed, callerVars, calls, history>>

NoResult == [t \in Types |-> "none"]

Init ==
    /\ lock = None
    /\ informers = [t \in Types |-> None]
    /\ started = {}
    /\ state = [i \in Ids |-> "absent"]
    /\ channel = [i \in Ids |-> None]
    /\ runs = [i \in Ids |-> 0]
    /\ closed = {}
    /\ pc = [c \in Callers |-> "idle"]
    /\ arg = [c \in Callers |-> None]
    /\ left = [c \in Callers |-> {}]
    /\ result = [c \in Callers |-> NoResult]
    /\ calls = 0
    /\ handed = {} /\ promised = {}
    /\ due = [c \in Callers |-> {}]

Requested == {t \in Types : informers[t] # None}
HasSynced(i) == state[i] \in {"synced", "syncedAndStopped"}

Goto(c, from, to) == pc[c] = from /\ pc' = [pc EXCEPT ![c] = to]

\* A method returns, and its local variables are gone.
Return(c, from) ==
    /\ Goto(c, from, "idle")
    /\ arg' = [arg EXCEPT ![c] = None]
    /\ due' = [due EXCEPT ![c] = {}]

------------------------------------------------------------------------------
(* Calls.                                                                    *)

Call(c, method, a) ==
    /\ calls < MaxCalls
    /\ calls' = calls + 1
    /\ Goto(c, "idle", method)
    /\ arg' = [arg EXCEPT ![c] = a]
    /\ due' = [due EXCEPT ![c] = IF method = "Start" THEN handed ELSE promised]
    /\ UNCHANGED <<mapVars, informerVars, closed, left, result, handed, promised>>

\* Informer() and Lister() of a type ask the factory for its informer.
Informer(c, t) == Call(c, "InformerFor", t)

\* InformerFor finds the type's informer, or goes on to make one.
Lookup_Unlocked(c) ==    \* mutant: the mutex is taken only to write the map
    /\ pc[c] = "InformerFor"
    /\ LET i == informers[arg[c]] IN
         IF i # None
           THEN Return(c, "InformerFor") /\ handed' = handed \cup {i}
           ELSE Goto(c, "InformerFor", "create") /\ UNCHANGED <<arg, due, handed>>
    /\ UNCHANGED <<mapVars, informerVars, closed, left, result, calls, promised>>

Lookup(c) ==
    /\ pc[c] = "InformerFor" /\ lock = None
    /\ LET i == informers[arg[c]] IN
         IF i # None
           THEN /\ Return(c, "InformerFor")
                /\ handed' = handed \cup {i}
                /\ UNCHANGED lock
           ELSE /\ Goto(c, "InformerFor", "create")
                /\ lock' = c
                /\ UNCHANGED <<arg, due, handed>>
    /\ UNCHANGED <<informers, started, informerVars, closed, left, result, calls, promised>>

NewInformer(t, c) == [type |-> t, maker |-> c]

Create(c) ==
    LET i == NewInformer(arg[c], c) IN
    /\ Return(c, "create")
    /\ informers' = [informers EXCEPT ![arg[c]] = i]
    /\ state' = [state EXCEPT ![i] = "new"]
    /\ handed' = handed \cup {i}
    /\ lock' = None
    /\ UNCHANGED <<started, channel, runs, closed, left, result, calls, promised>>

\* Start visits the informers requested so far, in the order of a Go map: any.
BeginStart(c) ==
    /\ Goto(c, "Start", "starting") /\ lock = None
    /\ lock' = c
    /\ left' = [left EXCEPT ![c] = Requested]
    /\ UNCHANGED <<informers, started, informerVars, closed, arg, result, calls, history>>

StartOne_Forgets(c) ==    \* mutant: startedInformers is not updated
    /\ pc[c] = "starting"
    /\ \E t \in left[c] :
         LET i == informers[t] IN
         /\ left' = [left EXCEPT ![c] = @ \ {t}]
         /\ IF t \in started
              THEN UNCHANGED informerVars
              ELSE /\ runs' = [runs EXCEPT ![i] = @ + 1]
                   /\ state' = [state EXCEPT ![i] = "started"]
                   /\ channel' = [channel EXCEPT ![i] = arg[c]]
    /\ UNCHANGED <<mapVars, closed, pc, arg, result, calls, history>>

StartOne(c) ==
    /\ pc[c] = "starting"
    /\ \E t \in left[c] :
         LET i == informers[t] IN
         /\ left' = [left EXCEPT ![c] = @ \ {t}]
         /\ started' = started \cup {t}
         /\ IF t \in started
              THEN UNCHANGED informerVars
              ELSE /\ runs' = [runs EXCEPT ![i] = @ + 1]
                   /\ state' = [state EXCEPT ![i] = "started"]
                   /\ channel' = [channel EXCEPT ![i] = arg[c]]
    /\ UNCHANGED <<lock, informers, closed, pc, arg, result, calls, history>>

EndStart(c) ==
    /\ left[c] = {}
    /\ Return(c, "starting")
    /\ lock' = None
    /\ promised' = promised \cup due[c]
    /\ UNCHANGED <<informers, started, informerVars, closed, left, result, calls, handed>>

\* WaitForCacheSync copies the started informers and gives the mutex back.
Snapshot_KeepsLock(c) ==    \* mutant: the mutex is not unlocked before the waiting
    /\ Goto(c, "WaitForCacheSync", "check") /\ lock = None
    /\ lock' = c
    /\ left' = [left EXCEPT ![c] = Requested \cap started]
    /\ UNCHANGED <<informers, started, informerVars, closed, arg, result, calls, history>>

Snapshot_All(c) ==    \* mutant: informers that nobody has started are waited for too
    /\ Goto(c, "WaitForCacheSync", "check") /\ lock = None
    /\ left' = [left EXCEPT ![c] = Requested]
    /\ UNCHANGED <<mapVars, informerVars, closed, arg, result, calls, history>>

Snapshot(c) ==
    /\ Goto(c, "WaitForCacheSync", "check") /\ lock = None
    /\ left' = [left EXCEPT ![c] = Requested \cap started]
    /\ UNCHANGED <<mapVars, informerVars, closed, arg, result, calls, history>>

Answer(c, t, sync) ==
    /\ result' = [result EXCEPT ![c][t] = sync]
    /\ left' = [left EXCEPT ![c] = @ \ {t}]

\* Each informer is looked at, then polled until it has synced or the caller's
\* stop channel is closed.
Check(c) ==
    /\ \E t \in left[c] :
         IF HasSynced(informers[t])
           THEN Goto(c, "check", "check") /\ Answer(c, t, "synced")
           ELSE /\ Goto(c, "check", "poll")
                /\ left' = [left EXCEPT ![c] = @ \ {t}]
                /\ result' = [result EXCEPT ![c][t] = "polled"]
    /\ UNCHANGED <<mapVars, informerVars, closed, arg, calls, history>>

Poll_Breaks(c) ==    \* mutant: the first cache that did not sync ends the loop
    /\ Goto(c, "poll", "check")
    /\ \E t \in Types :
         /\ result[c][t] = "polled"
         /\ \/ HasSynced(informers[t]) /\ Answer(c, t, "synced")
            \/ /\ arg[c] \in closed
               /\ result' = [result EXCEPT ![c][t] = "stopped"]
               /\ left' = [left EXCEPT ![c] = {}]
    /\ UNCHANGED <<mapVars, informerVars, closed, arg, calls, history>>

Poll(c) ==
    /\ Goto(c, "poll", "check")
    /\ \E t \in Types :
         /\ result[c][t] = "polled"
         /\ \/ HasSynced(informers[t]) /\ Answer(c, t, "synced")
            \/ arg[c] \in closed /\ Answer(c, t, "stopped")
    /\ UNCHANGED <<mapVars, informerVars, closed, arg, calls, history>>

EndWait(c) ==
    /\ left[c] = {}
    /\ Return(c, "check")
    /\ result' = [result EXCEPT ![c] = NoResult]
    /\ UNCHANGED <<mapVars, informerVars, closed, left, calls, handed, promised>>

------------------------------------------------------------------------------
(* The informers' own goroutines, and whoever owns the stop channels.        *)

\* An informer that was stopped does not run again.
Inform(i) ==
    /\ \/ state[i] = "started" /\ channel[i] \notin closed /\ state' = [state EXCEPT ![i] = "listing"]
       \/ state[i] = "listing" /\ state' = [state EXCEPT ![i] = "synced"]
       \/ /\ channel[i] \in closed
          /\ \/ state[i] \in {"started", "listing"} /\ state' = [state EXCEPT ![i] = "stopped"]
             \/ state[i] = "synced" /\ state' = [state EXCEPT ![i] = "syncedAndStopped"]
    /\ UNCHANGED <<mapVars, channel, runs, closed, callerVars, calls, history>>

Close(ch) ==
    /\ ch \notin closed
    /\ closed' = closed \cup {ch}
    /\ UNCHANGED <<mapVars, informerVars, callerVars, calls, history>>

------------------------------------------------------------------------------

InformerFor(c)      == Lookup(c) \/ Create(c)
Start(c)            == BeginStart(c) \/ StartOne(c) \/ EndStart(c)
WaitForCacheSync(c) == Snapshot(c) \/ Check(c) \/ Poll(c) \/ EndWait(c)
Step(c) == InformerFor(c) \/ Start(c) \/ WaitForCacheSync(c)

Next ==
    \/ \E c \in Callers :
          \/ Step(c)
          \/ \E t \in Types : Informer(c, t)
          \/ \E m \in {"Start", "WaitForCacheSync"}, ch \in Channels : Call(c, m, ch)
    \/ \E i \in Ids : Inform(i)
    \/ \E ch \in Channels : Close(ch)

Spec == Init /\ [][Next]_vars

\* Goroutines are scheduled and lists answered; nobody owes a call or a close.
FairSpec ==
    /\ Spec
    /\ \A c \in Callers : WF_vars(Step(c))
    /\ WF_vars(\E i \in Ids : Inform(i))

------------------------------------------------------------------------------
(* Properties.                                                               *)

\* The variables have their types, and the mutex is held exactly where a
\* caller is inside a section that spans several steps.
TypeOK ==
    /\ lock \in Callers \cup {None}
    /\ informers \in [Types -> Ids \cup {None}]
    /\ started \subseteq Types
    /\ state \in [Ids -> {"absent", "new", "started", "listing", "synced", "stopped", "syncedAndStopped"}]
    /\ channel \in [Ids -> Channels \cup {None}]
    /\ runs \in [Ids -> Nat]
    /\ closed \subseteq Channels
    /\ pc \in [Callers -> {"idle", "InformerFor", "create", "Start", "starting",
                           "WaitForCacheSync", "check", "poll"}]
    /\ arg \in [Callers -> Types \cup Channels \cup {None}]
    /\ left \in [Callers -> SUBSET Types]
    /\ result \in [Callers -> [Types -> {"none", "polled", "synced", "stopped"}]]
    /\ calls \in 0 .. MaxCalls
    /\ handed \subseteq Ids /\ promised \subseteq Ids
    /\ due \in [Callers -> SUBSET Ids]
    /\ \A c \in Callers : lock = c <=> pc[c] \in {"create", "starting"}

\* All who ask for a type get the same informer, whenever and from wherever
\* they ask (InformerFor): a second one would have a cache nobody fills.
OneInformerPerType == \A i, j \in handed : i.type = j.type => i = j

\* "This allows Start() to be called multiple times safely" (factory.go): no
\* informer is ever run by two goroutines, and one handed out before a Start
\* was called is run when that Start has returned.
StartedOnce ==
    /\ \A i \in Ids : runs[i] <= 1
    /\ \A i \in promised : runs[i] = 1

\* "WaitForCacheSync waits for all started informers' cache were synced": it
\* answers for each informer that a Start before it had to run, and says synced
\* only of a cache that is.
WaitCoversStarted ==
    [][\A c \in Callers : EndWait(c) =>
         \A i \in due[c] : \/ result[c][i.type] = "synced" /\ HasSynced(i)
                           \/ result[c][i.type] = "stopped" /\ arg[c] \in closed]_vars

\* Every call returns, also while others wait for caches to sync; only
\* WaitForCacheSync may stay, past its snapshot, when an informer was stopped
\* before it synced: no later Start runs that one again, and who waits with a
\* stop channel that stays open waits for ever.
CallsReturn ==
    \A c \in Callers :
       pc[c] # "idle" ~> \/ pc[c] = "idle"
                         \/ /\ pc[c] \in {"check", "poll"}
                            /\ \E i \in handed : state[i] = "stopped"

==============================================================================
