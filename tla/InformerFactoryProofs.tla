------------------------ MODULE InformerFactoryProofs ------------------------
(* Theorems about InformerFactory, for all sets of goroutines, types and     *)
(* stop channels, and any number of calls.                                   *)
EXTENDS InformerFactory, TLAPS

\* The factory's map holds one informer per type, the only one handed out, and
\* it is run once it is marked as started.
MapInv ==
    /\ \A t \in Types : informers[t] # None => informers[t].type = t
    /\ \A i \in handed : informers[i.type] = i
    /\ started \subseteq Requested

RunInv ==
    \A i \in Ids : runs[i] = IF informers[i.type] = i /\ i.type \in started THEN 1 ELSE 0

PromiseInv ==
    /\ promised \subseteq handed
    /\ \A i \in promised : i.type \in started

\* Who is about to make an informer has found none; who starts informers has
\* still to visit those that are due and not started.
LockedInv(c) ==
    /\ pc[c] \in {"InformerFor", "create"} => arg[c] \in Types
    /\ pc[c] = "create" => informers[arg[c]] = None
    /\ pc[c] \in {"Start", "starting"} => arg[c] \in Channels /\ due[c] \subseteq handed
    /\ pc[c] = "starting" => /\ left[c] \subseteq Requested
                             /\ \A i \in due[c] : i.type \in left[c] \cup started

\* Who waits has an answer for each informer that is due, or it is still to
\* come; an answer stays true.
WaitInv(c) ==
    /\ pc[c] \in {"WaitForCacheSync", "check", "poll"} => due[c] \subseteq promised
    /\ pc[c] \in {"check", "poll"} =>
         /\ left[c] \subseteq started
         /\ \A i \in due[c] : i.type \in left[c] \/ result[c][i.type] # "none"
    /\ pc[c] \notin {"check", "poll"} => result[c] = NoResult
    /\ \A t \in Types : result[c][t] = "polled" => pc[c] = "poll" /\ t \in started
    /\ \A t, u \in Types : result[c][t] = "polled" /\ result[c][u] = "polled" => t = u
    /\ \A t \in Types : result[c][t] = "synced" => t \in started /\ HasSynced(informers[t])
    /\ \A t \in Types : result[c][t] = "stopped" => arg[c] \in closed

FactoryInv ==
    /\ TypeOK /\ MapInv /\ RunInv /\ PromiseInv
    /\ \A c \in Callers : LockedInv(c) /\ WaitInv(c)

------------------------------------------------------------------------------

\* The factory starts in the invariant.
LEMMA FactoryInit == Init => FactoryInv
  BY FactoryAssumption
  DEF Init, FactoryInv, TypeOK, MapInv, RunInv, PromiseInv, LockedInv, WaitInv, Requested,
      NoResult, Ids

\* What an answer for one type does to the answers of all callers.
LEMMA OneAnswer ==
    ASSUME NEW R, NEW f \in [Callers -> [Types -> R]],
           NEW c \in Callers, NEW t \in Types, NEW x \in R,
           NEW g, g = [f EXCEPT ![c][t] = x]
    PROVE  /\ g \in [Callers -> [Types -> R]]
           /\ g[c][t] = x
           /\ \A u \in Types : u # t => g[c][u] = f[c][u]
           /\ \A d \in Callers : d # c => g[d] = f[d]
<1> DEFINE h == [f[c] EXCEPT ![t] = x]
<1>1. h \in [Types -> R] /\ h[t] = x /\ \A u \in Types : u # t => h[u] = f[c][u]
  OBVIOUS
<1>2. g = [f EXCEPT ![c] = h]
  OBVIOUS
<1> HIDE DEF h
<1> QED
  BY <1>1, <1>2

\* No step of a caller, an informer or the owner of a channel leaves it.
LEMMA FactoryStep == FactoryInv /\ [Next]_vars => FactoryInv'
<1> SUFFICES ASSUME FactoryInv, [Next]_vars PROVE FactoryInv'
  OBVIOUS
<1>t. /\ TypeOK /\ MapInv /\ RunInv /\ PromiseInv
      /\ \A d \in Callers : LockedInv(d) /\ WaitInv(d)
  BY DEF FactoryInv
<1>1. ASSUME NEW c \in Callers, NEW t \in Types, Informer(c, t)
      PROVE  FactoryInv'
  <2>1. TypeOK'
    BY <1>t, <1>1, FactoryAssumption
    DEF Informer, Call, Goto, TypeOK, mapVars, informerVars
  <2>2. MapInv'
    BY <1>t, <1>1 DEF Informer, Call, MapInv, Requested, mapVars
  <2>3. RunInv'
    BY <1>t, <1>1 DEF Informer, Call, RunInv, mapVars, informerVars
  <2>4. PromiseInv'
    BY <1>t, <1>1 DEF Informer, Call, PromiseInv, mapVars
  <2>5. ASSUME NEW d \in Callers PROVE LockedInv(d)'
    BY <1>t, <1>1
    DEF Informer, Call, Goto, TypeOK, LockedInv, Requested, mapVars
  <2>6. ASSUME NEW d \in Callers PROVE WaitInv(d)'
    BY <1>t, <1>1
    DEF Informer, Call, Goto, WaitInv, HasSynced, NoResult, mapVars, informerVars
  <2> QED
    BY <2>1, <2>2, <2>3, <2>4, <2>5, <2>6 DEF FactoryInv
<1>2. ASSUME NEW c \in Callers, NEW ch \in Channels, Call(c, "Start", ch)
      PROVE  FactoryInv'
  <2>1. TypeOK'
    BY <1>t, <1>2, FactoryAssumption
    DEF Call, Goto, TypeOK, mapVars, informerVars
  <2>2. MapInv'
    BY <1>t, <1>2 DEF Call, MapInv, Requested, mapVars
  <2>3. RunInv'
    BY <1>t, <1>2 DEF Call, RunInv, mapVars, informerVars
  <2>4. PromiseInv'
    BY <1>t, <1>2 DEF Call, PromiseInv, mapVars
  <2>5. ASSUME NEW d \in Callers PROVE LockedInv(d)'
    BY <1>t, <1>2 DEF Call, Goto, TypeOK, LockedInv, Requested, mapVars
  <2>6. ASSUME NEW d \in Callers PROVE WaitInv(d)'
    BY <1>t, <1>2
    DEF Call, Goto, WaitInv, HasSynced, NoResult, mapVars, informerVars
  <2> QED
    BY <2>1, <2>2, <2>3, <2>4, <2>5, <2>6 DEF FactoryInv
<1>3. ASSUME NEW c \in Callers, NEW ch \in Channels, Call(c, "WaitForCacheSync", ch)
      PROVE  FactoryInv'
  <2>1. TypeOK'
    BY <1>t, <1>3, FactoryAssumption
    DEF Call, Goto, TypeOK, mapVars, informerVars
  <2>2. MapInv'
    BY <1>t, <1>3 DEF Call, MapInv, Requested, mapVars
  <2>3. RunInv'
    BY <1>t, <1>3 DEF Call, RunInv, mapVars, informerVars
  <2>4. PromiseInv'
    BY <1>t, <1>3 DEF Call, PromiseInv, mapVars
  <2>5. ASSUME NEW d \in Callers PROVE LockedInv(d)'
    BY <1>t, <1>3 DEF Call, Goto, LockedInv, Requested, mapVars
  <2>6. ASSUME NEW d \in Callers PROVE WaitInv(d)'
    BY <1>t, <1>3
    DEF Call, Goto, TypeOK, WaitInv, HasSynced, NoResult, mapVars, informerVars
  <2> QED
    BY <2>1, <2>2, <2>3, <2>4, <2>5, <2>6 DEF FactoryInv
<1>4. ASSUME NEW c \in Callers, Lookup(c)
      PROVE  FactoryInv'
  <2>1. TypeOK'
    <3>1. CASE informers[arg[c]] # None
      <4>1. /\ informers[arg[c]] \in Ids
            /\ pc' = [pc EXCEPT ![c] = "idle"] /\ arg' = [arg EXCEPT ![c] = None]
            /\ due' = [due EXCEPT ![c] = {}]
            /\ handed' = handed \cup {informers[arg[c]]}
            /\ pc[c] = "InformerFor" /\ UNCHANGED lock
        BY <1>t, <1>4, <3>1 DEF Lookup, Goto, Return, TypeOK, LockedInv
      <4> QED
        BY <1>t, <1>4, <4>1 DEF Lookup, TypeOK, informerVars
    <3>2. CASE informers[arg[c]] = None
      BY <1>t, <1>4, <3>2, FactoryAssumption
      DEF Lookup, Goto, TypeOK, informerVars
    <3> QED
      BY <3>1, <3>2
  <2>2. MapInv'
    BY <1>t, <1>4 DEF Lookup, MapInv, LockedInv, Requested
  <2>3. RunInv'
    BY <1>t, <1>4 DEF Lookup, RunInv, informerVars
  <2>4. PromiseInv'
    BY <1>t, <1>4 DEF Lookup, PromiseInv
  <2>5. ASSUME NEW d \in Callers PROVE LockedInv(d)'
    BY <1>t, <1>4, FactoryAssumption
    DEF Lookup, Goto, Return, TypeOK, MapInv, LockedInv, Requested
  <2>6. ASSUME NEW d \in Callers PROVE WaitInv(d)'
    <3>1. WaitInv(d) /\ UNCHANGED <<result, left, started, informers, state, closed, promised>>
      BY <1>t, <1>4 DEF Lookup, informerVars
    <3>2. d # c => UNCHANGED <<pc[d], due[d], arg[d]>>
      BY <1>t, <1>4 DEF Lookup, Goto, Return, TypeOK
    <3>3. result[c] = NoResult /\ pc'[c] \in {"idle", "create"}
      BY <1>t, <1>4 DEF Lookup, Goto, Return, TypeOK, WaitInv
    <3> QED
      BY <3>1, <3>2, <3>3 DEF WaitInv, HasSynced, NoResult
  <2> QED
    BY <2>1, <2>2, <2>3, <2>4, <2>5, <2>6 DEF FactoryInv
<1>5. ASSUME NEW c \in Callers, Create(c)
      PROVE  FactoryInv'
  <2>1. TypeOK'
    BY <1>t, <1>5, FactoryAssumption
    DEF Create, NewInformer, Goto, Return, TypeOK, LockedInv, Ids
  <2>2. MapInv'
    BY <1>t, <1>5, FactoryAssumption
    DEF Create, NewInformer, Goto, Return, TypeOK, MapInv, LockedInv, Requested
  <2>3. RunInv'
    BY <1>t, <1>5
    DEF Create, Goto, Return, MapInv, RunInv, LockedInv, Requested
  <2>4. PromiseInv'
    BY <1>t, <1>5 DEF Create, PromiseInv
  <2>5. ASSUME NEW d \in Callers PROVE LockedInv(d)'
    BY <1>t, <1>5 DEF Create, Goto, Return, TypeOK, LockedInv
  <2>6. ASSUME NEW d \in Callers PROVE WaitInv(d)'
    BY <1>t, <1>5
    DEF Create, NewInformer, Goto, Return, MapInv, LockedInv, WaitInv, HasSynced, NoResult, Requested
  <2> QED
    BY <2>1, <2>2, <2>3, <2>4, <2>5, <2>6 DEF FactoryInv
<1>6. ASSUME NEW c \in Callers, BeginStart(c)
      PROVE  FactoryInv'
  <2>1. TypeOK'
    BY <1>t, <1>6, FactoryAssumption
    DEF BeginStart, Goto, TypeOK, Requested, informerVars, history
  <2>2. MapInv'
    BY <1>t, <1>6 DEF BeginStart, MapInv, Requested, history
  <2>3. RunInv'
    BY <1>t, <1>6 DEF BeginStart, RunInv, informerVars
  <2>4. PromiseInv'
    BY <1>t, <1>6 DEF BeginStart, PromiseInv, history
  <2>5. ASSUME NEW d \in Callers PROVE LockedInv(d)'
    BY <1>t, <1>6, FactoryAssumption
    DEF BeginStart, Goto, TypeOK, MapInv, LockedInv, Requested, Ids, history
  <2>6. ASSUME NEW d \in Callers PROVE WaitInv(d)'
    BY <1>t, <1>6
    DEF BeginStart, Goto, WaitInv, HasSynced, informerVars, history
  <2> QED
    BY <2>1, <2>2, <2>3, <2>4, <2>5, <2>6 DEF FactoryInv
<1>7. ASSUME NEW c \in Callers, StartOne(c)
      PROVE  FactoryInv'
  <2>t. \A t \in left[c] : t \in Types /\ informers[t] \in Ids /\ informers[t].type = t
    BY <1>t, <1>7 DEF StartOne, TypeOK, MapInv, LockedInv, Requested
  <2>1. TypeOK'
    <3>1. PICK t \in left[c] :
             /\ left' = [left EXCEPT ![c] = @ \ {t}]
             /\ started' = started \cup {t}
             /\ \/ UNCHANGED informerVars
                \/ /\ runs' = [runs EXCEPT ![informers[t]] = @ + 1]
                   /\ state' = [state EXCEPT ![informers[t]] = "started"]
                   /\ channel' = [channel EXCEPT ![informers[t]] = arg[c]]
      BY <1>7 DEF StartOne
    <3>2. arg[c] \in Channels /\ t \in Types
      BY <1>t, <1>7, <2>t DEF StartOne, LockedInv
    <3>3. runs' \in [Ids -> Nat]
      BY <1>t, <3>1 DEF TypeOK, informerVars
    <3>4. state' \in [Ids -> {"absent", "new", "started", "listing", "synced", "stopped", "syncedAndStopped"}]
      BY <1>t, <3>1 DEF TypeOK, informerVars
    <3>5. channel' \in [Ids -> Channels \cup {None}]
      BY <1>t, <3>1, <3>2 DEF TypeOK, informerVars
    <3> QED
      BY <1>t, <1>7, <3>1, <3>2, <3>3, <3>4, <3>5 DEF StartOne, TypeOK, history
  <2>2. MapInv'
    BY <1>t, <1>7 DEF StartOne, MapInv, LockedInv, Requested, history
  <2>3. RunInv'
    <3>1. PICK t \in left[c] :
             /\ started' = started \cup {t}
             /\ runs' = IF t \in started THEN runs ELSE [runs EXCEPT ![informers[t]] = @ + 1]
      BY <1>7 DEF StartOne, informerVars
    <3>2. informers' = informers /\ informers[t] \in Ids /\ informers[t].type = t
      BY <1>7, <2>t DEF StartOne
    <3> QED
      BY <1>t, <3>1, <3>2 DEF RunInv, TypeOK
  <2>4. PromiseInv'
    BY <1>t, <1>7 DEF StartOne, PromiseInv, history
  <2>5. ASSUME NEW d \in Callers PROVE LockedInv(d)'
    BY <1>t, <1>7 DEF StartOne, LockedInv, Requested, history
  <2>6. ASSUME NEW d \in Callers PROVE WaitInv(d)'
    <3>1. /\ WaitInv(d)
          /\ UNCHANGED <<result, pc, due, arg, informers, closed, promised>>
          /\ started \subseteq started'
      BY <1>t, <1>7 DEF StartOne, history
    <3>2. pc[d] \in {"check", "poll"} => left'[d] = left[d]
      BY <1>t, <1>7 DEF StartOne, TypeOK
    <3>3. \A t \in Types : t \in started => state'[informers[t]] = state[informers[t]]
      BY <1>t, <1>7, <2>t DEF StartOne, TypeOK, MapInv, Requested, informerVars
    <3> QED
      BY <3>1, <3>2, <3>3 DEF WaitInv, HasSynced
  <2> QED
    BY <2>1, <2>2, <2>3, <2>4, <2>5, <2>6 DEF FactoryInv
<1>8. ASSUME NEW c \in Callers, EndStart(c)
      PROVE  FactoryInv'
  <2>1. TypeOK'
    BY <1>t, <1>8, FactoryAssumption
    DEF EndStart, Goto, Return, TypeOK, informerVars
  <2>2. MapInv'
    BY <1>t, <1>8 DEF EndStart, MapInv, Requested
  <2>3. RunInv'
    BY <1>t, <1>8 DEF EndStart, RunInv, informerVars
  <2>4. PromiseInv'
    BY <1>t, <1>8 DEF EndStart, Goto, Return, PromiseInv, LockedInv
  <2>5. ASSUME NEW d \in Callers PROVE LockedInv(d)'
    BY <1>t, <1>8 DEF EndStart, Goto, Return, TypeOK, LockedInv
  <2>6. ASSUME NEW d \in Callers PROVE WaitInv(d)'
    BY <1>t, <1>8
    DEF EndStart, Goto, Return, WaitInv, HasSynced, NoResult, informerVars
  <2> QED
    BY <2>1, <2>2, <2>3, <2>4, <2>5, <2>6 DEF FactoryInv
<1>9. ASSUME NEW c \in Callers, Snapshot(c)
      PROVE  FactoryInv'
  <2>1. TypeOK'
    BY <1>t, <1>9 DEF Snapshot, Goto, TypeOK, mapVars, informerVars, history
  <2>2. MapInv'
    BY <1>t, <1>9 DEF Snapshot, MapInv, Requested, mapVars, history
  <2>3. RunInv'
    BY <1>t, <1>9 DEF Snapshot, RunInv, mapVars, informerVars
  <2>4. PromiseInv'
    BY <1>t, <1>9 DEF Snapshot, PromiseInv, mapVars, history
  <2>5. ASSUME NEW d \in Callers PROVE LockedInv(d)'
    BY <1>t, <1>9 DEF Snapshot, Goto, LockedInv, Requested, mapVars, history
  <2>6. ASSUME NEW d \in Callers PROVE WaitInv(d)'
    BY <1>t, <1>9
    DEF Snapshot, Goto, TypeOK, MapInv, PromiseInv, WaitInv, HasSynced, mapVars, informerVars, history
  <2> QED
    BY <2>1, <2>2, <2>3, <2>4, <2>5, <2>6 DEF FactoryInv
<1>10. ASSUME NEW c \in Callers, Check(c)
      PROVE  FactoryInv'
  <2>a. PICK t \in left[c] :
           \/ /\ HasSynced(informers[t])
              /\ pc' = [pc EXCEPT ![c] = "check"]
              /\ result' = [result EXCEPT ![c][t] = "synced"]
              /\ left' = [left EXCEPT ![c] = @ \ {t}]
           \/ /\ pc' = [pc EXCEPT ![c] = "poll"]
              /\ result' = [result EXCEPT ![c][t] = "polled"]
              /\ left' = [left EXCEPT ![c] = @ \ {t}]
    BY <1>10 DEF Check, Goto, Answer
  <2>b. pc[c] = "check" /\ t \in Types
    BY <1>t, <1>10, <2>a DEF Check, Goto, TypeOK
  <2>c. /\ result' \in [Callers -> [Types -> {"none", "polled", "synced", "stopped"}]]
        /\ result'[c][t] \in {"synced", "polled"}
        /\ \A u \in Types : u # t => result'[c][u] = result[c][u]
        /\ \A d \in Callers : d # c => result'[d] = result[d]
    <3> DEFINE R == {"none", "polled", "synced", "stopped"}
    <3>1. result \in [Callers -> [Types -> R]]
      BY <1>t DEF TypeOK
    <3>2. PICK x \in {"synced", "polled"} : result' = [result EXCEPT ![c][t] = x]
      BY <2>a
    <3>3. x \in R
      OBVIOUS
    <3> HIDE DEF R
    <3>4. /\ result' \in [Callers -> [Types -> R]]
          /\ result'[c][t] = x
          /\ \A u \in Types : u # t => result'[c][u] = result[c][u]
          /\ \A d \in Callers : d # c => result'[d] = result[d]
      BY <2>b, <3>1, <3>2, <3>3, OneAnswer
    <3> QED
      BY <3>2, <3>4 DEF R
  <2>d. /\ result'[c][t] = "synced" => HasSynced(informers[t])
        /\ pc'[c] = IF result'[c][t] = "polled" THEN "poll" ELSE "check"
        /\ t \in left[c]
        /\ left' = [left EXCEPT ![c] = @ \ {t}]
        /\ pc' \in [Callers -> {"idle", "InformerFor", "create", "Start", "starting",
                               "WaitForCacheSync", "check", "poll"}]
        /\ \A d \in Callers : d # c => pc'[d] = pc[d]
    BY <1>t, <2>a, <2>b, <2>c DEF TypeOK
  <2>1. TypeOK'
    BY <1>t, <1>10, <2>b, <2>c, <2>d
    DEF Check, TypeOK, mapVars, informerVars, history
  <2>2. MapInv'
    BY <1>t, <1>10 DEF Check, MapInv, Requested, mapVars, history
  <2>3. RunInv'
    BY <1>t, <1>10 DEF Check, RunInv, mapVars, informerVars
  <2>4. PromiseInv'
    BY <1>t, <1>10 DEF Check, PromiseInv, mapVars, history
  <2>5. ASSUME NEW d \in Callers PROVE LockedInv(d)'
    BY <1>t, <1>10
    DEF Check, Goto, Answer, TypeOK, LockedInv, Requested, mapVars, history
  <2>6. ASSUME NEW d \in Callers PROVE WaitInv(d)'
    <3>1. UNCHANGED <<promised, started, state, informers, closed, arg, due>>
      BY <1>10 DEF Check, mapVars, informerVars, history
    <3>2. CASE d = c
      <4>1. WaitInv(c) /\ UNCHANGED <<arg[c], due[c]>> /\ \A i \in due[c] : i.type \in Types
        BY <1>t, <3>1 DEF TypeOK, Ids
      <4>2. left'[c] = left[c] \ {t} /\ pc'[c] \in {"check", "poll"}
        BY <1>t, <2>d DEF TypeOK
      <4>3. \A i \in due'[c] : i.type \in left'[c] \/ result'[c][i.type] # "none"
        BY <2>b, <2>c, <4>1, <4>2 DEF WaitInv
      <4>4. \A u \in Types : result'[c][u] = "polled" => u = t /\ pc'[c] = "poll" /\ t \in started
        BY <2>b, <2>c, <2>d, <4>1 DEF WaitInv
      <4>5. \A u \in Types : result'[c][u] = "synced" => u \in started /\ HasSynced(informers[u])
        BY <2>b, <2>c, <2>d, <4>1 DEF WaitInv
      <4>6. \A u \in Types : result'[c][u] = "stopped" => arg[c] \in closed
        BY <2>b, <2>c, <2>d, <4>1 DEF WaitInv
      <4> QED
        BY <2>b, <3>1, <3>2, <4>1, <4>2, <4>3, <4>4, <4>5, <4>6
        DEF WaitInv, HasSynced
    <3>3. CASE d # c
      <4>1. UNCHANGED <<pc[d], left[d], result[d]>>
        BY <1>t, <2>a, <2>c, <3>3 DEF TypeOK
      <4> QED
        BY <1>t, <3>1, <4>1 DEF WaitInv, HasSynced
    <3> QED
      BY <3>2, <3>3
  <2> QED
    BY <2>1, <2>2, <2>3, <2>4, <2>5, <2>6 DEF FactoryInv
<1>11. ASSUME NEW c \in Callers, Poll(c)
      PROVE  FactoryInv'
  <2>a. PICK t \in Types :
           /\ result[c][t] = "polled"
           /\ \/ HasSynced(informers[t]) /\ result' = [result EXCEPT ![c][t] = "synced"]
              \/ arg[c] \in closed /\ result' = [result EXCEPT ![c][t] = "stopped"]
           /\ left' = [left EXCEPT ![c] = @ \ {t}]
    BY <1>11 DEF Poll, Answer
  <2>b. pc[c] = "poll" /\ pc' = [pc EXCEPT ![c] = "check"]
    BY <1>11 DEF Poll, Goto
  <2>c. /\ result' \in [Callers -> [Types -> {"none", "polled", "synced", "stopped"}]]
        /\ result'[c][t] \in {"synced", "stopped"}
        /\ \A u \in Types : u # t => result'[c][u] = result[c][u]
        /\ \A d \in Callers : d # c => result'[d] = result[d]
    <3> DEFINE R == {"none", "polled", "synced", "stopped"}
    <3>1. result \in [Callers -> [Types -> R]]
      BY <1>t DEF TypeOK
    <3>2. PICK x \in {"synced", "stopped"} : result' = [result EXCEPT ![c][t] = x]
      BY <2>a
    <3>3. x \in R
      OBVIOUS
    <3> HIDE DEF R
    <3>4. /\ result' \in [Callers -> [Types -> R]]
          /\ result'[c][t] = x
          /\ \A u \in Types : u # t => result'[c][u] = result[c][u]
          /\ \A d \in Callers : d # c => result'[d] = result[d]
      BY <2>b, <3>1, <3>2, <3>3, OneAnswer
    <3> QED
      BY <3>2, <3>4 DEF R
  <2>d. /\ result'[c][t] = "synced" => HasSynced(informers[t])
        /\ result[c][t] = "polled" /\ pc'[c] = "check"
        /\ result'[c][t] = "stopped" => arg[c] \in closed
        /\ left' = [left EXCEPT ![c] = @ \ {t}]
        /\ pc' \in [Callers -> {"idle", "InformerFor", "create", "Start", "starting",
                               "WaitForCacheSync", "check", "poll"}]
        /\ \A d \in Callers : d # c => pc'[d] = pc[d]
    BY <1>t, <2>a, <2>b, <2>c DEF TypeOK
  <2>1. TypeOK'
    BY <1>t, <1>11, <2>a, <2>b, <2>c
    DEF Poll, TypeOK, mapVars, informerVars, history
  <2>2. MapInv'
    BY <1>t, <1>11 DEF Poll, MapInv, Requested, mapVars, history
  <2>3. RunInv'
    BY <1>t, <1>11 DEF Poll, RunInv, mapVars, informerVars
  <2>4. PromiseInv'
    BY <1>t, <1>11 DEF Poll, PromiseInv, mapVars, history
  <2>5. ASSUME NEW d \in Callers PROVE LockedInv(d)'
    BY <1>t, <1>11
    DEF Poll, Goto, Answer, TypeOK, LockedInv, Requested, mapVars, history
  <2>6. ASSUME NEW d \in Callers PROVE WaitInv(d)'
    <3>1. UNCHANGED <<promised, started, state, informers, closed, arg, due>>
      BY <1>11 DEF Poll, mapVars, informerVars, history
    <3>2. CASE d = c
      <4>1. WaitInv(c) /\ UNCHANGED <<arg[c], due[c]>> /\ \A i \in due[c] : i.type \in Types
        BY <1>t, <3>1 DEF TypeOK, Ids
      <4>2. left'[c] = left[c] \ {t} /\ pc'[c] \in {"check", "poll"}
        BY <1>t, <2>d DEF TypeOK
      <4>3. \A i \in due'[c] : i.type \in left'[c] \/ result'[c][i.type] # "none"
        BY <2>b, <2>c, <4>1, <4>2 DEF WaitInv
      <4>4. \A u \in Types : result'[c][u] = "polled" => u = t /\ pc'[c] = "poll" /\ t \in started
        BY <2>b, <2>c, <2>d, <4>1 DEF WaitInv
      <4>5. \A u \in Types : result'[c][u] = "synced" => u \in started /\ HasSynced(informers[u])
        BY <2>b, <2>c, <2>d, <4>1 DEF WaitInv
      <4>6. \A u \in Types : result'[c][u] = "stopped" => arg[c] \in closed
        BY <2>b, <2>c, <2>d, <4>1 DEF WaitInv
      <4> QED
        BY <2>b, <3>1, <3>2, <4>1, <4>2, <4>3, <4>4, <4>5, <4>6
        DEF WaitInv, HasSynced
    <3>3. CASE d # c
      <4>1. UNCHANGED <<pc[d], left[d], result[d]>>
        BY <1>t, <2>a, <2>b, <2>c, <3>3 DEF TypeOK
      <4> QED
        BY <1>t, <3>1, <4>1 DEF WaitInv, HasSynced
    <3> QED
      BY <3>2, <3>3
  <2> QED
    BY <2>1, <2>2, <2>3, <2>4, <2>5, <2>6 DEF FactoryInv
<1>12. ASSUME NEW c \in Callers, EndWait(c)
      PROVE  FactoryInv'
  <2>1. TypeOK'
    <3>1. result' \in [Callers -> [Types -> {"none", "polled", "synced", "stopped"}]]
      BY <1>t, <1>12 DEF EndWait, TypeOK, NoResult
    <3> QED
      BY <1>t, <1>12, <3>1
      DEF EndWait, Return, Goto, TypeOK, mapVars, informerVars
  <2>2. MapInv'
    BY <1>t, <1>12 DEF EndWait, MapInv, Requested, mapVars
  <2>3. RunInv'
    BY <1>t, <1>12 DEF EndWait, RunInv, mapVars, informerVars
  <2>4. PromiseInv'
    BY <1>t, <1>12 DEF EndWait, PromiseInv, mapVars
  <2>5. ASSUME NEW d \in Callers PROVE LockedInv(d)'
    BY <1>t, <1>12 DEF EndWait, Goto, Return, LockedInv, Requested, mapVars
  <2>6. ASSUME NEW d \in Callers PROVE WaitInv(d)'
    BY <1>t, <1>12
    DEF EndWait, Goto, Return, TypeOK, WaitInv, HasSynced, NoResult, mapVars, informerVars
  <2> QED
    BY <2>1, <2>2, <2>3, <2>4, <2>5, <2>6 DEF FactoryInv
<1>13. ASSUME NEW j \in Ids, Inform(j)
      PROVE  FactoryInv'
  <2>1. TypeOK'
    <3>1. state' \in [Ids -> {"absent", "new", "started", "listing", "synced", "stopped", "syncedAndStopped"}]
      BY <1>t, <1>13 DEF Inform, TypeOK
    <3> QED
      BY <1>t, <1>13, <3>1 DEF Inform, TypeOK, mapVars, callerVars, history
  <2>2. MapInv'
    BY <1>t, <1>13 DEF Inform, MapInv, Requested, mapVars, history
  <2>3. RunInv'
    BY <1>t, <1>13 DEF Inform, RunInv, mapVars
  <2>4. PromiseInv'
    BY <1>t, <1>13 DEF Inform, PromiseInv, mapVars, history
  <2>5. ASSUME NEW d \in Callers PROVE LockedInv(d)'
    BY <1>t, <1>13
    DEF Inform, LockedInv, Requested, mapVars, callerVars, history
  <2>6. ASSUME NEW d \in Callers PROVE WaitInv(d)'
    <3>1. WaitInv(d) /\ UNCHANGED <<pc, arg, left, result, due, promised, started, informers, closed>>
      BY <1>t, <1>13 DEF Inform, mapVars, callerVars, history
    <3>2. \A t \in Types : t \in started /\ HasSynced(informers[t]) => HasSynced(informers[t])'
      BY <1>t, <1>13, <3>1 DEF Inform, TypeOK, MapInv, Requested, HasSynced
    <3> QED
      BY <3>1, <3>2 DEF WaitInv
  <2> QED
    BY <2>1, <2>2, <2>3, <2>4, <2>5, <2>6 DEF FactoryInv
<1>14. ASSUME NEW ch \in Channels, Close(ch)
      PROVE  FactoryInv'
  <2>1. TypeOK'
    BY <1>t, <1>14
    DEF Close, TypeOK, mapVars, informerVars, callerVars, history
  <2>2. MapInv'
    BY <1>t, <1>14 DEF Close, MapInv, Requested, mapVars, history
  <2>3. RunInv'
    BY <1>t, <1>14 DEF Close, RunInv, mapVars, informerVars
  <2>4. PromiseInv'
    BY <1>t, <1>14 DEF Close, PromiseInv, mapVars, history
  <2>5. ASSUME NEW d \in Callers PROVE LockedInv(d)'
    BY <1>t, <1>14
    DEF Close, LockedInv, Requested, mapVars, callerVars, history
  <2>6. ASSUME NEW d \in Callers PROVE WaitInv(d)'
    BY <1>t, <1>14
    DEF Close, WaitInv, HasSynced, mapVars, informerVars, callerVars, history
  <2> QED
    BY <2>1, <2>2, <2>3, <2>4, <2>5, <2>6 DEF FactoryInv
<1>15. CASE UNCHANGED vars
  <2>1. TypeOK'
    BY <1>t, <1>15 DEF vars, TypeOK, mapVars, informerVars, callerVars, history
  <2>2. MapInv'
    BY <1>t, <1>15 DEF vars, MapInv, Requested, mapVars, history
  <2>3. RunInv'
    BY <1>t, <1>15 DEF vars, RunInv, mapVars, informerVars
  <2>4. PromiseInv'
    BY <1>t, <1>15 DEF vars, PromiseInv, mapVars, history
  <2>5. ASSUME NEW d \in Callers PROVE LockedInv(d)'
    BY <1>t, <1>15 DEF vars, LockedInv, Requested, mapVars, callerVars, history
  <2>6. ASSUME NEW d \in Callers PROVE WaitInv(d)'
    BY <1>t, <1>15
    DEF vars, WaitInv, HasSynced, mapVars, informerVars, callerVars, history
  <2> QED
    BY <2>1, <2>2, <2>3, <2>4, <2>5, <2>6 DEF FactoryInv
<1> QED
  BY <1>1, <1>2, <1>3, <1>4, <1>5, <1>6, <1>7, <1>8, <1>9, <1>10, <1>11, <1>12, <1>13, <1>14, <1>15
  DEF Next, Step, InformerFor, Start, WaitForCacheSync

------------------------------------------------------------------------------

\* In every reachable state of the factory the strengthened invariant holds.
THEOREM FactoryInvariant == Spec => []FactoryInv
<1>1. Init => FactoryInv
  BY FactoryInit
<1>2. FactoryInv /\ [Next]_vars => FactoryInv'
  BY FactoryStep
<1> QED
  BY <1>1, <1>2, PTL DEF Spec

\* The types of the variables, and the mutex is held exactly inside the
\* sections of InformerFor and Start that span several steps.
THEOREM TypeCorrect == Spec => []TypeOK
<1>1. FactoryInv => TypeOK
  BY DEF FactoryInv
<1> QED
  BY <1>1, FactoryInvariant, PTL

\* All who ask the factory for a type get the same informer.
THEOREM InformersAreShared == Spec => []OneInformerPerType
<1>1. FactoryInv => OneInformerPerType
  BY DEF FactoryInv, MapInv, OneInformerPerType
<1> QED
  BY <1>1, FactoryInvariant, PTL

\* However often and from wherever Start is called, no informer runs twice, and
\* those handed out before a Start that is over run.
THEOREM InformersRunOnce == Spec => []StartedOnce
<1>1. ASSUME FactoryInv PROVE StartedOnce
  <2>1. \A i \in Ids : runs[i] = IF informers[i.type] = i /\ i.type \in started THEN 1 ELSE 0
    BY <1>1 DEF FactoryInv, RunInv
  <2>2. \A i \in promised : i \in Ids /\ informers[i.type] = i /\ i.type \in started
    BY <1>1 DEF FactoryInv, PromiseInv, MapInv, TypeOK
  <2> QED
    BY <2>1, <2>2 DEF StartedOnce
<1> QED
  BY <1>1, FactoryInvariant, PTL

\* WaitForCacheSync answers for every informer that an earlier Start had to
\* run, and its answers are true when it returns.
THEOREM WaitingCoversStarted == Spec => WaitCoversStarted
<1> DEFINE Covered(c) ==
      \A i \in due[c] : \/ result[c][i.type] = "synced" /\ HasSynced(i)
                        \/ result[c][i.type] = "stopped" /\ arg[c] \in closed
<1>1. ASSUME FactoryInv, NEW c \in Callers, EndWait(c)
      PROVE  Covered(c)
  <2>1. left[c] = {} /\ pc[c] = "check"
    BY <1>1 DEF EndWait, Return, Goto
  <2>2. WaitInv(c) /\ result[c] \in [Types -> {"none", "polled", "synced", "stopped"}]
    BY <1>1 DEF FactoryInv, TypeOK
  <2>3. \A i \in due[c] : i \in handed /\ i.type \in Types /\ informers[i.type] = i
    BY <1>1, <2>1, <2>2 DEF FactoryInv, WaitInv, PromiseInv, MapInv, TypeOK
  <2>4. \A i \in due[c] : result[c][i.type] \in {"synced", "stopped"}
    BY <2>1, <2>2, <2>3 DEF WaitInv
  <2> QED
    BY <2>2, <2>3, <2>4 DEF WaitInv
<1>2. FactoryInv => [\A c \in Callers : EndWait(c) => Covered(c)]_vars
  BY <1>1
<1> QED
  BY <1>2, FactoryInvariant, PTL DEF WaitCoversStarted

==============================================================================
