--------------------------- MODULE InformerProofs ---------------------------
(* What the operations of an informer preserve, for any objects.             *)
EXTENDS Informer, TLAPS

Step ==
    \/ \E id \in Ids : Emit(id) /\ UNCHANGED <<cache, notify, initial>>
    \/ \E id \in Ids : Pop(id) \/ Notified(id)
    \/ List \/ Resync \/ Restart
    \/ UNCHANGED <<cache, watch, notify, initial>>

\* Every operation of an informer leaves its variables with their types, when
\* the API server stores objects of the type the informer is for.
LEMMA InformerTypes ==
    ASSUME NEW Objects,
           store \in [Ids -> Objects \cup {None}],
           store' \in [Ids -> Objects \cup {None}],
           None \notin Objects,
           InformerTypeOK(Objects),
           Step
    PROVE  InformerTypeOK(Objects)'
<1> DEFINE Events  == Changes(Objects \cup {None})
           Notices == Notifications(Objects)
<1>0. /\ \A o \in Objects \cup {None}, same \in BOOLEAN : Change(o, same) \in Events
      /\ \A e \in Events : e.obj \in Objects \cup {None} /\ e.same \in BOOLEAN
      /\ \A o \in Objects, kind \in Kinds : Notification(o, kind) \in Notices
  BY DEF Change, Changes, Notification,
         Notifications
<1>t. /\ cache \in [Ids -> Objects \cup {None}]
      /\ watch \in [Ids -> Seq(Events)]
      /\ notify \in [Ids -> Seq(Notices)]
      /\ initial \in SUBSET (Ids \cup {None})
  BY DEF InformerTypeOK
<1>s. ASSUME cache' \in [Ids -> Objects \cup {None}],
             watch' \in [Ids -> Seq(Events)],
             notify' \in [Ids -> Seq(Notices)],
             initial' \in SUBSET (Ids \cup {None})
      PROVE  InformerTypeOK(Objects)'
  BY <1>s DEF InformerTypeOK
<1> HIDE DEF Events, Notices
<1>e. \A e \in Events : <<e>> \in Seq(Events)
  OBVIOUS
<1>n. \A e \in Notices : <<e>> \in Seq(Notices)
  OBVIOUS
<1>1. ASSUME NEW id \in Ids, Emit(id), UNCHANGED <<cache, notify, initial>>
      PROVE  InformerTypeOK(Objects)'
  <2> DEFINE e == Change(store'[id], FALSE)
  <2>1. e \in Events
    BY <1>0
  <2>2. watch' = [watch EXCEPT ![id] = Append(@, e)] \/ watch' = watch
    BY <1>1 DEF Emit
  <2> HIDE DEF e
  <2>3. Append(watch[id], e) \in Seq(Events)
    BY <1>t, <2>1
  <2> QED
    BY <1>s, <1>t, <1>1, <2>2, <2>3
<1>2. CASE List
  <2> DEFINE e(j) == Change(store[j], cache[j] # None /\ Caught(j))
             gone == Change(None, FALSE)
             next(j) == IF store[j] # None THEN <<e(j)>>
                        ELSE IF cache[j] # None THEN <<gone>> ELSE <<>>
  <2>1. \A j \in Ids : e(j) \in Events
    BY <1>0 DEF Caught
  <2>2. gone \in Events
    BY <1>0
  <2>3. watch' = [j \in Ids |-> next(j)]
    BY <1>2 DEF List
  <2>4. watch' \in [Ids -> Seq(Events)]
    <3> HIDE DEF e, gone
    <3> QED BY <1>e, <2>1, <2>2, <2>3
  <2>5. initial' \in SUBSET (Ids \cup {None})
    BY <1>t, <1>2 DEF List
  <2> QED
    BY <1>s, <1>t, <1>2, <2>4, <2>5 DEF List
<1>3. ASSUME NEW id \in Ids, Pop(id)
      PROVE  InformerTypeOK(Objects)'
  <2> DEFINE c == Head(watch[id])
  <2>1. watch[id] # <<>> /\ watch[id] \in Seq(Events)
    BY <1>t, <1>3 DEF Pop
  <2>2. c \in Events /\ Tail(watch[id]) \in Seq(Events)
    BY <2>1
  <2>3. c.obj \in Objects \cup {None} /\ c.same \in BOOLEAN
    BY <1>0, <2>2
  <2>4. Told(id, c) \in Seq(Notices)
    BY <1>0, <1>t, <1>n, <2>3 DEF Told, Kinds
  <2>5. notify' \in [Ids -> Seq(Notices)]
    BY <1>t, <1>3, <2>4 DEF Pop
  <2> QED
    BY <1>s, <1>t, <1>3, <2>2, <2>3, <2>5 DEF Pop
<1>4. ASSUME NEW id \in Ids, Notified(id)
      PROVE  InformerTypeOK(Objects)'
  <2>1. notify[id] # <<>> /\ notify[id] \in Seq(Notices)
    BY <1>t, <1>4 DEF Notified
  <2>2. Tail(notify[id]) \in Seq(Notices)
    BY <2>1
  <2> QED
    BY <1>s, <1>t, <1>4, <2>2 DEF Notified
<1>5. CASE Resync
  <2>1. ASSUME NEW j \in Ids, cache[j] # None
        PROVE  Notification(cache[j], "resync") \in Notices
    BY <1>0, <1>t, <2>1 DEF Kinds
  <2>2. notify' \in [Ids -> Seq(Notices)]
    BY <1>5, <1>n, <2>1 DEF Resync
  <2> QED
    BY <1>s, <1>t, <1>5, <2>2 DEF Resync
<1>6. CASE Restart
  BY <1>s, <1>t, <1>6 DEF Restart, EmptyStreams
<1>7. CASE UNCHANGED <<cache, watch, notify, initial>>
  BY <1>s, <1>t, <1>7
<1> QED
  BY <1>1, <1>2, <1>3, <1>4, <1>5, <1>6, <1>7 DEF Step

------------------------------------------------------------------------------
(* What the streams of an informer have to do with its store.  The store     *)
(* changes one object at a time, and the watch reports it.                   *)

Reported(id) ==
    /\ Emit(id)
    /\ UNCHANGED <<cache, notify, initial>>
    /\ \A j \in Ids \ {id} : store'[j] = store[j]

Runs ==
    /\ store' = store
    /\ \/ \E id \in Ids : Pop(id) \/ Notified(id)
       \/ List \/ Resync \/ Restart
       \/ UNCHANGED <<cache, watch, notify, initial>>

\* The watch of an informer, before and after a change is taken from it.
LEMMA PoppedWatch ==
    ASSUME NEW Objects, InformerTypeOK(Objects), NEW id \in Ids, Pop(id)
    PROVE  /\ Len(watch[id]) \in Nat \ {0}
           /\ watch[id][1] \in Changes(Objects \cup {None})
           /\ watch'[id] = Tail(watch[id])
           /\ Len(watch'[id]) = Len(watch[id]) - 1
           /\ watch'[id] # <<>> <=> Len(watch[id]) > 1
           /\ \A i \in 1 .. Len(watch'[id]) : watch'[id][i] = watch[id][i + 1]
           /\ cache'[id] = watch[id][1].obj
           /\ notify'[id] = notify[id] \o Told(id, watch[id][1])
           /\ initial' = initial \ {id}
           /\ \A j \in Ids \ {id} : /\ watch'[j] = watch[j]
                                    /\ cache'[j] = cache[j]
                                    /\ notify'[j] = notify[j]
<1> DEFINE Events  == Changes(Objects \cup {None})
           Notices == Notifications(Objects)
<1>t. /\ cache \in [Ids -> Objects \cup {None}]
      /\ watch \in [Ids -> Seq(Events)]
      /\ notify \in [Ids -> Seq(Notices)]
  BY DEF InformerTypeOK
<1> HIDE DEF Events, Notices
<1>1. /\ watch[id] \in Seq(Events) /\ watch[id] # <<>>
      /\ watch' = [watch EXCEPT ![id] = Tail(@)]
      /\ cache' = [cache EXCEPT ![id] = Head(watch[id]).obj]
      /\ notify' = [notify EXCEPT ![id] = @ \o Told(id, Head(watch[id]))]
      /\ initial' = initial \ {id}
  BY <1>t DEF Pop
<1>2. watch[id][1] \in Events /\ Head(watch[id]) = watch[id][1]
  BY <1>1
<1>3. watch'[id] = Tail(watch[id])
  BY <1>1, <1>t
<1>4. /\ Len(watch[id]) \in Nat \ {0}
      /\ Len(Tail(watch[id])) = Len(watch[id]) - 1
      /\ \A i \in 1 .. Len(Tail(watch[id])) : Tail(watch[id])[i] = watch[id][i + 1]
  BY <1>1
<1>5. Tail(watch[id]) # <<>> <=> Len(watch[id]) > 1
  <2>1. Tail(watch[id]) \in Seq(Events)
    BY <1>1
  <2>2. \A s \in Seq(Events) : s # <<>> <=> Len(s) # 0
    OBVIOUS
  <2>3. Tail(watch[id]) # <<>> <=> Len(Tail(watch[id])) # 0
    BY <2>1, <2>2
  <2>4. \A n \in Nat \ {0} : n - 1 # 0 <=> n > 1
    OBVIOUS
  <2> QED
    BY <1>4, <2>3, <2>4
<1> QED
  BY <1>t, <1>1, <1>2, <1>3, <1>4, <1>5 DEF Events

\* The watch of an informer, before and after a change is reported.
LEMMA ReportedWatch ==
    ASSUME NEW Objects, InformerTypeOK(Objects), NEW id \in Ids, Reported(id)
    PROVE  /\ IF Listed THEN /\ Len(watch[id]) \in Nat
                             /\ Len(watch'[id]) = Len(watch[id]) + 1
                             /\ watch'[id] # <<>>
                             /\ \A i \in 1 .. Len(watch[id]) : watch'[id][i] = watch[id][i]
                             /\ watch'[id][Len(watch[id]) + 1] = Change(store'[id], FALSE)
                        ELSE watch'[id] = watch[id]
           /\ \A j \in Ids \ {id} : watch'[j] = watch[j]
<1> DEFINE Events == Changes(Objects \cup {None})
           e      == Change(store'[id], FALSE)
<1>t. watch \in [Ids -> Seq(Events)] /\ watch[id] \in Seq(Events)
  BY DEF InformerTypeOK
<1>1. watch' = IF Listed THEN [watch EXCEPT ![id] = Append(@, e)] ELSE watch
  BY DEF Reported, Emit
<1> HIDE DEF Events, e
<1>2. CASE Listed
  <2>1. watch'[id] = Append(watch[id], e) /\ \A j \in Ids \ {id} : watch'[j] = watch[j]
    BY <1>t, <1>1, <1>2
  <2>2. /\ Len(watch[id]) \in Nat
        /\ Len(Append(watch[id], e)) = Len(watch[id]) + 1
        /\ Append(watch[id], e) # <<>>
        /\ \A i \in 1 .. Len(watch[id]) : Append(watch[id], e)[i] = watch[id][i]
        /\ Append(watch[id], e)[Len(watch[id]) + 1] = e
    BY <1>t
  <2> QED
    BY <1>2, <2>1, <2>2 DEF e
<1>3. CASE ~Listed
  BY <1>1, <1>3
<1> QED
  BY <1>2, <1>3

\* The changes a list leaves on the watch.
LEMMA ListedWatch ==
    ASSUME List, NEW id \in Ids
    PROVE  /\ watch'[id] # <<>>
                => /\ Len(watch'[id]) = 1
                   /\ watch'[id][1].obj = store[id]
           /\ watch'[id] = <<>> => cache[id] = None /\ store[id] = None
           /\ store[id] # None => watch'[id] # <<>>
           /\ UNCHANGED <<cache, notify>>
BY DEF List, Change

\* Whatever an informer does, its cache stays behind its store by exactly the
\* changes on the watch.
LEMMA FollowsStoreStep ==
    ASSUME NEW Objects, InformerTypeOK(Objects), None \notin Ids,
           FollowsStore,
           Runs \/ \E id \in Ids : Reported(id)
    PROVE  FollowsStore'
<1> USE DEF FollowsStore
<1>i. initial \in SUBSET (Ids \cup {None})
  BY DEF InformerTypeOK
<1>1. ASSUME NEW id \in Ids, Reported(id)
      PROVE  FollowsStore'
  <2>1. Listed' = Listed /\ cache' = cache /\ \A j \in Ids \ {id} : store'[j] = store[j]
    BY <1>1 DEF Reported, Listed
  <2>2. Change(store'[id], FALSE).obj = store'[id]
    BY DEF Change
  <2>3. /\ IF Listed THEN /\ Len(watch[id]) \in Nat
                          /\ Len(watch'[id]) = Len(watch[id]) + 1
                          /\ watch'[id] # <<>>
                          /\ watch'[id][Len(watch[id]) + 1] = Change(store'[id], FALSE)
                     ELSE watch'[id] = watch[id]
        /\ \A j \in Ids \ {id} : watch'[j] = watch[j]
    BY <1>1, ReportedWatch
  <2> QED
    BY <2>1, <2>2, <2>3
<1>2. ASSUME NEW id \in Ids, Pop(id), store' = store
      PROVE  FollowsStore'
  <2>1. Listed' = Listed
    BY <1>2, <1>i DEF Pop, Listed
  <2>2. /\ Len(watch[id]) \in Nat \ {0}
        /\ Len(watch'[id]) = Len(watch[id]) - 1
        /\ watch'[id] # <<>> <=> Len(watch[id]) > 1
        /\ \A i \in 1 .. Len(watch'[id]) : watch'[id][i] = watch[id][i + 1]
        /\ cache'[id] = watch[id][1].obj
    BY <1>2, PoppedWatch
  <2>3. \A j \in Ids \ {id} : watch'[j] = watch[j] /\ cache'[j] = cache[j]
    BY <1>2, PoppedWatch
  <2>4. watch[id] # <<>>
    BY <1>2 DEF Pop
  <2>5. Listed /\ watch[id][Len(watch[id])].obj = store[id]
    BY <2>4
  <2>6. IF watch'[id] = <<>> THEN cache'[id] = store[id]
                             ELSE watch'[id][Len(watch'[id])].obj = store[id]
    <3>1. CASE Len(watch[id]) = 1
      BY <2>2, <2>5, <3>1
    <3>2. CASE Len(watch[id]) > 1
      <4>1. Len(watch'[id]) \in 1 .. Len(watch'[id]) /\ Len(watch'[id]) + 1 = Len(watch[id])
        BY <2>2, <3>2
      <4> QED
        BY <2>2, <2>5, <3>2, <4>1
    <3> QED
      BY <2>2, <3>1, <3>2
  <2> QED
    BY <1>2, <2>1, <2>3, <2>5, <2>6
<1>3. CASE List /\ store' = store
  <2>1. Listed'
    BY <1>3 DEF List, Listed
  <2> QED
    BY <1>3, <2>1, ListedWatch
<1>4. CASE (Resync \/ \E id \in Ids : Notified(id)) /\ store' = store
  BY <1>4 DEF Resync, Notified, Listed
<1>5. CASE Restart
  BY <1>5 DEF Restart, EmptyStreams, Listed
<1>6. CASE UNCHANGED <<cache, watch, notify, initial>> /\ store' = store
  BY <1>6 DEF Listed
<1> QED
  BY <1>1, <1>2, <1>3, <1>4, <1>5, <1>6 DEF Runs

\* What Pop tells the handlers of, and the notifications after it.
LEMMA PoppedNotify ==
    ASSUME NEW Objects, None \notin Objects, InformerTypeOK(Objects), NEW id \in Ids, Pop(id)
    PROVE  LET c    == watch[id][1]
               kind == IF c.obj = None THEN "delete" ELSE IF cache[id] = None THEN "add"
                       ELSE IF c.same THEN "resync" ELSE "update"
               told == Notification(IF c.obj = None THEN cache[id] ELSE c.obj, kind)
           IN  IF c.obj = None /\ cache[id] = None
                 THEN notify'[id] = notify[id]
                 ELSE /\ notify'[id] # <<>>
                      /\ Len(notify[id]) \in Nat
                      /\ Len(notify'[id]) = Len(notify[id]) + 1
                      /\ \A i \in 1 .. Len(notify[id]) : notify'[id][i] = notify[id][i]
                      /\ notify'[id][Len(notify[id]) + 1] = told
<1> DEFINE c    == watch[id][1]
           kind == IF c.obj = None THEN "delete" ELSE IF cache[id] = None THEN "add"
                   ELSE IF c.same THEN "resync" ELSE "update"
           told == Notification(IF c.obj = None THEN cache[id] ELSE c.obj, kind)
           Notices == Notifications(Objects)
<1>1. notify'[id] = notify[id] \o Told(id, c)
  BY PoppedWatch
<1>2. notify[id] \in Seq(Notices)
  BY DEF InformerTypeOK
<1>3. Told(id, c) = IF c.obj = None /\ cache[id] = None THEN <<>> ELSE <<told>>
  BY DEF Told
<1> HIDE DEF c, told, Notices
<1>4. /\ notify[id] \o <<>> = notify[id]
      /\ Len(notify[id]) \in Nat
      /\ notify[id] \o <<told>> = Append(notify[id], told)
      /\ Append(notify[id], told) # <<>>
      /\ Len(Append(notify[id], told)) = Len(notify[id]) + 1
      /\ \A i \in 1 .. Len(notify[id]) : Append(notify[id], told)[i] = notify[id][i]
      /\ Append(notify[id], told)[Len(notify[id]) + 1] = told
  BY <1>2
<1>5. CASE c.obj = None /\ cache[id] = None
  BY <1>1, <1>3, <1>4, <1>5 DEF c
<1>6. CASE ~(c.obj = None /\ cache[id] = None)
  <2>1. notify'[id] = Append(notify[id], told)
    BY <1>1, <1>3, <1>4, <1>6
  <2>2. /\ notify'[id] # <<>>
        /\ Len(notify[id]) \in Nat
        /\ Len(notify'[id]) = Len(notify[id]) + 1
        /\ \A i \in 1 .. Len(notify[id]) : notify'[id][i] = notify[id][i]
        /\ notify'[id][Len(notify[id]) + 1] = told
    BY <1>4, <2>1
  <2> QED
    BY <1>6, <2>2 DEF c, told
<1> QED
  BY <1>5, <1>6

\* The notifications before and after a handler has seen the oldest.
LEMMA NotifiedTail ==
    ASSUME NEW Objects, InformerTypeOK(Objects), NEW id \in Ids, Notified(id)
    PROVE  /\ Len(notify[id]) \in Nat \ {0}
           /\ Head(notify[id]) = notify[id][1]
           /\ Len(notify'[id]) = Len(notify[id]) - 1
           /\ notify'[id] # <<>> => Len(notify'[id]) # 0
           /\ \A i \in 1 .. Len(notify'[id]) : notify'[id][i] = notify[id][i + 1]
           /\ \A j \in Ids \ {id} : notify'[j] = notify[j]
           /\ UNCHANGED <<cache, watch, initial>>
<1> DEFINE Notices == Notifications(Objects)
<1>1. /\ notify \in [Ids -> Seq(Notices)] /\ notify[id] \in Seq(Notices) /\ notify[id] # <<>>
      /\ notify' = [notify EXCEPT ![id] = Tail(@)]
      /\ UNCHANGED <<cache, watch, initial>>
  BY DEF InformerTypeOK, Notified
<1> HIDE DEF Notices
<1>2. /\ Len(notify[id]) \in Nat \ {0}
      /\ Head(notify[id]) = notify[id][1]
      /\ Tail(notify[id]) \in Seq(Notices)
      /\ Len(Tail(notify[id])) = Len(notify[id]) - 1
      /\ \A i \in 1 .. Len(Tail(notify[id])) : Tail(notify[id])[i] = notify[id][i + 1]
  BY <1>1
<1>3. \A s \in Seq(Notices) : s # <<>> => Len(s) # 0
  OBVIOUS
<1>4. notify'[id] = Tail(notify[id]) /\ \A j \in Ids \ {id} : notify'[j] = notify[j]
  BY <1>1
<1>5. notify'[id] # <<>> => Len(notify'[id]) # 0
  BY <1>2, <1>3, <1>4
<1> QED
  BY <1>1, <1>2, <1>4, <1>5

\* The notifications after the resync period.
LEMMA ResyncedNotify ==
    ASSUME Resync, NEW id \in Ids
    PROVE  /\ notify[id] = <<>>
           /\ notify'[id] # <<>> => Len(notify'[id]) = 1 /\ notify'[id][1].kind = "resync"
           /\ UNCHANGED <<cache, watch, initial>>
BY DEF Resync, EmptyStreams, Notification

LEMMA DeletesAreOfTheGoneStep ==
    ASSUME NEW Objects, None \notin Objects, InformerTypeOK(Objects), DeletesAreOfTheGone, Step
    PROVE  DeletesAreOfTheGone'
<1> USE DEF DeletesAreOfTheGone
<1>1. ASSUME NEW id \in Ids, Emit(id), UNCHANGED <<cache, notify, initial>>
      PROVE  DeletesAreOfTheGone'
  BY <1>1
<1>2. ASSUME NEW id \in Ids, Pop(id)
      PROVE  DeletesAreOfTheGone'
  <2>1. \A j \in Ids \ {id} : cache'[j] = cache[j] /\ notify'[j] = notify[j]
    BY <1>2, PoppedWatch
  <2>2. ASSUME cache'[id] # None
        PROVE  notify'[id][Len(notify'[id])].kind # "delete"
    <3> DEFINE c    == watch[id][1]
               kind == IF cache[id] = None THEN "add" ELSE IF c.same THEN "resync" ELSE "update"
    <3>1. c.obj # None
      BY <1>2, <2>2, PoppedWatch
    <3>2. /\ Len(notify'[id]) = Len(notify[id]) + 1
          /\ notify'[id][Len(notify[id]) + 1] = Notification(c.obj, kind)
      BY <1>2, <3>1, PoppedNotify
    <3> QED
      BY <3>2 DEF Notification
  <2> QED
    BY <2>1, <2>2
<1>3. ASSUME NEW id \in Ids, Notified(id)
      PROVE  DeletesAreOfTheGone'
  <2>1. /\ Len(notify[id]) \in Nat \ {0}
        /\ Len(notify'[id]) = Len(notify[id]) - 1
        /\ notify'[id] # <<>> => Len(notify'[id]) # 0
        /\ \A i \in 1 .. Len(notify'[id]) : notify'[id][i] = notify[id][i + 1]
        /\ \A j \in Ids \ {id} : notify'[j] = notify[j]
        /\ cache' = cache
    BY <1>3, NotifiedTail
  <2>2. ASSUME notify'[id] # <<>>
        PROVE  notify'[id][Len(notify'[id])] = notify[id][Len(notify[id])]
    <3>1. Len(notify'[id]) \in 1 .. Len(notify'[id]) /\ Len(notify'[id]) + 1 = Len(notify[id])
      BY <2>1, <2>2
    <3> QED
      BY <2>1, <3>1
  <2> QED
    BY <1>3, <2>1, <2>2 DEF Notified
<1>4. CASE List
  BY <1>4 DEF List
<1>5. CASE Resync
  <2>1. \A id \in Ids : notify'[id] # <<>> => Len(notify'[id]) = 1 /\ notify'[id][1].kind = "resync"
    BY <1>5, ResyncedNotify
  <2> QED
    BY <2>1
<1>6. CASE Restart
  BY <1>6 DEF Restart
<1>7. CASE UNCHANGED <<cache, watch, notify, initial>>
  BY <1>7
<1> QED
  BY <1>1, <1>2, <1>3, <1>4, <1>5, <1>6, <1>7 DEF Step

------------------------------------------------------------------------------
(* An informer whose watch never breaks, for a store that replaces no object *)
(* without deleting it first.                                                *)

Untold ==    \* no handler runs
    \/ \E id \in Ids : Reported(id) /\ Outlives(store[id], store'[id])
    \/ /\ store' = store
       /\ \/ \E id \in Ids : Pop(id)
          \/ ~Listed /\ List
          \/ Resync
          \/ UNCHANGED <<cache, watch, notify, initial>>

Unbroken == Untold \/ Restart \/ \E id \in Ids : Notified(id)

LEMMA NoneReplacedStep ==
    ASSUME NEW Objects, InformerTypeOK(Objects), FollowsStore, NoneReplaced, Unbroken
    PROVE  NoneReplaced'
<1> USE DEF NoneReplaced
<1>1. ASSUME NEW id \in Ids, Reported(id), Outlives(store[id], store'[id])
      PROVE  NoneReplaced'
  <2>1. cache' = cache /\ \A j \in Ids \ {id} : watch'[j] = watch[j]
    BY <1>1, ReportedWatch DEF Reported
  <2>2. CASE ~Listed
    BY <1>1, <2>1, <2>2, ReportedWatch
  <2>3. CASE Listed
    <3> DEFINE n == Len(watch[id])
    <3>1. /\ n \in Nat
          /\ Len(watch'[id]) = n + 1
          /\ \A i \in 1 .. n : watch'[id][i] = watch[id][i]
          /\ watch'[id][n + 1] = Change(store'[id], FALSE)
      BY <1>1, <2>3, ReportedWatch
    <3>a. watch'[id][n + 1].obj = store'[id]
      BY <3>1 DEF Change
    <3>2. /\ n = 0 => cache[id] = store[id]
          /\ n # 0 => watch[id] # <<>> /\ watch[id][n].obj = store[id]
      <4>1. watch[id] \in Seq(Changes(Objects \cup {None}))
        BY DEF InformerTypeOK
      <4>2. watch[id] = <<>> <=> n = 0
        BY <4>1
      <4> QED
        BY <2>3, <4>2 DEF FollowsStore
    <3>3. Outlives(cache[id], watch'[id][1].obj)
      <4>1. CASE n = 0
        <5>1. watch'[id][1].obj = store'[id] /\ cache[id] = store[id]
          BY <3>a, <3>2, <4>1
        <5> QED
          BY <1>1, <5>1
      <4>2. CASE n # 0
        BY <3>1, <3>2, <4>2
      <4> QED
        BY <4>1, <4>2
    <3>4. ASSUME NEW i \in 1 .. Len(watch'[id]) - 1
          PROVE  Outlives(watch'[id][i].obj, watch'[id][i + 1].obj)
      <4>1. CASE i = n
        <5>0. n # 0 /\ n \in 1 .. n
          BY <3>1, <4>1
        <5>1. watch'[id][i].obj = store[id] /\ watch'[id][i + 1].obj = store'[id]
          BY <3>1, <3>a, <3>2, <4>1, <5>0
        <5> QED
          BY <1>1, <5>1
      <4>2. CASE i # n
        <5>1. i \in 1 .. n - 1 /\ i \in 1 .. n /\ i + 1 \in 1 .. n /\ n # 0
          BY <3>1, <4>2
        <5>2. Outlives(watch[id][i].obj, watch[id][i + 1].obj)
          BY <3>2, <5>1
        <5> QED
          BY <3>1, <5>1, <5>2
      <4> QED
        BY <4>1, <4>2
    <3> QED
      BY <2>1, <3>3, <3>4
  <2> QED
    BY <2>2, <2>3
<1>2. ASSUME NEW id \in Ids, Pop(id)
      PROVE  NoneReplaced'
  <2>1. /\ Len(watch[id]) \in Nat \ {0}
        /\ Len(watch'[id]) = Len(watch[id]) - 1
        /\ watch'[id] # <<>> <=> Len(watch[id]) > 1
        /\ \A i \in 1 .. Len(watch'[id]) : watch'[id][i] = watch[id][i + 1]
        /\ cache'[id] = watch[id][1].obj
    BY <1>2, PoppedWatch
  <2>2. \A j \in Ids \ {id} : watch'[j] = watch[j] /\ cache'[j] = cache[j]
    BY <1>2, PoppedWatch
  <2>3. \A i \in 1 .. Len(watch[id]) - 1 : Outlives(watch[id][i].obj, watch[id][i + 1].obj)
    BY <1>2 DEF Pop
  <2>4. ASSUME watch'[id] # <<>>
        PROVE  Outlives(cache'[id], watch'[id][1].obj)
    <3>1. 1 \in 1 .. Len(watch'[id]) /\ 1 \in 1 .. Len(watch[id]) - 1
      BY <2>1, <2>4
    <3> QED
      BY <2>1, <2>3, <3>1
  <2>5. ASSUME NEW i \in 1 .. Len(watch'[id]) - 1
        PROVE  Outlives(watch'[id][i].obj, watch'[id][i + 1].obj)
    <3>1. i \in 1 .. Len(watch'[id]) /\ i + 1 \in 1 .. Len(watch'[id]) /\ i + 1 \in 1 .. Len(watch[id]) - 1
      BY <2>1, <2>5
    <3> QED
      BY <2>1, <2>3, <3>1
  <2> QED
    BY <2>2, <2>4, <2>5
<1>3. CASE ~Listed /\ List
  <2>1. ASSUME NEW id \in Ids, watch'[id] # <<>>
        PROVE  Len(watch'[id]) = 1 /\ cache'[id] = None
    BY <1>3, <2>1, ListedWatch DEF FollowsStore
  <2> QED
    BY <2>1 DEF Outlives
<1>4. CASE Resync \/ \E id \in Ids : Notified(id)
  BY <1>4 DEF Resync, Notified
<1>5. CASE Restart
  BY <1>5 DEF Restart, EmptyStreams
<1>6. CASE UNCHANGED <<cache, watch, notify, initial>>
  BY <1>6
<1> QED
  BY <1>1, <1>2, <1>3, <1>4, <1>5, <1>6 DEF Unbroken, Untold

\* An object of the set R is cached under id, or will be, or the handlers are
\* still to be told of one.
Guards(R, id) ==
    \/ cache[id] \in R
    \/ \E i \in 1 .. Len(watch[id]) : watch[id][i].obj \in R
    \/ \E i \in 1 .. Len(notify[id]) : notify[id][i].kind # "resync" /\ notify[id][i].obj \in R

\* An object does not get out of the informer without a handler being told.
LEMMA GuardsStep ==
    ASSUME NEW Objects, None \notin Objects, InformerTypeOK(Objects), FollowsStore, NoneReplaced,
           Untold, NEW R \in SUBSET Objects, NEW id \in Ids, Guards(R, id)
    PROVE  Guards(R, id)'
<1>1. ASSUME NEW j \in Ids, Reported(j)
      PROVE  Guards(R, id)'
  <2>1. UNCHANGED <<cache, notify>>
    BY <1>1 DEF Reported
  <2>2. \A i \in 1 .. Len(watch[id]) : i \in 1 .. Len(watch'[id]) /\ watch'[id][i] = watch[id][i]
    <3>1. CASE j = id /\ Listed
      <4>1. /\ Len(watch[id]) \in Nat
            /\ Len(watch'[id]) = Len(watch[id]) + 1
            /\ \A i \in 1 .. Len(watch[id]) : watch'[id][i] = watch[id][i]
        BY <1>1, <3>1, ReportedWatch
      <4> QED
        BY <4>1
    <3>2. CASE ~(j = id /\ Listed)
      <4>1. watch'[id] = watch[id]
        BY <1>1, <3>2, ReportedWatch
      <4> QED
        BY <4>1
    <3> QED
      BY <3>1, <3>2
  <2> QED
    BY <2>1, <2>2 DEF Guards
<1>2. ASSUME NEW j \in Ids, Pop(j), j # id
      PROVE  Guards(R, id)'
  <2>1. cache'[id] = cache[id] /\ watch'[id] = watch[id] /\ notify'[id] = notify[id]
    BY <1>2, PoppedWatch
  <2> QED
    BY <2>1 DEF Guards
<1>3. CASE Pop(id)
  <2> DEFINE c == watch[id][1]
  <2>1. /\ Len(watch[id]) \in Nat \ {0}
        /\ Len(watch'[id]) = Len(watch[id]) - 1
        /\ \A i \in 1 .. Len(watch'[id]) : watch'[id][i] = watch[id][i + 1]
        /\ cache'[id] = c.obj
    BY <1>3, PoppedWatch
  <2>2. \A i \in 1 .. Len(notify[id]) : i \in 1 .. Len(notify'[id]) /\ notify'[id][i] = notify[id][i]
    <3>1. CASE c.obj = None /\ cache[id] = None
      <4>1. notify'[id] = notify[id]
        BY <1>3, <3>1, PoppedNotify
      <4> QED
        BY <4>1
    <3>2. CASE ~(c.obj = None /\ cache[id] = None)
      <4>1. /\ Len(notify[id]) \in Nat
            /\ Len(notify'[id]) = Len(notify[id]) + 1
            /\ \A i \in 1 .. Len(notify[id]) : notify'[id][i] = notify[id][i]
        BY <1>3, <3>2, PoppedNotify
      <4> QED
        BY <4>1
    <3> QED
      BY <3>1, <3>2
  <2>3. CASE cache[id] \in R
    <3>1. Outlives(cache[id], c.obj) /\ cache[id] # None
      BY <1>3, <2>3 DEF NoneReplaced, Pop
    <3>2. CASE c.obj = cache[id]
      BY <2>1, <2>3, <3>2 DEF Guards
    <3>3. CASE c.obj = None
      <4>1. /\ Len(notify[id]) \in Nat
            /\ Len(notify'[id]) = Len(notify[id]) + 1
            /\ notify'[id][Len(notify[id]) + 1] = Notification(cache[id], "delete")
        BY <1>3, <3>1, <3>3, PoppedNotify
      <4>2. Len(notify[id]) + 1 \in 1 .. Len(notify'[id])
        BY <4>1
      <4>3. /\ Notification(cache[id], "delete").kind # "resync"
            /\ Notification(cache[id], "delete").obj \in R
        BY <2>3 DEF Notification
      <4> QED
        BY <4>1, <4>2, <4>3 DEF Guards
    <3> QED
      BY <3>1, <3>2, <3>3 DEF Outlives
  <2>4. ASSUME NEW i \in 1 .. Len(watch[id]), watch[id][i].obj \in R
        PROVE  Guards(R, id)'
    <3>1. CASE i = 1
      BY <2>1, <2>4, <3>1 DEF Guards
    <3>2. CASE i # 1
      <4>1. i - 1 \in 1 .. Len(watch'[id]) /\ (i - 1) + 1 = i
        BY <2>1, <3>2
      <4>2. watch'[id][i - 1] = watch[id][i]
        BY <2>1, <4>1
      <4> QED
        BY <2>4, <4>1, <4>2 DEF Guards
    <3> QED
      BY <3>1, <3>2
  <2> QED
    BY <2>2, <2>3, <2>4 DEF Guards
<1>4. CASE ~Listed /\ List
  <2>1. cache[id] = None /\ watch[id] = <<>> /\ notify' = notify
    BY <1>4, ListedWatch DEF FollowsStore
  <2> QED
    BY <2>1 DEF Guards
<1>5. CASE Resync
  <2>1. notify[id] = <<>> /\ UNCHANGED <<cache, watch>>
    BY <1>5, ResyncedNotify
  <2> QED
    BY <2>1 DEF Guards
<1>6. CASE UNCHANGED <<cache, watch, notify, initial>>
  BY <1>6 DEF Guards
<1> QED
  BY <1>1, <1>2, <1>3, <1>4, <1>5, <1>6 DEF Untold

LEMMA GuardsTold ==
    ASSUME NEW Objects, InformerTypeOK(Objects), NEW j \in Ids, Notified(j),
           NEW R \in SUBSET Objects, NEW id \in Ids, Guards(R, id)
    PROVE  \/ Guards(R, id)'
           \/ j = id /\ notify[id][1].kind # "resync" /\ notify[id][1].obj \in R
<1>1. ASSUME j # id
      PROVE  Guards(R, id)'
  <2>1. notify'[id] = notify[id] /\ UNCHANGED <<cache, watch>>
    BY <1>1, NotifiedTail
  <2> QED
    BY <2>1 DEF Guards
<1>2. ASSUME j = id, notify[id][1].kind = "resync" \/ notify[id][1].obj \notin R
      PROVE  Guards(R, id)'
  <2>1. /\ Len(notify[id]) \in Nat \ {0}
        /\ Len(notify'[id]) = Len(notify[id]) - 1
        /\ \A i \in 1 .. Len(notify'[id]) : notify'[id][i] = notify[id][i + 1]
        /\ UNCHANGED <<cache, watch>>
    BY <1>2, NotifiedTail
  <2>2. ASSUME NEW i \in 1 .. Len(notify[id]),
               notify[id][i].kind # "resync", notify[id][i].obj \in R
        PROVE  Guards(R, id)'
    <3>1. i # 1
      BY <1>2, <2>2
    <3>2. i - 1 \in 1 .. Len(notify'[id]) /\ (i - 1) + 1 = i
      BY <2>1, <3>1
    <3>3. notify'[id][i - 1] = notify[id][i]
      BY <2>1, <3>2
    <3> QED
      BY <2>2, <3>2, <3>3 DEF Guards
  <2> QED
    BY <2>1, <2>2 DEF Guards
<1> QED
  BY <1>1, <1>2

\* What the cache and the watch hold of an object was there, or was stored.
Known(id) == {cache[id]} \cup {watch[id][i].obj : i \in 1 .. Len(watch[id])}

LEMMA KnownStep ==
    ASSUME NEW Objects, InformerTypeOK(Objects), Step, NEW id \in Ids
    PROVE  Known(id)' \subseteq Known(id) \cup {store[id], store'[id], None}
<1> SUFFICES ASSUME NEW x \in Known(id)'
             PROVE  x \in Known(id) \cup {store[id], store'[id], None}
  OBVIOUS
<1>1. ASSUME NEW j \in Ids, Emit(j), UNCHANGED <<cache, notify, initial>>
      PROVE  x \in Known(id) \cup {store'[id]}
  <2> DEFINE e == Change(store'[j], FALSE)
             Events == Changes(Objects \cup {None})
  <2>1. e.obj = store'[j]
    BY DEF Change
  <2>2. watch' = [watch EXCEPT ![j] = Append(@, e)] \/ watch' = watch
    BY <1>1 DEF Emit
  <2>3. watch \in [Ids -> Seq(Events)] /\ watch[id] \in Seq(Events)
    BY DEF InformerTypeOK
  <2> HIDE DEF e, Events
  <2>4. watch'[id] = watch[id] \/ (j = id /\ watch'[id] = Append(watch[id], e))
    BY <2>2, <2>3
  <2>5. CASE watch'[id] = watch[id]
    BY <1>1, <2>5 DEF Known
  <2>6. CASE j = id /\ watch'[id] = Append(watch[id], e)
    <3>1. \A i \in 1 .. Len(watch'[id]) :
             watch'[id][i] = e \/ (i \in 1 .. Len(watch[id]) /\ watch'[id][i] = watch[id][i])
      BY <2>3, <2>6
    <3> QED
      BY <1>1, <2>1, <2>6, <3>1 DEF Known
  <2> QED
    BY <2>4, <2>5, <2>6
<1>2. ASSUME NEW j \in Ids, Pop(j), j # id
      PROVE  x \in Known(id)
  <2>1. cache'[id] = cache[id] /\ watch'[id] = watch[id]
    BY <1>2, PoppedWatch
  <2> QED
    BY <2>1 DEF Known
<1>3. CASE Pop(id)
  <2>1. /\ Len(watch[id]) \in Nat \ {0}
        /\ Len(watch'[id]) = Len(watch[id]) - 1
        /\ \A i \in 1 .. Len(watch'[id]) : watch'[id][i] = watch[id][i + 1]
        /\ cache'[id] = watch[id][1].obj
    BY <1>3, PoppedWatch
  <2>2. 1 \in 1 .. Len(watch[id]) /\ \A i \in 1 .. Len(watch'[id]) : i + 1 \in 1 .. Len(watch[id])
    BY <2>1
  <2> QED
    BY <2>1, <2>2 DEF Known
<1>4. CASE (\E j \in Ids : Notified(j)) \/ Resync \/ UNCHANGED <<cache, watch, notify, initial>>
  BY <1>4 DEF Notified, Resync, Known
<1>5. CASE List
  <2>1. /\ cache' = cache
        /\ watch'[id] # <<>> => Len(watch'[id]) = 1 /\ watch'[id][1].obj = store[id]
    BY <1>5, ListedWatch
  <2>2. Len(<<>>) = 0
    OBVIOUS
  <2> QED
    BY <2>1, <2>2 DEF Known
<1>6. CASE Restart
  BY <1>6 DEF Restart, EmptyStreams, Known
<1> QED
  BY <1>1, <1>2, <1>3, <1>4, <1>5, <1>6 DEF Step

==============================================================================
