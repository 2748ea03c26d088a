------------------------------ MODULE Informer ------------------------------
(* A shared informer of client-go, as the factories of                       *)
(* pkg/generated/informers hand it to the controller: a reflector lists and  *)
(* watches the objects of one type, a cache (the lister's store) follows it, *)
(* and a listener runs the controller's handlers on every change the cache   *)
(* has already taken.  The two hops are separate: a handler runs when the    *)
(* cache may be ahead of the change it is told of, and the cache itself lags *)
(* behind the API server.                                                    *)
(*                                                                           *)
(* Deltas are ordered per object, so the streams are kept per object.        *)
EXTENDS Sequences, Naturals

CONSTANTS Ids,     \* the names of the objects of this type
          None,    \* no object
          MaxLag   \* bound: notifications of one object its listener may lag

VARIABLES store,    \* the objects the API server holds
          cache,    \* the objects the lister returns
          watch,    \* per object: the changes the cache has not taken yet
          notify,   \* per object: the changes the handlers have not seen yet
          initial   \* what the first list still owes the cache; HasSynced: nothing

(* A change carries the object it leaves (None: deleted) and whether that is *)
(* the version the cache holds already, as after a second list.              *)
Change(obj, same) == [obj |-> obj, same |-> same]
Changes(Objects) == [obj : Objects, same : BOOLEAN]

(* A notification carries the object it hands to the handler, for a delete   *)
(* the last one known.  "resync": an update to the same resource version.    *)
Kinds == {"add", "update", "resync", "delete"}
Notification(obj, kind) == [obj |-> obj, kind |-> kind]
Notifications(Objects) == [obj : Objects, kind : Kinds]

EmptyStreams == [id \in Ids |-> <<>>]

InformerInit ==
    /\ cache = [id \in Ids |-> None]
    /\ watch = EmptyStreams
    /\ notify = EmptyStreams
    /\ initial = {None}

Listed    == None \notin initial
HasSynced == initial = {}

\* The API server has changed object id: the watch will report it.
Emit(id) ==
    watch' = IF Listed THEN [watch EXCEPT ![id] = Append(@, Change(store'[id], FALSE))]
                       ELSE watch

\* The cache holds the stored version of id already.
Caught(id) == \A i \in 1 .. Len(watch[id]) : watch[id][i].same

(* The reflector lists: at the start, and again when it lost its watch. What *)
(* the lost watch had not delivered is never seen; an object that vanished   *)
(* meanwhile is reported deleted, each one still there as an update.         *)
List ==
    /\ watch' = [id \in Ids |->
                   IF store[id] # None
                     THEN <<Change(store[id], cache[id] # None /\ Caught(id))>>
                     ELSE IF cache[id] # None THEN <<Change(None, FALSE)>> ELSE <<>>]
    /\ initial' = IF Listed THEN {id \in initial : store[id] # None}
                            ELSE {id \in Ids : store[id] # None}
    /\ UNCHANGED <<cache, notify>>

\* What the listener is told when the cache takes the change c of object id.
Told(id, c) ==
    CASE c.obj # None /\ cache[id] = None -> <<Notification(c.obj, "add")>>
      [] c.obj # None /\ cache[id] # None -> <<Notification(c.obj, IF c.same THEN "resync" ELSE "update")>>
      [] c.obj = None /\ cache[id] # None -> <<Notification(cache[id], "delete")>>
      [] OTHER                            -> <<>>

\* The cache takes the next change of an object, and tells the listener.
Pop(id) ==
    /\ watch[id] # <<>>
    /\ Len(notify[id]) < MaxLag
    /\ cache' = [cache EXCEPT ![id] = Head(watch[id]).obj]
    /\ watch' = [watch EXCEPT ![id] = Tail(@)]
    /\ notify' = [notify EXCEPT ![id] = @ \o Told(id, Head(watch[id]))]
    /\ initial' = initial \ {id}

\* The handler has seen the oldest notification of an object.
Notified(id) ==
    /\ notify[id] # <<>>
    /\ notify' = [notify EXCEPT ![id] = Tail(@)]
    /\ UNCHANGED <<cache, watch, initial>>

\* The resync period is over: every cached object is handed out again.
Resync ==
    /\ HasSynced
    /\ notify = EmptyStreams
    /\ \E id \in Ids : cache[id] # None
    /\ notify' = [id \in Ids |-> IF cache[id] = None THEN <<>>
                                 ELSE <<Notification(cache[id], "resync")>>]
    /\ UNCHANGED <<cache, watch, initial>>

Restart ==
    /\ cache' = [id \in Ids |-> None]
    /\ watch' = EmptyStreams
    /\ notify' = EmptyStreams
    /\ initial' = {None}

------------------------------------------------------------------------------

\* The variables have their types, for a store of the given objects.
InformerTypeOK(Objects) ==
    /\ cache \in [Ids -> Objects \cup {None}]
    /\ watch \in [Ids -> Seq(Changes(Objects \cup {None}))]
    /\ notify \in [Ids -> Seq(Notifications(Objects))]
    /\ initial \in SUBSET (Ids \cup {None})

\* The cache is behind the API server by exactly the changes on the watch: it
\* holds what is stored when there is none, and will when it has taken the last.
FollowsStore ==
    \A id \in Ids :
       IF ~Listed THEN cache[id] = None /\ watch[id] = <<>>
       ELSE IF watch[id] = <<>> THEN cache[id] = store[id]
                                ELSE watch[id][Len(watch[id])].obj = store[id]

\* A deletion is the last the handlers are told of an object that is gone only.
DeletesAreOfTheGone ==
    \A id \in Ids : cache[id] # None /\ notify[id] # <<>>
                       => notify[id][Len(notify[id])].kind # "delete"

\* The cache will see an object deleted before another takes its place.
Outlives(old, new) == old # None => new \in {old, None}
NoneReplaced ==
    \A id \in Ids : watch[id] # <<>> =>
       /\ Outlives(cache[id], watch[id][1].obj)
       /\ \A i \in 1 .. Len(watch[id]) - 1 : Outlives(watch[id][i].obj, watch[id][i + 1].obj)

==============================================================================
