------------------------- MODULE FeatureFlagAPIProofs -------------------------
(* Theorems about FeatureFlagAPI, for any clients and names, and any number  *)
(* of writes and faults.                                                     *)
EXTENDS FeatureFlagAPI, TLAPS

Stores == [Names -> Flags \cup {None}]

\* Each write changes one flag, and a flag is as its version left it ever since.
HistoryInv ==
    /\ history \in Seq(Stores)
    /\ version \in 1 .. MaxVersion + 1
    /\ history[1] = NoFlags
    /\ \A v \in 1 .. version : \A n \in Names :
         history[v][n] # None => /\ history[v][n].rv \in 2 .. v
                                 /\ history[v][n].uid \in 2 .. history[v][n].rv
                                 /\ history[v][n].edits \in SUBSET Clients
                                 /\ \A u \in history[v][n].rv .. v : history[u][n] = history[v][n]
    /\ \A v \in 2 .. version :
         /\ history[v] # history[v - 1]
         /\ \E n \in Names : \A m \in Names : m # n => history[v][m] = history[v - 1][m]

\* What a client holds was read: the version it names has the same flag, and
\* the client has lost none of its edits.
WasRead(n, flag) ==
    /\ n \in Names /\ flag \in Flags /\ flag.edits \in SUBSET Clients
    /\ flag.rv \in 1 .. version
    /\ history[flag.rv][n] # None
    /\ history[flag.rv][n].rv = flag.rv
    /\ history[flag.rv][n].uid = flag.uid
    /\ history[flag.rv][n].edits \subseteq flag.edits

CopyInv ==
    /\ copy \in [Clients -> {None} \cup [name : Names, flag : Flags]]
    /\ \A c \in Clients : copy[c] # None => WasRead(copy[c].name, copy[c].flag)

\* The flag under n at the version the reflector has seen.
Seen(n) == IF seen = 0 THEN None ELSE history[seen][n]

\* What is cached and queued of n adds up to the version seen, or a list has
\* missed that n is gone; and what is queued is cached, or younger than all the
\* lister has returned.
Followed(n) ==
    /\ Latest(n) = Seen(n) \/ (n \in missed /\ Seen(n) = None)
    /\ shown[n] <= seen
    /\ queued[n] \in Flags => /\ queued[n].rv <= seen
                              /\ queued[n] = cache[n] \/ queued[n].rv > shown[n]

CacheInv ==
    /\ queued \in [Names -> Flags \cup {None, NoDelta}]
    /\ cache \in [Names -> Flags \cup {None}]
    /\ shown \in [Names -> Nat]
    /\ missed \in SUBSET Names
    /\ reflector \in {"list", "connect", "watch"}
    /\ seen \in 0 .. version
    /\ oldest \in 1 .. version
    /\ reflector # "list" => seen # 0
    /\ \A n \in Names : Followed(n)

APIInv ==
    /\ HistoryInv /\ CopyInv /\ CacheInv
    /\ deleting \in SUBSET Names
    /\ faults \in 0 .. MaxFaults

------------------------------------------------------------------------------
(* The writes.                                                               *)

\* What the server writes under a name: nothing for what is there, a new flag
\* where none is, or the flag that is there with edits added to it.
Deletes(n, flag) == flag = None /\ store[n] # None
Creates(n, flag) == store[n] = None /\ flag.uid = version + 1
Edits(n, flag) == /\ store[n] # None /\ flag.uid = store[n].uid
                  /\ store[n].edits \subseteq flag.edits

Legal(n, flag) ==
    \/ Deletes(n, flag)
    \/ /\ flag \in Flags /\ flag.rv = version + 1 /\ flag.edits \in SUBSET Clients
       /\ Creates(n, flag) \/ Edits(n, flag)

StoreStep == UNCHANGED history \/ \E n \in Names : \E flag \in Flags \cup {None} :
                                    Legal(n, flag) /\ Write(n, flag)

LEMMA StoreType ==
    ASSUME HistoryInv
    PROVE  /\ version \in Nat \ {0} /\ version \in 1 .. version
           /\ store \in Stores /\ \A v \in 1 .. version : history[v] \in Stores
           /\ \A n \in Names : store[n] # None =>
                /\ store[n] \in Flags /\ store[n].rv \in 2 .. version
                /\ store[n].uid \in 2 .. version /\ store[n].uid \in 2 .. store[n].rv
                /\ store[n].edits \in SUBSET Clients
                /\ history[store[n].rv][n] = store[n]
                /\ \A u \in store[n].rv .. version : history[u][n] = store[n]
<1>1. version \in Nat \ {0} /\ version \in 1 .. version
  BY DEF HistoryInv, version
<1>2. \A v \in 1 .. version : history[v] \in Stores
  BY DEF HistoryInv, version
<1>3. store \in Stores
  BY <1>1, <1>2 DEF store
<1>4. ASSUME NEW n \in Names, store[n] # None
      PROVE  /\ store[n].rv \in 2 .. version /\ store[n].uid \in 2 .. store[n].rv
             /\ store[n].edits \in SUBSET Clients
             /\ \A u \in store[n].rv .. version : history[u][n] = store[n]
  BY <1>1, <1>4 DEF HistoryInv, store
<1>5. ASSUME NEW n \in Names, store[n] # None
      PROVE  /\ store[n].uid \in 2 .. version
             /\ history[store[n].rv][n] = store[n]
  <2>1. store[n].rv \in store[n].rv .. version
    BY <1>1, <1>4, <1>5
  <2> QED
    BY <1>1, <1>4, <1>5, <2>1
<1> QED
  BY <1>1, <1>2, <1>3, <1>4, <1>5 DEF Stores

\* What a write leaves as it was.
LEMMA Written ==
    ASSUME HistoryInv, NEW n \in Names, NEW flag \in Flags \cup {None}, Write(n, flag)
    PROVE  /\ history' \in Seq(Stores) /\ version' = version + 1
           /\ version \in 1 .. MaxVersion
           /\ \A v \in 1 .. version : history'[v] = history[v]
           /\ store' = [store EXCEPT ![n] = flag] /\ history'[version + 1] = store'
           /\ store' \in Stores
<1> DEFINE new == [store EXCEPT ![n] = flag]
<1>1. version \in Nat \ {0} /\ store \in Stores /\ version = Len(history)
  BY StoreType DEF version
<1>2. new \in Stores
  BY <1>1 DEF Stores
<1>3. history' = Append(history, new) /\ version <= MaxVersion /\ history \in Seq(Stores)
  BY DEF Write, HistoryInv
<1> HIDE DEF new
<1>4. history' \in Seq(Stores) /\ Len(history') = version + 1
  BY <1>1, <1>2, <1>3
<1>5. (\A v \in 1 .. version : history'[v] = history[v]) /\ history'[version + 1] = new
  BY <1>1, <1>2, <1>3
<1>6. store' = new
  BY <1>4, <1>5 DEF store, version
<1>7. version \in 1 .. MaxVersion
  BY <1>1, <1>3, APIAssumption
<1> QED
  BY <1>2, <1>4, <1>5, <1>6, <1>7 DEF version, new

LEMMA WriteKeepsHistory ==
    ASSUME HistoryInv, NEW n \in Names, NEW flag \in Flags \cup {None},
           Legal(n, flag), Write(n, flag)
    PROVE  HistoryInv'
<1> DEFINE top == version + 1
<1>1. /\ history' \in Seq(Stores) /\ version' = top
      /\ version \in 1 .. MaxVersion /\ version \in Nat \ {0}
      /\ \A v \in 1 .. version : history'[v] = history[v]
      /\ store' = [store EXCEPT ![n] = flag] /\ history'[top] = store'
      /\ store \in Stores /\ store = history[version] /\ store' \in Stores
  BY StoreType, Written DEF store
<1>2. /\ store'[n] = flag
      /\ \A m \in Names : m # n => store'[m] = store[m]
  BY <1>1 DEF Stores
<1>3. version' \in 1 .. MaxVersion + 1 /\ history'[1] = NoFlags
  <2>1. 1 \in 1 .. version /\ history[1] = NoFlags
    BY <1>1 DEF HistoryInv
  <2>2. version' \in 1 .. MaxVersion + 1
    BY <1>1, APIAssumption
  <2> QED
    BY <1>1, <2>1, <2>2
<1>4. \A v \in 1 .. version' : v \in 1 .. version \/ v = top
  BY <1>1
<1>5. store[n] # flag
  <2>1. CASE store[n] = None
    BY <2>1, APIAssumption DEF Legal, Deletes, Edits
  <2>2. CASE store[n] # None
    <3>1. store[n].rv \in 2 .. version
      BY <2>2, StoreType
    <3> QED
      BY <1>1, <2>2, <3>1 DEF Legal, Deletes
  <2> QED
    BY <2>1, <2>2
<1>6. ASSUME NEW v \in 1 .. version', NEW m \in Names, history'[v][m] # None
      PROVE  /\ history'[v][m].rv \in 2 .. v
             /\ history'[v][m].uid \in 2 .. history'[v][m].rv
             /\ history'[v][m].edits \in SUBSET Clients
             /\ \A u \in history'[v][m].rv .. v : history'[u][m] = history'[v][m]
  <2>1. CASE v \in 1 .. version
    <3>1. /\ history[v][m].rv \in 2 .. v
          /\ history[v][m].uid \in 2 .. history[v][m].rv
          /\ history[v][m].edits \in SUBSET Clients
          /\ \A u \in history[v][m].rv .. v : history[u][m] = history[v][m]
      BY <1>1, <1>6, <2>1 DEF HistoryInv
    <3>2. history[v][m].rv .. v \subseteq 1 .. version
      BY <1>1, <2>1, <3>1
    <3> QED
      BY <1>1, <2>1, <3>1, <3>2
  <2>2. CASE v = top /\ m # n
    <3>1. history'[v][m] = store[m] /\ store[m] # None
      BY <1>1, <1>2, <1>6, <2>2
    <3>2. /\ store[m].rv \in 2 .. version /\ store[m].uid \in 2 .. store[m].rv
          /\ store[m].edits \in SUBSET Clients
          /\ \A u \in store[m].rv .. version : history[u][m] = store[m]
      BY <3>1, StoreType
    <3>3. store[m].rv \in 2 .. top
      BY <1>1, <3>2
    <3>4. \A u \in store[m].rv .. top : u = top \/ (u \in 1 .. version /\ u \in store[m].rv .. version)
      BY <1>1, <3>2
    <3>5. \A u \in store[m].rv .. top : history'[u][m] = store[m]
      BY <1>1, <1>2, <2>2, <3>2, <3>4
    <3> QED
      BY <2>2, <3>1, <3>2, <3>3, <3>5
  <2>3. CASE v = top /\ m = n
    <3>1. history'[v][m] = flag /\ flag # None
      BY <1>1, <1>2, <1>6, <2>3
    <3>2. flag \in Flags /\ flag.rv = top /\ flag.edits \in SUBSET Clients
      BY <3>1 DEF Legal, Deletes
    <3>3. flag.uid \in 2 .. top
      BY <1>1, <3>1, StoreType DEF Legal, Deletes, Creates, Edits
    <3>4. \A u \in top .. top : u = top
      BY <1>1
    <3> QED
      BY <1>1, <2>3, <3>1, <3>2, <3>3, <3>4
  <2> QED
    BY <1>4, <2>1, <2>2, <2>3
<1>7. ASSUME NEW v \in 2 .. version'
      PROVE  /\ history'[v] # history'[v - 1]
             /\ \E k \in Names : \A m \in Names : m # k => history'[v][m] = history'[v - 1][m]
  <2>1. CASE v \in 2 .. version
    <3>1. v \in 1 .. version /\ v - 1 \in 1 .. version
      BY <1>1, <2>1
    <3>2. history'[v] = history[v] /\ history'[v - 1] = history[v - 1]
      BY <1>1, <3>1
    <3> QED
      BY <2>1, <3>2 DEF HistoryInv
  <2>2. CASE v = top
    <3>1. history'[v] = store' /\ history'[v - 1] = store
      BY <1>1, <2>2
    <3> QED
      BY <1>2, <1>5, <3>1
  <2> QED
    BY <1>1, <2>1, <2>2
<1> QED
  BY <1>1, <1>3, <1>6, <1>7 DEF HistoryInv

\* What is stored was read by whoever gets it now.
StoreIsRead == \A n \in Names : store[n] # None => WasRead(n, store[n])

LEMMA StoredIsRead == HistoryInv => StoreIsRead
<1> SUFFICES ASSUME HistoryInv, NEW n \in Names, store[n] # None
             PROVE  WasRead(n, store[n])
  BY DEF StoreIsRead
<1>1. /\ store[n] \in Flags /\ store[n].rv \in 2 .. version
      /\ store[n].edits \in SUBSET Clients /\ history[store[n].rv][n] = store[n]
      /\ version \in Nat
  BY StoreType
<1>2. store[n].rv \in 1 .. version
  BY <1>1
<1> QED
  BY <1>1, <1>2 DEF WasRead

LEMMA StoreStepKeeps ==
    ASSUME HistoryInv, StoreStep
    PROVE  /\ HistoryInv'
           /\ version \in Nat /\ version' \in Nat /\ version <= version'
           /\ \A v \in 1 .. version : history'[v] = history[v]
           /\ \A n \in Names : \A flag : WasRead(n, flag) => WasRead(n, flag)'
<1>1. CASE UNCHANGED history
  BY <1>1, StoreType
  DEF HistoryInv, WasRead, version, store
<1>2. CASE \E n \in Names : \E flag \in Flags \cup {None} : Legal(n, flag) /\ Write(n, flag)
  <2>1. HistoryInv'
    BY <1>2, WriteKeepsHistory
  <2>2. /\ version \in Nat /\ version' = version + 1
        /\ \A v \in 1 .. version : history'[v] = history[v]
    BY <1>2, Written, StoreType
  <2>3. 1 .. version \subseteq 1 .. version'
    BY <2>2
  <2> QED
    BY <2>1, <2>2, <2>3 DEF WasRead
<1> QED
  BY <1>1, <1>2 DEF StoreStep

\* A client that forgets its copy, keeps it, or gets what is stored now.
CopyStep ==
    \/ UNCHANGED copy
    \/ \E c \in Clients : Drops(c)
    \/ \E c \in Clients, n \in Names : store'[n] # None /\ Holds(c, n, store'[n])

LEMMA CopiesKept ==
    ASSUME HistoryInv, CopyInv, StoreStep, CopyStep
    PROVE  CopyInv'
<1>1. \A n \in Names : \A flag : WasRead(n, flag) => WasRead(n, flag)'
  BY StoreStepKeeps
<1>2. \A c \in Clients : copy[c] # None =>
        \E n \in Names, flag \in Flags : copy[c] = [name |-> n, flag |-> flag] /\ WasRead(n, flag)'
  <2> SUFFICES ASSUME NEW c \in Clients, copy[c] # None
               PROVE  \E n \in Names, flag \in Flags :
                         copy[c] = [name |-> n, flag |-> flag] /\ WasRead(n, flag)'
    OBVIOUS
  <2>1. PICK n \in Names, flag \in Flags : copy[c] = [name |-> n, flag |-> flag]
    BY DEF CopyInv
  <2>2. WasRead(n, flag)
    BY <2>1 DEF CopyInv
  <2> QED
    BY <1>1, <2>1, <2>2
<1>3. CASE UNCHANGED copy
  BY <1>2, <1>3 DEF CopyInv, WasRead
<1>4. ASSUME NEW c \in Clients, Drops(c)
      PROVE  CopyInv'
  BY <1>2, <1>4 DEF CopyInv, Drops, WasRead
<1>5. ASSUME NEW c \in Clients, NEW n \in Names, store'[n] # None, Holds(c, n, store'[n])
      PROVE  CopyInv'
  <2>1. HistoryInv'
    BY StoreStepKeeps
  <2>2. StoreIsRead'
    BY <2>1, StoredIsRead, PTL
  <2>3. copy' = [copy EXCEPT ![c] = [name |-> n, flag |-> store'[n]]]
    BY <1>5 DEF Holds
  <2>4. WasRead(n, store[n])'
    BY <1>5, <2>2 DEF StoreIsRead
  <2>5. store'[n] \in Flags
    BY <2>4 DEF WasRead
  <2>6. copy'[c] = [name |-> n, flag |-> store'[n]] /\ copy' \in [Clients -> {None} \cup [name : Names, flag : Flags]]
    BY <2>3, <2>5 DEF CopyInv
  <2>7. ASSUME NEW d \in Clients, copy'[d] # None
        PROVE  WasRead(copy[d].name, copy[d].flag)'
    <3>1. CASE d = c
      BY <2>4, <2>6, <3>1
    <3>2. CASE d # c
      <4>1. copy'[d] = copy[d]
        BY <2>3, <3>2 DEF CopyInv
      <4>2. PICK m \in Names, flag \in Flags :
                copy[d] = [name |-> m, flag |-> flag] /\ WasRead(m, flag)'
        BY <1>2, <2>7, <4>1
      <4>3. copy'[d].name = m /\ copy'[d].flag = flag
        BY <4>1, <4>2
      <4> QED
        BY <4>2, <4>3 DEF WasRead
    <3> QED
      BY <3>1, <3>2
  <2> QED
    BY <2>6, <2>7 DEF CopyInv
<1> QED
  BY <1>3, <1>4, <1>5 DEF CopyStep

\* The two fields a write changes.
Updated(old, rv, edits) == [old EXCEPT !.rv = rv, !.edits = edits]

LEMMA FlagUpdated ==
    ASSUME NEW old \in Flags, NEW rv \in Nat, NEW edits \in SUBSET Clients
    PROVE  LET flag == Updated(old, rv, edits) IN
           flag \in Flags /\ flag.rv = rv /\ flag.uid = old.uid /\ flag.edits = edits
BY DEF Flags, Updated

\* Every request is a legal write or none, and leaves the client with what is
\* stored, with what it had, or with nothing.
LEMMA RequestSteps ==
    ASSUME APIInv, NEW c \in Clients, Request(c), ~Edit(c)
    PROVE  StoreStep /\ CopyStep
<1>v. version \in Nat \ {0} /\ store \in Stores
  BY StoreType DEF APIInv
<1>w. ASSUME NEW n \in Names, NEW flag \in Flags, Write(n, flag)
      PROVE  store'[n] = flag /\ flag # None
  BY <1>v, <1>w, Written, APIAssumption DEF APIInv, Stores
<1>s. UNCHANGED history => store' = store
  BY DEF store, version
<1>1. ASSUME NEW n \in Names, Get(c, n) PROVE StoreStep /\ CopyStep
  BY <1>1, <1>s DEF Get, StoreStep, CopyStep
<1>2. ASSUME NEW n \in Names, Create(c, n) PROVE StoreStep /\ CopyStep
  <2> DEFINE flag == [uid |-> version + 1, rv |-> version + 1, edits |-> {c}]
  <2>1. flag \in Flags /\ Legal(n, flag)
    BY <1>2, <1>v DEF Create, Flags, Legal, Creates
  <2>2. Write(n, flag) /\ Answered(c, n, flag)
    BY <1>2 DEF Create
  <2> HIDE DEF flag
  <2> QED
    BY <1>w, <2>1, <2>2 DEF StoreStep, CopyStep, Answered
<1>3. ASSUME Update(c) PROVE StoreStep /\ CopyStep
  <2> DEFINE n    == copy[c].name
             mine == copy[c].flag
             flag == [mine EXCEPT !.rv = version + 1]
  <2>1. n \in Names /\ mine \in Flags /\ WasRead(n, mine)
    BY <1>3 DEF Update, APIInv, CopyInv
  <2>2. CASE ~(store[n] # None /\ store[n].rv = mine.rv)
    BY <1>3, <2>2 DEF Update, StoreStep, CopyStep
  <2>3. CASE store[n] # None /\ store[n].rv = mine.rv /\ store[n] = mine
    BY <1>3, <1>s, <2>1, <2>3 DEF Update, StoreStep, CopyStep, Answered
  <2>4. CASE store[n] # None /\ store[n].rv = mine.rv /\ store[n] # mine
    <3>1. Write(n, flag) /\ Answered(c, n, flag)
      BY <1>3, <2>4 DEF Update
    <3>2. flag \in Flags /\ flag.rv = version + 1 /\ flag.uid = mine.uid /\ flag.edits = mine.edits
      BY <1>v, <2>1 DEF Flags
    <3>3. history[mine.rv][n] = store[n]
      BY <2>1, <2>4, StoreType DEF APIInv
    <3>4. Legal(n, flag)
      BY <2>1, <2>4, <3>2, <3>3 DEF WasRead, Legal, Edits
    <3> HIDE DEF flag
    <3> QED
      BY <1>w, <2>1, <3>1, <3>2, <3>4 DEF StoreStep, CopyStep, Answered
  <2> QED
    BY <2>2, <2>3, <2>4
<1>4. ASSUME UpdateStatus(c) PROVE StoreStep /\ CopyStep
  BY <1>4 DEF UpdateStatus, StoreStep, CopyStep
<1>5. ASSUME NEW n \in Names, Patch(c, n) PROVE StoreStep /\ CopyStep
  <2> DEFINE flag == [store[n] EXCEPT !.rv = version + 1, !.edits = @ \cup {c}]
  <2>1. store[n] # None /\ store[n] \in Flags /\ store[n].edits \in SUBSET Clients
    BY <1>5, StoreType DEF Patch, APIInv
  <2>2. CASE c \in store[n].edits
    BY <1>5, <1>s, <2>1, <2>2 DEF Patch, StoreStep, CopyStep, Answered
  <2>3. CASE c \notin store[n].edits
    <3>1. Write(n, flag) /\ Answered(c, n, flag)
      BY <1>5, <2>3 DEF Patch
    <3>2. /\ flag \in Flags /\ flag.rv = version + 1 /\ flag.uid = store[n].uid
          /\ flag.edits = store[n].edits \cup {c}
      <4> DEFINE all == store[n].edits \cup {c}
      <4>1. all \in SUBSET Clients /\ version + 1 \in Nat
        BY <1>v, <2>1
      <4>2. flag = Updated(store[n], version + 1, all)
        BY DEF Updated
      <4> HIDE DEF flag, all
      <4>3. flag \in Flags /\ flag.rv = version + 1 /\ flag.uid = store[n].uid /\ flag.edits = all
        BY <2>1, <4>1, <4>2, FlagUpdated
      <4> QED
        BY <4>3 DEF all
    <3> HIDE DEF flag
    <3>3. Legal(n, flag)
      BY <2>1, <3>2 DEF Legal, Edits
    <3> QED
      BY <1>w, <3>1, <3>2, <3>3 DEF StoreStep, CopyStep, Answered
  <2> QED
    BY <2>2, <2>3
<1> QED
  BY <1>1, <1>2, <1>3, <1>4, <1>5 DEF Request

LEMMA DeletionSteps ==
    ASSUME APIInv, Deletion
    PROVE  StoreStep /\ UNCHANGED <<copy, faults>> /\ deleting' \in SUBSET Names
<1>1. ASSUME NEW n \in Names, Delete(n)
      PROVE  StoreStep /\ UNCHANGED <<copy, faults>> /\ deleting' \in SUBSET Names
  BY <1>1 DEF Delete, StoreStep, Legal, Deletes, clientVars, APIInv
<1>2. CASE DeleteCollection
  BY <1>2 DEF DeleteCollection, StoreStep, APIInv
<1>3. ASSUME NEW n \in Names, DeleteNext(n)
      PROVE  StoreStep /\ UNCHANGED <<copy, faults>> /\ deleting' \in SUBSET Names
  BY <1>3 DEF DeleteNext, StoreStep, Legal, Deletes, APIInv
<1> QED
  BY <1>1, <1>2, <1>3 DEF Deletion

\* An edit changes a copy's edits only, and adds to them.
LEMMA EditStep ==
    ASSUME APIInv, NEW c \in Clients, Edit(c)
    PROVE  CopyInv'
<1> DEFINE mine == copy[c].flag
           all  == mine.edits \cup {c}
<1>1. /\ copy[c] \in [name : Names, flag : Flags] /\ WasRead(copy[c].name, mine)
      /\ copy \in [Clients -> {None} \cup [name : Names, flag : Flags]]
  BY DEF Edit, APIInv, CopyInv
<1>2. UNCHANGED history /\ copy' = [copy EXCEPT ![c].flag.edits = all]
  BY DEF Edit
<1>3. all \in SUBSET Clients /\ mine \in Flags
  BY <1>1 DEF WasRead
<1>4. PICK flag \in Flags : /\ flag.rv = mine.rv /\ flag.uid = mine.uid /\ flag.edits = all
                            /\ flag = [mine EXCEPT !.edits = all]
  BY <1>3 DEF Flags
<1>5. copy' = [copy EXCEPT ![c].flag = flag]
  BY <1>2, <1>4
<1> HIDE DEF all
<1>6. PICK n \in Names : copy[c] = [name |-> n, flag |-> mine]
  BY <1>1
<1>7. copy'[c] = [name |-> n, flag |-> flag] /\ \A d \in Clients : d # c => copy'[d] = copy[d]
  BY <1>1, <1>5, <1>6
<1>8. copy' \in [Clients -> {None} \cup [name : Names, flag : Flags]]
  BY <1>1, <1>5, <1>7
<1>9. WasRead(n, flag)
  <2>1. WasRead(n, mine) /\ mine.edits \subseteq all
    BY <1>1, <1>6 DEF all
  <2> QED
    BY <1>3, <1>4, <2>1 DEF WasRead
<1>10. \A m \in Names : \A f : WasRead(m, f) => WasRead(m, f)'
  BY <1>2 DEF WasRead, version
<1>11. ASSUME NEW d \in Clients, copy'[d] # None
       PROVE  WasRead(copy[d].name, copy[d].flag)'
  <2>1. CASE d = c
    <3>1. copy'[d].name = n /\ copy'[d].flag = flag
      BY <1>7, <2>1
    <3> QED
      BY <1>2, <1>9, <3>1 DEF WasRead, version
  <2>2. CASE d # c
    BY <1>2, <1>7, <1>11, <2>2 DEF APIInv, CopyInv, WasRead, version
  <2> QED
    BY <2>1, <2>2
<1> QED
  BY <1>8, <1>11 DEF CopyInv

------------------------------------------------------------------------------
(* The reflector.                                                            *)

\* An event tells of the one flag its write has changed.
LEMMA EventChangesOne ==
    ASSUME HistoryInv, NEW v \in 2 .. version
    PROVE  LET n == Changed(v)
           IN  /\ n \in Names /\ history[v][n] # history[v - 1][n]
               /\ \A m \in Names : m # n => history[v][m] = history[v - 1][m]
<1>1. history[v] \in Stores /\ history[v - 1] \in Stores
  <2>1. v \in 1 .. version /\ v - 1 \in 1 .. version
    BY StoreType
  <2> QED
    BY <2>1, StoreType
<1>2. PICK k \in Names : \A m \in Names : m # k => history[v][m] = history[v - 1][m]
  BY DEF HistoryInv
<1>3. history[v] # history[v - 1]
  BY DEF HistoryInv
<1>4. history[v][k] # history[v - 1][k]
  BY <1>1, <1>2, <1>3 DEF Stores
<1>5. Changed(v) = k
  BY <1>2, <1>4 DEF Changed
<1> QED
  BY <1>2, <1>4, <1>5

\* A state of a flag at v that is no younger than u was there at u.
LEMMA OldState ==
    ASSUME HistoryInv, NEW n \in Names, NEW v \in 1 .. version, NEW u \in 1 .. v,
           history[v][n] # None, history[v][n].rv <= u
    PROVE  history[u][n] = history[v][n]
<1>1. /\ history[v][n].rv \in 2 .. v
      /\ \A t \in history[v][n].rv .. v : history[t][n] = history[v][n]
  BY DEF HistoryInv
<1>2. u \in history[v][n].rv .. v
  BY <1>1, StoreType
<1> QED
  BY <1>1, <1>2

\* The flag under n in a state of the store.
LEMMA StateType ==
    ASSUME HistoryInv, NEW v \in 1 .. version, NEW n \in Names
    PROVE  /\ history[v][n] \in Flags \cup {None}
           /\ history[v][n] # None => history[v][n] \in Flags /\ history[v][n].rv \in 2 .. v
<1>1. history[v] \in Stores
  BY StoreType
<1> QED
  BY <1>1 DEF Stores, HistoryInv

LEMMA ReceiveStep ==
    ASSUME HistoryInv, CacheInv, Receive
    PROVE  CacheInv'
<1> DEFINE n   == Changed(seen + 1)
           new == history[seen + 1][n]
<1>1. /\ seen \in Nat /\ seen # 0 /\ seen + 1 \in 2 .. version /\ version \in Nat
      /\ seen' = seen + 1 /\ UNCHANGED <<history, reflector, oldest, cache, shown>>
      /\ queued' = [queued EXCEPT ![n] = new] /\ missed' = missed \ {n}
  BY StoreType DEF Receive, CacheInv
<1>2. version' = version /\ seen \in 1 .. version /\ seen + 1 \in 1 .. version
      /\ (seen + 1) - 1 = seen
  BY <1>1 DEF version
<1>3. n \in Names /\ new # history[seen][n] /\ \A m \in Names : m # n => history[seen + 1][m] = history[seen][m]
  BY <1>1, <1>2, EventChangesOne
<1>4. new \in Flags \cup {None} /\ (new # None => new \in Flags /\ new.rv \in 2 .. seen + 1)
  BY <1>2, <1>3, StateType
<1>5. new \in Flags => new.rv > seen
  <2> SUFFICES ASSUME new \in Flags, ~(new.rv > seen) PROVE FALSE
    OBVIOUS
  <2>1. new # None /\ new.rv <= seen /\ seen \in 1 .. seen + 1
    BY <1>1, <1>4, APIAssumption
  <2>2. history[seen][n] = new
    BY <1>2, <1>3, <2>1, OldState
  <2> QED
    BY <1>3, <2>2
<1> HIDE DEF n, new
<1>6. ASSUME NEW m \in Names
      PROVE  Followed(m)'
  <2>0. /\ Followed(m) /\ shown[m] \in Nat /\ seen' # 0
        /\ queued[m] \in Flags => queued[m].rv \in Nat
    BY <1>1 DEF CacheInv, Flags
  <2>1. CASE m = n
    <3>1. queued'[m] = new /\ new # NoDelta /\ Seen(m)' = new
      BY <1>1, <1>4, <2>0, <2>1, APIAssumption DEF CacheInv, Seen, n, new
    <3>2. new \in Flags => new.rv > shown[m] /\ new.rv <= seen + 1
      BY <1>1, <1>4, <1>5, <2>0, APIAssumption DEF Followed
    <3> QED
      BY <1>1, <2>0, <3>1, <3>2 DEF Followed, Latest
  <2>2. CASE m # n
    <3>1. queued'[m] = queued[m] /\ (m \in missed' <=> m \in missed)
      BY <1>1, <2>2 DEF CacheInv
    <3>2. Seen(m)' = Seen(m)
      BY <1>1, <1>3, <2>0, <2>2 DEF Seen
    <3> QED
      BY <1>1, <2>0, <3>1, <3>2 DEF Followed, Latest
  <2> QED
    BY <2>1, <2>2
<1>7. queued' \in [Names -> Flags \cup {None, NoDelta}] /\ missed' \in SUBSET Names
  BY <1>1, <1>4 DEF CacheInv
<1> QED
  BY <1>1, <1>2, <1>6, <1>7 DEF CacheInv

LEMMA ListStep ==
    ASSUME HistoryInv, CacheInv, List
    PROVE  CacheInv'
<1>1. PICK v \in oldest .. version : v >= seen /\ Replace(history[v]) /\ seen' = v
  BY DEF List
<1>2. UNCHANGED <<history, oldest>> /\ reflector' = "connect" /\ version' = version
  BY DEF List, version
<1>3. v \in 1 .. version /\ v # 0 /\ v \in 0 .. version /\ seen \in Nat /\ v \in Nat
  BY <1>1, StoreType DEF CacheInv
<1>4. /\ UNCHANGED <<cache, shown>>
      /\ \A n \in Names : queued'[n] = IF history[v][n] # None \/ cache[n] # None
                                         THEN history[v][n] ELSE queued[n]
      /\ \A n \in Names : n \in missed' <=>
            history[v][n] = None /\ cache[n] = None /\ Latest(n) # None
      /\ missed' \in SUBSET Names
  BY <1>1 DEF Replace
<1>5. queued' \in [Names -> Flags \cup {None, NoDelta}]
  BY <1>1, <1>3, StateType DEF Replace, CacheInv
<1>6. ASSUME NEW n \in Names
      PROVE  Followed(n)'
  <2> DEFINE new == history[v][n]
  <2>0. /\ Followed(n) /\ shown[n] \in Nat /\ shown[n] <= v
        /\ queued[n] \in Flags => queued[n].rv \in Nat
        /\ queued[n] \in Flags \cup {None, NoDelta} /\ cache[n] \in Flags \cup {None}
    BY <1>1, <1>3 DEF CacheInv, Flags, Followed
  <2>1. new \in Flags \cup {None} /\ (new # None => new \in Flags /\ new.rv \in 2 .. v)
    BY <1>3, StateType
  <2>2. Seen(n)' = new
    BY <1>1, <1>2, <1>3 DEF Seen
  <2> HIDE DEF new
  <2>3. CASE new # None
    <3>1. queued'[n] = new /\ new \in Flags /\ new # NoDelta
      BY <1>4, <2>1, <2>3, APIAssumption DEF new
    <3>2. CASE new.rv > seen
      <4>1. new.rv > shown[n] /\ new.rv <= v
        BY <1>3, <2>0, <2>1, <2>3, <3>2 DEF Followed
      <4> QED
        BY <1>1, <1>4, <2>0, <2>2, <3>1, <4>1 DEF Followed, Latest
    <3>3. CASE ~(new.rv > seen)
      <4>1. new.rv <= seen /\ seen \in 1 .. v
        BY <1>1, <1>3, <2>1, <2>3, <3>3
      <4>2. history[seen][n] = new
        BY <1>3, <2>3, <4>1, OldState DEF new
      <4>3. Seen(n) = new
        BY <4>1, <4>2 DEF Seen
      <4>4. Latest(n) = new
        BY <2>0, <2>3, <4>3 DEF Followed
      <4>5. new = cache[n] \/ new.rv > shown[n]
        BY <2>0, <3>1, <4>4 DEF Followed, Latest
      <4>6. new.rv <= v
        BY <1>3, <2>1, <2>3
      <4> QED
        BY <1>1, <1>4, <2>0, <2>2, <3>1, <4>5, <4>6 DEF Followed, Latest
    <3> QED
      BY <3>2, <3>3
  <2>4. CASE new = None /\ cache[n] # None
    <3>1. queued'[n] = None /\ None # NoDelta /\ None \notin Flags
      BY <1>4, <2>4, APIAssumption DEF new
    <3> QED
      BY <1>1, <1>4, <2>0, <2>2, <2>4, <3>1 DEF Followed, Latest
  <2>5. CASE new = None /\ cache[n] = None
    <3>1. queued'[n] = queued[n] /\ (n \in missed' <=> Latest(n) # None)
      BY <1>4, <2>5 DEF new
    <3>2. Latest(n)' = Latest(n)
      BY <1>4, <3>1 DEF Latest
    <3>3. ASSUME queued[n] \in Flags PROVE queued[n].rv <= v
      <4>1. queued[n].rv \in Nat /\ queued[n].rv <= seen
        BY <2>0, <3>3 DEF Followed
      <4> QED
        BY <1>1, <1>3, <4>1
    <3> QED
      BY <1>1, <1>4, <2>0, <2>2, <2>5, <3>1, <3>2, <3>3 DEF Followed
  <2> QED
    BY <2>3, <2>4, <2>5
<1>7. cache' \in [Names -> Flags \cup {None}] /\ shown' \in [Names -> Nat]
  BY <1>4 DEF CacheInv
<1>8. oldest' \in 1 .. version' /\ seen' \in 0 .. version' /\ seen' # 0
  BY <1>1, <1>2, <1>3 DEF CacheInv
<1> QED
  BY <1>2, <1>4, <1>5, <1>6, <1>7, <1>8 DEF CacheInv

LEMMA PopStep ==
    ASSUME HistoryInv, CacheInv, NEW n \in Names, Pop(n)
    PROVE  CacheInv'
<1>1. /\ UNCHANGED <<history, reflector, seen, missed, oldest>> /\ version' = version
      /\ queued[n] \in Flags \cup {None}
      /\ cache' = [cache EXCEPT ![n] = queued[n]]
      /\ queued' = [queued EXCEPT ![n] = NoDelta]
      /\ shown' = [shown EXCEPT ![n] = IF queued[n] = None THEN @ ELSE queued[n].rv]
  BY DEF Pop, CacheInv, version
<1>2. /\ queued' \in [Names -> Flags \cup {None, NoDelta}]
      /\ cache' \in [Names -> Flags \cup {None}]
      /\ shown' \in [Names -> Nat]
  BY <1>1 DEF CacheInv, Flags
<1>3. ASSUME NEW m \in Names
      PROVE  Followed(m)'
  <2>1. Seen(m)' = Seen(m) /\ Followed(m)
    BY <1>1 DEF Seen, CacheInv
  <2>2. CASE m = n
    <3>1. queued'[m] = NoDelta /\ cache'[m] = queued[m] /\ queued[m] # NoDelta
          /\ shown'[m] = IF queued[m] = None THEN shown[m] ELSE queued[m].rv
      BY <1>1, <2>2, APIAssumption DEF CacheInv
    <3>2. NoDelta \notin Flags /\ queued'[m] \notin Flags
      BY <3>1, APIAssumption
    <3>3. Latest(m)' = Latest(m)
      BY <3>1 DEF Latest
    <3>4. shown'[m] <= seen
      BY <1>1, <2>1, <2>2, <3>1 DEF Followed
    <3> QED
      BY <1>1, <2>1, <3>2, <3>3, <3>4 DEF Followed
  <2>3. CASE m # n
    <3>1. queued'[m] = queued[m] /\ cache'[m] = cache[m] /\ shown'[m] = shown[m]
      BY <1>1, <2>3 DEF CacheInv
    <3> QED
      BY <1>1, <2>1, <3>1 DEF Followed, Latest
  <2> QED
    BY <2>2, <2>3
<1> QED
  BY <1>1, <1>2, <1>3 DEF CacheInv

\* What is known of the store does not change with what happens elsewhere.
LEMMA FollowedStays ==
    ASSUME NEW n \in Names, Followed(n), UNCHANGED <<seen, queued, cache, shown, missed>>,
           seen # 0 => history'[seen] = history[seen]
    PROVE  Followed(n)'
BY DEF Followed, Latest, Seen

LEMMA OtherReflectorSteps ==
    ASSUME HistoryInv, CacheInv, Watch \/ EndWatch \/ Compact
    PROVE  CacheInv'
<1>1. /\ UNCHANGED <<history, seen, queued, cache, shown, missed>>
      /\ version' = version /\ version \in Nat
  BY StoreType DEF Watch, EndWatch, Compact, cacheVars, version
<1>2. reflector' \in {"list", "connect", "watch"} /\ (reflector' # "list" => seen # 0)
  BY DEF Watch, EndWatch, Compact, CacheInv, cacheVars
<1>3. oldest' \in 1 .. version
  BY <1>1 DEF Watch, EndWatch, Compact, CacheInv
<1>4. \A n \in Names : Followed(n)'
  BY <1>1, FollowedStays DEF CacheInv
<1> QED
  BY <1>1, <1>2, <1>3, <1>4 DEF CacheInv

\* A write does not disturb what the cache has seen.
LEMMA RequestKeepsCache ==
    ASSUME HistoryInv, CacheInv, StoreStep, UNCHANGED <<cacheVars, oldest>>
    PROVE  CacheInv'
<1>1. /\ version \in Nat /\ version' \in Nat /\ version <= version'
      /\ \A v \in 1 .. version : history'[v] = history[v]
  BY StoreStepKeeps
<1>2. seen # 0 => history'[seen] = history[seen]
  BY <1>1 DEF CacheInv
<1>3. seen \in 0 .. version' /\ oldest \in 1 .. version'
  BY <1>1 DEF CacheInv
<1>4. \A n \in Names : Followed(n)'
  BY <1>2, FollowedStays DEF CacheInv, cacheVars
<1> QED
  BY <1>3, <1>4 DEF CacheInv, cacheVars

------------------------------------------------------------------------------
(* The theorems.                                                             *)

\* The invariant holds at first, and every step keeps it.
LEMMA APIInit == Init => APIInv
<1> SUFFICES ASSUME Init PROVE APIInv
  OBVIOUS
<1>1. NoFlags \in Stores /\ \A n \in Names : NoFlags[n] = None
  BY DEF NoFlags, Stores
<1>2. history = <<NoFlags>> /\ version = 1 /\ history[1] = NoFlags /\ store = NoFlags
  BY DEF Init, version, store
<1>3. history \in Seq(Stores)
  BY <1>1, <1>2
<1>4. \A v \in 1 .. version : v = 1
  BY <1>2
<1>5. HistoryInv
  BY <1>1, <1>2, <1>3, <1>4, APIAssumption DEF HistoryInv
<1>6. CopyInv
  BY DEF Init, CopyInv
<1>7. \A n \in Names : Followed(n)
  BY <1>1, APIAssumption DEF Init, Followed, Latest, Seen
<1>8. CacheInv
  BY <1>2, <1>7 DEF Init, CacheInv, NoFlags
<1> QED
  BY <1>5, <1>6, <1>8, APIAssumption DEF Init, APIInv

LEMMA APIStep == APIInv /\ [Next]_vars => APIInv'
<1> SUFFICES ASSUME APIInv, [Next]_vars PROVE APIInv'
  OBVIOUS
<1> USE DEF APIInv
<1>1. ASSUME NEW c \in Clients, Request(c) PROVE APIInv'
  <2>1. UNCHANGED <<cacheVars, oldest>>
    BY <1>1 DEF Request, Edit, Update, UpdateStatus, Get, Create, Patch
  <2>2. StoreStep /\ CopyInv'
    <3>1. CASE Edit(c)
      BY <3>1, EditStep DEF Edit, StoreStep
    <3>2. CASE ~Edit(c)
      BY <1>1, <3>2, RequestSteps, CopiesKept
    <3> QED
      BY <3>1, <3>2
  <2>3. HistoryInv' /\ CacheInv'
    BY <2>1, <2>2, StoreStepKeeps, RequestKeepsCache
  <2>4. deleting' \in SUBSET Names
    BY <1>1 DEF Request, Edit, Update, UpdateStatus, Get, Create, Patch
  <2>5. faults' \in 0 .. MaxFaults
    <3>1. UNCHANGED faults \/ Fault
      BY <1>1 DEF Request, Edit, Update, UpdateStatus, Get, Create, Patch, Answered
    <3> QED
      BY <3>1, APIAssumption DEF Fault
  <2> QED
    BY <2>2, <2>3, <2>4, <2>5
<1>4. ASSUME Deletion PROVE APIInv'
  <2>1. UNCHANGED <<cacheVars, oldest>>
    BY <1>4 DEF Deletion, Delete, DeleteCollection, DeleteNext
  <2>2. StoreStep /\ UNCHANGED <<copy, faults>> /\ deleting' \in SUBSET Names
    BY <1>4, DeletionSteps
  <2> QED
    BY <2>1, <2>2, StoreStepKeeps, CopiesKept, RequestKeepsCache DEF CopyStep
<1>2. ASSUME Reflect \/ (\E n \in Names : Pop(n)) \/ EndWatch \/ Compact PROVE APIInv'
  <2>1. UNCHANGED <<history, copy, deleting>>
    BY <1>2 DEF Reflect, List, Watch, Receive, Pop, EndWatch, Compact, clientVars
  <2>2. HistoryInv' /\ CopyInv'
    BY <2>1 DEF HistoryInv, CopyInv, WasRead, version, store
  <2>3. CacheInv'
    BY <1>2, ListStep, ReceiveStep, PopStep, OtherReflectorSteps DEF Reflect
  <2>4. faults' \in 0 .. MaxFaults
    BY <1>2, APIAssumption DEF Reflect, List, Watch, Receive, Pop, EndWatch, Compact, Fault
  <2> QED
    BY <2>1, <2>2, <2>3, <2>4
<1>3. CASE UNCHANGED vars
  <2>1. UNCHANGED <<history, copy, deleting, faults, oldest, reflector>> /\ version' = version
        /\ UNCHANGED <<seen, queued, cache, shown, missed>>
    BY <1>3 DEF vars, clientVars, cacheVars, version
  <2>2. HistoryInv' /\ CopyInv'
    BY <2>1 DEF HistoryInv, CopyInv, WasRead, version, store
  <2>3. CacheInv'
    BY <2>1, FollowedStays DEF CacheInv
  <2> QED
    BY <2>1, <2>2, <2>3
<1> QED
  BY <1>1, <1>2, <1>3, <1>4 DEF Next

\* The strengthening all theorems of this module rest on.
THEOREM APIInvariant == Spec => []APIInv
<1> QED
  BY APIInit, APIStep, PTL DEF Spec

\* The variables have their types, a flag's version is that of the write that
\* left it, no write leaves the store as it was, and clients hold flags only.
THEOREM TypeCorrect == Spec => []TypeOK
<1>1. APIInv => TypeOK
  <2> SUFFICES ASSUME APIInv PROVE TypeOK
    OBVIOUS
  <2> USE DEF APIInv
  <2>1. ASSUME NEW v \in 1 .. version, NEW n \in Names, history[v][n] # None
        PROVE  /\ history[v][n].rv \in 2 .. v
               /\ history[v][n].uid \in 2 .. history[v][n].rv
               /\ history[v][n].edits \in SUBSET Clients
               /\ history[history[v][n].rv][n] = history[v][n]
    <3>1. /\ history[v][n].rv \in 2 .. v
          /\ history[v][n].uid \in 2 .. history[v][n].rv
          /\ history[v][n].edits \in SUBSET Clients
      BY <2>1 DEF HistoryInv
    <3>2. history[v][n].rv \in 1 .. v
      BY <3>1, StoreType
    <3> QED
      BY <2>1, <3>1, <3>2, OldState, StoreType
  <2>2. ASSUME NEW c \in Clients, copy[c] # None
        PROVE  /\ copy[c].name \in Names
               /\ copy[c].flag.rv \in 2 .. version
               /\ copy[c].flag.uid \in 2 .. copy[c].flag.rv
    <3>1. WasRead(copy[c].name, copy[c].flag)
      BY <2>2 DEF CopyInv
    <3>2. /\ copy[c].flag.rv \in 2 .. copy[c].flag.rv
          /\ copy[c].flag.uid \in 2 .. copy[c].flag.rv
      BY <2>1, <3>1 DEF WasRead
    <3> QED
      BY <3>1, <3>2, StoreType DEF WasRead
  <2>3. shown \in [Names -> 0 .. seen]
    <3>1. \A n \in Names : shown[n] \in 0 .. seen
      BY DEF CacheInv, Followed
    <3> QED
      BY <3>1 DEF CacheInv
  <2>4. /\ version \in 1 .. MaxVersion + 1
        /\ \A v \in 2 .. version : history[v] # history[v - 1]
    BY DEF HistoryInv
  <2> QED
    BY <2>1, <2>2, <2>3, <2>4 DEF CacheInv, TypeOK
<1> QED
  BY <1>1, APIInvariant, PTL

\* Whatever mixture of versions the lister returns, what is cached and queued of
\* each flag adds up to the store at the one version seen, unless a list has
\* missed that it is gone.
THEOREM ListersFollow == Spec => []CacheFollowsOneVersion
<1>1. APIInv => CacheFollowsOneVersion
  BY DEF APIInv, CacheInv, Followed, Seen, CacheFollowsOneVersion
<1> QED
  BY <1>1, APIInvariant, PTL

\* No request undoes the edits of another client.
THEOREM NoLostEdits == Spec => EditsSurvive
<1> DEFINE Kept == \A n \in Names :
                     store[n] # None /\ store'[n] # None /\ store'[n].uid = store[n].uid
                        => store[n].edits \subseteq store'[n].edits
<1>1. APIInv /\ Next => Kept
  <2> SUFFICES ASSUME APIInv, Next PROVE Kept
    OBVIOUS
  <2>1. HistoryInv /\ StoreStep
    <3>1. ASSUME NEW c \in Clients, Request(c) PROVE StoreStep
      <4>1. CASE Edit(c)
        BY <4>1 DEF Edit, StoreStep
      <4> QED
        BY <3>1, <4>1, RequestSteps
    <3>2. ASSUME Reflect \/ (\E n \in Names : Pop(n)) \/ EndWatch \/ Compact PROVE StoreStep
      BY <3>2 DEF Reflect, List, Watch, Receive, Pop, EndWatch, Compact, StoreStep
    <3> QED
      BY <3>1, <3>2, DeletionSteps DEF Next, APIInv
  <2>2. CASE UNCHANGED history
    BY <2>2 DEF store, version
  <2>3. ASSUME NEW n \in Names, NEW flag \in Flags \cup {None}, Legal(n, flag), Write(n, flag)
        PROVE  Kept
    <3>1. store' = [store EXCEPT ![n] = flag] /\ store \in Stores
      BY <2>1, <2>3, Written, StoreType
    <3>2. store'[n] = flag /\ \A m \in Names : m # n => store'[m] = store[m]
      BY <3>1 DEF Stores
    <3> QED
      BY <2>3, <3>2 DEF Legal, Deletes, Creates, Edits
  <2> QED
    BY <2>1, <2>2, <2>3 DEF StoreStep
<1>2. APIInv /\ [Next]_vars => [Kept]_vars
  BY <1>1
<1> QED
  BY <1>2, APIInvariant, PTL DEF Spec, EditsSurvive

\* The lister returns each version of an object once, and in order, through any
\* number of lists, ended watches, deletions and creations.
THEOREM VersionsInOrder == Spec => ListersGoForward
<1> DEFINE Forward == \A n \in Names : cache'[n] \notin {cache[n], None} => cache'[n].rv > shown[n]
<1>1. APIInv /\ Next => Forward
  <2> SUFFICES ASSUME APIInv, Next, NEW n \in Names, cache'[n] \notin {cache[n], None}
               PROVE  cache'[n].rv > shown[n]
    OBVIOUS
  <2>1. ASSUME NEW m \in Names, Pop(m)
        PROVE  cache'[n].rv > shown[n]
    <3>1. m = n /\ cache'[n] = queued[n] /\ queued[n] # NoDelta
      BY <2>1 DEF Pop, APIInv, CacheInv
    <3>2. queued[n] \in Flags /\ queued[n] # cache[n]
      BY <3>1 DEF APIInv, CacheInv
    <3> QED
      BY <3>1, <3>2 DEF APIInv, CacheInv, Followed
  <2>2. CASE UNCHANGED cache
    BY <2>2
  <2>3. ASSUME NEW c \in Clients, Request(c) PROVE UNCHANGED cache
    BY <2>3 DEF Request, Edit, Update, UpdateStatus, Get, Create, Patch, cacheVars
  <2>4. CASE Deletion
    BY <2>2, <2>4 DEF Deletion, Delete, DeleteCollection, DeleteNext, cacheVars
  <2>5. CASE Reflect \/ EndWatch \/ Compact
    BY <2>2, <2>5 DEF Reflect, List, Replace, Watch, Receive, EndWatch, Compact, cacheVars
  <2> QED
    BY <2>1, <2>2, <2>3, <2>4, <2>5 DEF Next
<1>2. APIInv /\ [Next]_vars => [Forward]_vars
  BY <1>1
<1> QED
  BY <1>2, APIInvariant, PTL DEF Spec, ListersGoForward

==============================================================================
