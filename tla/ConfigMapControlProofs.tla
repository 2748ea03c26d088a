----------------------- MODULE ConfigMapControlProofs -----------------------
(* Theorems about ConfigMapControl, for any clients, names and contents, and *)
(* any number of calls and faults.                                           *)
EXTENDS ConfigMapControl, TLAPS

\* The types, and each request is one that its method makes.
ControlInv ==
    /\ TypeOK
    /\ \A c \in Clients : /\ pc[c] = "update" => op[c] \in {"Update", "CreateOrUpdate"}
                          /\ pc[c] = "delete" => op[c] = "Delete"

------------------------------------------------------------------------------

\* The calls start in the invariant.
LEMMA ControlInit == Init => ControlInv
  BY ControlAssumption DEF Init, ControlInv, TypeOK, Ops

\* The part of TypeOK that is about the API server's store and the versions.
VersionsOK ==
    /\ lastRv \in Nat /\ faults \in Nat
    /\ stored \in [Names -> [content : Contents, rv : 1 .. lastRv] \cup {None}]
    /\ object \in [Clients -> [name : Names, content : Contents, rv : 0 .. lastRv]]
    /\ found \in [Clients -> 0 .. lastRv]

\* A write leaves the store with its type, and older versions what they are.
LEMMA WriteKeepsTypes ==
    ASSUME TypeOK, NEW c \in Clients, Write(c), UNCHANGED <<object, found>>, faults' \in Nat
    PROVE  VersionsOK'
<1>1. lastRv' \in Nat /\ lastRv' \in 1 .. lastRv'
  BY DEF TypeOK, Write
<1>2. 1 .. lastRv \subseteq 1 .. lastRv' /\ 0 .. lastRv \subseteq 0 .. lastRv'
  BY DEF TypeOK, Write
<1>3. [content |-> object[c].content, rv |-> lastRv'] \in [content : Contents, rv : 1 .. lastRv']
  BY <1>1 DEF TypeOK
<1>4. stored' \in [Names -> [content : Contents, rv : 1 .. lastRv'] \cup {None}]
  BY <1>2, <1>3 DEF TypeOK, Write
<1>5. object' \in [Clients -> [name : Names, content : Contents, rv : 0 .. lastRv']]
  BY <1>2 DEF TypeOK
<1>6. found' \in [Clients -> 0 .. lastRv']
  BY <1>2 DEF TypeOK
<1> QED
  BY <1>1, <1>4, <1>5, <1>6 DEF VersionsOK

\* A request that ends a call with an answer preserves the invariant when it
\* leaves the store with its type.
LEMMA AnswerKeepsInv ==
    ASSUME ControlInv, VersionsOK', NEW c \in Clients,
           NEW answer \in {"none", "ok", "lost", "failed", "exists", "missing", "refused", "conflict"},
           Answer(c, answer), UNCHANGED <<clientVars, found>>
    PROVE  ControlInv'
  BY DEF ControlInv, TypeOK, VersionsOK, Answer, clientVars

\* No request, answer or fault leaves it.
LEMMA ControlStep == ControlInv /\ [Next]_vars => ControlInv'
<1> SUFFICES ASSUME ControlInv, [Next]_vars PROVE ControlInv'
  OBVIOUS
<1>1. ASSUME NEW c \in Clients, NewObject(c)
      PROVE  ControlInv'
  BY <1>1 DEF NewObject, ControlInv, TypeOK, Ops, clientVars
<1>2. ASSUME NEW c \in Clients, CallCreate(c)
      PROVE  ControlInv'
  BY <1>2 DEF CallCreate, Call, ControlInv, TypeOK, Ops, clientVars
<1>3. ASSUME NEW c \in Clients, CallUpdate(c)
      PROVE  ControlInv'
  BY <1>3 DEF CallUpdate, Call, ControlInv, TypeOK, Ops, clientVars
<1>4. ASSUME NEW c \in Clients, CallCreateOrUpdate(c)
      PROVE  ControlInv'
  BY <1>4 DEF CallCreateOrUpdate, Call, ControlInv, TypeOK, Ops, clientVars
<1>5. ASSUME NEW c \in Clients, CallDelete(c)
      PROVE  ControlInv'
  BY <1>5 DEF CallDelete, Call, ControlInv, TypeOK, Ops, clientVars
<1>6. ASSUME NEW c \in Clients, GetConfigMap(c)
      PROVE  ControlInv'
  <2>1. CASE Stored(c) = None
    BY <1>6, <2>1 DEF GetConfigMap, ControlInv, TypeOK
  <2>2. CASE Stored(c) # None
    <3>1. Stored(c).rv \in 1 .. lastRv
      BY <2>2 DEF Stored, ControlInv, TypeOK
    <3>2. /\ pc' = [pc EXCEPT ![c] = "update"] /\ pc[c] = "get" /\ op[c] = "CreateOrUpdate"
          /\ found' = [found EXCEPT ![c] = Stored(c).rv]
          /\ object' = [object EXCEPT ![c].rv = Stored(c).rv]
          /\ UNCHANGED <<stored, lastRv, calls, faults, op, reply, outcome>>
      BY <1>6, <2>2 DEF GetConfigMap, ControlInv, TypeOK
    <3>3. object'[c].rv = found'[c] /\ found'[c] # 0
      BY <3>1, <3>2 DEF ControlInv, TypeOK
    <3>4. object' \in [Clients -> [name : Names, content : Contents, rv : 0 .. lastRv]]
      BY <3>1, <3>2 DEF ControlInv, TypeOK
    <3>5. found' \in [Clients -> 0 .. lastRv]
      BY <3>1, <3>2 DEF ControlInv, TypeOK
    <3>6. \A d \in Clients : d # c => UNCHANGED <<object[d], found[d], pc[d]>>
      BY <3>2 DEF ControlInv, TypeOK
    <3>7. pc' \in [Clients -> {"idle", "get", "create", "update", "delete", "reply"}] /\ pc'[c] = "update"
      BY <3>2 DEF ControlInv, TypeOK
    <3>8. TypeOK'
      <4>1. \A d \in Clients :
              /\ pc'[d] = "get" => op[d] = "CreateOrUpdate"
              /\ pc'[d] = "create" => op[d] \in {"Create", "CreateOrUpdate"}
              /\ pc'[d] = "update" /\ op[d] = "CreateOrUpdate"
                   => object'[d].rv = found'[d] /\ found'[d] # 0
        BY <3>3, <3>6, <3>7 DEF ControlInv, TypeOK
      <4> QED
        BY <3>2, <3>4, <3>5, <3>7, <4>1 DEF ControlInv, TypeOK
    <3> QED
      BY <3>2, <3>6, <3>7, <3>8 DEF ControlInv
  <2> QED
    BY <2>1, <2>2
<1>7. ASSUME NEW c \in Clients, CreateConfigMap(c)
      PROVE  ControlInv'
  <2>1. PICK answer \in {"ok", "lost"} \cup {"exists", "refused"} : Answer(c, answer)
    BY <1>7 DEF CreateConfigMap, Refuse, Took
  <2>2. UNCHANGED <<clientVars, found>> /\ faults' \in Nat
    BY <1>7 DEF CreateConfigMap, Refuse, Took, ControlInv, TypeOK
  <2>3. VersionsOK'
    <3>1. CASE Write(c)
      BY <2>2, <3>1, WriteKeepsTypes DEF ControlInv, clientVars
    <3>2. CASE UNCHANGED <<stored, lastRv>>
      BY <2>2, <3>2 DEF ControlInv, TypeOK, VersionsOK, clientVars
    <3> QED
      BY <1>7, <3>1, <3>2 DEF CreateConfigMap, Refuse
  <2> QED
    BY <2>1, <2>2, <2>3, AnswerKeepsInv
<1>8. ASSUME NEW c \in Clients, UpdateConfigMap(c)
      PROVE  ControlInv'
  <2>1. PICK answer \in {"ok", "lost"} \cup {"missing", "conflict"} : Answer(c, answer)
    BY <1>8 DEF UpdateConfigMap, Refuse, Took
  <2>2. UNCHANGED <<clientVars, found>> /\ faults' \in Nat
    BY <1>8 DEF UpdateConfigMap, Refuse, Took, ControlInv, TypeOK
  <2>3. VersionsOK'
    <3>1. CASE Write(c)
      BY <2>2, <3>1, WriteKeepsTypes DEF ControlInv, clientVars
    <3>2. CASE UNCHANGED <<stored, lastRv>>
      BY <2>2, <3>2 DEF ControlInv, TypeOK, VersionsOK, clientVars
    <3> QED
      BY <1>8, <3>1, <3>2 DEF UpdateConfigMap, Refuse
  <2> QED
    BY <2>1, <2>2, <2>3, AnswerKeepsInv
<1>9. ASSUME NEW c \in Clients, DeleteConfigMap(c)
      PROVE  ControlInv'
  <2>1. PICK answer \in {"ok", "lost"} \cup {"missing"} : Answer(c, answer)
    BY <1>9 DEF DeleteConfigMap, Refuse, Took
  <2>2. UNCHANGED <<clientVars, found>> /\ faults' \in Nat
    BY <1>9 DEF DeleteConfigMap, Refuse, Took, ControlInv, TypeOK
  <2>3. VersionsOK'
    <3>1. lastRv' = lastRv /\ stored' \in [Names -> [content : Contents, rv : 1 .. lastRv] \cup {None}]
      BY <1>9 DEF DeleteConfigMap, Refuse, ControlInv, TypeOK
    <3> QED
      BY <2>2, <3>1 DEF ControlInv, TypeOK, VersionsOK, clientVars
  <2> QED
    BY <2>1, <2>2, <2>3, AnswerKeepsInv
<1>10. ASSUME NEW c \in Clients, RequestFails(c)
      PROVE  ControlInv'
  BY <1>10 DEF RequestFails, Answer, ControlInv, TypeOK, Ops, clientVars
<1>11. ASSUME NEW c \in Clients, Return(c)
      PROVE  ControlInv'
  BY <1>11 DEF Return, ControlInv, TypeOK, Ops, clientVars
<1>12. CASE UNCHANGED vars
  BY <1>12 DEF vars, ControlInv, TypeOK
<1> QED
  BY <1>1, <1>2, <1>3, <1>4, <1>5, <1>6, <1>7, <1>8, <1>9, <1>10, <1>11, <1>12 DEF Next

\* In every reachable state of the calls the strengthened invariant holds.
THEOREM ControlInvariant == Spec => []ControlInv
<1>1. Init => ControlInv
  BY ControlInit
<1>2. ControlInv /\ [Next]_vars => ControlInv'
  BY ControlStep
<1> QED
  BY <1>1, <1>2, PTL DEF Spec

\* The variables have their types, and CreateOrUpdateConfigMap sends its PUT
\* with the version its GET returned.
THEOREM TypeCorrect == Spec => []TypeOK
<1>1. ControlInv => TypeOK
  BY DEF ControlInv
<1> QED
  BY <1>1, ControlInvariant, PTL

------------------------------------------------------------------------------
(* The calls implement the atomic ones of ConfigStore.                       *)

StoreVars == <<StoredContents, CurrentCall, Applied, outcome>>

\* A client between two requests is in a call that has not taken effect.
LEMMA InCall ==
    ASSUME ControlInv, NEW c \in Clients, pc[c] \in {"get", "create", "update", "delete"}
    PROVE  /\ c \notin Applied
           /\ CurrentCall[c] = [op |-> op[c], name |-> object[c].name, content |-> object[c].content]
           /\ CurrentCall[c] \in Calls /\ CurrentCall[c] # None
           /\ object[c].name \in Names /\ object[c].content \in Contents
  BY ControlAssumption DEF ControlInv, TypeOK, Applied, CurrentCall, Calls

\* An answer does not change the call, and takes effect only if it says so.
LEMMA AnswerInCall ==
    ASSUME ControlInv, NEW c \in Clients, pc[c] \in {"get", "create", "update", "delete"},
           NEW answer, Answer(c, answer), UNCHANGED clientVars
    PROVE  /\ CurrentCall' = CurrentCall
           /\ answer \in {"ok", "lost"} => Applied' = Applied \cup {c}
           /\ answer \notin {"ok", "lost"} => Applied' = Applied
<1>1. /\ \A d \in Clients : pc'[d] = "idle" <=> pc[d] = "idle"
      /\ pc'[c] = "reply" /\ reply'[c] = answer
      /\ \A d \in Clients : d # c => pc'[d] = pc[d] /\ reply'[d] = reply[d]
  BY DEF ControlInv, TypeOK, Answer
<1>2. CurrentCall' = CurrentCall
  BY <1>1 DEF CurrentCall, clientVars
<1>3. \A d \in Clients :
        d \in Applied' <=> IF d = c THEN answer \in {"ok", "lost"} ELSE d \in Applied
  BY <1>1 DEF Applied
<1>4. c \notin Applied /\ Applied \subseteq Clients /\ Applied' \subseteq Clients
  BY DEF Applied
<1> QED
  BY <1>2, <1>3, <1>4

\* A refused or failed request is a step that ConfigStore does not see.
LEMMA RefusedStutters ==
    ASSUME ControlInv, NEW c \in Clients, pc[c] \in {"get", "create", "update", "delete"},
           NEW answer, answer \notin {"ok", "lost"}, Answer(c, answer),
           UNCHANGED <<clientVars, stored>>
    PROVE  UNCHANGED StoreVars
<1>1. CurrentCall' = CurrentCall /\ Applied' = Applied
  BY AnswerInCall
<1> QED
  BY <1>1 DEF StoreVars, StoredContents, clientVars

\* A request that has taken effect is the moment at which the call does.
LEMMA TookApplies ==
    ASSUME ControlInv, NEW c \in Clients, pc[c] \in {"create", "update", "delete"},
           Took(c), UNCHANGED clientVars,
           Store!Allowed(op[c], StoredContents[object[c].name]),
           StoredContents' = [StoredContents EXCEPT ![object[c].name] =
                                IF op[c] = "Delete" THEN None ELSE object[c].content]
    PROVE  Store!Apply(c)
<1>1. PICK answer \in {"ok", "lost"} : Answer(c, answer)
  BY DEF Took
<1>2. CurrentCall' = CurrentCall /\ Applied' = Applied \cup {c}
  BY <1>1, AnswerInCall
<1>3. /\ c \notin Applied /\ CurrentCall[c] # None
      /\ CurrentCall[c].op = op[c] /\ CurrentCall[c].name = object[c].name
      /\ CurrentCall[c].content = object[c].content
  <2>1. /\ c \notin Applied /\ CurrentCall[c] # None
        /\ CurrentCall[c] = [op |-> op[c], name |-> object[c].name, content |-> object[c].content]
    BY InCall
  <2> QED
    BY <2>1
<1> QED
  BY <1>2, <1>3 DEF Store!Apply, clientVars

\* What ConfigStore sees of a ConfigMap, and of a write.
LEMMA SeenContents ==
    ASSUME ControlInv, NEW c \in Clients
    PROVE  /\ StoredContents[object[c].name] = None <=> Stored(c) = None
           /\ Write(c) => StoredContents' = [StoredContents EXCEPT ![object[c].name] = object[c].content]
<1>1. object[c].name \in Names /\ object[c].content \in Contents
  BY DEF ControlInv, TypeOK
<1>2. StoredContents[object[c].name] = None <=> Stored(c) = None
  BY <1>1, ControlAssumption DEF ControlInv, TypeOK, StoredContents, Stored
<1>3. ASSUME Write(c)
      PROVE  StoredContents' = [StoredContents EXCEPT ![object[c].name] = object[c].content]
  <2> DEFINE new == [content |-> object[c].content, rv |-> lastRv']
  <2>1. lastRv' \in Nat
    BY <1>3 DEF Write, ControlInv, TypeOK
  <2>2. new # None /\ new.content = object[c].content
    BY <1>1, <2>1, ControlAssumption
  <2>3. stored' = [stored EXCEPT ![object[c].name] = new]
    BY <1>3 DEF Write
  <2> HIDE DEF new
  <2>4. \A n \in Names : stored'[n] = IF n = object[c].name THEN new ELSE stored[n]
    BY <2>3 DEF ControlInv, TypeOK
  <2> QED
    BY <2>2, <2>4 DEF StoredContents
<1> QED
  BY <1>2, <1>3

\* Every step is a step of ConfigStore or leaves what it sees as it was.
LEMMA StepImplementsStore ==
    ControlInv /\ [Next]_vars => [Store!StoreNext]_StoreVars
<1> SUFFICES ASSUME ControlInv, [Next]_vars PROVE [Store!StoreNext]_StoreVars
  OBVIOUS
<1>1. ASSUME NEW c \in Clients, NewObject(c)
      PROVE  UNCHANGED StoreVars
  <2>1. CurrentCall' = CurrentCall
    BY <1>1 DEF NewObject, CurrentCall, ControlInv, TypeOK
  <2> QED
    BY <1>1, <2>1 DEF NewObject, StoreVars, StoredContents, Applied
<1>2. ASSUME NEW c \in Clients, NEW method \in Ops,
             NEW first \in {"get", "create", "update", "delete"}, Call(c, method, first)
      PROVE  \E request \in Calls : Store!Begin(c, request)
  <2> DEFINE request == [op |-> method, name |-> object[c].name, content |-> object[c].content]
  <2>1. request \in Calls
    BY DEF ControlInv, TypeOK, Calls
  <2>2. CurrentCall[c] = None
    BY <1>2 DEF Call, CurrentCall
  <2>3. CurrentCall' = [CurrentCall EXCEPT ![c] = request]
    BY <1>2 DEF Call, CurrentCall, ControlInv, TypeOK
  <2>4. StoredContents' = StoredContents /\ Applied' = Applied /\ outcome' = outcome
    BY <1>2 DEF Call, StoredContents, Applied, ControlInv, TypeOK
  <2> QED
    BY <2>1, <2>2, <2>3, <2>4 DEF Store!Begin
<1>3. ASSUME NEW c \in Clients, GetConfigMap(c)
      PROVE  UNCHANGED StoreVars
  <2>1. \A d \in Clients : /\ pc'[d] = "idle" <=> pc[d] = "idle"
                           /\ pc'[d] = "reply" <=> pc[d] = "reply"
                           /\ UNCHANGED <<object[d].name, object[d].content>>
    BY <1>3 DEF GetConfigMap, ControlInv, TypeOK
  <2>2. UNCHANGED <<op, reply, outcome, stored>>
    BY <1>3 DEF GetConfigMap
  <2> QED
    BY <2>1, <2>2 DEF StoreVars, StoredContents, CurrentCall, Applied
<1>4. ASSUME NEW c \in Clients, CreateConfigMap(c)
      PROVE  Store!Apply(c) \/ UNCHANGED StoreVars
  <2>1. pc[c] = "create" /\ UNCHANGED clientVars /\ op[c] \in {"Create", "CreateOrUpdate"}
    BY <1>4 DEF CreateConfigMap, ControlInv, TypeOK
  <2>2. CASE \E answer \in {"exists", "refused"} : Refuse(c, answer)
    BY <2>1, <2>2, RefusedStutters DEF Refuse
  <2>3. CASE Stored(c) = None /\ Write(c) /\ Took(c)
    <3>1. StoredContents' = [StoredContents EXCEPT ![object[c].name] = object[c].content]
      BY <2>3, SeenContents
    <3>2. Store!Allowed(op[c], StoredContents[object[c].name])
      BY <2>1, <2>3, SeenContents DEF Store!Allowed
    <3> QED
      BY <2>1, <2>3, <3>1, <3>2, TookApplies
  <2> QED
    BY <1>4, <2>2, <2>3 DEF CreateConfigMap
<1>5. ASSUME NEW c \in Clients, UpdateConfigMap(c)
      PROVE  Store!Apply(c) \/ UNCHANGED StoreVars
  <2>1. pc[c] = "update" /\ UNCHANGED clientVars /\ op[c] \in {"Update", "CreateOrUpdate"}
    BY <1>5 DEF UpdateConfigMap, ControlInv
  <2>2. CASE \E answer \in {"missing", "conflict"} : Refuse(c, answer)
    BY <2>1, <2>2, RefusedStutters DEF Refuse
  <2>3. CASE /\ Stored(c) # None /\ Took(c)
             /\ Write(c) \/ (Stored(c).content = object[c].content /\ UNCHANGED stored)
    <3>1. StoredContents' = [StoredContents EXCEPT ![object[c].name] = object[c].content]
      <4>1. CASE Write(c)
        BY <4>1, SeenContents
      <4>2. CASE Stored(c).content = object[c].content /\ UNCHANGED stored
        BY <2>3, <4>2 DEF StoredContents, Stored, ControlInv, TypeOK
      <4> QED
        BY <2>3, <4>1, <4>2
    <3>2. Store!Allowed(op[c], StoredContents[object[c].name])
      BY <2>1, <2>3, SeenContents DEF Store!Allowed
    <3> QED
      BY <2>1, <2>3, <3>1, <3>2, TookApplies
  <2>4. \/ Refuse(c, "missing") \/ Refuse(c, "conflict")
        \/ /\ Stored(c) # None /\ Took(c)
           /\ Write(c) \/ (Stored(c).content = object[c].content /\ UNCHANGED stored)
    BY <1>5 DEF UpdateConfigMap
  <2> QED
    BY <2>2, <2>3, <2>4
<1>6. ASSUME NEW c \in Clients, DeleteConfigMap(c)
      PROVE  Store!Apply(c) \/ UNCHANGED StoreVars
  <2>1. pc[c] = "delete" /\ UNCHANGED clientVars /\ op[c] = "Delete"
    BY <1>6 DEF DeleteConfigMap, ControlInv
  <2>2. CASE Refuse(c, "missing")
    BY <2>1, <2>2, RefusedStutters DEF Refuse
  <2>3. CASE Stored(c) # None /\ stored' = [stored EXCEPT ![object[c].name] = None] /\ Took(c)
    <3>1. StoredContents' = [StoredContents EXCEPT ![object[c].name] = None]
      BY <2>3 DEF StoredContents, ControlInv, TypeOK
    <3>2. Store!Allowed(op[c], StoredContents[object[c].name])
      BY <2>1, <2>3, SeenContents DEF Store!Allowed
    <3> QED
      BY <2>1, <2>3, <3>1, <3>2, TookApplies
  <2> QED
    BY <1>6, <2>2, <2>3 DEF DeleteConfigMap
<1>7. ASSUME NEW c \in Clients, RequestFails(c)
      PROVE  UNCHANGED StoreVars
  BY <1>7, RefusedStutters DEF RequestFails
<1>8. ASSUME NEW c \in Clients, Return(c)
      PROVE  \E how \in {"ok", "error"} : Store!End(c, how)
  <2> DEFINE how == IF reply[c] = "ok" THEN "ok" ELSE "error"
  <2>1. CurrentCall[c] # None
    BY <1>8, ControlAssumption DEF Return, CurrentCall, Calls, ControlInv, TypeOK
  <2>2. how = "ok" => c \in Applied
    BY <1>8 DEF Return, Applied
  <2>3. CurrentCall' = [CurrentCall EXCEPT ![c] = None]
    BY <1>8 DEF Return, CurrentCall, ControlInv, TypeOK
  <2>4. Applied' = Applied \ {c}
    BY <1>8 DEF Return, Applied, ControlInv, TypeOK
  <2>5. StoredContents' = StoredContents /\ outcome' = [outcome EXCEPT ![c] = how]
    BY <1>8 DEF Return, StoredContents
  <2> QED
    BY <2>1, <2>2, <2>3, <2>4, <2>5 DEF Store!End
<1>9. CASE UNCHANGED vars
  BY <1>9 DEF vars, StoreVars, StoredContents, CurrentCall, Applied
<1>10. ASSUME NEW c \in Clients,
              CallCreate(c) \/ CallUpdate(c) \/ CallCreateOrUpdate(c) \/ CallDelete(c)
       PROVE  \E request \in Calls : Store!Begin(c, request)
  BY <1>2, <1>10 DEF CallCreate, CallUpdate, CallCreateOrUpdate, CallDelete, Ops
<1> QED
  BY <1>1, <1>3, <1>4, <1>5, <1>6, <1>7, <1>8, <1>9, <1>10
  DEF Next, Store!StoreNext, Store!Calls, Store!Ops, Calls, Ops

\* Calls of any number of clients are atomic: ConfigMapControl implements
\* ConfigStore, although a call is several requests that others come between.
THEOREM CallsAreAtomic == Spec => AtomicCalls
<1>1. Init => Store!StoreInit
  BY DEF Init, Store!StoreInit, StoredContents, CurrentCall, Applied
<1>2. ControlInv /\ [Next]_vars => [Store!StoreNext]_StoreVars
  BY StepImplementsStore
<1> QED
  BY <1>1, <1>2, ControlInvariant, PTL DEF Spec, AtomicCalls, Store!StoreSpec, StoreVars

\* A CreateOrUpdateConfigMap that succeeds has replaced the version its GET
\* returned, and no other.
THEOREM UpdatesReplaceWhatWasFound == Spec => ReplacesWhatWasFound
<1> DEFINE Replaces ==
      \A c \in Clients :
         op[c] = "CreateOrUpdate" /\ pc[c] = "update" /\ reply'[c] = "ok" /\ pc'[c] = "reply"
            => Stored(c) # None /\ Stored(c).rv = found[c]
<1>1. ASSUME ControlInv, Next PROVE Replaces
  <2> SUFFICES ASSUME NEW c \in Clients, op[c] = "CreateOrUpdate", pc[c] = "update",
                      reply'[c] = "ok", pc'[c] = "reply"
               PROVE  Stored(c) # None /\ Stored(c).rv = found[c]
    OBVIOUS
  <2>1. object[c].rv = found[c] /\ found[c] # 0
    BY <1>1 DEF ControlInv, TypeOK
  <2>2. UpdateConfigMap(c) \/ RequestFails(c)
    BY <1>1 DEF ControlInv, TypeOK, Next, NewObject, CallCreate, CallUpdate, CallCreateOrUpdate,
       CallDelete, Call, GetConfigMap, CreateConfigMap, UpdateConfigMap, DeleteConfigMap,
       RequestFails, Return, Refuse, Took, Answer
  <2>3. reply'[c] = "ok" => ~RequestFails(c)
    BY <1>1 DEF RequestFails, Answer, ControlInv, TypeOK
  <2> QED
    BY <1>1, <2>1, <2>2, <2>3 DEF UpdateConfigMap, Refuse, Answer, ControlInv, TypeOK
<1>2. ControlInv => [Replaces]_vars \/ ~[Next]_vars
  BY <1>1
<1> QED
  BY <1>2, ControlInvariant, PTL DEF Spec, ReplacesWhatWasFound

==============================================================================
