--------------------------- MODULE ConfigMapControl ---------------------------
(* ConfigMapControl of pkg/controllers/feature/config_control.go: calls of   *)
(* several clients that create, update and delete ConfigMaps through the API *)
(* server.  Each request is one step; CreateOrUpdateConfigMap is a GET and,  *)
(* later, a POST or a PUT.  The caller owns the object it passes and may     *)
(* pass it again: CreateOrUpdateConfigMap writes a resource version into it. *)
EXTENDS Naturals

CONSTANTS Clients, Names, Contents, None,
          MaxCalls,   \* bound: calls in a behavior
          MaxFaults   \* bound: requests that fail, or whose answer is lost

Ops == {"Create", "Update", "CreateOrUpdate", "Delete"}
Calls == [op : Ops, name : Names, content : Contents]

ASSUME ControlAssumption ==
    /\ None \notin Contents \cup Calls \cup [content : Contents, rv : Nat]
    /\ MaxCalls \in Nat /\ MaxFaults \in Nat

VARIABLES stored,   \* the ConfigMaps the API server holds, with their versions
          lastRv,   \* the last resource version it gave out
          calls, faults,
          object,   \* per client: the object it passes; rv is 0 when not set
          op,       \* per client: the method it has called
          pc,       \* per client: the next request of the call, or "reply"
          found,    \* per client: the version its GET returned
          reply,    \* per client: the answer to the call's last request
          outcome   \* per client: how its last call returned

vars == <<stored, lastRv, calls, faults, object, op, pc, found, reply, outcome>>
clientVars == <<calls, object, op, outcome>>

Init ==
    /\ stored = [n \in Names |-> None]
    /\ lastRv = 0 /\ calls = 0 /\ faults = 0
    /\ object \in [Clients -> [name : Names, content : Contents, rv : {0}]]
    /\ op = [c \in Clients |-> "Create"]
    /\ pc = [c \in Clients |-> "idle"]
    /\ found = [c \in Clients |-> 0]
    /\ reply = [c \in Clients |-> "none"]
    /\ outcome = [c \in Clients |-> "none"]

Stored(c) == stored[object[c].name]

Call(c, method, first) ==
    /\ pc[c] = "idle"
    /\ calls < MaxCalls
    /\ calls' = calls + 1
    /\ op' = [op EXCEPT ![c] = method]
    /\ pc' = [pc EXCEPT ![c] = first]
    /\ found' = [found EXCEPT ![c] = 0]
    /\ UNCHANGED <<stored, lastRv, faults, object, reply, outcome>>

CallCreate(c)         == Call(c, "Create", "create")
CallUpdate(c)         == Call(c, "Update", "update")
CallCreateOrUpdate(c) == Call(c, "CreateOrUpdate", "get")
CallDelete(c)         == Call(c, "Delete", "delete")

\* The caller builds another object, without a resource version.
NewObject(c) ==
    /\ pc[c] = "idle"
    /\ \E n \in Names, content \in Contents :
           object' = [object EXCEPT ![c] = [name |-> n, content |-> content, rv |-> 0]]
    /\ UNCHANGED <<stored, lastRv, calls, faults, op, pc, found, reply, outcome>>

\* The call ends with this answer to its last request.
Answer(c, answer) ==
    /\ reply' = [reply EXCEPT ![c] = answer]
    /\ pc' = [pc EXCEPT ![c] = "reply"]

\* The request has taken effect: it is answered, or its answer is lost.
Took(c) ==
    \/ Answer(c, "ok") /\ UNCHANGED faults
    \/ Answer(c, "lost") /\ faults < MaxFaults /\ faults' = faults + 1

Refuse(c, answer) ==
    /\ Answer(c, answer)
    /\ UNCHANGED <<stored, lastRv, faults>>

Write(c) ==
    /\ lastRv' = lastRv + 1
    /\ stored' = [stored EXCEPT ![object[c].name] = [content |-> object[c].content, rv |-> lastRv']]

\* CreateOrUpdateConfigMap looks the ConfigMap up, and makes the version it
\* found the one to replace.
GetConfigMap_KeepsVersion(c) ==    \* mutant: the found version is not set
    /\ pc[c] = "get"
    /\ IF Stored(c) = None
         THEN pc' = [pc EXCEPT ![c] = "create"] /\ UNCHANGED found
         ELSE pc' = [pc EXCEPT ![c] = "update"] /\ found' = [found EXCEPT ![c] = Stored(c).rv]
    /\ UNCHANGED <<stored, lastRv, faults, clientVars, reply>>

GetConfigMap(c) ==
    /\ pc[c] = "get"
    /\ IF Stored(c) = None
         THEN /\ pc' = [pc EXCEPT ![c] = "create"]
              /\ UNCHANGED <<found, object>>
         ELSE /\ pc' = [pc EXCEPT ![c] = "update"]
              /\ found' = [found EXCEPT ![c] = Stored(c).rv]
              /\ object' = [object EXCEPT ![c].rv = Stored(c).rv]
    /\ UNCHANGED <<stored, lastRv, calls, faults, op, reply, outcome>>

CreateConfigMap_Tolerant(c) ==    \* mutant: AlreadyExists passes for success
    /\ pc[c] = "create"
    /\ \/ Stored(c) # None /\ Refuse(c, "ok")
       \/ Stored(c) = None /\ object[c].rv # 0 /\ Refuse(c, "refused")
       \/ Stored(c) = None /\ object[c].rv = 0 /\ Write(c) /\ Took(c)
    /\ UNCHANGED <<clientVars, found>>

\* The API server creates no object that has a resource version.
CreateConfigMap(c) ==
    /\ pc[c] = "create"
    /\ \/ Stored(c) # None /\ Refuse(c, "exists")
       \/ Stored(c) = None /\ object[c].rv # 0 /\ Refuse(c, "refused")
       \/ Stored(c) = None /\ object[c].rv = 0 /\ Write(c) /\ Took(c)
    /\ UNCHANGED <<clientVars, found>>

\* The API server replaces the version the object names, or any if none; a PUT
\* of what is stored already leaves the version as it is.
UpdateConfigMap(c) ==
    /\ pc[c] = "update"
    /\ \/ Stored(c) = None /\ Refuse(c, "missing")
       \/ Stored(c) # None /\ object[c].rv \notin {0, Stored(c).rv} /\ Refuse(c, "conflict")
       \/ /\ Stored(c) # None /\ object[c].rv \in {0, Stored(c).rv}
          /\ IF Stored(c).content = object[c].content THEN UNCHANGED <<stored, lastRv>>
                                                      ELSE Write(c)
          /\ Took(c)
    /\ UNCHANGED <<clientVars, found>>

DeleteConfigMap(c) ==
    /\ pc[c] = "delete"
    /\ \/ Stored(c) = None /\ Refuse(c, "missing")
       \/ /\ Stored(c) # None
          /\ stored' = [stored EXCEPT ![object[c].name] = None]
          /\ UNCHANGED lastRv
          /\ Took(c)
    /\ UNCHANGED <<clientVars, found>>

\* A request fails before it has an effect.
RequestFails(c) ==
    /\ pc[c] \in {"get", "create", "update", "delete"}
    /\ faults < MaxFaults
    /\ faults' = faults + 1
    /\ Answer(c, "failed")
    /\ UNCHANGED <<stored, lastRv, clientVars, found>>

Return(c) ==
    /\ pc[c] = "reply"
    /\ pc' = [pc EXCEPT ![c] = "idle"]
    /\ outcome' = [outcome EXCEPT ![c] = IF reply[c] = "ok" THEN "ok" ELSE "error"]
    /\ UNCHANGED <<stored, lastRv, calls, faults, object, op, found, reply>>

Next == \E c \in Clients :
    \/ NewObject(c)
    \/ CallCreate(c) \/ CallUpdate(c) \/ CallCreateOrUpdate(c) \/ CallDelete(c)
    \/ GetConfigMap(c) \/ CreateConfigMap(c) \/ UpdateConfigMap(c) \/ DeleteConfigMap(c)
    \/ RequestFails(c) \/ Return(c)

Spec == Init /\ [][Next]_vars

------------------------------------------------------------------------------
(* Properties.                                                               *)

\* The variables have their types; a version is one the API server gave out, a
\* request is one its method makes, and CreateOrUpdateConfigMap sends its PUT
\* with the version its GET returned.
TypeOK ==
    /\ lastRv \in Nat /\ calls \in Nat /\ faults \in Nat
    /\ stored \in [Names -> [content : Contents, rv : 1 .. lastRv] \cup {None}]
    /\ object \in [Clients -> [name : Names, content : Contents, rv : 0 .. lastRv]]
    /\ op \in [Clients -> Ops]
    /\ pc \in [Clients -> {"idle", "get", "create", "update", "delete", "reply"}]
    /\ found \in [Clients -> 0 .. lastRv]
    /\ reply \in [Clients -> {"none", "ok", "lost", "failed", "exists", "missing",
                              "refused", "conflict"}]
    /\ outcome \in [Clients -> {"none", "ok", "error"}]
    /\ \A c \in Clients :
         /\ pc[c] = "get" => op[c] = "CreateOrUpdate"
         /\ pc[c] = "create" => op[c] \in {"Create", "CreateOrUpdate"}
         /\ pc[c] = "update" /\ op[c] = "CreateOrUpdate" => object[c].rv = found[c] /\ found[c] # 0

\* The calls are atomic, although CreateOrUpdateConfigMap is two requests that
\* others come between, and report success only of what took effect.
StoredContents == [n \in Names |-> IF stored[n] = None THEN None ELSE stored[n].content]
CurrentCall == [c \in Clients |-> IF pc[c] = "idle" THEN None
                  ELSE [op |-> op[c], name |-> object[c].name, content |-> object[c].content]]
Applied == {c \in Clients : pc[c] = "reply" /\ reply[c] \in {"ok", "lost"}}

Store == INSTANCE ConfigStore WITH
    contents <- StoredContents, call <- CurrentCall, applied <- Applied

AtomicCalls == Store!StoreSpec

\* CreateOrUpdateConfigMap replaces the version its GET returned and no other:
\* what somebody wrote in between is never overwritten unseen
\* (config_control.go: "to ensure we are on the latest version").
ReplacesWhatWasFound ==
    [][\A c \in Clients :
          op[c] = "CreateOrUpdate" /\ pc[c] = "update" /\ reply'[c] = "ok" /\ pc'[c] = "reply"
             => Stored(c) # None /\ Stored(c).rv = found[c]]_vars

\* "If no resource we need to create": a CreateOrUpdateConfigMap that found no
\* ConfigMap creates it, unless somebody else has done so or the request fails.
CreatesWhenMissing ==
    [][\A c \in Clients :
          op[c] = "CreateOrUpdate" /\ pc[c] = "create" /\ pc'[c] = "reply" /\ Stored(c) = None
             => reply'[c] \in {"ok", "lost", "failed"}]_vars

==============================================================================
