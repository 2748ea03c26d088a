----------------------------- MODULE ConfigStore -----------------------------
(* What ConfigMapControl promises its callers: a call takes effect at one    *)
(* moment between its start and its return, at most once, and when it        *)
(* returns without an error it has taken effect.                             *)
CONSTANTS Clients, Names, Contents, None

Ops == {"Create", "Update", "CreateOrUpdate", "Delete"}
Calls == [op : Ops, name : Names, content : Contents]

VARIABLES contents,  \* the contents of each ConfigMap, or None
          call,      \* per client: the call it is in, or None
          applied,   \* the clients whose call has taken effect
          outcome    \* per client: how its last call returned

StoreInit ==
    /\ contents = [n \in Names |-> None]
    /\ call = [c \in Clients |-> None]
    /\ applied = {}
    /\ outcome = [c \in Clients |-> "none"]

Begin(c, request) ==
    /\ call[c] = None
    /\ call' = [call EXCEPT ![c] = request]
    /\ UNCHANGED <<contents, applied, outcome>>

\* Whether a call may take effect on what is stored under its name.
Allowed(op, old) ==
    \/ op = "Create" /\ old = None
    \/ op \in {"Update", "Delete"} /\ old # None
    \/ op = "CreateOrUpdate"

Apply(c) ==
    /\ call[c] # None
    /\ c \notin applied
    /\ Allowed(call[c].op, contents[call[c].name])
    /\ contents' = [contents EXCEPT ![call[c].name] =
                      IF call[c].op = "Delete" THEN None ELSE call[c].content]
    /\ applied' = applied \cup {c}
    /\ UNCHANGED <<call, outcome>>

\* A call succeeds only when it has taken effect; after an error the caller
\* does not know whether it has.
End(c, how) ==
    /\ call[c] # None
    /\ how = "ok" => c \in applied
    /\ outcome' = [outcome EXCEPT ![c] = how]
    /\ call' = [call EXCEPT ![c] = None]
    /\ applied' = applied \ {c}
    /\ UNCHANGED contents

StoreNext == \E c \in Clients :
    \/ \E request \in Calls : Begin(c, request)
    \/ Apply(c)
    \/ \E how \in {"ok", "error"} : End(c, how)

StoreSpec == StoreInit /\ [][StoreNext]_<<contents, call, applied, outcome>>

==============================================================================
