------------------------------ MODULE WorkQueue ------------------------------
(* The rate limited work queue of client-go, as controller.go uses it: a     *)
(* FIFO of keys without duplicates that never hands a key to two workers,    *)
(* behind a delaying queue that holds a failed key for its back-off.         *)
(* Durations are not modelled: a back-off ends at any moment.                *)
EXTENDS Sequences, Naturals

VARIABLES queue,       \* keys ready to be handed out, oldest first
          dirty,       \* keys that need processing
          processing,  \* keys handed out and not Done
          waiting,     \* keys in back-off
          failing      \* keys the rate limiter counts failures of

QueueInit ==
    /\ queue = <<>>
    /\ dirty = {}
    /\ processing = {}
    /\ waiting = {}
    /\ failing = {}

\* A key being processed becomes dirty but is queued only when it is Done.
Enqueue(k) ==
    /\ dirty' = dirty \cup {k}
    /\ queue' = IF k \in dirty \cup processing THEN queue ELSE Append(queue, k)

Add(k) ==
    /\ Enqueue(k)
    /\ UNCHANGED <<processing, waiting, failing>>

Get(k) ==
    /\ queue # <<>>
    /\ k = Head(queue)
    /\ queue' = Tail(queue)
    /\ processing' = processing \cup {k}
    /\ dirty' = dirty \ {k}
    /\ UNCHANGED <<waiting, failing>>

Done(k) ==
    /\ processing' = processing \ {k}
    /\ queue' = IF k \in dirty THEN Append(queue, k) ELSE queue
    /\ UNCHANGED <<dirty, waiting, failing>>

AddRateLimited(k) ==
    /\ failing' = failing \cup {k}
    /\ waiting' = waiting \cup {k}
    /\ UNCHANGED <<queue, dirty, processing>>

Forget(k) ==
    /\ failing' = failing \ {k}
    /\ UNCHANGED <<queue, dirty, processing, waiting>>

\* The back-off of a key is over.
Elapse(k) ==
    /\ k \in waiting
    /\ waiting' = waiting \ {k}
    /\ Enqueue(k)
    /\ UNCHANGED <<processing, failing>>

QueueRestart ==
    /\ queue' = <<>>
    /\ dirty' = {}
    /\ processing' = {}
    /\ waiting' = {}
    /\ failing' = {}

------------------------------------------------------------------------------

QueueTypeOK(Items) ==
    /\ queue \in Seq(Items)
    /\ dirty \in SUBSET Items /\ processing \in SUBSET Items
    /\ waiting \in SUBSET Items /\ failing \in SUBSET Items

\* A key is queued, once, when it needs processing and nobody processes it.
QueueInv ==
    /\ \A i \in 1 .. Len(queue) : queue[i] \in dirty \ processing
    /\ \A k \in dirty \ processing : \E i \in 1 .. Len(queue) : queue[i] = k
    /\ \A i, j \in 1 .. Len(queue) : queue[i] = queue[j] => i = j

==============================================================================
