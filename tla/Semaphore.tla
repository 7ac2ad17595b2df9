----------------------------- MODULE Semaphore -----------------------------
(***************************************************************************)
(* The asynchronous Semaphore of async-locks, on which Lock (a semaphore   *)
(* of limit 1), the read-write locks and with them every recv, start and   *)
(* stop of the library rest.                                               *)
(*                                                                         *)
(* Every operation is one uninterrupted stretch of JavaScript that ends    *)
(* with the loop of processQueue.  The model takes one step per iteration; *)
(* while processing is TRUE no client can act.                             *)
(***************************************************************************)
EXTENDS Integers, Sequences, FiniteSets

CONSTANTS Clients,      \* the tasks that use the semaphore
          Limit,        \* this.limit
          Weights,      \* the weights the clients ask for
          MaxQueue      \* bound on the entries of the queue, for TLC

ASSUME SemaphoreAssumption ==
    /\ IsFiniteSet(Clients)
    /\ Limit \in Nat \ {0}
    /\ Weights \subseteq Nat \ {0}
    /\ MaxQueue \in Nat

VARIABLES
    priority,       \* this.priority, as constructed
    count,          \* _count: the lockers that hold or wait
    currentWeight,  \* the weight held now
    queue,          \* entries in the order in which pop() serves them
    processing,     \* the loop of processQueue runs
    pending,        \* per client: "none", or the unresolved call's kind
    held,           \* per client: the weight it holds, 0 if none
    stale           \* clients that kept the release function of an old lock

vars == <<priority, count, currentWeight, queue, processing, pending, held, stale>>

Entries == [client : Clients, kind : {"lock", "wait"}, weight : Weights,
            aborted : BOOLEAN]

Init ==
    /\ priority \in BOOLEAN
    /\ count = 0
    /\ currentWeight = 0
    /\ queue = <<>>
    /\ processing = FALSE
    /\ pending = [c \in Clients |-> "none"]
    /\ held = [c \in Clients |-> 0]
    /\ stale = {}

\* With priority the array is sorted from large to small weights, and served
\* from its end: the insertion sort goes past every lighter entry and stops
\* before the first that is not.
Stops(weight) ==
    {i \in 0 .. Len(queue) : i < Len(queue) => queue[i + 1].weight >= weight}

\* A plausible bug: the comparison of the insertion sort is the wrong way round.
EntriesAheadReversed(weight) ==
    IF priority
    THEN CHOOSE i \in 0 .. Len(queue) :
            /\ i < Len(queue) => queue[i + 1].weight <= weight
            /\ \A j \in 0 .. i - 1 : queue[j + 1].weight > weight
    ELSE Len(queue)

EntriesAhead(weight) ==
    IF priority
    THEN CHOOSE i \in Stops(weight) : \A j \in Stops(weight) : i <= j
    ELSE Len(queue)

\* insertQueue
Inserted(e) ==
    LET n == EntriesAhead(e.weight) IN
    [i \in 1 .. Len(queue) + 1 |->
        CASE i <= n    -> queue[i]
          [] i = n + 1 -> e
          [] i > n + 1 -> queue[i - 1]]

\* A client calls lock(weight) or waitForUnlock(weight) and awaits the result.
\* Only a lock is counted.
Call(c, kind, weight) ==
    /\ ~ processing
    /\ pending[c] = "none"
    /\ held[c] = 0
    /\ Len(queue) < MaxQueue
    /\ pending' = [pending EXCEPT ![c] = kind]
    /\ queue' = Inserted([client |-> c, kind |-> kind, weight |-> weight,
                          aborted |-> FALSE])
    /\ count' = IF kind = "lock" THEN count + 1 ELSE count
    /\ processing' = TRUE
    /\ UNCHANGED <<priority, currentWeight, held, stale>>

\* A plausible bug: the last unit is never handed out.
FitsBelow(weight) == currentWeight + weight < Limit

Fits(weight) == currentWeight + weight <= Limit

\* task.task(): the promise of the call resolves.  A lock takes its weight, a
\* wait takes none; an aborted entry is dropped.
Grant(e) ==
    CASE e.aborted ->
            UNCHANGED <<currentWeight, held, pending>>
      [] ~ e.aborted /\ e.kind = "lock" ->
            /\ currentWeight' = currentWeight + e.weight
            /\ held' = [held EXCEPT ![e.client] = e.weight]
            /\ pending' = [pending EXCEPT ![e.client] = "none"]
      [] ~ e.aborted /\ e.kind = "wait" ->
            /\ pending' = [pending EXCEPT ![e.client] = "none"]
            /\ UNCHANGED <<currentWeight, held>>

\* One iteration of processQueue.
Pop ==
    /\ processing
    /\ queue # <<>>
    /\ Fits(Head(queue).weight)
    /\ queue' = Tail(queue)
    /\ Grant(Head(queue))
    /\ UNCHANGED <<priority, count, processing, stale>>

\* The loop condition fails.
EndProcess ==
    /\ processing
    /\ \/ queue = <<>>
       \/ queue # <<>> /\ ~ Fits(Head(queue).weight)
    /\ processing' = FALSE
    /\ UNCHANGED <<priority, count, currentWeight, queue, pending, held, stale>>

\* A plausible bug: the abort of a lock leaves it counted.
CountAfterAbortKept(c) == count

CountAfterAbort(c) == IF pending[c] = "lock" THEN count - 1 ELSE count

\* The abort handler of a call that still waits: cancellation or timeout.  The
\* entry stays in the queue, marked, and the queue is not processed.
Abort(c) ==
    /\ ~ processing
    /\ pending[c] # "none"
    /\ count' = CountAfterAbort(c)
    /\ queue' = [i \in DOMAIN queue |->
                    IF queue[i].client = c
                    THEN [queue[i] EXCEPT !.aborted = TRUE]
                    ELSE queue[i]]
    /\ pending' = [pending EXCEPT ![c] = "none"]
    /\ UNCHANGED <<priority, currentWeight, processing, held, stale>>

\* if (released) return
Released(c) == UNCHANGED vars

\* The client calls the release function of the lock it holds, or once more
\* that of a lock it has released.
Release(c) ==
    /\ ~ processing
    /\ \/ /\ held[c] > 0
          /\ count' = count - 1
          /\ currentWeight' = currentWeight - held[c]
          /\ held' = [held EXCEPT ![c] = 0]
          /\ stale' = stale \cup {c}
          /\ processing' = TRUE
          /\ UNCHANGED <<priority, queue, pending>>
       \/ /\ held[c] = 0
          /\ c \in stale
          /\ Released(c)

Next ==
    \/ \E c \in Clients :
          \/ \E kind \in {"lock", "wait"}, w \in Weights : Call(c, kind, w)
          \/ Abort(c)
          \/ Release(c)
    \/ Pop
    \/ EndProcess

Spec == Init /\ [][Next]_vars

(***************************************************************************)
(* processQueue runs to its end once begun, and whoever holds a lock       *)
(* releases it: withF, withG and the resource helpers release in a         *)
(* finally block.  Nobody has to call, and nobody has to abort.            *)
(***************************************************************************)
Fairness ==
    /\ WF_vars(Pop)
    /\ WF_vars(EndProcess)
    /\ \A c \in Clients : WF_vars(held[c] > 0 /\ Release(c))

FairSpec == Spec /\ Fairness

-----------------------------------------------------------------------------

TypeOK ==
    /\ priority \in BOOLEAN
    /\ count \in Nat
    /\ currentWeight \in Nat
    /\ queue \in Seq(Entries)
    /\ processing \in BOOLEAN
    /\ pending \in [Clients -> {"none", "lock", "wait"}]
    /\ held \in [Clients -> Weights \cup {0}]
    /\ stale \in SUBSET Clients

Holders == {c \in Clients : held[c] > 0}
Lockers == {c \in Clients : pending[c] = "lock"}

\* One element for every unit of weight that a client holds.
Units == {u \in Clients \X (1 .. Limit) : u[2] <= held[u[1]]}

(***************************************************************************)
(* currentWeight is what the clients hold together, whatever was aborted   *)
(* or released twice, and that is never more than the limit.               *)
(***************************************************************************)
WithinLimit ==
    /\ currentWeight = Cardinality(Units)
    /\ currentWeight <= Limit
    /\ \A c \in Clients : held[c] <= Limit

(***************************************************************************)
(* count is the number of clients that hold or wait for a lock, so that    *)
(* isLocked tells the truth: a wait is not counted, an aborted lock no     *)
(* longer.                                                                 *)
(***************************************************************************)
CountIsLockers == count = Cardinality(Holders) + Cardinality(Lockers)

(***************************************************************************)
(* A call waits exactly while it has one live entry in the queue, and a    *)
(* client that holds has none: no call is resolved twice, none forgotten.  *)
(***************************************************************************)
OneLiveEntry ==
    /\ \A i \in DOMAIN queue :
          ~ queue[i].aborted => pending[queue[i].client] = queue[i].kind
    /\ \A i, j \in DOMAIN queue :
          (/\ ~ queue[i].aborted
           /\ ~ queue[j].aborted
           /\ queue[i].client = queue[j].client) => i = j
    /\ \A c \in Clients :
          /\ pending[c] # "none" =>
                \E i \in DOMAIN queue : queue[i].client = c /\ ~ queue[i].aborted
          /\ held[c] > 0 => pending[c] = "none"

(***************************************************************************)
(* The books of the semaphore, whatever was aborted while it waited or     *)
(* released twice: what is held, what is counted and what is queued all    *)
(* agree with what the clients hold and await.                             *)
(***************************************************************************)
Accounting == WithinLimit /\ CountIsLockers /\ OneLiveEntry

(***************************************************************************)
(* With priority, the queue is served from the lightest to the heaviest.   *)
(***************************************************************************)
LightestFirst ==
    priority => \A i, j \in DOMAIN queue :
                    i < j => queue[i].weight <= queue[j].weight

(***************************************************************************)
(* Whoever holds all of the limit is alone inside.  A Lock is a Semaphore  *)
(* of limit 1, on which every client holds all of it.                      *)
(***************************************************************************)
MutualExclusion ==
    \A c, d \in Holders : held[c] = Limit => c = d

(***************************************************************************)
(* Without priority, and when nobody asks for more than the limit, every   *)
(* call is resolved or aborted in the end, though aborted entries ahead of *)
(* it are only dropped at the next release.                                *)
(***************************************************************************)
EveryCallEnds ==
    \A c \in Clients : pending[c] # "none" /\ ~ priority ~> pending[c] = "none"
=============================================================================
