------------------------------ MODULE AsyncInit ------------------------------
(***************************************************************************)
(* The class decorators of async-init: StartStop (QUICConnection,          *)
(* QUICServer, QUICSocket), CreateDestroy (QUICStream, QUICClient) and     *)
(* CreateDestroyStartStop, with the ready decorator of methods.            *)
(*                                                                         *)
(* One instance of a decorated class and the calls on it.  initLock is an  *)
(* RWLockWriter without signals (module RWLock): calls enter in the order  *)
(* in which they asked, readers together, a writer alone.                  *)
(***************************************************************************)
EXTENDS Integers, Sequences, FiniteSets

CONSTANTS Clients,      \* the tasks that call the instance
          Allowed       \* the lists allowedStatuses of its ready methods

ASSUME AsyncInitAssumption ==
    Allowed \subseteq SUBSET {"starting", "stopping", "destroying"}

VARIABLES
    kind,           \* the decorator of the class
    running,        \* _running
    destroyed,      \* _destroyed
    status,         \* _status
    statusP,        \* _statusP: made for the "class", or the instance's "own"
    classSettled,   \* the promise of the class is resolved
    holders,        \* the calls that hold initLock
    queue,          \* the calls that wait for initLock
    call            \* per client: its call and how far that has come

flags == <<running, destroyed>>
promises == <<status, statusP, classSettled>>
lock == <<holders, queue>>
vars == <<kind, flags, promises, lock, call>>

Kinds == {"StartStop", "CreateDestroy", "CreateDestroyStartStop"}
Statuses == {"null", "starting", "stopping", "destroying"}
Writes == {"start", "stop", "destroy"}
Methods == {"block", "async", "sync"}
Places == {"idle", "queued", "body", "finally", "await", "check", "method"}

Idle == [op |-> "none", at |-> "idle", allowed |-> {}]
Calls == [op : Writes \cup Methods \cup {"none"}, at : Places,
          allowed : Allowed \cup {{}}]

At(c, place) == call[c].at = place
IsWrite(c) == call[c].op \in Writes

Init ==
    /\ kind \in Kinds
    /\ running = FALSE
    /\ destroyed = FALSE
    /\ status = "null"
    /\ statusP = "class"
    /\ classSettled \in BOOLEAN
    /\ holders = {}
    /\ queue = <<>>
    /\ call = [c \in Clients |-> Idle]

-----------------------------------------------------------------------------

\* initLock.isLocked('write'): a writer holds it or waits for it.
LockedWrite ==
    \E c \in Clients : call[c].at \in {"queued", "body"} /\ IsWrite(c)

\* Whoever awaits statusP goes on when it resolves.
Woken(calls) ==
    [c \in Clients |-> IF calls[c].at = "await"
                       THEN [calls[c] EXCEPT !.at = "check"]
                       ELSE calls[c]]

\* resolveStatusP(s) and a new statusP; calls is what call would be otherwise.
SetStatus(s, calls) ==
    /\ status' = s
    /\ statusP' = "own"
    /\ classSettled' = (classSettled \/ statusP = "class")
    /\ call' = Woken(calls)

\* Another instance of the class changes its status for the first time: the
\* first promise was made for all of them, and resolves here too.
OtherInstance ==
    /\ ~ classSettled
    /\ classSettled' = TRUE
    /\ call' = IF statusP = "class" THEN Woken(call) ELSE call
    /\ UNCHANGED <<flags, status, statusP, lock>>

Move(c, place) == [call EXCEPT ![c].at = place]
End(c) == [call EXCEPT ![c] = Idle]

\* initLock.write() or initLock.read() is called.
Queue(c) == queue' = Append(queue, c)

Release(c) == holders' = holders \ {c}

\* A plausible bug: the lock lets a writer in beside readers.
CanEnterBeside(c) == \A h \in holders : ~ IsWrite(h)

\* The head of the queue may enter: readers together, a writer alone.
CanEnter(c) ==
    IF IsWrite(c) THEN holders = {} ELSE \A h \in holders : ~ IsWrite(h)

Enter ==
    /\ queue # <<>>
    /\ CanEnter(Head(queue))
    /\ holders' = holders \cup {Head(queue)}
    /\ queue' = Tail(queue)
    /\ UNCHANGED <<flags, promises, call>>

-----------------------------------------------------------------------------
(***************************************************************************)
(* start, stop and destroy.                                                *)
(***************************************************************************)

Operations ==
    CASE kind = "StartStop"              -> {"start", "stop"}
      [] kind = "CreateDestroy"          -> {"destroy"}
      [] kind = "CreateDestroyStartStop" -> Writes

Operate(c, op) ==
    /\ At(c, "idle")
    /\ op \in Operations
    /\ call' = [call EXCEPT ![c] = [op |-> op, at |-> "queued", allowed |-> {}]]
    /\ Queue(c)
    /\ UNCHANGED <<flags, promises, holders>>

\* The early returns and throws of each class.
SkipSS(op) ==
    \/ op = "start" /\ running
    \/ op = "stop" /\ ~ running

SkipCD(op) == op = "destroy" /\ destroyed

SkipCDSS(op) ==
    \/ op = "destroy" /\ (destroyed \/ running)
    \/ op = "start" /\ (running \/ destroyed)
    \/ op = "stop" /\ (~ running \/ destroyed)

Skips(op) ==
    CASE kind = "StartStop"              -> SkipSS(op)
      [] kind = "CreateDestroy"          -> SkipCD(op)
      [] kind = "CreateDestroyStartStop" -> SkipCDSS(op)

StatusOf(op) ==
    CASE op = "start"   -> "starting"
      [] op = "stop"    -> "stopping"
      [] op = "destroy" -> "destroying"

\* A plausible bug: a holder resumes before the last one has reset the status.
BegunEarly(c) == At(c, "queued") /\ IsWrite(c) /\ c \in holders

\* The call holds initLock.  It resumes many microtasks after it was granted,
\* the finally of the previous holder three after the release: that is first.
Begun(c) ==
    /\ At(c, "queued")
    /\ IsWrite(c)
    /\ c \in holders
    /\ ~ \E d \in Clients : At(d, "finally")

\* An early return or a throw, and the release of initLock.
Skip(c) ==
    /\ Begun(c)
    /\ Skips(call[c].op)
    /\ call' = Move(c, "finally")
    /\ Release(c)
    /\ UNCHANGED <<flags, promises, queue>>

\* The status changes and the decorated class's own method is called.
Begin(c) ==
    /\ Begun(c)
    /\ ~ Skips(call[c].op)
    /\ SetStatus(StatusOf(call[c].op), Move(c, "body"))
    /\ UNCHANGED <<flags, lock>>

\* The own method returned.
Done(c) ==
    /\ At(c, "body")
    /\ running' = CASE call[c].op = "start" -> TRUE
                    [] call[c].op = "stop"  -> FALSE
                    [] OTHER                -> running
    /\ destroyed' = (destroyed \/ call[c].op = "destroy")
    /\ call' = Move(c, "finally")
    /\ Release(c)
    /\ UNCHANGED <<promises, queue>>

\* The own method threw: the flags stay as they were.
Threw(c) ==
    /\ At(c, "body")
    /\ call' = Move(c, "finally")
    /\ Release(c)
    /\ UNCHANGED <<flags, promises, queue>>

\* A plausible bug: the status is reset without resolving its promise.
FinallySilent(c) ==
    /\ At(c, "finally")
    /\ status' = "null"
    /\ statusP' = "own"
    /\ classSettled' = (classSettled \/ statusP = "class")
    /\ call' = End(c)
    /\ UNCHANGED <<flags, lock>>

\* finally, whether the call did anything or not.
Finally(c) ==
    /\ At(c, "finally")
    /\ SetStatus("null", End(c))
    /\ UNCHANGED <<flags, lock>>

-----------------------------------------------------------------------------
(***************************************************************************)
(* The methods under ready: "async" functions and generators that do not   *)
(* block, those that "block" on initLock, and "sync" ones: plain           *)
(* functions, getters, setters and generators.                             *)
(***************************************************************************)

\* What each class asks of the instance.
ReadySS == running
ReadyCD == ~ destroyed
ReadyCDSS == running

Ready ==
    CASE kind = "StartStop"              -> ReadySS
      [] kind = "CreateDestroy"          -> ReadyCD
      [] kind = "CreateDestroyStartStop" -> ReadyCDSS

\* Between a lock and its change of status an asynchronous method awaits
\* statusP, which may be resolved already.
Unsettled == LockedWrite /\ status = "null"

Invoke(c, op, allowed) ==
    /\ At(c, "idle")
    /\ call' = [call EXCEPT ![c] =
                   [op |-> op, allowed |-> allowed,
                    at |-> IF Unsettled /\ ~ (statusP = "class" /\ classSettled)
                           THEN "await" ELSE "check"]]
    /\ UNCHANGED <<flags, promises, lock>>

\* After the await, or at once.
Check(c) ==
    /\ At(c, "check")
    /\ \/ /\ status \in call[c].allowed
          /\ call' = Move(c, "method")
          /\ UNCHANGED queue
       \/ /\ status \notin call[c].allowed
          /\ call[c].op = "block"
          /\ call' = Move(c, "queued")
          /\ Queue(c)
       \/ /\ status \notin call[c].allowed
          /\ call[c].op = "async"
          /\ call' = IF ~ LockedWrite /\ Ready THEN Move(c, "method") ELSE End(c)
          /\ UNCHANGED queue
    /\ UNCHANGED <<flags, promises, holders>>

\* A blocking method holds initLock for reading.
Blocked(c) ==
    /\ At(c, "queued")
    /\ call[c].op = "block"
    /\ c \in holders
    /\ \/ /\ Ready
          /\ call' = Move(c, "method")
          /\ UNCHANGED holders
       \/ /\ ~ Ready
          /\ call' = End(c)
          /\ Release(c)
    /\ UNCHANGED <<flags, promises, queue>>

\* A plausible bug: a synchronous method does not look at the lock.
SyncReadyUnlocked == Ready

\* A synchronous method cannot wait: it throws while a change is under way.
SyncReady == ~ (LockedWrite /\ status # "null") /\ Ready

Sync(c, allowed) ==
    /\ At(c, "idle")
    /\ status \in allowed \/ SyncReady
    /\ call' = [call EXCEPT ![c] = [op |-> "sync", at |-> "method",
                                    allowed |-> allowed]]
    /\ UNCHANGED <<flags, promises, lock>>

\* The method returns; initLock is released if it blocked on it.
Return(c) ==
    /\ At(c, "method")
    /\ call' = End(c)
    /\ Release(c)
    /\ UNCHANGED <<flags, promises, queue>>

-----------------------------------------------------------------------------

Go(c) ==
    \/ Skip(c) \/ Begin(c) \/ Done(c) \/ Threw(c) \/ Finally(c)
    \/ Check(c) \/ Blocked(c) \/ Return(c)

Next ==
    /\ \/ Enter
       \/ OtherInstance
       \/ \E c \in Clients :
             \/ \E op \in Writes : Operate(c, op)
             \/ \E op \in {"async", "block"}, a \in Allowed : Invoke(c, op, a)
             \/ \E a \in Allowed : Sync(c, a)
             \/ Go(c)
    /\ UNCHANGED kind

Spec == Init /\ [][Next]_vars

(***************************************************************************)
(* Calls resume once granted or woken, and the own methods of the class    *)
(* return or throw.  Nobody has to call.                                   *)
(***************************************************************************)
Fairness ==
    /\ WF_vars(Enter /\ UNCHANGED kind)
    /\ \A c \in Clients : WF_vars(Go(c) /\ UNCHANGED kind)

FairSpec == Spec /\ Fairness

-----------------------------------------------------------------------------

TypeOK ==
    /\ kind \in Kinds
    /\ running \in BOOLEAN
    /\ destroyed \in BOOLEAN
    /\ status \in Statuses
    /\ statusP \in {"class", "own"}
    /\ classSettled \in BOOLEAN
    /\ holders \in SUBSET Clients
    /\ queue \in Seq(Clients)
    /\ call \in [Clients -> Calls]

InBody == {c \in Clients : At(c, "body")}

(***************************************************************************)
(* The status tells what goes on: while a method of the class runs under   *)
(* initLock the status is its own, though the one before it resets the     *)
(* status only after it has released the lock; it is reset in the end; and *)
(* no order of calls brings an instance to run once it is destroyed.       *)
(***************************************************************************)
StatusIsBody ==
    /\ ~ (running /\ destroyed)
    /\ \A c \in InBody : status = StatusOf(call[c].op)
    /\ status # "null" => \E c \in Clients : call[c].at \in {"body", "finally"}

(***************************************************************************)
(* A method that blocks on initLock sees the instance ready to its end,    *)
(* and no change of it under way.                                          *)
(***************************************************************************)
BlockingSeesReady ==
    \A c \in holders : At(c, "method") => Ready /\ InBody = {}

(***************************************************************************)
(* No method begins in the middle of a change it does not allow: every     *)
(* kind of ready looks at the lock, the status or both.                    *)
(***************************************************************************)
MethodsBeginBetween ==
    [][\A c \in Clients :
          (/\ ~ At(c, "method") /\ call'[c].at = "method"
           /\ status \notin call'[c].allowed) => InBody = {} /\ Ready]_vars

(***************************************************************************)
(* Every call ends, whatever the methods of the class do, and also those   *)
(* of ready that await a change of the status.                             *)
(***************************************************************************)
EveryCallEnds == \A c \in Clients : ~ At(c, "idle") ~> At(c, "idle")
=============================================================================
