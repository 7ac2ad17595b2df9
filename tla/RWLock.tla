------------------------------- MODULE RWLock -------------------------------
(***************************************************************************)
(* The two read-write locks of async-locks, each made of two Locks:        *)
(* RWLockWriter (prefers = "write"), on which every initLock of the        *)
(* library rests, and RWLockReader (prefers = "read").                     *)
(*                                                                         *)
(* A Lock is a Semaphore of limit 1, which has a module of its own; here   *)
(* it is its holder and the queue of the calls that wait.  A call that is  *)
(* aborted leaves the queue: its entry would be skipped, and nothing is    *)
(* served while the lock is held.  A client resumes some microtasks after  *)
(* its call was answered; in between others may act.                       *)
(***************************************************************************)
EXTENDS Integers, Sequences, FiniteSets

CONSTANTS Clients,      \* the tasks that use the lock
          None          \* no holder, no release function

ASSUME RWLockAssumption ==
    /\ IsFiniteSet(Clients)
    /\ None \notin Clients \X {"read", "write"}

VARIABLES
    prefers,        \* "write": RWLockWriter, "read": RWLockReader
    owner,          \* per Lock: who holds it, and on behalf of which mode
    queue,          \* per Lock: the calls that wait for it
    pc,             \* per client: how far its call has come
    failed,         \* clients whose awaited call was rejected
    aborted,        \* clients whose signal is aborted
    readerCount,    \* _readerCount
    blocked,        \* readerCountBlocked
    writerCount,    \* _writerCount
    settled,        \* the first reader has seen its lock's promise settle
    release,        \* this.readersRelease, this.writersRelease of the readers
    orphaned,       \* history: a first reader failed with others behind it
    ahead           \* history: the writers that waited when a reader called

locks == <<owner, queue, failed>>
counts == <<readerCount, blocked, writerCount>>
history == <<orphaned, ahead>>
vars == <<prefers, locks, pc, aborted, counts, settled, release, history>>

Locks == {"readers", "writers"}
Holds == Clients \X {"read", "write"}
Entries == [client : Clients, kind : {"read", "write", "wait"}]

Reading == {c \in Clients : pc[c] = "reading"}
Writing == {c \in Clients : pc[c] = "writing"}

\* Where a reader and a writer wait; the second and the last states await
\* nothing that an abort reaches.
ReaderWaits == {"blocked", "entering", "first", "second"}
WriterWaits == {"writers", "readers"}
Ending == {"leaving", "left", "unlocking", "released"}

Init ==
    /\ prefers \in {"read", "write"}
    /\ owner = [l \in Locks |-> None]
    /\ queue = [l \in Locks |-> <<>>]
    /\ pc = [c \in Clients |-> "idle"]
    /\ failed = {}
    /\ aborted = {}
    /\ readerCount = 0
    /\ blocked = 0
    /\ writerCount = 0
    /\ settled = TRUE
    /\ release = None
    /\ orphaned = FALSE
    /\ ahead = [c \in Clients |-> {}]

-----------------------------------------------------------------------------
(***************************************************************************)
(* The two Locks.                                                          *)
(***************************************************************************)

Pending(c) == \E l \in Locks : \E i \in DOMAIN queue[l] : queue[l][i].client = c

\* The call that c awaits has been granted or rejected.
Answered(c) == ~ Pending(c)

\* lock(ctx) or waitForUnlock(ctx) of one Lock, up to the end of processQueue.
\* An aborted signal rejects it before it is queued.
Request(l, c, kind, signalled) ==
    \/ /\ signalled
       /\ failed' = failed \cup {c}
       /\ UNCHANGED <<owner, queue>>
    \/ /\ ~ signalled
       /\ owner[l] = None
       /\ owner' = IF kind = "wait" THEN owner ELSE [owner EXCEPT ![l] = <<c, kind>>]
       /\ UNCHANGED <<queue, failed>>
    \/ /\ ~ signalled
       /\ owner[l] # None
       /\ queue' = [queue EXCEPT ![l] = Append(@, [client |-> c, kind |-> kind])]
       /\ UNCHANGED <<owner, failed>>

\* The calls at the head that only wait are all resolved, then one lock.
FirstLock(q) ==
    CHOOSE n \in 1 .. Len(q) + 1 :
        /\ n <= Len(q) => q[n].kind # "wait"
        /\ \A i \in 1 .. n - 1 : q[i].kind = "wait"

\* The release function of the Lock's holder.
Free(l) ==
    LET q == queue[l]
        n == FirstLock(q)
    IN  /\ owner' = [owner EXCEPT ![l] = IF n <= Len(q)
                                         THEN <<q[n].client, q[n].kind>>
                                         ELSE None]
        /\ queue' = [queue EXCEPT ![l] = SubSeq(q, n + 1, Len(q))]

\* The call of the release function in the shared field.  It may be unset
\* (TypeError), of an earlier holder (it does nothing), or of another's lock.
FreeShared(l) ==
    \/ /\ owner[l] # None
       /\ release = owner[l]
       /\ release' = None
       /\ Free(l)
    \/ /\ owner[l] = None \/ release # owner[l]
       /\ UNCHANGED <<owner, queue, release>>

Goto(c, l) == pc' = [pc EXCEPT ![c] = l]

\* The call is over; the next one may bring a signal that is not aborted.
Return(c, l) ==
    /\ Goto(c, l)
    /\ aborted' = aborted \ {c}

-----------------------------------------------------------------------------
(***************************************************************************)
(* RWLockWriter.                                                           *)
(***************************************************************************)

\* ++_readerCount: the first reader locks, the others wait for it.
JoinW(c) ==
    /\ readerCount' = readerCount + 1
    /\ \/ /\ readerCount = 0
          /\ Request("readers", c, "read", c \in aborted)
          /\ settled' = FALSE
          /\ Goto(c, "first")
       \/ /\ readerCount > 0
          /\ Goto(c, "second")
          /\ UNCHANGED <<locks, settled>>
    /\ UNCHANGED <<aborted, release>>

\* A plausible bug: a reader does not look for writers.
ReadWBarging(c) ==
    /\ pc[c] = "idle"
    /\ JoinW(c)
    /\ UNCHANGED <<blocked, writerCount, orphaned>>

\* read(ctx)()
ReadW(c) ==
    /\ pc[c] = "idle"
    /\ \/ /\ writerCount > 0
          /\ blocked' = blocked + 1
          /\ Request("writers", c, "wait", c \in aborted)
          /\ Goto(c, "blocked")
          /\ UNCHANGED <<aborted, readerCount, settled, release>>
       \/ /\ writerCount = 0
          /\ JoinW(c)
          /\ UNCHANGED blocked
    /\ UNCHANGED <<writerCount, orphaned>>

\* After waitForUnlock of writersLock.  The signal may have been aborted since.
BlockedW(c) ==
    /\ pc[c] = "blocked"
    /\ Answered(c)
    /\ blocked' = blocked - 1
    /\ \/ /\ c \in failed
          /\ failed' = failed \ {c}
          /\ Return(c, "idle")
          /\ UNCHANGED <<owner, queue, readerCount, settled, release>>
       \/ /\ c \notin failed
          /\ JoinW(c)
    /\ UNCHANGED <<writerCount, orphaned>>

\* The first reader after its readersLock.lock.
FirstW(c) ==
    /\ pc[c] = "first"
    /\ Answered(c)
    /\ settled' = TRUE
    /\ \/ /\ c \in failed
          /\ failed' = failed \ {c}
          /\ readerCount' = readerCount - 1
          /\ orphaned' = (orphaned \/ readerCount > 1)
          /\ Return(c, "idle")
          /\ UNCHANGED release
       \/ /\ c \notin failed
          /\ release' = <<c, "read">>
          /\ Return(c, "reading")
          /\ UNCHANGED <<failed, readerCount, orphaned>>
    /\ UNCHANGED <<owner, queue, blocked, writerCount>>

\* A later reader goes on once the first reader's lock has settled, whether
\* granted or not.
Second(c) ==
    /\ pc[c] = "second"
    /\ settled
    /\ Return(c, "reading")
    /\ UNCHANGED <<locks, counts, settled, release, orphaned>>

\* A plausible bug: every reader releases the lock that the readers share.
EndReadWEach(c) ==
    /\ pc[c] = "reading"
    /\ readerCount' = readerCount - 1
    /\ FreeShared("readers")
    /\ Goto(c, "idle")
    /\ UNCHANGED <<failed, aborted, blocked, writerCount, settled, orphaned>>

\* The release function of a reader: the last one unlocks.
EndReadW(c) ==
    /\ pc[c] = "reading"
    /\ readerCount' = readerCount - 1
    /\ \/ readerCount = 1 /\ FreeShared("readers")
       \/ readerCount # 1 /\ UNCHANGED <<owner, queue, release>>
    /\ Goto(c, "idle")
    /\ UNCHANGED <<failed, aborted, blocked, writerCount, settled, orphaned>>

\* write(ctx)()
WriteW(c) ==
    /\ pc[c] = "idle"
    /\ writerCount' = writerCount + 1
    /\ Request("writers", c, "write", c \in aborted)
    /\ Goto(c, "writers")
    /\ UNCHANGED <<aborted, readerCount, blocked, settled, release, orphaned>>

\* The writer after its writersLock.lock.  The promises of a wait are one
\* shorter than those of a lock: readers that were resolved by the release
\* that granted this lock, or before, resume first.
WritersW(c) ==
    /\ pc[c] = "writers"
    /\ Answered(c)
    /\ \/ /\ c \in failed
          /\ failed' = failed \ {c}
          /\ writerCount' = writerCount - 1
          /\ Return(c, "idle")
          /\ UNCHANGED <<owner, queue>>
       \/ /\ c \notin failed
          /\ ~ \E r \in Clients \ failed : pc[r] = "blocked" /\ Answered(r)
          /\ Request("readers", c, "write", c \in aborted)
          /\ Goto(c, "readers")
          /\ UNCHANGED <<aborted, writerCount>>
    /\ UNCHANGED <<readerCount, blocked, settled, release, orphaned>>

\* A plausible bug: a failed writer keeps writersLock.
ReadersWKept(c) ==
    /\ pc[c] = "readers"
    /\ Answered(c)
    /\ \/ /\ c \in failed
          /\ failed' = failed \ {c}
          /\ Return(c, "released")
          /\ UNCHANGED <<owner, queue, release>>
       \/ /\ c \notin failed
          /\ release' = <<c, "write">>
          /\ Return(c, "writing")
          /\ UNCHANGED locks
    /\ UNCHANGED <<counts, settled, orphaned>>

\* The writer after its readersLock.lock.
ReadersW(c) ==
    /\ pc[c] = "readers"
    /\ Answered(c)
    /\ \/ /\ c \in failed
          /\ failed' = failed \ {c}
          /\ Free("writers")
          /\ Return(c, "released")
          /\ UNCHANGED release
       \/ /\ c \notin failed
          /\ release' = <<c, "write">>
          /\ Return(c, "writing")
          /\ UNCHANGED locks
    /\ UNCHANGED <<counts, settled, orphaned>>

\* The release function of a writer begins with the lock in the shared field.
EndWriteW(c) ==
    /\ pc[c] = "writing"
    /\ FreeShared("readers")
    /\ Goto(c, "unlocking")
    /\ UNCHANGED <<failed, aborted, counts, settled, orphaned>>

\* It goes on with writersRelease() a microtask later.
UnlockW(c) ==
    /\ pc[c] = "unlocking"
    /\ Free("writers")
    /\ Goto(c, "released")
    /\ UNCHANGED <<failed, aborted, counts, settled, release, orphaned>>

\* --_writerCount, a microtask after the release.
Uncount(c) ==
    /\ pc[c] = "released"
    /\ writerCount' = writerCount - 1
    /\ Goto(c, "idle")
    /\ UNCHANGED <<locks, aborted, readerCount, blocked, settled, release, orphaned>>

WriterVariant(c) ==
    /\ prefers = "write"
    /\ \/ ReadW(c) \/ BlockedW(c) \/ FirstW(c) \/ Second(c) \/ EndReadW(c)
       \/ WriteW(c) \/ WritersW(c) \/ ReadersW(c) \/ EndWriteW(c) \/ UnlockW(c)
       \/ Uncount(c)

-----------------------------------------------------------------------------
(***************************************************************************)
(* RWLockReader.                                                           *)
(***************************************************************************)

\* read(ctx)()
ReadR(c) ==
    /\ pc[c] = "idle"
    /\ blocked' = blocked + 1
    /\ Request("readers", c, "read", c \in aborted)
    /\ Goto(c, "entering")
    /\ UNCHANGED <<aborted, readerCount, writerCount, settled, release, orphaned>>

\* After readersLock.lock.  The first reader keeps readersLock while it waits
\* for writersLock; a later one gives it back.
EnteringR(c) ==
    /\ pc[c] = "entering"
    /\ Answered(c)
    /\ blocked' = blocked - 1
    /\ \/ /\ c \in failed
          /\ failed' = failed \ {c}
          /\ Return(c, "idle")
          /\ UNCHANGED <<owner, queue, readerCount, settled>>
       \/ /\ c \notin failed
          /\ readerCount' = readerCount + 1
          /\ UNCHANGED aborted
          /\ \/ /\ readerCount = 0
                /\ Request("writers", c, "read", c \in aborted)
                /\ settled' = FALSE
                /\ Goto(c, "first")
             \/ /\ readerCount > 0
                /\ Free("readers")
                /\ Goto(c, "second")
                /\ UNCHANGED <<failed, settled>>
    /\ UNCHANGED <<writerCount, release, orphaned>>

\* A plausible bug: a first reader that fails stays counted.
FirstRUncounted(c) ==
    /\ pc[c] = "first"
    /\ Answered(c)
    /\ settled' = TRUE
    /\ Free("readers")
    /\ \/ /\ c \in failed
          /\ failed' = failed \ {c}
          /\ Return(c, "idle")
          /\ UNCHANGED release
       \/ /\ c \notin failed
          /\ release' = <<c, "read">>
          /\ Return(c, "reading")
          /\ UNCHANGED failed
    /\ UNCHANGED <<counts, orphaned>>

\* The first reader after its writersLock.lock.  When that failed the count
\* falls a microtask after readersLock is released, before the reader that is
\* granted it resumes.
FirstR(c) ==
    /\ pc[c] = "first"
    /\ Answered(c)
    /\ settled' = TRUE
    /\ Free("readers")
    /\ \/ /\ c \in failed
          /\ failed' = failed \ {c}
          /\ readerCount' = readerCount - 1
          /\ Return(c, "idle")
          /\ UNCHANGED release
       \/ /\ c \notin failed
          /\ release' = <<c, "read">>
          /\ Return(c, "reading")
          /\ UNCHANGED <<failed, readerCount>>
    /\ UNCHANGED <<blocked, writerCount, orphaned>>

\* The release function of a reader first takes readersLock, without a signal.
EndReadR(c) ==
    /\ pc[c] = "reading"
    /\ Request("readers", c, "read", FALSE)
    /\ Goto(c, "leaving")
    /\ UNCHANGED <<aborted, counts, settled, release, orphaned>>

\* With readersLock: the last reader releases writersLock, and readersLock a
\* microtask later.
LeavingR(c) ==
    /\ pc[c] = "leaving"
    /\ Answered(c)
    /\ readerCount' = readerCount - 1
    /\ \/ /\ readerCount = 1
          /\ FreeShared("writers")
          /\ Goto(c, "left")
       \/ /\ readerCount # 1
          /\ Free("readers")
          /\ Goto(c, "idle")
          /\ UNCHANGED release
    /\ UNCHANGED <<failed, aborted, blocked, writerCount, settled, orphaned>>

LeftR(c) ==
    /\ pc[c] = "left"
    /\ Free("readers")
    /\ Goto(c, "idle")
    /\ UNCHANGED <<failed, aborted, counts, settled, release, orphaned>>

\* write(ctx)()
WriteR(c) ==
    /\ pc[c] = "idle"
    /\ writerCount' = writerCount + 1
    /\ Request("writers", c, "write", c \in aborted)
    /\ Goto(c, "writers")
    /\ UNCHANGED <<aborted, readerCount, blocked, settled, release, orphaned>>

\* The writer after its writersLock.lock.
WritersR(c) ==
    /\ pc[c] = "writers"
    /\ Answered(c)
    /\ \/ /\ c \in failed
          /\ failed' = failed \ {c}
          /\ writerCount' = writerCount - 1
          /\ Return(c, "idle")
       \/ /\ c \notin failed
          /\ Return(c, "writing")
          /\ UNCHANGED <<failed, writerCount>>
    /\ UNCHANGED <<owner, queue, readerCount, blocked, settled, release, orphaned>>

\* The release function of a writer, up to --_writerCount.
EndWriteR(c) ==
    /\ pc[c] = "writing"
    /\ Free("writers")
    /\ Goto(c, "released")
    /\ UNCHANGED <<failed, aborted, counts, settled, release, orphaned>>

ReaderVariant(c) ==
    /\ prefers = "read"
    /\ \/ ReadR(c) \/ EnteringR(c) \/ FirstR(c) \/ Second(c)
       \/ EndReadR(c) \/ LeavingR(c) \/ LeftR(c)
       \/ WriteR(c) \/ WritersR(c) \/ EndWriteR(c) \/ Uncount(c)

-----------------------------------------------------------------------------
(***************************************************************************)
(* Both variants.                                                          *)
(***************************************************************************)

\* waitForUnlock(ctx): waits for both Locks, and takes none.
WaitForUnlock(c) ==
    /\ pc[c] = "idle"
    /\ \/ /\ c \in aborted
          /\ failed' = failed \cup {c}
          /\ UNCHANGED queue
       \/ /\ c \notin aborted
          /\ queue' = [l \in Locks |->
                          IF owner[l] = None THEN queue[l]
                          ELSE Append(queue[l], [client |-> c, kind |-> "wait"])]
          /\ UNCHANGED failed
    /\ Goto(c, "unlock")
    /\ UNCHANGED <<owner, aborted, counts, settled, release, orphaned>>

Unlocked(c) ==
    /\ pc[c] = "unlock"
    /\ Answered(c)
    /\ failed' = failed \ {c}
    /\ Return(c, "idle")
    /\ UNCHANGED <<owner, queue, counts, settled, release, orphaned>>

\* The queue without the entry of c, if it has one.
Without(q, c) ==
    LET Later(i) == \E j \in 1 .. i : q[j].client = c
    IN  IF \E j \in DOMAIN q : q[j].client = c
        THEN [i \in 1 .. Len(q) - 1 |-> IF Later(i) THEN q[i + 1] ELSE q[i]]
        ELSE q

\* The signal of a call is aborted, before the call or while it goes on: its
\* context's timer expires or its user cancels it.  A wait is rejected; what
\* has been granted stays granted.
Abort(c) ==
    /\ c \notin aborted
    /\ pc[c] \notin Ending \cup {"reading", "writing"}
    /\ aborted' = aborted \cup {c}
    /\ failed' = IF Pending(c) THEN failed \cup {c} ELSE failed
    /\ queue' = [l \in Locks |-> Without(queue[l], c)]
    /\ UNCHANGED <<owner, pc, counts, settled, release, orphaned>>

\* A writer that waited when the reader called, and still does.
Remember ==
    ahead' = [c \in Clients |->
                 IF pc[c] = "idle" /\ pc'[c] \in ReaderWaits
                 THEN {w \in Clients : pc[w] \in WriterWaits}
                 ELSE {w \in ahead[c] : pc'[c] # "idle" /\ pc'[w] \in WriterWaits}]

Next ==
    /\ \E c \in Clients :
          \/ WriterVariant(c) \/ ReaderVariant(c)
          \/ WaitForUnlock(c) \/ Unlocked(c) \/ Abort(c)
    /\ Remember
    /\ UNCHANGED prefers

Spec == Init /\ [][Next]_vars

(***************************************************************************)
(* A promise that has settled resumes the function that awaits it, and     *)
(* whoever holds the lock releases it: withF and withG do so in a finally  *)
(* block.  Nobody has to call, and nobody has to abort.                    *)
(***************************************************************************)
Continue(c) ==
    \/ /\ prefers = "write"
       /\ \/ BlockedW(c) \/ FirstW(c) \/ Second(c) \/ EndReadW(c) \/ WritersW(c)
          \/ ReadersW(c) \/ EndWriteW(c) \/ UnlockW(c) \/ Uncount(c)
    \/ /\ prefers = "read"
       /\ \/ EnteringR(c) \/ FirstR(c) \/ Second(c) \/ EndReadR(c) \/ LeavingR(c)
          \/ LeftR(c) \/ WritersR(c) \/ EndWriteR(c) \/ Uncount(c)
    \/ Unlocked(c)

FairSpec ==
    /\ Spec
    /\ \A c \in Clients : WF_vars(Continue(c) /\ Remember /\ UNCHANGED prefers)

-----------------------------------------------------------------------------

\* isLocked(type) of RWLockWriter; a Lock counts those that hold and wait.
LockIsLocked(l) ==
    owner[l] # None \/ \E i \in DOMAIN queue[l] : queue[l][i].kind # "wait"

IsLockedW(type) ==
    CASE type = "read"  -> writerCount = 0 /\ LockIsLocked("readers")
      [] type = "write" -> LockIsLocked("writers")
      [] type = "any"   -> LockIsLocked("readers") \/ LockIsLocked("writers")

\* isLocked(type) of RWLockReader.
IsLockedR(type) ==
    CASE type = "read"  -> readerCount > 0 \/ LockIsLocked("readers")
      [] type = "write" -> readerCount = 0 /\ LockIsLocked("writers")
      [] type = "any"   -> \/ readerCount > 0
                           \/ LockIsLocked("readers")
                           \/ LockIsLocked("writers")

IsLocked(type) == IF prefers = "write" THEN IsLockedW(type) ELSE IsLockedR(type)

TypeOK ==
    /\ prefers \in {"read", "write"}
    /\ owner \in [Locks -> Holds \cup {None}]
    /\ queue \in [Locks -> Seq(Entries)]
    /\ pc \in [Clients -> {"idle", "reading", "writing", "unlock"}
                             \cup ReaderWaits \cup WriterWaits \cup Ending]
    /\ failed \in SUBSET Clients
    /\ aborted \in SUBSET Clients
    /\ readerCount \in Nat
    /\ blocked \in Nat
    /\ writerCount \in Nat
    /\ settled \in BOOLEAN
    /\ release \in Holds \cup {None}
    /\ orphaned \in BOOLEAN
    /\ ahead \in [Clients -> SUBSET Clients]

(***************************************************************************)
(* Writers exclude each other, and readers unless a first reader failed    *)
(* with others behind it, who then read without any lock.  That happens    *)
(* under RWLockWriter alone.                                               *)
(***************************************************************************)
Exclusion ==
    /\ \A v, w \in Writing : v = w
    /\ ~ orphaned => Reading = {} \/ Writing = {}
    /\ orphaned => prefers = "write"

(***************************************************************************)
(* When no call is in progress nothing is locked, counted or queued, even  *)
(* after calls that failed half way or released another's lock.            *)
(***************************************************************************)
NothingLeft ==
    (\A c \in Clients : pc[c] = "idle") =>
        /\ ~ IsLocked("any")
        /\ readerCount = 0 /\ blocked = 0 /\ writerCount = 0
        /\ \A l \in Locks : queue[l] = <<>>

(***************************************************************************)
(* RWLockWriter prefers writers: a reader never starts to read while a     *)
(* writer waits that had called before it.                                 *)
(***************************************************************************)
WritersFirst ==
    [][\A c \in Clients :
          (/\ prefers = "write"
           /\ pc[c] # "reading" /\ pc'[c] = "reading") =>
                ahead[c] \subseteq failed]_vars

(***************************************************************************)
(* Every call ends.  Under RWLockReader readers may follow each other so   *)
(* that a writer waits for ever; a reader never does.                      *)
(***************************************************************************)
EveryCallEnds ==
    \A c \in Clients :
        /\ pc[c] \in ReaderWaits \cup Ending ~> pc[c] \in {"reading", "idle"}
        /\ prefers = "write" /\ pc[c] \in WriterWaits ~> pc[c] \in {"writing", "idle"}
=============================================================================
