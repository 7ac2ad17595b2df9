--------------------------- MODULE AsyncInitProofs ---------------------------
(***************************************************************************)
(* Proofs about AsyncInit, for any number of tasks and any lists of        *)
(* allowed statuses: the safety properties of the start, stop, destroy and *)
(* ready decorators of StartStop, CreateDestroy and CreateDestroyStartStop. *)
(***************************************************************************)
EXTENDS AsyncInit, TLAPS

\* Where a call of each kind can be.
Course ==
    \A c \in Clients :
        /\ call[c].op \in Operations \cup Methods \cup {"none"}
        /\ call[c].at \in {"body", "finally"} => IsWrite(c)
        /\ At(c, "queued") => IsWrite(c) \/ call[c].op = "block"
        /\ call[c].at \in {"idle", "await", "check", "method"} => ~ IsWrite(c)

\* Who holds initLock, and who waits for it.
Holding ==
    /\ \A c \in holders : call[c].at \in {"queued", "body", "method"}
    /\ \A c \in Clients : At(c, "body") => c \in holders
    /\ \A c, d \in holders : IsWrite(c) => c = d
    /\ \A i \in 1 .. Len(queue) : At(queue[i], "queued") /\ queue[i] \notin holders
    /\ \A i, j \in 1 .. Len(queue) : queue[i] = queue[j] => i = j

\* What the early returns have made sure of, while a method of the class runs.
Flags ==
    /\ kind = "StartStop" => ~ destroyed
    /\ kind = "CreateDestroy" => ~ running
    /\ ~ (running /\ destroyed)
    /\ \A c \in Clients : At(c, "body") =>
           /\ call[c].op = "start" => ~ running /\ ~ destroyed
           /\ call[c].op = "stop" => running /\ ~ destroyed
           /\ call[c].op = "destroy" => ~ running /\ ~ destroyed

\* The status, and who may still reset it.
Status ==
    /\ \A c \in Clients : At(c, "body") => status = StatusOf(call[c].op)
    /\ \A c, d \in Clients : At(c, "body") => ~ At(d, "finally")
    /\ status # "null" => \E c \in Clients : call[c].at \in {"body", "finally"}

\* The methods that block hold the lock for reading.
Reading == \A c \in holders : At(c, "method") => Ready

IInv == TypeOK /\ Course /\ Holding /\ Flags /\ Status /\ Reading

-----------------------------------------------------------------------------

LEMMA KindOps ==
    ASSUME kind \in Kinds
    PROVE  /\ Operations \subseteq Writes
           /\ kind = "StartStop" => Operations = {"start", "stop"}
           /\ kind = "CreateDestroy" => Operations = {"destroy"}
BY DEF Kinds, Operations, Writes

LEMMA InitIInv == Init => IInv
<1> SUFFICES ASSUME Init PROVE IInv
    OBVIOUS
<1> USE DEF Init
<1>1. TypeOK
    <2>1. Idle \in Calls
        <3>1. {} \in Allowed \cup {{}}
            BY Zenon
        <3>2. "none" \in Writes \cup Methods \cup {"none"} /\ "idle" \in Places
            BY DEF Places
        <3> HIDE DEF Init
        <3> QED BY <3>1, <3>2, Zenon DEF Idle, Calls
    <2>2. call \in [Clients -> Calls]
        BY <2>1
    <2>3. queue \in Seq(Clients) /\ holders \in SUBSET Clients
        OBVIOUS
    <2>4. status \in Statuses /\ statusP \in {"class", "own"} /\ kind \in Kinds
        BY DEF Statuses
    <2>5. running \in BOOLEAN /\ destroyed \in BOOLEAN /\ classSettled \in BOOLEAN
        BY Zenon
    <2> QED BY <2>2, <2>3, <2>4, <2>5 DEF TypeOK
<1>2. Course /\ Holding /\ Flags /\ Status /\ Reading
    BY DEF Course, Holding, Flags, Status, Reading, Idle, At, IsWrite, Writes
<1> QED BY <1>1, <1>2 DEF IInv

LEMMA TypeStep == TypeOK /\ [Next]_vars => TypeOK'
<1> SUFFICES ASSUME TypeOK, [Next]_vars PROVE TypeOK'
    OBVIOUS
<1> USE DEF TypeOK, Calls, Places, Statuses, Kinds
<1>w. ASSUME NEW f \in [Clients -> Calls]
      PROVE  Woken(f) \in [Clients -> Calls]
    BY <1>w DEF Woken
<1>o. Operations \subseteq Writes
    BY KindOps
<1>1. CASE Enter /\ UNCHANGED kind
    BY <1>1 DEF Enter, flags, promises
<1>2. CASE OtherInstance /\ UNCHANGED kind
    BY <1>2, <1>w DEF OtherInstance, flags, lock
<1>3. ASSUME NEW c \in Clients, NEW op \in Writes, Operate(c, op), UNCHANGED kind
      PROVE  TypeOK'
    BY <1>3 DEF Operate, Queue, flags, promises
<1>4. ASSUME NEW c \in Clients, NEW op \in {"async", "block"}, NEW a \in Allowed,
             Invoke(c, op, a), UNCHANGED kind
      PROVE  TypeOK'
    BY <1>4 DEF Invoke, flags, promises, lock, Methods
<1>5. ASSUME NEW c \in Clients, NEW a \in Allowed, Sync(c, a), UNCHANGED kind
      PROVE  TypeOK'
    BY <1>5 DEF Sync, flags, promises, lock, Methods
<1>6. ASSUME NEW c \in Clients, Go(c), UNCHANGED kind
      PROVE  TypeOK'
    <2>m. ASSUME NEW p \in Places
          PROVE  Move(c, p) \in [Clients -> Calls]
        BY <2>m DEF Move
    <2>e. End(c) \in [Clients -> Calls]
        BY DEF End, Idle
    <2>1. CASE Skip(c)
        BY <1>6, <2>1, <2>m DEF Skip, Release, flags, promises
    <2>2. CASE Begin(c)
        <3>1. Woken(Move(c, "body")) \in [Clients -> Calls]
            BY <1>w, <2>m
        <3> QED BY <1>6, <2>2, <3>1 DEF Begin, SetStatus, flags, lock, StatusOf, Begun, IsWrite, Writes
    <2>3. CASE Done(c)
        BY <1>6, <2>3, <2>m DEF Done, Release, promises
    <2>4. CASE Threw(c)
        BY <1>6, <2>4, <2>m DEF Threw, Release, flags, promises
    <2>5. CASE Finally(c)
        <3>1. Woken(End(c)) \in [Clients -> Calls]
            BY <1>w, <2>e
        <3> QED BY <1>6, <2>5, <3>1 DEF Finally, SetStatus, flags, lock
    <2>6. CASE Check(c)
        <3>1. call' \in {Move(c, "method"), Move(c, "queued"), End(c)}
            BY <2>6 DEF Check
        <3>2. call' \in [Clients -> Calls]
            BY <3>1, <2>m, <2>e
        <3>3. queue' \in Seq(Clients)
            <4>1. queue' \in {queue, Append(queue, c)}
                BY <2>6 DEF Check, Queue
            <4> QED BY <4>1, <1>6
        <3>4. UNCHANGED <<flags, promises, holders>>
            BY <2>6 DEF Check
        <3> QED BY <1>6, <3>2, <3>3, <3>4 DEF flags, promises
    <2>7. CASE Blocked(c)
        BY <1>6, <2>7, <2>m, <2>e DEF Blocked, Release, flags, promises
    <2>8. CASE Return(c)
        BY <1>6, <2>8, <2>e DEF Return, Release, flags, promises
    <2> QED BY <1>6, <2>1, <2>2, <2>3, <2>4, <2>5, <2>6, <2>7, <2>8 DEF Go
<1>7. CASE UNCHANGED vars
    BY <1>7 DEF vars, flags, promises, lock
<1> QED BY <1>1, <1>2, <1>3, <1>4, <1>5, <1>6, <1>7 DEF Next

\* The fields of a call after it moved, and after the others were woken.
LEMMA MoveFields ==
    ASSUME TypeOK, NEW c \in Clients, NEW p \in Places
    PROVE  /\ Move(c, p) \in [Clients -> Calls]
           /\ \A d \in Clients :
                  /\ Move(c, p)[d].op = call[d].op
                  /\ Move(c, p)[d].allowed = call[d].allowed
                  /\ Move(c, p)[d].at = IF d = c THEN p ELSE call[d].at
BY DEF TypeOK, Move, Calls

LEMMA EndFields ==
    ASSUME TypeOK, NEW c \in Clients
    PROVE  /\ End(c) \in [Clients -> Calls]
           /\ End(c)[c] = Idle
           /\ \A d \in Clients \ {c} : End(c)[d] = call[d]
<1>1. Idle \in Calls
    <2>1. {} \in Allowed \cup {{}}
        BY Zenon
    <2>2. "none" \in Writes \cup Methods \cup {"none"} /\ "idle" \in Places
        BY DEF Places
    <2> QED BY <2>1, <2>2, Zenon DEF Idle, Calls
<1> QED BY <1>1 DEF TypeOK, End

LEMMA WokenFields ==
    ASSUME NEW f \in [Clients -> Calls]
    PROVE  \A d \in Clients :
               /\ Woken(f)[d].op = f[d].op
               /\ Woken(f)[d].allowed = f[d].allowed
               /\ Woken(f)[d].at = IF f[d].at = "await" THEN "check" ELSE f[d].at
BY DEF Woken, Calls

-----------------------------------------------------------------------------
(***************************************************************************)
(* One lemma per action.                                                   *)
(***************************************************************************)

LEMMA EnterStep ==
    ASSUME IInv, Enter, UNCHANGED kind
    PROVE  Course' /\ Holding' /\ Flags' /\ Status' /\ Reading'
<1> USE DEF IInv, TypeOK, At, IsWrite
<1> DEFINE h == Head(queue)
<1>1. /\ h \in Clients /\ h = queue[1] /\ h \notin holders /\ At(h, "queued")
      /\ Len(queue) >= 1
    BY DEF Enter, Holding
<1>2. /\ holders' = holders \cup {h} /\ queue' = Tail(queue)
      /\ UNCHANGED <<flags, promises, call>>
    BY DEF Enter
<1>3. Course' /\ Flags' /\ Status'
    <2>1. Course'
        BY <1>2 DEF Course, Operations
    <2>2. Flags'
        BY <1>2 DEF Flags, flags
    <2>3. Status'
        BY <1>2 DEF Status, promises, StatusOf
    <2> QED BY <2>1, <2>2, <2>3
<1>4. Holding'
    <2>1. \A i \in 1 .. Len(queue') :
             /\ i + 1 \in 1 .. Len(queue)
             /\ queue'[i] = queue[i + 1]
        BY <1>1, <1>2
    <2>2. \A i, j \in 1 .. Len(queue') : queue'[i] = queue'[j] => i = j
        BY <2>1 DEF Holding
    <2>3. \A i \in 1 .. Len(queue') : At(queue'[i], "queued") /\ queue'[i] \notin holders'
        BY <1>1, <1>2, <2>1 DEF Holding
    <2>4. \A c, d \in holders' : IsWrite(c) => c = d
        BY <1>1, <1>2 DEF Holding, Enter, CanEnter
    <2>5. /\ \A c \in holders' : call[c].at \in {"queued", "body", "method"}
          /\ \A c \in Clients : At(c, "body") => c \in holders'
        BY <1>1, <1>2 DEF Holding
    <2> QED BY <1>2, <2>2, <2>3, <2>4, <2>5 DEF Holding
<1>5. Reading'
    BY <1>1, <1>2 DEF Reading, Ready, ReadySS, ReadyCD, ReadyCDSS, flags
<1> QED BY <1>3, <1>4, <1>5

LEMMA OtherInstanceStep ==
    ASSUME IInv, OtherInstance, UNCHANGED kind
    PROVE  Course' /\ Holding' /\ Flags' /\ Status' /\ Reading'
<1> USE DEF IInv, TypeOK, At, IsWrite
<1>1. \A d \in Clients :
         /\ call'[d].op = call[d].op
         /\ call'[d].at = call[d].at \/ (call[d].at = "await" /\ call'[d].at = "check")
    BY WokenFields DEF OtherInstance
<1>2. UNCHANGED <<flags, status, lock>>
    BY DEF OtherInstance
<1>3. Course'
    BY <1>1, <1>2 DEF Course, Operations
<1>4. Holding'
    BY <1>1, <1>2 DEF Holding, lock
<1>5. Flags'
    BY <1>1, <1>2 DEF Flags, flags
<1>6. Status'
    BY <1>1, <1>2 DEF Status, StatusOf
<1>7. Reading'
    BY <1>1, <1>2 DEF Reading, Ready, ReadySS, ReadyCD, ReadyCDSS, flags, lock
<1> QED BY <1>3, <1>4, <1>5, <1>6, <1>7

LEMMA OperateStep ==
    ASSUME IInv, NEW c \in Clients, NEW op \in Writes, Operate(c, op), UNCHANGED kind
    PROVE  Course' /\ Holding' /\ Flags' /\ Status' /\ Reading'
<1> USE DEF IInv, TypeOK, At, IsWrite
<1>1. /\ call'[c].op = op /\ call'[c].at = "queued"
      /\ \A d \in Clients \ {c} : call'[d] = call[d]
      /\ call[c].at = "idle" /\ c \notin holders /\ op \in Operations
      /\ queue' = Append(queue, c)
      /\ UNCHANGED <<flags, promises, holders>>
    BY DEF Operate, Queue, Holding
<1>2. Course'
    BY <1>1 DEF Course, Operations
<1>3. Holding'
    <2>1. \A i \in 1 .. Len(queue) : queue[i] \in Clients /\ queue[i] # c
        BY <1>1 DEF Holding
    <2>2. /\ Len(queue') = Len(queue) + 1
          /\ \A i \in 1 .. Len(queue) : queue'[i] = queue[i]
          /\ queue'[Len(queue) + 1] = c
        BY <1>1
    <2>3. \A i \in 1 .. Len(queue') : call'[queue'[i]].at = "queued" /\ queue'[i] \notin holders
        BY <1>1, <2>1, <2>2 DEF Holding
    <2>4. \A i, j \in 1 .. Len(queue') : queue'[i] = queue'[j] => i = j
        BY <2>1, <2>2 DEF Holding
    <2> QED BY <1>1, <2>3, <2>4 DEF Holding
<1>4. Flags'
    BY <1>1 DEF Flags, flags
<1>5. Status'
    BY <1>1 DEF Status, promises, StatusOf
<1>6. Reading'
    BY <1>1 DEF Reading, Ready, ReadySS, ReadyCD, ReadyCDSS, flags
<1> QED BY <1>2, <1>3, <1>4, <1>5, <1>6

LEMMA InvokeStep ==
    ASSUME IInv, NEW c \in Clients, NEW op \in {"async", "block"}, NEW a \in Allowed,
           Invoke(c, op, a), UNCHANGED kind
    PROVE  Course' /\ Holding' /\ Flags' /\ Status' /\ Reading'
<1> USE DEF IInv, TypeOK, At, IsWrite
<1>1. /\ call'[c].op = op /\ call'[c].at \in {"await", "check"}
      /\ \A d \in Clients \ {c} : call'[d] = call[d]
      /\ call[c].at = "idle" /\ c \notin holders
      /\ UNCHANGED <<flags, promises, lock>>
    BY DEF Invoke, Holding
<1>2. Course'
    BY <1>1 DEF Course, Operations, Methods, Writes
<1>3. Holding'
    BY <1>1 DEF Holding, lock
<1>4. Flags'
    BY <1>1 DEF Flags, flags
<1>5. Status'
    BY <1>1 DEF Status, promises, StatusOf
<1>6. Reading'
    BY <1>1 DEF Reading, Ready, ReadySS, ReadyCD, ReadyCDSS, flags, lock
<1> QED BY <1>2, <1>3, <1>4, <1>5, <1>6

LEMMA SyncStep ==
    ASSUME IInv, NEW c \in Clients, NEW a \in Allowed, Sync(c, a), UNCHANGED kind
    PROVE  Course' /\ Holding' /\ Flags' /\ Status' /\ Reading'
<1> USE DEF IInv, TypeOK, At, IsWrite
<1>1. /\ call'[c].op = "sync" /\ call'[c].at = "method"
      /\ \A d \in Clients \ {c} : call'[d] = call[d]
      /\ call[c].at = "idle" /\ c \notin holders
      /\ UNCHANGED <<flags, promises, lock>>
    BY DEF Sync, Holding
<1>2. Course'
    BY <1>1 DEF Course, Operations, Methods, Writes
<1>3. Holding'
    BY <1>1 DEF Holding, lock
<1>4. Flags'
    BY <1>1 DEF Flags, flags
<1>5. Status'
    BY <1>1 DEF Status, promises, StatusOf
<1>6. Reading'
    BY <1>1 DEF Reading, Ready, ReadySS, ReadyCD, ReadyCDSS, flags, lock
<1> QED BY <1>2, <1>3, <1>4, <1>5, <1>6

\* Skip, Done and Threw: a writer leaves for its finally and releases the lock.
LEMMA LeaveStep ==
    ASSUME IInv, NEW c \in Clients, Skip(c) \/ Done(c) \/ Threw(c), UNCHANGED kind
    PROVE  Course' /\ Holding' /\ Flags' /\ Status' /\ Reading'
<1> USE DEF IInv, TypeOK, At, IsWrite
<1>a. call' = Move(c, "finally") /\ holders' = holders \ {c}
      /\ UNCHANGED <<promises, queue>>
    <2>1. CASE Skip(c)
        BY <2>1 DEF Skip, Release
    <2>2. CASE Done(c)
        BY <2>2 DEF Done, Release
    <2>3. CASE Threw(c)
        BY <2>3 DEF Threw, Release
    <2> QED BY <2>1, <2>2, <2>3
<1>1. /\ call'[c].at = "finally"
      /\ \A d \in Clients : call'[d].op = call[d].op
      /\ \A d \in Clients \ {c} : call'[d].at = call[d].at
      /\ holders' = holders \ {c}
      /\ UNCHANGED <<promises, queue>>
    <2>1. "finally" \in Places
        BY DEF Places
    <2> QED BY <1>a, <2>1, MoveFields
<1>2. /\ c \in holders /\ IsWrite(c)
      /\ holders = {c}
      /\ call[c].at \in {"queued", "body"}
    <2>1. c \in holders /\ IsWrite(c) /\ call[c].at \in {"queued", "body"}
        <3>1. CASE Skip(c)
            BY <3>1 DEF Skip, Begun
        <3>2. CASE Done(c) \/ Threw(c)
            BY <3>2 DEF Done, Threw, Holding, Course
        <3> QED BY <3>1, <3>2
    <2> QED BY <2>1 DEF Holding
<1>3. \A d \in Clients : ~ (call'[d].at = "body")
    BY <1>1, <1>2 DEF Holding
<1>4. Course'
    BY <1>1, <1>2 DEF Course, Operations
<1>5. Holding'
    BY <1>1, <1>2, <1>3 DEF Holding
<1>6. Flags'
    <2>1. CASE Done(c)
        <3>1. Operations \subseteq Writes /\ (kind = "StartStop" => Operations = {"start", "stop"})
              /\ (kind = "CreateDestroy" => Operations = {"destroy"})
            BY KindOps
        <3>2. call[c].op \in Operations
            BY <1>2 DEF Course, Methods, Writes
        <3>3. call[c].at = "body"
            BY <2>1 DEF Done
        <3>4. /\ running' = (IF call[c].op = "start" THEN TRUE
                            ELSE IF call[c].op = "stop" THEN FALSE ELSE running)
              /\ destroyed' = (destroyed \/ call[c].op = "destroy")
            BY <2>1 DEF Done
        <3> QED BY <1>3, <3>1, <3>2, <3>3, <3>4 DEF Flags
    <2>2. CASE Skip(c) \/ Threw(c)
        BY <1>3, <2>2 DEF Flags, Skip, Threw, flags
    <2> QED BY <2>1, <2>2
<1>7. Status'
    <2>1. status # "null" => \E d \in Clients : call'[d].at \in {"body", "finally"}
        BY <1>1
    <2> QED BY <1>1, <1>3, <2>1 DEF Status, promises
<1>8. Reading'
    BY <1>1, <1>2 DEF Reading
<1> QED BY <1>4, <1>5, <1>6, <1>7, <1>8

LEMMA BeginStep ==
    ASSUME IInv, NEW c \in Clients, Begin(c), UNCHANGED kind
    PROVE  Course' /\ Holding' /\ Flags' /\ Status' /\ Reading'
<1> USE DEF IInv, TypeOK, At, IsWrite
<1>1. /\ c \in holders /\ IsWrite(c) /\ call[c].at = "queued"
      /\ \A d \in Clients : call[d].at # "finally"
      /\ ~ Skips(call[c].op)
    BY DEF Begin, Begun
<1>2. /\ status' = StatusOf(call[c].op)
      /\ call' = Woken(Move(c, "body"))
      /\ UNCHANGED <<flags, lock>>
    BY DEF Begin, SetStatus
<1>3. "body" \in Places
    BY DEF Places
<1>4. /\ call'[c].at = "body"
      /\ \A d \in Clients : call'[d].op = call[d].op
      /\ \A d \in Clients \ {c} :
             call'[d].at = IF call[d].at = "await" THEN "check" ELSE call[d].at
    BY <1>2, <1>3, MoveFields, WokenFields
<1>5. holders = {c} /\ \A d \in Clients \ {c} : call'[d].at # "body"
    BY <1>1, <1>4 DEF Holding
<1>6. Course'
    BY <1>1, <1>2, <1>4 DEF Course, Operations
<1>7. Holding'
    <2>1. UNCHANGED <<holders, queue>>
        BY <1>2 DEF lock
    <2>2. \A d \in Clients : call[d].at = "queued" /\ d # c => call'[d].at = "queued"
        BY <1>4
    <2>3. \A i \in 1 .. Len(queue) :
              queue[i] \in Clients /\ queue[i] # c /\ call[queue[i]].at = "queued"
              /\ queue[i] \notin holders
        BY <1>1 DEF Holding
    <2>4. \A i \in 1 .. Len(queue') : call'[queue'[i]].at = "queued" /\ queue'[i] \notin holders'
        BY <2>1, <2>2, <2>3
    <2>5. \A d \in holders' : call'[d].at \in {"queued", "body", "method"}
        BY <1>4, <1>5, <2>1
    <2>6. \A d \in Clients : call'[d].at = "body" => d \in holders'
        BY <1>4, <1>5, <2>1
    <2>7. \A d, e \in holders' : d = e
        BY <1>5, <2>1
    <2> QED BY <2>1, <2>4, <2>5, <2>6, <2>7 DEF Holding
<1>8. Flags'
    <2>1. call[c].op \in Operations
        BY <1>1 DEF Course, Methods, Writes
    <2>2. /\ call[c].op = "start" => ~ running /\ ~ destroyed
          /\ call[c].op = "stop" => running /\ ~ destroyed
          /\ call[c].op = "destroy" => ~ running /\ ~ destroyed
        BY <1>1, <2>1, KindOps DEF Skips, SkipSS, SkipCD, SkipCDSS, Flags, Kinds
    <2> QED BY <1>2, <1>4, <1>5, <2>2 DEF Flags, flags
<1>9. Status'
    BY <1>1, <1>2, <1>4, <1>5 DEF Status, StatusOf
<1>10. Reading'
    BY <1>2, <1>4, <1>5 DEF Reading, lock
<1> QED BY <1>6, <1>7, <1>8, <1>9, <1>10

LEMMA FinallyStep ==
    ASSUME IInv, NEW c \in Clients, Finally(c), UNCHANGED kind
    PROVE  Course' /\ Holding' /\ Flags' /\ Status' /\ Reading'
<1> USE DEF IInv, TypeOK, At, IsWrite
<1>1. call[c].at = "finally" /\ c \notin holders
    BY DEF Finally, Holding
<1>2. /\ status' = "null" /\ call' = Woken(End(c)) /\ UNCHANGED <<flags, lock>>
    BY DEF Finally, SetStatus
<1>3. /\ call'[c].at = "idle" /\ call'[c].op = "none"
      /\ \A d \in Clients \ {c} :
             /\ call'[d].op = call[d].op
             /\ call'[d].at = IF call[d].at = "await" THEN "check" ELSE call[d].at
    BY <1>2, EndFields, WokenFields DEF Idle
<1>4. \A d \in Clients : call[d].at # "body"
    BY <1>1 DEF Status
<1>5. UNCHANGED <<holders, queue>>
    BY <1>2 DEF lock
<1>6. Course'
    BY <1>2, <1>3 DEF Course, Operations, Writes
<1>7. Holding'
    <2>1. \A i \in 1 .. Len(queue) : queue[i] \in Clients /\ queue[i] # c
        BY <1>1 DEF Holding
    <2>2. \A i \in 1 .. Len(queue') : call'[queue'[i]].at = "queued" /\ queue'[i] \notin holders'
        BY <1>3, <1>5, <2>1 DEF Holding
    <2>3. \A d \in holders' : call'[d].at \in {"queued", "body", "method"}
        BY <1>1, <1>3, <1>5 DEF Holding
    <2>4. \A d \in Clients : call'[d].at = "body" => d \in holders'
        BY <1>3, <1>4
    <2>5. \A d, e \in holders' : call'[d].op \in Writes => d = e
        BY <1>1, <1>3, <1>5 DEF Holding
    <2> QED BY <1>5, <2>2, <2>3, <2>4, <2>5 DEF Holding
<1>8. Flags'
    BY <1>2, <1>3, <1>4 DEF Flags, flags
<1>9. Status'
    BY <1>2, <1>3, <1>4 DEF Status
<1>10. Reading'
    BY <1>1, <1>2, <1>3, <1>5 DEF Reading, Ready, ReadySS, ReadyCD, ReadyCDSS, flags
<1> QED BY <1>6, <1>7, <1>8, <1>9, <1>10

LEMMA CheckStep ==
    ASSUME IInv, NEW c \in Clients, Check(c), UNCHANGED kind
    PROVE  Course' /\ Holding' /\ Flags' /\ Status' /\ Reading'
<1> USE DEF IInv, TypeOK, At, IsWrite
<1>1. call[c].at = "check" /\ c \notin holders /\ call[c].op \notin Writes
    BY DEF Check, Holding, Course
<1>2. UNCHANGED <<flags, promises, holders>>
    BY DEF Check
<1>3. /\ call'[c].at \in {"idle", "method", "queued"}
      /\ call'[c].op \in {call[c].op, "none"}
      /\ call'[c].at = "queued" => call'[c].op = "block" /\ queue' = Append(queue, c)
      /\ call'[c].at # "queued" => queue' = queue
      /\ \A d \in Clients \ {c} : call'[d] = call[d]
    <2>1. "method" \in Places /\ "queued" \in Places
        BY DEF Places
    <2>2. CASE call' = End(c) /\ UNCHANGED queue
        BY <2>2, EndFields DEF Idle
    <2>3. CASE call' = Move(c, "method") /\ UNCHANGED queue
        BY <2>1, <2>3, MoveFields DEF Move
    <2>4. CASE call' = Move(c, "queued") /\ Queue(c) /\ call[c].op = "block"
        BY <2>1, <2>4, MoveFields DEF Move, Queue
    <2> QED BY <2>2, <2>3, <2>4 DEF Check
<1>4. Course'
    BY <1>1, <1>2, <1>3 DEF Course, Operations, Writes
<1>5. Holding'
    <2>1. \A i \in 1 .. Len(queue) : queue[i] \in Clients /\ queue[i] # c
        BY <1>1 DEF Holding
    <2>2. CASE call'[c].at = "queued"
        <3>1. /\ Len(queue') = Len(queue) + 1
              /\ \A i \in 1 .. Len(queue) : queue'[i] = queue[i]
              /\ queue'[Len(queue) + 1] = c
            BY <1>3, <2>2
        <3>2. \A i \in 1 .. Len(queue') : call'[queue'[i]].at = "queued" /\ queue'[i] \notin holders
            BY <1>1, <1>3, <2>1, <2>2, <3>1 DEF Holding
        <3>3. \A i, j \in 1 .. Len(queue') : queue'[i] = queue'[j] => i = j
            BY <2>1, <3>1 DEF Holding
        <3> QED BY <1>1, <1>2, <1>3, <2>2, <3>2, <3>3 DEF Holding
    <2>3. CASE call'[c].at # "queued"
        BY <1>1, <1>2, <1>3, <2>1, <2>3 DEF Holding
    <2> QED BY <2>2, <2>3
<1>6. Flags'
    BY <1>2, <1>3 DEF Flags, flags
<1>7. Status'
    BY <1>1, <1>2, <1>3 DEF Status, promises, StatusOf
<1>8. Reading'
    BY <1>1, <1>2, <1>3 DEF Reading, Ready, ReadySS, ReadyCD, ReadyCDSS, flags
<1> QED BY <1>4, <1>5, <1>6, <1>7, <1>8

LEMMA BlockedStep ==
    ASSUME IInv, NEW c \in Clients, Blocked(c), UNCHANGED kind
    PROVE  Course' /\ Holding' /\ Flags' /\ Status' /\ Reading'
<1> USE DEF IInv, TypeOK, At, IsWrite
<1>1. call[c].at = "queued" /\ c \in holders /\ call[c].op = "block"
    BY DEF Blocked
<1>2. UNCHANGED <<flags, promises, queue>>
    BY DEF Blocked
<1>3. /\ \A d \in Clients \ {c} : call'[d] = call[d]
      /\ \/ /\ call'[c].at = "method" /\ call'[c].op = "block" /\ Ready
            /\ UNCHANGED holders
         \/ /\ call'[c].at = "idle" /\ call'[c].op = "none"
            /\ holders' = holders \ {c}
    <2>1. CASE Ready /\ call' = Move(c, "method") /\ UNCHANGED holders
        BY <1>1, <2>1, MoveFields DEF Move, Places
    <2>2. CASE call' = End(c) /\ Release(c)
        BY <2>2, EndFields DEF Idle, Release
    <2> QED BY <2>1, <2>2 DEF Blocked
<1>4. Course'
    BY <1>1, <1>2, <1>3 DEF Course, Operations, Methods, Writes
<1>5. Holding'
    <2>1. \A i \in 1 .. Len(queue) : queue[i] \in Clients /\ queue[i] # c
        BY <1>1 DEF Holding
    <2>2. \A d \in holders : call'[d].op \in Writes => call[d].op \in Writes
        BY <1>1, <1>3 DEF Writes
    <2> QED BY <1>1, <1>2, <1>3, <2>1, <2>2 DEF Holding
<1>6. Flags'
    BY <1>2, <1>3 DEF Flags, flags
<1>7. Status'
    BY <1>1, <1>2, <1>3 DEF Status, promises, StatusOf
<1>8. Reading'
    BY <1>1, <1>2, <1>3 DEF Reading, Ready, ReadySS, ReadyCD, ReadyCDSS, flags
<1> QED BY <1>4, <1>5, <1>6, <1>7, <1>8

LEMMA ReturnStep ==
    ASSUME IInv, NEW c \in Clients, Return(c), UNCHANGED kind
    PROVE  Course' /\ Holding' /\ Flags' /\ Status' /\ Reading'
<1> USE DEF IInv, TypeOK, At, IsWrite
<1>1. /\ call[c].at = "method" /\ holders' = holders \ {c}
      /\ UNCHANGED <<flags, promises, queue>>
    BY DEF Return, Release
<1>2. /\ call'[c].at = "idle" /\ call'[c].op = "none"
      /\ \A d \in Clients \ {c} : call'[d] = call[d]
    BY EndFields DEF Return, Idle
<1>3. Course'
    BY <1>1, <1>2 DEF Course, Operations, Writes
<1>4. Holding'
    <2>1. \A i \in 1 .. Len(queue) : queue[i] \in Clients /\ queue[i] # c
        BY <1>1 DEF Holding
    <2> QED BY <1>1, <1>2, <2>1 DEF Holding
<1>5. Flags'
    BY <1>1, <1>2 DEF Flags, flags
<1>6. Status'
    BY <1>1, <1>2 DEF Status, promises, StatusOf
<1>7. Reading'
    BY <1>1, <1>2 DEF Reading, Ready, ReadySS, ReadyCD, ReadyCDSS, flags
<1> QED BY <1>3, <1>4, <1>5, <1>6, <1>7

-----------------------------------------------------------------------------

LEMMA NextIInv == IInv /\ [Next]_vars => IInv'
<1> SUFFICES ASSUME IInv, [Next]_vars PROVE IInv'
    OBVIOUS
<1>1. TypeOK'
    BY TypeStep DEF IInv
<1>2. Course' /\ Holding' /\ Flags' /\ Status' /\ Reading'
    <2>1. CASE UNCHANGED vars
        <3>1. UNCHANGED <<kind, running, destroyed, status, holders, queue, call>>
            BY <2>1 DEF vars, flags, promises, lock
        <3> USE DEF IInv, At, IsWrite
        <3>2. Course'
            BY <3>1 DEF Course, Operations
        <3>3. Holding'
            BY <3>1 DEF Holding
        <3>4. Flags'
            BY <3>1 DEF Flags
        <3>5. Status'
            BY <3>1 DEF Status, StatusOf
        <3>6. Reading'
            BY <3>1 DEF Reading, Ready, ReadySS, ReadyCD, ReadyCDSS
        <3> QED BY <3>2, <3>3, <3>4, <3>5, <3>6
    <2>2. CASE Next
        <3>1. UNCHANGED kind
            BY <2>2 DEF Next
        <3>2. CASE Enter
            BY <3>1, <3>2, EnterStep
        <3>3. CASE OtherInstance
            BY <3>1, <3>3, OtherInstanceStep
        <3>4. ASSUME NEW c \in Clients,
                     \/ \E op \in Writes : Operate(c, op)
                     \/ \E op \in {"async", "block"}, a \in Allowed : Invoke(c, op, a)
                     \/ \E a \in Allowed : Sync(c, a)
              PROVE  Course' /\ Holding' /\ Flags' /\ Status' /\ Reading'
            BY <3>1, <3>4, OperateStep, InvokeStep, SyncStep
        <3>5. ASSUME NEW c \in Clients, Go(c)
              PROVE  Course' /\ Holding' /\ Flags' /\ Status' /\ Reading'
            BY <3>1, <3>5, LeaveStep, BeginStep, FinallyStep, CheckStep, BlockedStep,
               ReturnStep DEF Go
        <3> QED BY <2>2, <3>2, <3>3, <3>4, <3>5 DEF Next
    <2> QED BY <2>1, <2>2
<1> QED BY <1>1, <1>2 DEF IInv

\* The inductive invariant of every run of an instance.
THEOREM Inductive == Spec => []IInv
BY InitIInv, NextIInv, PTL DEF Spec

\* Every variable has its type: no call is anywhere but in the places of the
\* decorators, and only clients hold initLock or wait for it.
THEOREM TypeCorrect == Spec => []TypeOK
<1>1. IInv => TypeOK
    BY DEF IInv
<1> QED BY <1>1, Inductive, PTL

\* The status names the method of the class that runs, although the one before
\* it resets the status after it has released initLock, and no order of calls
\* has a destroyed instance run.
THEOREM StatusTells == Spec => []StatusIsBody
<1>1. IInv => StatusIsBody
    BY DEF IInv, Flags, Status, StatusIsBody, InBody
<1> QED BY <1>1, Inductive, PTL

\* A method that blocks on initLock sees the instance ready until it returns,
\* and no start, stop or destroy under way.
THEOREM BlockingIsSafe == Spec => []BlockingSeesReady
<1>1. IInv => BlockingSeesReady
    <2> SUFFICES ASSUME IInv, NEW c \in holders, At(c, "method")
                 PROVE  Ready /\ InBody = {}
        BY DEF BlockingSeesReady
    <2>1. Ready
        BY DEF IInv, Reading
    <2>2. ASSUME NEW d \in Clients, At(d, "body") PROVE FALSE
        <3>1. d \in holders /\ IsWrite(d)
            BY <2>2 DEF IInv, Holding, Course, At
        <3>2. d = c
            BY <3>1 DEF IInv, Holding
        <3> QED BY <2>2, <3>2 DEF At
    <2> QED BY <2>1, <2>2 DEF InBody
<1> QED BY <1>1, Inductive, PTL
\* A method of the class that runs keeps the three kinds of ready out: it shows
\* in the status and in the lock at once.
LEMMA BodyIsSeen ==
    ASSUME IInv, NEW d \in Clients, At(d, "body")
    PROVE  /\ LockedWrite /\ status # "null"
           /\ \A c \in holders : c = d
<1>1. IsWrite(d) /\ d \in holders /\ status = StatusOf(call[d].op)
    BY DEF IInv, Course, Holding, Status, At
<1>2. LockedWrite
    BY <1>1 DEF LockedWrite, At
<1>3. status # "null"
    BY <1>1 DEF StatusOf, IsWrite, Writes
<1>4. \A c \in holders : c = d
    BY <1>1 DEF IInv, Holding
<1> QED BY <1>2, <1>3, <1>4

\* The only steps that bring a call into its method, each with what it checked.
LEMMA BeginsBetween ==
    ASSUME IInv, [Next]_vars, NEW c \in Clients, ~ At(c, "method"),
           call'[c].at = "method", status \notin call'[c].allowed
    PROVE  InBody = {} /\ Ready
<1> USE DEF At
<1>t. TypeOK
    BY DEF IInv
<1>1. CASE Enter \/ UNCHANGED vars
    BY <1>1 DEF Enter, vars
<1>2. CASE OtherInstance
    BY <1>2, <1>t, WokenFields DEF OtherInstance, TypeOK
<1>3. ASSUME NEW d \in Clients, NEW op \in Writes, Operate(d, op) PROVE FALSE
    <2>1. call'[d].at = "queued" /\ \A e \in Clients \ {d} : call'[e] = call[e]
        BY <1>3, <1>t DEF Operate, TypeOK
    <2> QED BY <2>1
<1>4. ASSUME NEW d \in Clients, NEW op \in {"async", "block"}, NEW a \in Allowed,
             Invoke(d, op, a)
      PROVE  FALSE
    <2>1. call'[d].at \in {"await", "check"} /\ \A e \in Clients \ {d} : call'[e] = call[e]
        BY <1>4, <1>t DEF Invoke, TypeOK
    <2> QED BY <2>1
<1>5. ASSUME NEW d \in Clients, NEW a \in Allowed, Sync(d, a)
      PROVE  InBody = {} /\ Ready
    <2>1. call'[d].allowed = a /\ \A e \in Clients \ {d} : call'[e] = call[e]
        BY <1>5, <1>t DEF Sync, TypeOK
    <2>2. SyncReady
        BY <1>5, <2>1 DEF Sync
    <2> QED BY <2>2, BodyIsSeen DEF SyncReady, InBody
<1>6. ASSUME NEW d \in Clients, Skip(d) \/ Done(d) \/ Threw(d) PROVE FALSE
    <2>1. call' = Move(d, "finally") /\ "finally" \in Places
        BY <1>6 DEF Skip, Done, Threw, Places
    <2> QED BY <2>1, <1>t, MoveFields
<1>7. ASSUME NEW d \in Clients, Begin(d) PROVE FALSE
    <2>1. call' = Woken(Move(d, "body")) /\ "body" \in Places
        BY <1>7 DEF Begin, SetStatus, Places
    <2> QED BY <2>1, <1>t, MoveFields, WokenFields
<1>8. ASSUME NEW d \in Clients, Finally(d) PROVE FALSE
    <2>1. call' = Woken(End(d))
        BY <1>8 DEF Finally, SetStatus
    <2> QED BY <2>1, <1>t, EndFields, WokenFields DEF Idle
<1>9. ASSUME NEW d \in Clients, Check(d)
      PROVE  InBody = {} /\ Ready
    <2> "method" \in Places /\ "queued" \in Places
        BY DEF Places
    <2>1. CASE status \in call[d].allowed /\ call' = Move(d, "method")
        BY <2>1, <1>t, MoveFields
    <2>2. CASE call' = Move(d, "queued")
        BY <2>2, <1>t, MoveFields
    <2>3. CASE call' = IF ~ LockedWrite /\ Ready THEN Move(d, "method") ELSE End(d)
        <3>1. CASE ~ LockedWrite /\ Ready
            BY <3>1, BodyIsSeen DEF InBody
        <3>2. CASE ~ (~ LockedWrite /\ Ready)
            <4>1. call' = End(d)
                BY <2>3, <3>2
            <4> QED BY <4>1, <1>t, EndFields DEF Idle
        <3> QED BY <3>1, <3>2
    <2> QED BY <1>9, <2>1, <2>2, <2>3 DEF Check
<1>10. ASSUME NEW d \in Clients, Blocked(d)
       PROVE  InBody = {} /\ Ready
    <2>1. CASE Ready
        BY <1>10, <2>1, BodyIsSeen DEF Blocked, InBody
    <2>2. CASE ~ Ready
        <3>1. call' = End(d)
            BY <1>10, <2>2 DEF Blocked
        <3> QED BY <3>1, <1>t, EndFields DEF Idle
    <2> QED BY <2>1, <2>2
<1>11. ASSUME NEW d \in Clients, Return(d) PROVE FALSE
    <2>1. call' = End(d)
        BY <1>11 DEF Return
    <2> QED BY <2>1, <1>t, EndFields DEF Idle
<1> QED BY <1>1, <1>2, <1>3, <1>4, <1>5, <1>6, <1>7, <1>8, <1>9, <1>10, <1>11
        DEF Next, Go

\* No method of ready begins in the middle of a start, stop or destroy, or on an
\* instance that is not ready, unless its list allows the status: the kind that
\* blocks relies on the lock, the synchronous on lock and status together, the
\* asynchronous on the lock alone.
THEOREM BeginsAreBetween == Spec => MethodsBeginBetween
<1>1. IInv /\ [Next]_vars =>
          [\A c \in Clients :
              (/\ ~ At(c, "method") /\ call'[c].at = "method"
               /\ status \notin call'[c].allowed) => InBody = {} /\ Ready]_vars
    BY BeginsBetween
<1> QED BY <1>1, Inductive, PTL DEF Spec, MethodsBeginBetween

=============================================================================
