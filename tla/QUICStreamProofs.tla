-------------------------- MODULE QUICStreamProofs --------------------------
(***************************************************************************)
(* Proofs about QUICStream, for streams of both types and initiators.      *)
(*                                                                         *)
(* The inductive invariant adds to the invariants of the runs what makes   *)
(* them inductive: a call that was resumed finds in quiche what it was     *)
(* resumed for, unless its side was cancelled in between.                  *)
(***************************************************************************)
EXTENDS QUICStream, TLAPS

ResumedFindsData ==
    pull = "resumed" => rq \in {"data", "data+fin"} \/ "read" \in overtaken

ResumedFindsRoom ==
    writer = "resumed" => wq # "done" \/ "write" \in overtaken

DestroyedIsClosed == status = "destroyed" => Closed

StreamInv ==
    /\ TypeOK
    /\ SleepsOnlyWithReason
    /\ SidesAgree
    /\ InternalOnlyIfOvertaken
    /\ ResumedFindsData
    /\ ResumedFindsRoom
    /\ DestroyedIsClosed

\* The abbreviations that most leaves expand.
USE DEF StreamInv, TypeOK, SleepsOnlyWithReason, SidesAgree,
        InternalOnlyIfOvertaken, ResumedFindsData, ResumedFindsRoom,
        DestroyedIsClosed, Closed, Reads, Writes, reading, writing, vars

\* The states a stream is constructed in satisfy the invariant.
LEMMA StreamInvInit == Init => StreamInv
  BY StreamAssumption DEF Init, HasRead, HasWrite

\* cancel, as readableCancel and writableAbort, keeps the invariant.
LEMMA CancelKeepsInv ==
  ASSUME StreamInv, CancelBoth, status' \in {"created", "destroying"},
         internal' = internal
  PROVE  StreamInv'
  BY DEF CancelBoth, CancelRead, AbortWrite, CloseRead, CloseWrite,
         PullAfterClose, WriterAfterClose, Overtakes

\* What one datagram does to the stream keeps the invariant.
LEMMA DatagramKeepsInv == StreamInv /\ Datagram => StreamInv'
  <1> SUFFICES ASSUME StreamInv, Datagram PROVE StreamInv'
    OBVIOUS
  <1>1. /\ pull # "resumed"
        /\ writer # "resumed"
        /\ UNCHANGED <<status, internal, overtaken>>
    BY DEF Datagram
  <1>2. PICK r \in Received(rq) : Read(r)
    BY DEF Datagram
  <1>3. PICK w \in Credited(wq) : Write(w)
    BY DEF Datagram
  <1>4. /\ readClosed' \in BOOLEAN
        /\ buffered' \in BOOLEAN
        /\ rq' \in Reads
        /\ pull' \in {"idle", "blocked", "resumed"}
        /\ readClosed => readClosed'
        /\ readClosed' <=> rq' = "done"
        /\ readClosed' => pull' # "blocked"
        /\ pull' = "blocked" => rq' = "open"
        /\ pull' = "resumed" => rq' \in {"data", "data+fin"}
    BY <1>1, <1>2 DEF Received, Read, CloseRead, PullAfterClose
  <1>5. /\ writeClosed' \in BOOLEAN
        /\ ending' = ending
        /\ wq' \in Writes
        /\ writer' \in {"idle", "blocked", "resumed"}
        /\ writeClosed => writeClosed'
        /\ writeClosed' => wq' \in {"done", "stopped"}
        /\ wq' = "done" => writeClosed'
        /\ writeClosed' => writer' # "blocked"
        /\ writer' = "blocked" => wq' = "full"
        /\ writer' = "resumed" => wq' = "room"
    BY <1>1, <1>3 DEF Credited, Write, CloseWrite, WriterAfterClose, WriterAfterCredit
  <1>6. QED
    BY <1>1, <1>4, <1>5

\* What readablePull does once it no longer waits keeps the invariant, provided
\* that it finds something or that the readable was cancelled before.
LEMMA ReceiveKeepsInv ==
  ASSUME StreamInv, Receive, UNCHANGED <<writing, status, overtaken>>,
         rq \notin {"open", "done"} \/ "read" \in overtaken
  PROVE  StreamInv'
  <1>1. CASE rq \in {"open", "done"} /\ internal' = internal \cup {"read"}
    <2>1. UNCHANGED <<readClosed, buffered, rq, writeClosed, writer, ending, wq,
                      status, overtaken>> /\ pull' = "idle"
      BY <1>1 DEF Receive
    <2>2. internal' \subseteq overtaken'
      BY <1>1, <2>1
    <2>3. QED
      BY <2>1, <2>2
  <1>2. CASE rq \notin {"open", "done"}
    <2>1. /\ UNCHANGED <<internal, overtaken, writeClosed, writer, ending, wq, status>>
          /\ pull' = "idle"
          /\ rq' \in Reads
          /\ readClosed' \in BOOLEAN
          /\ buffered' \in BOOLEAN
          /\ readClosed => readClosed'
          /\ readClosed' <=> rq' = "done"
      <3>1. CASE rq' # "done"
        <4>1. /\ UNCHANGED <<readClosed, internal>>
              /\ buffered' = TRUE
              /\ pull' = "idle"
              /\ rq \in {"data", "data+fin"}
              /\ rq' \in {"open", "data", "data+fin"}
          BY <1>2, <3>1, ZenonT(30) DEF Receive
        <4>2. QED
          BY <4>1
      <3>2. CASE rq' = "done"
        <4>1. buffered' = (rq = "data+fin")
          BY <1>2, <3>2 DEF Receive
        <4>2. buffered' \in BOOLEAN
          BY <4>1
        <4>3. QED
          BY <1>2, <3>2, <4>2 DEF Receive
      <3>3. QED
        BY <3>1, <3>2
    <2>2. QED
      BY <2>1
  <1>3. QED
    BY <1>1, <1>2 DEF Receive

\* What one round of writableWrite does keeps the invariant, provided that the
\* sending side has not ended or that the writable was cancelled before.
LEMMA SendKeepsInv ==
  ASSUME StreamInv, Send, UNCHANGED <<reading, status, overtaken>>,
         wq # "done" \/ "write" \in overtaken,
         writer # "blocked"
  PROVE  StreamInv'
  <1>1. CASE wq = "done"
    <2>1. UNCHANGED <<readClosed, buffered, rq, pull, writeClosed, ending, wq,
                      status, overtaken>> /\ writer' = "idle"
      BY <1>1 DEF Send
    <2>2. internal' \subseteq overtaken'
      BY <1>1, <2>1 DEF Send
    <2>3. QED
      BY <2>1, <2>2
  <1>2. CASE wq # "done"
    <2>1. /\ UNCHANGED <<readClosed, buffered, rq, pull, ending, status, internal, overtaken>>
          /\ writer' \in {"idle", "blocked"}
          /\ wq' \in Writes
          /\ writeClosed' \in BOOLEAN
          /\ writeClosed => writeClosed'
          /\ writeClosed' => wq' \in {"done", "stopped"}
          /\ wq' # "done"
          /\ writer' = "blocked" => wq' = "full"
          /\ writeClosed' => writer' # "blocked"
      <3>1. CASE wq = "stopped"
        BY <1>2, <3>1 DEF Send
      <3>2. CASE wq # "stopped"
        BY <1>2, <3>2 DEF Send
      <3>3. QED
        BY <3>1, <3>2
    <2>2. QED
      BY <2>1
  <1>3. QED
    BY <1>1, <1>2

\* Every step keeps the invariant.
LEMMA StreamInvStep == StreamInv /\ [Next]_vars => StreamInv'
  <1> SUFFICES ASSUME StreamInv, [Next]_vars PROVE StreamInv'
    OBVIOUS
  <1>1. CASE Datagram
    BY <1>1, DatagramKeepsInv
  <1>2. CASE Pull
    <2>1. CASE rq = "open"
      BY <1>2, <2>1 DEF Pull
    <2>2. CASE rq # "open"
      BY <1>2, <2>2, ReceiveKeepsInv DEF Pull
    <2>3. QED
      BY <2>1, <2>2
  <1>3. CASE PullResumes
    BY <1>3, ReceiveKeepsInv DEF PullResumes
  <1>4. CASE Consume
    BY <1>4 DEF Consume
  <1>5. CASE UserCancelsRead
    BY <1>5 DEF UserCancelsRead, CancelRead, CloseRead, PullAfterClose, Overtakes
  <1>6. CASE WriteChunk
    BY <1>6, SendKeepsInv DEF WriteChunk
  <1>7. CASE WriterResumes
    BY <1>7, SendKeepsInv DEF WriterResumes
  <1>8. ASSUME NEW how \in {"close", "abort"}, EndWritable(how) PROVE StreamInv'
    BY <1>8 DEF EndWritable
  <1>9. CASE WritableEnds
    BY <1>9 DEF WritableEnds, CloseWrite, WriterAfterClose
  <1>10. CASE Cancel
    BY <1>10, CancelKeepsInv DEF Cancel
  <1>11. ASSUME NEW force \in BOOLEAN, BeginDestroy(force) PROVE StreamInv'
    <2>1. CASE force /\ ~ Closed
      BY <1>11, <2>1, CancelKeepsInv DEF BeginDestroy
    <2>2. CASE ~ (force /\ ~ Closed)
      BY <1>11, <2>2 DEF BeginDestroy
    <2>3. QED
      BY <2>1, <2>2
  <1>12. CASE EndDestroy
    BY <1>12 DEF EndDestroy, MayEnd
  <1>13. CASE UNCHANGED vars
    BY <1>13
  <1>14. QED
    BY <1>1, <1>2, <1>3, <1>4, <1>5, <1>6, <1>7, <1>8, <1>9, <1>10, <1>11,
       <1>12, <1>13 DEF Next

(***************************************************************************)
(* In every order of datagrams, pulls, writes, cancellations and destroy:  *)
(* no wake-up is lost, this side's view of the stream agrees with quiche's *)
(* and an internal error needs a cancellation that overtakes a wake-up.    *)
(***************************************************************************)
THEOREM StreamInvariant ==
  Spec => [](TypeOK /\ SleepsOnlyWithReason /\ SidesAgree /\ InternalOnlyIfOvertaken)
  <1>1. StreamInv => TypeOK /\ SleepsOnlyWithReason /\ SidesAgree /\ InternalOnlyIfOvertaken
    OBVIOUS
  <1> HIDE DEF StreamInv, TypeOK, SleepsOnlyWithReason, SidesAgree,
               InternalOnlyIfOvertaken, vars
  <1>2. QED
    BY <1>1, StreamInvInit, StreamInvStep, PTL DEF Spec

(* This side calls a direction closed exactly when quiche is done with it  *)
(* or has refused it, in every order of datagrams, calls and cancellations.*)
THEOREM SidesAlwaysAgree == Spec => []SidesAgree
  <1> HIDE DEF StreamInv, TypeOK, SleepsOnlyWithReason, SidesAgree,
               InternalOnlyIfOvertaken, vars
  <1>1. QED
    BY StreamInvariant, PTL

(* An internal error of a stream is always the work of a cancellation that *)
(* came between the wake-up of a call and its resumption.                  *)
THEOREM InternalIsOvertaken == Spec => []InternalOnlyIfOvertaken
  <1> HIDE DEF StreamInv, TypeOK, SleepsOnlyWithReason, SidesAgree,
               InternalOnlyIfOvertaken, vars
  <1>1. QED
    BY StreamInvariant, PTL


(***************************************************************************)
(* QUICStream implements StreamSides: its sides close for good, and it is  *)
(* destroyed once, at a time when both have closed.                        *)
(***************************************************************************)
THEOREM StreamRefinesSides == Spec => RefinesSides
  <1>1. Init => Sides!Init
    BY StreamAssumption DEF Init, HasRead, HasWrite, Sides!Init
  <1>2. StreamInv /\ StreamInv' /\ [Next]_vars =>
          [Sides!Next]_<<readClosed, writeClosed, status = "destroyed">>
    <2> SUFFICES ASSUME StreamInv, StreamInv', [Next]_vars
                 PROVE  [Sides!Next]_<<readClosed, writeClosed, status = "destroyed">>
      OBVIOUS
    <2> DEFINE SidesClose == /\ status # "destroyed" \/ (readClosed /\ writeClosed)
                             /\ (status = "destroyed") <=> (status' = "destroyed")
                             /\ readClosed => readClosed'
                             /\ writeClosed => writeClosed'
    <2>1. CASE SidesClose
      BY <2>1 DEF Sides!Next, Sides!CloseSides
    <2>2. CASE EndDestroy
      BY <2>2 DEF EndDestroy, MayEnd, Sides!Next, Sides!Destroy
    <2>3. ASSUME Datagram PROVE SidesClose
      BY <2>3 DEF Datagram, Read, Write, CloseRead, CloseWrite, Received, Credited
    <2>4. ASSUME Pull \/ PullResumes PROVE SidesClose
      BY <2>4 DEF Pull, PullResumes, Receive
    <2>5. ASSUME Consume \/ UserCancelsRead PROVE SidesClose
      BY <2>5 DEF Consume, UserCancelsRead, CancelRead, CloseRead
    <2>6. ASSUME WriteChunk \/ WriterResumes PROVE SidesClose
      BY <2>6 DEF WriteChunk, WriterResumes, Send
    <2>7. ASSUME NEW how \in {"close", "abort"}, EndWritable(how) PROVE SidesClose
      BY <2>7 DEF EndWritable
    <2>8. ASSUME WritableEnds PROVE SidesClose
      BY <2>8 DEF WritableEnds, CloseWrite
    <2>9. ASSUME Cancel PROVE SidesClose
      BY <2>9 DEF Cancel, CancelBoth, CancelRead, AbortWrite, CloseRead, CloseWrite
    <2>10. ASSUME NEW force \in BOOLEAN, BeginDestroy(force) PROVE SidesClose
      <3>1. CASE force /\ ~ Closed
        BY <2>10, <3>1 DEF BeginDestroy, CancelBoth, CancelRead, AbortWrite,
                           CloseRead, CloseWrite
      <3>2. CASE ~ (force /\ ~ Closed)
        BY <2>10, <3>2 DEF BeginDestroy
      <3>3. QED
        BY <3>1, <3>2
    <2>11. ASSUME UNCHANGED vars PROVE SidesClose
      BY <2>11
    <2>12. QED
      BY <2>1, <2>2, <2>3, <2>4, <2>5, <2>6, <2>7, <2>8, <2>9, <2>10, <2>11 DEF Next
  <1> HIDE DEF StreamInv, vars
  <1>3. QED
    BY <1>1, <1>2, StreamInvInit, StreamInvStep, PTL DEF Spec, RefinesSides, Sides!Spec
=============================================================================
