----------------------------- MODULE QUICStream -----------------------------
(***************************************************************************)
(* One QUICStream between three parties: the user at its web streams       *)
(* readable and writable, the quiche stream it reads from and writes to,   *)
(* and the QUICConnection, whose processStreams calls read and write after *)
(* a datagram and whose stop destroys it.                                  *)
(*                                                                         *)
(* readablePull and writableWrite block on promises that read and write    *)
(* resolve or reject.  A promise that was resolved lets the blocked call   *)
(* go on only in a later microtask ("resumed"): code that runs before it,  *)
(* such as a listener of EventQUICConnectionStream that processStreams     *)
(* dispatches in between, may cancel the stream.                           *)
(***************************************************************************)
CONSTANTS Initiated,    \* "local" or "peer"
          Type          \* "bidi" or "uni"

ASSUME StreamAssumption ==
    /\ Initiated \in {"local", "peer"}
    /\ Type \in {"bidi", "uni"}

VARIABLES
    readClosed,   \* _readClosed
    writeClosed,  \* _writeClosed
    status,       \* of CreateDestroy: created, destroying or destroyed
    pull,         \* readablePull: idle, blocked on readableP, or resumed
    buffered,     \* the readable holds a chunk, its high water mark
    writer,       \* writableWrite: idle, blocked on writableP, or resumed
    ending,       \* the user has closed or aborted writable: none, close, abort
    rq,           \* quiche, what streamRecv would give, see Reads
    wq,           \* quiche, what streamSend would do, see Writes
    internal,     \* sides on which ErrorQUICStreamInternal was raised (history)
    overtaken     \* sides cancelled between resolve and resume (history)

reading == <<readClosed, pull, buffered, rq>>
writing == <<writeClosed, writer, ending, wq>>
vars == <<reading, writing, status, internal, overtaken>>

\* Nothing yet, data, data and the fin, only the fin, a RESET_STREAM; done is a
\* receiving side that has ended.
Reads == {"open", "data", "data+fin", "fin", "reset", "done"}

\* Capacity, none, a STOP_SENDING; done is a sending side that has ended.
Writes == {"room", "full", "stopped", "done"}

HasRead == Type = "bidi" \/ Initiated = "peer"
HasWrite == Type = "bidi" \/ Initiated = "local"

\* createQUICStream: the side that a unidirectional stream has not is closed.
\* A stream of the peer exists because of what the peer did to it.
Init ==
    /\ readClosed = ~ HasRead
    /\ writeClosed = ~ HasWrite
    /\ status = "created"
    /\ pull = "idle"
    /\ buffered = FALSE
    /\ writer = "idle"
    /\ ending = "none"
    /\ rq \in IF ~ HasRead THEN {"done"}
              ELSE IF Initiated = "local" THEN {"open"} ELSE Reads \ {"done"}
    /\ wq \in IF ~ HasWrite THEN {"done"}
              ELSE IF Initiated = "local" THEN {"room"} ELSE {"room", "stopped"}
    /\ internal = {}
    /\ overtaken = {}

Closed == readClosed /\ writeClosed

-----------------------------------------------------------------------------
(* The effects on one side, each as a whole.                               *)

\* A plausible bug: a blocked pull is resolved when its side closes, like one
\* that has data.
PullAfterCloseResolved == IF pull = "blocked" THEN "resumed" ELSE pull

\* rejectReadableP: nothing to a promise that has been resolved.
PullAfterClose == IF pull = "blocked" THEN "idle" ELSE pull

\* A plausible bug: quiche is not told that the readable has closed.
CloseReadOnlyHere ==
    /\ readClosed' = TRUE
    /\ UNCHANGED rq
    /\ pull' = PullAfterClose

\* The readable side closes, and what quiche holds for it is dropped.
CloseRead ==
    /\ readClosed' = TRUE
    /\ rq' = "done"
    /\ pull' = PullAfterClose

\* rejectWritableP
WriterAfterClose == IF writer = "blocked" THEN "idle" ELSE writer

\* The writable side closes; left is what quiche makes of its own side.
CloseWrite(left) ==
    /\ writeClosed' = TRUE
    /\ wq' = left
    /\ writer' = WriterAfterClose

\* The side is cancelled while its call is resumed.
Overtakes(side) ==
    IF (side = "read" /\ pull = "resumed") \/ (side = "write" /\ writer = "resumed")
    THEN {side} ELSE {}

\* readableCancel; also the first half of cancel.
CancelRead ==
    IF readClosed THEN UNCHANGED reading
    ELSE CloseRead /\ buffered' = FALSE

\* writableAbort; also the second half of cancel.
AbortWrite ==
    IF writeClosed THEN UNCHANGED <<writeClosed, writer, wq>>
    ELSE CloseWrite("done")

-----------------------------------------------------------------------------
(* A datagram, and processStreams for this stream.                         *)

\* read(): a fin or a reset closes the readable at once, data resolves
\* readableP.
Read(r) ==
    CASE r \in {"fin", "reset"} ->
            CloseRead /\ buffered' = (buffered /\ r = "fin")
      [] r \in {"data", "data+fin"} ->
            /\ rq' = r
            /\ pull' = IF pull = "blocked" THEN "resumed" ELSE pull
            /\ UNCHANGED <<readClosed, buffered>>
      [] r \in {"open", "done"} ->
            /\ rq' = r
            /\ UNCHANGED <<readClosed, pull, buffered>>

\* A plausible bug: a writer is woken only by an error.
WriterAfterCreditAsleep == writer

\* resolveWritableP
WriterAfterCredit == IF writer = "blocked" THEN "resumed" ELSE writer

\* write(): a stopped side is shut down in quiche, capacity resolves writableP.
Write(w) ==
    /\ UNCHANGED ending
    /\ CASE w = "stopped" -> CloseWrite("done")
         [] w = "room" ->
               /\ wq' = w
               /\ writer' = WriterAfterCredit
               /\ UNCHANGED writeClosed
         [] w \in {"full", "done"} ->
               /\ wq' = w
               /\ UNCHANGED <<writeClosed, writer>>

\* What the frames of a datagram can make of quiche's two sides.
Received(r) ==
    CASE r = "open" -> {"open", "data", "data+fin", "fin", "reset"}
      [] r = "data" -> {"data", "data+fin", "reset"}
      [] r = "data+fin" -> {"data+fin", "reset"}
      [] OTHER -> {r}

Credited(w) ==
    CASE w = "room" -> {"room", "stopped"}
      [] w = "full" -> {"full", "room", "stopped"}
      [] OTHER -> {w}

\* recv of the connection is a task of its own: nothing is resumed then.
Datagram ==
    /\ status # "destroyed"
    /\ pull # "resumed"
    /\ writer # "resumed"
    /\ \E r \in Received(rq) : Read(r)
    /\ \E w \in Credited(wq) : Write(w)
    /\ UNCHANGED <<status, internal, overtaken>>

-----------------------------------------------------------------------------
(* The readable.                                                           *)

\* streamRecv and what follows it.  The chunk may leave some data in quiche.
Receive ==
    \/ /\ rq = "data"
       /\ buffered' = TRUE
       /\ rq' \in {"open", "data"}
       /\ pull' = "idle"
       /\ UNCHANGED <<readClosed, internal>>
    \/ /\ rq = "data+fin"
       /\ buffered' = TRUE
       /\ rq' = "data+fin"
       /\ pull' = "idle"
       /\ UNCHANGED <<readClosed, internal>>
    \/ /\ rq \in {"data+fin", "fin", "reset"}
       /\ readClosed' = TRUE
       /\ rq' = "done"
       /\ pull' = "idle"
       /\ buffered' = (rq = "data+fin")
       /\ UNCHANGED internal
    \/ /\ rq \in {"open", "done"}
       /\ internal' = internal \cup {"read"}
       /\ pull' = "idle"
       /\ UNCHANGED <<readClosed, buffered, rq>>

\* The readable wants a chunk and calls readablePull.
Pull ==
    /\ ~ readClosed
    /\ pull = "idle"
    /\ ~ buffered
    /\ IF rq = "open"
       THEN pull' = "blocked" /\ UNCHANGED <<readClosed, buffered, rq, internal>>
       ELSE Receive
    /\ UNCHANGED <<writing, status, overtaken>>

\* readablePull goes on after readableP.
PullResumes ==
    /\ pull = "resumed"
    /\ Receive
    /\ UNCHANGED <<writing, status, overtaken>>

\* The user's reader takes the chunk.
Consume ==
    /\ buffered
    /\ buffered' = FALSE
    /\ UNCHANGED <<readClosed, pull, rq, writing, status, internal, overtaken>>

\* readable.cancel()
UserCancelsRead ==
    /\ ~ readClosed
    /\ CancelRead
    /\ overtaken' = overtaken \cup Overtakes("read")
    /\ UNCHANGED <<writing, status, internal>>

-----------------------------------------------------------------------------
(* The writable.                                                           *)

\* One round of the loop of writableWrite: all is taken, or less than the
\* chunk and the writer blocks; a stopped side closes and stays so in quiche.
Send ==
    /\ UNCHANGED ending
    /\ \/ /\ wq = "room"
          /\ wq' \in {"room", "full"}
          /\ writer' = "idle"
          /\ UNCHANGED <<writeClosed, internal>>
       \/ /\ wq \in {"room", "full"}
          /\ wq' = "full"
          /\ writer' = "blocked"
          /\ UNCHANGED <<writeClosed, internal>>
       \/ /\ wq = "stopped"
          /\ writeClosed' = TRUE
          /\ writer' = "idle"
          /\ UNCHANGED <<wq, internal>>
       \/ /\ wq = "done"
          /\ internal' = internal \cup {"write"}
          /\ writer' = "idle"
          /\ UNCHANGED <<writeClosed, wq>>

\* The user writes a chunk that is not empty.
WriteChunk ==
    /\ ~ writeClosed
    /\ writer = "idle"
    /\ ending = "none"
    /\ Send
    /\ UNCHANGED <<reading, status, overtaken>>

\* writableWrite goes on after writableP.
WriterResumes ==
    /\ writer = "resumed"
    /\ Send
    /\ UNCHANGED <<reading, status, overtaken>>

\* writable.close() or writable.abort().
EndWritable(how) ==
    /\ ~ writeClosed
    /\ ending = "none" \/ (ending = "close" /\ how = "abort")
    /\ ending' = how
    /\ UNCHANGED <<reading, writeClosed, writer, wq, status, internal, overtaken>>

\* The writable calls writableClose or writableAbort when no write is in
\* flight.  The fin is sent unless the peer has stopped the side.
WritableEnds ==
    /\ ~ writeClosed
    /\ ending # "none"
    /\ writer = "idle"
    /\ IF ending = "close" /\ wq = "stopped" THEN CloseWrite("stopped") ELSE CloseWrite("done")
    /\ UNCHANGED <<reading, ending, status, internal, overtaken>>

-----------------------------------------------------------------------------
(* cancel and destroy.                                                     *)

CancelBoth ==
    /\ CancelRead
    /\ AbortWrite
    /\ UNCHANGED ending
    /\ overtaken' = overtaken \cup (IF readClosed THEN {} ELSE Overtakes("read"))
                              \cup (IF writeClosed THEN {} ELSE Overtakes("write"))

\* cancel() by the user or by destroyStreams.
Cancel ==
    /\ status # "destroyed"
    /\ ~ Closed
    /\ CancelBoth
    /\ UNCHANGED <<status, internal>>

\* destroy, by its user or by stop of the connection, or by the handler that
\* finds both sides closed.
BeginDestroy(force) ==
    /\ status = "created"
    /\ status' = "destroying"
    /\ IF force /\ ~ Closed THEN CancelBoth ELSE UNCHANGED <<reading, writing, overtaken>>
    /\ UNCHANGED internal

\* Plausible bugs: destroy does not wait for the writable side, or an abort does
\* not resolve closedP.
MayEndEarly == readClosed
MayEndUnaborted == Closed /\ ending # "abort"

\* closedP
MayEnd == Closed

EndDestroy ==
    /\ status = "destroying"
    /\ MayEnd
    /\ status' = "destroyed"
    /\ UNCHANGED <<reading, writing, internal, overtaken>>

Next ==
    \/ Datagram
    \/ Pull
    \/ PullResumes
    \/ Consume
    \/ UserCancelsRead
    \/ WriteChunk
    \/ WriterResumes
    \/ \E how \in {"close", "abort"} : EndWritable(how)
    \/ WritableEnds
    \/ Cancel
    \/ \E force \in BOOLEAN : BeginDestroy(force)
    \/ EndDestroy

Spec == Init /\ [][Next]_vars

(***************************************************************************)
(* Promises that were resolved go on, the web streams call their sinks,    *)
(* the stream destroys itself once closed, and the peer eventually grants  *)
(* credit to, or stops, a side that is full.  A chunk is finite: a writer  *)
(* that gets credit again and again has sent all of it in the end.         *)
(***************************************************************************)
FairSpec ==
    /\ Spec
    /\ WF_vars(PullResumes)
    /\ WF_vars(WriterResumes)
    /\ SF_vars(WriterResumes /\ writer' = "idle")
    /\ WF_vars(WritableEnds)
    /\ WF_vars(BeginDestroy(FALSE) /\ Closed)
    /\ WF_vars(EndDestroy)
    /\ SF_vars(Datagram /\ wq = "full" /\ wq' # "full")

-----------------------------------------------------------------------------

\* The ranges; a closed side has no call blocked on its promise, since nothing
\* would settle it any more.
TypeOK ==
    /\ readClosed \in BOOLEAN
    /\ writeClosed \in BOOLEAN
    /\ status \in {"created", "destroying", "destroyed"}
    /\ pull \in {"idle", "blocked", "resumed"}
    /\ buffered \in BOOLEAN
    /\ writer \in {"idle", "blocked", "resumed"}
    /\ ending \in {"none", "close", "abort"}
    /\ rq \in Reads
    /\ wq \in Writes
    /\ internal \subseteq {"read", "write"}
    /\ overtaken \subseteq {"read", "write"}
    /\ readClosed => pull # "blocked"
    /\ writeClosed => writer # "blocked"

(***************************************************************************)
(* No wake-up is lost: a pull sleeps only while quiche has nothing for it, *)
(* a writer only while quiche takes nothing from it.                       *)
(***************************************************************************)
SleepsOnlyWithReason ==
    /\ pull = "blocked" => rq = "open"
    /\ writer = "blocked" => wq = "full"

(***************************************************************************)
(* The two views of a side agree: one that has closed here has ended in    *)
(* quiche, or has been stopped by the peer there, and the other way round. *)
(* So a destroyed stream leaves nothing that quiche would report as        *)
(* readable, or as writable without an error.                              *)
(***************************************************************************)
SidesAgree ==
    /\ readClosed <=> rq = "done"
    /\ writeClosed => wq \in {"done", "stopped"}
    /\ wq = "done" => writeClosed

(***************************************************************************)
(* An internal error, which becomes an uncaught exception, is raised only  *)
(* when a cancellation came between the resolving of a promise and the     *)
(* call that had awaited it.                                               *)
(***************************************************************************)
InternalOnlyIfOvertaken == internal \subseteq overtaken

Sides == INSTANCE StreamSides WITH destroyed <- (status = "destroyed")

\* What the connection relies on: sides close for good, and destroyed is final
\* and comes after both.
RefinesSides == Sides!Spec

(***************************************************************************)
(* A writable that is closed or aborted ends, once the peer grants credit  *)
(* or stops it, though a write may be in flight; and a stream that has     *)
(* closed destroys itself, and so leaves streamMap.                        *)
(***************************************************************************)
EndingsComplete ==
    /\ ending # "none" ~> writeClosed
    /\ Closed ~> status = "destroyed"
=============================================================================
