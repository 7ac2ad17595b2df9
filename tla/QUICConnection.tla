--------------------------- MODULE QUICConnection ---------------------------
(***************************************************************************)
(* The life of one QUICConnection: start, the verification of the peer,    *)
(* recv and send, connTimeoutTimer, and the closing that errors or stop    *)
(* bring about, against the state of the quiche connection it wraps.       *)
(*                                                                         *)
(* A JavaScript handler runs to its next await without interruption, and   *)
(* dispatchEvent calls listeners in place.  agenda holds the calls that    *)
(* remain of the stretch that runs; the model takes one step per call and  *)
(* nothing else happens until agenda is empty.                             *)
(***************************************************************************)
EXTENDS Naturals, Sequences, FiniteSets

CONSTANTS Configs,        \* what connections are constructed with, see config
          MaxDatagrams,   \* bound on the datagrams that arrive
          MaxStops        \* bound on the calls of stop by the user

ASSUME ConnectionAssumption ==
    /\ Configs \subseteq [side : {"client", "server"}, verifies : BOOLEAN,
                           idles : BOOLEAN]
    /\ MaxDatagrams \in Nat
    /\ MaxStops \in Nat

VARIABLES
    config,      \* this.type, and what matters of the QUICConfig
    phase,       \* StartStop: running and status together, see Phases
    at,          \* the await that start or stop is at, see Awaits
    stops,       \* the force of the stop calls behind initLock
    forced,      \* the streams are destroyed by force in this stop
    aborted,     \* the signal given to start has aborted
    secure,      \* secureEstablished
    secureP,     \* secureEstablishedP
    closedP,     \* closedP has resolved
    closeHeard,  \* handleEventQUICConnectionClose ran: it is registered once
    missed,      \* and it did not go on to stop the connection: it ran when
                 \* secure but not running yet, or its send threw (history)
    cutShort,    \* recv or send threw, and no send went through since (history)
    timer,       \* status of connTimeoutTimer, "none" if there is no timer
    locked,      \* recvLock is held
    queued,      \* datagrams behind recvLock
    verifying,   \* callers of send that await verifyCallback
    agenda,      \* calls left of the stretch that runs
    arrived,     \* number of datagrams so far
    q,           \* quiche: open, closing (not yet sent), draining, closed
    received,    \* quiche: a packet was processed
    established, \* quiche: isEstablished
    peerError,   \* quiche: peerError # null
    timedOut     \* quiche: isTimedOut

startStop == <<config, phase, at, stops, forced, aborted>>
promises == <<secure, secureP, closedP, closeHeard, missed, cutShort>>
work == <<locked, queued, verifying, agenda, arrived>>
quiche == <<q, received, established, peerError, timedOut>>
vars == <<startStop, promises, timer, work, quiche>>

Side == config.side

\* verifyPeer with a verifyCallback, and a maxIdleTimeout that is not 0.
HasVerifyCallback == config.verifies
HasIdleTimeout == config.idles

\* "refused" and "failed" are starts that threw, before and after they waited.
Phases == {"new", "refused", "starting", "failed", "running", "stopping", "stopped"}
Awaits == {"none", "secure", "streams", "closed"}

Kinds == {"data", "handshake", "close", "handshake+close", "bad", "internal"}
Callers == {"start", "recv", "timer", "close", "other"}

Send(by) == [call |-> "send", by |-> by]
Done(by) == [call |-> "done", by |-> by]
Error(of) == [call |-> "error", by |-> of]
Calls == {Send(by) : by \in Callers} \cup {Done(by) : by \in Callers}
            \cup {Error(of) : of \in {"local", "remote"}}

\* An await of start or stop, or of a stop behind initLock, may go on.
Resuming ==
    \/ at = "secure" /\ secureP # "pending"
    \/ at = "closed" /\ closedP
    \/ phase \in {"running", "stopped", "failed"} /\ stops # <<>>

\* Nothing runs and no await goes on, which the event loop runs to the end
\* before it takes the next datagram, timer or user call.
Quiet == agenda = <<>> /\ ~ Resuming

Init ==
    /\ config \in Configs
    /\ phase = "new"
    /\ at = "none"
    /\ stops = <<>>
    /\ forced = FALSE
    /\ aborted = FALSE
    /\ secure = FALSE
    /\ secureP = "pending"
    /\ closedP = FALSE
    /\ closeHeard = FALSE
    /\ missed = FALSE
    /\ cutShort = FALSE
    /\ timer = "none"
    /\ locked = FALSE
    /\ queued = 0
    /\ verifying = {}
    /\ agenda = <<>>
    /\ arrived = 0
    /\ q = "open"
    /\ received = FALSE
    /\ established = FALSE
    /\ peerError = FALSE
    /\ timedOut = FALSE

-----------------------------------------------------------------------------
(* quiche.                                                                 *)

\* conn.close: nothing to tell a peer no packet came from.
CloseQuiche == q' = IF q # "open" THEN q ELSE IF received THEN "closing" ELSE "closed"

\* A datagram completes the handshake, closes the connection, does both, or
\* makes recv throw, with a local error ("bad") or without one ("internal").
\* A connection that is not open skips it.
Feed(kind) ==
    IF q # "open" \/ kind = "internal" THEN UNCHANGED quiche
    ELSE /\ CASE kind = "bad" -> CloseQuiche
              [] kind \in {"close", "handshake+close"} -> q' = "draining"
              [] OTHER -> q' = "open"
         /\ established' = (established \/ kind \in {"handshake", "handshake+close"})
         /\ peerError' = (kind \in {"close", "handshake+close"})
         /\ received' = (received \/ kind # "bad")
         /\ UNCHANGED timedOut

-----------------------------------------------------------------------------
(* recv.                                                                   *)

Thrown(kind) == q = "open" /\ kind \in {"bad", "internal"}

\* A plausible bug: the return on a local error leaves recvLock held.
FailUnreleased(kind, rest) ==
    /\ agenda' = (IF kind = "bad" THEN <<Error("local")>> ELSE <<Done("recv")>>) \o rest
    /\ cutShort' = (cutShort \/ kind = "internal")
    /\ UNCHANGED <<secure, secureP>>

\* conn.recv throws.  A local error is dispatched and recv returns; an
\* internal one recv throws again.
Fail(kind, rest) ==
    /\ agenda' = (IF kind = "bad" THEN <<Error("local")>> ELSE <<>>)
                     \o <<Done("recv")>> \o rest
    /\ cutShort' = (cutShort \/ kind = "internal")
    /\ UNCHANGED <<secure, secureP>>

\* Unless the connection runs, processStreams refuses new streams, and the
\* refusal of a unidirectional one throws.
ProcessMayThrow == phase # "running"

\* conn.recv returns: the connection may become secure, and then its streams
\* are processed.  A send (sends) follows unless that throws.
Process(sends, rest) ==
    /\ secure' = (secure \/ (established' /\ ~ HasVerifyCallback))
    /\ secureP' = IF secure' /\ secureP = "pending" THEN "resolved" ELSE secureP
    /\ \/ /\ agenda' = sends \o rest
          /\ UNCHANGED cutShort
       \/ /\ secure' /\ ProcessMayThrow
          /\ agenda' = <<Done("recv")>> \o rest
          /\ cutShort' = TRUE

\* What recv does under recvLock.
Deliver(kind, sends, rest) ==
    /\ Feed(kind)
    /\ IF Thrown(kind) THEN Fail(kind, rest) ELSE Process(sends, rest)

\* The socket calls recv, which waits while recvLock is held.
recv(kind) ==
    /\ Quiet
    /\ phase \in {"starting", "running", "stopping"}
    /\ arrived < MaxDatagrams
    /\ arrived' = arrived + 1
    /\ IF locked
       THEN /\ queued' = queued + 1
            /\ UNCHANGED <<secure, secureP, cutShort, locked, agenda, quiche>>
       ELSE /\ locked' = TRUE
            /\ Deliver(kind, <<Send("recv")>>, <<>>)
            /\ UNCHANGED queued
    /\ UNCHANGED <<startStop, closedP, closeHeard, missed, timer, verifying>>

\* recv returns, and releases recvLock to the next one.
RecvDone ==
    /\ agenda # <<>> /\ Head(agenda) = Done("recv")
    /\ IF queued > 0
       THEN /\ queued' = queued - 1
            /\ \E kind \in Kinds : Deliver(kind, <<Send("recv")>>, Tail(agenda))
            /\ UNCHANGED locked
       ELSE /\ locked' = FALSE
            /\ agenda' = Tail(agenda)
            /\ UNCHANGED <<secure, secureP, cutShort, queued, quiche>>
    /\ UNCHANGED <<startStop, closedP, closeHeard, missed, timer, verifying, arrived>>

-----------------------------------------------------------------------------
(* send and connTimeoutTimer.                                              *)

\* conn.timeout() after a send: quiche has no timeout once it is closed, and
\* may have none before it drains if there is no idle timeout.
NoTimeout(state) ==
    IF state = "closed" THEN {TRUE}
    ELSE IF state # "draining" /\ ~ HasIdleTimeout THEN BOOLEAN
    ELSE {FALSE}

\* setConnTimeoutTimer: a timer whose handler runs will create itself again.
TimerAfterSend(none) ==
    IF none THEN "none"
    ELSE IF timer \in {"none", "settled"} THEN "armed"
    ELSE timer

\* A plausible bug: the state of quiche is not asked for.
MustVerifyAlways(state) == HasVerifyCallback /\ ~ secure /\ established

\* The condition on which send awaits verifyCallback.
MustVerify(state) ==
    HasVerifyCallback /\ ~ secure /\ established /\ state = "open"

\* send: flush, set the timer, resolve closedP if quiche is closed, then
\* verify the peer or report its error.
send(by) ==
    LET flushed == IF q = "closing" THEN "draining" ELSE q
        idle == IF flushed = "closed" /\ timedOut THEN <<Error("remote")>> ELSE <<>>
        peer == IF peerError /\ phase # "stopping" THEN <<Error("remote")>> ELSE <<>>
    IN
    /\ agenda # <<>> /\ Head(agenda) = Send(by)
    /\ phase \notin {"stopped", "failed"}
    /\ q' = flushed
    /\ cutShort' = FALSE
    /\ \E none \in NoTimeout(flushed) : timer' = TimerAfterSend(none)
    /\ closedP' = (closedP \/ flushed = "closed")
    /\ IF MustVerify(flushed)
       THEN /\ verifying' = verifying \cup {by}
            /\ agenda' = Tail(agenda)
       ELSE /\ agenda' = idle \o peer \o <<Done(by)>> \o Tail(agenda)
            /\ UNCHANGED verifying
    /\ UNCHANGED <<startStop, secure, secureP, closeHeard, missed, locked, queued,
                   arrived, received, established, peerError, timedOut>>

\* A plausible bug: the handler sets itself up again only while quiche is open.
TimerAfterTickOpen(none) ==
    IF ~ none /\ q = "open" THEN "armed" ELSE IF timer = "settling" THEN "settled" ELSE timer

\* The handler's end, with conn.timeout() null (none) or not.
TimerAfterTick(none) ==
    IF ~ none THEN "armed" ELSE IF timer = "settling" THEN "settled" ELSE timer

\* @ready refuses send: it throws ErrorQUICConnectionNotRunning to its caller.
SendRefused(by) ==
    /\ agenda # <<>> /\ Head(agenda) = Send(by)
    /\ phase \in {"stopped", "failed"}
    /\ agenda' = <<Done(by)>> \o Tail(agenda)
    /\ UNCHANGED <<startStop, promises, timer, locked, queued, verifying, arrived, quiche>>

\* What its caller does when send throws: recv and the timer's handler end
\* with it, the timer without setting itself up again.
Unwind(by) ==
    /\ cutShort' = TRUE
    /\ agenda' = (IF by = "recv" THEN <<Done("recv")>> ELSE <<>>)
                     \o (IF agenda = <<>> THEN <<>> ELSE Tail(agenda))
    /\ timer' = IF by = "timer" THEN TimerAfterTick(TRUE) ELSE timer

\* conn.send throws an internal error before the timer is set.  It leaves
\* start, and the close handler before it considers the stop.
SendThrows(by) ==
    /\ agenda # <<>> /\ Head(agenda) = Send(by)
    /\ phase \notin {"stopped", "failed"}
    /\ q \in {"open", "closing"}
    /\ Unwind(by)
    /\ phase' = IF by = "start" THEN "refused" ELSE phase
    /\ at' = IF by = "start" THEN "none" ELSE at
    /\ missed' = (missed \/ by = "close")
    /\ UNCHANGED <<config, stops, forced, aborted, secure, secureP, closedP, closeHeard,
                   locked, queued, verifying, arrived, quiche>>

\* verifyCallback accepts: the connection is secure, its streams are
\* processed, and unless that throws send goes on in its caller.
Accept(by) ==
    /\ secure' = TRUE
    /\ secureP' = IF secureP = "pending" THEN "resolved" ELSE secureP
    /\ \/ /\ agenda' = IF peerError /\ phase # "stopping"
                       THEN <<Error("remote"), Done(by)>> ELSE <<Done(by)>>
          /\ UNCHANGED <<timer, cutShort>>
       \/ ProcessMayThrow /\ Unwind(by)
    /\ UNCHANGED q

\* It refuses: quiche is closed and send returns.
Reject(by) ==
    /\ CloseQuiche
    /\ agenda' = <<Error("local"), Done(by)>>
    /\ UNCHANGED <<secure, secureP, timer, cutShort>>

\* verifyCallback answers.
VerifyDone(by, accepts) ==
    /\ agenda = <<>>
    /\ by \in verifying
    /\ verifying' = verifying \ {by}
    /\ IF accepts THEN Accept(by) ELSE Reject(by)
    /\ UNCHANGED <<startStop, closedP, closeHeard, missed, locked, queued,
                   arrived, received, established, peerError, timedOut>>

\* connTimeoutHandler when onTimeout closes quiche: the draining ends, or the
\* idle timeout passed.
TickClosed ==
    /\ Quiet
    /\ timer = "armed"
    /\ q \in {"open", "closing"} => HasIdleTimeout
    /\ q' = "closed"
    /\ timedOut' = (timedOut \/ q \in {"open", "closing"})
    /\ closedP' = TRUE
    /\ timer' = "settled"
    /\ agenda' = IF timedOut' THEN <<Error("remote")>> ELSE <<>>
    /\ UNCHANGED <<startStop, secure, secureP, closeHeard, missed, cutShort, locked, queued,
                   verifying, arrived, received, established, peerError>>

\* The handler when quiche only has something to send.
Tick ==
    /\ Quiet
    /\ timer = "armed"
    /\ "timer" \notin verifying
    /\ q \in {"open", "closing"}
    /\ timer' = "settling"
    /\ agenda' = <<Send("timer")>>
    /\ UNCHANGED <<startStop, promises, locked, queued, verifying, arrived, quiche>>

TickDone ==
    /\ agenda # <<>> /\ Head(agenda) = Done("timer")
    /\ \E none \in NoTimeout(q) : timer' = TimerAfterTick(none)
    /\ agenda' = Tail(agenda)
    /\ UNCHANGED <<startStop, promises, locked, queued, verifying, arrived, quiche>>

\* A stream or the keep alive timer calls send.
OtherSend ==
    /\ Quiet
    /\ phase \in {"running", "stopping"}
    /\ at # "closed"
    /\ agenda' = <<Send("other")>>
    /\ UNCHANGED <<startStop, promises, timer, locked, queued, verifying, arrived, quiche>>

\* Nothing follows the send in these callers.
OtherDone(by) ==
    /\ by \in {"start", "other"}
    /\ agenda # <<>> /\ Head(agenda) = Done(by)
    /\ agenda' = Tail(agenda)
    /\ UNCHANGED <<startStop, promises, timer, locked, queued, verifying, arrived, quiche>>

-----------------------------------------------------------------------------
(* handleEventQUICConnectionError and handleEventQUICConnectionClose.      *)

\* A local close has its last send first; then the stop is considered.
AfterClose(of) == IF of = "local" THEN <<Send("close")>> ELSE <<Done("close")>>

HandleError(of) ==
    /\ agenda # <<>> /\ Head(agenda) = Error(of)
    /\ closeHeard' = TRUE
    /\ IF closeHeard
       THEN /\ agenda' = Tail(agenda)
            /\ UNCHANGED <<secureP, missed>>
       ELSE /\ agenda' = AfterClose(of) \o Tail(agenda)
            /\ secureP' = IF ~ secure /\ secureP = "pending" THEN "rejected" ELSE secureP
            /\ missed' = (secure /\ phase = "starting")
    /\ UNCHANGED <<startStop, secure, closedP, cutShort, timer, locked, queued, verifying,
                   arrived, quiche>>

\* A plausible bug: a connection whose peer closed it is left running.
MustStopLocal == phase = "running" /\ ~ peerError

\* running and not 'stopping'
MustStop == phase = "running"

CloseDone ==
    /\ agenda # <<>> /\ Head(agenda) = Done("close")
    /\ agenda' = Tail(agenda)
    /\ stops' = IF MustStop THEN Append(stops, TRUE) ELSE stops
    /\ UNCHANGED <<config, phase, at, forced, aborted, promises, timer, locked, queued,
                   verifying, arrived, quiche>>

-----------------------------------------------------------------------------
(* start.                                                                  *)

\* start throws at once: its signal has aborted, or a server has no data.
StartRefused ==
    /\ phase = "new"
    /\ phase' = "refused"
    /\ aborted' \in (IF Side = "client" THEN {TRUE} ELSE BOOLEAN)
    /\ UNCHANGED <<config, at, stops, forced, promises, timer, work, quiche>>

\* start of a client sends the first flight.
StartClient ==
    /\ Side = "client"
    /\ phase = "new"
    /\ phase' = "starting"
    /\ at' = "secure"
    /\ agenda' = <<Send("start")>>
    /\ UNCHANGED <<config, stops, forced, aborted, promises, timer, locked, queued,
                   verifying, arrived, quiche>>

\* start of a server passes the client's first datagram to recv, and throws
\* what recv throws.
StartServer ==
    /\ Side = "server"
    /\ phase = "new"
    /\ locked' = TRUE
    /\ \E kind \in {"data", "close", "bad", "internal"} :
          /\ Deliver(kind, <<Send("start"), Done("recv")>>, <<>>)
          /\ phase' = IF kind = "internal" THEN "refused" ELSE "starting"
          /\ at' = IF kind = "internal" THEN "none" ELSE "secure"
    /\ UNCHANGED <<config, stops, forced, aborted, closedP, closeHeard, missed, timer, queued,
                   verifying, arrived>>

\* The race of secureEstablishedP and abortP: secure, and start returns.
Started ==
    /\ agenda = <<>>
    /\ at = "secure" /\ secureP = "resolved"
    /\ phase' = "running"
    /\ at' = "none"
    /\ UNCHANGED <<config, stops, forced, aborted, promises, timer, work, quiche>>

\* secureEstablishedP rejected: start waits for closedP before it throws.
StartRejected ==
    /\ agenda = <<>>
    /\ at = "secure" /\ secureP = "rejected"
    /\ at' = "closed"
    /\ UNCHANGED <<config, phase, stops, forced, aborted, promises, timer, work, quiche>>

\* The signal aborts: start closes quiche and dispatches a local error.
StartAborted ==
    /\ Quiet
    /\ at = "secure"
    /\ aborted' = TRUE
    /\ at' = "closed"
    /\ CloseQuiche
    /\ agenda' = <<Error("local")>>
    /\ UNCHANGED <<config, phase, stops, forced, promises, timer, locked, queued, verifying,
                   arrived, received, established, peerError, timedOut>>

StartFailed ==
    /\ agenda = <<>>
    /\ phase = "starting"
    /\ at = "closed"
    /\ closedP
    /\ phase' = "failed"
    /\ at' = "none"
    /\ UNCHANGED <<config, stops, forced, aborted, promises, timer, work, quiche>>

-----------------------------------------------------------------------------
(* stop.                                                                   *)

\* The user calls stop, which queues behind the start or stop that runs.
CallStop(force) ==
    /\ Quiet
    /\ phase \in {"starting", "running", "stopping"}
    /\ Len(stops) < MaxStops
    /\ stops' = Append(stops, force)
    /\ UNCHANGED <<config, phase, at, forced, aborted, promises, timer, work, quiche>>

\* stop has initLock: it begins, or returns at once if this is not running.
BeginStop ==
    /\ agenda = <<>>
    /\ stops # <<>>
    /\ phase \in {"running", "stopped", "failed"}
    /\ stops' = Tail(stops)
    /\ IF phase = "running"
       THEN /\ phase' = "stopping"
            /\ at' = "streams"
            /\ forced' = (Head(stops) \/ q \in {"draining", "closed"})
       ELSE UNCHANGED <<phase, at, forced>>
    /\ UNCHANGED <<config, aborted, promises, timer, work, quiche>>

\* All streams are destroyed; quiche is closed unless it is so already.
StreamsDestroyed ==
    /\ Quiet
    /\ at = "streams"
    /\ at' = "closed"
    /\ CloseQuiche
    /\ agenda' = IF q \in {"draining", "closed"} THEN <<>> ELSE <<Error("local")>>
    /\ UNCHANGED <<config, phase, stops, forced, aborted, promises, timer, locked, queued,
                   verifying, arrived, received, established, peerError, timedOut>>

\* A plausible bug: stop returns as soon as quiche is draining.
MayEndDraining == q \in {"draining", "closed"}

\* stop returns once closedP has resolved.
MayEnd == closedP

Stopped ==
    /\ agenda = <<>>
    /\ phase = "stopping"
    /\ at = "closed"
    /\ MayEnd
    /\ phase' = "stopped"
    /\ at' = "none"
    /\ UNCHANGED <<config, stops, forced, aborted, promises, timer, work, quiche>>

-----------------------------------------------------------------------------

Starts == StartRefused \/ StartClient \/ StartServer

\* The calls of the stretch that runs.
Runs ==
    \/ \E by \in Callers : send(by) \/ SendThrows(by) \/ SendRefused(by) \/ OtherDone(by)
    \/ \E of \in {"local", "remote"} : HandleError(of)
    \/ RecvDone
    \/ TickDone
    \/ CloseDone

\* What an await lets go on.
Resumes == Started \/ StartRejected \/ StartFailed \/ BeginStop \/ Stopped

Verified == \E by \in Callers, accepts \in BOOLEAN : VerifyDone(by, accepts)

Next ==
    \/ Starts
    \/ Runs
    \/ Resumes
    \/ Verified
    \/ \E kind \in Kinds : recv(kind)
    \/ TickClosed
    \/ Tick
    \/ OtherSend
    \/ StartAborted
    \/ \E force \in BOOLEAN : CallStop(force)
    \/ StreamsDestroyed

Spec == Init /\ [][Next]_vars

(***************************************************************************)
(* The event loop goes on, the timer of a draining connection fires, the   *)
(* user's verifyCallback answers, and streams destroyed by force end.  The *)
(* last three wait for the stretch that runs, hence strong fairness: the   *)
(* event loop does not pass over a timer or a promise that is due.         *)
(***************************************************************************)
FairSpec ==
    /\ Spec
    /\ WF_vars(Runs)
    /\ WF_vars(Resumes)
    /\ SF_vars(Verified)
    /\ SF_vars(TickClosed /\ q = "draining")
    /\ SF_vars(StreamsDestroyed /\ forced)

-----------------------------------------------------------------------------

TypeOK ==
    /\ config \in Configs
    /\ phase \in Phases
    /\ at \in Awaits
    /\ stops \in Seq(BOOLEAN)
    /\ forced \in BOOLEAN
    /\ aborted \in BOOLEAN
    /\ secure \in BOOLEAN
    /\ secureP \in {"pending", "resolved", "rejected"}
    /\ closedP \in BOOLEAN
    /\ closeHeard \in BOOLEAN
    /\ missed \in BOOLEAN
    /\ cutShort \in BOOLEAN
    /\ timer \in {"none", "armed", "settling", "settled"}
    /\ locked \in BOOLEAN
    /\ queued \in 0 .. MaxDatagrams
    /\ verifying \subseteq {"recv", "timer"}
    /\ agenda \in Seq(Calls)
    /\ arrived \in 0 .. MaxDatagrams
    /\ q \in {"open", "closing", "draining", "closed"}
    /\ received \in BOOLEAN
    /\ established \in BOOLEAN
    /\ peerError \in BOOLEAN
    /\ timedOut \in BOOLEAN

(***************************************************************************)
(* "It's the responsibility of this timer to resolve the closedP": between *)
(* handlers, a connection that quiche has left has told its peer, and has  *)
(* resolved closedP, or has a timer that will, or a handler of the timer   *)
(* that awaits verifyCallback and will set one up.  A recv or send that    *)
(* throws sets no timer; the next send does.                               *)
(***************************************************************************)
ClosingIsWatched ==
    (agenda = <<>> /\ q # "open" /\ ~ cutShort) =>
        /\ q # "closing"
        /\ closedP \/ timer = "armed" \/ "timer" \in verifying

(***************************************************************************)
(* Neither stop nor a start that waited is over before quiche is closed,   *)
(* and with it whatever the peer or the timer may still do to the          *)
(* connection.  A start that throws before it waits leaves quiche open and *)
(* closedP pending for good, but with no timer and no verifyCallback that  *)
(* would still act on the connection.                                      *)
(***************************************************************************)
EndsOnlyClosed ==
    /\ phase \in {"stopped", "failed"} => closedP /\ q = "closed"
    /\ phase = "refused" =>
          q = "open" /\ ~ closedP /\ timer = "none" /\ verifying = {}

(***************************************************************************)
(* "If the connection is still running, we will force close the            *)
(* connection": one that quiche has left has a stop on its way, if no send *)
(* threw.                                                                  *)
(***************************************************************************)
RunningIsOpen ==
    (agenda = <<>> /\ phase = "running" /\ q # "open" /\ ~ cutShort) => stops # <<>>

\* Between handlers, recvLock is held only by a recv that verifies the peer,
\* so no datagram waits behind a lock nobody will release.
LockHeldToVerify == agenda = <<>> => (locked <=> "recv" \in verifying)

(***************************************************************************)
(* Whatever the peer does: an aborted start ends, and so releases initLock *)
(* to whoever waits; a stop that destroys the streams by force returns;    *)
(* and a running connection that quiche has left ends up stopped, unless   *)
(* its close handler did not get to the stop (missed).  Each may hang only *)
(* if recv or send threw and no send goes through ever after.              *)
(***************************************************************************)
EndsInTime ==
    /\ (aborted /\ phase = "starting") ~> (phase = "failed" \/ []cutShort)
    /\ (phase = "stopping" /\ forced) ~> (phase = "stopped" \/ []cutShort)
    /\ (phase = "running" /\ q # "open") ~>
          (phase = "stopped" \/ missed \/ []cutShort)
=============================================================================
