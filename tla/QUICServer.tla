----------------------------- MODULE QUICServer -----------------------------
(***************************************************************************)
(* A QUICServer, the QUICSocket that feeds it and the QUICConnectionMap    *)
(* they share: how a datagram for an unknown id becomes a connection, and  *)
(* what stop leaves behind.                                                *)
(*                                                                         *)
(* handleSocketMessage looks the id up in the map; acceptConnection then   *)
(* awaits the crypto operations (sign, validateToken), and only afterwards *)
(* enters the new connection in the map.  Other datagrams, the server's    *)
(* stop and the socket's may come in between.                              *)
(*                                                                         *)
(* A datagram that misses the map is the task that may make a connection,  *)
(* and the task's name is also the connection's.                           *)
(***************************************************************************)
EXTENDS Integers, FiniteSets

CONSTANTS Ids,        \* connection ids that clients send to
          Tasks,      \* bound: the datagrams that may miss the map, id and number
          MaxStarts   \* bound on the calls of start

ASSUME ServerAssumption ==
    /\ Tasks \subseteq Ids \X Nat
    /\ MaxStarts \in Nat

Id(a) == a[1]

VARIABLES
    isSocketShared, \* the user passed the socket, and starts and stops it
    startTimeout,   \* minIdleTimeout or maxIdleTimeout is finite
    server,     \* the StartStop state: stopped, starting, running or stopping
    stage,      \* what a running stop awaits: "connections", "closedP" or "none"
    answering,  \* the socket's `server` is set
    controller, \* stopAbortController: the start that made it, 0 if undefined
    aborted,    \* the controllers that were aborted
    starts,     \* calls of start so far
    closed,     \* _closed
    closedP,    \* _closedP is resolved
    socket,     \* the socket's StartStop state
    task,       \* per task: idle, validating or done
    conn,       \* per task: its QUICConnection
    mapped,     \* the connections that the map holds, one per id
    signal,     \* per task: the controller its start listens to, 0 if none
    targets,    \* the connections that stop stops and awaits
    late        \* connections made while the server did not answer (history)

stopVars == <<isSocketShared, startTimeout, server, stage, answering, controller, aborted,
              starts, closed, closedP, targets>>
vars == <<stopVars, socket, task, conn, mapped, signal, late>>

Alive == {a \in Tasks : conn[a] \in {"starting", "running", "lingering", "stopping"}}

Init ==
    /\ isSocketShared \in BOOLEAN
    /\ startTimeout \in BOOLEAN
    /\ server = "stopped"
    /\ stage = "none"
    /\ answering = FALSE
    /\ controller = 0
    /\ aborted = {}
    /\ starts = 0
    /\ closed = FALSE
    /\ closedP = FALSE
    /\ socket = IF isSocketShared THEN "running" ELSE "stopped"
    /\ task = [a \in Tasks |-> "idle"]
    /\ conn = [a \in Tasks |-> "none"]
    /\ mapped = {}
    /\ signal = [a \in Tasks |-> 0]
    /\ targets = {}
    /\ late = {}

-----------------------------------------------------------------------------
(* QUICConnectionMap: at most one entry per id, and delete is by id.       *)

\* A plausible bug: the entry of a connection that failed to start stays.
WithoutNothing(id) == mapped

Without(id) == {b \in mapped : Id(b) # id}

With(a) == Without(Id(a)) \cup {a}

-----------------------------------------------------------------------------
(* handleSocketMessage and acceptConnection.                               *)

\* A datagram whose id is not in the map, and a server that is registered.
Message(a) ==
    /\ socket = "running"
    /\ task[a] = "idle"
    /\ \A b \in mapped : Id(b) # Id(a)
    /\ answering
    /\ server = "running"
    /\ task' = [task EXCEPT ![a] = "validating"]
    /\ UNCHANGED <<stopVars, socket, conn, mapped, signal, late>>

\* No connection comes of it: a version or a Retry was sent, the token is not
\* valid, or the socket stopped meanwhile and sending or socket.host throws.
Discard(a) ==
    /\ task[a] = "validating"
    /\ task' = [task EXCEPT ![a] = "done"]
    /\ UNCHANGED <<stopVars, socket, conn, mapped, signal, late>>

\* this.stopAbortController?.signal
SignalNow == controller

(***************************************************************************)
(* The token is valid: a QUICConnection is constructed, entered in the map *)
(* and started, and its start listens to the abort controller of now.      *)
(***************************************************************************)
Accept(a) ==
    /\ task[a] = "validating"
    /\ socket = "running"
    /\ task' = [task EXCEPT ![a] = "done"]
    /\ conn' = [conn EXCEPT ![a] = "starting"]
    /\ mapped' = With(a)
    /\ signal' = [signal EXCEPT ![a] = SignalNow]
    /\ late' = IF answering THEN late ELSE late \cup {a}
    /\ UNCHANGED <<stopVars, socket>>

\* The handshake completes, by datagrams that find the connection in the map.
StartCompletes(a) ==
    /\ conn[a] = "starting"
    /\ a \in mapped
    /\ socket = "running"
    /\ conn' = [conn EXCEPT ![a] = "running"]
    /\ signal' = [signal EXCEPT ![a] = 0]
    /\ UNCHANGED <<stopVars, socket, task, mapped, late>>

\* connection.start rejects: timeout, abort, or an error of either side.  The
\* catch block deletes the entry of the id.
StartFails(a) ==
    /\ conn[a] = "starting"
    /\ conn' = [conn EXCEPT ![a] = "ended"]
    /\ mapped' = Without(Id(a))
    /\ signal' = [signal EXCEPT ![a] = 0]
    /\ UNCHANGED <<stopVars, socket, task, late>>

\* The connection's own stop begins: by the peer, a timeout, an error, or a
\* user.  Without force it first waits for the users of its streams (lingers).
ConnectionStops(a, force) ==
    /\ conn[a] = "running"
    /\ conn' = [conn EXCEPT ![a] = IF force THEN "stopping" ELSE "lingering"]
    /\ UNCHANGED <<stopVars, socket, task, mapped, signal, late>>

\* The users have ended the streams.
StreamsEnd(a) ==
    /\ conn[a] = "lingering"
    /\ conn' = [conn EXCEPT ![a] = "stopping"]
    /\ UNCHANGED <<stopVars, socket, task, mapped, signal, late>>

\* handleEventQUICConnectionStopped deletes the entry of the id.
ConnectionStopped(a) ==
    /\ conn[a] = "stopping"
    /\ conn' = [conn EXCEPT ![a] = "ended"]
    /\ mapped' = Without(Id(a))
    /\ UNCHANGED <<stopVars, socket, task, signal, late>>

-----------------------------------------------------------------------------
(* start and stop of the server, and the end of the socket.                *)

\* A plausible bug: start does not reset _closed.
ResetClosedForgotten == UNCHANGED closed

ResetClosed == closed' = FALSE

\* start up to its await of the socket it made, or to its end with a shared
\* one.  If that does not run start throws, and leaves its controller behind.
Start ==
    /\ server = "stopped"
    /\ starts < MaxStarts
    /\ starts' = starts + 1
    /\ controller' = starts'
    /\ IF isSocketShared
       THEN IF socket = "running"
            THEN server' = "running" /\ answering' = TRUE /\ ResetClosed
            ELSE UNCHANGED <<server, answering, closed>>
       ELSE server' = "starting" /\ UNCHANGED <<answering, closed>>
    /\ UNCHANGED <<isSocketShared, startTimeout, stage, aborted, closedP, targets, socket,
                   task, conn, mapped, signal, late>>

\* The socket has started, and start goes on.
Started ==
    /\ server = "starting"
    /\ socket' = "running"
    /\ server' = "running"
    /\ answering' = TRUE
    /\ ResetClosed
    /\ UNCHANGED <<isSocketShared, startTimeout, stage, controller, aborted, starts, closedP,
                   targets, task, conn, mapped, signal, late>>

\* socket.start throws, and start does.
StartThrows ==
    /\ server = "starting"
    /\ server' = "stopped"
    /\ UNCHANGED <<isSocketShared, startTimeout, stage, answering, controller, aborted,
                   starts, closed, closedP, targets, socket, task, conn, mapped, signal, late>>

\* A plausible bug: connections that have not started yet are left out.
TargetsRunning == {a \in mapped : conn[a] = "running"}

\* The connections whose stop is awaited.
Targets == mapped

AbortedBy(force) == IF force THEN aborted \cup {controller} ELSE aborted

\* stop up to its await of the connections.
BeginStop(force) ==
    /\ server' = "stopping"
    /\ stage' = "connections"
    /\ answering' = FALSE
    /\ aborted' = AbortedBy(force)
    /\ controller' = 0
    /\ targets' = Targets

Stop(force) ==
    /\ server = "running"
    /\ BeginStop(force)
    /\ UNCHANGED <<isSocketShared, startTimeout, starts, closed, closedP, socket, task,
                   conn, mapped, signal, late>>

\* The stop that runs is a forced one.
Forced == starts \in aborted

\* stop's connection.stop gets the connection's lock, after a start that runs.
StopTarget(a) ==
    /\ server = "stopping"
    /\ a \in targets
    /\ conn[a] = "running"
    /\ conn' = [conn EXCEPT ![a] = IF Forced THEN "stopping" ELSE "lingering"]
    /\ UNCHANGED <<stopVars, socket, task, mapped, signal, late>>

\* this._closed = true; this.resolveClosedP()
Close ==
    /\ closed' = TRUE
    /\ closedP' = TRUE

(***************************************************************************)
(* All of stop's connections have stopped.  Unless the socket's end closed *)
(* the server before, EventQUICServerClose is dispatched: its handler      *)
(* stops an encapsulated socket, which may be stopping already, and closes *)
(* the server at once when the socket is shared.                           *)
(***************************************************************************)
ConnectionsStopped ==
    /\ stage = "connections"
    /\ targets \cap Alive = {}
    /\ stage' = "closedP"
    /\ \/ closed /\ UNCHANGED <<closed, closedP, socket>>
       \/ ~ closed /\ isSocketShared /\ Close /\ UNCHANGED socket
       \/ /\ ~ closed /\ ~ isSocketShared
          /\ socket' = "stopping"
          /\ UNCHANGED <<closed, closedP>>
    /\ UNCHANGED <<isSocketShared, startTimeout, server, answering, controller, aborted,
                   starts, targets, task, conn, mapped, signal, late>>

\* A plausible bug: the next stop awaits the promise of this one.
RenewClosedPForgotten == UNCHANGED closedP

RenewClosedP == closedP' = FALSE

\* stop awaits _closedP, makes a new one and returns.
StopEnds ==
    /\ stage = "closedP"
    /\ closedP
    /\ RenewClosedP
    /\ stage' = "none"
    /\ server' = "stopped"
    /\ targets' = {}
    /\ UNCHANGED <<isSocketShared, startTimeout, answering, controller, aborted, starts,
                   closed, socket, task, conn, mapped, signal, late>>

\* The socket begins to stop on its own: an EventQUICSocketClose, or its user;
\* without force only while the map is empty.
SocketStops(force) ==
    /\ socket = "running"
    /\ force \/ mapped = {}
    /\ socket' = "stopping"
    /\ UNCHANGED <<stopVars, task, conn, mapped, signal, late>>

\* The user of a shared socket starts it again.
SocketStarts ==
    /\ isSocketShared
    /\ socket = "stopped"
    /\ socket' = "running"
    /\ UNCHANGED <<stopVars, task, conn, mapped, signal, late>>

(***************************************************************************)
(* EventQUICSocketStopped.  If the handler of the server's own close has   *)
(* awaited this, it closes the server now.  Otherwise the listener of the  *)
(* server, unless it has stopped, closes it with an error: a stop that     *)
(* runs will find it closed, and without one a forced stop begins.         *)
(***************************************************************************)
SocketStopped ==
    /\ socket = "stopping"
    /\ socket' = "stopped"
    /\ IF server = "stopped" THEN UNCHANGED <<closed, closedP>> ELSE Close
    /\ IF server = "running"
       THEN BeginStop(TRUE)
       ELSE UNCHANGED <<server, stage, answering, controller, aborted, targets>>
    /\ UNCHANGED <<isSocketShared, startTimeout, starts, task, conn, mapped, signal, late>>

Next ==
    \/ \E a \in Tasks :
          \/ Message(a)
          \/ Discard(a)
          \/ Accept(a)
          \/ StartCompletes(a)
          \/ StartFails(a)
          \/ \E force \in BOOLEAN : ConnectionStops(a, force)
          \/ StreamsEnd(a)
          \/ ConnectionStopped(a)
          \/ StopTarget(a)
    \/ Start
    \/ Started
    \/ StartThrows
    \/ \E force \in BOOLEAN : Stop(force) \/ SocketStops(force)
    \/ ConnectionsStopped
    \/ StopEnds
    \/ SocketStarts
    \/ SocketStopped

Spec == Init /\ [][Next]_vars

(***************************************************************************)
(* The start of a connection ends once it is aborted, and in time if it    *)
(* has a timeout, which the defaults do not set: minIdleTimeout and        *)
(* maxIdleTimeout are infinite.  A connection that stops ends once its     *)
(* streams have ended; nobody has to end them unless the stop is forced.   *)
(* A closing dgram socket closes.  Nobody has to send, to start or to      *)
(* stop.                                                                   *)
(***************************************************************************)
Fairness ==
    /\ \A a \in Tasks :
          /\ WF_vars(StartFails(a) /\ (signal[a] \in aborted \/ startTimeout))
          /\ WF_vars(StopTarget(a))
          /\ WF_vars(ConnectionStopped(a))
    /\ WF_vars(ConnectionsStopped)
    /\ WF_vars(StopEnds)
    /\ WF_vars(SocketStopped)

FairSpec == Spec /\ Fairness

-----------------------------------------------------------------------------

TypeOK ==
    /\ isSocketShared \in BOOLEAN
    /\ startTimeout \in BOOLEAN
    /\ server \in {"stopped", "starting", "running", "stopping"}
    /\ stage \in {"none", "connections", "closedP"}
    /\ answering \in BOOLEAN
    /\ controller \in 0 .. MaxStarts
    /\ aborted \in SUBSET (1 .. MaxStarts)
    /\ starts \in 0 .. MaxStarts
    /\ closed \in BOOLEAN
    /\ closedP \in BOOLEAN
    /\ socket \in {"stopped", "running", "stopping"}
    /\ task \in [Tasks -> {"idle", "validating", "done"}]
    /\ conn \in [Tasks -> {"none", "starting", "running", "lingering", "stopping", "ended"}]
    /\ mapped \in SUBSET Tasks
    /\ signal \in [Tasks -> 0 .. MaxStarts]
    /\ targets \in SUBSET Tasks
    /\ late \in SUBSET Tasks

(***************************************************************************)
(* The map never routes datagrams to a connection that has ended, whichever*)
(* of its ends came first: such an entry would swallow every later attempt *)
(* of the client, because acceptConnection is only called on a miss.       *)
(***************************************************************************)
EntriesAlive == mapped \subseteq Alive

(***************************************************************************)
(* A live connection can lose its entry, and then no datagram reaches it,  *)
(* but only to another connection of the same id.                          *)
(***************************************************************************)
LostOnlyToRival ==
    \A a \in Alive \ mapped :
        \E b \in Tasks \ {a} : Id(b) = Id(a) /\ conn[b] # "none"

(***************************************************************************)
(* The map is true: whom it names lives, and whom it lost has a rival.     *)
(***************************************************************************)
MapIsTrue == EntriesAlive /\ LostOnlyToRival

(***************************************************************************)
(* When stop has returned, the map still holds only connections that were  *)
(* accepted after stop told the socket to stop answering.                  *)
(***************************************************************************)
StopLeavesOnlyLate == server = "stopped" => mapped \subseteq late

(***************************************************************************)
(* A forced stop need not wait for handshakes: each connection it awaits   *)
(* that has not started has been told to abort, unless it was accepted     *)
(* while the server did not answer and has no signal.                      *)
(***************************************************************************)
ForcedStopAborts ==
    (server = "stopping" /\ Forced) =>
        \A a \in targets : conn[a] = "starting" => signal[a] \in aborted \/ a \in late

(***************************************************************************)
(* stop leaves only what came too late for it.                             *)
(***************************************************************************)
StopIsThorough == StopLeavesOnlyLate /\ ForcedStopAborts

(***************************************************************************)
(* A server and its socket end together, whichever ends first.  A server   *)
(* that runs has a socket that runs, or the end of which it has yet to     *)
(* hear of; it is not closed, and whoever awaits its closedP awaits the    *)
(* next stop.  One that has stopped has stopped the socket it made.        *)
(***************************************************************************)
EndsWithSocket ==
    /\ server = "running" => socket # "stopped" /\ ~ closed /\ ~ closedP
    /\ server = "stopped" /\ ~ isSocketShared => socket = "stopped"

\* The users of a connection that stop awaits have yet to end its streams.
Lingers == \E a \in targets : conn[a] = "lingering"

\* stop awaits a handshake that is neither aborted nor has a timeout.
Unbounded ==
    ~ startTimeout /\ \E a \in targets : conn[a] = "starting" /\ signal[a] \notin aborted

(***************************************************************************)
(* stop returns, also when the socket stops on its own before, while or    *)
(* after stop waits for the connections.  It can wait for good only for    *)
(* the users of streams, if somebody stopped their connection without      *)
(* force, and for the handshake of a silent client, if stop was not forced *)
(* (or the connection came late) and there are no timeouts.                *)
(***************************************************************************)
StopReturns ==
    server = "stopping" ~> (server = "stopped" \/ [](Lingers \/ Unbounded))
=============================================================================
