----------------------------- MODULE QUICClient -----------------------------
(***************************************************************************)
(* The clients of a program and the sockets they use.  A client made       *)
(* without a socket starts one of its own (the encapsulated socket, which  *)
(* has the client's name here); the others share SharedSocket, which its   *)
(* owner stops and starts again.                                           *)
(*                                                                         *)
(* A connection is here what the client sees of it: whether it runs, and   *)
(* whether quiche has closed it.  Streams, datagrams and the connection's  *)
(* own reaction to its errors are in QUICConnection.                       *)
(***************************************************************************)
EXTENDS Naturals, Sequences

CONSTANTS
    Clients,
    Casts,              \* who there may be: clients given SharedSocket, clients
                        \* that start a socket of their own, whether creations
                        \* have a timeout (minIdleTimeout or maxIdleTimeout, both
                        \* infinite by default, or a timer of the caller) and, a
                        \* BOUND, how often the owner of SharedSocket starts it
    SharedSocket

ASSUME ClientsAssumption ==
    /\ Casts \subseteq [shared : SUBSET Clients, own : SUBSET Clients,
                        timeout : BOOLEAN, starts : Nat \ {0}]
    /\ \A k \in Casts : k.shared \cap k.own = {}
    /\ SharedSocket \notin Clients

VARIABLES
    cast,               \* isSocketShared, and which clients there are
    client,             \* each client with its connection
    socket              \* each QUICSocket

moving == <<client, socket>>
vars == <<cast, moving>>

Sockets == Clients \cup {SharedSocket}
isSocketShared(c) == c \in cast.shared
SocketOf(c) == IF isSocketShared(c) THEN SharedSocket ELSE c

\* The listeners a client registers, by what they listen for.
Listeners == {"socketStopped", "connectionError", "connectionStopped",
              "error", "close"}

(* Who calls start or stop on a socket: a client in createQUICClient, its  *)
(* handler of EventQUICClientClose, the owner of the shared socket, and    *)
(* the socket's own handler of EventQUICSocketClose.                       *)
Callers == (Clients \X {"create", "close"}) \cup {<<SharedSocket, "owner">>}
           \cup (Sockets \X {"event"})

\* era: how often the socket had been started when the call was made.
Call(op, by, s) == [op |-> op, by |-> by, era |-> socket[s].starts, force |-> TRUE]

ClientStates ==
    [phase : {"none", "socket", "connection", "undo", "made", "failed"},
     listen : SUBSET Listeners,
     closing : {"no", "connection", "socket", "done"},  \* handleEventQUICClientClose
     why : {"none", "connection", "socket"},            \* the error that closed it
     closed : BOOLEAN,                                  \* _closed, closedP
     destroy : {"no", "connection", "closedP", "done"},
     force : BOOLEAN,                                   \* destroy was called with it
     running : {"no", "starting", "running", "waiting", "stopping", "stopped", "failed"},
     secure : BOOLEAN,                                  \* secureEstablishedP
     quiche : {"open", "closing", "closed"}]

NewClient ==
    [phase |-> "none", listen |-> {}, closing |-> "no", why |-> "none",
     closed |-> FALSE, destroy |-> "no", force |-> TRUE, running |-> "no",
     secure |-> FALSE, quiche |-> "open"]

Init ==
    /\ cast \in Casts
    /\ client = [c \in Clients |-> NewClient]
    /\ socket = [s \in Sockets |->
         [running |-> s = SharedSocket,
          starts |-> IF s = SharedSocket THEN 1 ELSE 0,
          closed |-> FALSE,             \* _closed, and so _closedP
          handler |-> IF s = SharedSocket THEN "armed" ELSE "off",
          map |-> {},                   \* connectionMap
          holder |-> <<>>,              \* the call that has initLock
          queue |-> <<>>]]              \* the calls that wait for it

(***************************************************************************)
(* QUICSocket.  Its initLock serves the calls in their order.              *)
(***************************************************************************)
Waits(s, by) ==
    \E i \in DOMAIN (socket[s].holder \o socket[s].queue) :
        (socket[s].holder \o socket[s].queue)[i].by = by

Queued(s, call) == [socket EXCEPT ![s].queue = Append(@, call)]

(* dispatchEvent(EventQUICSocketClose): the handler is registered once by  *)
(* start; it first closes the UDP socket.                                  *)
Closing(q) == IF q.handler = "armed" THEN [q EXCEPT !.handler = "closing"] ELSE q

\* A plausible bug: initLock lets a second call in.
TakeLockHeld(s) ==
    /\ socket[s].queue # <<>>
    /\ socket' = [socket EXCEPT ![s].queue = Tail(@),
                               ![s].holder = Append(@, Head(socket[s].queue))]
    /\ UNCHANGED client

(* The next call takes initLock, and is over at once when it has nothing   *)
(* to do, or is to stop a socket with connections and without force        *)
(* (ErrorQUICSocketConnectionsActive).                                     *)
TakeLock(s) ==
    /\ socket[s].holder = <<>>
    /\ socket[s].queue # <<>>
    /\ LET call == Head(socket[s].queue)
           q == [socket[s] EXCEPT !.queue = Tail(@)]
           held == [q EXCEPT !.holder = <<call>>]
       IN  socket' = [socket EXCEPT ![s] =
             IF \/ q.running = (call.op = "start")
                \/ call.op = "stop" /\ ~ call.force /\ q.map # {}
             THEN q
             ELSE IF call.op = "stop" /\ ~ q.closed THEN Closing(held)
             ELSE held]
    /\ UNCHANGED client

Holds(s, op) == socket[s].holder # <<>> /\ socket[s].holder[1].op = op

\* The UDP socket is bound.
Bound(s) ==
    /\ Holds(s, "start")
    /\ socket' = [socket EXCEPT ![s] =
         [socket[s] EXCEPT !.running = TRUE, !.starts = @ + 1, !.closed = FALSE,
                           !.handler = "armed", !.holder = <<>>]]
    /\ UNCHANGED client

BindFails(s) ==
    /\ Holds(s, "start")
    /\ socket' = [socket EXCEPT ![s].holder = <<>>]
    /\ UNCHANGED client

(* acceptConnection of a server on the shared socket fails to send: the    *)
(* socket dispatches EventQUICSocketClose itself.                          *)
SocketFails(s) ==
    /\ s = SharedSocket
    /\ socket[s].handler = "armed"
    /\ socket' = [socket EXCEPT ![s] = Closing(@)]
    /\ UNCHANGED client

(* The UDP socket has closed.  The handler resolves closedP and, as the    *)
(* socket still counts as running while it is being stopped, calls stop.   *)
UDPClosed(s) ==
    /\ socket[s].handler = "closing"
    /\ socket' = [socket EXCEPT ![s] =
         [socket[s] EXCEPT !.handler = "off", !.closed = TRUE,
                           !.queue = IF socket[s].running
                                     THEN Append(@, Call("stop", <<s, "event">>, s))
                                     ELSE @]]
    /\ UNCHANGED client

(***************************************************************************)
(* The events of a client, each as what it makes of the client's state.    *)
(***************************************************************************)
\* handleEventQUICClientClose, up to its await of connection.stop.
CloseEvent(r, why) ==
    IF "close" \in r.listen
    THEN [r EXCEPT !.closing = "connection", !.why = why,
                   !.listen = @ \ {"close", "connectionError"}]
    ELSE r

(* handleEventQUICClientError.  (An internal error is thrown on and        *)
(* changes no state.)                                                      *)
ErrorEvent(r, why) == IF "error" \in r.listen THEN CloseEvent(r, why) ELSE r

\* quiche closes; handleEventQUICConnectionError passes the error on.
ConnectionError(r) ==
    LET left == [r EXCEPT !.quiche = "closing"]
    IN  IF "connectionError" \in r.listen THEN ErrorEvent(left, "connection") ELSE left

\* handleEventQUICSocketStopped: registered once.
SocketStopped(r) ==
    IF "socketStopped" \in r.listen
    THEN ErrorEvent([r EXCEPT !.listen = @ \ {"socketStopped"}], "socket")
    ELSE r

\* stop ends and EventQUICSocketStopped reaches the clients of the socket.
StopEnds(s) ==
    /\ Holds(s, "stop")
    /\ socket[s].closed
    /\ socket' = [socket EXCEPT ![s] =
         [socket[s] EXCEPT !.running = FALSE, !.handler = "off", !.holder = <<>>]]
    /\ client' = [c \in Clients |->
         IF SocketOf(c) = s THEN SocketStopped(client[c]) ELSE client[c]]

(***************************************************************************)
(* createQUICClient                                                        *)
(***************************************************************************)
Step(c, r) == client' = [client EXCEPT ![c] = r]

\* Without a socket the client starts its own.
CreateOwn(c) ==
    /\ c \in cast.own
    /\ client[c].phase = "none"
    /\ Step(c, [client[c] EXCEPT !.phase = "socket"])
    /\ socket' = Queued(c, Call("start", <<c, "create">>, c))

OwnNotBound(c) ==
    /\ client[c].phase = "socket"
    /\ ~ Waits(c, <<c, "create">>)
    /\ ~ socket[c].running
    /\ Step(c, [client[c] EXCEPT !.phase = "failed"])
    /\ UNCHANGED socket

\* createQUICClient has a running socket and goes on.
SocketReady(c) ==
    /\ \/ client[c].phase = "none" /\ isSocketShared(c)
       \/ client[c].phase = "socket" /\ ~ Waits(c, <<c, "create">>)
    /\ socket[SocketOf(c)].running

SharedNotRunning(c) ==
    /\ client[c].phase = "none" /\ isSocketShared(c)
    /\ ~ socket[SharedSocket].running
    /\ Step(c, [client[c] EXCEPT !.phase = "failed"])
    /\ UNCHANGED socket

(* validateTarget or the constructor of the connection throws: an          *)
(* encapsulated socket is stopped before the error is thrown on.           *)
Invalid(c) ==
    /\ SocketReady(c)
    /\ IF isSocketShared(c)
       THEN Step(c, [client[c] EXCEPT !.phase = "failed"]) /\ UNCHANGED socket
       ELSE /\ Step(c, [client[c] EXCEPT !.phase = "undo"])
            /\ socket' = Queued(c, Call("stop", <<c, "create">>, c))

(* All of the listeners, the entry in the map and the call of              *)
(* connection.start, without an await.  A creation that is aborted already *)
(* makes start throw before it has done anything.                          *)
StartConnection(c) ==
    /\ SocketReady(c)
    /\ \E start \in {"starting", "failed"} :
         Step(c, [client[c] EXCEPT !.phase = "connection", !.listen = Listeners,
                                   !.running = start])
    /\ socket' = [socket EXCEPT ![SocketOf(c)].map = @ \cup {c}]

Created(c) ==
    /\ client[c].phase = "connection"
    /\ client[c].running \in {"running", "waiting", "stopping", "stopped"}
    /\ Step(c, [client[c] EXCEPT !.phase = "made"])
    /\ UNCHANGED socket

\* The catch of connection.start.
StartThrew(c) ==
    /\ client[c].phase = "connection"
    /\ client[c].running = "failed"
    /\ LET without == [socket EXCEPT ![SocketOf(c)].map = @ \ {c}]
       IN  IF isSocketShared(c)
           THEN /\ Step(c, [client[c] EXCEPT !.phase = "failed", !.listen = {}])
                /\ socket' = without
           ELSE /\ Step(c, [client[c] EXCEPT !.phase = "undo",
                                             !.listen = @ \ {"socketStopped"}])
                /\ socket' = [without EXCEPT ![c].queue =
                                Append(@, Call("stop", <<c, "create">>, c))]

\* The socket of the failed creation has stopped.
Undone(c) ==
    /\ client[c].phase = "undo"
    /\ ~ Waits(c, <<c, "create">>)
    /\ Step(c, [client[c] EXCEPT !.phase = "failed", !.listen = {}])
    /\ UNCHANGED socket

(***************************************************************************)
(* The connection, as far as the client can tell.                          *)
(***************************************************************************)
Established(c) ==
    /\ client[c].running = "starting"
    /\ client[c].quiche = "open"
    /\ ~ client[c].secure
    /\ Step(c, [client[c] EXCEPT !.secure = TRUE])
    /\ UNCHANGED socket

(* start returns once the handshake was completed, also when the           *)
(* connection has been closed since.                                       *)
StartReturns(c) ==
    /\ client[c].running = "starting"
    /\ client[c].secure
    /\ Step(c, [client[c] EXCEPT !.running = "running"])
    /\ UNCHANGED socket

(* The creation times out, is cancelled, or a send fails in a way that     *)
(* aborts it (handleEventQUICClientErrorSend).                             *)
Aborted(c) ==
    /\ client[c].running = "starting"
    /\ ~ client[c].secure
    /\ client[c].quiche = "open"
    /\ Step(c, ConnectionError(client[c]))
    /\ UNCHANGED socket

\* The peer closes, the handshake fails, or nothing was heard for too long.
ConnectionFails(c) ==
    /\ client[c].running \in {"starting", "running", "waiting", "stopping"}
    /\ client[c].quiche = "open"
    /\ Step(c, ConnectionError(client[c]))
    /\ UNCHANGED socket

\* connTimeoutTimer: the connection's closedP is resolved.
Drained(c) ==
    /\ client[c].quiche = "closing"
    /\ Step(c, [client[c] EXCEPT !.quiche = "closed"])
    /\ UNCHANGED socket

StartFails(c) ==
    /\ client[c].running = "starting"
    /\ ~ client[c].secure
    /\ client[c].quiche = "closed"
    /\ Step(c, [client[c] EXCEPT !.running = "failed"])
    /\ UNCHANGED socket

(* Either call of connection.stop takes the connection's lock, when start  *)
(* has released it.  The handler's is forced; a destroy without force      *)
(* first waits for the users of the streams of an open connection, and     *)
(* keeps the lock.                                                         *)
StopsConnection(c) ==
    /\ client[c].running = "running"
    /\ \/ client[c].closing = "connection"
          /\ Step(c, [client[c] EXCEPT !.running = "stopping"])
       \/ client[c].destroy = "connection"
          /\ Step(c, [client[c] EXCEPT !.running =
                IF client[c].force \/ client[c].quiche # "open" THEN "stopping" ELSE "waiting"])
    /\ UNCHANGED socket

\* The users have ended the streams.
StreamsEnd(c) ==
    /\ client[c].running = "waiting"
    /\ Step(c, [client[c] EXCEPT !.running = "stopping"])
    /\ UNCHANGED socket

\* The streams are destroyed; stop closes a connection that is still open.
ClosesConnection(c) ==
    /\ client[c].running = "stopping"
    /\ client[c].quiche = "open"
    /\ Step(c, ConnectionError(client[c]))
    /\ UNCHANGED socket

\* stop ends; handleEventQUICConnectionStopped, registered once.
ConnectionStopped(c) ==
    /\ client[c].running = "stopping"
    /\ client[c].quiche = "closed"
    /\ Step(c, [client[c] EXCEPT !.running = "stopped",
                                 !.listen = @ \ {"connectionError", "connectionStopped"}])
    /\ socket' = IF "connectionStopped" \in client[c].listen
                 THEN [socket EXCEPT ![SocketOf(c)].map = @ \ {c}]
                 ELSE socket

\* A call of connection.stop has returned, or found nothing to stop.
ConnectionOver(c) == client[c].running \in {"stopped", "failed"}

(***************************************************************************)
(* The rest of handleEventQUICClientClose                                  *)
(***************************************************************************)
(* _closed, closedP, and destroy when nobody has called it (it has nothing *)
(* to wait for then).                                                      *)
ClosedEnd(r) ==
    [r EXCEPT !.closing = "done", !.closed = TRUE,
              !.destroy = IF @ = "no" THEN "closedP" ELSE @]

(* After the connection an encapsulated socket is stopped, unless it is    *)
(* the one whose end is being handled.                                     *)
StopsSocket(c) == ~ isSocketShared(c) /\ client[c].why # "socket"

\* A plausible bug: the socket is stopped along with the connection, not after it.
AfterConnectionAtOnce(c) ==
    /\ client[c].closing = "connection"
    /\ StopsSocket(c) \/ ConnectionOver(c)
    /\ IF StopsSocket(c)
       THEN /\ Step(c, [client[c] EXCEPT !.closing = "socket",
                                         !.listen = @ \ {"socketStopped"}])
            /\ socket' = Queued(c, Call("stop", <<c, "close">>, c))
       ELSE Step(c, ClosedEnd(client[c])) /\ UNCHANGED socket

AfterConnection(c) ==
    /\ client[c].closing = "connection"
    /\ ConnectionOver(c)
    /\ IF StopsSocket(c)
       THEN /\ Step(c, [client[c] EXCEPT !.closing = "socket",
                                         !.listen = @ \ {"socketStopped"}])
            /\ socket' = Queued(c, Call("stop", <<c, "close">>, c))
       ELSE Step(c, ClosedEnd(client[c])) /\ UNCHANGED socket

AfterSocket(c) ==
    /\ client[c].closing = "socket"
    /\ ~ Waits(c, <<c, "close">>)
    /\ Step(c, ClosedEnd(client[c]))
    /\ UNCHANGED socket

(***************************************************************************)
(* destroy.  Calls that come later wait for this one and do nothing.       *)
(***************************************************************************)
\* A plausible bug: destroy no longer listens to the connection it stops.
DestroyDeaf(c) ==
    /\ client[c].phase = "made"
    /\ client[c].destroy = "no"
    /\ \E force \in BOOLEAN :
         Step(c, [client[c] EXCEPT !.destroy = "connection", !.force = force,
                                   !.listen = @ \ {"connectionError"}])
    /\ UNCHANGED socket

Destroy(c) ==
    /\ client[c].phase = "made"
    /\ client[c].destroy = "no"
    /\ \E force \in BOOLEAN :
         Step(c, [client[c] EXCEPT !.destroy = "connection", !.force = force])
    /\ UNCHANGED socket

DestroyAfterConnection(c) ==
    /\ client[c].destroy = "connection"
    /\ ConnectionOver(c)
    /\ Step(c, [client[c] EXCEPT !.destroy = "closedP"])
    /\ UNCHANGED socket

\* A plausible bug: a shared socket keeps the listener.
DestroyedListening(c) ==
    /\ client[c].destroy = "closedP"
    /\ client[c].closed
    /\ Step(c, [client[c] EXCEPT !.destroy = "done", !.listen = @ \ {"error", "close"}])
    /\ UNCHANGED socket

Destroyed(c) ==
    /\ client[c].destroy = "closedP"
    /\ client[c].closed
    /\ Step(c, [client[c] EXCEPT !.destroy = "done",
                                 !.listen = @ \ {"error", "close", "socketStopped"}])
    /\ UNCHANGED socket

(***************************************************************************)
(* The owner of the shared socket calls start and stop in turn, each after *)
(* the last has returned.                                                  *)
(***************************************************************************)
OwnerCalls(op) ==
    /\ ~ Waits(SharedSocket, <<SharedSocket, "owner">>)
    /\ socket[SharedSocket].running = (op = "stop")
    /\ op = "start" => socket[SharedSocket].starts < cast.starts
    /\ \E force \in BOOLEAN :
         /\ op = "start" => force
         /\ socket' = Queued(SharedSocket,
              [Call(op, <<SharedSocket, "owner">>, SharedSocket) EXCEPT !.force = force])
    /\ UNCHANGED client

CreationNext(c) ==
    \/ CreateOwn(c) \/ OwnNotBound(c) \/ SharedNotRunning(c) \/ Invalid(c)
    \/ StartConnection(c) \/ Created(c) \/ StartThrew(c) \/ Undone(c)

ConnectionNext(c) ==
    \/ Established(c) \/ StartReturns(c) \/ Aborted(c) \/ ConnectionFails(c)
    \/ Drained(c) \/ StartFails(c) \/ StopsConnection(c) \/ StreamsEnd(c)
    \/ ClosesConnection(c) \/ ConnectionStopped(c)

ClosingNext(c) ==
    \/ AfterConnection(c) \/ AfterSocket(c)
    \/ Destroy(c) \/ DestroyAfterConnection(c) \/ Destroyed(c)

SocketNext(s) ==
    \/ TakeLock(s) \/ Bound(s) \/ BindFails(s) \/ SocketFails(s)
    \/ UDPClosed(s) \/ StopEnds(s)

Next ==
    /\ \/ \E c \in Clients : CreationNext(c) \/ ConnectionNext(c) \/ ClosingNext(c)
       \/ \E s \in Sockets : SocketNext(s)
       \/ \E op \in {"start", "stop"} : OwnerCalls(op)
    /\ UNCHANGED cast

Spec == Init /\ [][Next]_vars

(* A creation with a timeout is aborted in time, a closed connection has   *)
(* its connTimeoutTimer, and the UDP socket calls back.  Nothing obliges a *)
(* server to answer, a program to create or to destroy a client or to end  *)
(* its streams, or an owner to stop a socket.                              *)
Fairness ==
    /\ \A c \in Clients :
         /\ WF_moving(client[c].phase # "none" /\ CreationNext(c))
         /\ WF_moving(cast.timeout /\ Aborted(c))
         /\ WF_moving(Drained(c))
         /\ WF_moving(StartReturns(c) \/ StartFails(c))
         /\ WF_moving(StopsConnection(c) \/ ClosesConnection(c) \/ ConnectionStopped(c))
         /\ WF_moving(AfterConnection(c) \/ AfterSocket(c))
         /\ WF_moving(DestroyAfterConnection(c) \/ Destroyed(c))
    /\ \A s \in Sockets :
         WF_moving(TakeLock(s) \/ Bound(s) \/ BindFails(s) \/ StopEnds(s))
         /\ WF_moving(UDPClosed(s))

FairSpec == Spec /\ Fairness

(***************************************************************************)
(* Properties                                                              *)
(***************************************************************************)
CallsOf(s) == [op : {"start", "stop"}, by : Callers, era : 0 .. cast.starts, force : BOOLEAN]

\* The types of the state.
TypeOK ==
    /\ cast \in Casts
    /\ client \in [Clients -> ClientStates]
    /\ \A s \in Sockets :
         /\ socket[s].running \in BOOLEAN
         /\ socket[s].closed \in BOOLEAN
         /\ socket[s].starts \in 0 .. cast.starts
         /\ socket[s].handler \in {"off", "armed", "closing"}
         /\ socket[s].map \subseteq Clients
         /\ Len(socket[s].holder) <= 1
         /\ \A i \in DOMAIN socket[s].holder : socket[s].holder[i] \in CallsOf(s)
         /\ \A i \in DOMAIN socket[s].queue : socket[s].queue[i] \in CallsOf(s)

(* A creation that failed and a client that was destroyed have left        *)
(* nothing: no listener on the socket, which may be somebody else's, no    *)
(* entry in its map that would route datagrams to them, no connection that *)
(* runs and no socket of their own, whichever of createQUICClient, the     *)
(* handler of the close event and destroy came first.                      *)
NothingLeft ==
    \A c \in Clients :
        client[c].phase = "failed" \/ (client[c].phase = "made" /\ client[c].destroy = "done")
        => /\ client[c].listen = {}
           /\ client[c].running \in {"no", "stopped", "failed"}
           /\ c \notin socket[SocketOf(c)].map
           /\ c \in cast.own => ~ socket[c].running

(* A stop of a socket takes effect in its turn.  An encapsulated socket    *)
(* outlives its connection, which may still have a CONNECTION_CLOSE to     *)
(* send: datagrams are dropped as soon as the socket is stopping.  And the *)
(* stop that the socket's own close handler calls, from within another     *)
(* stop as a rule, never meets a later start: an owner who stops a socket  *)
(* and starts it again keeps it.                                           *)
SocketStopsInTurn ==
    /\ \A c \in cast.own :
          Holds(c, "stop") => client[c].running \in {"no", "stopped", "failed"}
    /\ \A s \in Sockets :
          Holds(s, "stop") => socket[s].holder[1].era = socket[s].starts

\* A creation without a timeout that hears nothing and that nobody aborts.
Unanswered(c) ==
    /\ client[c].running = "starting" /\ client[c].quiche = "open"
    /\ ~ client[c].secure /\ ~ cast.timeout

\* A destroy without force, while the streams have users.
Lingers(c) == client[c].running = "waiting"

(* Every creation is over at some time, every destroy returns (it waits    *)
(* for closedP, which only the handler of the close event resolves, which  *)
(* waits for the connection and for the socket), and a client whose shared *)
(* socket is stopped under it is destroyed.  Only silence holds up a       *)
(* creation (the server's, or that of a shared socket that was stopped),   *)
(* if it has no timeout, and only users who never end their streams hold   *)
(* up a destroy, if it was called without force.                           *)
EveryCallEnds ==
    \A c \in Clients :
        /\ client[c].phase \in {"socket", "connection", "undo"}
           ~> (client[c].phase \in {"made", "failed"} \/ []Unanswered(c))
        /\ client[c].destroy # "no" ~> (client[c].destroy = "done" \/ []Lingers(c))
        /\ client[c].phase = "made" /\ ~ socket[SocketOf(c)].running
           ~> (client[c].destroy = "done" \/ []Lingers(c))

=============================================================================
