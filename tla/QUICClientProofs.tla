-------------------------- MODULE QUICClientProofs --------------------------
(***************************************************************************)
(* Proofs about QUICClient, for any clients, who share a socket or not,    *)
(* and any number of starts of the shared one: its invariants.             *)
(*                                                                         *)
(* The inductive invariant has a part about the calls in line for the      *)
(* initLock of each socket (LineInv), one about each client and its        *)
(* connection (ClientInv, MapInv), and one about what a client and a       *)
(* socket of its own know of each other (OwnInv).                          *)
(***************************************************************************)
EXTENDS QUICClient, TLAPS

AnyCall == [op : {"start", "stop"}, by : Callers, era : Nat, force : BOOLEAN]

SocketStates ==
    [running : BOOLEAN, starts : Nat, closed : BOOLEAN,
     handler : {"off", "armed", "closing"}, map : SUBSET Clients,
     holder : Seq(AnyCall), queue : Seq(AnyCall)]

Types ==
    /\ cast \in Casts
    /\ client \in [Clients -> ClientStates]
    /\ socket \in [Sockets -> SocketStates]

Elems(s) == {s[i] : i \in 1 .. Len(s)}

\* The calls that hold the initLock of a socket or wait for it.
Line(q) == Elems(q.holder) \cup Elems(q.queue)

StartIsLast(s) == \A i \in 1 .. Len(s) : s[i].op = "start" => i = Len(s)

(* initLock lets one call in.  A start is the last call in the line, of a  *)
(* socket that does not run; a stop is of the last start there was.        *)
LineInv(q, starts) ==
    /\ q.starts <= starts
    /\ Len(q.holder) <= 1
    /\ \A call \in Line(q) :
          IF call.op = "start" THEN ~ q.running /\ q.starts < starts /\ call.era <= starts
          ELSE call.era = q.starts
    /\ \A call \in Elems(q.holder) : call.op = "start" => q.queue = <<>>
    /\ StartIsLast(q.queue)

Over(r) == r.running \in {"stopped", "failed"}
Early(r) == r.phase \in {"none", "socket"}

\* The connection of the client does not run, and will not any more.
Gone(r) == ~ Early(r) /\ r.running \in {"no", "stopped", "failed"}

ClientInv(r) ==
    /\ r.running = "no" =>
         /\ r.listen = {} /\ r.closing = "no" /\ r.why = "none" /\ ~ r.closed
         /\ r.destroy = "no" /\ r.phase \notin {"connection", "made"}
    /\ Early(r) => r.running = "no"
    /\ r.phase \in {"undo", "failed"} => r.running \in {"no", "failed"}
    /\ r.phase = "failed" => r.listen = {}
    /\ r.phase = "made" => r.running \in {"running", "waiting", "stopping", "stopped"}
    /\ r.running \in {"starting", "running", "waiting", "stopping"} => "connectionStopped" \in r.listen
    /\ r.running = "stopped" => r.listen \cap {"connectionError", "connectionStopped"} = {}
    /\ "close" \in r.listen => r.closing = "no"
    /\ r.closing \in {"socket", "done"} => Over(r)
    /\ r.destroy \in {"closedP", "done"} => Over(r)
    /\ r.destroy = "done" => r.closed /\ r.listen \cap {"error", "close", "socketStopped"} = {}
    /\ r.closed => r.closing = "done"

\* Only a connection that may still get datagrams is in the map.
MapInv(c, r, q) ==
    c \in q.map => r.phase \in {"connection", "made"} /\ r.running # "stopped"

StopBy(q, by) == \E call \in Line(q) : call.op = "stop" /\ call.by = by

(* A client and its own socket: it is started once, at first; it is        *)
(* stopped when the connection is gone; and a client that is done with it  *)
(* has stopped it or has a stop in line.                                   *)
OwnInv(c, r, q) ==
    /\ r.phase = "none" => q.holder = <<>> /\ q.queue = <<>> /\ ~ q.running
                           /\ q.starts = 0 /\ q.handler = "off"
    /\ \A call \in Line(q) :
          /\ call.force
          /\ IF call.op = "start" THEN r.phase = "socket" /\ call.by = <<c, "create">>
             ELSE Gone(r)
    /\ q.handler = "closing" => Gone(r)
    /\ r.phase = "undo" => ~ q.running \/ StopBy(q, <<c, "create">>)
    /\ r.phase = "failed" => ~ q.running
    /\ r.closing = "socket" => ~ q.running \/ StopBy(q, <<c, "close">>)
    /\ r.closing = "done" => ~ q.running
    /\ r.why = "socket" => ~ q.running

Played(c) == isSocketShared(c) \/ c \in cast.own

IInv ==
    /\ Types
    /\ \A s \in Sockets : LineInv(socket[s], cast.starts)
    /\ \A c \in Clients :
          /\ ClientInv(client[c])
          /\ MapInv(c, client[c], socket[SocketOf(c)])
          /\ ~ Played(c) => client[c].phase = "none"
          /\ c \in cast.own => OwnInv(c, client[c], socket[c])
    /\ \A call \in Line(socket[SharedSocket]) :
          call.op = "start" => call.by = <<SharedSocket, "owner">>

-----------------------------------------------------------------------------
(* Sequences of calls.                                                     *)

LEMMA NoElems == Elems(<<>>) = {} /\ StartIsLast(<<>>)
  BY DEF Elems, StartIsLast

LEMMA OneElem ==
    ASSUME NEW S, NEW e \in S
    PROVE  <<e>> \in Seq(S) /\ Len(<<e>>) = 1 /\ <<e>>[1] = e /\ Elems(<<e>>) = {e}
<1>1. <<e>> \in Seq(S) /\ Len(<<e>>) = 1 /\ <<e>>[1] = e
  OBVIOUS
<1>2. 1 .. 1 = {1}
  OBVIOUS
<1>3. QED
  BY <1>1, <1>2 DEF Elems

LEMMA Appended ==
    ASSUME NEW S, NEW s \in Seq(S), NEW e \in S
    PROVE  /\ Append(s, e) \in Seq(S) /\ Append(s, e) # <<>>
           /\ Elems(Append(s, e)) = Elems(s) \cup {e}
           /\ (\A x \in Elems(s) : x.op # "start") => StartIsLast(Append(s, e))
<1> DEFINE t == Append(s, e)
<1>1. /\ t \in Seq(S) /\ t # <<>> /\ Len(s) \in Nat /\ Len(t) = Len(s) + 1 /\ t[Len(t)] = e
      /\ \A i \in 1 .. Len(s) : t[i] = s[i]
  OBVIOUS
<1>2. \A i \in 1 .. Len(t) : i \in 1 .. Len(s) \/ i = Len(t)
  BY <1>1
<1>3. \A i \in 1 .. Len(s) : i \in 1 .. Len(t)
  BY <1>1
<1>4. Len(t) \in 1 .. Len(t)
  BY <1>1
<1> HIDE DEF t
<1>5. Elems(t) = Elems(s) \cup {e}
  <2>1. Elems(t) \subseteq Elems(s) \cup {e}
    BY <1>1, <1>2 DEF Elems
  <2>2. Elems(s) \cup {e} \subseteq Elems(t)
    BY <1>1, <1>3, <1>4 DEF Elems
  <2>3. QED
    BY <2>1, <2>2
<1>6. (\A x \in Elems(s) : x.op # "start") => StartIsLast(t)
  BY <1>1, <1>2 DEF Elems, StartIsLast
<1>7. QED
  BY <1>1, <1>5, <1>6 DEF t

LEMMA FirstTaken ==
    ASSUME NEW S, NEW s \in Seq(S), s # <<>>
    PROVE  /\ Tail(s) \in Seq(S) /\ Head(s) \in S
           /\ Elems(s) = {Head(s)} \cup Elems(Tail(s))
           /\ StartIsLast(s) => /\ StartIsLast(Tail(s))
                                /\ Head(s).op = "start" => Tail(s) = <<>>
<1> DEFINE t == Tail(s)
<1>0. Len(s) \in Nat /\ Len(s) # 0
  OBVIOUS
<1>1. /\ t \in Seq(S) /\ Head(s) \in S /\ Len(t) = Len(s) - 1
      /\ s[1] = Head(s) /\ 1 \in 1 .. Len(s)
  BY <1>0
<1>2. \A i \in 1 .. Len(t) : i + 1 \in 1 .. Len(s) /\ t[i] = s[i + 1]
  OBVIOUS
<1>3. \A i \in 1 .. Len(s) : i # 1 => i - 1 \in 1 .. Len(t) /\ s[i] = t[i - 1]
  OBVIOUS
<1> HIDE DEF t
<1>4. Elems(s) = {Head(s)} \cup Elems(t)
  <2>1. Elems(s) \subseteq {Head(s)} \cup Elems(t)
    BY <1>1, <1>3 DEF Elems
  <2>2. {Head(s)} \cup Elems(t) \subseteq Elems(s)
    BY <1>1, <1>2 DEF Elems
  <2>3. QED
    BY <2>1, <2>2
<1>5. StartIsLast(s) => StartIsLast(t)
  <2> SUFFICES ASSUME StartIsLast(s), NEW i \in 1 .. Len(t), t[i].op = "start"
               PROVE  i = Len(t)
    BY DEF StartIsLast
  <2>1. i + 1 = Len(s)
    BY <1>2 DEF StartIsLast
  <2>2. QED
    BY <1>0, <1>1, <2>1
<1>6. StartIsLast(s) /\ Head(s).op = "start" => t = <<>>
  <2>1. Len(t) = 0 => t = <<>>
    BY <1>1
  <2>2. QED
    BY <1>0, <1>1, <2>1 DEF StartIsLast
<1>7. QED
  BY <1>1, <1>4, <1>5, <1>6 DEF t

-----------------------------------------------------------------------------
(* Steps of the whole, from what one client or one socket becomes.         *)

\* What is so of each socket and of each client.
LEMMA Known ==
    ASSUME IInv
    PROVE  /\ \A s \in Sockets : socket[s] \in SocketStates /\ LineInv(socket[s], cast.starts)
           /\ \A c \in Clients :
                /\ SocketOf(c) \in Sockets /\ c \in Sockets /\ c # SharedSocket
                /\ client[c] \in ClientStates
                /\ ClientInv(client[c])
                /\ MapInv(c, client[c], socket[SocketOf(c)])
                /\ c \in cast.own => ~ isSocketShared(c) /\ SocketOf(c) = c
                /\ client[c].phase # "none" /\ ~ isSocketShared(c) => c \in cast.own
                /\ c \in cast.own => OwnInv(c, client[c], socket[c])
  BY ClientsAssumption DEF IInv, Types, Sockets, SocketOf, isSocketShared, Played

(* One client moves, and perhaps its socket.                               *)
LEMMA ClientStep ==
    ASSUME IInv, cast' = cast, NEW c \in Clients,
           NEW r \in ClientStates, client' = [client EXCEPT ![c] = r],
           NEW q \in SocketStates, socket' = [socket EXCEPT ![SocketOf(c)] = q],
           q.map \subseteq socket[SocketOf(c)].map \cup {c},
           ClientInv(r), MapInv(c, r, q), LineInv(q, cast.starts),
           Played(c) \/ r.phase = "none",
           c \in cast.own => OwnInv(c, r, q),
           isSocketShared(c) => Line(q) = Line(socket[SharedSocket])
    PROVE  IInv'
<1>1. Types'
  BY Known DEF IInv, Types
<1>2. \A s \in Sockets : socket'[s] = IF s = SocketOf(c) THEN q ELSE socket[s]
  BY Known DEF IInv, Types
<1>3. \A d \in Clients : client'[d] = IF d = c THEN r ELSE client[d]
  BY DEF IInv, Types
<1>4. \A s \in Sockets : LineInv(socket'[s], cast.starts)
  BY <1>2, Known
<1>5. ASSUME NEW d \in Clients
      PROVE  /\ ClientInv(client'[d])
             /\ MapInv(d, client'[d], socket'[SocketOf(d)])
             /\ ~ Played(d) => client'[d].phase = "none"
             /\ d \in cast.own => OwnInv(d, client'[d], socket'[d])
  <2>1. CASE d = c
    BY <2>1, <1>2, <1>3, Known
  <2>2. CASE d # c
    <3>1. client'[d] = client[d] /\ ClientInv(client[d]) /\ (~ Played(d) => client[d].phase = "none")
      BY <2>2, <1>3 DEF IInv
    <3>2. MapInv(d, client[d], socket'[SocketOf(d)])
      BY <2>2, <1>2, Known DEF MapInv
    <3>3. d \in cast.own => d # SocketOf(c)
      BY <2>2, Known, ClientsAssumption DEF SocketOf
    <3>4. QED
      BY <3>1, <3>2, <3>3, <1>2, Known
  <2>3. QED
    BY <2>1, <2>2
<1>6. \A call \in Line(socket'[SharedSocket]) :
         call.op = "start" => call.by = <<SharedSocket, "owner">>
  BY <1>2, Known DEF IInv, SocketOf, Sockets
<1>7. QED
  BY <1>1, <1>4, <1>5, <1>6 DEF IInv, SocketOf, isSocketShared, Played

(* One client moves alone.                                                 *)
LEMMA ClientAlone ==
    ASSUME IInv, cast' = cast, NEW c \in Clients,
           NEW r \in ClientStates, client' = [client EXCEPT ![c] = r], socket' = socket,
           ClientInv(r), MapInv(c, r, socket[SocketOf(c)]),
           Played(c) \/ r.phase = "none",
           c \in cast.own => OwnInv(c, r, socket[c])
    PROVE  IInv'
<1>1. socket[SocketOf(c)] \in SocketStates /\ LineInv(socket[SocketOf(c)], cast.starts)
  BY Known
<1>2. socket' = [socket EXCEPT ![SocketOf(c)] = socket[SocketOf(c)]]
  BY DEF IInv, Types
<1>3. c \in cast.own => SocketOf(c) = c
  BY Known
<1>4. isSocketShared(c) => Line(socket[SocketOf(c)]) = Line(socket[SharedSocket])
  BY DEF SocketOf
<1>5. QED
  BY <1>1, <1>2, <1>3, <1>4, ClientStep

(* One socket moves alone.                                                 *)
LEMMA SocketStep ==
    ASSUME IInv, cast' = cast, client' = client, NEW s \in Sockets,
           NEW q \in SocketStates, socket' = [socket EXCEPT ![s] = q],
           q.map = socket[s].map, LineInv(q, cast.starts),
           s \in cast.own => OwnInv(s, client[s], q),
           s = SharedSocket => \A call \in Line(q) :
             call.op = "start" => call.by = <<SharedSocket, "owner">>
    PROVE  IInv'
<1>1. Types'
  BY DEF IInv, Types
<1>2. \A t \in Sockets : socket'[t] = IF t = s THEN q ELSE socket[t]
  BY DEF IInv, Types
<1>3. \A t \in Sockets : LineInv(socket'[t], cast.starts)
  BY <1>2, Known
<1>4. ASSUME NEW d \in Clients
      PROVE  /\ ClientInv(client[d])
             /\ MapInv(d, client[d], socket'[SocketOf(d)])
             /\ ~ Played(d) => client[d].phase = "none"
             /\ d \in cast.own => OwnInv(d, client[d], socket'[d])
  <2>1. MapInv(d, client[d], socket'[SocketOf(d)])
    BY <1>2, Known DEF MapInv
  <2>2. QED
    BY <2>1, <1>2, Known DEF IInv
<1>5. \A call \in Line(socket'[SharedSocket]) :
         call.op = "start" => call.by = <<SharedSocket, "owner">>
  BY <1>2 DEF IInv, Sockets
<1>6. QED
  BY <1>1, <1>3, <1>4, <1>5 DEF IInv, SocketOf, isSocketShared, Played

-----------------------------------------------------------------------------
(* The events of a client.                                                 *)

\* Of a step of a client that leaves its socket alone.
LEMMA OwnKept ==
    ASSUME NEW c, NEW r, NEW p, NEW q, OwnInv(c, r, q), p.phase = r.phase,
           p.closing \in {r.closing, "connection"}, p.why \in {r.why, "connection"},
           Gone(r) => Gone(p)
    PROVE  OwnInv(c, p, q)
  BY DEF OwnInv

\* What an event of a client keeps.
Kept(r, p) ==
    /\ p \in ClientStates
    /\ ClientInv(p)
    /\ p.phase = r.phase
    /\ p.running = r.running
    /\ p.closing \in {r.closing, "connection"}
    /\ p.listen \subseteq r.listen

LEMMA ErrorKeeps ==
    ASSUME NEW r \in ClientStates, ClientInv(r), NEW why \in {"connection", "socket"}
    PROVE  /\ Kept(r, ErrorEvent(r, why))
           /\ ErrorEvent(r, why).why \in {r.why, why}
<1> DEFINE p == [r EXCEPT !.closing = "connection", !.why = why,
                          !.listen = @ \ {"close", "connectionError"}]
<1>1. Kept(r, r)
  BY DEF Kept
<1>2. ASSUME "close" \in r.listen, "error" \in r.listen
      PROVE  Kept(r, p) /\ p.why = why
  <2>1. p \in ClientStates
    BY DEF ClientStates, Listeners
  <2>2. /\ p.phase = r.phase /\ p.running = r.running /\ p.closed = r.closed
        /\ p.destroy = r.destroy /\ p.closing = "connection" /\ p.why = why
        /\ p.listen = r.listen \ {"close", "connectionError"}
    BY DEF ClientStates
  <2>3. ~ r.closed /\ r.closing = "no" /\ r.destroy # "done" /\ r.running # "no" /\ r.phase # "failed"
    BY <1>2 DEF ClientInv
  <2> HIDE DEF p
  <2>4. ClientInv(p)
    BY <2>2, <2>3 DEF ClientInv, Early, Over
  <2>5. QED
    BY <2>1, <2>2, <2>4 DEF Kept
<1>3. ErrorEvent(r, why) = IF "error" \in r.listen /\ "close" \in r.listen THEN p ELSE r
  BY DEF ErrorEvent, CloseEvent
<1>4. QED
  BY <1>1, <1>2, <1>3

LEMMA ConnectionErrorKeeps ==
    ASSUME NEW r \in ClientStates, ClientInv(r)
    PROVE  /\ Kept(r, ConnectionError(r))
           /\ ConnectionError(r).why \in {r.why, "connection"}
<1> DEFINE left == [r EXCEPT !.quiche = "closing"]
<1>1. left \in ClientStates
  BY DEF ClientStates
<1>2. /\ left.phase = r.phase /\ left.running = r.running /\ left.closed = r.closed
      /\ left.destroy = r.destroy /\ left.closing = r.closing /\ left.why = r.why
      /\ left.listen = r.listen
  BY DEF ClientStates
<1>3. ConnectionError(r) =
        IF "connectionError" \in r.listen THEN ErrorEvent(left, "connection") ELSE left
  BY DEF ConnectionError
<1> HIDE DEF left
<1>4. ClientInv(left)
  BY <1>2 DEF ClientInv, Early, Over
<1>5. Kept(r, left)
  BY <1>1, <1>2, <1>4 DEF Kept
<1>6. Kept(left, ErrorEvent(left, "connection")) /\ ErrorEvent(left, "connection").why \in {r.why, "connection"}
  BY <1>1, <1>2, <1>4, ErrorKeeps
<1>7. QED
  BY <1>2, <1>3, <1>5, <1>6 DEF Kept

LEMMA SocketStoppedKeeps ==
    ASSUME NEW r \in ClientStates, ClientInv(r)
    PROVE  Kept(r, SocketStopped(r))
<1> DEFINE left == [r EXCEPT !.listen = @ \ {"socketStopped"}]
<1>1. left \in ClientStates
  BY DEF ClientStates, Listeners
<1>2. /\ left.phase = r.phase /\ left.running = r.running /\ left.closed = r.closed
      /\ left.destroy = r.destroy /\ left.closing = r.closing /\ left.why = r.why
      /\ left.listen = r.listen \ {"socketStopped"}
  BY DEF ClientStates
<1>3. SocketStopped(r) =
        IF "socketStopped" \in r.listen THEN ErrorEvent(left, "socket") ELSE r
  BY DEF SocketStopped
<1> HIDE DEF left
<1>4. ClientInv(left)
  BY <1>2 DEF ClientInv, Early, Over
<1>5. Kept(left, ErrorEvent(left, "socket"))
  BY <1>1, <1>4, ErrorKeeps
<1>6. QED
  BY <1>2, <1>3, <1>5 DEF Kept

-----------------------------------------------------------------------------
(* The actions of a connection.                                            *)

(* A step of a client alone that keeps its phase, and the connection gone. *)
LEMMA ConnectionStep ==
    ASSUME IInv, cast' = cast, NEW c \in Clients, NEW p \in ClientStates,
           Step(c, p), socket' = socket, ClientInv(p),
           p.phase = client[c].phase, p.closing \in {client[c].closing, "connection"},
           p.why \in {client[c].why, "connection"}, Gone(client[c]) => Gone(p),
           p.running = "stopped" => client[c].running = "stopped"
    PROVE  IInv'
<1>1. Played(c) \/ p.phase = "none"
  BY DEF IInv
<1>2. MapInv(c, p, socket[SocketOf(c)])
  BY Known DEF MapInv
<1>3. c \in cast.own => OwnInv(c, p, socket[c])
  BY Known, OwnKept
<1>4. QED
  BY <1>1, <1>2, <1>3, ClientAlone DEF Step

LEMMA ErrorStep ==
    ASSUME IInv, cast' = cast, NEW c \in Clients,
           Step(c, ConnectionError(client[c])), socket' = socket
    PROVE  IInv'
<1>1. client[c] \in ClientStates /\ ClientInv(client[c])
  BY Known
<1>2. /\ Kept(client[c], ConnectionError(client[c]))
      /\ ConnectionError(client[c]).why \in {client[c].why, "connection"}
  BY <1>1, ConnectionErrorKeeps
<1> DEFINE p == ConnectionError(client[c])
<1> HIDE DEF p
<1>3. Kept(client[c], p) /\ p.why \in {client[c].why, "connection"} /\ Step(c, p)
  BY <1>2 DEF p
<1>4. QED
  BY <1>3, ConnectionStep DEF Kept, Gone, Early

(* A step that only moves the connection on.                               *)
LEMMA MovesOn ==
    ASSUME IInv, cast' = cast, NEW c \in Clients, NEW p \in ClientStates,
           Step(c, p), socket' = socket,
           \A f \in {"phase", "listen", "closing", "why", "closed", "destroy"} :
             p[f] = client[c][f],
           <<client[c].running, p.running>> \in
             {<<"starting", "running">>, <<"starting", "failed">>, <<"running", "stopping">>,
              <<"running", "waiting">>, <<"waiting", "stopping">>}
           \/ p.running = client[c].running
    PROVE  IInv'
<1>1. client[c] \in ClientStates /\ ClientInv(client[c])
  BY Known
<1>2. /\ p.phase = client[c].phase /\ p.listen = client[c].listen
      /\ p.closing = client[c].closing /\ p.why = client[c].why
      /\ p.closed = client[c].closed /\ p.destroy = client[c].destroy
  OBVIOUS
<1>3. /\ p.running # client[c].running => ~ Early(client[c])
      /\ Over(client[c]) => p.running = client[c].running
      /\ p.running = "stopped" => client[c].running = "stopped"
      /\ p.running \in {"starting", "running", "waiting", "stopping"} =>
           client[c].running \in {"starting", "running", "waiting", "stopping"}
      /\ p.running # client[c].running => client[c].phase \notin {"undo", "failed"}
      /\ client[c].running = "starting" => client[c].phase # "made"
      /\ p.running = "no" => client[c].running = "no"
      /\ p.running \in {client[c].running, "running", "waiting", "stopping", "failed"}
      /\ p.running = "failed" => client[c].running \in {"starting", "failed"}
  BY <1>1 DEF ClientInv, Early, Over
<1>4. ClientInv(p)
  BY <1>1, <1>2, <1>3 DEF ClientInv, Early, Over
<1>5. QED
  BY <1>2, <1>3, <1>4, ConnectionStep DEF Gone, Early, Over

LEMMA ConnectionMovesOn ==
    ASSUME IInv, cast' = cast, NEW c \in Clients,
           \/ Established(c) \/ StartReturns(c) \/ Drained(c) \/ StartFails(c)
           \/ StopsConnection(c) \/ StreamsEnd(c)
    PROVE  IInv'
<1>1. client[c] \in ClientStates /\ ClientInv(client[c])
  BY Known
<1>2. CASE Established(c)
  BY <1>1, <1>2, MovesOn DEF Established, ClientStates, Step
<1>3. CASE StartReturns(c)
  BY <1>1, <1>3, MovesOn DEF StartReturns, ClientStates, Step
<1>4. CASE Drained(c)
  BY <1>1, <1>4, MovesOn DEF Drained, ClientStates, Step
<1>5. CASE StartFails(c)
  BY <1>1, <1>5, MovesOn DEF StartFails, ClientStates, Step
<1>6. CASE StopsConnection(c)
  <2>1. PICK next \in {"stopping", "waiting"} : Step(c, [client[c] EXCEPT !.running = next])
    BY <1>6 DEF StopsConnection
  <2>2. client[c].running = "running" /\ socket' = socket
    BY <1>6 DEF StopsConnection
  <2>3. QED
    BY <1>1, <2>1, <2>2, MovesOn DEF ClientStates, Step
<1>7. CASE StreamsEnd(c)
  BY <1>1, <1>7, MovesOn DEF StreamsEnd, ClientStates, Step
<1>8. QED
  BY <1>2, <1>3, <1>4, <1>5, <1>6, <1>7

LEMMA ConnectionErrs ==
    ASSUME IInv, cast' = cast, NEW c \in Clients,
           Aborted(c) \/ ConnectionFails(c) \/ ClosesConnection(c)
    PROVE  IInv'
<1>1. Step(c, ConnectionError(client[c])) /\ socket' = socket
  BY DEF Aborted, ConnectionFails, ClosesConnection
<1>2. QED
  BY <1>1, ErrorStep

LEMMA ConnectionEnds ==
    ASSUME IInv, cast' = cast, NEW c \in Clients, ConnectionStopped(c)
    PROVE  IInv'
<1> DEFINE r == client[c]
           q == socket[SocketOf(c)]
           p == [r EXCEPT !.running = "stopped",
                          !.listen = @ \ {"connectionError", "connectionStopped"}]
           e == [q EXCEPT !.map = @ \ {c}]
<1>1. r \in ClientStates /\ ClientInv(r) /\ q \in SocketStates /\ LineInv(q, cast.starts)
  BY Known
<1>2. /\ r.running = "stopping" /\ "connectionStopped" \in r.listen /\ ~ Early(r)
      /\ r.phase \notin {"undo", "failed"} /\ r.phase # "none"
  BY <1>1 DEF ConnectionStopped, ClientInv, Early
<1>3. p \in ClientStates /\ e \in SocketStates
  BY <1>1 DEF ClientStates, Listeners, SocketStates
<1>4. /\ p.phase = r.phase /\ p.running = "stopped" /\ p.closed = r.closed
      /\ p.destroy = r.destroy /\ p.closing = r.closing /\ p.why = r.why
      /\ p.listen = r.listen \ {"connectionError", "connectionStopped"}
  BY <1>1 DEF ClientStates
<1>5. /\ e.running = q.running /\ e.starts = q.starts /\ e.handler = q.handler
      /\ e.map = q.map \ {c} /\ e.holder = q.holder /\ e.queue = q.queue
  BY <1>1 DEF SocketStates
<1>6. client' = [client EXCEPT ![c] = p]
  BY DEF ConnectionStopped, Step
<1>7. socket' = [socket EXCEPT ![SocketOf(c)] = e]
  BY <1>2 DEF ConnectionStopped
<1> HIDE DEF p, e
<1>8. ClientInv(p)
  BY <1>1, <1>2, <1>4 DEF ClientInv, Early, Over
<1>9. MapInv(c, p, e)
  BY <1>5 DEF MapInv
<1>10. LineInv(e, cast.starts) /\ Line(e) = Line(q)
  BY <1>1, <1>5 DEF LineInv, Line
<1>11. ASSUME c \in cast.own PROVE OwnInv(c, p, e)
  <2>1. OwnInv(c, r, q)
    BY <1>11, Known
  <2>2. QED
    BY <2>1, <1>2, <1>4, <1>5, <1>10 DEF OwnInv, Gone, Early, StopBy
<1>12. Played(c)
  BY <1>2 DEF IInv
<1>13. QED
  BY <1>3, <1>5, <1>6, <1>7, <1>8, <1>9, <1>10, <1>11, <1>12, ClientStep DEF SocketOf

-----------------------------------------------------------------------------
(* The end of a client.                                                    *)

(* A step of a client alone that comes to its end: an encapsulated socket  *)
(* does not run any more when the close event has been handled.            *)
LEMMA EndStep ==
    ASSUME IInv, cast' = cast, NEW c \in Clients, NEW p \in ClientStates,
           Step(c, p), socket' = socket, ClientInv(p),
           p.phase = client[c].phase, p.running = client[c].running,
           p.why = client[c].why,
           \/ p.closing = client[c].closing
           \/ p.closing = "done" /\ (c \in cast.own => ~ socket[c].running)
    PROVE  IInv'
<1>1. Played(c) \/ p.phase = "none"
  BY DEF IInv
<1>2. MapInv(c, p, socket[SocketOf(c)])
  BY Known DEF MapInv
<1>3. ASSUME c \in cast.own PROVE OwnInv(c, p, socket[c])
  <2>1. OwnInv(c, client[c], socket[c])
    BY <1>3, Known
  <2>2. QED
    BY <2>1, <1>3 DEF OwnInv, Gone, Early
<1>4. QED
  BY <1>1, <1>2, <1>3, ClientAlone DEF Step

LEMMA DestroySteps ==
    ASSUME IInv, cast' = cast, NEW c \in Clients,
           Destroy(c) \/ DestroyAfterConnection(c) \/ Destroyed(c)
    PROVE  IInv'
<1> DEFINE r == client[c]
<1>1. r \in ClientStates /\ ClientInv(r)
  BY Known
<1>2. CASE Destroy(c)
  <2>0. PICK force \in BOOLEAN :
          Step(c, [r EXCEPT !.destroy = "connection", !.force = force])
    BY <1>2 DEF Destroy
  <2> DEFINE p == [r EXCEPT !.destroy = "connection", !.force = force]
  <2>1. p \in ClientStates
    BY <1>1 DEF ClientStates
  <2>2. /\ p.phase = r.phase /\ p.running = r.running /\ p.closed = r.closed
        /\ p.destroy = "connection" /\ p.closing = r.closing /\ p.why = r.why
        /\ p.listen = r.listen
    BY <1>1 DEF ClientStates
  <2>3. Step(c, p) /\ socket' = socket /\ r.phase = "made"
    BY <1>2, <2>0 DEF Destroy
  <2> HIDE DEF p
  <2>4. ClientInv(p)
    BY <1>1, <2>2, <2>3 DEF ClientInv, Early, Over
  <2>5. QED
    BY <2>1, <2>2, <2>3, <2>4, EndStep
<1>3. CASE DestroyAfterConnection(c)
  <2> DEFINE p == [r EXCEPT !.destroy = "closedP"]
  <2>1. p \in ClientStates
    BY <1>1 DEF ClientStates
  <2>2. /\ p.phase = r.phase /\ p.running = r.running /\ p.closed = r.closed
        /\ p.destroy = "closedP" /\ p.closing = r.closing /\ p.why = r.why
        /\ p.listen = r.listen
    BY <1>1 DEF ClientStates
  <2>3. Step(c, p) /\ socket' = socket /\ Over(r)
    BY <1>3 DEF DestroyAfterConnection, ConnectionOver, Over
  <2> HIDE DEF p
  <2>4. ClientInv(p)
    BY <1>1, <2>2, <2>3 DEF ClientInv, Early, Over
  <2>5. QED
    BY <2>1, <2>2, <2>3, <2>4, EndStep
<1>4. CASE Destroyed(c)
  <2> DEFINE p == [r EXCEPT !.destroy = "done",
                            !.listen = @ \ {"error", "close", "socketStopped"}]
  <2>1. p \in ClientStates
    BY <1>1 DEF ClientStates, Listeners
  <2>2. /\ p.phase = r.phase /\ p.running = r.running /\ p.closed = r.closed
        /\ p.destroy = "done" /\ p.closing = r.closing /\ p.why = r.why
        /\ p.listen = r.listen \ {"error", "close", "socketStopped"}
    BY <1>1 DEF ClientStates
  <2>3. Step(c, p) /\ socket' = socket /\ r.closed /\ r.destroy = "closedP"
    BY <1>4 DEF Destroyed
  <2> HIDE DEF p
  <2>4. ClientInv(p)
    BY <1>1, <2>2, <2>3 DEF ClientInv, Early, Over
  <2>5. QED
    BY <2>1, <2>2, <2>3, <2>4, EndStep
<1>5. QED
  BY <1>2, <1>3, <1>4

(* The end of the handler of the close event.                              *)
LEMMA ClosedStep ==
    ASSUME IInv, cast' = cast, NEW c \in Clients,
           Step(c, ClosedEnd(client[c])), socket' = socket,
           client[c].closing \in {"connection", "socket"}, Over(client[c]),
           c \in cast.own => ~ socket[c].running
    PROVE  IInv'
<1> DEFINE r == client[c]
           p == ClosedEnd(r)
<1>1. r \in ClientStates /\ ClientInv(r)
  BY Known
<1>2. p \in ClientStates
  BY <1>1 DEF ClientStates, ClosedEnd
<1>3. /\ p.phase = r.phase /\ p.running = r.running /\ p.closed = TRUE
      /\ p.destroy = (IF r.destroy = "no" THEN "closedP" ELSE r.destroy)
      /\ p.closing = "done" /\ p.why = r.why /\ p.listen = r.listen
  BY <1>1 DEF ClientStates, ClosedEnd
<1>4. Step(c, p)
  OBVIOUS
<1> HIDE DEF p
<1>5. ClientInv(p)
  BY <1>1, <1>3 DEF ClientInv, Early, Over
<1>6. QED
  BY <1>2, <1>3, <1>4, <1>5, EndStep

-----------------------------------------------------------------------------
(* The calls in the line of a socket.                                      *)

LEMMA CallIs ==
    ASSUME IInv, NEW s \in Sockets, NEW op \in {"start", "stop"}, NEW by \in Callers
    PROVE  /\ Call(op, by, s) \in AnyCall
           /\ Call(op, by, s).op = op /\ Call(op, by, s).by = by
           /\ Call(op, by, s).era = socket[s].starts /\ Call(op, by, s).force
  BY Known DEF Call, AnyCall, SocketStates

\* Whoever does not wait has no call in the line.
LEMMA NotWaiting ==
    ASSUME IInv, NEW s \in Sockets, NEW by, ~ Waits(s, by)
    PROVE  \A call \in Line(socket[s]) : call.by # by
<1> DEFINE a == socket[s].holder
           b == socket[s].queue
<1>1. a \in Seq(AnyCall) /\ b \in Seq(AnyCall)
  BY Known DEF SocketStates
<1>2. \A i \in DOMAIN (a \o b) : (a \o b)[i].by # by
  BY DEF Waits
<1> HIDE DEF a, b
<1>3. \A i \in 1 .. Len(a) : i \in DOMAIN (a \o b) /\ (a \o b)[i] = a[i]
  BY <1>1
<1>4. \A i \in 1 .. Len(b) : Len(a) + i \in DOMAIN (a \o b) /\ (a \o b)[Len(a) + i] = b[i]
  BY <1>1
<1>5. \A call \in Elems(a) \cup Elems(b) : call.by # by
  BY <1>2, <1>3, <1>4 DEF Elems
<1>6. QED
  BY <1>5 DEF Line, a, b

LEMMA LineCalls ==
    ASSUME NEW q \in SocketStates
    PROVE  Line(q) \subseteq AnyCall /\ Elems(q.queue) \subseteq Line(q) /\ Elems(q.holder) \subseteq Line(q)
<1>1. q.holder \in Seq(AnyCall) /\ q.queue \in Seq(AnyCall)
  BY DEF SocketStates
<1>2. \A i \in 1 .. Len(q.holder) : q.holder[i] \in AnyCall
  BY <1>1
<1>3. \A i \in 1 .. Len(q.queue) : q.queue[i] \in AnyCall
  BY <1>1
<1>4. QED
  BY <1>2, <1>3 DEF Line, Elems

(* A call gets in line behind calls of stop.                               *)
LEMMA GetsInLine ==
    ASSUME NEW q \in SocketStates, NEW starts \in Nat, LineInv(q, starts),
           \A x \in Line(q) : x.op = "stop",
           NEW call \in AnyCall, call.era = q.starts,
           call.op = "start" => ~ q.running /\ q.starts < starts,
           NEW e \in SocketStates, e.queue = Append(q.queue, call), e.holder = q.holder,
           e.running = q.running, e.starts = q.starts
    PROVE  LineInv(e, starts) /\ Line(e) = Line(q) \cup {call}
<1>1. q.queue \in Seq(AnyCall) /\ q.starts \in Nat
  BY DEF SocketStates
<1>2. \A x \in Elems(q.queue) \cup Elems(q.holder) : x.op # "start"
  BY DEF Line
<1>3. Elems(e.queue) = Elems(q.queue) \cup {call} /\ StartIsLast(e.queue)
  BY <1>1, <1>2, Appended
<1>4. Line(e) = Line(q) \cup {call}
  BY <1>3 DEF Line
<1>5. \A x \in Line(e) : IF x.op = "start" THEN ~ e.running /\ e.starts < starts /\ x.era <= starts
                          ELSE x.era = e.starts
  BY <1>1, <1>4 DEF LineInv
<1>6. QED
  BY <1>2, <1>3, <1>4, <1>5 DEF LineInv

(* A client, whose connection is gone, calls stop on its own socket.       *)
LEMMA StopQueued ==
    ASSUME IInv, cast' = cast, NEW c \in Clients, c \in cast.own,
           NEW p \in ClientStates, Step(c, p), ClientInv(p), Gone(p),
           p.why = client[c].why, p.phase = "failed" => client[c].phase = "failed",
           NEW k \in {"create", "close"},
           p.phase = "undo" => k = "create" \/ client[c].phase = "undo",
           p.closing = "socket" => k = "close" \/ client[c].closing = "socket",
           p.closing = "done" => client[c].closing = "done",
           NEW e \in SocketStates, socket' = [socket EXCEPT ![c] = e],
           e.queue = Append(socket[c].queue, Call("stop", <<c, k>>, c)),
           e.holder = socket[c].holder, e.running = socket[c].running,
           e.starts = socket[c].starts, e.map \subseteq socket[c].map, MapInv(c, p, e),
           \A call \in Line(socket[c]) : call.op = "stop"
    PROVE  IInv'
<1> DEFINE q == socket[c]
           stop == Call("stop", <<c, k>>, c)
<1>1. /\ c \in Sockets /\ q \in SocketStates /\ LineInv(q, cast.starts) /\ SocketOf(c) = c
      /\ ~ isSocketShared(c) /\ OwnInv(c, client[c], q) /\ client[c] \in ClientStates
      /\ ClientInv(client[c])
  BY Known
<1>2. /\ stop \in AnyCall /\ stop.op = "stop" /\ stop.by = <<c, k>>
      /\ stop.era = q.starts /\ stop.force
  BY <1>1, CallIs DEF Callers
<1>3. cast.starts \in Nat
  BY ClientsAssumption DEF IInv, Types
<1> HIDE DEF stop
<1>4. e.queue = Append(q.queue, stop)
  BY DEF stop
<1>5. LineInv(e, cast.starts) /\ Line(e) = Line(q) \cup {stop}
  BY <1>1, <1>2, <1>3, <1>4, GetsInLine
<1>6. StopBy(e, <<c, k>>) /\ \A by : StopBy(q, by) => StopBy(e, by)
  BY <1>2, <1>5 DEF StopBy
<1>7. OwnInv(c, p, e)
  BY <1>1, <1>2, <1>5, <1>6 DEF OwnInv, Gone, Early
<1>8. e.map \subseteq socket[SocketOf(c)].map \cup {c} /\ socket' = [socket EXCEPT ![SocketOf(c)] = e]
  BY <1>1
<1>9. Played(c)
  BY DEF Played
<1>10. QED
  BY <1>1, <1>5, <1>7, <1>8, <1>9, ClientStep DEF Step

\* A start is only in line while the client waits for its socket.
LEMMA StopsOnly ==
    ASSUME IInv, NEW c \in Clients, c \in cast.own,
           client[c].phase # "socket" \/ ~ Waits(c, <<c, "create">>) \/ socket[c].running
    PROVE  \A call \in Line(socket[c]) : call.op = "stop"
<1>1. /\ socket[c] \in SocketStates /\ LineInv(socket[c], cast.starts) /\ c \in Sockets
      /\ OwnInv(c, client[c], socket[c])
  BY Known
<1>2. \A call \in Line(socket[c]) : call.op \in {"start", "stop"}
  BY <1>1, LineCalls DEF AnyCall
<1>3. ~ Waits(c, <<c, "create">>) => \A call \in Line(socket[c]) : call.by # <<c, "create">>
  BY <1>1, NotWaiting
<1>4. QED
  BY <1>1, <1>2, <1>3 DEF OwnInv, LineInv

LEMMA AfterSteps ==
    ASSUME IInv, cast' = cast, NEW c \in Clients, AfterConnection(c) \/ AfterSocket(c)
    PROVE  IInv'
<1> DEFINE r == client[c]
           q == socket[c]
<1>1. /\ r \in ClientStates /\ ClientInv(r) /\ c \in Sockets /\ q \in SocketStates
      /\ LineInv(q, cast.starts)
      /\ c \in cast.own => OwnInv(c, r, q) /\ SocketOf(c) = c /\ ~ isSocketShared(c)
  BY Known
<1>2. r.closing # "no" => ~ Early(r) /\ r.running # "no"
  BY <1>1 DEF ClientInv
<1>3. CASE AfterConnection(c) /\ StopsSocket(c)
  <2> DEFINE p == [r EXCEPT !.closing = "socket", !.listen = @ \ {"socketStopped"}]
             e == [q EXCEPT !.queue = Append(@, Call("stop", <<c, "close">>, c))]
  <2>1. /\ r.closing = "connection" /\ Over(r) /\ Step(c, p)
        /\ socket' = Queued(c, Call("stop", <<c, "close">>, c)) /\ ~ isSocketShared(c)
    BY <1>3 DEF AfterConnection, StopsSocket, ConnectionOver, Over
  <2>2. c \in cast.own /\ r.phase # "socket"
    BY <1>2, <2>1, Known DEF Early
  <2>3. p \in ClientStates
    BY <1>1 DEF ClientStates, Listeners
  <2>4. /\ p.phase = r.phase /\ p.running = r.running /\ p.closed = r.closed
        /\ p.destroy = r.destroy /\ p.closing = "socket" /\ p.why = r.why
        /\ p.listen = r.listen \ {"socketStopped"}
    BY <1>1 DEF ClientStates
  <2>5. Call("stop", <<c, "close">>, c) \in AnyCall
    BY <1>1, CallIs DEF Callers
  <2>6. e \in SocketStates
    BY <1>1, <2>5, Appended DEF SocketStates
  <2>7. /\ e.queue = Append(q.queue, Call("stop", <<c, "close">>, c)) /\ e.holder = q.holder
        /\ e.running = q.running /\ e.starts = q.starts /\ e.map = q.map
    BY <1>1 DEF SocketStates
  <2>8. socket' = [socket EXCEPT ![c] = e]
    BY <2>1 DEF Queued
  <2> HIDE DEF p, e
  <2>9. ClientInv(p)
    BY <1>1, <2>1, <2>4 DEF ClientInv, Early, Over
  <2>10. MapInv(c, p, e)
    BY <2>2, <2>4, <2>7, Known DEF MapInv
  <2>11. \A call \in Line(q) : call.op = "stop"
    BY <2>2, StopsOnly
  <2>12. QED
    BY <1>1, <1>2, <2>1, <2>2, <2>3, <2>4, <2>6, <2>7, <2>8, <2>9, <2>10, <2>11, StopQueued
       DEF Gone, Over, Early
<1>4. CASE AfterConnection(c) /\ ~ StopsSocket(c)
  <2>1. c \in cast.own => ~ q.running
    BY <1>1, <1>4 DEF StopsSocket, OwnInv
  <2>2. QED
    BY <1>4, <2>1, ClosedStep DEF AfterConnection, ConnectionOver, Over
<1>5. CASE AfterSocket(c)
  <2>1. c \in cast.own => ~ q.running
    BY <1>1, <1>5, NotWaiting DEF AfterSocket, OwnInv, StopBy
  <2>2. Over(r)
    BY <1>1, <1>5 DEF AfterSocket, ClientInv
  <2>3. QED
    BY <1>5, <2>1, <2>2, ClosedStep DEF AfterSocket
<1>6. QED
  BY <1>3, <1>4, <1>5

-----------------------------------------------------------------------------
(* The creation of a client.                                               *)

(* A client that waits for its socket has no call left in its line when    *)
(* its own call is over.                                                   *)
LEMMA NoneInLine ==
    ASSUME IInv, NEW c \in Clients, c \in cast.own, client[c].phase = "socket",
           ~ Waits(c, <<c, "create">>)
    PROVE  Line(socket[c]) = {}
<1>1. OwnInv(c, client[c], socket[c])
  BY Known
<1>2. \A call \in Line(socket[c]) : call.op = "stop"
  BY StopsOnly
<1>3. QED
  BY <1>1, <1>2 DEF OwnInv, Gone, Early

\* The creation fails before there is a connection.
LEMMA FailsEarly ==
    ASSUME IInv, cast' = cast, NEW c \in Clients,
           Step(c, [client[c] EXCEPT !.phase = "failed"]), socket' = socket,
           Played(c), Early(client[c]),
           c \in cast.own => Line(socket[c]) = {} /\ ~ socket[c].running
    PROVE  IInv'
<1> DEFINE r == client[c]
           p == [r EXCEPT !.phase = "failed"]
<1>1. r \in ClientStates /\ ClientInv(r) /\ MapInv(c, r, socket[SocketOf(c)])
      /\ (c \in cast.own => OwnInv(c, r, socket[c]))
  BY Known
<1>2. p \in ClientStates /\ Step(c, p)
  BY <1>1 DEF ClientStates
<1>3. /\ p.phase = "failed" /\ p.running = r.running /\ p.closed = r.closed
      /\ p.destroy = r.destroy /\ p.closing = r.closing /\ p.why = r.why
      /\ p.listen = r.listen
  BY <1>1 DEF ClientStates
<1> HIDE DEF p
<1>4. ClientInv(p)
  BY <1>1, <1>3 DEF ClientInv, Early, Over
<1>5. MapInv(c, p, socket[SocketOf(c)])
  BY <1>1 DEF MapInv, Early
<1>6. r.running = "no" /\ r.closing = "no" /\ r.why = "none"
  BY <1>1 DEF ClientInv
<1>7. ASSUME c \in cast.own PROVE OwnInv(c, p, socket[c])
  BY <1>1, <1>3, <1>6, <1>7 DEF OwnInv, Gone, Early
<1>8. QED
  BY <1>2, <1>4, <1>5, <1>7, ClientAlone DEF Step

LEMMA CreateOwnStep ==
    ASSUME IInv, cast' = cast, NEW c \in Clients, CreateOwn(c)
    PROVE  IInv'
<1> DEFINE r == client[c]
           q == socket[c]
           call == Call("start", <<c, "create">>, c)
           p == [r EXCEPT !.phase = "socket"]
           e == [q EXCEPT !.queue = Append(@, call)]
<1>1. /\ r \in ClientStates /\ ClientInv(r) /\ c \in Sockets /\ q \in SocketStates
      /\ LineInv(q, cast.starts) /\ c \in cast.own /\ r.phase = "none"
      /\ OwnInv(c, r, q) /\ SocketOf(c) = c /\ ~ isSocketShared(c) /\ MapInv(c, r, q)
  BY Known DEF CreateOwn
<1>2. Step(c, p) /\ socket' = [socket EXCEPT ![c] = e]
  BY DEF CreateOwn, Queued
<1>3. call \in AnyCall /\ call.op = "start" /\ call.by = <<c, "create">> /\ call.era = q.starts /\ call.force
  BY <1>1, CallIs DEF Callers
<1> HIDE DEF call
<1>4. q.holder = <<>> /\ q.queue = <<>> /\ ~ q.running /\ q.starts = 0 /\ q.handler = "off"
  BY <1>1 DEF OwnInv
<1>5. cast.starts \in Nat /\ 0 < cast.starts
  BY ClientsAssumption DEF IInv, Types
<1>6. p \in ClientStates /\ e \in SocketStates
  BY <1>1, <1>3, Appended DEF ClientStates, SocketStates
<1>7. /\ p.phase = "socket" /\ p.running = r.running /\ p.closed = r.closed
      /\ p.destroy = r.destroy /\ p.closing = r.closing /\ p.why = r.why
      /\ p.listen = r.listen
  BY <1>1 DEF ClientStates
<1>8. /\ e.queue = Append(q.queue, call) /\ e.holder = q.holder /\ e.handler = q.handler
      /\ e.running = q.running /\ e.starts = q.starts /\ e.map = q.map
  BY <1>1 DEF SocketStates
<1> HIDE DEF p, e
<1>9. Line(q) = {}
  BY <1>4, NoElems DEF Line
<1>10. LineInv(e, cast.starts) /\ Line(e) = {call}
  <2>1. \A x \in Line(q) : x.op = "stop"
    BY <1>9
  <2>2. ~ q.running /\ q.starts < cast.starts
    BY <1>4, <1>5
  <2> HIDE DEF q
  <2>3. LineInv(e, cast.starts) /\ Line(e) = Line(q) \cup {call}
    BY <1>1, <1>3, <1>5, <1>6, <1>8, <2>1, <2>2, GetsInLine
  <2>4. QED
    BY <2>3, <1>9
<1>11. r.running = "no" /\ r.closing = "no" /\ r.why = "none"
  BY <1>1 DEF ClientInv, Early
<1>12. ClientInv(p)
  BY <1>1, <1>7, <1>11 DEF ClientInv, Early, Over
<1>13. MapInv(c, p, e)
  BY <1>1, <1>8 DEF MapInv
<1>14. OwnInv(c, p, e)
  BY <1>3, <1>4, <1>7, <1>8, <1>10, <1>11 DEF OwnInv
<1>15. QED
  BY <1>1, <1>2, <1>6, <1>8, <1>10, <1>12, <1>13, <1>14, ClientStep DEF Step, Played

LEMMA FailedSteps ==
    ASSUME IInv, cast' = cast, NEW c \in Clients, OwnNotBound(c) \/ SharedNotRunning(c)
    PROVE  IInv'
<1>1. CASE OwnNotBound(c)
  BY <1>1, NoneInLine, FailsEarly, Known DEF OwnNotBound, Early, Played
<1>2. CASE SharedNotRunning(c)
  BY <1>2, FailsEarly, Known DEF SharedNotRunning, Early, Played
<1>3. QED
  BY <1>1, <1>2

LEMMA InvalidStep ==
    ASSUME IInv, cast' = cast, NEW c \in Clients, Invalid(c)
    PROVE  IInv'
<1> DEFINE r == client[c]
           q == socket[c]
<1>1. Early(r) /\ socket[SocketOf(c)].running
  BY DEF Invalid, SocketReady, Early
<1>2. CASE isSocketShared(c)
  BY <1>1, <1>2, FailsEarly, Known DEF Invalid, Played
<1>3. CASE ~ isSocketShared(c)
  <2> DEFINE p == [r EXCEPT !.phase = "undo"]
             e == [q EXCEPT !.queue = Append(@, Call("stop", <<c, "create">>, c))]
  <2>1. /\ r.phase = "socket" /\ Step(c, p)
        /\ socket' = Queued(c, Call("stop", <<c, "create">>, c))
    BY <1>3 DEF Invalid, SocketReady
  <2>2. c \in cast.own
    BY <1>3, <2>1, Known
  <2>3. /\ r \in ClientStates /\ ClientInv(r) /\ c \in Sockets /\ q \in SocketStates
        /\ SocketOf(c) = c /\ MapInv(c, r, q)
    BY <2>2, Known
  <2>4. Call("stop", <<c, "create">>, c) \in AnyCall
    BY <2>3, CallIs DEF Callers
  <2>5. p \in ClientStates /\ e \in SocketStates
    BY <2>3, <2>4, Appended DEF ClientStates, SocketStates
  <2>6. /\ p.phase = "undo" /\ p.running = r.running /\ p.closed = r.closed
        /\ p.destroy = r.destroy /\ p.closing = r.closing /\ p.why = r.why
        /\ p.listen = r.listen
    BY <2>3 DEF ClientStates
  <2>7. /\ e.queue = Append(q.queue, Call("stop", <<c, "create">>, c)) /\ e.holder = q.holder
        /\ e.running = q.running /\ e.starts = q.starts /\ e.map = q.map
    BY <2>3 DEF SocketStates
  <2>8. socket' = [socket EXCEPT ![c] = e]
    BY <2>1 DEF Queued
  <2> HIDE DEF p, e
  <2>9. r.running = "no" /\ r.closing = "no"
    BY <1>1, <2>3 DEF ClientInv
  <2>10. ClientInv(p) /\ Gone(p)
    BY <2>3, <2>6, <2>9 DEF ClientInv, Early, Over, Gone
  <2>11. MapInv(c, p, e)
    BY <2>1, <2>3, <2>7 DEF MapInv
  <2>12. \A call \in Line(q) : call.op = "stop"
    BY <1>1, <2>2, <2>3, StopsOnly
  <2>13. QED
    BY <2>1, <2>2, <2>5, <2>6, <2>7, <2>8, <2>9, <2>10, <2>11, <2>12, StopQueued
<1>4. QED
  BY <1>2, <1>3

LEMMA StartConnectionStep ==
    ASSUME IInv, cast' = cast, NEW c \in Clients, StartConnection(c)
    PROVE  IInv'
<1> DEFINE r == client[c]
           q == socket[SocketOf(c)]
           e == [q EXCEPT !.map = @ \cup {c}]
<1>1. /\ r \in ClientStates /\ ClientInv(r) /\ q \in SocketStates /\ LineInv(q, cast.starts)
      /\ MapInv(c, r, q)
      /\ c \in cast.own => OwnInv(c, r, q) /\ SocketOf(c) = c
  BY Known
<1>2. Early(r) /\ Played(c)
  BY Known DEF StartConnection, SocketReady, Early, Played
<1>3. PICK start \in {"starting", "failed"} :
        Step(c, [r EXCEPT !.phase = "connection", !.listen = Listeners, !.running = start])
  BY DEF StartConnection
<1> DEFINE p == [r EXCEPT !.phase = "connection", !.listen = Listeners, !.running = start]
<1>4. p \in ClientStates /\ e \in SocketStates /\ Step(c, p)
  BY <1>1, <1>3 DEF ClientStates, SocketStates
<1>5. /\ p.phase = "connection" /\ p.running = start /\ p.closed = r.closed
      /\ p.destroy = r.destroy /\ p.closing = r.closing /\ p.why = r.why
      /\ p.listen = Listeners
  BY <1>1 DEF ClientStates
<1>6. /\ e.queue = q.queue /\ e.holder = q.holder /\ e.handler = q.handler
      /\ e.running = q.running /\ e.starts = q.starts /\ e.map = q.map \cup {c}
  BY <1>1 DEF SocketStates
<1>7. socket' = [socket EXCEPT ![SocketOf(c)] = e]
  BY DEF StartConnection
<1> HIDE DEF p, e
<1>8. r.closing = "no" /\ r.why = "none" /\ ~ r.closed /\ r.destroy = "no"
  BY <1>1, <1>2 DEF ClientInv
<1>9. ClientInv(p)
  BY <1>5, <1>8 DEF ClientInv, Early, Over, Listeners
<1>10. MapInv(c, p, e)
  BY <1>5 DEF MapInv
<1>11. LineInv(e, cast.starts) /\ Line(e) = Line(q)
  BY <1>1, <1>6 DEF LineInv, Line
<1>12. ASSUME c \in cast.own PROVE OwnInv(c, p, e)
  <2>1. r.phase = "socket" /\ ~ Waits(c, <<c, "create">>)
    BY <1>12, Known DEF StartConnection, SocketReady
  <2>2. Line(e) = {}
    BY <1>1, <1>11, <1>12, <2>1, NoneInLine
  <2>3. q.handler # "closing"
    BY <1>1, <1>2, <1>12 DEF OwnInv, Gone
  <2>4. QED
    BY <1>5, <1>6, <1>8, <2>2, <2>3 DEF OwnInv
<1>13. QED
  BY <1>2, <1>4, <1>6, <1>7, <1>9, <1>10, <1>11, <1>12, ClientStep DEF Step, SocketOf

LEMMA CreatedStep ==
    ASSUME IInv, cast' = cast, NEW c \in Clients, Created(c)
    PROVE  IInv'
<1> DEFINE r == client[c]
           p == [r EXCEPT !.phase = "made"]
<1>1. /\ r \in ClientStates /\ ClientInv(r) /\ MapInv(c, r, socket[SocketOf(c)])
      /\ c \in cast.own => OwnInv(c, r, socket[c])
  BY Known
<1>2. p \in ClientStates
  BY <1>1 DEF ClientStates
<1>3. /\ p.phase = "made" /\ p.running = r.running /\ p.closed = r.closed
      /\ p.destroy = r.destroy /\ p.closing = r.closing /\ p.why = r.why
      /\ p.listen = r.listen
  BY <1>1 DEF ClientStates
<1>4. /\ Step(c, p) /\ socket' = socket /\ r.phase = "connection"
      /\ r.running \in {"running", "waiting", "stopping", "stopped"}
  BY DEF Created
<1> HIDE DEF p
<1>5. ClientInv(p)
  BY <1>1, <1>3, <1>4 DEF ClientInv, Early, Over
<1>6. MapInv(c, p, socket[SocketOf(c)])
  BY <1>1, <1>3 DEF MapInv
<1>7. ASSUME c \in cast.own PROVE OwnInv(c, p, socket[c])
  BY <1>1, <1>3, <1>4, <1>7 DEF OwnInv, Gone, Early
<1>8. Played(c)
  BY <1>4 DEF IInv
<1>9. QED
  BY <1>2, <1>4, <1>5, <1>6, <1>7, <1>8, ClientAlone DEF Step

LEMMA UndoneStep ==
    ASSUME IInv, cast' = cast, NEW c \in Clients, Undone(c)
    PROVE  IInv'
<1> DEFINE r == client[c]
           p == [r EXCEPT !.phase = "failed", !.listen = {}]
<1>1. /\ r \in ClientStates /\ ClientInv(r) /\ MapInv(c, r, socket[SocketOf(c)])
      /\ c \in Sockets
      /\ c \in cast.own => OwnInv(c, r, socket[c])
  BY Known
<1>2. p \in ClientStates
  BY <1>1 DEF ClientStates
<1>3. /\ p.phase = "failed" /\ p.running = r.running /\ p.closed = r.closed
      /\ p.destroy = r.destroy /\ p.closing = r.closing /\ p.why = r.why
      /\ p.listen = {}
  BY <1>1 DEF ClientStates
<1>4. Step(c, p) /\ socket' = socket /\ r.phase = "undo" /\ ~ Waits(c, <<c, "create">>)
  BY DEF Undone
<1> HIDE DEF p
<1>5. ClientInv(p)
  BY <1>1, <1>3, <1>4 DEF ClientInv, Early, Over
<1>6. MapInv(c, p, socket[SocketOf(c)])
  BY <1>1, <1>4 DEF MapInv
<1>7. \A call \in Line(socket[c]) : call.by # <<c, "create">>
  BY <1>1, <1>4, NotWaiting
<1>8. ASSUME c \in cast.own PROVE OwnInv(c, p, socket[c])
  BY <1>1, <1>3, <1>4, <1>7, <1>8 DEF OwnInv, Gone, Early, StopBy
<1>9. Played(c)
  BY <1>4 DEF IInv
<1>10. QED
  BY <1>2, <1>4, <1>5, <1>6, <1>8, <1>9, ClientAlone DEF Step

LEMMA StartThrewStep ==
    ASSUME IInv, cast' = cast, NEW c \in Clients, StartThrew(c)
    PROVE  IInv'
<1> DEFINE r == client[c]
           q == socket[SocketOf(c)]
<1>1. /\ r \in ClientStates /\ ClientInv(r) /\ q \in SocketStates /\ LineInv(q, cast.starts)
      /\ c \in Sockets
      /\ c \in cast.own => SocketOf(c) = c /\ ~ isSocketShared(c)
  BY Known
<1>2. r.phase = "connection" /\ r.running = "failed"
  BY DEF StartThrew
<1>3. c \in cast.own \/ isSocketShared(c)
  BY <1>2, Known
<1>4. CASE isSocketShared(c)
  <2> DEFINE p == [r EXCEPT !.phase = "failed", !.listen = {}]
             e == [q EXCEPT !.map = @ \ {c}]
  <2>1. p \in ClientStates /\ e \in SocketStates
    BY <1>1 DEF ClientStates, SocketStates
  <2>2. Step(c, p) /\ socket' = [socket EXCEPT ![SocketOf(c)] = e]
    BY <1>4 DEF StartThrew
  <2>3. /\ p.phase = "failed" /\ p.running = r.running /\ p.closed = r.closed
        /\ p.destroy = r.destroy /\ p.closing = r.closing /\ p.why = r.why
        /\ p.listen = {}
    BY <1>1 DEF ClientStates
  <2>4. /\ e.queue = q.queue /\ e.holder = q.holder
        /\ e.running = q.running /\ e.starts = q.starts /\ e.map = q.map \ {c}
    BY <1>1 DEF SocketStates
  <2> HIDE DEF p, e
  <2>5. ClientInv(p)
    BY <1>1, <1>2, <2>3 DEF ClientInv, Early, Over
  <2>6. MapInv(c, p, e)
    BY <2>4 DEF MapInv
  <2>7. LineInv(e, cast.starts) /\ Line(e) = Line(q)
    BY <1>1, <2>4 DEF LineInv, Line
  <2>8. QED
    BY <1>1, <1>4, <2>1, <2>2, <2>4, <2>5, <2>6, <2>7, ClientStep DEF Step, Played, SocketOf
<1>5. CASE c \in cast.own
  <2> DEFINE p == [r EXCEPT !.phase = "undo", !.listen = @ \ {"socketStopped"}]
             e == [q EXCEPT !.map = @ \ {c},
                            !.queue = Append(@, Call("stop", <<c, "create">>, c))]
  <2>1. Call("stop", <<c, "create">>, c) \in AnyCall
    BY <1>1, CallIs DEF Callers
  <2>2. p \in ClientStates /\ e \in SocketStates
    BY <1>1, <2>1, Appended DEF ClientStates, SocketStates, Listeners
  <2>3. Step(c, p) /\ socket' = [socket EXCEPT ![c] = e]
    <3> DEFINE stop == Call("stop", <<c, "create">>, c)
               w == [socket EXCEPT ![c].map = @ \ {c}]
    <3>1. Step(c, p) /\ socket' = [w EXCEPT ![c].queue = Append(@, stop)]
      BY <1>1, <1>5 DEF StartThrew
    <3> HIDE DEF stop
    <3>2. socket = [s \in Sockets |-> socket[s]] /\ q = socket[c] /\ c \in Sockets
      BY <1>1, <1>5 DEF IInv, Types
    <3>3. w = [socket EXCEPT ![c] = [q EXCEPT !.map = @ \ {c}]]
      BY <3>2
    <3>4. w[c] = [q EXCEPT !.map = @ \ {c}]
      BY <3>2, <3>3
    <3>5. e = [w[c] EXCEPT !.queue = Append(@, stop)]
      BY <1>1, <3>4 DEF SocketStates, stop
    <3> HIDE DEF e
    <3>6. socket' = [w EXCEPT ![c] = e]
      BY <3>1, <3>5
    <3>7. QED
      BY <3>1, <3>2, <3>3, <3>6
  <2>4. /\ p.phase = "undo" /\ p.running = r.running /\ p.closed = r.closed
        /\ p.destroy = r.destroy /\ p.closing = r.closing /\ p.why = r.why
        /\ p.listen = r.listen \ {"socketStopped"}
    BY <1>1 DEF ClientStates
  <2>5. /\ e.queue = Append(q.queue, Call("stop", <<c, "create">>, c)) /\ e.holder = q.holder
        /\ e.running = q.running /\ e.starts = q.starts /\ e.map = q.map \ {c}
    BY <1>1 DEF SocketStates
  <2> HIDE DEF p, e
  <2>6. ClientInv(p) /\ Gone(p)
    BY <1>1, <1>2, <2>4 DEF ClientInv, Early, Over, Gone
  <2>7. MapInv(c, p, e)
    BY <2>5 DEF MapInv
  <2>8. \A call \in Line(socket[c]) : call.op = "stop"
    BY <1>2, <1>5, StopsOnly
  <2>9. QED
    BY <1>1, <1>5, <2>2, <2>3, <2>4, <2>5, <2>6, <2>7, <2>8, StopQueued
<1>6. QED
  BY <1>3, <1>4, <1>5

-----------------------------------------------------------------------------
(* The actions of a socket.                                                *)

\* A socket whose line is no longer than it was.
LEMMA OwnSocketKept ==
    ASSUME NEW c, NEW r, NEW q, NEW e, OwnInv(c, r, q), r.phase # "none",
           Line(e) \subseteq Line(q),
           e.running => q.running /\ \A call \in Line(q) : call.op = "stop" => call \in Line(e),
           e.handler = "closing" => Gone(r)
    PROVE  OwnInv(c, r, e)
  BY DEF OwnInv, StopBy

LEMMA OwnLineNotEmpty ==
    ASSUME IInv, NEW s \in Sockets, s \in cast.own, Line(socket[s]) # {}
    PROVE  s \in Clients /\ client[s].phase # "none"
<1>1. s \in Clients
  BY ClientsAssumption DEF IInv, Types
<1>2. QED
  BY <1>1, NoElems, Known DEF OwnInv, Line

LEMMA CallTaken ==
    ASSUME NEW q \in SocketStates, NEW starts, LineInv(q, starts),
           q.holder = <<>>, q.queue # <<>>
    PROVE  /\ Head(q.queue) \in AnyCall /\ Head(q.queue) \in Line(q)
           /\ Tail(q.queue) \in Seq(AnyCall)
           /\ \A e \in SocketStates :
                e.running = q.running /\ e.starts = q.starts /\ e.queue = Tail(q.queue) =>
                  /\ e.holder = <<>> => LineInv(e, starts) /\ Line(q) = Line(e) \cup {Head(q.queue)}
                  /\ e.holder = <<Head(q.queue)>> => LineInv(e, starts) /\ Line(e) = Line(q)
<1> DEFINE call == Head(q.queue)
           rest == Tail(q.queue)
<1>1. q.queue \in Seq(AnyCall)
  BY DEF SocketStates
<1>2. /\ rest \in Seq(AnyCall) /\ call \in AnyCall
      /\ Elems(q.queue) = {call} \cup Elems(rest)
      /\ StartIsLast(rest) /\ (call.op = "start" => rest = <<>>)
  BY <1>1, FirstTaken DEF LineInv
<1> HIDE DEF call, rest
<1>3. Line(q) = {call} \cup Elems(rest)
  BY <1>2, NoElems DEF Line
<1>4. Elems(<<call>>) = {call} /\ Len(<<call>>) = 1
  BY <1>2, OneElem
<1>5. ASSUME NEW e \in SocketStates, e.running = q.running, e.starts = q.starts, e.queue = rest,
             e.holder = <<>>
      PROVE  LineInv(e, starts) /\ Line(q) = Line(e) \cup {call}
  <2>1. Line(e) = Elems(rest) /\ Elems(e.holder) = {} /\ Len(e.holder) = 0
    BY <1>5, NoElems DEF Line
  <2>2. QED
    BY <1>2, <1>3, <1>5, <2>1 DEF LineInv
<1>6. ASSUME NEW e \in SocketStates, e.running = q.running, e.starts = q.starts, e.queue = rest,
             e.holder = <<call>>
      PROVE  LineInv(e, starts) /\ Line(e) = Line(q)
  <2>1. Line(e) = Line(q)
    BY <1>3, <1>4, <1>6 DEF Line
  <2>2. QED
    BY <1>2, <1>4, <1>6, <2>1 DEF LineInv
<1>7. QED
  BY <1>2, <1>3, <1>5, <1>6 DEF call, rest

LEMMA TakeLockStep ==
    ASSUME IInv, cast' = cast, NEW s \in Sockets, TakeLock(s)
    PROVE  IInv'
<1> DEFINE q == socket[s]
           call == Head(q.queue)
           passed == [q EXCEPT !.queue = Tail(@)]
           held == [passed EXCEPT !.holder = <<call>>]
           nothing == \/ q.running = (call.op = "start")
                      \/ call.op = "stop" /\ ~ call.force /\ q.map # {}
           e == IF nothing THEN passed
                ELSE IF call.op = "stop" /\ ~ q.closed THEN Closing(held)
                ELSE held
<1>1. q \in SocketStates /\ LineInv(q, cast.starts)
  BY Known
<1>2. q.holder = <<>> /\ q.queue # <<>> /\ client' = client
  BY DEF TakeLock
<1>3. socket' = [socket EXCEPT ![s] = e]
  <2>1. passed.running = q.running /\ passed.map = q.map /\ passed.closed = q.closed
    BY <1>1 DEF SocketStates
  <2>2. QED
    BY <2>1 DEF TakeLock
<1>4. call \in AnyCall /\ call \in Line(q) /\ Tail(q.queue) \in Seq(AnyCall) /\ <<call>> \in Seq(AnyCall)
  BY <1>1, <1>2, CallTaken, OneElem
<1> HIDE DEF call, nothing
<1>5. passed \in SocketStates /\ held \in SocketStates /\ Closing(held) \in SocketStates
  BY <1>1, <1>4 DEF SocketStates, Closing
<1>6. /\ e \in SocketStates
      /\ e.running = q.running /\ e.starts = q.starts /\ e.map = q.map
      /\ e.queue = Tail(q.queue)
      /\ e.holder = IF nothing THEN <<>> ELSE <<call>>
      /\ e.handler # q.handler => call.op = "stop"
  <2>1. passed.running = q.running /\ passed.starts = q.starts /\ passed.map = q.map
        /\ passed.queue = Tail(q.queue) /\ passed.holder = <<>> /\ passed.handler = q.handler
    BY <1>1, <1>2 DEF SocketStates
  <2>2. held.running = q.running /\ held.starts = q.starts /\ held.map = q.map
        /\ held.queue = Tail(q.queue) /\ held.holder = <<call>> /\ held.handler = q.handler
    BY <1>1, <2>1 DEF SocketStates
  <2>3. /\ Closing(held).running = q.running /\ Closing(held).starts = q.starts
        /\ Closing(held).map = q.map /\ Closing(held).queue = Tail(q.queue)
        /\ Closing(held).holder = <<call>>
    BY <1>1, <2>2 DEF SocketStates, Closing
  <2> HIDE DEF passed, held
  <2>4. QED
    BY <1>5, <2>1, <2>2, <2>3
<1> HIDE DEF e
<1>7. /\ LineInv(e, cast.starts)
      /\ IF nothing THEN Line(q) = Line(e) \cup {call} ELSE Line(e) = Line(q)
  BY <1>1, <1>2, <1>6, CallTaken DEF call
<1>8. ASSUME s \in cast.own PROVE OwnInv(s, client[s], e)
  <2>1. s \in Clients /\ client[s].phase # "none"
    BY <1>4, <1>8, OwnLineNotEmpty
  <2>2. OwnInv(s, client[s], q)
    BY <1>8, <2>1, Known
  <2>3. call.op = "stop" => call.force /\ Gone(client[s])
    BY <1>4, <2>2 DEF OwnInv
  <2>4. nothing /\ e.running => call.op = "start"
    BY <1>1, <1>4, <1>6, <2>3 DEF AnyCall, SocketStates, nothing
  <2>5. e.handler = "closing" => Gone(client[s])
    BY <1>6, <2>2, <2>3 DEF OwnInv
  <2>6. Line(e) \subseteq Line(q)
    BY <1>7
  <2>7. e.running => q.running /\ \A x \in Line(q) : x.op = "stop" => x \in Line(e)
    BY <1>6, <1>7, <2>4
  <2>8. QED
    BY <2>1, <2>2, <2>5, <2>6, <2>7, OwnSocketKept
<1>9. s = SharedSocket => \A x \in Line(e) : x.op = "start" => x.by = <<SharedSocket, "owner">>
  BY <1>7 DEF IInv
<1>10. QED
  BY <1>2, <1>3, <1>6, <1>7, <1>8, <1>9, SocketStep

\* The call that has the initLock.
LEMMA Holder ==
    ASSUME NEW q \in SocketStates, NEW starts, LineInv(q, starts), q.holder # <<>>
    PROVE  q.holder[1] \in Elems(q.holder) /\ q.holder[1] \in Line(q) /\ q.holder[1] \in AnyCall
<1>1. q.holder \in Seq(AnyCall) /\ Len(q.holder) \in Nat /\ Len(q.holder) # 0
  BY DEF SocketStates
<1>2. 1 \in 1 .. Len(q.holder) /\ q.holder[1] \in AnyCall
  BY <1>1
<1>3. QED
  BY <1>2 DEF Elems, Line

LEMMA StartSteps ==
    ASSUME IInv, cast' = cast, NEW s \in Sockets, Bound(s) \/ BindFails(s)
    PROVE  IInv'
<1> DEFINE q == socket[s]
           bound == [q EXCEPT !.running = TRUE, !.starts = @ + 1, !.closed = FALSE,
                              !.handler = "armed", !.holder = <<>>]
           fails == [q EXCEPT !.holder = <<>>]
<1>1. q \in SocketStates /\ LineInv(q, cast.starts)
  BY Known
<1>2. q.holder # <<>> /\ q.holder[1].op = "start" /\ client' = client
  BY DEF Bound, BindFails, Holds
<1>3. q.holder[1] \in Elems(q.holder) /\ q.holder[1] \in Line(q)
  BY <1>1, <1>2, Holder
<1>4. q.queue = <<>> /\ ~ q.running /\ q.starts < cast.starts
  BY <1>1, <1>2, <1>3 DEF LineInv
<1>5. bound \in SocketStates /\ fails \in SocketStates
  <2>1. q.starts \in Nat /\ q.starts + 1 \in Nat /\ <<>> \in Seq(AnyCall)
    BY <1>1 DEF SocketStates
  <2>2. QED
    BY <1>1, <2>1 DEF SocketStates
<1>6. PICK e \in {bound, fails} : socket' = [socket EXCEPT ![s] = e]
  <2>1. CASE Bound(s)
    BY <2>1 DEF Bound
  <2>2. CASE BindFails(s)
    BY <2>2 DEF BindFails
  <2>3. QED
    BY <2>1, <2>2
<1>7. /\ e.starts \in {q.starts, q.starts + 1} /\ e.map = q.map
      /\ e.queue = q.queue /\ e.holder = <<>> /\ e.handler \in {q.handler, "armed"}
  BY <1>1 DEF SocketStates
<1>8. Line(e) = {} /\ Elems(e.holder) = {} /\ Len(e.holder) = 0 /\ StartIsLast(e.queue)
  BY <1>4, <1>7, NoElems DEF Line
<1>9. e.starts <= cast.starts
  BY <1>1, <1>4, <1>7, ClientsAssumption DEF SocketStates, LineInv, IInv, Types
<1>10. LineInv(e, cast.starts)
  BY <1>8, <1>9 DEF LineInv
<1>11. ASSUME s \in cast.own PROVE OwnInv(s, client[s], e)
  <2>1. s \in Clients /\ client[s].phase # "none"
    BY <1>3, <1>11, OwnLineNotEmpty
  <2>2. OwnInv(s, client[s], q) /\ ClientInv(client[s])
    BY <1>11, <2>1, Known
  <2>3. client[s].phase = "socket"
    BY <1>2, <1>3, <2>2 DEF OwnInv
  <2>4. client[s].closing = "no" /\ client[s].why = "none"
    BY <2>2, <2>3 DEF ClientInv, Early
  <2>5. QED
    BY <1>7, <1>8, <2>2, <2>3, <2>4 DEF OwnInv
<1>12. QED
  BY <1>2, <1>5, <1>6, <1>7, <1>8, <1>10, <1>11, SocketStep

LEMMA SocketFailsStep ==
    ASSUME IInv, cast' = cast, NEW s \in Sockets, SocketFails(s)
    PROVE  IInv'
<1> DEFINE q == socket[s]
           e == Closing(q)
<1>1. q \in SocketStates /\ LineInv(q, cast.starts)
  BY Known
<1>2. s = SharedSocket /\ client' = client /\ socket' = [socket EXCEPT ![s] = e]
  BY DEF SocketFails
<1>3. /\ e \in SocketStates /\ e.running = q.running /\ e.starts = q.starts /\ e.map = q.map
      /\ e.queue = q.queue /\ e.holder = q.holder
  BY <1>1 DEF SocketStates, Closing
<1>4. s \notin cast.own
  BY <1>2, ClientsAssumption DEF IInv, Types
<1> HIDE DEF e
<1>5. LineInv(e, cast.starts) /\ Line(e) = Line(q)
  BY <1>1, <1>3 DEF LineInv, Line
<1>6. \A call \in Line(e) : call.op = "start" => call.by = <<SharedSocket, "owner">>
  BY <1>2, <1>5 DEF IInv
<1>7. QED
  BY <1>2, <1>3, <1>4, <1>5, <1>6, SocketStep

LEMMA UDPClosedStep ==
    ASSUME IInv, cast' = cast, NEW s \in Sockets, UDPClosed(s)
    PROVE  IInv'
<1> DEFINE q == socket[s]
           stop == Call("stop", <<s, "event">>, s)
           e == [q EXCEPT !.handler = "off", !.closed = TRUE,
                          !.queue = IF q.running THEN Append(@, stop) ELSE @]
<1>1. q \in SocketStates /\ LineInv(q, cast.starts)
  BY Known
<1>2. q.handler = "closing" /\ client' = client /\ socket' = [socket EXCEPT ![s] = e]
  <2>1. q.handler = "closing" /\ client' = client
    BY DEF UDPClosed
  <2> HIDE DEF stop
  <2>2. socket' = [socket EXCEPT ![s] = e]
    BY Zenon DEF UDPClosed, stop
  <2>3. QED
    BY <2>1, <2>2
<1>3. /\ stop \in AnyCall /\ stop.op = "stop" /\ stop.era = q.starts /\ stop.force
  BY CallIs DEF Callers
<1> HIDE DEF stop
<1>4. Append(q.queue, stop) \in Seq(AnyCall)
  BY <1>1, <1>3, Appended DEF SocketStates
<1>5. e \in SocketStates
  BY <1>1, <1>4 DEF SocketStates
<1>6. /\ e.running = q.running /\ e.starts = q.starts /\ e.map = q.map
      /\ e.holder = q.holder /\ e.handler = "off"
      /\ e.queue = IF q.running THEN Append(q.queue, stop) ELSE q.queue
  BY <1>1 DEF SocketStates
<1> HIDE DEF e
<1>7. /\ LineInv(e, cast.starts)
      /\ Line(e) = IF q.running THEN Line(q) \cup {stop} ELSE Line(q)
  <2>1. CASE q.running
    <3>1. \A x \in Line(q) : x.op = "stop"
      BY <1>1, <2>1, LineCalls DEF LineInv, AnyCall
    <3>2. cast.starts \in Nat
      BY ClientsAssumption DEF IInv, Types
    <3> HIDE DEF q
    <3>3. LineInv(e, cast.starts) /\ Line(e) = Line(q) \cup {stop}
      BY <1>1, <1>3, <1>5, <1>6, <2>1, <3>1, <3>2, GetsInLine
    <3>4. QED
      BY <2>1, <3>3
  <2>2. CASE ~ q.running
    BY <1>1, <1>6, <2>2 DEF LineInv, Line
  <2>3. QED
    BY <2>1, <2>2
<1>8. ASSUME s \in cast.own PROVE OwnInv(s, client[s], e)
  <2>1. s \in Clients
    BY <1>8, ClientsAssumption DEF IInv, Types
  <2>2. OwnInv(s, client[s], q)
    BY <1>8, <2>1, Known
  <2>3. Gone(client[s]) /\ client[s].phase # "none"
    BY <1>2, <2>2 DEF OwnInv, Gone, Early
  <2>4. StopBy(q, <<s, "create">>) => StopBy(e, <<s, "create">>)
    BY <1>7 DEF StopBy
  <2>5. StopBy(q, <<s, "close">>) => StopBy(e, <<s, "close">>)
    BY <1>7 DEF StopBy
  <2>6. \A call \in Line(e) : call \in Line(q) \/ call = stop
    BY <1>7
  <2>7. QED
    BY <1>3, <1>6, <2>2, <2>3, <2>4, <2>5, <2>6 DEF OwnInv
<1>9. s = SharedSocket => \A x \in Line(e) : x.op = "start" => x.by = <<SharedSocket, "owner">>
  BY <1>3, <1>7 DEF IInv
<1>10. QED
  BY <1>2, <1>5, <1>6, <1>7, <1>8, <1>9, SocketStep

LEMMA StopEndsStep ==
    ASSUME IInv, cast' = cast, NEW s \in Sockets, StopEnds(s)
    PROVE  IInv'
<1> DEFINE q == socket[s]
           e == [q EXCEPT !.running = FALSE, !.handler = "off", !.holder = <<>>]
<1>1. q \in SocketStates /\ LineInv(q, cast.starts)
  BY Known
<1>2. /\ socket' = [socket EXCEPT ![s] = e]
      /\ client' = [c \in Clients |->
                      IF SocketOf(c) = s THEN SocketStopped(client[c]) ELSE client[c]]
      /\ q.holder # <<>> /\ q.holder[1].op = "stop"
  BY DEF StopEnds, Holds
<1>3. e \in SocketStates
  <2>1. <<>> \in Seq(AnyCall)
    OBVIOUS
  <2>2. QED
    BY <1>1, <2>1 DEF SocketStates
<1>4. /\ ~ e.running /\ e.starts = q.starts /\ e.map = q.map
      /\ e.queue = q.queue /\ e.holder = <<>> /\ e.handler = "off"
  BY <1>1 DEF SocketStates
<1> HIDE DEF e
<1>5. Line(e) \subseteq Line(q) /\ Elems(e.holder) = {} /\ Len(e.holder) = 0
  BY <1>4, NoElems DEF Line
<1>6. LineInv(e, cast.starts)
  BY <1>1, <1>4, <1>5 DEF LineInv
<1>7. \A t \in Sockets : socket'[t] = IF t = s THEN e ELSE socket[t]
  BY <1>2 DEF IInv, Types
<1>8. ASSUME NEW c \in Clients
      PROVE  /\ Kept(client[c], client'[c])
             /\ client'[c].why # client[c].why => SocketOf(c) = s
  <2>1. client[c] \in ClientStates /\ ClientInv(client[c])
    BY Known
  <2>2. Kept(client[c], SocketStopped(client[c])) /\ Kept(client[c], client[c])
    BY <2>1, SocketStoppedKeeps DEF Kept
  <2>3. QED
    BY <1>2, <2>2
<1>9. Types'
  BY <1>2, <1>3, <1>8, Known DEF IInv, Types, Kept
<1>10. \A t \in Sockets : LineInv(socket'[t], cast.starts)
  BY <1>6, <1>7, Known
<1>11. ASSUME NEW c \in Clients
       PROVE  /\ ClientInv(client'[c])
              /\ MapInv(c, client'[c], socket'[SocketOf(c)])
              /\ ~ Played(c) => client'[c].phase = "none"
              /\ c \in cast.own => OwnInv(c, client'[c], socket'[c])
  <2>1. Kept(client[c], client'[c]) /\ MapInv(c, client[c], socket[SocketOf(c)])
    BY <1>8, Known
  <2>2. socket'[SocketOf(c)].map = socket[SocketOf(c)].map
    BY <1>4, <1>7, Known
  <2>3. MapInv(c, client'[c], socket'[SocketOf(c)])
    BY <2>1, <2>2 DEF MapInv, Kept
  <2>4. ASSUME c \in cast.own PROVE OwnInv(c, client'[c], socket'[c])
    <3>1. OwnInv(c, client[c], socket[c]) /\ SocketOf(c) = c /\ c \in Sockets
      BY <2>4, Known
    <3>2. CASE c = s
      <4>1. client[c].phase # "none"
        BY <1>2, <3>1, <3>2 DEF OwnInv
      <4>2. OwnInv(c, client[c], e)
        BY <1>4, <1>5, <3>1, <3>2, <4>1, OwnSocketKept
      <4>3. QED
        BY <1>4, <1>7, <2>1, <3>2, <4>2, <3>1 DEF OwnInv, Kept, Gone, Early
    <3>3. CASE c # s
      <4>1. client'[c] = client[c] /\ socket'[c] = socket[c]
        BY <1>2, <1>7, <3>1, <3>3
      <4>2. QED
        BY <3>1, <4>1
    <3>4. QED
      BY <3>2, <3>3
  <2>5. QED
    BY <2>1, <2>3, <2>4 DEF IInv, Kept
<1>12. \A call \in Line(socket'[SharedSocket]) :
          call.op = "start" => call.by = <<SharedSocket, "owner">>
  BY <1>5, <1>7 DEF IInv, Sockets
<1>13. QED
  BY <1>9, <1>10, <1>11, <1>12 DEF IInv, SocketOf, isSocketShared, Played

LEMMA OwnerStep ==
    ASSUME IInv, cast' = cast, NEW op \in {"start", "stop"}, OwnerCalls(op)
    PROVE  IInv'
<1> DEFINE q == socket[SharedSocket]
           by == <<SharedSocket, "owner">>
<1>1. q \in SocketStates /\ LineInv(q, cast.starts) /\ SharedSocket \in Sockets
  BY Known DEF Sockets
<1>2. PICK force \in BOOLEAN :
        socket' = Queued(SharedSocket, [Call(op, by, SharedSocket) EXCEPT !.force = force])
  BY DEF OwnerCalls
<1> DEFINE call == [Call(op, by, SharedSocket) EXCEPT !.force = force]
           e == [q EXCEPT !.queue = Append(@, call)]
<1>3. /\ Call(op, by, SharedSocket) \in AnyCall /\ Call(op, by, SharedSocket).op = op
      /\ Call(op, by, SharedSocket).by = by /\ Call(op, by, SharedSocket).era = q.starts
  BY <1>1, CallIs DEF Callers
<1>4. call \in AnyCall /\ call.op = op /\ call.by = by /\ call.era = q.starts
  BY <1>3 DEF AnyCall
<1>5. client' = client /\ socket' = [socket EXCEPT ![SharedSocket] = e]
  BY <1>2 DEF OwnerCalls, Queued
<1> HIDE DEF call
<1>6. /\ ~ Waits(SharedSocket, by) /\ q.running = (op = "stop")
      /\ op = "start" => q.starts < cast.starts
  BY DEF OwnerCalls
<1>7. \A x \in Line(q) : x.op = "stop"
  <2>1. \A x \in Line(q) : x.op \in {"start", "stop"} /\ x.by # by
    BY <1>1, <1>6, LineCalls, NotWaiting DEF AnyCall
  <2>2. QED
    BY <2>1 DEF IInv
<1>8. e \in SocketStates
  <2>1. Append(q.queue, call) \in Seq(AnyCall)
    BY <1>1, <1>4, Appended DEF SocketStates
  <2>2. QED
    BY <1>1, <2>1 DEF SocketStates
<1>9. /\ e.queue = Append(q.queue, call) /\ e.holder = q.holder
      /\ e.running = q.running /\ e.starts = q.starts /\ e.map = q.map
  BY <1>1 DEF SocketStates
<1> HIDE DEF e
<1>10. cast.starts \in Nat /\ SharedSocket \notin cast.own
  BY ClientsAssumption DEF IInv, Types
<1>11. op = "start" => ~ q.running /\ q.starts < cast.starts
  BY <1>6
<1>12. LineInv(e, cast.starts) /\ Line(e) = Line(q) \cup {call}
  <2> HIDE DEF q, by
  <2>1. QED
    BY <1>1, <1>4, <1>7, <1>8, <1>9, <1>10, <1>11, GetsInLine
<1>13. \A x \in Line(e) : x.op = "start" => x.by = by
  BY <1>4, <1>7, <1>12
<1>14. QED
  BY <1>1, <1>5, <1>8, <1>9, <1>10, <1>12, <1>13, SocketStep

-----------------------------------------------------------------------------
(* The invariant, and what follows from it.                                *)

LEMMA InitIInv == Init => IInv
<1> SUFFICES ASSUME Init PROVE IInv
  OBVIOUS
<1>1. <<>> \in Seq(AnyCall) /\ Len(<<>>) = 0
  OBVIOUS
<1>2. \A s \in Sockets :
        /\ socket[s].running = (s = SharedSocket) /\ socket[s].map = {}
        /\ socket[s].starts = IF s = SharedSocket THEN 1 ELSE 0
        /\ socket[s].handler = IF s = SharedSocket THEN "armed" ELSE "off"
        /\ socket[s].holder = <<>> /\ socket[s].queue = <<>> /\ ~ socket[s].closed
  BY DEF Init
<1>3. Types
  BY <1>1 DEF Init, Types, ClientStates, NewClient, SocketStates
<1>4. cast.starts \in Nat /\ 1 <= cast.starts
  BY ClientsAssumption DEF Init
<1>5. \A s \in Sockets : Line(socket[s]) = {} /\ LineInv(socket[s], cast.starts)
  BY <1>1, <1>2, <1>4, NoElems DEF Line, LineInv
<1>6. ASSUME NEW c \in Clients
      PROVE  /\ ClientInv(client[c])
             /\ MapInv(c, client[c], socket[SocketOf(c)])
             /\ client[c].phase = "none"
             /\ OwnInv(c, client[c], socket[c])
  <2>1. /\ client[c].phase = "none" /\ client[c].running = "no" /\ client[c].listen = {}
        /\ client[c].closing = "no" /\ client[c].why = "none" /\ ~ client[c].closed
        /\ client[c].destroy = "no"
    BY DEF Init, NewClient
  <2>2. c \in Sockets /\ SocketOf(c) \in Sockets /\ c # SharedSocket
    BY ClientsAssumption DEF Sockets, SocketOf
  <2>3. ClientInv(client[c])
    BY <2>1 DEF ClientInv
  <2>4. MapInv(c, client[c], socket[SocketOf(c)])
    BY <1>2, <2>2 DEF MapInv
  <2>5. OwnInv(c, client[c], socket[c])
    BY <1>2, <1>5, <2>1, <2>2 DEF OwnInv
  <2>6. QED
    BY <2>1, <2>3, <2>4, <2>5
<1>7. Line(socket[SharedSocket]) = {}
  BY <1>5 DEF Sockets
<1>8. QED
  BY <1>3, <1>5, <1>6, <1>7 DEF IInv

LEMMA NextIInv == IInv /\ [Next]_vars => IInv'
<1> SUFFICES ASSUME IInv, [Next]_vars PROVE IInv'
  OBVIOUS
<1>1. CASE UNCHANGED vars
  BY <1>1 DEF vars, moving, IInv, Types, SocketOf, isSocketShared, Played
<1>2. CASE Next
  <2>1. cast' = cast
    BY <1>2 DEF Next
  <2>2. ASSUME NEW c \in Clients, CreationNext(c) PROVE IInv'
    BY <2>1, <2>2, CreateOwnStep, FailedSteps, InvalidStep, StartConnectionStep, CreatedStep,
       StartThrewStep, UndoneStep DEF CreationNext
  <2>3. ASSUME NEW c \in Clients, ConnectionNext(c) PROVE IInv'
    BY <2>1, <2>3, ConnectionMovesOn, ConnectionErrs, ConnectionEnds DEF ConnectionNext
  <2>4. ASSUME NEW c \in Clients, ClosingNext(c) PROVE IInv'
    BY <2>1, <2>4, AfterSteps, DestroySteps DEF ClosingNext
  <2>5. ASSUME NEW s \in Sockets, SocketNext(s) PROVE IInv'
    BY <2>1, <2>5, TakeLockStep, StartSteps, SocketFailsStep, UDPClosedStep, StopEndsStep
       DEF SocketNext
  <2>6. ASSUME NEW op \in {"start", "stop"}, OwnerCalls(op) PROVE IInv'
    BY <2>1, <2>6, OwnerStep
  <2>7. QED
    BY <1>2, <2>2, <2>3, <2>4, <2>5, <2>6 DEF Next
<1>3. QED
  BY <1>1, <1>2

\* The inductive invariant of every run of the clients and their sockets.
THEOREM Inductive == Spec => []IInv
  BY InitIInv, NextIInv, PTL DEF Spec

(* The types of the clients, of the sockets and of the calls in line, one  *)
(* of which has the initLock of its socket.                                *)
THEOREM TypeCorrect == Spec => []TypeOK
<1>1. IInv => TypeOK
  <2> SUFFICES ASSUME IInv PROVE TypeOK
    OBVIOUS
  <2>1. ASSUME NEW s \in Sockets
        PROVE  /\ socket[s] \in SocketStates /\ LineInv(socket[s], cast.starts)
               /\ socket[s].starts \in 0 .. cast.starts
               /\ \A i \in DOMAIN socket[s].holder : socket[s].holder[i] \in CallsOf(s)
               /\ \A i \in DOMAIN socket[s].queue : socket[s].queue[i] \in CallsOf(s)
    <3> DEFINE q == socket[s]
    <3>1. q \in SocketStates /\ LineInv(q, cast.starts)
      BY Known
    <3>2. cast.starts \in Nat /\ q.starts \in Nat
      BY <3>1, ClientsAssumption DEF IInv, Types, SocketStates
    <3>3. q.starts \in 0 .. cast.starts
      BY <3>1, <3>2 DEF LineInv
    <3> HIDE DEF q
    <3>4. ASSUME NEW call \in Line(q) PROVE call \in CallsOf(s)
      <4>1. call \in AnyCall
        BY <3>1, LineCalls
      <4>2. call.era \in Nat /\ call.era <= cast.starts
        BY <3>1, <3>2, <4>1 DEF LineInv, AnyCall
      <4>3. call.era \in 0 .. cast.starts
        BY <3>2, <4>2
      <4>4. QED
        BY <4>1, <4>3 DEF AnyCall, CallsOf
    <3>5. q.holder \in Seq(AnyCall) /\ q.queue \in Seq(AnyCall)
      BY <3>1 DEF SocketStates
    <3>6. DOMAIN q.holder = 1 .. Len(q.holder) /\ DOMAIN q.queue = 1 .. Len(q.queue)
      BY <3>5
    <3>7. QED
      BY <3>1, <3>3, <3>4, <3>6 DEF Line, Elems, q
  <2>2. QED
    BY <2>1 DEF TypeOK, IInv, Types, SocketStates, LineInv
<1>2. QED
  BY Inductive, <1>1, PTL

(* A creation that failed and a client that was destroyed leave no         *)
(* listener, no entry in the map of the socket, no connection that runs    *)
(* and no socket of their own.                                             *)
THEOREM NothingLeftTheorem == Spec => []NothingLeft
<1>1. IInv => NothingLeft
  <2> SUFFICES ASSUME IInv, NEW c \in Clients,
                      \/ client[c].phase = "failed"
                      \/ client[c].phase = "made" /\ client[c].destroy = "done"
               PROVE  /\ client[c].listen = {}
                      /\ client[c].running \in {"no", "stopped", "failed"}
                      /\ c \notin socket[SocketOf(c)].map
                      /\ c \in cast.own => ~ socket[c].running
    BY DEF NothingLeft
  <2>1. /\ client[c] \in ClientStates /\ ClientInv(client[c])
        /\ MapInv(c, client[c], socket[SocketOf(c)])
        /\ c \in cast.own => OwnInv(c, client[c], socket[c])
    BY Known
  <2>2. CASE client[c].phase = "failed"
    BY <2>1, <2>2 DEF ClientInv, MapInv, OwnInv
  <2>3. CASE client[c].phase = "made" /\ client[c].destroy = "done"
    <3>1. client[c].running = "stopped" /\ client[c].closing = "done"
      BY <2>1, <2>3 DEF ClientInv, Over
    <3>2. client[c].listen \subseteq Listeners
      BY <2>1 DEF ClientStates
    <3>3. client[c].listen = {}
      BY <2>1, <2>3, <3>1, <3>2 DEF ClientInv, Listeners
    <3>4. QED
      BY <2>1, <3>1, <3>3 DEF MapInv, OwnInv
  <2>4. QED
    BY <2>2, <2>3
<1>2. QED
  BY Inductive, <1>1, PTL

(* An encapsulated socket is only stopped when its connection is gone, and *)
(* no stop of a socket, not even the one of its own close handler, meets a *)
(* later start.                                                            *)
THEOREM StopsInTurn == Spec => []SocketStopsInTurn
<1>1. IInv => SocketStopsInTurn
  <2> SUFFICES ASSUME IInv PROVE SocketStopsInTurn
    OBVIOUS
  <2>1. ASSUME NEW s \in Sockets, Holds(s, "stop")
        PROVE  /\ socket[s].holder[1] \in Line(socket[s])
               /\ socket[s].holder[1].op = "stop"
               /\ socket[s].holder[1].era = socket[s].starts
    <3>1. socket[s] \in SocketStates /\ LineInv(socket[s], cast.starts)
      BY Known
    <3>2. socket[s].holder # <<>> /\ socket[s].holder[1].op = "stop"
      BY <2>1 DEF Holds
    <3>3. QED
      BY <3>1, <3>2, Holder DEF LineInv
  <2>2. ASSUME NEW c \in cast.own, Holds(c, "stop")
        PROVE  client[c].running \in {"no", "stopped", "failed"}
    <3>1. c \in Clients /\ c \in Sockets
      BY ClientsAssumption DEF IInv, Types, Sockets
    <3>2. OwnInv(c, client[c], socket[c])
      BY <3>1, Known
    <3>3. QED
      BY <2>1, <2>2, <3>1, <3>2 DEF OwnInv, Gone
  <2>3. QED
    BY <2>1, <2>2 DEF SocketStopsInTurn
<1>2. QED
  BY Inductive, <1>1, PTL

=============================================================================
