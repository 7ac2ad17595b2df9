----------------------- MODULE QUICConnectionStreams -----------------------
(***************************************************************************)
(* The streams of one QUICConnection: which QUICStream objects exist, how  *)
(* newStream and processStreams create them, how stop refuses and awaits   *)
(* them, and what quiche knows of the same ids.                            *)
(*                                                                         *)
(* JavaScript runs a handler to its first await without interruption.      *)
(* processStreams is one such stretch, two for-loops over the ids quiche   *)
(* reports; the model takes one step per iteration, and while a loop is on *)
(* (loop # "idle") no other action is enabled.                             *)
(***************************************************************************)
EXTENDS QUICStreamIdOps, FiniteSets

CONSTANTS Side,         \* this.type: "client" or "server"
          MaxLimit,     \* bound on the local streams of a type the peer allows
          MaxFrames     \* bound on the streams one datagram is about

ASSUME StreamsAssumption ==
    /\ Side \in {"client", "server"}
    /\ MaxLimit \in Nat
    /\ MaxFrames \in Nat \ {0}

\* The first bit of an id names its initiator, the second its directions.
InitiatedBy(t) == IF t % 2 = 0 THEN "client" ELSE "server"
IsUni(t) == t >= 2

LocalTypes == {t \in IdTypes : InitiatedBy(t) = Side}
LocalIds == {id \in StreamIds : TypeOf(id) \in LocalTypes}
PeerIds == StreamIds \ LocalIds

VARIABLES
    phase,      \* where start and stop are, see Phases
    secure,     \* secureEstablished
    nextId,     \* streamId{Client,Server}{Bidi,Uni}, for the local types
    stream,     \* per id: "none", "live" (in streamMap) or "gone"
    closed,     \* per id: the directions the QUICStream has closed
    loop,       \* the loop of processStreams that runs: or "idle"
    todo,       \* the ids the running loop has not visited
    awaited,    \* the streams whose destroy() stop awaits
    failed,     \* callers in which utils.never was reached (history)
    limitHit,   \* ErrorQUICStreamLimit was thrown (history)
    qrecv,      \* quiche, receiving side per id: none, open, readable, done
    qsend,      \* quiche, sending side per id: none, open, stopped, done
    limit       \* quiche, per local type: streams the peer allows

registry == <<nextId, counters, waiting, stream, closed>>
quiche == <<qrecv, qsend, limit>>
vars == <<phase, secure, registry, loop, todo, awaited, failed, limitHit, quiche>>

\* The StartStop status is 'stopping' in both "stopping", where stop yields
\* before it looks at streamMap, and "awaiting", where it waits for streams.
Phases == {"starting", "running", "stopping", "awaiting", "stopped"}

Live == {id \in StreamIds : stream[id] = "live"}

Init ==
    /\ phase = "starting"
    /\ secure = FALSE
    /\ nextId = [t \in LocalTypes |-> t]
    /\ counters = InitialCounters
    /\ waiting = {}
    /\ stream = [id \in StreamIds |-> "none"]
    /\ closed = [id \in StreamIds |-> {}]
    /\ loop = "idle"
    /\ todo = {}
    /\ awaited = {}
    /\ failed = {}
    /\ limitHit = FALSE
    /\ qrecv = [id \in StreamIds |-> "none"]
    /\ qsend = [id \in StreamIds |-> "none"]
    /\ limit \in [LocalTypes -> 0 .. MaxLimit]

-----------------------------------------------------------------------------
(* recv, and the two loops of processStreams.                              *)

\* The peer sends on streams it opens and on bidirectional ones opened here.
PeerMaySend(id) ==
    \/ id \in PeerIds
    \/ qsend[id] # "none" /\ ~ IsUni(TypeOf(id))

\* The peer may ask to stop a sending side that quiche knows.
PeerMayStop(id) == qsend[id] # "none"

(***************************************************************************)
(* One datagram: quiche takes frames for the streams of data and           *)
(* STOP_SENDING for those of stops.  A side that has ended ignores them.   *)
(* The datagram that completes the handshake makes the connection secure   *)
(* (complete), and the streams it carries are processed with it.           *)
(***************************************************************************)
recv(data, stops, complete) ==
    /\ loop = "idle"
    /\ phase # "stopped"
    /\ \A id \in data : PeerMaySend(id)
    /\ \A id \in stops : PeerMayStop(id)
    /\ qrecv' = [id \in StreamIds |->
                    IF id \in data /\ qrecv[id] # "done"
                    THEN "readable" ELSE qrecv[id]]
    /\ qsend' = [id \in StreamIds |->
                    CASE id \in stops /\ qsend[id] = "open" -> "stopped"
                      [] id \in data /\ qsend[id] = "none"
                                     /\ ~ IsUni(TypeOf(id)) -> "open"
                      [] OTHER -> qsend[id]]
    /\ secure' = (secure \/ complete)
    /\ IF secure'
       THEN /\ loop' = "readable"
            /\ todo' = {id \in StreamIds : qrecv'[id] = "readable"}
       ELSE UNCHANGED <<loop, todo>>
    /\ UNCHANGED <<phase, registry, awaited, failed, limitHit, limit>>

Visited(id) ==
    /\ todo' = todo \ {id}
    /\ UNCHANGED loop

\* A throw leaves the loop, processStreams and recv.
ThrowOut ==
    /\ todo' = {}
    /\ loop' = "idle"

(***************************************************************************)
(* streamShutdown of a refused stream, first its sending side, then its    *)
(* receiving one.  Quiche answers InvalidStreamState for a side that a     *)
(* unidirectional stream does not have, the binding throws it and nothing  *)
(* catches it: a stream of the peer then keeps its receiving side, a local *)
(* one has lost its sending side already.                                  *)
(***************************************************************************)
Refuse(id) ==
    /\ \/ /\ ~ IsUni(TypeOf(id))
          /\ qsend' = [qsend EXCEPT ![id] = "done"]
          /\ qrecv' = [qrecv EXCEPT ![id] = "done"]
          /\ Visited(id)
       \/ /\ IsUni(TypeOf(id))
          /\ qsend' = [qsend EXCEPT ![id] = IF id \in LocalIds THEN "done" ELSE @]
          /\ qrecv' = qrecv
          /\ ThrowOut
    /\ UNCHANGED <<registry, limit, failed>>

\* A plausible bug: streams are refused only before the connection runs.
RefusesWhenStarting == phase = "starting"

\* running === false || status === 'stopping'
Refuses == phase # "running"

MarkUsed(id) ==
    /\ counters' = CountersWith(counters, waiting, id)
    /\ waiting' = WaitingWith(counters, waiting, id)

\* A plausible bug: a peer's stream is created without asking isStreamUsed.
AddPeerStreamUnmarked(id) ==
    /\ UNCHANGED <<counters, waiting>>
    /\ stream' = [stream EXCEPT ![id] = "live"]

\* createQUICStream with initiated 'peer' and its entry in streamMap.
AddPeerStream(id) ==
    /\ MarkUsed(id)
    /\ stream' = [stream EXCEPT ![id] = "live"]

\* A new unidirectional stream has no writable side here: it counts as closed.
NewSides(id) == IF IsUni(TypeOf(id)) THEN {"write"} ELSE {}

\* quicStream.read(): a fin or RESET_STREAM (finished) closes the readable
\* side at once, other data waits to be pulled.  sides are closed already.
Read(id, sides, finished) ==
    /\ closed' = [closed EXCEPT ![id] = IF finished THEN sides \cup {"read"} ELSE sides]
    /\ qrecv' = [qrecv EXCEPT ![id] = IF finished THEN "done" ELSE @]

\* quicStream.write(): the side the peer stopped is shut down in quiche too.
Write(id, sides) ==
    LET stopped == qsend[id] = "stopped" IN
    /\ closed' = [closed EXCEPT ![id] = IF stopped THEN sides \cup {"write"} ELSE sides]
    /\ qsend' = [qsend EXCEPT ![id] = IF stopped THEN "done" ELSE @]

\* utils.never throws out of the loop and out of recv.
Never(caller) ==
    /\ failed' = failed \cup {caller}
    /\ ThrowOut
    /\ UNCHANGED <<registry, quiche>>

\* One iteration of the first loop of processStreams.
ProcessReadable(id) ==
    /\ loop = "readable"
    /\ id \in todo
    /\ \/ /\ id \in Live
          /\ \E finished \in BOOLEAN : Read(id, closed[id], finished)
          /\ Visited(id)
          /\ UNCHANGED <<nextId, counters, waiting, stream, qsend, limit, failed>>
       \/ id \notin Live /\ Refuses /\ Refuse(id)
       \/ /\ id \notin Live /\ ~ Refuses
          /\ ~ IsUsed(counters, waiting, id)
          /\ AddPeerStream(id)
          /\ \E finished \in BOOLEAN : Read(id, NewSides(id), finished)
          /\ Visited(id)
          /\ UNCHANGED <<nextId, qsend, limit, failed>>
       \/ /\ id \notin Live /\ ~ Refuses
          /\ IsUsed(counters, waiting, id)
          /\ Never("readable")
    /\ UNCHANGED <<phase, secure, awaited, limitHit>>

(***************************************************************************)
(* The first loop ends and conn.writable() lists the ids of the second:    *)
(* every side the peer stopped, and some of the others that quiche knows,  *)
(* at most one in the model.  A side that has ended may be listed too.     *)
(***************************************************************************)
ToWritable(more) ==
    /\ loop = "readable"
    /\ todo = {}
    /\ \A id \in more : qsend[id] \in {"open", "done"}
    /\ loop' = "writable"
    /\ todo' = more \cup {id \in StreamIds : qsend[id] = "stopped"}
    /\ UNCHANGED <<phase, secure, registry, awaited, failed, limitHit, quiche>>

\* The probe of the second loop: an empty streamSend on a used id without a
\* QUICStream is expected to answer StreamStopped or FinalSize, and then the
\* id is skipped.
Probe(id) ==
    IF qsend[id] \in {"stopped", "done"}
    THEN Visited(id) /\ UNCHANGED <<registry, quiche, failed>>
    ELSE Never("writable")

\* One iteration of the second loop of processStreams.
ProcessWritable(id) ==
    /\ loop = "writable"
    /\ id \in todo
    /\ \/ /\ id \in Live
          /\ Write(id, closed[id])
          /\ Visited(id)
          /\ UNCHANGED <<nextId, counters, waiting, stream, qrecv, limit, failed>>
       \/ id \notin Live /\ Refuses /\ Refuse(id)
       \/ /\ id \notin Live /\ ~ Refuses
          /\ ~ IsUsed(counters, waiting, id)
          /\ AddPeerStream(id)
          /\ Write(id, NewSides(id))
          /\ Visited(id)
          /\ UNCHANGED <<nextId, qrecv, limit, failed>>
       \/ /\ id \notin Live /\ ~ Refuses
          /\ IsUsed(counters, waiting, id)
          /\ Probe(id)
    /\ UNCHANGED <<phase, secure, awaited, limitHit>>

EndProcess ==
    /\ loop = "writable"
    /\ todo = {}
    /\ loop' = "idle"
    /\ UNCHANGED <<phase, secure, registry, todo, awaited, failed, limitHit, quiche>>

-----------------------------------------------------------------------------
(* newStream.                                                              *)

\* The number of the id among those of its type.
IndexOf(id) == id \div 4

\* A plausible bug: the counter of the next local id is never advanced.
AddLocalStreamAgain(id) ==
    /\ stream' = [stream EXCEPT ![id] = "live"]
    /\ closed' = [closed EXCEPT ![id] = IF IsUni(TypeOf(id)) THEN {"read"} ELSE {}]
    /\ qsend' = [qsend EXCEPT ![id] = "open"]
    /\ qrecv' = [qrecv EXCEPT ![id] = IF IsUni(TypeOf(id)) THEN "done" ELSE "open"]
    /\ UNCHANGED <<nextId, limitHit>>

\* createQUICStream with initiated 'local': the empty streamSend that primes
\* quiche succeeds, and the next id of the type is 4 further.
AddLocalStream(id) ==
    /\ stream' = [stream EXCEPT ![id] = "live"]
    /\ closed' = [closed EXCEPT ![id] = IF IsUni(TypeOf(id)) THEN {"read"} ELSE {}]
    /\ qsend' = [qsend EXCEPT ![id] = "open"]
    /\ qrecv' = [qrecv EXCEPT ![id] = IF IsUni(TypeOf(id)) THEN "done" ELSE "open"]
    /\ nextId' = [nextId EXCEPT ![TypeOf(id)] = id + 4]
    /\ UNCHANGED limitHit

\* The empty streamSend throws StreamLimit; the constructor rethrows it as
\* ErrorQUICStreamLimit, out of newStream, after isStreamUsed marked the id.
HitLimit ==
    /\ limitHit' = TRUE
    /\ UNCHANGED <<nextId, stream, closed, qsend, qrecv>>

\* The user opens a stream of local type t; @ready lets it only while running.
newStream(t) ==
    LET id == nextId[t] IN
    /\ loop = "idle"
    /\ phase = "running"
    /\ id \in StreamIds
    /\ \/ /\ IsUsed(counters, waiting, id)
          /\ Never("newStream")
          /\ UNCHANGED limitHit
       \/ /\ ~ IsUsed(counters, waiting, id)
          /\ MarkUsed(id)
          /\ IF IndexOf(id) < limit[t] THEN AddLocalStream(id) ELSE HitLimit
          /\ UNCHANGED <<loop, todo, failed, limit>>
    /\ UNCHANGED <<phase, secure, awaited>>

\* MAX_STREAMS arrives from the peer.
PeerRaisesLimit(t) ==
    /\ loop = "idle"
    /\ limit[t] < MaxLimit
    /\ limit' = [limit EXCEPT ![t] = @ + 1]
    /\ UNCHANGED <<phase, secure, registry, loop, todo, awaited, failed, limitHit,
                   qrecv, qsend>>

-----------------------------------------------------------------------------
(* The end of a stream, and start and stop of the connection.              *)

\* The readable side of a QUICStream ends outside of recv: a pull reads the
\* fin or finds RESET_STREAM, or it is cancelled.  Quiche's side ends with it.
CloseRead(id) ==
    /\ loop = "idle"
    /\ id \in Live
    /\ "read" \notin closed[id]
    /\ closed' = [closed EXCEPT ![id] = @ \cup {"read"}]
    /\ qrecv' = [qrecv EXCEPT ![id] = "done"]
    /\ UNCHANGED <<phase, secure, nextId, counters, waiting, stream, loop, todo,
                   awaited, failed, limitHit, qsend, limit>>

\* The writable side ends: by sending the fin, by aborting it, or by the
\* StreamStopped that answers a streamSend, which leaves it stopped in quiche.
CloseWrite(id) ==
    /\ loop = "idle"
    /\ id \in Live
    /\ "write" \notin closed[id]
    /\ closed' = [closed EXCEPT ![id] = @ \cup {"write"}]
    /\ \E left \in {"done"} \cup ({"stopped"} \cap {qsend[id]}) :
          qsend' = [qsend EXCEPT ![id] = left]
    /\ UNCHANGED <<phase, secure, nextId, counters, waiting, stream, loop, todo,
                   awaited, failed, limitHit, qrecv, limit>>

\* A plausible bug: a stream leaves the map when one of its sides closed.
MayDestroyEarly(id) == closed[id] # {}

\* A QUICStream destroys itself, or lets destroy return, once both of its
\* sides have closed.
MayDestroy(id) == closed[id] = {"read", "write"}

\* handleEventQUICStreamDestroyed
StreamDestroyed(id) ==
    /\ loop = "idle"
    /\ id \in Live
    /\ MayDestroy(id)
    /\ stream' = [stream EXCEPT ![id] = "gone"]
    /\ UNCHANGED <<phase, secure, nextId, counters, waiting, closed, loop, todo,
                   awaited, failed, limitHit, quiche>>

\* start returns after secureEstablishedP, and StartStop sets running.
Started ==
    /\ loop = "idle"
    /\ phase = "starting"
    /\ secure
    /\ phase' = "running"
    /\ UNCHANGED <<secure, registry, loop, todo, awaited, failed, limitHit, quiche>>

\* StartStop sets the status; stop then yields before it looks at streamMap.
BeginStop ==
    /\ loop = "idle"
    /\ phase = "running"
    /\ phase' = "stopping"
    /\ UNCHANGED <<secure, registry, loop, todo, awaited, failed, limitHit, quiche>>

DestroyAll ==
    /\ loop = "idle"
    /\ phase = "stopping"
    /\ phase' = "awaiting"
    /\ awaited' = Live
    /\ UNCHANGED <<secure, registry, loop, todo, failed, limitHit, quiche>>

\* All the destroy() have resolved, the connection closes and stop returns.
EndStop ==
    /\ loop = "idle"
    /\ phase = "awaiting"
    /\ awaited \cap Live = {}
    /\ phase' = "stopped"
    /\ UNCHANGED <<secure, registry, loop, todo, awaited, failed, limitHit, quiche>>

Next ==
    \/ \E data, stops \in SUBSET StreamIds, complete \in BOOLEAN :
          /\ Cardinality(data \cup stops) <= MaxFrames
          /\ recv(data, stops, complete)
    \/ \E id \in StreamIds :
          \/ ProcessReadable(id)
          \/ ProcessWritable(id)
          \/ CloseRead(id)
          \/ CloseWrite(id)
          \/ StreamDestroyed(id)
    \/ \E more \in SUBSET StreamIds : Cardinality(more) <= 1 /\ ToWritable(more)
    \/ EndProcess
    \/ \E t \in LocalTypes : newStream(t) \/ PeerRaisesLimit(t)
    \/ Started
    \/ BeginStop
    \/ DestroyAll
    \/ EndStop

Spec == Init /\ [][Next]_vars

-----------------------------------------------------------------------------

TypeOK ==
    /\ phase \in Phases
    /\ secure \in BOOLEAN
    /\ nextId \in [LocalTypes -> Nat]
    /\ counters \in [IdTypes -> Int]
    /\ \A t \in IdTypes : TypeOf(counters[t] + 4) = t
    /\ waiting \in SUBSET StreamIds
    /\ stream \in [StreamIds -> {"none", "live", "gone"}]
    /\ closed \in [StreamIds -> SUBSET {"read", "write"}]
    /\ loop \in {"idle", "readable", "writable"}
    /\ todo \in SUBSET StreamIds
    /\ awaited \in SUBSET StreamIds
    /\ failed \in SUBSET {"readable", "writable", "newStream"}
    /\ limitHit \in BOOLEAN
    /\ qrecv \in [StreamIds -> {"none", "open", "readable", "done"}]
    /\ qsend \in [StreamIds -> {"none", "open", "stopped", "done"}]
    /\ limit \in [LocalTypes -> 0 .. MaxLimit]

(***************************************************************************)
(* "We should never repeat streamIds when creating streams": an id that    *)
(* had a QUICStream never gets a second one, in whatever order the peer    *)
(* opens, ends and touches its streams, and while stop refuses them.       *)
(***************************************************************************)
NoStreamIdReuse ==
    [][\A id \in StreamIds : stream[id] # "none" => stream'[id] \in {stream[id], "gone"}]_vars

(***************************************************************************)
(* The assertions of processStreams hold: data never arrives for an id     *)
(* whose QUICStream is gone, and the probe of such an id always fails.     *)
(* newStream reaches its own assertion only after the stream limit was hit.*)
(***************************************************************************)
NeverOnlyAfterLimit ==
    /\ failed \subseteq {"newStream"}
    /\ failed # {} => limitHit

\* A unidirectional stream of the peer can be read but has no QUICStream: it
\* was refused, and each refusal of it throws.
Unrefusable ==
    {id \in PeerIds : IsUni(TypeOf(id)) /\ stream[id] = "none" /\ qrecv[id] = "readable"}

(***************************************************************************)
(* Between two datagrams of a secure connection, whatever quiche holds for *)
(* reading belongs to a QUICStream whose readable side is open and will    *)
(* pull it, in every phase until stop returns.  The one exception is a     *)
(* throw of the refusal: then data of streams that are new, and of no      *)
(* others, is stranded, for as long as the stream it threw for is.         *)
(***************************************************************************)
NoStrandedData ==
    (loop = "idle" /\ secure /\ phase # "stopped") =>
        \A id \in StreamIds :
            qrecv[id] = "readable" =>
                \/ id \in Live /\ "read" \notin closed[id]
                \/ id \in PeerIds /\ stream[id] = "none" /\ Unrefusable # {}

(***************************************************************************)
(* stop awaits the streams it found in streamMap, once.  No stream is left *)
(* when it returns, so none was added while it waited.                     *)
(***************************************************************************)
StoppedWithoutStreams == phase = "stopped" => Live = {}

(***************************************************************************)
(* The assertion of newStream: the next local id is never one that is      *)
(* marked as used.                                                         *)
(***************************************************************************)
NewStreamIdIsFresh == "newStream" \notin failed
=============================================================================
