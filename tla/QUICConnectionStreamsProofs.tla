-------------------- MODULE QUICConnectionStreamsProofs --------------------
(***************************************************************************)
(* Proofs about QUICConnectionStreams, for either side, every set of ids,  *)
(* any limit on streams and datagrams about any number of them, and about  *)
(* the registry of ids by itself, QUICStreamIds.                           *)
(***************************************************************************)
EXTENDS QUICConnectionStreams, QUICStreamIds, WellFoundedInduction, NaturalsInduction, TLAPS

-----------------------------------------------------------------------------
(* isStreamUsed, for any counters and set.                                 *)

(***************************************************************************)
(* The do-while loop of isStreamUsed stops: among the ids at or after id   *)
(* there is a first one whose successor is not waiting, because only       *)
(* finitely many ids can wait.  RunEnd is that id.                         *)
(***************************************************************************)
LEMMA RunEndExists ==
    ASSUME NEW w \in SUBSET StreamIds, NEW id \in StreamIds
    PROVE  /\ RunEnd(w, id) \in {id} \cup w
           /\ RunEnd(w, id) >= id
           /\ TypeOf(RunEnd(w, id)) = TypeOf(id)
           /\ RunEnd(w, id) + 4 \notin w
           /\ \A k \in id + 1 .. RunEnd(w, id) :
                 TypeOf(k) = TypeOf(id) => k \in w
<1> DEFINE Stops == {m \in Nat : /\ m >= id
                                 /\ m % 4 = id % 4
                                 /\ m + 4 \notin w}
           Far == id + 4 * MaxStreamId
           R == OpToRel(<, Nat)
<1> USE StreamIdsAssumption
<1>1. Far \in Stops
  <2>1. Far \in Nat /\ Far >= id /\ Far + 4 > MaxStreamId
    OBVIOUS
  <2>2. Far % 4 = id % 4
    OBVIOUS
  <2>3. QED
    BY <2>1, <2>2
<1>2. PICK m \in Stops : \A y \in Stops : ~ (<<y, m>> \in R)
  <2>1. IsWellFoundedOn(R, Nat)
    BY NatLessThanWellFounded
  <2>2. Stops \subseteq Nat /\ Stops # {}
    BY <1>1
  <2> HIDE DEF Stops, R
  <2>3. QED
    BY <2>1, <2>2, WFMin
<1>3. \A y \in Stops : y >= m
  <2> SUFFICES ASSUME NEW y \in Stops, ~ (y >= m)
               PROVE  FALSE
    OBVIOUS
  <2>1. y \in Nat /\ m \in Nat /\ y < m
    OBVIOUS
  <2>2. <<y, m>> \in R
    BY <2>1 DEF OpToRel
  <2>3. ~ (<<y, m>> \in R)
    BY <1>2
  <2> HIDE DEF R
  <2>4. QED
    BY <2>2, <2>3
<1>4. \A k \in id + 1 .. m : k % 4 = id % 4 => k \in w
  <2> SUFFICES ASSUME NEW k \in id + 1 .. m, k % 4 = id % 4, k \notin w
               PROVE  FALSE
    OBVIOUS
  <2>1. k - 4 >= id /\ (k - 4) % 4 = id % 4 /\ k - 4 \in Nat
    OBVIOUS
  <2>2. k - 4 \in Stops
    BY <2>1
  <2>3. QED
    BY <1>3, <2>2
<1>5. m \in {id} \cup w
  BY <1>4
<1>6. \E x \in {id} \cup w :
        /\ x >= id
        /\ TypeOf(x) = TypeOf(id)
        /\ x + 4 \notin w
        /\ \A k \in id + 1 .. x : TypeOf(k) = TypeOf(id) => k \in w
  BY <1>4, <1>5 DEF TypeOf
<1>7. QED
  BY <1>6 DEF RunEnd

(***************************************************************************)
(* The form the counters and the set always have: the counters are one     *)
(* step before an id of their own type, never below the first one, and     *)
(* only ids behind a gap wait.                                             *)
(***************************************************************************)
Canonical(c, w) ==
    /\ c \in [IdTypes -> Int]
    /\ \A t \in IdTypes : c[t] >= t - 4 /\ TypeOf(c[t] + 4) = t
    /\ w \in SUBSET StreamIds
    /\ \A k \in w : k > c[TypeOf(k)] + 4

(***************************************************************************)
(* Marking a fresh id keeps that form, and the ids the counters and the    *)
(* set stand for become the old ones and the new one.                      *)
(***************************************************************************)
LEMMA MarkFresh ==
    ASSUME NEW c, NEW w, Canonical(c, w),
           NEW id \in StreamIds, ~ IsUsed(c, w, id)
    PROVE  /\ Canonical(CountersWith(c, w, id), WaitingWith(c, w, id))
           /\ \A x \in StreamIds :
                 IsUsed(CountersWith(c, w, id), WaitingWith(c, w, id), x)
                   <=> IsUsed(c, w, x) \/ x = id
<1> DEFINE t == TypeOf(id)
           e == RunEnd(w, id)
           cc == CountersWith(c, w, id)
           ww == WaitingWith(c, w, id)
<1>1. t \in IdTypes /\ id \in Nat
  BY StreamIdsAssumption DEF TypeOf, IdTypes
<1>2. CASE IsNext(c, id)
  <2>1. /\ e \in {id} \cup w
        /\ e >= id
        /\ TypeOf(e) = t
        /\ e + 4 \notin w
        /\ \A k \in id + 1 .. e : TypeOf(k) = t => k \in w
    BY RunEndExists DEF Canonical
  <2> HIDE DEF e
  <2>2. e \in StreamIds /\ e \in Nat
    BY <2>1, StreamIdsAssumption DEF Canonical
  <2>3. /\ cc = [c EXCEPT ![t] = e]
        /\ ww = {k \in w : ~ (TypeOf(k) = t /\ k \in id .. e)}
    BY <1>2 DEF CountersWith, WaitingWith, e
  <2> HIDE DEF cc, ww
  <2>4. c[t] = id - 4 /\ id - 4 \in Int
    BY <1>1, <1>2 DEF IsNext, Canonical
  <2>5. cc \in [IdTypes -> Int]
    BY <1>1, <2>2, <2>3 DEF Canonical
  <2>6. \A u \in IdTypes : cc[u] = IF u = t THEN e ELSE c[u]
    BY <2>3 DEF Canonical
  <2>7. \A u \in IdTypes : cc[u] >= u - 4 /\ TypeOf(cc[u] + 4) = u
    <3>1. e >= t - 4 /\ TypeOf(e + 4) = t
      BY <1>1, <2>1, <2>2 DEF TypeOf, IdTypes
    <3>2. QED
      BY <2>6, <3>1 DEF Canonical
  <2>8. ww \in SUBSET StreamIds
    BY <2>3 DEF Canonical
  <2>9. \A k \in ww : TypeOf(k) \in IdTypes /\ k \in Int
    BY <2>8, StreamIdsAssumption DEF TypeOf, IdTypes
  <2>10. ASSUME NEW k \in ww
         PROVE  k > cc[TypeOf(k)] + 4
    <3>1. k \in w /\ k > c[TypeOf(k)] + 4
      BY <2>3, <2>10 DEF Canonical
    <3>2. CASE TypeOf(k) = t
      <4>1. k > e
        BY <1>1, <2>2, <2>3, <2>4, <2>9, <3>1, <3>2
      <4>2. k # e + 4
        BY <2>1, <3>1
      <4>3. k > e + 4
        BY <2>1, <2>2, <2>9, <3>2, <4>1, <4>2 DEF TypeOf
      <4>4. QED
        BY <1>1, <2>6, <3>2, <4>3
    <3>3. CASE TypeOf(k) # t
      BY <2>6, <2>9, <3>1, <3>3
    <3>4. QED
      BY <3>2, <3>3
  <2>11. ASSUME NEW x \in StreamIds
         PROVE  IsUsed(cc, ww, x) <=> IsUsed(c, w, x) \/ x = id
    <3>1. x \in Int /\ TypeOf(x) \in IdTypes
      BY StreamIdsAssumption DEF TypeOf, IdTypes
    <3>2. CASE TypeOf(x) = t
      <4>1. IsUsed(cc, ww, x) <=> x <= e \/ x \in w
        BY <1>1, <2>1, <2>2, <2>3, <2>6, <3>1, <3>2 DEF IsUsed
      <4>2. IsUsed(c, w, x) <=> x <= id - 4 \/ x \in w
        BY <2>4, <3>2 DEF IsUsed
      <4>3. x < id => x <= id - 4
        BY <1>1, <3>1, <3>2 DEF TypeOf
      <4>4. x \in id + 1 .. e => x \in w
        BY <2>1, <3>2
      <4>5. QED
        BY <1>1, <2>1, <2>2, <3>1, <4>1, <4>2, <4>3, <4>4
    <3>3. CASE TypeOf(x) # t
      BY <2>3, <2>6, <3>1, <3>3 DEF IsUsed
    <3>4. QED
      BY <3>2, <3>3
  <2>12. Canonical(cc, ww)
    BY <2>5, <2>7, <2>8, <2>10 DEF Canonical
  <2>13. QED
    BY <2>11, <2>12 DEF cc, ww
<1>3. CASE ~ IsNext(c, id)
  <2>1. cc = c /\ ww = w \cup {id}
    BY <1>3 DEF CountersWith, WaitingWith
  <2> HIDE DEF cc, ww
  <2>2. id > c[t] + 4
    <3>1. c[t] \in Int /\ id > c[t] /\ TypeOf(c[t] + 4) = t
      BY <1>1 DEF IsUsed, Canonical
    <3>2. QED
      BY <1>1, <1>3, <3>1 DEF IsNext, TypeOf
  <2>3. Canonical(cc, ww)
    BY <2>1, <2>2 DEF Canonical
  <2>4. \A x \in StreamIds : IsUsed(cc, ww, x) <=> IsUsed(c, w, x) \/ x = id
    BY <2>1 DEF IsUsed
  <2>5. QED
    BY <2>3, <2>4 DEF cc, ww
<1>4. QED
  BY <1>2, <1>3

-----------------------------------------------------------------------------
(* The registry by itself.                                                 *)

\* The inductive invariant of isStreamUsed.
IdsInv == Canonical(counters, waiting) /\ answer \in {"none", "fresh", "used"}

\* Nothing is used at first.
LEMMA FirstIds ==
    ASSUME counters = InitialCounters, waiting = {}
    PROVE  /\ Canonical(counters, waiting)
           /\ \A id \in StreamIds : ~ IsUsed(counters, waiting, id)
<1>1. Canonical(counters, waiting)
  BY DEF Canonical, InitialCounters, IdTypes, TypeOf
<1>2. ASSUME NEW id \in StreamIds
      PROVE  ~ IsUsed(counters, waiting, id)
  <2>1. id \in Nat /\ TypeOf(id) \in 0 .. 3
    BY StreamIdsAssumption DEF TypeOf
  <2>2. counters[TypeOf(id)] = TypeOf(id) - 4
    BY <2>1 DEF InitialCounters, IdTypes
  <2>3. QED
    BY <2>1, <2>2 DEF IsUsed
<1>3. QED
  BY <1>1, <1>2

(***************************************************************************)
(* One call, seen as a question to the set of used ids.                    *)
(***************************************************************************)
LEMMA AskedOnce ==
    ASSUME IdsInv, NEW id \in StreamIds, isStreamUsed(id)
    PROVE  IdsInv' /\ Abstract!Ask(id)
<1>1. \A x : x \in UsedIds <=> x \in StreamIds /\ IsUsed(counters, waiting, x)
  BY DEF UsedIds
<1>2. \A x : x \in UsedIds' <=> x \in StreamIds /\ IsUsed(counters', waiting', x)
  BY DEF UsedIds
<1>3. CASE IsUsed(counters, waiting, id)
  <2>1. answer' = "used" /\ UNCHANGED <<counters, waiting>>
    BY <1>3 DEF isStreamUsed
  <2>2. IdsInv'
    BY <2>1 DEF IdsInv, Canonical
  <2>3. UsedIds' = UsedIds \cup {id}
    BY <1>1, <1>2, <1>3, <2>1
  <2>4. QED
    BY <1>1, <1>3, <2>1, <2>2, <2>3 DEF Abstract!Ask
<1>4. CASE ~ IsUsed(counters, waiting, id)
  <2> DEFINE cc == CountersWith(counters, waiting, id)
             ww == WaitingWith(counters, waiting, id)
  <2>1. answer' = "fresh" /\ counters' = cc /\ waiting' = ww
    BY <1>4 DEF isStreamUsed
  <2>2. /\ Canonical(cc, ww)
        /\ \A x \in StreamIds : IsUsed(cc, ww, x) <=> IsUsed(counters, waiting, x) \/ x = id
    BY <1>4, MarkFresh DEF IdsInv
  <2> HIDE DEF cc, ww
  <2>3. IdsInv'
    BY <2>1, <2>2 DEF IdsInv, Canonical
  <2>4. UsedIds' = UsedIds \cup {id}
    BY <1>1, <1>2, <2>1, <2>2
  <2>5. QED
    BY <1>1, <1>4, <2>1, <2>3, <2>4 DEF Abstract!Ask
<1>5. QED
  BY <1>3, <1>4

LEMMA IdsInvInit == IdsInit => IdsInv /\ Abstract!Init
<1> SUFFICES ASSUME IdsInit PROVE IdsInv /\ Abstract!Init
  OBVIOUS
<1>1. counters = InitialCounters /\ waiting = {} /\ answer = "none"
  BY DEF IdsInit
<1>2. IdsInv /\ \A id \in StreamIds : ~ IsUsed(counters, waiting, id)
  BY <1>1, FirstIds DEF IdsInv
<1>3. UsedIds = {}
  BY <1>2 DEF UsedIds
<1>4. QED
  BY <1>1, <1>2, <1>3 DEF Abstract!Init

LEMMA IdsInvStep ==
    IdsInv /\ [IdsNext]_idsVars =>
        IdsInv' /\ [Abstract!Next]_<<UsedIds, answer>>
<1>1. ASSUME IdsInv, IdsNext
      PROVE  IdsInv' /\ Abstract!Next
  BY <1>1, AskedOnce DEF IdsNext, Abstract!Next
<1>2. ASSUME IdsInv, UNCHANGED idsVars
      PROVE  IdsInv' /\ UNCHANGED <<UsedIds, answer>>
  BY <1>2 DEF idsVars, IdsInv, Canonical, UsedIds, IsUsed
<1>3. QED
  BY <1>1, <1>2

(***************************************************************************)
(* The counters are always one step before an id of their own type, and    *)
(* the memory of isStreamUsed stays canonical: whatever the order in which *)
(* the peer opens its streams, an id waits only behind a gap.              *)
(***************************************************************************)
THEOREM IdsInvariant == IdsSpec => [](IdsTypeOK /\ WaitingOnlyBeyondGap)
<1>1. IdsInv => IdsTypeOK /\ WaitingOnlyBeyondGap
  BY DEF IdsInv, Canonical, IdsTypeOK, WaitingOnlyBeyondGap
<1>2. QED
  BY <1>1, IdsInvInit, IdsInvStep, PTL DEF IdsSpec

(***************************************************************************)
(* The counter per type and the set of early ids implement one set of all  *)
(* ids ever used: a fresh answer is given once for an id, and only once.   *)
(***************************************************************************)
THEOREM IdsRefineSet == IdsSpec => RefinesIdSet
  BY IdsInvInit, IdsInvStep, PTL DEF IdsSpec, RefinesIdSet, Abstract!Spec

-----------------------------------------------------------------------------
(* The streams of a connection.                                            *)

Used(id) == IsUsed(counters, waiting, id)

\* An id that had a QUICStream is used, and a used one of the peer had one.
Marked(id) ==
    /\ stream[id] # "none" => Used(id)
    /\ id \in PeerIds /\ Used(id) => stream[id] # "none"

(***************************************************************************)
(* A side the QUICStream has closed is over in quiche too, quiche knows    *)
(* nothing of a local id without a stream, and it never opens a sending    *)
(* side for a unidirectional stream of the peer.                           *)
(***************************************************************************)
Sides(id) ==
    /\ "read" \in closed[id] => qrecv[id] = "done"
    /\ "write" \in closed[id] =>
          \/ qsend[id] \in {"done", "stopped"}
          \/ qsend[id] = "none" /\ IsUni(TypeOf(id))
    /\ stream[id] = "gone" => closed[id] = {"read", "write"}
    /\ id \in LocalIds /\ stream[id] = "none" => qsend[id] = "none" /\ qrecv[id] = "none"
    /\ id \in PeerIds /\ IsUni(TypeOf(id)) => qsend[id] \in {"none", "done"}

\* The ids a loop still has to visit are those quiche reported.
Looping(id) ==
    /\ loop = "readable" /\ id \in todo => qrecv[id] = "readable"
    /\ loop = "writable" /\ id \in todo => qsend[id] # "none"

\* Data that can be read is its stream's, or the loop will come to it, or a
\* refusal threw, which happens in the first loop only.
Heard(id) ==
    secure /\ qrecv[id] = "readable" =>
        \/ id \in Live
        \/ loop = "readable" /\ id \in todo
        \/ loop = "idle" /\ id \in PeerIds /\ stream[id] = "none" /\ Unrefusable # {}

\* Until the limit was hit the next local id is beyond those in use.
NextIsFresh ==
    \A t \in LocalTypes :
        /\ TypeOf(nextId[t]) = t
        /\ ~ limitHit =>
              \A id \in StreamIds : TypeOf(id) = t /\ Used(id) => id < nextId[t]

\* Only a running connection adds streams, so stop awaits all there are.
Stopping ==
    /\ phase # "starting" => secure
    /\ phase = "awaiting" => Live \subseteq awaited
    /\ StoppedWithoutStreams

PerStream == \A id \in StreamIds : Marked(id) /\ Sides(id) /\ Looping(id) /\ Heard(id)

IInv ==
    /\ TypeOK
    /\ Canonical(counters, waiting)
    /\ PerStream
    /\ NextIsFresh
    /\ Stopping
    /\ NeverOnlyAfterLimit

\* Marking a fresh id, by the lemma about isStreamUsed.
LEMMA Marks ==
    ASSUME Canonical(counters, waiting),
           NEW id \in StreamIds, ~ Used(id), MarkUsed(id)
    PROVE  /\ Canonical(counters, waiting)'
           /\ \A x \in StreamIds : Used(x)' <=> Used(x) \/ x = id
<1> DEFINE cc == CountersWith(counters, waiting, id)
           ww == WaitingWith(counters, waiting, id)
<1>1. /\ Canonical(cc, ww)
      /\ \A x \in StreamIds : IsUsed(cc, ww, x) <=> IsUsed(counters, waiting, x) \/ x = id
  BY MarkFresh DEF Used
<1>2. counters' = cc /\ waiting' = ww
  BY DEF MarkUsed
<1> HIDE DEF cc, ww
<1>3. QED
  BY <1>1, <1>2 DEF Used, Canonical

\* What is used depends on the counters and the set alone.
LEMMA UsedAsBefore ==
    ASSUME Canonical(counters, waiting), UNCHANGED <<counters, waiting>>
    PROVE  /\ Canonical(counters, waiting)'
           /\ \A x \in StreamIds : Used(x)' <=> Used(x)
  BY DEF Canonical, Used

LEMMA TypesOfIds ==
    \A id \in StreamIds : /\ id \in Nat
                          /\ TypeOf(id) \in IdTypes
                          /\ id \in LocalIds <=> TypeOf(id) \in LocalTypes
                          /\ id \in PeerIds <=> id \notin LocalIds
  BY StreamIdsAssumption DEF TypeOf, IdTypes, LocalIds, PeerIds

LEMMA InitInv == Init => IInv
<1> SUFFICES ASSUME Init PROVE IInv
  OBVIOUS
<1>1. Canonical(counters, waiting)
  BY FirstIds DEF Init
<1>2. \A id \in StreamIds : ~ Used(id)
  BY FirstIds DEF Init, Used
<1>3. \A t \in LocalTypes : t \in IdTypes /\ t \in Nat /\ TypeOf(t) = t
  BY DEF LocalTypes, IdTypes, TypeOf
<1>4. TypeOK
  BY <1>1, <1>3 DEF Init, TypeOK, Canonical, Phases
<1>5. PerStream
  BY <1>2 DEF Init, PerStream, Marked, Sides, Looping, Heard
<1>6. NextIsFresh
  BY <1>2, <1>3 DEF Init, NextIsFresh
<1>7. Stopping /\ NeverOnlyAfterLimit
  BY DEF Init, Stopping, StoppedWithoutStreams, NeverOnlyAfterLimit
<1>8. QED
  BY <1>1, <1>4, <1>5, <1>6, <1>7 DEF IInv

(***************************************************************************)
(* What a step leaves alone keeps what is said about it.                   *)
(***************************************************************************)
LEMMA SameStreams ==
    ASSUME IInv, UNCHANGED <<registry, qrecv, qsend, limitHit, failed>>
    PROVE  /\ Canonical(counters, waiting)'
           /\ \A id \in StreamIds : Marked(id)' /\ Sides(id)'
           /\ NextIsFresh'
           /\ NeverOnlyAfterLimit'
<1>1. /\ Canonical(counters, waiting)'
      /\ \A x \in StreamIds : Used(x)' <=> Used(x)
  BY UsedAsBefore DEF registry, IInv
<1>2. \A id \in StreamIds : Marked(id)' /\ Sides(id)'
  BY <1>1 DEF registry, IInv, PerStream, Marked, Sides
<1>3. NextIsFresh'
  BY <1>1 DEF registry, IInv, NextIsFresh
<1>4. NeverOnlyAfterLimit'
  BY DEF IInv, NeverOnlyAfterLimit
<1>5. QED
  BY <1>1, <1>2, <1>3, <1>4

LEMMA QuietStep ==
    ASSUME IInv,
           \/ EndProcess
           \/ Started
           \/ BeginStop
           \/ DestroyAll
           \/ EndStop
           \/ \E t \in LocalTypes : PeerRaisesLimit(t)
           \/ \E more \in SUBSET StreamIds : ToWritable(more)
           \/ UNCHANGED vars
    PROVE  IInv'
<1>1. UNCHANGED <<registry, qrecv, qsend, limitHit, failed, secure>>
  BY DEF EndProcess, Started, BeginStop, DestroyAll, EndStop, PeerRaisesLimit,
         ToWritable, quiche, vars
<1>2. /\ Canonical(counters, waiting)'
      /\ \A id \in StreamIds : Marked(id)' /\ Sides(id)'
      /\ NextIsFresh'
      /\ NeverOnlyAfterLimit'
  BY <1>1, SameStreams
<1>3. Live' = Live /\ Unrefusable' = Unrefusable
  BY <1>1 DEF Live, Unrefusable, registry
<1>4. TypeOK'
  <2>1. /\ phase' \in Phases
        /\ loop' \in {"idle", "readable", "writable"}
    BY DEF IInv, TypeOK, EndProcess, Started, BeginStop, DestroyAll, EndStop,
           PeerRaisesLimit, ToWritable, vars, Phases
  <2>2. todo' \in SUBSET StreamIds /\ awaited' \in SUBSET StreamIds
    BY DEF IInv, TypeOK, EndProcess, Started, BeginStop, DestroyAll, EndStop,
           PeerRaisesLimit, ToWritable, vars, Live
  <2>3. limit' \in [LocalTypes -> 0 .. MaxLimit]
    <3>1. ASSUME NEW t \in LocalTypes, PeerRaisesLimit(t)
          PROVE  limit' \in [LocalTypes -> 0 .. MaxLimit]
      BY <3>1, StreamsAssumption DEF PeerRaisesLimit, IInv, TypeOK
    <3>2. QED
      BY <3>1 DEF IInv, TypeOK, EndProcess, Started, BeginStop, DestroyAll,
                  EndStop, ToWritable, quiche, vars
  <2>4. QED
    BY <1>1, <2>1, <2>2, <2>3 DEF IInv, TypeOK, registry
<1>5. ASSUME NEW id \in StreamIds
      PROVE  Looping(id)' /\ Heard(id)'
  <2>1. CASE \E more \in SUBSET StreamIds : ToWritable(more)
    BY <1>1, <1>3, <2>1 DEF ToWritable, IInv, PerStream, Looping, Heard, registry
  <2>2. CASE EndProcess
    BY <1>1, <1>3, <2>2 DEF EndProcess, IInv, PerStream, Looping, Heard, registry
  <2>3. CASE UNCHANGED <<loop, todo>>
    BY <1>1, <1>3, <2>3 DEF IInv, PerStream, Looping, Heard, registry
  <2>4. QED
    BY <2>1, <2>2, <2>3 DEF Started, BeginStop, DestroyAll, EndStop,
                            PeerRaisesLimit, vars
<1>6. Stopping'
  <2>1. CASE Started \/ BeginStop
    BY <1>1, <1>3, <2>1 DEF Started, BeginStop, IInv, Stopping, StoppedWithoutStreams
  <2>2. CASE DestroyAll
    BY <1>1, <1>3, <2>2 DEF DestroyAll, IInv, Stopping, StoppedWithoutStreams
  <2>3. CASE EndStop
    BY <1>1, <1>3, <2>3 DEF EndStop, IInv, Stopping, StoppedWithoutStreams
  <2>4. CASE UNCHANGED <<phase, awaited>>
    BY <1>1, <1>3, <2>4 DEF IInv, Stopping, StoppedWithoutStreams
  <2>5. QED
    BY <2>1, <2>2, <2>3, <2>4 DEF EndProcess, PeerRaisesLimit, ToWritable, vars
<1>7. QED
  BY <1>2, <1>4, <1>5, <1>6 DEF IInv, PerStream

(***************************************************************************)
(* A datagram changes what quiche knows, and makes no stream.              *)
(***************************************************************************)
LEMMA RecvStep ==
    ASSUME IInv, NEW data \in SUBSET StreamIds, NEW stops \in SUBSET StreamIds,
           NEW complete \in BOOLEAN, recv(data, stops, complete)
    PROVE  IInv'
<1>1. /\ UNCHANGED <<phase, registry, awaited, failed, limitHit, limit>>
      /\ secure' = (secure \/ complete)
      /\ loop = "idle"
  BY DEF recv
<1>2. \A id \in StreamIds :
         qrecv'[id] = IF id \in data /\ qrecv[id] # "done"
                      THEN "readable" ELSE qrecv[id]
  BY DEF recv
<1>3. \A id \in StreamIds :
         qsend'[id] = CASE id \in stops /\ qsend[id] = "open" -> "stopped"
                        [] id \in data /\ qsend[id] = "none"
                                       /\ ~ IsUni(TypeOf(id)) -> "open"
                        [] OTHER -> qsend[id]
  BY DEF recv
<1>4. IF secure'
      THEN loop' = "readable" /\ todo' = {id \in StreamIds : qrecv'[id] = "readable"}
      ELSE UNCHANGED <<loop, todo>>
  BY DEF recv
<1>5. /\ Canonical(counters, waiting)'
      /\ \A x \in StreamIds : Used(x)' <=> Used(x)
  BY <1>1, UsedAsBefore DEF registry, IInv
<1>6. Live' = Live
  BY <1>1 DEF Live, registry
<1>7. TypeOK'
  <2>1. qrecv' \in [StreamIds -> {"none", "open", "readable", "done"}]
    BY DEF recv, IInv, TypeOK
  <2>2. qsend' \in [StreamIds -> {"none", "open", "stopped", "done"}]
    BY DEF recv, IInv, TypeOK
  <2>3. /\ secure' \in BOOLEAN
        /\ loop' \in {"idle", "readable", "writable"}
        /\ todo' \in SUBSET StreamIds
    BY <1>1, <1>4 DEF IInv, TypeOK
  <2>4. QED
    BY <1>1, <2>1, <2>2, <2>3 DEF IInv, TypeOK, registry
<1>8. ASSUME NEW id \in StreamIds
      PROVE  Marked(id)' /\ Sides(id)' /\ Looping(id)' /\ Heard(id)'
  <2>1. Marked(id)'
    BY <1>1, <1>5 DEF registry, IInv, PerStream, Marked
  <2>2. Sides(id)'
    <3>1. id \in LocalIds /\ stream[id] = "none" => id \notin data \cup stops
      BY TypesOfIds DEF recv, PeerMaySend, PeerMayStop, IInv, PerStream, Sides
    <3>2. Sides(id)
      BY DEF IInv, PerStream
    <3>3. /\ qrecv[id] = "done" => qrecv'[id] = "done"
          /\ id \notin data => qrecv'[id] = qrecv[id]
          /\ id \notin data \cup stops => qsend'[id] = qsend[id]
          /\ qsend[id] \in {"done", "stopped"} => qsend'[id] = qsend[id]
          /\ qsend[id] = "none" /\ IsUni(TypeOf(id)) => qsend'[id] = "none"
      BY <1>2, <1>3
    <3>4. QED
      BY <1>1, <3>1, <3>2, <3>3 DEF registry, Sides
  <2>3. Looping(id)' /\ Heard(id)'
    BY <1>1, <1>2, <1>4, <1>6 DEF IInv, PerStream, Looping, Heard
  <2>4. QED
    BY <2>1, <2>2, <2>3
<1>9. NextIsFresh'
  BY <1>1, <1>5 DEF registry, IInv, NextIsFresh
<1>10. Stopping' /\ NeverOnlyAfterLimit'
  BY <1>1, <1>6 DEF IInv, Stopping, StoppedWithoutStreams, NeverOnlyAfterLimit
<1>11. QED
  BY <1>5, <1>7, <1>8, <1>9, <1>10 DEF IInv, PerStream

(***************************************************************************)
(* A side closes, or a stream that has closed both leaves the map.         *)
(***************************************************************************)
LEMMA CloseStep ==
    ASSUME IInv, NEW id \in StreamIds,
           CloseRead(id) \/ CloseWrite(id) \/ StreamDestroyed(id)
    PROVE  IInv'
<1>1. /\ UNCHANGED <<phase, secure, nextId, counters, waiting, loop, todo,
                     awaited, failed, limitHit, limit>>
      /\ loop = "idle"
      /\ id \in Live
  BY DEF CloseRead, CloseWrite, StreamDestroyed, quiche
<1>2. /\ Canonical(counters, waiting)'
      /\ \A x \in StreamIds : Used(x)' <=> Used(x)
  BY <1>1, UsedAsBefore DEF IInv
<1>3. TypeOK'
  <2>1. CASE CloseRead(id)
    BY <1>1, <2>1 DEF CloseRead, IInv, TypeOK
  <2>2. CASE CloseWrite(id)
    BY <1>1, <2>2 DEF CloseWrite, IInv, TypeOK
  <2>3. CASE StreamDestroyed(id)
    BY <1>1, <2>3 DEF StreamDestroyed, quiche, IInv, TypeOK
  <2>4. QED
    BY <2>1, <2>2, <2>3
<1>9. Unrefusable' = Unrefusable
  <2>1. \A u \in PeerIds : u # id => stream'[u] = stream[u] /\ qrecv'[u] = qrecv[u]
    BY DEF CloseRead, CloseWrite, StreamDestroyed, quiche, PeerIds, IInv, TypeOK
  <2>2. stream[id] = "live" /\ stream'[id] # "none"
    BY <1>1 DEF CloseRead, CloseWrite, StreamDestroyed, Live, IInv, TypeOK
  <2>3. \A u \in PeerIds : stream'[u] = "none" /\ qrecv'[u] = "readable"
                             <=> stream[u] = "none" /\ qrecv[u] = "readable"
    BY <2>1, <2>2
  <2>4. QED
    BY <2>3 DEF Unrefusable
<1>4. ASSUME NEW x \in StreamIds
      PROVE  Marked(x)' /\ Sides(x)' /\ Looping(x)' /\ Heard(x)'
  <2>1. /\ Marked(x) /\ Sides(x) /\ Looping(x) /\ Heard(x) /\ Sides(id)
        /\ Unrefusable' = Unrefusable
    BY <1>9 DEF IInv, PerStream
  <2>2. CASE CloseRead(id)
    BY <1>1, <1>2, <2>1, <2>2
       DEF CloseRead, IInv, TypeOK, Marked, Sides, Looping, Heard, Live
  <2>3. CASE CloseWrite(id)
    BY <1>1, <1>2, <2>1, <2>3, TypesOfIds
       DEF CloseWrite, IInv, TypeOK, Marked, Sides, Looping, Heard, Live
  <2>4. CASE StreamDestroyed(id)
    BY <1>1, <1>2, <2>1, <2>4
       DEF StreamDestroyed, MayDestroy, quiche, IInv, TypeOK, Marked, Sides, Looping,
           Heard, Live
  <2>5. QED
    BY <2>2, <2>3, <2>4
<1>5. NextIsFresh'
  BY <1>1, <1>2 DEF IInv, NextIsFresh
<1>6. Live' \subseteq Live
  BY DEF CloseRead, CloseWrite, StreamDestroyed, Live, IInv, TypeOK
<1>7. Stopping' /\ NeverOnlyAfterLimit'
  BY <1>1, <1>6 DEF IInv, Stopping, StoppedWithoutStreams, NeverOnlyAfterLimit
<1>8. QED
  BY <1>2, <1>3, <1>4, <1>5, <1>7 DEF IInv, PerStream

(***************************************************************************)
(* An id of a loop without a stream is the peer's and was never used, or   *)
(* its stream is gone and only the second loop meets it: the assertions of *)
(* processStreams hold.                                                    *)
(***************************************************************************)
LEMMA Strangers ==
    ASSUME IInv, NEW id \in todo, id \notin Live, loop # "idle"
    PROVE  \/ stream[id] = "none" /\ id \in PeerIds /\ ~ Used(id)
           \/ /\ stream[id] = "gone"
              /\ loop = "writable"
              /\ qsend[id] \in {"stopped", "done"}
<1>1. id \in StreamIds /\ loop \in {"readable", "writable"}
  BY DEF IInv, TypeOK
<1>2. Marked(id) /\ Sides(id) /\ Looping(id)
  BY <1>1 DEF IInv, PerStream
<1>3. stream[id] \in {"none", "gone"}
  BY <1>1 DEF IInv, TypeOK, Live
<1>4. CASE stream[id] = "none"
  BY <1>1, <1>2, <1>4, TypesOfIds DEF Marked, Sides, Looping
<1>5. CASE stream[id] = "gone"
  BY <1>1, <1>2, <1>5 DEF Sides, Looping
<1>6. QED
  BY <1>3, <1>4, <1>5

(***************************************************************************)
(* What every iteration but a failing one has in common.                   *)
(***************************************************************************)
LEMMA Visiting ==
    ASSUME IInv, NEW id \in todo, loop # "idle", Visited(id),
           UNCHANGED <<phase, secure, nextId, awaited, limitHit, limit, failed>>
    PROVE  /\ id \in StreamIds
           /\ todo' \in SUBSET StreamIds
           /\ NeverOnlyAfterLimit'
           /\ \A x \in StreamIds : x \in todo' <=> x \in todo /\ x # id
  BY DEF IInv, TypeOK, Visited, NeverOnlyAfterLimit

(***************************************************************************)
(* A stream that lives reads, writes, or has its sides closed by it.       *)
(***************************************************************************)
LEMMA LiveVisitStep ==
    ASSUME IInv, NEW id \in todo, loop # "idle", id \in Live, Visited(id),
           UNCHANGED <<phase, secure, nextId, counters, waiting, stream, awaited,
                       limitHit, limit, failed>>,
           \/ /\ loop = "readable"
              /\ \E finished \in BOOLEAN : Read(id, closed[id], finished)
              /\ UNCHANGED qsend
           \/ loop = "writable" /\ Write(id, closed[id]) /\ UNCHANGED qrecv
    PROVE  IInv'
<1>1. /\ id \in StreamIds
      /\ todo' \in SUBSET StreamIds
      /\ NeverOnlyAfterLimit'
      /\ \A x \in StreamIds : x \in todo' <=> x \in todo /\ x # id
  BY Visiting
<1>2. /\ Canonical(counters, waiting)'
      /\ \A x \in StreamIds : Used(x)' <=> Used(x)
  BY UsedAsBefore DEF IInv
<1>3. Live' = Live
  BY DEF Live
<1>4. CASE loop = "readable"
  <2>1. PICK finished \in BOOLEAN : Read(id, closed[id], finished)
    BY <1>4
  <2>2. UNCHANGED <<qsend, loop, failed>>
    BY <1>4 DEF Visited
  <2>3. TypeOK'
    BY <1>1, <2>1, <2>2 DEF Read, IInv, TypeOK
  <2>4. ASSUME NEW x \in StreamIds
        PROVE  Marked(x)' /\ Sides(x)' /\ Looping(x)' /\ Heard(x)'
    <3>1. Marked(x) /\ Sides(x) /\ Looping(x) /\ Heard(x)
      BY DEF IInv, PerStream
    <3>2. Marked(x)'
      BY <1>2, <3>1 DEF Marked
    <3>3. Sides(x)'
      BY <1>1, <2>1, <2>2, <3>1 DEF Read, Sides, Live, IInv, TypeOK
    <3>4. Looping(x)' /\ Heard(x)'
      BY <1>1, <1>3, <1>4, <2>1, <2>2, <3>1 DEF Read, Looping, Heard, IInv, TypeOK
    <3>5. QED
      BY <3>2, <3>3, <3>4
  <2>5. QED
    BY <1>1, <1>2, <1>3, <2>3, <2>4
       DEF IInv, PerStream, NextIsFresh, Stopping, StoppedWithoutStreams
<1>5. CASE loop = "writable"
  <2>1. Write(id, closed[id]) /\ UNCHANGED <<qrecv, loop, failed>>
    BY <1>5 DEF Visited
  <2>2. TypeOK'
    BY <1>1, <2>1 DEF Write, IInv, TypeOK
  <2>3. ASSUME NEW x \in StreamIds
        PROVE  Marked(x)' /\ Sides(x)' /\ Looping(x)' /\ Heard(x)'
    <3>1. Marked(x) /\ Sides(x) /\ Looping(x) /\ Heard(x)
      BY DEF IInv, PerStream
    <3>2. Marked(x)'
      BY <1>2, <3>1 DEF Marked
    <3>3. Sides(x)'
      BY <1>1, <2>1, <3>1 DEF Write, Sides, Live, IInv, TypeOK
    <3>4. Looping(x)' /\ Heard(x)'
      BY <1>1, <1>3, <1>5, <2>1, <3>1 DEF Write, Looping, Heard, IInv, TypeOK
    <3>5. QED
      BY <3>2, <3>3, <3>4
  <2>4. QED
    BY <1>1, <1>2, <1>3, <2>2, <2>3
       DEF IInv, PerStream, NextIsFresh, Stopping, StoppedWithoutStreams
<1>6. QED
  BY <1>4, <1>5

(***************************************************************************)
(* A stream that is refused ends in quiche, or its refusal throws.         *)
(***************************************************************************)
LEMMA RefusedVisitStep ==
    ASSUME IInv, NEW id \in todo, loop # "idle", id \notin Live, Refuse(id),
           UNCHANGED <<phase, secure, awaited, limitHit>>
    PROVE  IInv'
<1>1. UNCHANGED <<nextId, counters, waiting, stream, closed, limit, failed>>
  BY DEF Refuse, registry
<1>2. id \in StreamIds /\ todo' \in SUBSET StreamIds /\ NeverOnlyAfterLimit'
  BY <1>1 DEF Refuse, Visited, ThrowOut, IInv, TypeOK, NeverOnlyAfterLimit
<1>3. /\ Canonical(counters, waiting)'
      /\ \A x \in StreamIds : Used(x)' <=> Used(x)
  BY <1>1, UsedAsBefore DEF IInv
<1>4. Live' = Live
  BY <1>1 DEF Live
<1>5. stream[id] = "none" => id \in PeerIds
  BY Strangers
<1>6. TypeOK'
  BY <1>1, <1>2 DEF Refuse, Visited, ThrowOut, IInv, TypeOK
<1>7. ASSUME NEW x \in StreamIds
      PROVE  Marked(x)' /\ Sides(x)' /\ Looping(x)' /\ Heard(x)'
  <2>1. Marked(x) /\ Sides(x) /\ Looping(x) /\ Heard(x)
    BY DEF IInv, PerStream
  <2>2. Marked(x)'
    BY <1>1, <1>3, <2>1 DEF Marked
  <2>3. Sides(x)'
    BY <1>1, <1>2, <1>5, <2>1, TypesOfIds DEF Refuse, Sides, IInv, TypeOK
  <2>4. CASE ~ IsUni(TypeOf(id))
    <3>1. /\ loop' = loop
          /\ \A y \in StreamIds : y \in todo' <=> y \in todo /\ y # id
          /\ qrecv' = [qrecv EXCEPT ![id] = "done"]
          /\ qsend' = [qsend EXCEPT ![id] = "done"]
      BY <1>2, <2>4 DEF Refuse, Visited, IInv, TypeOK
    <3>2. QED
      BY <1>1, <1>2, <1>4, <2>1, <2>2, <2>3, <3>1 DEF Looping, Heard, IInv, TypeOK
  <2>5. CASE IsUni(TypeOf(id))
    <3>1. loop' = "idle" /\ qrecv' = qrecv
      BY <2>5 DEF Refuse, ThrowOut
    <3>2. ASSUME secure, qrecv[x] = "readable", x \notin Live
          PROVE  x \in PeerIds /\ stream[x] = "none" /\ Unrefusable' # {}
      <4>1. loop = "readable" /\ x \in todo
        BY <2>1, <3>2 DEF Heard
      <4>2. x \in PeerIds /\ stream[x] = "none"
        BY <3>2, <4>1, Strangers
      <4>3. id \in PeerIds /\ stream[id] = "none" /\ qrecv[id] = "readable"
        BY <1>2, <4>1, Strangers DEF IInv, PerStream, Looping
      <4>4. id \in Unrefusable'
        BY <1>1, <2>5, <3>1, <4>3 DEF Unrefusable
      <4>5. QED
        BY <4>2, <4>4
    <3>3. QED
      BY <1>1, <1>4, <2>2, <2>3, <3>1, <3>2 DEF Looping, Heard
  <2>6. QED
    BY <2>4, <2>5
<1>8. QED
  BY <1>1, <1>2, <1>3, <1>4, <1>6, <1>7
     DEF IInv, PerStream, NextIsFresh, Stopping, StoppedWithoutStreams

(***************************************************************************)
(* A running connection makes the stream the peer has opened.              *)
(***************************************************************************)
LEMMA NewPeerVisitStep ==
    ASSUME IInv, NEW id \in todo, loop # "idle", id \notin Live, ~ Refuses,
           ~ Used(id), AddPeerStream(id), Visited(id),
           UNCHANGED <<phase, secure, nextId, awaited, limitHit, limit, failed>>,
           \/ /\ loop = "readable"
              /\ \E finished \in BOOLEAN : Read(id, NewSides(id), finished)
              /\ UNCHANGED qsend
           \/ loop = "writable" /\ Write(id, NewSides(id)) /\ UNCHANGED qrecv
    PROVE  IInv'
<1>1. /\ id \in StreamIds
      /\ todo' \in SUBSET StreamIds
      /\ NeverOnlyAfterLimit'
      /\ \A x \in StreamIds : x \in todo' <=> x \in todo /\ x # id
  BY Visiting
<1>2. UNCHANGED <<loop, failed>> /\ phase = "running"
  BY DEF Visited, Refuses
<1>3. /\ Canonical(counters, waiting)'
      /\ \A x \in StreamIds : Used(x)' <=> Used(x) \/ x = id
  BY <1>1, Marks DEF AddPeerStream, IInv
<1>4. stream' = [stream EXCEPT ![id] = "live"]
  BY DEF AddPeerStream
<1>5. \A x \in StreamIds : x \in Live' <=> x \in Live \/ x = id
  BY <1>1, <1>4 DEF Live, IInv, TypeOK
<1>6. stream[id] = "none" /\ id \in PeerIds
  BY <1>1, Strangers DEF IInv, PerStream, Marked
<1>7. Sides(id) /\ (IsUni(TypeOf(id)) => qsend[id] \in {"none", "done"})
  BY <1>1, <1>6 DEF IInv, PerStream, Sides
<1>8. /\ counters' \in [IdTypes -> Int]
      /\ \A t \in IdTypes : TypeOf(counters'[t] + 4) = t
      /\ waiting' \in SUBSET StreamIds
  BY <1>3 DEF Canonical
<1>9. NextIsFresh'
  BY <1>3, <1>6, TypesOfIds DEF IInv, NextIsFresh
<1>10. Stopping'
  BY <1>2 DEF IInv, Stopping, StoppedWithoutStreams
<1>11. /\ NewSides(id) \in SUBSET {"read", "write"}
       /\ "read" \notin NewSides(id)
       /\ "write" \in NewSides(id) => IsUni(TypeOf(id))
  BY DEF NewSides
<1>12. CASE loop = "readable"
  <2>1. PICK finished \in BOOLEAN : Read(id, NewSides(id), finished)
    BY <1>12
  <2>2. UNCHANGED qsend
    BY <1>12
  <2>3. TypeOK'
    BY <1>1, <1>2, <1>4, <1>8, <1>11, <2>1, <2>2 DEF Read, IInv, TypeOK
  <2>4. ASSUME NEW x \in StreamIds
        PROVE  Marked(x)' /\ Sides(x)' /\ Looping(x)' /\ Heard(x)'
    <3>1. Marked(x) /\ Sides(x) /\ Looping(x) /\ Heard(x)
      BY DEF IInv, PerStream
    <3>2. Marked(x)'
      BY <1>1, <1>3, <1>4, <3>1 DEF Marked, IInv, TypeOK
    <3>3. Sides(x)'
      <4>1. CASE x = id
        BY <1>1, <1>4, <1>7, <1>11, <2>1, <2>2, <3>1, <4>1
           DEF Read, Sides, IInv, TypeOK
      <4>2. CASE x # id
        BY <1>4, <2>1, <2>2, <3>1, <4>2 DEF Read, Sides, IInv, TypeOK
      <4>3. QED
        BY <4>1, <4>2
    <3>4. Looping(x)' /\ Heard(x)'
      BY <1>1, <1>2, <1>5, <1>12, <2>1, <2>2, <3>1 DEF Read, Looping, Heard, IInv, TypeOK
    <3>5. QED
      BY <3>2, <3>3, <3>4
  <2>5. QED
    BY <1>1, <1>3, <1>9, <1>10, <2>3, <2>4 DEF IInv, PerStream
<1>13. CASE loop = "writable"
  <2>1. Write(id, NewSides(id)) /\ UNCHANGED qrecv
    BY <1>13
  <2>2. TypeOK'
    BY <1>1, <1>2, <1>4, <1>8, <1>11, <2>1 DEF Write, IInv, TypeOK
  <2>3. ASSUME NEW x \in StreamIds
        PROVE  Marked(x)' /\ Sides(x)' /\ Looping(x)' /\ Heard(x)'
    <3>1. Marked(x) /\ Sides(x) /\ Looping(x) /\ Heard(x)
      BY DEF IInv, PerStream
    <3>2. Marked(x)'
      BY <1>1, <1>3, <1>4, <3>1 DEF Marked, IInv, TypeOK
    <3>3. Sides(x)'
      <4>1. CASE x = id
        BY <1>1, <1>4, <1>7, <1>11, <2>1, <3>1, <4>1 DEF Write, Sides, IInv, TypeOK
      <4>2. CASE x # id
        BY <1>4, <2>1, <3>1, <4>2 DEF Write, Sides, IInv, TypeOK
      <4>3. QED
        BY <4>1, <4>2
    <3>4. Looping(x)' /\ Heard(x)'
      BY <1>1, <1>2, <1>5, <1>13, <2>1, <3>1 DEF Write, Looping, Heard, IInv, TypeOK
    <3>5. QED
      BY <3>2, <3>3, <3>4
  <2>4. QED
    BY <1>1, <1>3, <1>9, <1>10, <2>2, <2>3 DEF IInv, PerStream
<1>14. QED
  BY <1>12, <1>13 

LEMMA ProcessStep ==
    ASSUME IInv, NEW id \in StreamIds, ProcessReadable(id) \/ ProcessWritable(id)
    PROVE  IInv'
<1>1. /\ id \in todo
      /\ loop # "idle"
      /\ UNCHANGED <<phase, secure, awaited, limitHit>>
  BY DEF ProcessReadable, ProcessWritable
<1>2. CASE id \in Live
  BY <1>1, <1>2, LiveVisitStep DEF ProcessReadable, ProcessWritable
<1>3. CASE id \notin Live /\ Refuses
  BY <1>1, <1>3, RefusedVisitStep DEF ProcessReadable, ProcessWritable
<1>4. CASE id \notin Live /\ ~ Refuses /\ ~ Used(id)
  BY <1>1, <1>4, NewPeerVisitStep DEF ProcessReadable, ProcessWritable, Used
<1>5. CASE id \notin Live /\ ~ Refuses /\ Used(id)
  <2>1. loop = "writable" /\ qsend[id] \in {"stopped", "done"}
    BY <1>1, <1>5, Strangers
  <2>2. Visited(id) /\ UNCHANGED <<registry, quiche, failed>>
    BY <1>5, <2>1 DEF ProcessReadable, ProcessWritable, Probe, Used
  <2>3. /\ UNCHANGED <<registry, qrecv, qsend, limitHit, failed, loop, limit>>
        /\ todo' \in SUBSET StreamIds
        /\ \A x \in StreamIds : x \in todo' <=> x \in todo /\ x # id
    BY <1>1, <2>2, Visiting DEF registry, quiche, Visited
  <2>4. /\ Canonical(counters, waiting)'
        /\ \A x \in StreamIds : Marked(x)' /\ Sides(x)'
        /\ NextIsFresh'
        /\ NeverOnlyAfterLimit'
    BY <2>3, SameStreams
  <2>5. Live' = Live
    BY <2>3 DEF Live, registry
  <2>6. TypeOK'
    BY <1>1, <2>3 DEF registry, IInv, TypeOK
  <2>7. \A x \in StreamIds : Looping(x)' /\ Heard(x)'
    BY <1>1, <2>1, <2>3, <2>5 DEF IInv, PerStream, Looping, Heard
  <2>8. Stopping'
    BY <1>1, <2>5 DEF IInv, Stopping, StoppedWithoutStreams
  <2>9. QED
    BY <2>4, <2>6, <2>7, <2>8 DEF IInv, PerStream
<1>6. QED
  BY <1>2, <1>3, <1>4, <1>5

(***************************************************************************)
(* The user opens a stream.                                                *)
(***************************************************************************)
LEMMA NewStreamStep ==
    ASSUME IInv, NEW t \in LocalTypes, newStream(t)
    PROVE  IInv'
<1> DEFINE id == nextId[t]
<1>1. /\ loop = "idle"
      /\ phase = "running"
      /\ id \in StreamIds
      /\ UNCHANGED <<phase, secure, awaited, limit>>
  BY DEF newStream, Never, ThrowOut, quiche
<1>2. TypeOf(id) = t /\ id \in LocalIds /\ id \in Nat
  BY <1>1, TypesOfIds DEF IInv, NextIsFresh
<1> HIDE DEF id
<1>3. Stopping'
  BY <1>1 DEF IInv, Stopping, StoppedWithoutStreams
<1>4. CASE Used(id)
  <2>1. /\ UNCHANGED <<registry, qrecv, qsend, limitHit>>
        /\ failed' = failed \cup {"newStream"}
        /\ loop' = "idle"
        /\ todo' = {}
    BY <1>4 DEF newStream, Never, ThrowOut, quiche, Used, id
  <2>2. limitHit
    BY <1>1, <1>2, <1>4 DEF IInv, NextIsFresh, id
  <2>3. NeverOnlyAfterLimit'
    BY <2>1, <2>2 DEF IInv, NeverOnlyAfterLimit
  <2>4. /\ Canonical(counters, waiting)'
        /\ \A x \in StreamIds : Used(x)' <=> Used(x)
    BY <2>1, UsedAsBefore DEF registry, IInv
  <2>5. Live' = Live /\ Unrefusable' = Unrefusable
    BY <2>1 DEF registry, Live, Unrefusable
  <2>6. TypeOK'
    BY <1>1, <2>1 DEF registry, IInv, TypeOK
  <2>7. \A x \in StreamIds : Marked(x)' /\ Sides(x)' /\ Looping(x)' /\ Heard(x)'
    BY <1>1, <2>1, <2>4, <2>5
       DEF registry, IInv, PerStream, Marked, Sides, Looping, Heard
  <2>8. NextIsFresh'
    BY <2>1, <2>4 DEF registry, IInv, NextIsFresh
  <2>9. QED
    BY <1>3, <2>3, <2>4, <2>6, <2>7, <2>8 DEF IInv, PerStream
<1>5. CASE ~ Used(id)
  <2>1. /\ MarkUsed(id)
        /\ AddLocalStream(id) \/ HitLimit
        /\ UNCHANGED <<loop, todo, failed>>
    BY <1>5 DEF newStream, Used, id
  <2>2. /\ Canonical(counters, waiting)'
        /\ \A x \in StreamIds : Used(x)' <=> Used(x) \/ x = id
    BY <1>1, <1>5, <2>1, Marks DEF IInv, id
  <2>3. /\ counters' \in [IdTypes -> Int]
        /\ \A u \in IdTypes : TypeOf(counters'[u] + 4) = u
        /\ waiting' \in SUBSET StreamIds
    BY <2>2 DEF Canonical
  <2>4. id \in StreamIds
    BY <1>1 DEF id
  <2>5. CASE AddLocalStream(id)
    <3>1. TypeOf(id + 4) = t /\ id + 4 \in Nat
      BY <1>2 DEF TypeOf
    <3>2. TypeOK'
      BY <1>1, <1>2, <2>1, <2>3, <2>4, <2>5, <3>1 DEF AddLocalStream, IInv, TypeOK
    <3>3. \A x \in StreamIds : x \in Live' <=> x \in Live \/ x = id
      BY <2>4, <2>5 DEF AddLocalStream, Live, IInv, TypeOK
    <3>8. Unrefusable' = Unrefusable
      <4>1. \A u \in PeerIds : stream'[u] = stream[u] /\ qrecv'[u] = qrecv[u]
        BY <1>2, <2>5, TypesOfIds DEF AddLocalStream, PeerIds, IInv, TypeOK
      <4>2. QED
        BY <4>1 DEF Unrefusable
    <3>4. ASSUME NEW x \in StreamIds
          PROVE  Marked(x)' /\ Sides(x)' /\ Looping(x)' /\ Heard(x)'
      <4>1. /\ Marked(x) /\ Sides(x) /\ Looping(x) /\ Heard(x)
            /\ Unrefusable' = Unrefusable
        BY <3>8 DEF IInv, PerStream
      <4>2. CASE x = id
        BY <1>1, <1>2, <2>1, <2>2, <2>4, <2>5, <4>1, <4>2, TypesOfIds
           DEF AddLocalStream, IInv, TypeOK, Marked, Sides, Looping, Heard
      <4>3. CASE x # id
        BY <1>1, <2>1, <2>2, <2>5, <3>3, <4>1, <4>3
           DEF AddLocalStream, IInv, TypeOK, Marked, Sides, Looping, Heard
      <4>4. QED
        BY <4>2, <4>3
    <3>5. NextIsFresh'
      <4>1. /\ limitHit' = limitHit
            /\ \A u \in LocalTypes : nextId'[u] = IF u = t THEN id + 4 ELSE nextId[u]
        BY <1>2, <2>5 DEF AddLocalStream, IInv, TypeOK
      <4>2. ASSUME NEW u \in LocalTypes
            PROVE  TypeOf(nextId'[u]) = u
        BY <3>1, <4>1 DEF IInv, NextIsFresh
      <4>3. ASSUME NEW u \in LocalTypes, ~ limitHit', NEW x \in StreamIds,
                   TypeOf(x) = u, Used(x)'
            PROVE  x < nextId'[u]
        <5>1. CASE x = id
          BY <1>2, <4>1, <4>3, <5>1
        <5>2. CASE x # id
          <6>1. Used(x) /\ ~ limitHit
            BY <2>2, <4>1, <4>3, <5>2
          <6>2. x < nextId[u]
            BY <4>3, <6>1 DEF IInv, NextIsFresh
          <6>3. x \in Nat
            BY TypesOfIds
          <6>4. QED
            BY <1>2, <4>1, <6>2, <6>3 DEF id
        <5>3. QED
          BY <5>1, <5>2
      <4>4. QED
        BY <4>2, <4>3 DEF NextIsFresh
    <3>6. NeverOnlyAfterLimit'
      BY <2>1, <2>5 DEF AddLocalStream, IInv, NeverOnlyAfterLimit
    <3>7. QED
      BY <1>3, <2>2, <3>2, <3>4, <3>5, <3>6 DEF IInv, PerStream
  <2>6. CASE HitLimit
    <3>1. TypeOK'
      BY <1>1, <2>1, <2>3, <2>6 DEF HitLimit, IInv, TypeOK
    <3>2. Live' = Live /\ Unrefusable' = Unrefusable
      BY <2>6 DEF HitLimit, Live, Unrefusable
    <3>3. ASSUME NEW x \in StreamIds
          PROVE  Marked(x)' /\ Sides(x)' /\ Looping(x)' /\ Heard(x)'
      <4>1. Marked(x) /\ Sides(x) /\ Looping(x) /\ Heard(x)
        BY DEF IInv, PerStream
      <4>2. x = id => x \notin PeerIds
        BY <1>2, TypesOfIds
      <4>3. QED
        BY <1>1, <2>1, <2>2, <2>6, <3>2, <4>1, <4>2
           DEF HitLimit, Marked, Sides, Looping, Heard
    <3>4. NextIsFresh' /\ NeverOnlyAfterLimit'
      BY <2>1, <2>6 DEF HitLimit, IInv, NextIsFresh, NeverOnlyAfterLimit
    <3>5. QED
      BY <1>3, <2>2, <3>1, <3>3, <3>4 DEF IInv, PerStream
  <2>7. QED
    BY <2>1, <2>5, <2>6
<1>6. QED
  BY <1>4, <1>5

LEMMA StepInv == IInv /\ [Next]_vars => IInv'
<1> SUFFICES ASSUME IInv, [Next]_vars
             PROVE  IInv'
  OBVIOUS
<1>1. ASSUME NEW data \in SUBSET StreamIds, NEW stops \in SUBSET StreamIds,
             NEW complete \in BOOLEAN, recv(data, stops, complete)
      PROVE  IInv'
  BY <1>1, RecvStep
<1>2. ASSUME NEW id \in StreamIds, ProcessReadable(id) \/ ProcessWritable(id)
      PROVE  IInv'
  BY <1>2, ProcessStep
<1>3. ASSUME NEW id \in StreamIds,
             CloseRead(id) \/ CloseWrite(id) \/ StreamDestroyed(id)
      PROVE  IInv'
  BY <1>3, CloseStep
<1>4. ASSUME NEW t \in LocalTypes, newStream(t)
      PROVE  IInv'
  BY <1>4, NewStreamStep
<1>5. CASE \/ EndProcess
           \/ Started
           \/ BeginStop
           \/ DestroyAll
           \/ EndStop
           \/ \E t \in LocalTypes : PeerRaisesLimit(t)
           \/ \E more \in SUBSET StreamIds : ToWritable(more)
           \/ UNCHANGED vars
  BY <1>5, QuietStep
<1>6. QED
  BY <1>1, <1>2, <1>3, <1>4, <1>5 DEF Next

LEMMA Inductive == Spec => []IInv
  BY InitInv, StepInv, PTL DEF Spec

(***************************************************************************)
(* The state of a connection's streams always has its type.                *)
(***************************************************************************)
THEOREM TypeCorrect == Spec => []TypeOK
<1>1. IInv => TypeOK
  BY DEF IInv
<1>2. QED
  BY <1>1, Inductive, PTL

(***************************************************************************)
(* The assertions of processStreams hold: utils.never is reached neither   *)
(* in its first loop nor in its second, and in newStream only after a      *)
(* creation failed at the peer's limit.                                    *)
(***************************************************************************)
THEOREM AssertionsHold == Spec => []NeverOnlyAfterLimit
<1>1. IInv => NeverOnlyAfterLimit
  BY DEF IInv
<1>2. QED
  BY <1>1, Inductive, PTL

(***************************************************************************)
(* Between two datagrams of a secure connection that has not stopped,      *)
(* readable data belongs to a stream that will pull it, unless a refusal   *)
(* threw: then only streams that are new have data nobody pulls.           *)
(***************************************************************************)
THEOREM DataIsRead == Spec => []NoStrandedData
<1>1. IInv => NoStrandedData
  BY DEF IInv, PerStream, Sides, Heard, NoStrandedData
<1>2. QED
  BY <1>1, Inductive, PTL

(***************************************************************************)
(* No stream is left in streamMap when stop returns: none is added while   *)
(* stop awaits those it found.                                             *)
(***************************************************************************)
THEOREM StopAwaitsAll == Spec => []StoppedWithoutStreams
<1>1. IInv => StoppedWithoutStreams
  BY DEF IInv, Stopping
<1>2. QED
  BY <1>1, Inductive, PTL

(***************************************************************************)
(* "We should never repeat streamIds when creating streams": an id that    *)
(* had a QUICStream never gets another one.                                *)
(***************************************************************************)
THEOREM IdsNeverReused == Spec => NoStreamIdReuse
<1> DEFINE Kept == \A id \in StreamIds :
                       stream[id] # "none" => stream'[id] \in {stream[id], "gone"}
<1>1. IInv /\ [Next]_vars => [Kept]_vars
  <2> SUFFICES ASSUME IInv, Next
               PROVE  Kept
    OBVIOUS
  <2>1. ASSUME NEW id \in StreamIds, ~ Used(id), stream' = [stream EXCEPT ![id] = "live"]
        PROVE  Kept
    BY <2>1 DEF IInv, PerStream, Marked, TypeOK
  <2>2. CASE UNCHANGED stream
    BY <2>2
  <2>3. ASSUME NEW id \in StreamIds, ProcessReadable(id) \/ ProcessWritable(id)
        PROVE  Kept
    BY <2>1, <2>2, <2>3
       DEF ProcessReadable, ProcessWritable, AddPeerStream, Refuse, Never, Probe,
           registry, Used
  <2>4. ASSUME NEW id \in StreamIds,
               CloseRead(id) \/ CloseWrite(id) \/ StreamDestroyed(id)
        PROVE  Kept
    BY <2>2, <2>4 DEF CloseRead, CloseWrite, StreamDestroyed, IInv, TypeOK
  <2>5. ASSUME NEW t \in LocalTypes, newStream(t)
        PROVE  Kept
    BY <2>1, <2>2, <2>5
       DEF newStream, AddLocalStream, HitLimit, Never, registry, Used
  <2>6. QED
    BY <2>2, <2>3, <2>4, <2>5
       DEF Next, recv, ToWritable, EndProcess, PeerRaisesLimit, Started, BeginStop,
           DestroyAll, EndStop, registry
<1>2. Spec => [][Kept]_vars
  <2> HIDE DEF Kept
  <2>1. QED
    BY <1>1, Inductive, PTL DEF Spec
<1>3. QED
  BY <1>2 DEF NoStreamIdReuse
=============================================================================
