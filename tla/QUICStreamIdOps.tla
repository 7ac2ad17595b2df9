-------------------------- MODULE QUICStreamIdOps --------------------------
(***************************************************************************)
(* How a QUICConnection remembers the stream ids for which it has created  *)
(* a QUICStream, two pieces of state and the operators on them.            *)
(*                                                                         *)
(* A connection may see any number of streams, so the ids are not kept in  *)
(* a set.  The two low bits of an id name its type (client or server       *)
(* initiated, bidirectional or unidirectional), and ids of one type are 4  *)
(* apart.  For each type there is one counter, the end of the run of used  *)
(* ids that starts at the type's first id; ids that arrive ahead of the    *)
(* run wait in one set shared by the four types, and leave it when the gap *)
(* before them is filled.                                                  *)
(***************************************************************************)
EXTENDS Integers

CONSTANTS StreamIds,    \* the ids that can occur
          MaxStreamId   \* a bound on them; QUIC's own is 2^62 - 1

ASSUME StreamIdsAssumption ==
    /\ MaxStreamId \in Nat
    /\ StreamIds \subseteq 0 .. MaxStreamId

VARIABLES counters,     \* streamIdUsed{ClientBidi,ServerBidi,ClientUni,ServerUni}
          waiting       \* streamIdUsedSet

\* The four types: 0b00, 0b01, 0b10 and 0b11.
IdTypes == 0 .. 3

\* const type = 0b11 & streamId
TypeOf(id) == id % 4

\* A plausible bug: the four initial values are pasted from the first type.
InitialCountersPasted == [t \in IdTypes |-> 0 - 4]

\* The counters before any id was used: one step below the type's first id.
InitialCounters == [t \in IdTypes |-> t - 4]

\* A plausible bug: an id equal to the counter is taken for a new one.
IsUsedStrict(c, w, id) ==
    \/ id < c[TypeOf(id)]
    \/ id \in w

IsUsed(c, w, id) ==
    \/ id <= c[TypeOf(id)]
    \/ id \in w

\* A plausible bug: the loop ends after one step and does not look whether the
\* next id is waiting.
RunEndOneStep(w, id) == id

\* Where the do-while loop stops: id, or the last of the waiting ids that
\* follow it without a gap.
RunEnd(w, id) ==
    CHOOSE m \in {id} \cup w :
        /\ m >= id
        /\ TypeOf(m) = TypeOf(id)
        /\ m + 4 \notin w
        /\ \A k \in id + 1 .. m : TypeOf(k) = TypeOf(id) => k \in w

IsNext(c, id) == id = c[TypeOf(id)] + 4

\* The counters and the set after a fresh id was marked as used.
CountersWith(c, w, id) ==
    IF IsNext(c, id)
    THEN [c EXCEPT ![TypeOf(id)] = RunEnd(w, id)]
    ELSE c

WaitingWith(c, w, id) ==
    IF IsNext(c, id)
    THEN {k \in w : ~ (/\ TypeOf(k) = TypeOf(id)
                       /\ k \in id .. RunEnd(w, id))}
    ELSE w \cup {id}
=============================================================================
