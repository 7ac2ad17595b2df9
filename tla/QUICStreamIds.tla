--------------------------- MODULE QUICStreamIds ---------------------------
(***************************************************************************)
(* QUICConnection.isStreamUsed as a state machine: any sequence of ids may *)
(* be asked about, in any order and any number of times.  Its definitions  *)
(* have names of their own: the proofs extend it beside                    *)
(* QUICConnectionStreams, which keeps the same two pieces of state.        *)
(***************************************************************************)
EXTENDS QUICStreamIdOps

VARIABLE answer     \* what the last call returned

idsVars == <<counters, waiting, answer>>

IdsInit ==
    /\ counters = InitialCounters
    /\ waiting = {}
    /\ answer = "none"

isStreamUsed(id) ==
    IF IsUsed(counters, waiting, id)
    THEN /\ answer' = "used"
         /\ UNCHANGED <<counters, waiting>>
    ELSE /\ answer' = "fresh"
         /\ counters' = CountersWith(counters, waiting, id)
         /\ waiting' = WaitingWith(counters, waiting, id)

IdsNext == \E id \in StreamIds : isStreamUsed(id)

IdsSpec == IdsInit /\ [][IdsNext]_idsVars

-----------------------------------------------------------------------------

IdsTypeOK ==
    /\ counters \in [IdTypes -> Int]
    /\ \A t \in IdTypes : counters[t] >= t - 4 /\ TypeOf(counters[t] + 4) = t
    /\ waiting \in SUBSET StreamIds
    /\ answer \in {"none", "fresh", "used"}

(***************************************************************************)
(* The compact form is canonical: an id waits only while a smaller id of   *)
(* its type is missing, so the counter has always swallowed the whole run  *)
(* and the set never holds an id the counter already covers.  This is what *)
(* bounds the memory of isStreamUsed by the number of gaps.                *)
(***************************************************************************)
WaitingOnlyBeyondGap ==
    \A id \in waiting : id > counters[TypeOf(id)] + 4

\* The ids the two pieces of state stand for together.
UsedIds == {id \in StreamIds : IsUsed(counters, waiting, id)}

Abstract == INSTANCE StreamIdSet WITH used <- UsedIds

(***************************************************************************)
(* The counter and the set together behave exactly as one set of all ids   *)
(* ever asked about: isStreamUsed never calls an id fresh twice, never     *)
(* calls an id used that was not, and filling a gap forgets nothing.       *)
(***************************************************************************)
RefinesIdSet == Abstract!Spec
=============================================================================
