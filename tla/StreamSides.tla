----------------------------- MODULE StreamSides -----------------------------
(***************************************************************************)
(* What the owner of a QUICStream relies on: a stream has two sides, a     *)
(* side that has closed stays closed, and the stream is destroyed once, at *)
(* a time when both sides are closed.                                      *)
(***************************************************************************)
VARIABLES readClosed, writeClosed, destroyed

Init ==
    /\ readClosed \in BOOLEAN
    /\ writeClosed \in BOOLEAN
    /\ destroyed = FALSE

\* One or both of the sides close.
CloseSides ==
    /\ readClosed => readClosed'
    /\ writeClosed => writeClosed'
    /\ readClosed' \in BOOLEAN
    /\ writeClosed' \in BOOLEAN
    /\ UNCHANGED destroyed

Destroy ==
    /\ readClosed
    /\ writeClosed
    /\ destroyed' = TRUE
    /\ UNCHANGED <<readClosed, writeClosed>>

Next == ~ destroyed /\ (CloseSides \/ Destroy)

Spec == Init /\ [][Next]_<<readClosed, writeClosed, destroyed>>
=============================================================================
