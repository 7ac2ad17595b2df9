---------------------------- MODULE StreamIdSet ----------------------------
(***************************************************************************)
(* What QUICConnection.isStreamUsed promises its callers, without saying   *)
(* how: the connection remembers a set of stream ids, and asking about an  *)
(* id answers whether it was remembered and remembers it.                  *)
(***************************************************************************)
CONSTANT StreamIds

VARIABLES used,     \* the ids that were ever asked about
          answer    \* the last result: "fresh" or "used", "none" at first

Init ==
    /\ used = {}
    /\ answer = "none"

Ask(id) ==
    /\ answer' = IF id \in used THEN "used" ELSE "fresh"
    /\ used' = used \cup {id}

Next == \E id \in StreamIds : Ask(id)

Spec == Init /\ [][Next]_<<used, answer>>
=============================================================================
