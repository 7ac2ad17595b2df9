------------------------- MODULE MCTimedCancellable -------------------------
(***************************************************************************)
(* Model-checking instance of TimedCancellable: every wrapper, lazy and    *)
(* eager, with every combination of what the caller hands down.            *)
(***************************************************************************)
EXTENDS TimedCancellable
=============================================================================
