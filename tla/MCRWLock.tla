------------------------------ MODULE MCRWLock ------------------------------
(***************************************************************************)
(* Model-checking instance of RWLock.  Without symmetry, since it checks   *)
(* liveness too.                                                           *)
(***************************************************************************)
EXTENDS RWLock
=============================================================================
