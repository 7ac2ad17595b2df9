---------------------------- MODULE MCSemaphore ----------------------------
(***************************************************************************)
(* Model-checking instance of Semaphore.  Without symmetry, since it       *)
(* checks liveness too.                                                    *)
(***************************************************************************)
EXTENDS Semaphore
=============================================================================
