---------------------------- MODULE MCAsyncInit ----------------------------
(***************************************************************************)
(* Model-checking instance of AsyncInit: methods that allow no status, and *)
(* methods that allow those in which the class's own start and destroy run. *)
(***************************************************************************)
EXTENDS AsyncInit

MCAllowed == {{}, {"starting", "destroying"}}
=============================================================================
