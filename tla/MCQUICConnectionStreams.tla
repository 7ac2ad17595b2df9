---------------------- MODULE MCQUICConnectionStreams ----------------------
(***************************************************************************)
(* Model-checking instance of QUICConnectionStreams.                       *)
(***************************************************************************)
EXTENDS QUICConnectionStreams
=============================================================================
