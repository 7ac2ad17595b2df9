-------------------------- MODULE MCQUICStreamIds --------------------------
(***************************************************************************)
(* Model-checking instance of QUICStreamIds: three or four ids of each     *)
(* type, enough for a run of two waiting ids behind a gap, in every order  *)
(* of arrival and with every repetition.                                   *)
(***************************************************************************)
EXTENDS QUICStreamIds
=============================================================================
