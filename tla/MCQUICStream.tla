----------------------------- MODULE MCQUICStream -----------------------------
(***************************************************************************)
(* Model-checking instance of QUICStream.                                  *)
(***************************************************************************)
EXTENDS QUICStream
=============================================================================
