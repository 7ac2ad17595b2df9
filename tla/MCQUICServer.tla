---------------------------- MODULE MCQUICServer ----------------------------
(***************************************************************************)
(* Model-checking instances of QUICServer.                                 *)
(***************************************************************************)
EXTENDS QUICServer

CONSTANTS i1, i2

\* Two datagrams of one client, and one of another.
TwoClients == {<<i1, 1>>, <<i1, 2>>, <<i2, 1>>}
=============================================================================
