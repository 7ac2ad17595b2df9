-------------------------- MODULE MCQUICConnection --------------------------
(***************************************************************************)
(* Model-checking instances of QUICConnection: which connections a run is  *)
(* about.                                                                  *)
(***************************************************************************)
EXTENDS QUICConnection

\* One of each side, that verify and have or have not an idle timeout.
VerifyingConfigs ==
    {[side |-> "server", verifies |-> TRUE, idles |-> FALSE],
     [side |-> "client", verifies |-> TRUE, idles |-> TRUE]}

\* A server that accepts every client the handshake accepts.
PlainConfigs == {[side |-> "server", verifies |-> FALSE, idles |-> TRUE]}
=============================================================================
