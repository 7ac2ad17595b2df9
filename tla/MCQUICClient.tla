---------------------------- MODULE MCQUICClient ----------------------------
(* Two clients on the shared socket, one client with a shared socket that  *)
(* is started again, and one with a socket of its own, which has nothing   *)
(* in common with other clients.  The last two with and without a timeout. *)
EXTENDS QUICClient

CONSTANTS a, b

MCClients == {a, b}
MCCasts ==
    {[shared |-> {a, b}, own |-> {}, timeout |-> FALSE, starts |-> 1]}
    \cup {[shared |-> {a}, own |-> {}, timeout |-> t, starts |-> 2] : t \in BOOLEAN}
    \cup {[shared |-> {}, own |-> {a}, timeout |-> t, starts |-> 1] : t \in BOOLEAN}

=============================================================================
