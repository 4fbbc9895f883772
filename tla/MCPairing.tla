------------------------------- MODULE MCPairing -------------------------------
(***************************************************************************)
(* Pairing on small instances: two hosts, of which one restarts, and a     *)
(* client.                                                                 *)
(***************************************************************************)
EXTENDS Pairing

CONSTANTS h1, h2, c1

OneHost   == {h1}
TwoHosts  == {h1, h2}
OneClient == {c1}

\* h1 may start twice, h2 once.
OneRestart == [h \in Hosts |-> IF h = h1 THEN 2 ELSE 1]
=============================================================================
