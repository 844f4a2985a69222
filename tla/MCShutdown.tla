---------------------------- MODULE MCShutdown ----------------------------
(* An instance of Shutdown for TLC: two clients to be told, and a packet   *)
(* relayed meanwhile.                                                      *)
EXTENDS Shutdown

CONSTANTS k1, k2, l1

Packets == {k1, k2, l1}
Kinds == [p \in Packets |-> IF p \in {k1, k2} THEN "high" ELSE "low"]
=============================================================================
