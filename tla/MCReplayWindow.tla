--------------------------- MODULE MCReplayWindow ---------------------------
(* An instance of ReplayWindow for TLC: two senders, nothing damaged. *)
EXTENDS ReplayWindow

CONSTANTS ann, bob

Two == {ann, bob}
Apart == [s \in Two |-> IF s = ann THEN 1 ELSE 9]
=============================================================================
