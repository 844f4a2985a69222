------------------------------- MODULE MCRoom -------------------------------
(* Instances of Room for TLC. *)
EXTENDS Room, TLC

CONSTANTS home, cafe   \* two public IPs

At(i, p) == [ip |-> i, port |-> p]

(* Two hosts with a port each, and two ports behind one of them: with the  *)
(* second set a client can move without changing its IP.                   *)
TwoAddrs == {At(home, 1), At(cafe, 1)}
ThreeAddrs == {At(home, 1), At(home, 2), At(cafe, 1)}

Objects == Permutations(Cid) \cup Permutations(Worker) \cup Permutations(Player)
Symmetric == Objects \cup Permutations({home, cafe})
=============================================================================
