------------------------------- MODULE Lease -------------------------------
(***************************************************************************)
(* What a room promises about its virtual IPs, without the addresses,      *)
(* objects, challenges and counters by which it keeps the promise: each    *)
(* virtual IP is leased to at most one player, a player has at most one,   *)
(* a newcomer gets the lowest one free if the room is not full, and a      *)
(* lease ends before its virtual IP is leased again.                       *)
(***************************************************************************)
EXTENDS Naturals, FiniteSets

CONSTANTS VIP, Player, Nil, MaxPlayers

VARIABLE holder   \* virtual IP -> the player that holds it

Held == {v \in VIP : holder[v] # Nil}

LInit == holder = [v \in VIP |-> Nil]

Join(v, p) ==
    /\ Cardinality(Held) < MaxPlayers
    /\ \A u \in VIP : holder[u] # p
    /\ v \in VIP \ Held
    /\ \A u \in VIP \ Held : v <= u
    /\ holder' = [holder EXCEPT ![v] = p]

Leave(gone) == holder' = [v \in VIP |-> IF v \in gone THEN Nil ELSE holder[v]]

LNext ==
    \/ \E v \in VIP, p \in Player : Join(v, p)
    \/ \E gone \in SUBSET Held : Leave(gone)

LSpec == LInit /\ [][LNext]_holder
=============================================================================
