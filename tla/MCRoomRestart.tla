--------------------------- MODULE MCRoomRestart ---------------------------
(* Instances of RoomRestart for TLC. *)
EXTENDS RoomRestart, TLC

CONSTANTS home, ann, bob   \* a public IP and two user names

OneAddr == {[ip |-> home, port |-> 1]}
(* Two users of whom one names another room than the default one, and a    *)
(* user alone: in a single-room server all of them are in the same room.   *)
TwoRooms == {[room |-> "default", user |-> ann], [room |-> "lan", user |-> bob]}
OneUser == {[room |-> "lan", user |-> ann]}

Objects == Permutations(Cid) \cup Permutations(Worker)
=============================================================================
