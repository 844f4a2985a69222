----------------------------- MODULE MCTraffic -----------------------------
(***************************************************************************)
(* The packets of the server in one run: its send queue, the queue and the *)
(* savers while the server ends, and the replay window of a receiver.  A   *)
(* behaviour runs one of the three and leaves the rest as it is initially. *)
(*                                                                         *)
(* The packets of kind "high" are the kicks when the server ends.  The     *)
(* channels and buffers are small enough for every one of them to be full  *)
(* at some time.                                                           *)
(***************************************************************************)
EXTENDS Shutdown, ReplayWindow

CONSTANTS h1, h2, l1, l2, l3, b1, b2, b3, ann

VARIABLE part   \* what a behaviour is about, and the packets it may send

Mixed == {h1, h2, l1, l2, l3, b1, b2, b3}
MixedKind ==
    [p \in Mixed |-> CASE p \in {h1, h2} -> "high"
                       [] p \in {l1, l2, l3} -> "low"
                       [] OTHER -> "broadcast"]

(* More unicast packets than run puts aside at once, more broadcasts than  *)
(* fit in a batch, or some of each kind.  At the end, changes of the room  *)
(* (and so saves at any time) with a relayed packet, or two broadcasts, of *)
(* which the second finds the channel full, with only the final saves.     *)
Part(about, packets) == [about |-> about, packets |-> packets]
Parts ==
    {Part("queue", mix) : mix \in {{h1, h2, l1, l2, l3}, {h1, b1, b2, b3}, {h1, h2, l1, b1, b2}}}
        \cup {Part("end", mix) : mix \in {{h1, h2, l1}, {h1, h2, b1, b2}}}
        \cup {Part("window", {})}

(* Packets of one kind are interchangeable: they are sent in this order.   *)
InOrder ==
    \A pair \in {<<h1, h2>>, <<l1, l2>>, <<l2, l3>>, <<b1, b2>>, <<b2, b3>>} :
        sender[pair[1]] = "idle" => sender[pair[2]] = "idle"

TrafficInit == SInit /\ Init /\ part \in Parts
TrafficNext ==
    /\ UNCHANGED part
    /\ \/ part.about = "queue" /\ QNext /\ UNCHANGED <<close, disk, vars>>
       \/ part.about = "end" /\ SNext /\ UNCHANGED vars
       \/ part.about = "window" /\ Next /\ UNCHANGED svars
    /\ \A p \in Message \ part.packets : sender'[p] = "idle"
    /\ InOrder'
    /\ room' # room => l1 \in part.packets
TrafficSpec == TrafficInit /\ [][TrafficNext]_<<part, svars, vars>> /\ SFairness

(* One sender whose counter starts below the window, and damage that makes *)
(* up counters it has used, will use and never uses.                       *)
One == {ann}
FromZero == [s \in One |-> 0]
AnyCounter == 0 .. (MaxSent + Window)
=============================================================================
