---------------------------- MODULE ReplayWindow ----------------------------
(***************************************************************************)
(* One receiving Cipher (internal/crypto/crypto.go) and the packets sent   *)
(* to it.  A sender numbers its packets with an increasing counter; the    *)
(* network loses, repeats and reorders them; the receiver keeps the        *)
(* highest counter it accepted and a bitmap of the Window counters up to   *)
(* it, and hands over a packet only if that says the packet is new.        *)
(*                                                                         *)
(* The clients of a room share the key, and each decrypts the packets of   *)
(* all others with one Cipher: Sender is the set of those others.  Start   *)
(* is the random counter of initCounter; it has 48 bits, so that the 64    *)
(* bits of the counter are never used up and Nat stands for them.          *)
(*                                                                         *)
(* The counter is read from the nonce, which is authenticated only after   *)
(* the window has moved: a packet damaged under way counts with whatever   *)
(* counter its nonce holds by then.                                        *)
(***************************************************************************)
EXTENDS Naturals

CONSTANTS
    Sender,   \* the clients whose packets this Cipher decrypts
    Start,    \* the initial counter of each
    Window,   \* replayWindowSize
    MaxSent,  \* bound: how many packets each sends
    Garbled   \* bound: the counters in the nonces of packets damaged under way

ASSUME WindowAssumption ==
    /\ Window \in Nat \ {0}
    /\ Start \in [Sender -> Nat]
    /\ MaxSent \in Nat
    /\ Garbled \subseteq Nat

VARIABLES
    counter,        \* Cipher.counter of every sender
    network,        \* every packet sent: it may still arrive, any number of times
    replayCounter,  \* Cipher.replayCounter of the receiver
    replayBitmap,   \* Cipher.replayBitmap, as the set of bits that are 1
    delivered,      \* history: the packets that Decrypt returned,
    again,          \* those it returned more than once,
    spoilt          \* and the counters that passed checkReplayWindow in damaged packets

vars == <<counter, network, replayCounter, replayBitmap, delivered, again, spoilt>>
window == <<replayCounter, replayBitmap>>

Packet == [from : Sender, ctr : Nat]

Init ==
    /\ counter = Start
    /\ network = {}
    /\ replayCounter = 0
    /\ replayBitmap = {}
    /\ delivered = {} /\ again = {} /\ spoilt = {}

(* makeNonce increments first, so a counter value is used once. *)
Encrypt(s) ==
    /\ counter[s] < Start[s] + MaxSent
    /\ counter' = [counter EXCEPT ![s] = @ + 1]
    /\ network' = network \cup {[from |-> s, ctr |-> counter[s] + 1]}
    /\ UNCHANGED <<window, delivered, again, spoilt>>

-----------------------------------------------------------------------------
(* checkReplayWindow: its answer, and what it writes if that is true.      *)

Bits == 0 .. (Window - 1)

(* Faulty variant: the counter just below the window passes too. *)
inWindowOffByOne(ctr) ==
    \/ ctr > replayCounter
    \/ replayCounter - ctr <= Window /\ replayCounter - ctr \notin replayBitmap
(* Faulty variant: late packets are taken for old ones. *)
inWindowInOrder(ctr) == ctr > replayCounter
inWindow(ctr) ==
    \/ ctr > replayCounter
    \/ replayCounter - ctr < Window /\ replayCounter - ctr \notin replayBitmap

(* Faulty variant: an old bitmap is kept when the counter jumps far ahead. *)
shiftedKept(shift) ==
    IF shift < Window THEN {b + shift : b \in replayBitmap} \cap Bits ELSE replayBitmap
(* Bits shifted out of the word are lost. *)
shifted(shift) == IF shift < Window THEN {b + shift : b \in replayBitmap} \cap Bits ELSE {}

mark(ctr) ==
    IF ctr > replayCounter
    THEN /\ replayBitmap' = {0} \cup shifted(ctr - replayCounter)
         /\ replayCounter' = ctr
    ELSE /\ replayBitmap' = replayBitmap \cup ({replayCounter - ctr} \cap Bits)
         /\ UNCHANGED replayCounter

(* Decrypt returns the packet, ...                                         *)
Decrypt(p) ==
    /\ inWindow(p.ctr)
    /\ mark(p.ctr)
    /\ delivered' = delivered \cup {p}
    /\ again' = again \cup ({p} \cap delivered)
    /\ UNCHANGED <<counter, network, spoilt>>

(* ... or fails after the window has changed: Open rejects a packet that   *)
(* was damaged, whether or not the damage is in its nonce.                 *)
DecryptFails(ctr) ==
    /\ inWindow(ctr)
    /\ mark(ctr)
    /\ spoilt' = spoilt \cup {ctr}
    /\ UNCHANGED <<counter, network, delivered, again>>

Next ==
    \/ \E s \in Sender : Encrypt(s)
    \/ \E p \in network : Decrypt(p)
    \/ \E ctr \in Garbled : DecryptFails(ctr)

Spec == Init /\ [][Next]_vars

-----------------------------------------------------------------------------
(* Properties *)

(* However the network repeats, reorders and damages packets, Decrypt      *)
(* returns each at most once ("rejects duplicate or too-old counter        *)
(* values").                                                               *)
AtMostOnce == again = {}

(* One word of bits answers as a full record of the counters seen so far   *)
(* would: checkReplayWindow takes exactly those counters that it has not   *)
(* taken yet and that are less than Window behind the highest one,         *)
(* however far ahead they are.                                             *)
Seen == {p.ctr : p \in delivered} \cup spoilt
Carried == {p.ctr : p \in network} \cup Garbled
WindowExact ==
    \A n \in Carried : inWindow(n) <=> n \notin Seen /\ n + Window > replayCounter

(* A packet is not lost to the window while its sender has sent fewer than *)
(* Window packets after it, unless damage took its place: whatever         *)
(* overtook it, it is accepted when it arrives for the first time, except  *)
(* after a damaged packet that counted with the same counter or with one   *)
(* Window or more ahead.  This is the use of the window ("A window of 64   *)
(* allows packets to arrive up to 64 positions out of order").             *)
Spoilt(n) == \E m \in spoilt : m = n \/ m >= n + Window
LatePacketsAccepted ==
    \A p \in network \ delivered :
        counter[p.from] - p.ctr < Window /\ ~Spoilt(p.ctr) => inWindow(p.ctr)
=============================================================================
