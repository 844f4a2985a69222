------------------------- MODULE ReplayWindowProofs -------------------------
(***************************************************************************)
(* Proofs about ReplayWindow, for a window of any size, any number of      *)
(* packets and, except for LateAccepted, any number of senders.            *)
(*                                                                         *)
(* The inductive invariant says what the bitmap means (BitsExact) and that *)
(* replayCounter is an upper bound of the counters seen.  Damaged packets  *)
(* with any set of counters are allowed throughout.                        *)
(***************************************************************************)
EXTENDS ReplayWindow, TLAPS

TypeInv ==
    /\ counter \in [Sender -> Nat]
    /\ network \subseteq Packet
    /\ replayCounter \in Nat
    /\ replayBitmap \subseteq Bits
    /\ delivered \subseteq network /\ spoilt \subseteq Garbled

(* A bit is 1 exactly if the counter that far below the highest was seen. *)
BitsExact ==
    \A b \in Bits : b \in replayBitmap <=> \E c \in Seen : c + b = replayCounter

Bounded == \A c \in Seen : c <= replayCounter

IInv == TypeInv /\ BitsExact /\ Bounded /\ AtMostOnce

(* Counters are numbers. *)
LEMMA CounterType ==
    ASSUME TypeInv
    PROVE  /\ \A p \in network : p.ctr \in Nat /\ p.from \in Sender
           /\ Seen \subseteq Nat
           /\ replayBitmap \subseteq Nat
<1>1. \A p \in network : p.ctr \in Nat /\ p.from \in Sender
  BY DEF TypeInv, Packet
<1>2. \A p \in delivered : p.ctr \in Nat
  BY <1>1 DEF TypeInv
<1>3. spoilt \subseteq Nat /\ replayBitmap \subseteq Nat
  BY WindowAssumption DEF TypeInv, Bits
<1> QED BY <1>1, <1>2, <1>3 DEF Seen

(* checkReplayWindow takes no counter that it has taken before. *)
LEMMA AcceptedOutside ==
    ASSUME IInv, NEW c \in Seen
    PROVE  ~inWindow(c)
<1>1. c \in Nat /\ replayCounter \in Nat /\ c <= replayCounter
  BY CounterType DEF IInv, TypeInv, Bounded
<1>2. ASSUME replayCounter - c < Window
      PROVE  replayCounter - c \in replayBitmap
  <2>1. replayCounter - c \in Bits /\ c + (replayCounter - c) = replayCounter
    BY <1>1, <1>2, WindowAssumption DEF Bits
  <2> QED BY <2>1 DEF IInv, BitsExact
<1> QED BY <1>1, <1>2 DEF inWindow

(* mark records the counter it is given and keeps the meaning of the bits. *)
LEMMA MarkExact ==
    ASSUME IInv, NEW n \in Nat, inWindow(n), mark(n), Seen' = Seen \cup {n}
    PROVE  /\ replayCounter' \in Nat /\ replayBitmap' \subseteq Bits
           /\ BitsExact' /\ Bounded'
<1>1. /\ n \in Nat /\ replayCounter \in Nat /\ Window \in Nat /\ Window > 0
      /\ Seen \subseteq Nat /\ replayBitmap \subseteq Bits
  BY CounterType, WindowAssumption DEF IInv, TypeInv
<1>2. Seen' = Seen \cup {n}
  OBVIOUS
<1>3. \A c \in Seen : c <= replayCounter
  BY DEF IInv, Bounded
<1>4. \A b \in Bits : b \in replayBitmap <=> \E c \in Seen : c + b = replayCounter
  BY DEF IInv, BitsExact
<1>5. \A b \in Bits : b \in Nat
  BY <1>1 DEF Bits
<1>6. CASE n > replayCounter
  <2> DEFINE shift == n - replayCounter
  <2>1. /\ replayCounter' = n /\ shift \in Nat /\ shift > 0
        /\ replayBitmap' = {0} \cup shifted(shift)
    BY <1>1, <1>6 DEF mark
  <2>2. shifted(shift) \subseteq Bits /\ 0 \in Bits
    BY <1>1 DEF shifted, Bits
  <2>3. Bounded'
    BY <1>1, <1>2, <1>3, <1>6, <2>1 DEF Bounded
  <2>4. ASSUME NEW b \in Bits
        PROVE  b \in replayBitmap' <=> \E c \in Seen' : c + b = n
    <3>1. CASE b = 0
      BY <1>1, <1>2, <2>1, <3>1
    <3>2. CASE b # 0
      <4>1. (\E c \in Seen' : c + b = n) <=> \E c \in Seen : c + b = n
        BY <1>1, <1>2, <1>5, <3>2
      <4>2. b \in replayBitmap' <=> b \in shifted(shift)
        BY <2>1, <3>2
      <4>3. CASE b < shift
        <5>1. b \notin shifted(shift)
          BY <1>1, <1>5, <2>1, <4>3 DEF shifted, Bits
        <5>2. \A c \in Seen : c + b # n
          BY <1>1, <1>3, <1>5, <2>1, <4>3
        <5> QED BY <4>1, <4>2, <5>1, <5>2
      <4>4. CASE b >= shift
        <5>1. b - shift \in Bits /\ shift < Window /\ (b - shift) + shift = b
          BY <1>1, <1>5, <2>1, <4>4 DEF Bits
        <5>2. b \in shifted(shift) <=> b - shift \in replayBitmap
          <6>1. \A d \in replayBitmap : d \in Nat /\ (d + shift = b => d = b - shift)
            BY <1>1, <1>5, <2>1
          <6> QED BY <5>1, <6>1 DEF shifted
        <5>3. \A c \in Seen : c + b = n <=> c + (b - shift) = replayCounter
          BY <1>1, <1>5, <2>1
        <5> QED BY <1>4, <4>1, <4>2, <5>1, <5>2, <5>3
      <4> QED BY <1>5, <2>1, <4>3, <4>4
    <3> QED BY <3>1, <3>2
  <2> QED BY <1>1, <2>1, <2>2, <2>3, <2>4 DEF BitsExact, Bits
<1>7. CASE ~(n > replayCounter)
  <2> DEFINE diff == replayCounter - n
  <2>1. diff \in Nat /\ n + diff = replayCounter
    BY <1>1, <1>7
  <2>2. diff \in Bits
    BY <1>1, <1>7, <2>1 DEF inWindow, Bits
  <2>3. replayCounter' = replayCounter /\ replayBitmap' = replayBitmap \cup {diff}
    BY <1>7, <2>2 DEF mark
  <2>4. Bounded'
    BY <1>1, <1>2, <1>3, <1>7, <2>3 DEF Bounded
  <2> HIDE DEF diff
  <2>5. ASSUME NEW b \in Bits
        PROVE  n + b = replayCounter <=> b = diff
    <3>1. b \in Nat
      BY <1>5
    <3> QED BY <1>1, <2>1, <3>1
  <2>6. ASSUME NEW b \in Bits
        PROVE  b \in replayBitmap' <=> \E c \in Seen' : c + b = replayCounter
    <3>1. b \in replayBitmap' <=> b \in replayBitmap \/ b = diff
      BY <2>3
    <3>2. (\E c \in Seen' : c + b = replayCounter)
             <=> (\E c \in Seen : c + b = replayCounter) \/ n + b = replayCounter
      BY <1>2
    <3> QED BY <1>4, <2>5, <3>1, <3>2
  <2> QED BY <1>1, <2>2, <2>3, <2>4, <2>6 DEF BitsExact, Bits
<1> QED BY <1>6, <1>7

(* The invariant is inductive. *)
LEMMA InitInv == Init => IInv
BY WindowAssumption DEF Init, IInv, TypeInv, BitsExact, Bounded, AtMostOnce, Seen, Bits

(* One case for each action. *)
LEMMA NextInv == IInv /\ [Next]_vars => IInv'
<1> SUFFICES ASSUME IInv, [Next]_vars PROVE IInv'
  OBVIOUS
<1>1. ASSUME NEW s \in Sender, Encrypt(s) PROVE IInv'
  <2>1. UNCHANGED <<replayCounter, replayBitmap, delivered, again, spoilt>>
    BY <1>1 DEF Encrypt, window
  <2>2. TypeInv'
    <3>1. counter' \in [Sender -> Nat] /\ [from |-> s, ctr |-> counter[s] + 1] \in Packet
      BY <1>1 DEF Encrypt, IInv, TypeInv, Packet
    <3> QED BY <1>1, <2>1, <3>1 DEF Encrypt, IInv, TypeInv
  <2> QED BY <2>1, <2>2 DEF IInv, BitsExact, Bounded, AtMostOnce, Seen
<1>2. ASSUME NEW p \in network, Decrypt(p) PROVE IInv'
  <2>1. /\ inWindow(p.ctr) /\ mark(p.ctr)
        /\ delivered' = delivered \cup {p} /\ again' = again \cup ({p} \cap delivered)
        /\ UNCHANGED <<counter, network, spoilt>>
    BY <1>2 DEF Decrypt
  <2>2. p.ctr \in Nat /\ Seen' = Seen \cup {p.ctr}
    BY <2>1, CounterType DEF Seen, IInv
  <2>3. p \notin delivered
    <3>1. p \in delivered => p.ctr \in Seen
      BY DEF Seen
    <3> QED BY <2>1, <3>1, AcceptedOutside
  <2>4. /\ replayCounter' \in Nat /\ replayBitmap' \subseteq Bits
        /\ BitsExact' /\ Bounded'
    BY <2>1, <2>2, MarkExact
  <2> QED BY <2>1, <2>3, <2>4 DEF IInv, TypeInv, AtMostOnce
<1>3. ASSUME NEW n \in Garbled, DecryptFails(n) PROVE IInv'
  <2>1. /\ inWindow(n) /\ mark(n) /\ spoilt' = spoilt \cup {n}
        /\ UNCHANGED <<counter, network, delivered, again>>
    BY <1>3 DEF DecryptFails
  <2>2. n \in Nat /\ Seen' = Seen \cup {n}
    BY <2>1, WindowAssumption DEF Seen
  <2>3. /\ replayCounter' \in Nat /\ replayBitmap' \subseteq Bits
        /\ BitsExact' /\ Bounded'
    BY <2>1, <2>2, MarkExact
  <2> QED BY <2>1, <2>3 DEF IInv, TypeInv, AtMostOnce
<1>4. CASE UNCHANGED vars
  BY <1>4 DEF vars, IInv, TypeInv, BitsExact, Bounded, AtMostOnce, Seen
<1> QED BY <1>1, <1>2, <1>3, <1>4 DEF Next

-----------------------------------------------------------------------------
(* The theorems *)

(* Every behaviour stays within the inductive invariant. *)
THEOREM Invariance == Spec => []IInv
<1> QED BY InitInv, NextInv, PTL DEF Spec

(* Decrypt returns no packet twice, for any window, any number of senders  *)
(* and whatever the network does, damage included.                         *)
THEOREM DeliveredAtMostOnce == Spec => []AtMostOnce
<1>1. IInv => AtMostOnce
  BY DEF IInv
<1> QED BY <1>1, Invariance, PTL

(* checkReplayWindow answers as a full record of the counters would, for   *)
(* the counter of any packet, sent or damaged.                             *)
THEOREM WindowCorrect == Spec => []WindowExact
<1>1. IInv => WindowExact
  <2> SUFFICES ASSUME IInv, NEW n \in Carried
               PROVE  inWindow(n) <=> n \notin Seen /\ n + Window > replayCounter
    BY DEF WindowExact
  <2>1. n \in Nat /\ replayCounter \in Nat /\ Window \in Nat /\ Window > 0
    <3>1. TypeInv /\ Garbled \subseteq Nat
      BY WindowAssumption DEF IInv
    <3>2. n \in Nat
      BY <3>1, CounterType DEF Carried
    <3> QED BY <3>1, <3>2, WindowAssumption DEF TypeInv
  <2>2. ASSUME inWindow(n)
        PROVE  n \notin Seen /\ n + Window > replayCounter
    BY <2>1, <2>2, AcceptedOutside DEF inWindow
  <2>3. ASSUME n \notin Seen, n + Window > replayCounter
        PROVE  inWindow(n)
    <3>1. CASE n > replayCounter
      BY <3>1 DEF inWindow
    <3>2. CASE ~(n > replayCounter)
      <4>1. replayCounter - n \in Bits /\ replayCounter - n < Window
        BY <2>1, <2>3, <3>2 DEF Bits
      <4>2. \A c \in Seen : c \in Nat /\ c # n
        BY <2>3, CounterType DEF IInv
      <4>3. \A c \in Seen : c + (replayCounter - n) # replayCounter
        BY <2>1, <4>2
      <4> QED BY <4>1, <4>3 DEF inWindow, IInv, BitsExact
    <3> QED BY <3>1, <3>2
  <2> QED BY <2>2, <2>3
<1> QED BY <1>1, Invariance, PTL

(* With one sender, the window loses no packet before Window packets were  *)
(* sent after it, but for damaged packets that count with its counter or   *)
(* Window or more ahead: the highest counter seen is one that was sent, or *)
(* one that damage made up.                                                *)
THEOREM LateAccepted ==
    ASSUME NEW s, Sender = {s}
    PROVE  Spec => []LatePacketsAccepted
<1> DEFINE Sent == \A p \in network : p.ctr <= counter[s]
           Highest == replayCounter = 0 \/ replayCounter \in Seen
<1>1. Init => Sent /\ Highest
  BY DEF Init
<1>2. IInv /\ Sent /\ Highest /\ [Next]_vars => Sent' /\ Highest'
  <2> SUFFICES ASSUME IInv, Sent, Highest, [Next]_vars PROVE Sent' /\ Highest'
    OBVIOUS
  <2>1. counter[s] \in Nat /\ \A p \in network : p.ctr \in Nat
    BY CounterType DEF IInv, TypeInv
  <2>2. ASSUME Encrypt(s) PROVE Sent' /\ Highest'
    <3>1. counter'[s] = counter[s] + 1
      BY <2>2 DEF Encrypt, IInv, TypeInv
    <3>2. Sent'
      BY <2>1, <2>2, <3>1 DEF Encrypt
    <3> QED BY <2>2, <3>2 DEF Encrypt, window, Seen
  <2>3. ASSUME NEW p \in network, Decrypt(p) PROVE Sent' /\ Highest'
    BY <2>3 DEF Decrypt, mark, Seen
  <2>4. ASSUME NEW n \in Garbled, DecryptFails(n) PROVE Sent' /\ Highest'
    BY <2>4 DEF DecryptFails, mark, Seen
  <2> QED BY <2>2, <2>3, <2>4 DEF Next, vars, Seen
<1>3. IInv /\ Sent /\ Highest /\ WindowExact => LatePacketsAccepted
  <2> SUFFICES ASSUME IInv, Sent, Highest, WindowExact, NEW p \in network \ delivered,
                      counter[p.from] - p.ctr < Window, ~Spoilt(p.ctr)
               PROVE  inWindow(p.ctr)
    BY DEF LatePacketsAccepted
  <2>1. /\ p.from = s /\ p.ctr \in Nat /\ counter[s] \in Nat /\ Window \in Nat /\ Window > 0
        /\ replayCounter \in Nat
    BY CounterType, WindowAssumption DEF IInv, TypeInv
  <2>2. \A n \in Seen : n \in Nat /\ n < p.ctr + Window
    <3>1. \A q \in delivered : q.ctr \in Nat /\ q.ctr <= counter[s]
      BY CounterType DEF IInv, TypeInv
    <3>2. \A n \in spoilt : n \in Nat /\ n < p.ctr + Window
      BY <2>1, WindowAssumption DEF Spoilt, IInv, TypeInv
    <3> QED BY <2>1, <3>1, <3>2 DEF Seen
  <2>3. p.ctr + Window > replayCounter
    BY <2>1, <2>2
  <2>4. p.ctr \notin Seen
    <3>1. \A q \in delivered : q.ctr # p.ctr
      <4> SUFFICES ASSUME NEW q \in delivered, q.ctr = p.ctr PROVE FALSE
        OBVIOUS
      <4>1. p \in Packet /\ q \in Packet /\ q.from = p.from
        BY <2>1 DEF IInv, TypeInv, Packet
      <4>2. p = q
        BY <4>1 DEF Packet
      <4> QED BY <4>2
    <3> QED BY <3>1 DEF Seen, Spoilt
  <2> QED BY <2>3, <2>4 DEF WindowExact, Carried
<1> QED BY <1>1, <1>2, <1>3, Invariance, WindowCorrect, PTL DEF Spec
=============================================================================
