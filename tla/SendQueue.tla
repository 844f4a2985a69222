----------------------------- MODULE SendQueue -----------------------------
(***************************************************************************)
(* The server's send queue (internal/server/sendqueue.go).  Any goroutine  *)
(* sends; run alone receives from the two channels, sorts what it receives *)
(* in batches, writes to the socket, and drains both channels when it is   *)
(* told to stop.                                                           *)
(*                                                                         *)
(* Every packet is sent at most once and by a goroutine of its own.  Each  *)
(* channel operation is a step; the writes of a batch that is complete are *)
(* one step, because nothing else depends on what is between them.         *)
(***************************************************************************)
EXTENDS Naturals, Sequences, SequencesExt

CONSTANTS
    Message,       \* the packets sent
    kind,          \* kind[p]: "high", "low" or "broadcast"
    maxSize,       \* capacity of ch (8192)
    broadcastChSize,  \* capacity of broadcastCh (4096)
    batchBufSize   \* 64

ASSUME QueueAssumption ==
    /\ kind \in [Message -> {"high", "low", "broadcast"}]
    /\ maxSize \in Nat /\ broadcastChSize \in Nat
    /\ batchBufSize \in Nat \ {0}

VARIABLES
    ch, broadcastCh,     \* the channels
    batch, deferredLow,  \* run's local buffers
    at,                  \* where run is
    written,             \* what went to the socket, in order
    sender,              \* per packet: "idle", "done" or "dropped"
    stopCh,              \* closed by Stop
    ctxDone,             \* the context of run is cancelled
    accepted,            \* history: the packets the queue took, in order
    beforeStop           \* history: those taken before run was told to stop

queue == <<ch, broadcastCh, batch, deferredLow, at, written>>
history == <<accepted, beforeStop>>
qvars == <<queue, sender, stopCh, ctxDone, history>>

High(p) == kind[p] = "high"

QInit ==
    /\ ch = <<>> /\ broadcastCh = <<>>
    /\ batch = <<>> /\ deferredLow = <<>>
    /\ at = "select"
    /\ written = <<>>
    /\ sender = [p \in Message |-> "idle"]
    /\ stopCh = FALSE /\ ctxDone = FALSE
    /\ accepted = <<>> /\ beforeStop = {}

-----------------------------------------------------------------------------
(* The senders *)

Told == stopCh \/ ctxDone

Taken(p) ==
    /\ sender' = [sender EXCEPT ![p] = "done"]
    /\ accepted' = Append(accepted, p)
    /\ beforeStop' = IF Told THEN beforeStop ELSE beforeStop \cup {p}
    /\ UNCHANGED <<stopCh, ctxDone>>
Dropped(p) ==
    /\ sender' = [sender EXCEPT ![p] = "dropped"]
    /\ UNCHANGED <<queue, stopCh, ctxDone, history>>

(* Faulty variant: a high-priority packet is put in front of all others. *)
EnqueueFront(p) ==
    /\ Len(ch) < maxSize
    /\ ch' = IF High(p) THEN <<p>> \o ch ELSE Append(ch, p)
    /\ UNCHANGED <<broadcastCh, batch, deferredLow, at, written>>
    /\ Taken(p)

Enqueue(p) ==
    /\ Len(ch) < maxSize
    /\ ch' = Append(ch, p)
    /\ UNCHANGED <<broadcastCh, batch, deferredLow, at, written>>
    /\ Taken(p)

(* High priority: wait for space until the timer fires.  While it waits    *)
(* the sender has changed nothing, so the wait is part of being idle; and  *)
(* if there is space when the timer fires the select takes either case.    *)
sendHigh(p) ==
    /\ High(p) /\ sender[p] = "idle"
    /\ Enqueue(p) \/ Dropped(p)

(* Low priority: dropped if the channel is full, or by the limiter.        *)
sendLow(p) ==
    /\ kind[p] = "low" /\ sender[p] = "idle"
    /\ Enqueue(p) \/ Dropped(p)

(* Broadcast: written by the sender itself if the channel is full.         *)
sendBroadcast(p) ==
    /\ kind[p] = "broadcast" /\ sender[p] = "idle"
    /\ \/ /\ Len(broadcastCh) < broadcastChSize
          /\ broadcastCh' = Append(broadcastCh, p)
          /\ UNCHANGED written
       \/ /\ Len(broadcastCh) >= broadcastChSize
          /\ written' = Append(written, p)
          /\ UNCHANGED broadcastCh
    /\ UNCHANGED <<ch, batch, deferredLow, at>>
    /\ Taken(p)

send(p) ==
    sendHigh(p) \/ sendLow(p) \/ sendBroadcast(p)

-----------------------------------------------------------------------------
(* run.  Only run's own variables and the channels change. *)

others == <<sender, stopCh, ctxDone, history>>

(* Faulty variant: only the broadcast channel is drained at the end. *)
selectStopSkips ==
    /\ at = "select" /\ Told
    /\ at' = "drainBroadcast"
    /\ UNCHANGED <<ch, broadcastCh, batch, deferredLow, written, others>>

(* The select statement: any case that is ready. *)
selectStop ==
    /\ at = "select" /\ Told
    /\ at' = "drain"
    /\ UNCHANGED <<ch, broadcastCh, batch, deferredLow, written, others>>

selectBroadcast ==
    /\ at = "select" /\ broadcastCh # <<>>
    /\ broadcastCh' = Tail(broadcastCh)
    /\ written' = Append(written, Head(broadcastCh))
    /\ at' = "broadcast"
    /\ UNCHANGED <<ch, batch, deferredLow, others>>

selectMain ==
    /\ at = "select" /\ ch # <<>>
    /\ ch' = Tail(ch)
    /\ IF High(Head(ch))
       THEN /\ written' = Append(written, Head(ch))
            /\ at' = "high"
            /\ UNCHANGED batch
       ELSE /\ batch' = <<Head(ch)>>
            /\ at' = "low"
            /\ UNCHANGED written
    /\ UNCHANGED <<broadcastCh, deferredLow, others>>

(* Faulty variant: one packet more than the array holds. *)
CompleteLate(c) == c = <<>> \/ Len(batch) > batchBufSize

(* The batch is complete: nothing is left to receive, or it is full.       *)
Complete(c) == c = <<>> \/ Len(batch) >= batchBufSize
flush ==
    /\ written' = written \o batch \o deferredLow
    /\ batch' = <<>> /\ deferredLow' = <<>>
    /\ at' = "select"
    /\ UNCHANGED <<ch, broadcastCh, others>>

drainBatchBroadcast ==
    /\ at = "broadcast"
    /\ \/ /\ ~Complete(broadcastCh)
          /\ batch' = Append(batch, Head(broadcastCh))
          /\ broadcastCh' = Tail(broadcastCh)
          /\ UNCHANGED <<ch, deferredLow, at, written, others>>
       \/ Complete(broadcastCh) /\ flush

(* Faulty variant: a low-priority packet that finds no room is forgotten. *)
drainHighForgets ==
    /\ at = "high"
    /\ \/ /\ ~Complete(ch)
          /\ ch' = Tail(ch)
          /\ IF High(Head(ch))
             THEN batch' = Append(batch, Head(ch)) /\ UNCHANGED <<deferredLow, written>>
             ELSE IF Len(deferredLow) < batchBufSize
             THEN deferredLow' = Append(deferredLow, Head(ch)) /\ UNCHANGED <<batch, written>>
             ELSE UNCHANGED <<batch, deferredLow, written>>
          /\ UNCHANGED <<broadcastCh, at, others>>
       \/ Complete(ch) /\ flush

(* After a high-priority packet: low ones are put aside as long as there   *)
(* is room for them, and are written after the batch.                      *)
drainHigh ==
    /\ at = "high"
    /\ \/ /\ ~Complete(ch)
          /\ ch' = Tail(ch)
          /\ IF High(Head(ch))
             THEN batch' = Append(batch, Head(ch)) /\ UNCHANGED <<deferredLow, written>>
             ELSE IF Len(deferredLow) < batchBufSize
             THEN deferredLow' = Append(deferredLow, Head(ch)) /\ UNCHANGED <<batch, written>>
             ELSE written' = Append(written, Head(ch)) /\ UNCHANGED <<batch, deferredLow>>
          /\ UNCHANGED <<broadcastCh, at, others>>
       \/ Complete(ch) /\ flush

(* After a low-priority packet: high ones are written as they come.        *)
drainLow ==
    /\ at = "low"
    /\ \/ /\ ~Complete(ch)
          /\ ch' = Tail(ch)
          /\ IF High(Head(ch))
             THEN written' = Append(written, Head(ch)) /\ UNCHANGED batch
             ELSE batch' = Append(batch, Head(ch)) /\ UNCHANGED written
          /\ UNCHANGED <<broadcastCh, deferredLow, at, others>>
       \/ Complete(ch) /\ flush

(* drain: the main channel until it is empty, then the broadcast channel.  *)
drainMain ==
    /\ at = "drain"
    /\ \/ /\ ch # <<>>
          /\ written' = Append(written, Head(ch))
          /\ ch' = Tail(ch)
          /\ UNCHANGED at
       \/ /\ ch = <<>>
          /\ at' = "drainBroadcast"
          /\ UNCHANGED <<ch, written>>
    /\ UNCHANGED <<broadcastCh, batch, deferredLow, others>>

(* When both are empty run closes drained and is gone.                     *)
drainBroadcast ==
    /\ at = "drainBroadcast"
    /\ \/ /\ broadcastCh # <<>>
          /\ written' = Append(written, Head(broadcastCh))
          /\ broadcastCh' = Tail(broadcastCh)
          /\ UNCHANGED at
       \/ /\ broadcastCh = <<>>
          /\ at' = "drained"
          /\ UNCHANGED <<broadcastCh, written>>
    /\ UNCHANGED <<ch, batch, deferredLow, others>>

run ==
    \/ selectStop \/ selectBroadcast \/ selectMain
    \/ drainBatchBroadcast \/ drainHigh \/ drainLow
    \/ drainMain \/ drainBroadcast

-----------------------------------------------------------------------------
(* Stop, and the cancellation of run's context. *)

Stop ==
    /\ stopCh' = TRUE
    /\ UNCHANGED <<queue, sender, ctxDone, history>>
Cancel ==
    /\ ctxDone' = TRUE
    /\ UNCHANGED <<queue, sender, stopCh, history>>

QNext == (\E p \in Message : send(p)) \/ run \/ Stop \/ Cancel
QSpec == QInit /\ [][QNext]_qvars

-----------------------------------------------------------------------------
(* Properties *)

(* Channels and buffers hold packets of their own kind and never more than *)
(* they have room for: the indices into the fixed arrays batch and         *)
(* deferredLow stay in range.                                              *)
QTypeOK ==
    /\ ch \in Seq({p \in Message : kind[p] # "broadcast"}) /\ Len(ch) <= maxSize
    /\ broadcastCh \in Seq({p \in Message : kind[p] = "broadcast"})
    /\ Len(broadcastCh) <= broadcastChSize
    /\ batch \in Seq(Message) /\ Len(batch) <= batchBufSize
    /\ deferredLow \in Seq({p \in Message : kind[p] = "low"})
    /\ Len(deferredLow) <= batchBufSize
    /\ at \in {"select", "broadcast", "high", "low", "drain", "drainBroadcast", "drained"}
    /\ written \in Seq(Message) /\ accepted \in Seq(Message)
    /\ sender \in [Message -> {"idle", "done", "dropped"}]
    /\ stopCh \in BOOLEAN /\ ctxDone \in BOOLEAN
    /\ beforeStop \subseteq Message

(* A packet for which send or sendBroadcast returned true is in exactly    *)
(* one place, and once: on the wire, in a buffer of run or in a channel.   *)
(* No path through the batching (a full batch, a full deferred buffer, a   *)
(* packet of the other priority) loses one or writes it twice.             *)
AcceptedOnce ==
    LET everywhere == written \o batch \o deferredLow \o ch \o broadcastCh
    IN  /\ IsInjective(everywhere)
        /\ ToSet(everywhere) = {p \in Message : sender[p] = "done"}

(* Control packets reach the socket in the order in which they entered the *)
(* queue, whichever loop of run picks each of them up: an AssignIP is not  *)
(* overtaken by the Kick sent after it.                                    *)
HighInOrder == IsPrefix(SelectSeq(written, High), SelectSeq(accepted, High))

(* WaitDrain returns only when everything the queue had taken by the time  *)
(* of Stop (or of the cancellation) was written ("drain all pending        *)
(* packets").                                                              *)
DrainComplete == at = "drained" => beforeStop \subseteq ToSet(written)
=============================================================================
