---------------------------- MODULE RoomRestart ----------------------------
(***************************************************************************)
(* The default room of a single-room server together with its state file   *)
(* (internal/server/persist.go): the room is saved when it changed, the    *)
(* process may stop or crash at any time, and a new process rebuilds the   *)
(* room from whatever file it finds.                                       *)
(***************************************************************************)
EXTENDS Room, Functions

CONSTANTS
    GracePeriod,   \* reconnectGracePeriod, 60s, in ticks
    DiskFails      \* whether a write of the state file may fail

ASSUME GraceAssumption ==
    GracePeriod \in Nat /\ GracePeriod >= StaleAfter /\ DiskFails \in BOOLEAN

VARIABLES
    up,            \* whether a server process is running
    persistDirty,  \* Server.persistDirty
    workersToMark, \* how many workers changed the room and have yet to call markDirty
    sweepToMark,   \* the same of the keepalive goroutine
    saving,        \* where persistLoop is: "no", "claimed" (the flag) or "writing"
    state,         \* saveState's local state, while writing
    saved,         \* the state file: [entries, age]; no file is one without entries
    writeFailed    \* history: the latest save of this process failed

marks == <<persistDirty, workersToMark, sweepToMark>>
process == <<up, marks, saving, state, writeFailed>>
rvars == <<vars, process, saved>>

(***************************************************************************)
(* A file entry holds the user's name and LastSeen, here as an age, and    *)
(* neither the RoomID nor the address.  Players are records [room, user].  *)
(***************************************************************************)
NoEntry == [user |-> Nil, age |-> 0]
EmptyFile == [entries |-> [v \in VIP |-> NoEntry], age |-> 0]

RInit ==
    /\ Init
    /\ up = TRUE /\ saving = "no"
    /\ persistDirty = FALSE /\ workersToMark = 0 /\ sweepToMark = FALSE
    /\ state = EmptyFile /\ saved = EmptyFile /\ writeFailed = FALSE

-----------------------------------------------------------------------------
(* The room's own steps.  A handler that changes the membership calls      *)
(* markDirty after it has unlocked the room and sent its answers; until    *)
(* then its worker takes no other packet.                                  *)

SpareWorker == Cardinality({w \in Worker : job[w] # Idle}) + workersToMark < Cardinality(Worker)

roomMarking ==
    /\ up /\ SpareWorker
    /\ MarkingPacket
    /\ workersToMark' = workersToMark + 1
    /\ UNCHANGED <<up, persistDirty, sweepToMark, saving, state, writeFailed, saved>>

roomOther ==
    /\ up
    /\ (SpareWorker /\ OtherPacket) \/ Resume
    /\ UNCHANGED <<process, saved>>

(* The keepalive goroutine: CleanupStale marks only if a client has left.  *)
roomCleanup ==
    /\ up /\ ~sweepToMark
    /\ \/ cleanupCollect /\ UNCHANGED sweepToMark
       \/ cleanupSweep /\ sweepToMark' = (SweptVIPs # {})
    /\ UNCHANGED <<up, persistDirty, workersToMark, saving, state, writeFailed, saved>>

markDirty ==
    /\ up
    /\ \/ workersToMark > 0 /\ workersToMark' = workersToMark - 1 /\ UNCHANGED sweepToMark
       \/ sweepToMark /\ sweepToMark' = FALSE /\ UNCHANGED workersToMark
    /\ persistDirty' = TRUE
    /\ UNCHANGED <<vars, up, saving, state, writeFailed, saved>>

-----------------------------------------------------------------------------
(* Saving.  The file is replaced by a rename, so a crash leaves the old or *)
(* the new one.                                                            *)

SnapshotState ==
    [entries |-> [v \in VIP |->
        IF clients[v] # Nil
        THEN [user |-> client[clients[v]].who.user, age |-> client[clients[v]].age]
        ELSE NoEntry],
     age |-> 0]

(* persistLoop clears the flag first, ...                                  *)
persistClaim ==
    /\ up /\ persistDirty /\ saving = "no"
    /\ persistDirty' = FALSE
    /\ saving' = "claimed"
    /\ UNCHANGED <<vars, up, workersToMark, sweepToMark, state, writeFailed, saved>>

(* ... then saveState reads the room under its lock ...                    *)
saveStateReads ==
    /\ up /\ saving = "claimed"
    /\ state' = SnapshotState
    /\ saving' = "writing"
    /\ UNCHANGED <<vars, up, marks, writeFailed, saved>>

(* Faulty variant: the flag is cleared when the file is there. *)
saveStateClears ==
    /\ up /\ saving = "writing"
    /\ saving' = "no" /\ state' = EmptyFile
    /\ saved' = state /\ writeFailed' = FALSE
    /\ persistDirty' = FALSE
    /\ UNCHANGED <<vars, up, workersToMark, sweepToMark>>

(* ... and writes and renames without it; a failure is only logged.        *)
saveState ==
    /\ up /\ saving = "writing"
    /\ saving' = "no" /\ state' = EmptyFile
    /\ \/ saved' = state /\ writeFailed' = FALSE
       \/ DiskFails /\ writeFailed' = TRUE /\ UNCHANGED saved
    /\ UNCHANGED <<vars, up, marks>>

(* The process ends and its memory is gone: with Close, which saves (if it *)
(* cannot, it ends like a crash) ...                                       *)
stop ==
    /\ up
    /\ up' = FALSE /\ saving' = "no"
    /\ persistDirty' = FALSE /\ workersToMark' = 0 /\ sweepToMark' = FALSE
    /\ state' = EmptyFile /\ writeFailed' = FALSE
    /\ clients' = [v \in VIP |-> Nil]
    /\ addrMap' = [a \in Addr |-> Nil]
    /\ client' = [c \in Cid |-> Blank]
    /\ ipBitmap' = Reserved
    /\ pendingAuth' = 0
    /\ ipConnCount' = [i \in IP |-> 0]
    /\ job' = [w \in Worker |-> Idle]
    /\ staleClients' = [v \in VIP |-> NotStale]
    /\ staleAuths' = [a \in Addr |-> Nil]
Close == stop /\ saved' = SnapshotState
(* ... or without.                                                         *)
Crash == stop /\ UNCHANGED saved

(* loadState: an entry is dropped only if both it and the file are old.    *)
(* The others become placeholders, without address and in room "default".  *)
Restorable ==
    {v \in VIP : /\ saved.entries[v] # NoEntry
                 /\ ~(saved.entries[v].age > StaleAfter /\ saved.age > GracePeriod)}
Placeholder(v) ==
    [who |-> [room |-> "default", user |-> saved.entries[v].user], vip |-> v,
     addr |-> Nil, auth |-> "none", age |-> saved.entries[v].age]

(* Faulty variant: the restored addresses are not reserved in the bitmap. *)
restoredBitmapForgotten == ipBitmap
restoredBitmap == ipBitmap \cup Restorable

loadState ==
    /\ ~up
    /\ up' = TRUE
    /\ \E of \in Injection(Restorable, Cid) :
        /\ clients' = [v \in VIP |-> IF v \in Restorable THEN of[v] ELSE Nil]
        /\ client' = [c \in Cid |->
               IF \E v \in Restorable : of[v] = c
               THEN Placeholder(CHOOSE v \in Restorable : of[v] = c) ELSE Blank]
    /\ ipBitmap' = restoredBitmap
    /\ UNCHANGED <<addrMap, pendingAuth, ipConnCount, job, cleanup,
                   marks, saving, state, writeFailed, saved>>

-----------------------------------------------------------------------------
(* Time passes for the room and the file. *)
Older(n, last) == IF n > last THEN n ELSE n + 1
OlderFile(file) ==
    [entries |-> [v \in VIP |->
        IF file.entries[v] = NoEntry THEN NoEntry
        ELSE [file.entries[v] EXCEPT !.age = Older(@, StaleAfter)]],
     age |-> IF file.entries = EmptyFile.entries THEN 0 ELSE Older(file.age, GracePeriod)]
time ==
    /\ AgeClients
    /\ saved' = OlderFile(saved)
    /\ state' = OlderFile(state)
    /\ UNCHANGED <<up, marks, saving, writeFailed>>

RNext == \/ roomMarking \/ roomOther \/ roomCleanup \/ markDirty
         \/ persistClaim \/ saveStateReads \/ saveState
         \/ Close \/ Crash \/ loadState \/ time

RSpec == RInit /\ [][RNext]_rvars

-----------------------------------------------------------------------------
(* Properties *)

(* No change of the membership is forgotten: whenever the dirty flag is    *)
(* clear, nobody is about to set it, no save is under way and the latest   *)
(* one did not fail, the file holds the clients of the room and no others: *)
(* every client is in it, at its virtual IP, and everyone whom a restart   *)
(* would restore is a client.  A crash at any such moment loses nobody and *)
(* brings back nobody who left.  It rests on persistLoop clearing the flag *)
(* before the room is read, and on every handler marking after its change. *)
AllMarked == workersToMark = 0 /\ ~sweepToMark
MembersSaved ==
    up /\ ~persistDirty /\ AllMarked /\ saving = "no" /\ ~writeFailed =>
        \A v \in Members \cup Restorable :
            clients[v] # Nil /\ saved.entries[v].user = client[clients[v]].who.user

(* "If a placeholder exists with matching username, attach the real        *)
(* address" (handleRegister): a user who returns after a restart gets back *)
(* the virtual IP the file kept for them, and no second one next to it.    *)
OneVIPPerUser ==
    \A u, v \in Members :
        client[clients[u]].who.user = client[clients[v]].who.user => u = v
=============================================================================
