------------------------------ MODULE Shutdown ------------------------------
(***************************************************************************)
(* How the server ends: the signal handler of cmd/server/main.go, Close    *)
(* and persistLoop (internal/server/server.go, persist.go), composed with  *)
(* the send queue.  notifyShutdown puts one kick per client in the queue;  *)
(* Close then stops the queue, waits until it is drained, saves the state, *)
(* closes the socket, waits for the read loop of Run and stops the TCP     *)
(* bridges.  persistLoop saves at its ticks and once more when its context *)
(* is cancelled; both savers use the same temporary file.                  *)
(*                                                                         *)
(* The packets of kind "high" are the kicks; the others are sent by the    *)
(* workers.  A packet to a TCP client is written without a deadline under  *)
(* the mutex of its transport: the write may take for ever if the client   *)
(* does not read.  The file system is external: names refer to files, and  *)
(* an open file stays the same file when its name changes.                 *)
(***************************************************************************)
EXTENDS SendQueue, FiniteSets

CONSTANT MaxVersion   \* bound: how often the room changes, plus one

ASSUME ShutdownAssumption == MaxVersion \in Nat \ {0}

VARIABLES
    closing,     \* progress of Close
    main,        \* main: "run" in Run's read loop, "returned" from it, or "ended"
    stalled,     \* the goroutines inside a TCP write that has not returned
    room,        \* the version of the room's state
    persistDirty,
    returning,   \* persistLoop has begun its final save
    saver,       \* per saving goroutine: its place in saveState, "saved" at its end
    state,       \* per saving goroutine: the version in its snapshot
    fd,          \* per saving goroutine: the file it has open, or None
    tmpPath, path,  \* the files these names refer to, or None
    content      \* per file: a version, or Torn

close == <<closing, main, stalled, room, persistDirty, returning>>
disk == <<saver, state, fd, tmpPath, path, content>>
svars == <<qvars, close, disk>>

Saver == {"persistLoop", "Close"}
File == 1..4    \* enough for two names and two open files
None == 0
Torn == 0       \* truncated and not yet written

SInit ==
    /\ QInit
    /\ closing = "no" /\ main = "run" /\ stalled = {}
    /\ room = 1 /\ persistDirty = FALSE /\ returning = FALSE
    /\ saver = [s \in Saver |-> "idle"]
    /\ state = [s \in Saver |-> 1]
    /\ fd = [s \in Saver |-> None]
    /\ tmpPath = None /\ path = 1
    /\ content = [f \in File |-> 1]

-----------------------------------------------------------------------------
(* saveState, one step for each call that another saver can come between.  *)

SnapshotState(s) ==
    /\ state' = [state EXCEPT ![s] = room]
    /\ saver' = [saver EXCEPT ![s] = "open"]
    /\ UNCHANGED <<qvars, fd, tmpPath, path, content>>

(* Faulty variant: the state file itself is opened. *)
openInPlace(s) ==
    /\ saver[s] = "open"
    /\ fd' = [fd EXCEPT ![s] = path]
    /\ content' = [content EXCEPT ![path] = Torn]
    /\ saver' = [saver EXCEPT ![s] = "write"]
    /\ UNCHANGED <<qvars, close, state, tmpPath, path>>

(* os.WriteFile opens the temporary file, creates it if it is not there,   *)
(* and truncates it ...                                                    *)
Free == CHOOSE f \in File : f \notin {tmpPath, path} \cup {fd[s] : s \in Saver}
openTmp(s) ==
    LET f == IF tmpPath = None THEN Free ELSE tmpPath
    IN  /\ saver[s] = "open"
        /\ tmpPath' = f
        /\ fd' = [fd EXCEPT ![s] = f]
        /\ content' = [content EXCEPT ![f] = Torn]
        /\ saver' = [saver EXCEPT ![s] = "write"]
        /\ UNCHANGED <<qvars, close, state, path>>

(* ... then writes to the file it opened, whatever its name is by now.     *)
writeTmp(s) ==
    /\ saver[s] = "write"
    /\ content' = [content EXCEPT ![fd[s]] = state[s]]
    /\ fd' = [fd EXCEPT ![s] = None]
    /\ saver' = [saver EXCEPT ![s] = "rename"]
    /\ UNCHANGED <<qvars, close, state, tmpPath, path>>

(* Either call may fail; saveState returns and leaves what there is.       *)
writeFails(s) ==
    /\ saver[s] \in {"open", "write"}
    /\ fd' = [fd EXCEPT ![s] = None]
    /\ saver' = [saver EXCEPT ![s] = "saved"]
    /\ UNCHANGED <<qvars, close, state, tmpPath, path, content>>

(* Faulty variant: the temporary name stays (a link, not a rename). *)
renameKeepsTmp(s) ==
    /\ saver[s] = "rename"
    /\ \/ /\ tmpPath # None
          /\ path' = tmpPath
          /\ UNCHANGED tmpPath
          /\ saver' = [saver EXCEPT ![s] = "saved"]
       \/ /\ saver' = [saver EXCEPT ![s] = "remove"]
          /\ UNCHANGED <<tmpPath, path>>
    /\ UNCHANGED <<qvars, close, state, fd, content>>

(* os.Rename may fail, and does if the other saver has renamed the file.   *)
rename(s) ==
    /\ saver[s] = "rename"
    /\ \/ /\ tmpPath # None
          /\ path' = tmpPath
          /\ tmpPath' = None
          /\ saver' = [saver EXCEPT ![s] = "saved"]
       \/ /\ saver' = [saver EXCEPT ![s] = "remove"]
          /\ UNCHANGED <<tmpPath, path>>
    /\ UNCHANGED <<qvars, close, state, fd, content>>

removeTmp(s) ==
    /\ saver[s] = "remove"
    /\ tmpPath' = None
    /\ saver' = [saver EXCEPT ![s] = "saved"]
    /\ UNCHANGED <<qvars, close, state, fd, path, content>>

saveState(s) == openTmp(s) \/ writeTmp(s) \/ writeFails(s) \/ rename(s) \/ removeTmp(s)

-----------------------------------------------------------------------------
(* persistLoop: a tick with the dirty flag set, or the end of the context. *)

tick ==
    /\ saver["persistLoop"] = "idle"
    /\ persistDirty
    /\ persistDirty' = FALSE
    /\ SnapshotState("persistLoop")
    /\ UNCHANGED <<closing, main, stalled, room, returning>>
finalSave ==
    /\ saver["persistLoop"] = "idle"
    /\ ctxDone /\ ~returning
    /\ returning' = TRUE
    /\ SnapshotState("persistLoop")
    /\ UNCHANGED <<closing, main, stalled, room, persistDirty>>

(* The next iteration, unless that was the final save. *)
persistLoops ==
    /\ saver["persistLoop"] = "saved" /\ ~returning
    /\ saver' = [saver EXCEPT !["persistLoop"] = "idle"]
    /\ UNCHANGED <<qvars, close, state, fd, tmpPath, path, content>>

persistLoop == tick \/ finalSave \/ saveState("persistLoop") \/ persistLoops

-----------------------------------------------------------------------------
(* The writers.  A packet that is written may be one to a TCP client, and  *)
(* then its writer waits in TCPTransport.Send until the client reads.      *)

mayStall(g) ==
    /\ g \notin stalled
    /\ stalled' = stalled \/ (written' # written /\ stalled' = stalled \cup {g})
    /\ UNCHANGED <<closing, main, room, persistDirty, returning, disk>>

sendQueueRun == run /\ mayStall("run")

writeReturns ==
    /\ \E g \in stalled : stalled' = stalled \ {g}
    /\ UNCHANGED <<qvars, closing, main, room, persistDirty, returning, disk>>

(* The workers: a handler changes the room and reports it with onDirty, or *)
(* relays a packet.  A worker whose context is cancelled may still take a  *)
(* job, as long as its select has both to choose from.                     *)

onDirty ==
    /\ room < MaxVersion
    /\ room' = room + 1
    /\ persistDirty' = TRUE
    /\ UNCHANGED <<qvars, closing, main, stalled, returning, disk>>

relay(p) == (sendLow(p) \/ sendBroadcast(p)) /\ mayStall("worker")

-----------------------------------------------------------------------------
(* The signal handler.  closing is what it does next. *)

(* main cancels the context and calls Close; where a server is embedded,   *)
(* as in the integration tests, Close is called alone.                     *)
signalled ==
    /\ closing = "no"
    /\ closing' = "notify"
    /\ Cancel \/ UNCHANGED qvars
    /\ UNCHANGED <<main, stalled, room, persistDirty, returning, disk>>

(* notifyShutdown: a kick to one client after the other, in any order.  A  *)
(* kick is given up only if the channel stays full.                        *)
Kick == {p \in Message : High(p)}
notifyShutdown ==
    /\ closing = "notify"
    /\ \E p \in Kick :
          /\ sender[p] = "idle"
          /\ Enqueue(p) \/ (Len(ch) >= maxSize /\ Dropped(p))
    /\ UNCHANGED <<close, disk>>

(* Faulty variant: only the server's own context is cancelled, which is    *)
(* not the one that run listens to.                                        *)
stopQueueCancels ==
    /\ closing = "notify" /\ \A p \in Kick : sender[p] # "idle"
    /\ closing' = "wait"
    /\ UNCHANGED <<qvars, main, stalled, room, persistDirty, returning, disk>>

(* The server's own context ends too, but run, the workers and persistLoop *)
(* were started with the one main cancels.                                 *)
stopQueue ==
    /\ closing = "notify" /\ \A p \in Kick : sender[p] # "idle"
    /\ closing' = "wait"
    /\ Stop
    /\ UNCHANGED <<main, stalled, room, persistDirty, returning, disk>>

(* Faulty variant: the state is saved without waiting for the queue. *)
WaitDrainSkipped ==
    /\ closing = "wait"
    /\ closing' = "save"
    /\ SnapshotState("Close")
    /\ UNCHANGED <<main, stalled, room, persistDirty, returning>>

WaitDrain ==
    /\ closing = "wait" /\ at = "drained"
    /\ closing' = "save"
    /\ SnapshotState("Close")
    /\ UNCHANGED <<main, stalled, room, persistDirty, returning>>

(* The listener and the socket are closed; ...                             *)
connClose ==
    /\ closing = "save" /\ saver["Close"] = "saved"
    /\ closing' = "runWg"
    /\ UNCHANGED <<qvars, main, stalled, room, persistDirty, returning, disk>>

(* ... Close waits for the read loop and stops the rooms' goroutines ...   *)
runWgWait ==
    /\ closing = "runWg" /\ main # "run"
    /\ closing' = "bridges"
    /\ UNCHANGED <<qvars, main, stalled, room, persistDirty, returning, disk>>

(* ... and the bridges.  Closing a transport takes the mutex its writer    *)
(* holds; the wait for its ReceiveLoop ends after 5s.                      *)
stopBridges ==
    /\ closing = "bridges" /\ stalled = {}
    /\ closing' = "closed"
    /\ UNCHANGED <<qvars, main, stalled, room, persistDirty, returning, disk>>

Close ==
    \/ notifyShutdown \/ stopQueue \/ WaitDrain \/ saveState("Close")
    \/ connClose \/ runWgWait \/ stopBridges

-----------------------------------------------------------------------------
(* main: the read loop ends when its socket is closed, and Run returns.    *)
SocketClosed == closing \in {"runWg", "bridges", "closed"}
RunReturns ==
    /\ main = "run" /\ SocketClosed
    /\ main' = "returned"
    /\ UNCHANGED <<qvars, closing, stalled, room, persistDirty, returning, disk>>

(* main returns then, and with it the program ends, wherever Close is; an  *)
(* embedded server lives on.                                               *)
programEnds ==
    /\ main = "returned"
    /\ main' = "ended"
    /\ UNCHANGED <<qvars, closing, stalled, room, persistDirty, returning, disk>>

SNext ==
    /\ main # "ended"
    /\ \/ sendQueueRun
       \/ writeReturns
       \/ persistLoop
       \/ onDirty
       \/ \E p \in Message : relay(p)
       \/ signalled
       \/ Close
       \/ RunReturns
       \/ programEnds
SSpec == SInit /\ [][SNext]_svars

(* run, when it is not inside a write, the goroutine that executes Close   *)
(* and the read loop are always scheduled again.  Nothing is assumed of a  *)
(* write to a TCP client.                                                  *)
SFairness ==
    /\ WF_svars(main # "ended" /\ sendQueueRun)
    /\ WF_svars(main # "ended" /\ Close)
    /\ WF_svars(RunReturns)

-----------------------------------------------------------------------------
(* Properties *)

(* Types; and the two names never refer to the same file, so that opening  *)
(* the temporary file cannot truncate the state file.                      *)
STypeOK ==
    /\ QTypeOK
    /\ closing \in {"no", "notify", "wait", "save", "runWg", "bridges", "closed"}
    /\ main \in {"run", "returned", "ended"} /\ stalled \subseteq {"run", "worker"}
    /\ room \in 1..MaxVersion /\ persistDirty \in BOOLEAN /\ returning \in BOOLEAN
    /\ saver \in [Saver -> {"idle", "open", "write", "rename", "remove", "saved"}]
    /\ state \in [Saver -> 1..MaxVersion]
    /\ fd \in [Saver -> File \cup {None}]
    /\ tmpPath \in File \cup {None} /\ path \in File \ {tmpPath}
    /\ content \in [File -> 0..MaxVersion]

(* When the socket is closed every client has been told, unless the queue  *)
(* was so full that its kick was given up ("Sends disconnect notifications *)
(* to all connected clients before closing", server.go:365).               *)
Notified ==
    SocketClosed => \A p \in Kick : p \in ToSet(written) \/ sender[p] = "dropped"

(* Notified, when the context is not cancelled before Close: the kicks are *)
(* in the queue before Stop, and Close waits until they are on the wire.   *)
NotifiedInOrder == ~ctxDone => Notified

(* Once begun Close returns, or the program ends first, unless some write  *)
(* to a TCP client never returns: nothing else it waits for (the drain,    *)
(* the read loop, the bridges) depends on goroutines that Close or the     *)
(* cancellation has already stopped.                                       *)
CloseReturns ==
    \/ <>[](stalled # {})
    \/ closing = "notify" ~> (closing = "closed" \/ main = "ended")

(* At any moment, and so at any crash, the state file holds a whole state  *)
(* ("writes the current room state to disk atomically", persist.go:175).   *)
AtomicFile == content[path] # Torn

(* AtomicFile, as long as persistLoop alone saves: whatever call of        *)
(* saveState fails and whenever the next save comes.                       *)
AtomicWhileAlone == saver["Close"] = "idle" => AtomicFile
=============================================================================
