# A verification project for gametunnel

gametunnel puts the players of a game into one virtual LAN. A *server* keeps
rooms; a *client* registers with a room, gets a virtual IP (VIP), and exchanges
the packets of its TUN device with the other clients, relayed by the server or
over a direct path. This directory holds TLA+ models of the parts where
concurrency, an unreliable network or restarts make the code hard to test, the
TLC configurations that check them, and TLAPS proofs.

## The system and its parts

| Part | Code | Modules |
|---|---|---|
| Room membership: register, challenge, response, keepalive, disconnect, migration, rebind, stale sweep | `internal/server/room*.go`, `keepalive_server.go`, `client.go` | `Room`, `Lease`, `RoomProofs`, `RoomRefinement` |
| State file, crash and restart | `internal/server/persist.go` | `RoomRestart`, `Shutdown` |
| Send queue | `internal/server/sendqueue.go` | `SendQueue` |
| Shutdown | `cmd/server/main.go`, `server.go` (`Close`) | `Shutdown` |
| Replay window of the cipher | `internal/crypto/crypto.go` | `ReplayWindow`, `ReplayWindowProofs` |
| Relay, peer list cache, multi-room routing, idle rooms, subnets, TCP bridge, limiters, ping statistics | `internal/server` | see *Plan* |
| Connection loop, handshake, receive path, peers, hole punching, rebind, send limiter | `internal/client` | see *Plan* |
| Codec, NAT probe, TUN, pool, logs, texts, status pages | other packages | not modelled: pure I/O, conversions or reports |

`PROJECT.json` lists every part with its state, and every hazard with the
properties that cover it.

How the parts meet: the read loop of the server hands datagrams to several
*workers*; each calls a handler of `Room`. Handlers take the room's lock, some of
them twice (look up under the read lock, act under the write lock). A
*keepalive goroutine* sweeps stale clients in the same two-phase way,
*persistLoop* saves the room, and `sendQueue.run` is the only goroutine that
normally writes to the socket.

## The modules

**Room** is one room with its maps `clients` (by VIP) and `addrMap` (by address),
the bitmap of VIPs, `pendingAuth`, `ipConnCount`, and a heap of `Client` structs:
an entry of a map is a pointer, so a client that left can still be referred to by
a job that looked it up earlier. A handler that holds the lock throughout is one
action. `tryMigrateAddrMap`, `handleRebind` and `CleanupStale` release it in
between and are two actions, with the local variables of each worker in `job`.
Time is an age per client, up to the stale timeout.  Limiters, passwords and the
random source are nondeterministic outcomes. A definition marked *faulty
variant* is not part of the specification: it is what a plausible bug would make
of the definition after it, and shows that a property can fail.

**Lease** is what a room promises: players hold VIPs, one each; a join takes a
free VIP; a VIP changes hands only through being free. `Room!ImplementsLease`
is that specification under the mapping of `clients` to the name it holds.

**RoomRestart** extends Room with the state file: the dirty flag is claimed, the
state is read, the file is replaced, each a step that may be interrupted by
handlers, by a crash or by a failing disk; a restart restores placeholders.

**SendQueue** has the two channels, a sender per packet, the batch and deferred
buffers of `run`, one step per channel operation, `Stop` and the cancellation.

**Shutdown** composes SendQueue with the signal handler, `Close`, the workers and
`persistLoop`. Files are modelled as the operating system has them: names refer
to files, and an open file remains the same file when its name changes. A write
without `fsync` is taken to be durable.

**ReplayWindow** is one receiving `Cipher` and the senders whose packets it
decrypts, over a network that loses, repeats, reorders and damages.

The `MC*` modules give constants their values. `map` in `PROJECT.json` relates
each definition to the lines it models.

## The runs

Runs that pass:

| Run | Shows | Bounds |
|---|---|---|
| MCRoomOpen | bitmap and map agree, no VIP passes between clients, the sweep spares who was heard of | no password; two workers, one VIP, so that every reuse is a reuse of *that* VIP |
| MCRoomAuth | pending entries stay filed under their own address; silent clients and abandoned authentications go away | password; two addresses, two players, VIPs 2 and 3, random source may fail |
| MCRoomSerial | two-phase handlers uninterrupted: addrMap leads to members only, a disconnect removes only its own client, racing authentications respect Lease, the counters stay exact outside the named exceptions | password; three addresses on two IPs, four objects, VIPs 2 and 3 |
| MCRoomRestart | no membership change is lost once the flag is clear (unless the disk failed); a restored bitmap is exact; a returning user is recognised | one address, two users, VIPs 2 and 3, crashes anywhere |
| MCReplay | at most once; late packets accepted; one word of bits equals the full history | window 3, more than two windows of packets |
| MCSendQueue | accepted packets written once, control packets in order, drain complete | channels and buffers of one or two, packets of every kind: each is full at some time |
| MCShutdown | Close returns; kicks are written first unless the context was cancelled first; the state file is whole while one saver works | two kicks, one relayed packet, queue of two, three versions of the room |

Runs in which TLC shows that the code does something else than a comment says
(each quoted under `findings`):

| Run | The comment | What happens |
|---|---|---|
| MCRoomGhost | "Re-check that the client is still present" | only the VIP is checked; a client that left comes back into addrMap |
| MCRoomCounts | the count of the original address is given back | not after a migration |
| MCReplayPeers | 64 positions out of order | one window for several senders |
| MCShutdownNotify | notify before cancelling | main cancels first |
| MCShutdownSave | the file is written atomically | two savers share the temporary file |

`AccountsKept` says which steps of a room keep `ipConnCount` and `pendingAuth`
equal to what they count, and `Miscounts` names the steps that do not: a move to
another address, a registration that fails after the connection was counted, a
response refused after verification, and a repeated response. The hazards in
`PROJECT.json` describe each at its line, with three more places where the code
and its comments differ and no property is at stake: the sweep ends the grace
period of a restored client after 30 s, relayed packets overtake control packets
when the deferred buffer is full, and a counter far ahead of the replay window is
accepted.

Small instances suffice because the properties speak of one VIP, one address or
one packet and at most two others that interfere; every buffer and pool is small
enough to be exhausted. Packets of one kind, and objects or users where the model
treats them alike, are symmetric; the runs with liveness use no symmetry.

Deadlock is not checked where a bound makes an instance stop (ReplayWindow: the
number of packets), where the program ends (Shutdown), and in the rooms with a
password: there the leaked counters can bring every IP to its limit, after which
an empty room admits nobody.

**Fairness.** MCRoomAuth assumes only that the keepalive goroutine, which a ticker
drives, takes its two steps again and again (weak fairness of `cleanupCollect`
and `cleanupSweep`); time need not pass. MCShutdown assumes that `run`
and the goroutine that executes Close go on. These are goroutines
of the Go scheduler, which is preemptive and fair to runnable goroutines. No
fairness is assumed of clients, of the network or of the workers.

## What is proved

*RoomProofs*, for any finite sets of addresses, users and workers and any limits.
The safety invariants are not inductive one by one: that the bitmap is exact
depends on which objects the maps and the interrupted handlers refer to. The
inductive invariant `IInv` conjoins the types, the exact bitmap, that each client
in `clients` carries the VIP it is filed under, that no two of them are one
player, that a pending entry is filed under its own address, and that a job under
way refers to a registered object (`JobsRegistered`; without it a migration could
file a pending object twice). One step per action shows that it is preserved; the
theorems are its consequences: types, exact bitmap, one client per player, pending
entries at home, capacity, and, as action properties, no take-over of a VIP and no
live client swept.

*RoomRefinement*: the room implements Lease. Initial states map to initial ones;
each action joins one named player with a free VIP, lets some go, or leaves the
mapping as it is. Besides `IInv` it needs that no action renames a member.

*ReplayWindowProofs*, for any window size, any number of senders and packets:
the invariant relates every bit to the history (bit *i* is set just if the counter
*i* below the highest was accepted). At-most-once and the exactness of the
window follow; that late packets are accepted is proved for one sender and is
refuted for two (MCReplayPeers).

The proofs assume only the named assumptions on the constants. Liveness, the
restart, send-queue and shutdown properties are model-checked only: liveness
under fairness is out of the prover's reach, the others are planned.

## Not modelled

Contents of packets and codecs, cryptographic primitives, TUN and sockets, status
pages, logs and texts. Power failures that lose written but unsynchronised data.
In multi-room mode nothing is persisted, so RoomRestart and Shutdown speak of the
single-room mode with a state directory.

## Plan

In this order:

1. *PeerInfo*: the cached peer list and its invalidations.  Question: how long may a list miss a join, a leave or a migration?
2. *Rooms*: routing by address, room creation, subnet allocation, removal of idle rooms; composes abstract rooms (Lease). Hazards at `server.go:611` and `keepalive_server.go:73`.
3. *Handshake*: the client's registration over a lossy network against the server's side; token and VIP agree on both ends.
4. *Connection*: the client's connect loop, backoff, rebind and user disconnect, with liveness.
5. *Peers*: peer table, hole punching, direct or relayed path, expiry.
6. *Limiters*: token buckets of server and client, the race of the refill paths, ping statistics, as integer arithmetic against a reference definition.
7. *TCPBridge*: port reservation and hand-over.
8. Proofs: SendQueue's invariants, the single-saver case of Shutdown, MembersSaved of RoomRestart, then one invariant for each new module.
