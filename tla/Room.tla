-------------------------------- MODULE Room --------------------------------
(***************************************************************************)
(* One game room of the relay server (internal/server/room*.go and the     *)
(* rebind handler of keepalive_server.go): who is registered, at which     *)
(* public address, with which virtual IP, and the counters that limit      *)
(* registrations.                                                          *)
(*                                                                         *)
(* Packets are handled by several workers that share one channel, so the   *)
(* handlers of any two packets interleave, also of packets from the same   *)
(* address.  A handler that runs under one r.mu.Lock() is one action.  A   *)
(* handler that unlocks between what it reads and what it writes is one    *)
(* action per critical section: what it read stays in job[w] (packet       *)
(* workers) or in staleClients and staleAuths (the keepalive goroutine).   *)
(*                                                                         *)
(* A *Client pointer is an identifier of Cid, and client[c] is the object  *)
(* it points to.  Pointers matter: the code compares them, and keeps using *)
(* one after its client has left the room.                                 *)
(***************************************************************************)
EXTENDS Naturals, FiniteSets

CONSTANTS
    Cid,            \* identities of Client objects (the pool bounds how many exist at once)
    Addr,           \* public addresses, records with fields ip and port
    Player,         \* a (RoomID, Username) pair; the room only ever compares both
    Worker,         \* the packet worker goroutines
    Nil,            \* a nil pointer, address or virtual IP
    LastOctet,      \* the broadcast octet of the subnet (255)
    MaxPlayers,     \* Room.maxPlayers
    PendingFactor,  \* Room.maxPending is maxPlayers * 3, capped at 512
    MaxPerIP,       \* Room.maxPerIP
    HasPassword,    \* Room.roomPass # ""
    ForeignNames,   \* whether a response may carry other names than its registration
    RandFails,      \* whether the system's random source may fail
    AuthTimeout,    \* 15s, in ticks
    StaleAfter      \* 30s, in ticks

IP  == {a.ip : a \in Addr}
VIP == 2 .. (LastOctet - 1)
Reserved == {0, 1, LastOctet}
maxPending == IF MaxPlayers * PendingFactor < 512 THEN MaxPlayers * PendingFactor ELSE 512

ASSUME ConstantsAssumption ==
    /\ LastOctet \in Nat /\ LastOctet > 2
    /\ MaxPlayers \in Nat /\ PendingFactor \in Nat /\ MaxPerIP \in Nat
    /\ HasPassword \in BOOLEAN /\ ForeignNames \in BOOLEAN /\ RandFails \in BOOLEAN
    /\ AuthTimeout \in Nat /\ StaleAfter \in Nat /\ AuthTimeout <= StaleAfter

ASSUME IdentityAssumption ==
    /\ IsFiniteSet(Addr)
    /\ Nil \notin Cid /\ Nil \notin Addr /\ Nil \notin Player /\ Nil \notin 0 .. LastOctet

VARIABLES
    clients,       \* Room.clients: virtual IP -> Client
    addrMap,       \* Room.addrMap: public address -> Client
    client,        \* the Client objects
    ipBitmap,      \* Room.ipBitmap, as the set of octets whose bit is 1
    pendingAuth,   \* Room.pendingAuth
    ipConnCount,   \* Room.ipConnCount (no entry is 0)
    job,           \* per worker, the locals of a handler between two critical sections
    staleClients,  \* CleanupStale's locals: the stale clients seen, by virtual IP,
    staleAuths     \* and the stale pending authentications seen, by address

vars == <<clients, addrMap, client, ipBitmap, pendingAuth, ipConnCount, job,
          staleClients, staleAuths>>
room == <<clients, addrMap, ipBitmap, pendingAuth, ipConnCount>>
cleanup == <<staleClients, staleAuths>>

(***************************************************************************)
(* A Client.  age is the time since lastSeen for a registered client and   *)
(* since challengeAt for one that was sent a challenge: each kind is only  *)
(* ever judged by its own.  It stops growing one tick after StaleAfter.    *)
(***************************************************************************)
Age == 0 .. (StaleAfter + 1)
Client == [who : Player \cup {Nil}, vip : VIP \cup {Nil}, addr : Addr \cup {Nil},
           auth : {"none", "challenge"}, age : Age]
Blank == [who |-> Nil, vip |-> Nil, addr |-> Nil, auth |-> "none", age |-> 0]

Idle == [op |-> "idle", at |-> Nil, vip |-> Nil, c |-> Nil, old |-> Nil]
Job == [op : {"idle", "keepalive", "relay", "migrate", "rebind"}, at : Addr \cup {Nil},
        vip : VIP \cup {Nil}, c : Cid \cup {Nil}, old : Addr \cup {Nil}]
NotStale == [c |-> Nil, addr |-> Nil]

(* An object nothing points to any more is garbage: its identity can be    *)
(* used again and what it held is forgotten.                               *)
Referenced(c) ==
    \/ \E v \in VIP : clients[v] = c \/ staleClients[v].c = c
    \/ \E a \in Addr : addrMap[a] = c \/ staleAuths[a] = c
    \/ \E w \in Worker : job[w].c = c
Fresh == {c \in Cid : ~Referenced(c)}
Store(objects) ==
    client' = [c \in Cid |-> IF Referenced(c)' THEN objects[c] ELSE Blank]

Init ==
    /\ clients = [v \in VIP |-> Nil]
    /\ addrMap = [a \in Addr |-> Nil]
    /\ client = [c \in Cid |-> Blank]
    /\ ipBitmap = Reserved
    /\ pendingAuth = 0
    /\ ipConnCount = [i \in IP |-> 0]
    /\ job = [w \in Worker |-> Idle]
    /\ staleClients = [v \in VIP |-> NotStale]
    /\ staleAuths = [a \in Addr |-> Nil]

-----------------------------------------------------------------------------
(* Helpers of the handlers *)

Pending(c) == c # Nil /\ client[c].auth = "challenge"
Registered(c) == c # Nil /\ client[c].auth = "none"
Members == {v \in VIP : clients[v] # Nil}

(* Faulty variant: no guard against underflow. *)
LessUnguarded(n, k) == n - k
Less(n, k) == IF n > k THEN n - k ELSE 0
decrementIPConnCount(a) ==
    IF a = Nil THEN ipConnCount ELSE [ipConnCount EXCEPT ![a.ip] = Less(@, 1)]

markIPUsed(bits, v) == bits \cup {v}
markIPFree(bits, vs) == bits \ vs

(* nextAvailableIP: the lowest octet of the host range whose bit is 0.     *)
FreeVIPs == VIP \ ipBitmap
(* Faulty variant: the first host address, whatever the bitmap says. *)
nextAvailableIPFirst(v) == v \in VIP /\ \A u \in VIP : v <= u
nextAvailableIP(v) == v \in FreeVIPs /\ \A u \in FreeVIPs : v <= u

(* checkCapacityAndDuplicate = checkOK *)
checkCapacityAndDuplicate(p) ==
    /\ Cardinality(Members) < MaxPlayers
    /\ \A v \in Members : ~(Registered(clients[v]) /\ client[clients[v]].who = p)

(* Faulty variant: the new Client does not know its virtual IP. *)
doRegisterClientNoVIP(p, a, am, objs) ==
    \E v \in VIP, c \in Fresh :
        /\ nextAvailableIP(v)
        /\ ipBitmap' = markIPUsed(ipBitmap, v)
        /\ clients' = [clients EXCEPT ![v] = c]
        /\ addrMap' = [am EXCEPT ![a] = c]
        /\ Store([objs EXCEPT ![c] =
                 [who |-> p, vip |-> Nil, addr |-> a, auth |-> "none", age |-> 0]])

(* doRegisterClient succeeds: a new Client c takes the next virtual IP and *)
(* the address a.  am and objs are addrMap and the objects as the caller   *)
(* has changed them.                                                       *)
doRegisterClient(p, a, am, objs) ==
    \E v \in VIP, c \in Fresh :
        /\ nextAvailableIP(v)
        /\ ipBitmap' = markIPUsed(ipBitmap, v)
        /\ clients' = [clients EXCEPT ![v] = c]
        /\ addrMap' = [am EXCEPT ![a] = c]
        /\ Store([objs EXCEPT ![c] =
                 [who |-> p, vip |-> v, addr |-> a, auth |-> "none", age |-> 0]])

(* Faulty variant: the virtual IP reserved for the client is not given back. *)
doRegisterClientFailsKept ==
    \/ FreeVIPs = {} /\ UNCHANGED ipBitmap
    \/ RandFails /\ \E v \in VIP : nextAvailableIP(v) /\ ipBitmap' = markIPUsed(ipBitmap, v)

(* doRegisterClient fails: no virtual IP is left, or no session token was  *)
(* drawn after the virtual IP had been reserved, which is given back.      *)
doRegisterClientFails ==
    \/ FreeVIPs = {} /\ UNCHANGED ipBitmap
    \/ /\ RandFails
       /\ \E v \in VIP : /\ nextAvailableIP(v)
                         /\ ipBitmap' = markIPFree(markIPUsed(ipBitmap, v), {v})

(* cleanupPendingAuth on the object at address k; also what handleRegister *)
(* and handleDisconnect do to a pending entry.                             *)
cleanupPendingAuth(k) ==
    /\ addrMap' = [addrMap EXCEPT ![k] = Nil]
    /\ pendingAuth' = Less(pendingAuth, 1)
    /\ ipConnCount' = decrementIPConnCount(client[addrMap[k]].addr)
    /\ UNCHANGED <<clients, ipBitmap, job, cleanup>>
    /\ Store(client)

(* SetLastSeen(now) by a handler that changes nothing else.                *)
Touch(c) ==
    /\ client' = [client EXCEPT ![c].age = 0]
    /\ UNCHANGED <<room, job, cleanup>>

(* A worker at the end of a critical section remembers what it has read,   *)
(* or returns.                                                             *)
beginJob(w, j) ==
    /\ job[w] = Idle
    /\ job' = [job EXCEPT ![w] = j]
    /\ UNCHANGED <<room, client, cleanup>>

abandonJob(w) ==
    /\ job' = [job EXCEPT ![w] = Idle]
    /\ UNCHANGED <<room, cleanup>>
    /\ Store(client)

-----------------------------------------------------------------------------
(* handleRegister.  A pending entry at the same address is dropped first;  *)
(* the requests refused before the lock is taken (version, name, room,     *)
(* rate) change nothing here.                                              *)

pendingAfterDrop(a) == IF Pending(addrMap[a]) THEN Less(pendingAuth, 1) ELSE pendingAuth
connAfterDrop(a) ==
    IF Pending(addrMap[a]) THEN decrementIPConnCount(client[addrMap[a]].addr)
                           ELSE ipConnCount

registerKnown(a) == Registered(addrMap[a]) /\ Touch(addrMap[a])

UnderIPLimit(a) == connAfterDrop(a)[a.ip] < MaxPerIP

(* resolveRestoredClient finds one of these placeholders of loadState.     *)
Placeholders(p) ==
    {v \in Members : /\ client[clients[v]].who = p
                     /\ client[clients[v]].addr = Nil
                     /\ Registered(clients[v])}

resolveRestoredClient(a, p) ==
    /\ ~Registered(addrMap[a])
    /\ UnderIPLimit(a)
    /\ \E v \in Placeholders(p) :
        /\ addrMap' = [addrMap EXCEPT ![a] = clients[v]]
        /\ pendingAuth' = pendingAfterDrop(a)
        /\ ipConnCount' = [connAfterDrop(a) EXCEPT ![a.ip] = @ + 1]
        /\ UNCHANGED <<clients, ipBitmap, job, cleanup>>
        /\ Store([client EXCEPT ![clients[v]].addr = a, ![clients[v]].age = 0])

Admits(a, p) ==
    /\ ~Registered(addrMap[a])
    /\ UnderIPLimit(a)
    /\ Placeholders(p) = {}
    /\ checkCapacityAndDuplicate(p)

registerOpen(a, p) ==
    /\ ~HasPassword
    /\ Admits(a, p)
    /\ pendingAuth' = pendingAfterDrop(a)
    /\ ipConnCount' = [connAfterDrop(a) EXCEPT ![a.ip] = @ + 1]
    /\ UNCHANGED <<job, cleanup>>
    /\ doRegisterClient(p, a, addrMap, client)

(* The connection was counted; the failed registration does not uncount it. *)
registerExhausted(a, p) ==
    /\ ~HasPassword
    /\ Admits(a, p)
    /\ doRegisterClientFails
    /\ addrMap' = [addrMap EXCEPT ![a] = Nil]
    /\ pendingAuth' = pendingAfterDrop(a)
    /\ ipConnCount' = [connAfterDrop(a) EXCEPT ![a.ip] = @ + 1]
    /\ UNCHANGED <<clients, job, cleanup>>
    /\ Store(client)

doSendAuthChallenge(a, p) ==
    /\ HasPassword
    /\ Admits(a, p)
    /\ pendingAfterDrop(a) < maxPending
    /\ \E c \in Fresh :
        /\ addrMap' = [addrMap EXCEPT ![a] = c]
        /\ pendingAuth' = pendingAfterDrop(a) + 1
        /\ ipConnCount' = [connAfterDrop(a) EXCEPT ![a.ip] = @ + 1]
        /\ UNCHANGED <<clients, ipBitmap, job, cleanup>>
        /\ Store([client EXCEPT ![c] =
                 [who |-> p, vip |-> Nil, addr |-> a, auth |-> "challenge", age |-> 0]])

(* Over the per-IP limit, room full, duplicate name, too many pending, or  *)
(* no challenge drawn: only the dropped entry remains as an effect.        *)
registerRefused(a, p) ==
    /\ Pending(addrMap[a])
    /\ \/ ~UnderIPLimit(a)
       \/ Placeholders(p) = {} /\ ~checkCapacityAndDuplicate(p)
       \/ Admits(a, p) /\ HasPassword /\ (pendingAfterDrop(a) >= maxPending \/ RandFails)
    /\ cleanupPendingAuth(a)

(* The outcomes that end in markDirty, and the others. *)
registerJoins(a, p) == resolveRestoredClient(a, p) \/ registerOpen(a, p)
registerOther(a, p) ==
    \/ registerKnown(a)
    \/ registerExhausted(a, p)
    \/ doSendAuthChallenge(a, p)
    \/ registerRefused(a, p)

-----------------------------------------------------------------------------
(* handleAuthResponse to a response with the names q.  k is the address    *)
(* the pending entry is found at: a itself, whatever names are pending     *)
(* there, or, when nothing is, any entry with the names q (map order).     *)

authEntries(a, q) ==
    IF Pending(addrMap[a]) THEN {a}
    ELSE {k \in Addr : Pending(addrMap[k]) /\ client[addrMap[k]].who = q}

(* Nothing pending, but the address belongs to a registered client.        *)
authMismatch(a, q) ==
    /\ authEntries(a, q) = {}
    /\ addrMap[a] # Nil
    /\ cleanupPendingAuth(a)

(* In time, and the HMAC is that of the challenge and of the names in the  *)
(* response.  The code does not compare these with the names the entry was *)
(* made for; a client of this repository sends the ones it registered.     *)
Verified(k, q) ==
    /\ client[addrMap[k]].age <= AuthTimeout
    /\ ForeignNames \/ client[addrMap[k]].who = q

(* Challenge expired, or HMAC wrong (which any response may be). *)
authRejected(a, q) == \E k \in authEntries(a, q) : cleanupPendingAuth(k)

(* Room full or name taken: the connection is uncounted, the entry stays.  *)
authRefused(a, q) ==
    \E k \in authEntries(a, q) :
        /\ Verified(k, q)
        /\ ~checkCapacityAndDuplicate(q)
        /\ ipConnCount' = decrementIPConnCount(client[addrMap[k]].addr)
        /\ UNCHANGED <<clients, addrMap, client, ipBitmap, pendingAuth, job, cleanup>>

(* Faulty variant: the moved object keeps the address it registered from. *)
authMovedKeepsAddr(a, k) ==
    IF k = a THEN [am |-> [addrMap EXCEPT ![k] = Nil], objs |-> client]
    ELSE [am |-> [addrMap EXCEPT ![k] = Nil, ![a] = addrMap[k]], objs |-> client]

(* A response found by scan moves the pending object to the new address.   *)
authMoved(a, k) ==
    IF k = a THEN [am |-> [addrMap EXCEPT ![k] = Nil], objs |-> client]
    ELSE [am |-> [addrMap EXCEPT ![k] = Nil, ![a] = addrMap[k]],
          objs |-> [client EXCEPT ![addrMap[k]].addr = a]]

(* Faulty variant: the check made at registration is not repeated. *)
authAcceptedUnchecked(a, q) ==
    \E k \in authEntries(a, q) :
        /\ Verified(k, q)
        /\ pendingAuth' = Less(pendingAuth, 1)
        /\ UNCHANGED <<ipConnCount, job, cleanup>>
        /\ doRegisterClient(client[addrMap[k]].who, a, authMoved(a, k).am, authMoved(a, k).objs)

(* The names in the response are checked, those of the entry registered.   *)
authAccepted(a, q) ==
    \E k \in authEntries(a, q) :
        /\ Verified(k, q)
        /\ checkCapacityAndDuplicate(q)
        /\ pendingAuth' = Less(pendingAuth, 1)
        /\ UNCHANGED <<ipConnCount, job, cleanup>>
        /\ doRegisterClient(client[addrMap[k]].who, a, authMoved(a, k).am, authMoved(a, k).objs)

authExhausted(a, q) ==
    \E k \in authEntries(a, q) :
        /\ Verified(k, q)
        /\ checkCapacityAndDuplicate(q)
        /\ doRegisterClientFails
        /\ addrMap' = authMoved(a, k).am
        /\ pendingAuth' = Less(pendingAuth, 1)
        /\ UNCHANGED <<clients, ipConnCount, job, cleanup>>
        /\ Store(authMoved(a, k).objs)

(* All outcomes but authAccepted, which ends in markDirty. *)
authOther(a, q) ==
    \/ authMismatch(a, q)
    \/ authRejected(a, q)
    \/ authRefused(a, q)
    \/ authExhausted(a, q)

-----------------------------------------------------------------------------
(* Keepalive and disconnect *)

(* handleKeepAliveWithPayload finds the client under RLock and stores       *)
(* lastSeen after RUnlock, wherever the client may be by then.  To a pending *)
(* one lastSeen means nothing.                                             *)
keepAliveLookup(w, a) ==
    /\ Registered(addrMap[a])
    /\ beginJob(w, [Idle EXCEPT !.op = "keepalive", !.c = addrMap[a]])

keepAliveUpdate(w) ==
    /\ job[w].op = "keepalive"
    /\ job' = [job EXCEPT ![w] = Idle]
    /\ UNCHANGED <<room, cleanup>>
    /\ Store([client EXCEPT ![job[w].c].age = 0])

disconnectMember(a) ==
    /\ Registered(addrMap[a])
    /\ LET c == client[addrMap[a]]
       IN  /\ ipBitmap' = markIPFree(ipBitmap, {c.vip})
           /\ clients' = [clients EXCEPT ![c.vip] = Nil]
           /\ ipConnCount' = decrementIPConnCount(c.addr)
    /\ addrMap' = [addrMap EXCEPT ![a] = Nil]
    /\ UNCHANGED <<pendingAuth, job, cleanup>>
    /\ Store(client)

handleDisconnect(a) ==
    \/ Pending(addrMap[a]) /\ cleanupPendingAuth(a)
    \/ disconnectMember(a)

-----------------------------------------------------------------------------
(* A relay packet with source v: handleRelay does not know its address a,  *)
(* and tryMigrateAddrMap moves the client of v there.  Three critical      *)
(* sections: addrMap is read, clients is read, both are written.           *)

relayLookup(w, a, v) ==
    /\ addrMap[a] = Nil
    /\ beginJob(w, [Idle EXCEPT !.op = "relay", !.at = a, !.vip = v])

(* Nobody holds v or the token is wrong, or the client is remembered. *)
migrateLookup(w) ==
    /\ job[w].op = "relay"
    /\ \/ abandonJob(w)
       \/ /\ clients[job[w].vip] # Nil
          /\ job' = [job EXCEPT ![w].op = "migrate", ![w].c = clients[job[w].vip]]
          /\ UNCHANGED <<room, client, cleanup>>

(* The second phase of both handlers once its re-checks pass: the object   *)
(* found in the first phase leaves address old for address at.             *)
moveClient(c, old, at) ==
    /\ addrMap' = [a \in Addr |-> IF a = at THEN c ELSE IF a = old THEN Nil ELSE addrMap[a]]
    /\ UNCHANGED <<clients, ipBitmap, pendingAuth, ipConnCount, cleanup>>
    /\ Store([client EXCEPT ![c].addr = at, ![c].age = 0])

(* What the re-check after the unlock asks of the room. *)
migrateStillValid(j) == addrMap[j.at] = Nil /\ clients[j.vip] # Nil
rebindStillValid(j) == clients[j.vip] # Nil

migrateUpdate(w) ==
    /\ job[w].op = "migrate"
    /\ \/ /\ migrateStillValid(job[w])
          /\ job' = [job EXCEPT ![w] = Idle]
          /\ moveClient(job[w].c, client[job[w].c].addr, job[w].at)
       \/ ~migrateStillValid(job[w]) /\ abandonJob(w)

(* handleRebind: the client of v asks to be moved to address a.  With a    *)
(* password the request carries an HMAC, without one the client must have  *)
(* been heard of recently.                                                 *)
rebindLookup(w, a, v) ==
    /\ clients[v] # Nil
    /\ HasPassword \/ client[clients[v]].age <= StaleAfter
    /\ beginJob(w, [op |-> "rebind", at |-> a, vip |-> v, c |-> clients[v],
                    old |-> client[clients[v]].addr])

rebindUpdate(w) ==
    /\ job[w].op = "rebind"
    /\ \/ /\ rebindStillValid(job[w])
          /\ job' = [job EXCEPT ![w] = Idle]
          /\ moveClient(job[w].c, job[w].old, job[w].at)
       \/ ~rebindStillValid(job[w]) /\ abandonJob(w)

-----------------------------------------------------------------------------
(* CleanupStale, run by the keepalive goroutine *)

Stale(c) == c # Nil /\ client[c].age > StaleAfter
NoCleanup == (\A v \in VIP : staleClients[v] = NotStale) /\ (\A a \in Addr : staleAuths[a] = Nil)

collectStale ==
    /\ NoCleanup
    /\ staleClients' = [v \in VIP |->
            IF Stale(clients[v]) THEN [c |-> clients[v], addr |-> client[clients[v]].addr]
                                 ELSE NotStale]
    /\ staleAuths' = [a \in Addr |->
            IF Pending(addrMap[a]) /\ Stale(addrMap[a]) THEN addrMap[a] ELSE Nil]
    /\ UNCHANGED <<room, client, job>>
anyStaleClient == \E v \in VIP : Stale(clients[v])
anyStaleAuth == \E a \in Addr : Pending(addrMap[a]) /\ Stale(addrMap[a])

(* Faulty variant: gives up unless it finds stale entries of both kinds. *)
cleanupCollectBoth == anyStaleClient /\ anyStaleAuth /\ collectStale
cleanupCollect == (anyStaleClient \/ anyStaleAuth) /\ collectStale

(* Under the write lock: the clients still there and still stale leave...  *)
sweepable(v) == staleClients[v].c # Nil /\ clients[v] = staleClients[v].c /\ Stale(clients[v])
SweptVIPs == {v \in VIP : sweepable(v)}
(* ... with the address they had when they were collected, if they have one *)
(* now (one they had not then is the zero key, which is in no map) ...     *)
SweptFrom(a) ==
    {v \in SweptVIPs : staleClients[v].addr = a /\ client[clients[v]].addr # Nil}
(* ... and then the pending entries that are still the ones collected.  A  *)
(* pending entry is always at its own PublicAddr.                          *)
SweptAuths == {a \in Addr : staleAuths[a] # Nil /\ addrMap[a] = staleAuths[a] /\ SweptFrom(a) = {}}

cleanupSweep ==
    /\ ~NoCleanup
    /\ clients' = [v \in VIP |-> IF v \in SweptVIPs THEN Nil ELSE clients[v]]
    /\ ipBitmap' = markIPFree(ipBitmap, SweptVIPs)
    /\ addrMap' = [a \in Addr |->
            IF SweptFrom(a) # {} \/ a \in SweptAuths THEN Nil ELSE addrMap[a]]
    /\ pendingAuth' = Less(pendingAuth, Cardinality(SweptAuths))
    /\ ipConnCount' = [i \in IP |->
            Less(ipConnCount[i],
                 Cardinality({v \in VIP : \E a \in Addr : a.ip = i /\ v \in SweptFrom(a)})
                   + Cardinality({a \in SweptAuths : a.ip = i}))]
    /\ staleClients' = [v \in VIP |-> NotStale]
    /\ staleAuths' = [a \in Addr |-> Nil]
    /\ UNCHANGED job
    /\ Store(client)

(* Time passes for every client alike. *)
Aging(c) == Referenced(c) /\ client[c].age <= StaleAfter
AgeClients ==
    /\ client' = [c \in Cid |->
            IF Aging(c) THEN [client[c] EXCEPT !.age = @ + 1] ELSE client[c]]
    /\ UNCHANGED <<room, job, cleanup>>
Tick == (\E c \in Cid : Aging(c)) /\ AgeClients

(* Every packet is handled by some worker that is not inside another       *)
(* handler.  The packets whose handlers call markDirty are kept apart.     *)
MarkingPacket ==
    \/ \E a \in Addr, p \in Player : registerJoins(a, p) \/ authAccepted(a, p)
    \/ \E a \in Addr : handleDisconnect(a)
OtherPacket ==
    \/ \E a \in Addr, p \in Player : registerOther(a, p) \/ authOther(a, p)
    \/ \E w \in Worker, a \in Addr : keepAliveLookup(w, a)
    \/ \E w \in Worker, a \in Addr, v \in VIP : relayLookup(w, a, v) \/ rebindLookup(w, a, v)
WorkerIdle == \E w \in Worker : job[w] = Idle
Packet == WorkerIdle /\ (MarkingPacket \/ OtherPacket)

(* A worker goes on with a handler that had let go of the lock. *)
Resume ==
    \E w \in Worker :
        keepAliveUpdate(w) \/ migrateLookup(w) \/ migrateUpdate(w) \/ rebindUpdate(w)

Next == Packet \/ Resume \/ cleanupCollect \/ cleanupSweep \/ Tick

Spec == Init /\ [][Next]_vars

(* The keepalive goroutine runs CleanupStale every 15 seconds for as long  *)
(* as the server runs; nothing is assumed of the packets that arrive.      *)
FairSpec == Spec /\ WF_vars(cleanupCollect) /\ WF_vars(cleanupSweep)

-----------------------------------------------------------------------------
(* Properties *)

TypeOK ==
    /\ clients \in [VIP -> Cid \cup {Nil}]
    /\ addrMap \in [Addr -> Cid \cup {Nil}]
    /\ client \in [Cid -> Client]
    /\ ipBitmap \subseteq 0 .. LastOctet
    /\ pendingAuth \in Nat
    /\ ipConnCount \in [IP -> Nat]
    /\ job \in [Worker -> Job]
    /\ staleClients \in [VIP -> [c : Cid \cup {Nil}, addr : Addr \cup {Nil}]]
    /\ staleAuths \in [Addr -> Cid \cup {Nil}]

(* The allocation bitmap of room.go and the map of clients agree: an octet *)
(* is marked used exactly when it is reserved or some client holds it, so  *)
(* no address is handed out twice and none is lost, whatever path          *)
(* (disconnect, cleanup, failed registration) a client leaves by.          *)
BitmapExact == ipBitmap = Reserved \cup Members

(* A virtual IP never passes from one client to another in one step of any *)
(* handler: doRegisterClient only writes clients[vip] when the entry is    *)
(* free, and no handler replaces a holder.                                 *)
NoTakeover == [][\A v \in VIP : clients[v] # Nil => clients'[v] \in {clients[v], Nil}]_vars

(* The entry of clients at v is a registered client whose VirtualIP is v:  *)
(* the handlers that go from an object back to the map (markIPFree and     *)
(* delete by c.VirtualIP) then name the entry they mean.                   *)
HoldersConsistent ==
    \A v \in Members : client[clients[v]].vip = v /\ Registered(clients[v])

(* Two clients of a room never have the same player's names, although the  *)
(* duplicate check of handleRegister happens before the challenge and two  *)
(* pending authentications of one player can race.  It takes clients that  *)
(* answer with the names they registered: handleAuthResponse checks the    *)
(* names of the response and registers those of the entry.                 *)
UniquePlayers ==
    \A u, v \in Members : client[clients[u]].who = client[clients[v]].who => u = v

(* The room never holds more than maxPlayers clients, although capacity is *)
(* checked for pending players long before they become clients.            *)
Capacity == Cardinality(Members) <= MaxPlayers

(* A pending authentication sits in addrMap at its own PublicAddr, also    *)
(* when the response came from another address: cleanupPendingAuth and     *)
(* CleanupStale undo the count of the address the entry is filed under.    *)
PendingAtHome == \A a \in Addr : Pending(addrMap[a]) => client[addrMap[a]].addr = a

(* A client that has fallen silent is removed, or is heard of again.       *)
StaleReclaimed ==
    \A v \in VIP, c \in Cid :
        (clients[v] = c /\ Stale(c)) ~> ~(clients[v] = c /\ Stale(c))

(* A pending authentication does not stay for ever (CleanupStale).         *)
StaleAuthReclaimed ==
    \A a \in Addr, c \in Cid :
        (addrMap[a] = c /\ Pending(c) /\ Stale(c)) ~> addrMap[a] # c

(* No address's count is "permanently incremented" (room_auth.go): once    *)
(* nobody is registered or pending, every count is back to zero.           *)
CountsReturn ==
    (Members = {} /\ \A a \in Addr : addrMap[a] = Nil) => \A i \in IP : ipConnCount[i] = 0

(* What the room promises of its virtual IPs (module Lease), by the names  *)
(* of whoever holds them.  However registrations, authentications,         *)
(* migrations and cleanups interleave, the room's steps are those of Lease:*)
(* checkCapacityAndDuplicate and nextAvailableIP decide under the same     *)
(* lock as doRegisterClient writes.                                        *)
holder == [v \in VIP |-> IF clients[v] = Nil THEN Nil ELSE client[clients[v]].who]
Leases == INSTANCE Lease
ImplementsLease == Leases!LSpec

(* A client leaves the room only because it was silent for 30s or because  *)
(* a disconnect came from the address that leads to it: nobody's           *)
(* disconnect removes another player.  The re-checks of handleRebind       *)
(* ("Re-check that the client is still present (TOCTOU guard)") and of     *)
(* tryMigrateAddrMap ("Re-check that the client still exists") are there   *)
(* so that no address is left leading to a client that is gone.            *)
OnlyOwnExit ==
    [][\A v \in Members : clients'[v] = Nil =>
          \/ Stale(clients[v])
          \/ \E a \in Addr : addrMap[a] = clients[v] /\ addrMap' = [addrMap EXCEPT ![a] = Nil]]_vars

(* pendingAuth is the number of pending entries of addrMap, which it       *)
(* limits: every handler that drops an entry keeps the two together        *)
(* ("Clean up pending auth entry to prevent addrMap and pendingAuth        *)
(* counter leak", handleAuthResponse).                                     *)
PendingCounted == pendingAuth = Cardinality({a \in Addr : Pending(addrMap[a])})
=============================================================================
