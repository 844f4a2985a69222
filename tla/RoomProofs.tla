----------------------------- MODULE RoomProofs -----------------------------
(***************************************************************************)
(* Proofs about Room, for any number of addresses, players, objects and    *)
(* workers and any limits.                                                 *)
(*                                                                         *)
(* The inductive invariant IInv adds to the invariants proper that a       *)
(* handler between two critical sections holds a registered object:        *)
(* otherwise its last one could file a pending object under a foreign      *)
(* address and break PendingAtHome.  It does not say that the object is    *)
(* still a member, which is false, and which none of these invariants      *)
(* needs.  Nor does it say that players are unique, which holds only when  *)
(* responses carry the names of their registrations (RoomRefinement).      *)
(***************************************************************************)
EXTENDS Room, FiniteSetTheorems, TLAPS

(* The step leaves the object its names, its virtual IP and its state. *)
Same(c) == /\ client'[c].who = client[c].who
           /\ client'[c].vip = client[c].vip
           /\ client'[c].auth = client[c].auth

(* A job under way holds a registered client once it has looked one up,    *)
(* and knows where the packet came from and which virtual IP it names.     *)
JobOK(j) ==
    /\ j.op \in {"keepalive", "migrate", "rebind"} => j.c \in Cid /\ client[j.c].auth = "none"
    /\ j.op \in {"relay", "migrate", "rebind"} => j.at \in Addr /\ j.vip \in VIP
JobsRegistered == \A w \in Worker : JobOK(job[w])

(* What is true of the members of the room. *)
MembersInv == BitmapExact /\ HoldersConsistent

IInv == TypeOK /\ MembersInv /\ PendingAtHome /\ JobsRegistered

(* The object that stands for a collected Client is well-typed. *)
LEMMA BlankIsClient == Blank \in Client
BY ConstantsAssumption DEF Blank, Client, Age

(* Storing well-typed objects keeps the heap well-typed, and an object     *)
(* that is still referenced is stored as given.                            *)
LEMMA StoreType ==
    ASSUME NEW objs \in [Cid -> Client], Store(objs)
    PROVE  /\ client' \in [Cid -> Client]
           /\ \A c \in Cid : Referenced(c)' => client'[c] = objs[c]
BY BlankIsClient DEF Store

(* Whatever a map or a job points to is referenced, ... *)
LEMMA ReferencedBy ==
    ASSUME NEW c
    PROVE  /\ \A v \in VIP : clients[v] = c => Referenced(c)
           /\ \A a \in Addr : addrMap[a] = c => Referenced(c)
           /\ \A w \in Worker : job[w].c = c => Referenced(c)
BY DEF Referenced

(* ... also after the step. *)
LEMMA ReferencedByNext ==
    ASSUME NEW c
    PROVE  /\ \A v \in VIP : clients'[v] = c => Referenced(c)'
           /\ \A a \in Addr : addrMap'[a] = c => Referenced(c)'
           /\ \A w \in Worker : job'[w].c = c => Referenced(c)'
BY DEF Referenced

(* A guarded decrement stays in Nat. *)
LEMMA LessNat == ASSUME NEW n \in Nat, NEW k \in Nat PROVE Less(n, k) \in Nat
BY DEF Less

(* decrementIPConnCount keeps the counts in Nat, with or without an address. *)
LEMMA DecrementType ==
    ASSUME TypeOK, NEW a \in Addr \cup {Nil}
    PROVE  decrementIPConnCount(a) \in [IP -> Nat]
<1>1. CASE a = Nil
  BY <1>1 DEF decrementIPConnCount, TypeOK
<1>2. CASE a \in Addr
  <2>1. a.ip \in IP /\ a # Nil
    BY <1>2, IdentityAssumption DEF IP
  <2>2. ipConnCount \in [IP -> Nat] /\ Less(ipConnCount[a.ip], 1) \in Nat
    BY Zenon, <2>1, LessNat DEF TypeOK
  <2> QED BY <2>1, <2>2 DEF decrementIPConnCount
<1> QED BY <1>1, <1>2

-----------------------------------------------------------------------------
(* What a step does to the members, to the pending entries and to the jobs *)

(* Steps that only remove members. *)
LEMMA MembersLeave ==
    ASSUME TypeOK, TypeOK', MembersInv, NEW F \in SUBSET VIP,
           ipBitmap' = ipBitmap \ F,
           \A v \in F : clients'[v] = Nil,
           \A v \in VIP \ F : clients'[v] = clients[v],
           \A v \in VIP : clients'[v] # Nil => Same(clients[v])
    PROVE  MembersInv'
<1>1. Members' = Members \ F
  BY DEF Members
<1>2. BitmapExact'
  <2>1. F \cap Reserved = {}
    BY ConstantsAssumption DEF VIP, Reserved
  <2> QED BY <1>1, <2>1 DEF BitmapExact, MembersInv
<1>3. \A v \in Members' : clients'[v] = clients[v] /\ v \in Members /\ Same(clients[v])
  BY <1>1 DEF Members
<1>4. HoldersConsistent'
  BY <1>3 DEF HoldersConsistent, MembersInv, Registered, Same
<1> QED BY <1>2, <1>4 DEF MembersInv

(* Steps that leave them alone. *)
LEMMA MembersStay ==
    ASSUME MembersInv, clients' = clients, ipBitmap' = ipBitmap,
           \A v \in VIP : clients[v] # Nil => Same(clients[v])
    PROVE  MembersInv'
<1>1. Members' = Members
  BY DEF Members
<1>2. \A v \in Members : Same(clients[v])
  BY DEF Members
<1> QED BY <1>1, <1>2 DEF MembersInv, BitmapExact, HoldersConsistent, Registered, Same

(* The step that adds one. *)
LEMMA MemberJoins ==
    ASSUME TypeOK, TypeOK', MembersInv, NEW v \in VIP, NEW c \in Cid,
           clients[v] = Nil,
           clients' = [clients EXCEPT ![v] = c],
           ipBitmap' = ipBitmap \cup {v},
           client'[c].vip = v, client'[c].auth = "none",
           \A u \in Members : Same(clients[u])
    PROVE  MembersInv'
<1>0. Nil # c /\ clients'[v] = c
  BY IdentityAssumption DEF TypeOK
<1>1. Members' = Members \cup {v}
  BY <1>0 DEF Members, TypeOK
<1>2. BitmapExact'
  BY <1>1 DEF BitmapExact, MembersInv
<1>3. \A u \in Members : clients'[u] = clients[u] /\ u # v
  BY DEF Members, TypeOK
<1>4. HoldersConsistent'
  BY <1>0, <1>1, <1>3 DEF HoldersConsistent, MembersInv, Registered, Same
<1> QED BY <1>2, <1>4 DEF MembersInv

(* An entry of addrMap is kept, dropped, registered or at home. *)
LEMMA PendingStays ==
    ASSUME PendingAtHome,
           \A a \in Addr :
              \/ addrMap'[a] = Nil
              \/ client'[addrMap'[a]].auth = "none"
              \/ client'[addrMap'[a]].addr = a
              \/ /\ addrMap'[a] = addrMap[a]
                 /\ client'[addrMap[a]].auth = client[addrMap[a]].auth
                 /\ client'[addrMap[a]].addr = client[addrMap[a]].addr
    PROVE  PendingAtHome'
BY DEF PendingAtHome, Pending

(* A step that keeps the jobs keeps their clients. *)
LEMMA JobsStay ==
    ASSUME TypeOK, JobsRegistered,
           \A w \in Worker : job'[w] = job[w] \/ job'[w] = Idle,
           \A c \in Cid : Referenced(c) /\ Referenced(c)' => client'[c].auth = client[c].auth
    PROVE  JobsRegistered'
<1> SUFFICES ASSUME NEW w \in Worker PROVE JobOK(job[w])'
  BY DEF JobsRegistered
<1>1. CASE job'[w] = Idle
  BY <1>1 DEF Idle, JobOK
<1>2. CASE job'[w] = job[w]
  <2>1. Referenced(job[w].c) /\ Referenced(job[w].c)'
    BY <1>2, ReferencedBy, ReferencedByNext
  <2> QED BY <1>2, <2>1 DEF JobsRegistered, JobOK
<1> QED BY <1>1, <1>2

-----------------------------------------------------------------------------
(* The steps preserve the invariant *)

(* A step that keeps the members, as long as every object in use keeps its *)
(* names, its virtual IP and its state, and every entry of addrMap is      *)
(* registered or at home.                                                  *)
LEMMA InvMembersKept ==
    ASSUME IInv, NEW objs \in [Cid -> Client], Store(objs),
           clients' = clients, ipBitmap' = ipBitmap, UNCHANGED cleanup,
           addrMap' \in [Addr -> Cid \cup {Nil}], job' \in [Worker -> Job],
           pendingAuth' \in Nat, ipConnCount' \in [IP -> Nat],
           \A w \in Worker : job'[w] = job[w] \/ job'[w] = Idle,
           \A d \in Cid : Referenced(d) =>
               /\ objs[d].who = client[d].who /\ objs[d].vip = client[d].vip
               /\ objs[d].auth = client[d].auth,
           \A b \in Addr : addrMap'[b] # Nil =>
               objs[addrMap'[b]].auth = "none" \/ objs[addrMap'[b]].addr = b
    PROVE  IInv'
<1>1. TypeOK /\ client \in [Cid -> Client]
  BY DEF IInv, TypeOK
<1>2. client' \in [Cid -> Client] /\ \A c \in Cid : Referenced(c)' => client'[c] = objs[c]
  BY StoreType
<1>3. TypeOK'
  BY <1>1, <1>2 DEF TypeOK, cleanup
<1>4. MembersInv'
  <2>1. \A v \in VIP : clients[v] # Nil => Same(clients[v])
    BY SMTT(40), <1>1, <1>2, ReferencedBy, ReferencedByNext DEF TypeOK, Same
  <2> QED BY <2>1, MembersStay DEF IInv
<1>5. PendingAtHome'
  <2>1. \A b \in Addr : addrMap'[b] # Nil => client'[addrMap'[b]] = objs[addrMap'[b]]
    BY <1>2, ReferencedByNext
  <2> QED BY <2>1, PendingStays DEF IInv
<1>6. JobsRegistered'
  BY <1>1, <1>2, JobsStay DEF IInv
<1> QED BY <1>3, <1>4, <1>5, <1>6 DEF IInv

(* PendingAtHome, said of every entry. *)
LEMMA EntriesHome ==
    ASSUME IInv
    PROVE  \A b \in Addr : addrMap[b] # Nil =>
               /\ addrMap[b] \in Cid /\ Referenced(addrMap[b])
               /\ client[addrMap[b]].auth = "none" \/ client[addrMap[b]].addr = b
<1>1. \A b \in Addr : addrMap[b] # Nil => addrMap[b] \in Cid /\ client[addrMap[b]] \in Client
  BY DEF IInv, TypeOK
<1> QED BY <1>1, ReferencedBy DEF IInv, PendingAtHome, Pending, Client

(* cleanupPendingAuth drops one entry of addrMap. *)
LEMMA InvCleanupPendingAuth ==
    ASSUME IInv, NEW k \in Addr, addrMap[k] # Nil, cleanupPendingAuth(k)
    PROVE  IInv'
<1>1. TypeOK /\ client \in [Cid -> Client] /\ addrMap[k] \in Cid
  BY DEF IInv, TypeOK
<1>2. ipConnCount' \in [IP -> Nat]
  <2>1. client[addrMap[k]].addr \in Addr \cup {Nil}
    BY <1>1 DEF Client
  <2> QED BY <1>1, <2>1, DecrementType DEF cleanupPendingAuth
<1>3. pendingAuth' \in Nat
  BY <1>1, LessNat DEF cleanupPendingAuth, TypeOK
<1>4. addrMap' \in [Addr -> Cid \cup {Nil}] /\ \A b \in Addr : addrMap'[b] # Nil => addrMap'[b] = addrMap[b]
  BY <1>1 DEF cleanupPendingAuth, TypeOK
<1>5. Store(client) /\ UNCHANGED <<clients, ipBitmap, job, cleanup>> /\ job' \in [Worker -> Job]
  BY <1>1 DEF cleanupPendingAuth, TypeOK
<1> QED BY <1>1, <1>2, <1>3, <1>4, <1>5, EntriesHome, InvMembersKept

(* SetLastSeen changes an age only. *)
LEMMA InvTouch ==
    ASSUME IInv, NEW c \in Cid, client[c].auth = "none", Touch(c)
    PROVE  IInv'
<1>1. TypeOK /\ client \in [Cid -> Client]
  BY DEF IInv, TypeOK
<1>2. client' = [client EXCEPT ![c].age = 0] /\ UNCHANGED <<room, job, cleanup>>
  BY DEF Touch
<1>3. \A d \in Cid : /\ client'[d].who = client[d].who /\ client'[d].vip = client[d].vip
                     /\ client'[d].auth = client[d].auth /\ client'[d].addr = client[d].addr
  BY <1>1, <1>2 DEF Client
<1>4. TypeOK'
  <2>1. client' \in [Cid -> Client]
    BY <1>1, <1>2, ConstantsAssumption DEF Client, Age
  <2> QED BY <1>1, <1>2, <2>1 DEF TypeOK, room, cleanup
<1>5. clients' = clients /\ addrMap' = addrMap /\ ipBitmap' = ipBitmap /\ job' = job
  BY <1>2 DEF room
<1>6. MembersInv'
  <2>1. \A v \in VIP : clients'[v] # Nil => Same(clients[v])
    BY <1>1, <1>3, <1>5 DEF TypeOK, Same
  <2> QED BY <1>5, <2>1, MembersStay DEF IInv
<1>7. PendingAtHome'
  BY <1>1, <1>3, <1>5, PendingStays DEF IInv, TypeOK
<1>8. JobsRegistered'
  BY <1>1, <1>3, <1>5, JobsStay DEF IInv
<1> QED BY <1>4, <1>6, <1>7, <1>8 DEF IInv

(* doRegisterClient, whatever its caller has done to addrMap and to the    *)
(* objects before, as long as that is well-formed.                         *)
LEMMA InvDoRegisterClient ==
    ASSUME IInv, NEW p \in Player \cup {Nil}, NEW a \in Addr,
           NEW am \in [Addr -> Cid \cup {Nil}], NEW objs \in [Cid -> Client],
           doRegisterClient(p, a, am, objs),
           \A d \in Cid : /\ objs[d].who = client[d].who /\ objs[d].vip = client[d].vip
                          /\ objs[d].auth = client[d].auth,
           \A b \in Addr \ {a} : am[b] # Nil =>
               Referenced(am[b]) /\ (objs[am[b]].auth = "none" \/ objs[am[b]].addr = b),
           UNCHANGED <<job, cleanup>>, pendingAuth' \in Nat, ipConnCount' \in [IP -> Nat]
    PROVE  IInv'
<1>1. TypeOK /\ client \in [Cid -> Client]
  BY DEF IInv, TypeOK
<1> PICK v \in VIP, c \in Fresh :
        /\ nextAvailableIP(v)
        /\ ipBitmap' = markIPUsed(ipBitmap, v)
        /\ clients' = [clients EXCEPT ![v] = c]
        /\ addrMap' = [am EXCEPT ![a] = c]
        /\ Store([objs EXCEPT ![c] =
                 [who |-> p, vip |-> v, addr |-> a, auth |-> "none", age |-> 0]])
  BY Zenon DEF doRegisterClient
<1> DEFINE new == [who |-> p, vip |-> v, addr |-> a, auth |-> "none", age |-> 0]
           objs2 == [objs EXCEPT ![c] = new]
<1>2. c \in Cid /\ ~Referenced(c) /\ c # Nil
  BY IdentityAssumption DEF Fresh
<1>3. clients[v] = Nil
  BY DEF nextAvailableIP, FreeVIPs, IInv, MembersInv, BitmapExact, Members
<1>4. new \in Client
  BY ConstantsAssumption DEF Client, Age
<1>5. objs2 \in [Cid -> Client] /\ objs2[c] = new /\ \A d \in Cid \ {c} : objs2[d] = objs[d]
  BY <1>2, <1>4
<1>6. client' \in [Cid -> Client] /\ \A d \in Cid : Referenced(d)' => client'[d] = objs2[d]
  <2> HIDE DEF objs2
  <2> SUFFICES Store(objs2)
    BY <1>5, StoreType
  <2> QED BY DEF objs2
<1> HIDE DEF objs2
<1>7. TypeOK'
  <2>1. ipBitmap' \subseteq 0 .. LastOctet
    BY <1>1, ConstantsAssumption DEF TypeOK, markIPUsed, VIP
  <2> QED BY ZenonT(40), <1>1, <1>2, <1>6, <2>1 DEF TypeOK, cleanup
<1>8. client'[c] = new
  <2>1. Referenced(c)'
    BY <1>1, ReferencedByNext DEF TypeOK
  <2> QED BY <1>2, <1>5, <1>6, <2>1
<1>9. \A d \in Cid : Referenced(d) /\ Referenced(d)' =>
          Same(d) /\ client'[d].addr = objs[d].addr
  BY SMTT(40), <1>2, <1>5, <1>6 DEF Same
<1>10. MembersInv'
  <2>1. \A u \in Members : u # v /\ Referenced(clients[u]) /\ Referenced(clients[u])'
    BY <1>1, <1>3, ReferencedBy, ReferencedByNext DEF Members, TypeOK
  <2>2. \A u \in Members : Same(clients[u])
    BY ZenonT(40), <1>1, <1>9, <2>1 DEF Members, TypeOK
  <2>4. client'[c].vip = v /\ client'[c].auth = "none"
    BY SMTT(60), <1>8
  <2>5. ipBitmap' = ipBitmap \cup {v}
    BY Zenon DEF markIPUsed
  <2> QED BY ZenonT(40), <1>1, <1>2, <1>3, <1>7, <2>2, <2>4, <2>5, MemberJoins DEF IInv
<1>11. PendingAtHome'
  <2>1. addrMap'[a] = c /\ client'[c].auth = "none"
    BY <1>8
  <2>2. ASSUME NEW b \in Addr \ {a}, am[b] # Nil
        PROVE  client'[am[b]].auth = "none" \/ client'[am[b]].addr = b
    <3>1. am[b] \in Cid /\ Referenced(am[b]) /\ addrMap'[b] = am[b]
      BY SMTT(40), <2>2
    <3>2. Referenced(am[b])'
      BY SMTT(40), <3>1, ReferencedByNext
    <3>3. am[b] # c
      BY SMTT(40), <3>1, <1>2
    <3>4. client'[am[b]] = objs[am[b]]
      BY SMTT(40), <3>1, <3>2, <3>3, <1>5, <1>6
    <3> QED BY SMTT(40), <3>4, <2>2
  <2>3. \A b \in Addr \ {a} : addrMap'[b] = am[b]
    BY SMTT(40)
  <2> QED BY <2>1, <2>2, <2>3, PendingStays DEF IInv
<1>12. JobsRegistered'
  BY <1>1, <1>9, JobsStay DEF IInv, Same
<1> QED BY <1>7, <1>10, <1>11, <1>12 DEF IInv

-----------------------------------------------------------------------------
(* handleRegister *)

(* A registration that fails gives back the virtual IP it had reserved. *)
LEMMA FailsKeepsBitmap ==
    ASSUME doRegisterClientFails
    PROVE  ipBitmap' = ipBitmap
BY DEF doRegisterClientFails, markIPUsed, markIPFree, nextAvailableIP, FreeVIPs

(* The counters after the drop of a pending entry. *)
LEMMA AfterDropType ==
    ASSUME IInv, NEW a \in Addr
    PROVE  /\ pendingAfterDrop(a) \in Nat
           /\ connAfterDrop(a) \in [IP -> Nat]
           /\ [connAfterDrop(a) EXCEPT ![a.ip] = @ + 1] \in [IP -> Nat]
<1>1. TypeOK /\ a.ip \in IP
  BY DEF IInv, IP
<1>2. pendingAfterDrop(a) \in Nat
  BY <1>1, LessNat DEF pendingAfterDrop, TypeOK
<1>3. connAfterDrop(a) \in [IP -> Nat]
  <2>1. CASE Pending(addrMap[a])
    <3>1. client[addrMap[a]].addr \in Addr \cup {Nil}
      BY <1>1, <2>1 DEF TypeOK, Pending, Client
    <3> QED BY <1>1, <2>1, <3>1, DecrementType DEF connAfterDrop
  <2>2. CASE ~Pending(addrMap[a])
    BY <1>1, <2>2 DEF connAfterDrop, TypeOK
  <2> QED BY <2>1, <2>2
<1> QED BY <1>1, <1>2, <1>3

(* A placeholder gets an address, and so an entry of addrMap. *)
LEMMA InvResolveRestoredClient ==
    ASSUME IInv, NEW a \in Addr, NEW p \in Player, resolveRestoredClient(a, p)
    PROVE  IInv'
<1>1. TypeOK /\ client \in [Cid -> Client]
  BY DEF IInv, TypeOK
<1> PICK v \in Placeholders(p) :
        /\ addrMap' = [addrMap EXCEPT ![a] = clients[v]]
        /\ pendingAuth' = pendingAfterDrop(a)
        /\ ipConnCount' = [connAfterDrop(a) EXCEPT ![a.ip] = @ + 1]
        /\ UNCHANGED <<clients, ipBitmap, job, cleanup>>
        /\ Store([client EXCEPT ![clients[v]].addr = a, ![clients[v]].age = 0])
  BY Zenon DEF resolveRestoredClient
<1> DEFINE c == clients[v]
           objs == [client EXCEPT ![c].addr = a, ![c].age = 0]
<1>2. c \in Cid
  BY <1>1 DEF Placeholders, Members, TypeOK
<1>3. objs \in [Cid -> Client]
  BY <1>1, <1>2, ConstantsAssumption DEF Client, Age
<1>4. \A d \in Cid : /\ objs[d].who = client[d].who /\ objs[d].vip = client[d].vip
                     /\ objs[d].auth = client[d].auth
                     /\ d # c => objs[d] = client[d]
  BY <1>1, <1>2 DEF Client
<1>5. objs[c].auth = "none"
  BY Zenon, <1>2, <1>4 DEF Placeholders, Registered
<1>6. \A b \in Addr : addrMap'[b] = IF b = a THEN c ELSE addrMap[b]
  BY <1>1 DEF TypeOK
<1>7. addrMap' \in [Addr -> Cid \cup {Nil}] /\ job' \in [Worker -> Job]
  BY <1>1, <1>2 DEF TypeOK
<1>8. Store(objs)
  OBVIOUS
<1>9. \A b \in Addr : addrMap'[b] # Nil =>
         objs[addrMap'[b]].auth = "none" \/ objs[addrMap'[b]].addr = b
  <2> HIDE DEF objs, c
  <2> QED BY <1>4, <1>5, <1>6, EntriesHome
<1> HIDE DEF objs
<1> QED BY <1>3, <1>4, <1>7, <1>8, <1>9, AfterDropType, InvMembersKept

(* A room without password registers at once. *)
LEMMA InvRegisterOpen ==
    ASSUME IInv, NEW a \in Addr, NEW p \in Player, registerOpen(a, p)
    PROVE  IInv'
<1>1. client \in [Cid -> Client] /\ addrMap \in [Addr -> Cid \cup {Nil}]
  BY DEF IInv, TypeOK
<1>2. doRegisterClient(p, a, addrMap, client)
  BY DEF registerOpen
<1>3. UNCHANGED <<job, cleanup>> /\ pendingAuth' \in Nat /\ ipConnCount' \in [IP -> Nat]
  BY AfterDropType DEF registerOpen
<1> QED BY <1>1, <1>2, <1>3, EntriesHome, InvDoRegisterClient

(* A registration that fails after the checks drops the pending entry. *)
LEMMA InvRegisterExhausted ==
    ASSUME IInv, NEW a \in Addr, NEW p \in Player, registerExhausted(a, p)
    PROVE  IInv'
<1>1. client \in [Cid -> Client] /\ addrMap \in [Addr -> Cid \cup {Nil}] /\ job \in [Worker -> Job]
  BY DEF IInv, TypeOK
<1>2. /\ addrMap' \in [Addr -> Cid \cup {Nil}]
      /\ \A b \in Addr : addrMap'[b] # Nil => addrMap'[b] = addrMap[b]
  BY <1>1 DEF registerExhausted
<1>3. /\ UNCHANGED <<clients, ipBitmap, job, cleanup>> /\ Store(client)
      /\ pendingAuth' \in Nat /\ ipConnCount' \in [IP -> Nat]
  BY AfterDropType, FailsKeepsBitmap DEF registerExhausted
<1> QED BY <1>1, <1>2, <1>3, EntriesHome, InvMembersKept

(* A challenge adds a pending entry, at the address it is sent to. *)
LEMMA InvDoSendAuthChallenge ==
    ASSUME IInv, NEW a \in Addr, NEW p \in Player, doSendAuthChallenge(a, p)
    PROVE  IInv'
<1>1. client \in [Cid -> Client] /\ addrMap \in [Addr -> Cid \cup {Nil}] /\ job \in [Worker -> Job]
  BY DEF IInv, TypeOK
<1> DEFINE new == [who |-> p, vip |-> Nil, addr |-> a, auth |-> "challenge", age |-> 0]
<1> PICK c \in Fresh :
        /\ addrMap' = [addrMap EXCEPT ![a] = c]
        /\ pendingAuth' = pendingAfterDrop(a) + 1
        /\ ipConnCount' = [connAfterDrop(a) EXCEPT ![a.ip] = @ + 1]
        /\ UNCHANGED <<clients, ipBitmap, job, cleanup>>
        /\ Store([client EXCEPT ![c] = new])
  BY Zenon DEF doSendAuthChallenge
<1> DEFINE objs == [client EXCEPT ![c] = new]
<1>2. c \in Cid /\ ~Referenced(c)
  BY DEF Fresh
<1>3. new \in Client /\ new.addr = a
  BY ConstantsAssumption DEF Client, Age
<1>4. objs \in [Cid -> Client] /\ objs[c] = new /\ \A d \in Cid \ {c} : objs[d] = client[d]
  BY <1>1, <1>2, <1>3
<1>5. Store(objs)
  OBVIOUS
<1> HIDE DEF objs, new
<1>6. addrMap' \in [Addr -> Cid \cup {Nil}] /\ \A b \in Addr : addrMap'[b] = IF b = a THEN c ELSE addrMap[b]
  BY <1>1, <1>2
<1>7. \A b \in Addr : addrMap'[b] # Nil =>
         objs[addrMap'[b]].auth = "none" \/ objs[addrMap'[b]].addr = b
  BY <1>2, <1>3, <1>4, <1>6, EntriesHome
<1>8. pendingAuth' \in Nat /\ ipConnCount' \in [IP -> Nat]
  BY AfterDropType
<1>9. \A d \in Cid : Referenced(d) => objs[d] = client[d]
  BY <1>2, <1>4
<1> QED BY <1>1, <1>4, <1>5, <1>6, <1>7, <1>8, <1>9, InvMembersKept

(* The other outcomes of handleRegister. *)
LEMMA InvRegisterOther ==
    ASSUME IInv, NEW a \in Addr, NEW p \in Player, registerOther(a, p)
    PROVE  IInv'
<1>1. addrMap[a] \in Cid \cup {Nil}
  BY DEF IInv, TypeOK
<1>2. CASE registerKnown(a)
  BY <1>1, <1>2, InvTouch DEF registerKnown, Registered
<1>3. CASE registerExhausted(a, p)
  BY <1>3, InvRegisterExhausted
<1>4. CASE doSendAuthChallenge(a, p)
  BY <1>4, InvDoSendAuthChallenge
<1>5. CASE registerRefused(a, p)
  BY <1>5, InvCleanupPendingAuth DEF registerRefused, Pending
<1> QED BY <1>2, <1>3, <1>4, <1>5 DEF registerOther

-----------------------------------------------------------------------------
(* handleAuthResponse *)

(* The entry a response is matched with is pending. *)
LEMMA AuthEntriesPending ==
    ASSUME IInv, NEW a \in Addr, NEW p \in Player, NEW k \in authEntries(a, p)
    PROVE  /\ k \in Addr /\ Pending(addrMap[k]) /\ addrMap[k] \in Cid
           /\ client[addrMap[k]].addr = k
           /\ k # a => ~Pending(addrMap[a])
BY SMTT(40) DEF authEntries, Pending, IInv, TypeOK, PendingAtHome

(* Moving a pending object keeps everything in order. *)
LEMMA AuthMovedOK ==
    ASSUME IInv, NEW a \in Addr, NEW p \in Player, NEW k \in authEntries(a, p)
    PROVE  LET am == authMoved(a, k).am
               objs == authMoved(a, k).objs
           IN  /\ am \in [Addr -> Cid \cup {Nil}]
               /\ objs \in [Cid -> Client]
               /\ \A d \in Cid : /\ objs[d].who = client[d].who
                                 /\ objs[d].vip = client[d].vip
                                 /\ objs[d].auth = client[d].auth
               /\ \A b \in Addr : am[b] # Nil =>
                     Referenced(am[b]) /\ (objs[am[b]].auth = "none" \/ objs[am[b]].addr = b)
<1>1. client \in [Cid -> Client] /\ addrMap \in [Addr -> Cid \cup {Nil}]
  BY DEF IInv, TypeOK
<1>2. k \in Addr /\ Pending(addrMap[k]) /\ addrMap[k] \in Cid /\ client[addrMap[k]].addr = k
  BY AuthEntriesPending
<1>3. CASE k = a
  <2>1. authMoved(a, k) = [am |-> [addrMap EXCEPT ![k] = Nil], objs |-> client]
    BY SMTT(40), <1>3 DEF authMoved
  <2> QED BY <1>1, <1>2, <2>1, EntriesHome
<1>4. CASE k # a
  <2> DEFINE c == addrMap[k]
             am == [addrMap EXCEPT ![k] = Nil, ![a] = c]
             objs == [client EXCEPT ![c].addr = a]
  <2>1. authMoved(a, k).am = am /\ authMoved(a, k).objs = objs
    BY <1>4 DEF authMoved
  <2>2. am \in [Addr -> Cid \cup {Nil}] /\ \A b \in Addr :
            am[b] = IF b = a THEN c ELSE IF b = k THEN Nil ELSE addrMap[b]
    BY <1>1, <1>2, <1>4
  <2>3. objs \in [Cid -> Client] /\ objs[c].addr = a
    BY <1>1, <1>2 DEF Client
  <2>4. \A d \in Cid : /\ objs[d].who = client[d].who /\ objs[d].vip = client[d].vip
                       /\ objs[d].auth = client[d].auth /\ (d # c => objs[d] = client[d])
    BY <1>1, <1>2 DEF Client
  <2>5. \A b \in Addr : b # k => addrMap[b] # c
    BY <1>2 DEF IInv, PendingAtHome
  <2>6. Referenced(c) /\ c # Nil
    BY <1>2, ReferencedBy DEF Pending
  <2> HIDE DEF am, objs, c
  <2>7. ASSUME NEW b \in Addr, am[b] # Nil
        PROVE  Referenced(am[b]) /\ (objs[am[b]].auth = "none" \/ objs[am[b]].addr = b)
    <3>1. CASE b = a
      BY <2>2, <2>3, <2>6, <3>1
    <3>2. CASE b # a /\ b # k
      <4>1. am[b] = addrMap[b] /\ am[b] # c
        BY SMTT(40), <2>2, <2>5, <3>2
      <4> QED BY <2>4, <2>7, <4>1, EntriesHome
    <3> QED BY <2>2, <2>7, <3>1, <3>2
  <2> QED BY <2>1, <2>2, <2>3, <2>4, <2>7
<1> QED BY Zenon, <1>3, <1>4

(* An accepted response registers the player. *)
LEMMA InvAuthAccepted ==
    ASSUME IInv, NEW a \in Addr, NEW p \in Player, authAccepted(a, p)
    PROVE  IInv'
<1>1. TypeOK
  BY DEF IInv
<1> PICK k \in authEntries(a, p) :
        /\ pendingAuth' = Less(pendingAuth, 1)
        /\ UNCHANGED <<ipConnCount, job, cleanup>>
        /\ doRegisterClient(client[addrMap[k]].who, a, authMoved(a, k).am, authMoved(a, k).objs)
  BY DEF authAccepted
<1>2. pendingAuth' \in Nat /\ ipConnCount' \in [IP -> Nat]
  BY SMTT(40), <1>1, LessNat DEF TypeOK
<1>3. client[addrMap[k]].who \in Player \cup {Nil}
  BY <1>1, AuthEntriesPending DEF TypeOK, Client
<1> QED BY <1>2, <1>3, AuthMovedOK, InvDoRegisterClient

(* An accepted response whose registration fails leaves a pending object at its new address. *)
LEMMA InvAuthExhausted ==
    ASSUME IInv, NEW a \in Addr, NEW p \in Player, authExhausted(a, p)
    PROVE  IInv'
<1>1. TypeOK /\ job \in [Worker -> Job]
  BY DEF IInv, TypeOK
<1> PICK k \in authEntries(a, p) :
        /\ addrMap' = authMoved(a, k).am
        /\ pendingAuth' = Less(pendingAuth, 1)
        /\ UNCHANGED <<clients, ipBitmap, ipConnCount, job, cleanup>>
        /\ Store(authMoved(a, k).objs)
  BY FailsKeepsBitmap DEF authExhausted
<1>2. pendingAuth' \in Nat /\ ipConnCount' \in [IP -> Nat]
  BY SMTT(40), <1>1, LessNat DEF TypeOK
<1> DEFINE objs == authMoved(a, k).objs
<1>3. /\ addrMap' \in [Addr -> Cid \cup {Nil}] /\ objs \in [Cid -> Client]
      /\ \A d \in Cid : /\ objs[d].who = client[d].who /\ objs[d].vip = client[d].vip
                        /\ objs[d].auth = client[d].auth
      /\ \A b \in Addr : addrMap'[b] # Nil =>
            objs[addrMap'[b]].auth = "none" \/ objs[addrMap'[b]].addr = b
  BY ZenonT(40), AuthMovedOK
<1>4. Store(objs) /\ clients' = clients /\ ipBitmap' = ipBitmap /\ job' = job /\ UNCHANGED cleanup
  OBVIOUS
<1> HIDE DEF objs
<1> QED BY <1>1, <1>2, <1>3, <1>4, InvMembersKept

(* The other outcomes of handleAuthResponse. *)
LEMMA InvAuthOther ==
    ASSUME IInv, NEW a \in Addr, NEW p \in Player, authOther(a, p)
    PROVE  IInv'
<1>1. CASE authMismatch(a, p)
  BY <1>1, InvCleanupPendingAuth DEF authMismatch
<1>2. CASE authRejected(a, p)
  BY SMTT(40), <1>2, AuthEntriesPending, InvCleanupPendingAuth DEF authRejected, Pending
<1>3. CASE authRefused(a, p)
  <2> PICK k \in authEntries(a, p) :
        /\ ipConnCount' = decrementIPConnCount(client[addrMap[k]].addr)
        /\ UNCHANGED <<clients, addrMap, client, ipBitmap, pendingAuth, job, cleanup>>
    BY ZenonT(40), <1>3 DEF authRefused
  <2>1. ipConnCount' \in [IP -> Nat]
    <3>1. client[addrMap[k]].addr \in Addr \cup {Nil}
      BY SMTT(40), AuthEntriesPending
    <3> QED BY <3>1, DecrementType DEF IInv
  <2> QED BY ZenonT(40), <2>1 DEF IInv, TypeOK, MembersInv, BitmapExact, HoldersConsistent,
                      Members, Registered, PendingAtHome, Pending, JobsRegistered, JobOK, cleanup
<1>4. CASE authExhausted(a, p)
  BY <1>4, InvAuthExhausted
<1> QED BY <1>1, <1>2, <1>3, <1>4 DEF authOther

-----------------------------------------------------------------------------
(* Keepalive and disconnect *)

(* A disconnect frees what the object names, which another client may hold by now. *)
LEMMA InvHandleDisconnect ==
    ASSUME IInv, NEW a \in Addr, handleDisconnect(a)
    PROVE  IInv'
<1>1. CASE Pending(addrMap[a]) /\ cleanupPendingAuth(a)
  BY <1>1, InvCleanupPendingAuth DEF Pending
<1>2. CASE disconnectMember(a)
  <2> DEFINE c == addrMap[a]
             vip == client[c].vip
             F == {vip} \cap VIP
  <2>1. TypeOK /\ client \in [Cid -> Client] /\ c \in Cid
    BY <1>2 DEF IInv, TypeOK, disconnectMember, Registered
  <2>2. vip \in VIP \cup {Nil} /\ client[c].addr \in Addr \cup {Nil}
    BY <2>1 DEF Client
  <2>3. /\ ipBitmap' = ipBitmap \ {vip} /\ clients' = [clients EXCEPT ![vip] = Nil]
        /\ ipConnCount' = decrementIPConnCount(client[c].addr)
        /\ addrMap' = [addrMap EXCEPT ![a] = Nil]
        /\ UNCHANGED <<pendingAuth, job, cleanup>> /\ Store(client)
    BY <1>2 DEF disconnectMember, markIPFree
  <2>4. client' \in [Cid -> Client] /\ \A d \in Cid : Referenced(d)' => client'[d] = client[d]
    BY <2>1, <2>3, StoreType
  <2>5. ipConnCount' \in [IP -> Nat]
    BY SMTT(40), <2>1, <2>2, <2>3, DecrementType
  <2>6. TypeOK'
    BY Zenon, <2>1, <2>2, <2>3, <2>4, <2>5 DEF TypeOK, cleanup
  <2>7. /\ \A v \in F : clients'[v] = Nil
        /\ \A v \in VIP \ F : clients'[v] = clients[v]
    BY <2>1, <2>3 DEF TypeOK
  <2>8. ipBitmap' = ipBitmap \ F
    BY Zenon, <2>1, <2>2, <2>3, IdentityAssumption DEF TypeOK
  <2>9. MembersInv'
    <3>1. \A v \in VIP : clients'[v] # Nil => clients'[v] = clients[v] /\ Same(clients[v])
      BY ZenonT(40), <2>1, <2>4, <2>7, ReferencedByNext DEF TypeOK, Same
    <3> QED BY Zenon, <2>1, <2>6, <2>7, <2>8, <3>1, MembersLeave DEF IInv
  <2>10. PendingAtHome'
    <3>1. \A b \in Addr : addrMap'[b] = Nil \/
            (addrMap'[b] = addrMap[b] /\ client'[addrMap[b]] = client[addrMap[b]])
      BY <2>1, <2>3, <2>4, ReferencedByNext DEF TypeOK
    <3> QED BY <3>1, PendingStays DEF IInv
  <2>11. JobsRegistered'
    BY SMTT(40), <2>1, <2>3, <2>4, JobsStay DEF IInv
  <2> QED BY <2>6, <2>9, <2>10, <2>11 DEF IInv
<1> QED BY <1>1, <1>2 DEF handleDisconnect

-----------------------------------------------------------------------------
(* Migration and rebind *)

(* A worker remembers what it has looked up. *)
LEMMA InvLookup ==
    ASSUME IInv, NEW w \in Worker, NEW j \in Job, JobOK(j), job' = [job EXCEPT ![w] = j],
           UNCHANGED <<room, client, cleanup>>
    PROVE  IInv'
<1>1. TypeOK
  BY SMTT(40) DEF IInv
<1>2. UNCHANGED <<clients, addrMap, client, ipBitmap, pendingAuth, ipConnCount, staleClients, staleAuths>>
  BY SMTT(40) DEF room, cleanup
<1>3. TypeOK'
  BY SMTT(40), <1>1, <1>2 DEF TypeOK
<1>4. MembersInv' /\ PendingAtHome'
  BY SMTT(40), <1>2 DEF IInv, MembersInv, BitmapExact, HoldersConsistent, Members,
              Registered, PendingAtHome, Pending
<1>5. JobsRegistered'
  <2>1. \A u \in Worker : job'[u] = IF u = w THEN j ELSE job[u]
    BY SMTT(40), <1>1 DEF TypeOK
  <2> QED BY <1>2, <2>1 DEF IInv, JobsRegistered, JobOK
<1> QED BY <1>3, <1>4, <1>5 DEF IInv

(* The holder of a virtual IP is a registered client. *)
LEMMA HolderRegistered ==
    ASSUME IInv, NEW v \in VIP, clients[v] # Nil
    PROVE  clients[v] \in Cid /\ client[clients[v]].auth = "none"
BY DEF IInv, TypeOK, MembersInv, HoldersConsistent, Members, Registered

(* A keepalive remembers the client at its address, ... *)
LEMMA InvKeepAliveLookup ==
    ASSUME IInv, NEW w \in Worker, NEW a \in Addr, keepAliveLookup(w, a)
    PROVE  IInv'
<1> DEFINE j == [Idle EXCEPT !.op = "keepalive", !.c = addrMap[a]]
<1>1. addrMap[a] \in Cid /\ client[addrMap[a]].auth = "none"
  BY DEF keepAliveLookup, Registered, IInv, TypeOK
<1>2. j \in Job /\ JobOK(j)
  BY <1>1 DEF Job, JobOK, Idle
<1>3. job' = [job EXCEPT ![w] = j] /\ UNCHANGED <<room, client, cleanup>>
  BY DEF keepAliveLookup, beginJob
<1> HIDE DEF j
<1> QED BY Zenon, <1>2, <1>3, InvLookup

(* ... a relay packet its address and its source, ... *)
LEMMA InvRelayLookup ==
    ASSUME IInv, NEW w \in Worker, NEW a \in Addr, NEW v \in VIP, relayLookup(w, a, v)
    PROVE  IInv'
<1> DEFINE j == [Idle EXCEPT !.op = "relay", !.at = a, !.vip = v]
<1>1. j \in Job /\ JobOK(j)
  BY DEF Job, JobOK, Idle
<1>2. job' = [job EXCEPT ![w] = j] /\ UNCHANGED <<room, client, cleanup>>
  BY DEF relayLookup, beginJob
<1> HIDE DEF j
<1> QED BY Zenon, <1>1, <1>2, InvLookup

(* ... and a rebind the client and where it is now. *)
LEMMA InvRebindLookup ==
    ASSUME IInv, NEW w \in Worker, NEW a \in Addr, NEW v \in VIP, rebindLookup(w, a, v)
    PROVE  IInv'
<1> DEFINE j == [op |-> "rebind", at |-> a, vip |-> v, c |-> clients[v],
                 old |-> client[clients[v]].addr]
<1>1. clients[v] \in Cid /\ client[clients[v]].auth = "none"
  BY HolderRegistered DEF rebindLookup
<1>2. client[clients[v]].addr \in Addr \cup {Nil}
  BY <1>1 DEF IInv, TypeOK, Client
<1>3. j \in Job /\ JobOK(j)
  BY <1>1, <1>2 DEF Job, JobOK
<1>4. job' = [job EXCEPT ![w] = j] /\ UNCHANGED <<room, client, cleanup>>
  BY DEF rebindLookup, beginJob
<1> HIDE DEF j
<1> QED BY Zenon, <1>3, <1>4, InvLookup

(* The second phase moves a registered object, be it still a member or not. *)
LEMMA InvMoveClient ==
    ASSUME IInv, NEW w \in Worker, job[w].op \in {"migrate", "rebind"}, NEW old,
           job' = [job EXCEPT ![w] = Idle], moveClient(job[w].c, old, job[w].at)
    PROVE  IInv'
<1> DEFINE c == job[w].c
           at == job[w].at
           objs == [client EXCEPT ![c].addr = at, ![c].age = 0]
<1>1. TypeOK /\ client \in [Cid -> Client] /\ addrMap \in [Addr -> Cid \cup {Nil}]
  BY DEF IInv, TypeOK
<1>2. c \in Cid /\ at \in Addr /\ client[c].auth = "none"
  BY DEF IInv, JobsRegistered, JobOK
<1>3. /\ addrMap' = [a \in Addr |-> IF a = at THEN c ELSE IF a = old THEN Nil ELSE addrMap[a]]
      /\ UNCHANGED <<clients, ipBitmap, pendingAuth, ipConnCount, cleanup>> /\ Store(objs)
  BY DEF moveClient
<1>4. objs \in [Cid -> Client]
  BY <1>1, <1>2, ConstantsAssumption DEF Client, Age
<1>5. \A d \in Cid : /\ objs[d].who = client[d].who /\ objs[d].vip = client[d].vip
                     /\ objs[d].auth = client[d].auth
                     /\ d # c => objs[d].addr = client[d].addr
  BY SMTT(40), <1>1, <1>2 DEF Client
<1> HIDE DEF objs
<1>6. addrMap' \in [Addr -> Cid \cup {Nil}]
  BY SMTT(40), <1>1, <1>2, <1>3
<1>7. \A b \in Addr : addrMap'[b] # Nil => objs[addrMap'[b]].auth = "none" \/ objs[addrMap'[b]].addr = b
  <2>1. \A b \in Addr : addrMap'[b] # Nil => addrMap'[b] = c \/ addrMap'[b] = addrMap[b]
    BY SMTT(40), <1>3
  <2> QED BY SMTT(40), <1>1, <1>2, <1>5, <2>1, EntriesHome
<1>8. /\ job' \in [Worker -> Job] /\ \A u \in Worker : job'[u] = job[u] \/ job'[u] = Idle
      /\ pendingAuth' \in Nat /\ ipConnCount' \in [IP -> Nat]
  BY <1>1, <1>3 DEF TypeOK, Job, Idle
<1> QED BY ZenonT(40), <1>3, <1>4, <1>5, <1>6, <1>7, <1>8, InvMembersKept

(* A job whose re-check fails is dropped. *)
LEMMA InvAbandonJob ==
    ASSUME IInv, NEW w \in Worker, abandonJob(w)
    PROVE  IInv'
<1>1. TypeOK /\ client \in [Cid -> Client]
  BY DEF IInv, TypeOK
<1>2. /\ UNCHANGED <<clients, addrMap, ipBitmap, pendingAuth, ipConnCount, cleanup>>
      /\ Store(client) /\ job' = [job EXCEPT ![w] = Idle]
  BY SMTT(40) DEF abandonJob, room
<1>3. /\ job' \in [Worker -> Job] /\ \A u \in Worker : job'[u] = job[u] \/ job'[u] = Idle
      /\ pendingAuth' \in Nat /\ ipConnCount' \in [IP -> Nat] /\ addrMap' \in [Addr -> Cid \cup {Nil}]
  BY <1>1, <1>2 DEF TypeOK, Job, Idle
<1> QED BY <1>1, <1>2, <1>3, EntriesHome, InvMembersKept

(* tryMigrateAddrMap looks a member up. *)
LEMMA InvMigrateLookup ==
    ASSUME IInv, NEW w \in Worker, migrateLookup(w)
    PROVE  IInv'
<1> DEFINE v == job[w].vip
           j == [job[w] EXCEPT !.op = "migrate", !.c = clients[v]]
<1>1. CASE abandonJob(w)
  BY <1>1, InvAbandonJob
<1>2. CASE /\ clients[v] # Nil
           /\ job' = [job EXCEPT ![w].op = "migrate", ![w].c = clients[v]]
           /\ UNCHANGED <<room, client, cleanup>>
  <2>1. job \in [Worker -> Job] /\ v \in VIP /\ job[w].at \in Addr
    BY DEF migrateLookup, IInv, TypeOK, JobsRegistered, JobOK
  <2>2. clients[v] \in Cid /\ client[clients[v]].auth = "none"
    BY <1>2, <2>1, HolderRegistered
  <2>3. j \in Job /\ JobOK(j)
    BY <2>1, <2>2 DEF Job, JobOK
  <2>4. job' = [job EXCEPT ![w] = j]
    BY <1>2, <2>1 DEF Job
  <2> HIDE DEF j
  <2> QED BY Zenon, <1>2, <2>3, <2>4, InvLookup
<1> QED BY <1>1, <1>2 DEF migrateLookup

(* A keepalive sets the age of the object it found, be it still a member or not. *)
LEMMA InvKeepAliveUpdate ==
    ASSUME IInv, NEW w \in Worker, keepAliveUpdate(w)
    PROVE  IInv'
<1> DEFINE c == job[w].c
           objs == [client EXCEPT ![c].age = 0]
<1>1. TypeOK /\ client \in [Cid -> Client]
  BY DEF IInv, TypeOK
<1>2. c \in Cid
  BY DEF keepAliveUpdate, IInv, JobsRegistered, JobOK
<1>3. /\ UNCHANGED <<clients, addrMap, ipBitmap, pendingAuth, ipConnCount, cleanup>>
      /\ Store(objs) /\ job' = [job EXCEPT ![w] = Idle]
  BY DEF keepAliveUpdate, room
<1>4. /\ objs \in [Cid -> Client]
      /\ \A d \in Cid : /\ objs[d].who = client[d].who /\ objs[d].vip = client[d].vip
                        /\ objs[d].auth = client[d].auth /\ objs[d].addr = client[d].addr
  BY <1>1, <1>2, ConstantsAssumption DEF Client, Age
<1>5. /\ job' \in [Worker -> Job] /\ \A u \in Worker : job'[u] = job[u] \/ job'[u] = Idle
      /\ pendingAuth' \in Nat /\ ipConnCount' \in [IP -> Nat] /\ addrMap' \in [Addr -> Cid \cup {Nil}]
  BY <1>1, <1>3 DEF TypeOK, Job, Idle
<1> HIDE DEF objs
<1>6. \A b \in Addr : addrMap'[b] # Nil =>
         objs[addrMap'[b]].auth = "none" \/ objs[addrMap'[b]].addr = b
  BY <1>3, <1>4, EntriesHome
<1> QED BY <1>3, <1>4, <1>5, <1>6, InvMembersKept

(* Everything a worker does after its first critical section. *)
LEMMA InvResume ==
    ASSUME IInv, Resume
    PROVE  IInv'
<1>1. PICK w \in Worker : \/ keepAliveUpdate(w) \/ migrateLookup(w)
                         \/ migrateUpdate(w) \/ rebindUpdate(w)
  BY DEF Resume
<1>2. CASE keepAliveUpdate(w) \/ migrateLookup(w)
  BY <1>2, InvKeepAliveUpdate, InvMigrateLookup
<1>3. CASE abandonJob(w)
  BY SMTT(40), <1>3, InvAbandonJob
<1>4. CASE (migrateUpdate(w) \/ rebindUpdate(w)) /\ ~abandonJob(w)
  BY <1>4, InvMoveClient DEF migrateUpdate, rebindUpdate
<1> QED BY <1>1, <1>2, <1>3, <1>4

-----------------------------------------------------------------------------
(* The keepalive goroutine, and time *)

(* The first phase of CleanupStale only reads. *)
LEMMA InvCleanupCollect ==
    ASSUME IInv, cleanupCollect
    PROVE  IInv'
<1>1. TypeOK
  BY SMTT(40) DEF IInv
<1>2. /\ UNCHANGED <<clients, addrMap, client, ipBitmap, pendingAuth, ipConnCount, job>>
      /\ staleClients' = [v \in VIP |->
            IF Stale(clients[v]) THEN [c |-> clients[v], addr |-> client[clients[v]].addr]
                                 ELSE NotStale]
      /\ staleAuths' = [a \in Addr |->
            IF Pending(addrMap[a]) /\ Stale(addrMap[a]) THEN addrMap[a] ELSE Nil]
  BY DEF cleanupCollect, collectStale, room
<1>3. \A v \in VIP : Stale(clients[v]) =>
          clients[v] \in Cid /\ client[clients[v]].addr \in Addr \cup {Nil}
  BY SMTT(40), <1>1 DEF TypeOK, Stale, Client
<1>4. TypeOK'
  <2>1. staleClients' \in [VIP -> [c : Cid \cup {Nil}, addr : Addr \cup {Nil}]]
    BY <1>2, <1>3 DEF NotStale
  <2>2. staleAuths' \in [Addr -> Cid \cup {Nil}]
    BY SMTT(40), <1>1, <1>2 DEF TypeOK
  <2> QED BY SMTT(40), <1>1, <1>2, <2>1, <2>2 DEF TypeOK
<1>5. MembersInv' /\ PendingAtHome' /\ JobsRegistered'
  BY Zenon, <1>2 DEF IInv, MembersInv, BitmapExact, HoldersConsistent, Members,
              Registered, PendingAtHome, Pending, JobsRegistered, JobOK
<1> QED BY <1>4, <1>5 DEF IInv

(* The sweep counts subsets of two finite sets. *)
LEMMA SubsetCounts ==
    /\ \A S \in SUBSET VIP : IsFiniteSet(S) /\ Cardinality(S) \in Nat
    /\ \A S \in SUBSET Addr : IsFiniteSet(S) /\ Cardinality(S) \in Nat
<1>1. IsFiniteSet(VIP)
  <2>1. 2 \in Int /\ LastOctet - 1 \in Int
    BY ConstantsAssumption
  <2> QED BY <2>1, FS_Interval DEF VIP
<1>2. IsFiniteSet(Addr)
  BY IdentityAssumption
<1>3. \A S \in SUBSET VIP : IsFiniteSet(S)
  BY <1>1, FS_Subset
<1>4. \A S \in SUBSET Addr : IsFiniteSet(S)
  BY <1>2, FS_Subset
<1> QED BY <1>3, <1>4, FS_CardinalityType

(* The second phase of CleanupStale frees the virtual IPs of the clients it removes. *)
LEMMA InvCleanupSweep ==
    ASSUME IInv, cleanupSweep
    PROVE  IInv'
<1>1. TypeOK /\ client \in [Cid -> Client]
  BY DEF IInv, TypeOK
<1>2. SweptVIPs \in SUBSET VIP /\ SweptAuths \in SUBSET Addr
  BY SMTT(40) DEF SweptVIPs, SweptAuths
<1>3. /\ clients' = [v \in VIP |-> IF v \in SweptVIPs THEN Nil ELSE clients[v]]
      /\ ipBitmap' = ipBitmap \ SweptVIPs
      /\ addrMap' = [a \in Addr |->
            IF SweptFrom(a) # {} \/ a \in SweptAuths THEN Nil ELSE addrMap[a]]
      /\ staleClients' = [v \in VIP |-> NotStale]
      /\ staleAuths' = [a \in Addr |-> Nil]
      /\ UNCHANGED job /\ Store(client)
  BY DEF cleanupSweep, markIPFree
<1>4. pendingAuth' \in Nat
  BY Zenon, <1>1, <1>2, SubsetCounts, LessNat DEF cleanupSweep, TypeOK
<1>5. ipConnCount' \in [IP -> Nat]
  <2> DEFINE V(i) == {v \in VIP : \E a \in Addr : a.ip = i /\ v \in SweptFrom(a)}
             A(i) == {a \in SweptAuths : a.ip = i}
  <2>1. ipConnCount' = [i \in IP |-> Less(ipConnCount[i], Cardinality(V(i)) + Cardinality(A(i)))]
    BY DEF cleanupSweep
  <2>2. ASSUME NEW i \in IP
        PROVE  Less(ipConnCount[i], Cardinality(V(i)) + Cardinality(A(i))) \in Nat
    <3>1. V(i) \in SUBSET VIP /\ A(i) \in SUBSET Addr
      BY <1>2
    <3> HIDE DEF V, A
    <3>2. Cardinality(V(i)) \in Nat /\ Cardinality(A(i)) \in Nat
      BY <3>1, SubsetCounts
    <3>3. ipConnCount[i] \in Nat /\ Cardinality(V(i)) + Cardinality(A(i)) \in Nat
      BY <1>1, <3>2 DEF TypeOK
    <3> QED BY ZenonT(40), <3>3, LessNat
  <2> HIDE DEF V, A
  <2> QED BY <2>1, <2>2
<1>6. client' \in [Cid -> Client] /\ \A d \in Cid : Referenced(d)' => client'[d] = client[d]
  BY <1>1, <1>3, StoreType
<1>7. TypeOK'
  BY Zenon, <1>1, <1>3, <1>4, <1>5, <1>6 DEF TypeOK, NotStale
<1>8. MembersInv'
  <2>1. \A v \in VIP : clients'[v] # Nil => clients'[v] = clients[v] /\ Same(clients[v])
    BY SMTT(40), <1>1, <1>3, <1>6, ReferencedByNext DEF TypeOK, Same
  <2>2. (\A v \in SweptVIPs : clients'[v] = Nil) /\ (\A v \in VIP \ SweptVIPs : clients'[v] = clients[v])
    BY <1>2, <1>3
  <2> QED BY SMTT(40), <1>1, <1>2, <1>3, <1>7, <2>1, <2>2, MembersLeave DEF IInv
<1>9. PendingAtHome'
  <2>1. \A b \in Addr : addrMap'[b] = Nil \/
          (addrMap'[b] = addrMap[b] /\ client'[addrMap[b]] = client[addrMap[b]])
    BY SMTT(40), <1>1, <1>3, <1>6, ReferencedByNext DEF TypeOK
  <2> QED BY SMTT(40), <2>1, PendingStays DEF IInv
<1>10. JobsRegistered'
  BY <1>1, <1>3, <1>6, JobsStay DEF IInv
<1> QED BY <1>7, <1>8, <1>9, <1>10 DEF IInv

(* Time changes ages only. *)
LEMMA InvTick ==
    ASSUME IInv, Tick
    PROVE  IInv'
<1>1. TypeOK /\ client \in [Cid -> Client]
  BY DEF IInv, TypeOK
<1>2. /\ client' = [c \in Cid |-> IF Aging(c) THEN [client[c] EXCEPT !.age = @ + 1] ELSE client[c]]
      /\ UNCHANGED <<clients, addrMap, ipBitmap, pendingAuth, ipConnCount, job, staleClients, staleAuths>>
  BY DEF Tick, AgeClients, room, cleanup
<1>3. \A d \in Cid : /\ client'[d].who = client[d].who /\ client'[d].vip = client[d].vip
                     /\ client'[d].auth = client[d].auth /\ client'[d].addr = client[d].addr
  BY <1>1, <1>2 DEF Client
<1>4. TypeOK'
  <2>1. \A d \in Cid : Aging(d) => client[d].age + 1 \in Age
    BY <1>1, ConstantsAssumption DEF Aging, Client, Age
  <2>2. client' \in [Cid -> Client]
    BY <1>1, <1>2, <2>1 DEF Client
  <2> QED BY <1>1, <1>2, <2>2 DEF TypeOK
<1>5. MembersInv'
  <2>1. \A v \in VIP : clients[v] # Nil => Same(clients[v])
    BY <1>1, <1>3 DEF TypeOK, Same
  <2> QED BY SMTT(40), <1>2, <2>1, MembersStay DEF IInv
<1>6. PendingAtHome'
  <2>1. \A b \in Addr : addrMap'[b] = Nil \/
          (/\ addrMap'[b] = addrMap[b]
           /\ client'[addrMap[b]].auth = client[addrMap[b]].auth
           /\ client'[addrMap[b]].addr = client[addrMap[b]].addr)
    BY <1>1, <1>2, <1>3 DEF TypeOK
  <2> QED BY <2>1, PendingStays DEF IInv
<1>7. JobsRegistered'
  BY <1>1, <1>2, <1>3, JobsStay DEF IInv
<1> QED BY <1>4, <1>5, <1>6, <1>7 DEF IInv

-----------------------------------------------------------------------------
(* The invariant is inductive *)

(* An empty room satisfies the invariant. *)
LEMMA InitInv == Init => IInv
<1> SUFFICES ASSUME Init PROVE IInv
  OBVIOUS
<1>1. TypeOK
  <2>1. Reserved \subseteq 0 .. LastOctet
    BY ConstantsAssumption DEF Reserved
  <2>2. client \in [Cid -> Client]
    BY BlankIsClient DEF Init
  <2> QED BY <2>1, <2>2 DEF Init, TypeOK, Job, Idle, NotStale
<1>2. Members = {}
  BY DEF Members, Init
<1>3. MembersInv
  BY <1>2 DEF MembersInv, BitmapExact, HoldersConsistent, Init
<1>4. PendingAtHome
  BY DEF PendingAtHome, Pending, Init
<1>5. JobsRegistered
  BY DEF JobsRegistered, JobOK, Init, Idle
<1> QED BY <1>1, <1>3, <1>4, <1>5 DEF IInv

(* Every step of the room preserves it. *)
LEMMA NextInv == IInv /\ [Next]_vars => IInv'
<1> SUFFICES ASSUME IInv, [Next]_vars PROVE IInv'
  OBVIOUS
<1>1. CASE MarkingPacket
  <2>1. CASE \E a \in Addr, p \in Player : registerJoins(a, p)
    BY <2>1, InvResolveRestoredClient, InvRegisterOpen DEF registerJoins
  <2>2. CASE \E a \in Addr, p \in Player : authAccepted(a, p)
    BY <2>2, InvAuthAccepted
  <2>3. CASE \E a \in Addr : handleDisconnect(a)
    BY <2>3, InvHandleDisconnect
  <2> QED BY <1>1, <2>1, <2>2, <2>3 DEF MarkingPacket
<1>2. CASE OtherPacket
  <2>1. CASE \E a \in Addr, p \in Player : registerOther(a, p)
    BY <2>1, InvRegisterOther
  <2>2. CASE \E a \in Addr, p \in Player : authOther(a, p)
    BY <2>2, InvAuthOther
  <2>3. CASE \E w \in Worker, a \in Addr : keepAliveLookup(w, a)
    BY <2>3, InvKeepAliveLookup
  <2>4. CASE \E w \in Worker, a \in Addr, v \in VIP : relayLookup(w, a, v) \/ rebindLookup(w, a, v)
    BY <2>4, InvRelayLookup, InvRebindLookup
  <2> QED BY <1>2, <2>1, <2>2, <2>3, <2>4 DEF OtherPacket
<1>3. CASE Resume
  BY <1>3, InvResume
<1>4. CASE cleanupCollect
  BY SMTT(40), <1>4, InvCleanupCollect
<1>5. CASE cleanupSweep
  BY <1>5, InvCleanupSweep
<1>6. CASE Tick
  BY <1>6, InvTick
<1>7. CASE UNCHANGED vars
  BY ZenonT(40), <1>7 DEF vars, IInv, TypeOK, MembersInv, BitmapExact, HoldersConsistent,
              Members, Registered, PendingAtHome, Pending, JobsRegistered, JobOK
<1> QED BY <1>1, <1>2, <1>3, <1>4, <1>5, <1>6, <1>7 DEF Next, Packet

(* What one step may do to the members: at most one client joins, with the *)
(* lowest free virtual IP and in a room that has space, and nobody's       *)
(* virtual IP passes to another.  p are the names that join, q the names   *)
(* that were checked not to be there yet.                                  *)
Joins ==
    \E v \in VIP, c \in Cid, p \in Player \cup {Nil}, q \in Player :
        /\ nextAvailableIP(v)
        /\ clients[v] = Nil
        /\ checkCapacityAndDuplicate(q)
        /\ ForeignNames \/ p = q
        /\ clients' = [clients EXCEPT ![v] = c]
        /\ client'[c].who = p
Leaves == \A v \in VIP : clients'[v] \in {clients[v], Nil}

(* doRegisterClient after the capacity check is such a join. *)
LEMMA DoRegisterClientJoins ==
    ASSUME IInv, NEW p \in Player \cup {Nil}, NEW q \in Player, NEW a \in Addr,
           NEW am, NEW objs \in [Cid -> Client], ForeignNames \/ p = q,
           checkCapacityAndDuplicate(q), doRegisterClient(p, a, am, objs)
    PROVE  Joins
<1>1. clients \in [VIP -> Cid \cup {Nil}]
  BY DEF IInv, TypeOK
<1> PICK v \in VIP, c \in Fresh :
        /\ nextAvailableIP(v)
        /\ clients' = [clients EXCEPT ![v] = c]
        /\ Store([objs EXCEPT ![c] =
                 [who |-> p, vip |-> v, addr |-> a, auth |-> "none", age |-> 0]])
  BY ZenonT(40) DEF doRegisterClient
<1> DEFINE objs2 == [objs EXCEPT ![c] =
                 [who |-> p, vip |-> v, addr |-> a, auth |-> "none", age |-> 0]]
<1>2. c \in Cid /\ Referenced(c)'
  BY Zenon, <1>1, ReferencedByNext DEF Fresh
<1>3. objs2 \in [Cid -> Client]
  BY <1>2, ConstantsAssumption DEF Client, Age
<1>4. objs2[c].who = p /\ Store(objs2)
  BY <1>2
<1> HIDE DEF objs2
<1>5. client'[c].who = p
  BY <1>2, <1>3, <1>4, StoreType
<1>6. clients[v] = Nil
  BY DEF nextAvailableIP, FreeVIPs, IInv, MembersInv, BitmapExact, Members
<1> QED BY ZenonT(40), <1>2, <1>5, <1>6 DEF Joins

(* Every step of the room is of one of these two kinds. *)
LEMMA StepClients ==
    ASSUME IInv, Next
    PROVE  Joins \/ Leaves
<1>0. TypeOK
  BY DEF IInv
<1>1. clients' = clients => Leaves
  BY DEF Leaves
<1>2. CASE MarkingPacket
  <2>1. ASSUME NEW a \in Addr, NEW p \in Player, registerJoins(a, p) \/ authAccepted(a, p)
        PROVE  Joins \/ Leaves
    <3>1. CASE resolveRestoredClient(a, p)
      BY <1>1, <3>1 DEF resolveRestoredClient
    <3>2. CASE registerOpen(a, p)
      BY SMTT(40), <1>0, <3>2, DoRegisterClientJoins DEF registerOpen, Admits, TypeOK
    <3>3. CASE authAccepted(a, p)
      <4>1. PICK k \in authEntries(a, p) :
              /\ Verified(k, p) /\ checkCapacityAndDuplicate(p)
              /\ doRegisterClient(client[addrMap[k]].who, a, authMoved(a, k).am, authMoved(a, k).objs)
        BY <3>3 DEF authAccepted
      <4>2. client[addrMap[k]].who \in Player \cup {Nil}
        BY <1>0, AuthEntriesPending DEF TypeOK, Client
      <4>3. ForeignNames \/ client[addrMap[k]].who = p
        BY <4>1 DEF Verified
      <4> QED BY Zenon, <4>1, <4>2, <4>3, AuthMovedOK, DoRegisterClientJoins
    <3> QED BY <2>1, <3>1, <3>2, <3>3 DEF registerJoins
  <2>2. ASSUME NEW a \in Addr, handleDisconnect(a)
        PROVE  Leaves
    <3>1. CASE cleanupPendingAuth(a)
      BY <1>1, <3>1 DEF cleanupPendingAuth
    <3>2. CASE disconnectMember(a)
      BY <1>0, <3>2 DEF disconnectMember, Leaves, TypeOK
    <3> QED BY <2>2, <3>1, <3>2 DEF handleDisconnect
  <2> QED BY <1>2, <2>1, <2>2 DEF MarkingPacket
<1>3. CASE OtherPacket
  <2>1. clients' = clients
    BY ZenonT(40), <1>3 DEF OtherPacket, registerOther, registerKnown, Touch, room, registerExhausted,
                doSendAuthChallenge, registerRefused, cleanupPendingAuth, authOther,
                authMismatch, authRejected, authRefused, authExhausted, keepAliveLookup,
                relayLookup, rebindLookup, beginJob
  <2> QED BY <1>1, <2>1
<1>4. CASE Resume
  BY <1>1, <1>4 DEF Resume, keepAliveUpdate, migrateLookup, migrateUpdate, rebindUpdate,
                    moveClient, abandonJob, room
<1>5. CASE cleanupCollect \/ Tick
  BY <1>1, <1>5 DEF cleanupCollect, collectStale, Tick, AgeClients, room
<1>6. CASE cleanupSweep
  BY <1>6 DEF cleanupSweep, Leaves
<1> QED BY <1>2, <1>3, <1>4, <1>5, <1>6 DEF Next, Packet

(* Hence capacity is kept. *)
LEMMA CapacityKept ==
    ASSUME IInv, IInv', Capacity, [Next]_vars
    PROVE  Capacity'
<1>1. Members \in SUBSET VIP /\ IsFiniteSet(Members) /\ Cardinality(Members) \in Nat
  BY SubsetCounts DEF Members
<1>2. CASE Joins
  <2>1. PICK v \in VIP, c \in Cid : /\ clients[v] = Nil /\ clients' = [clients EXCEPT ![v] = c]
                                    /\ Cardinality(Members) < MaxPlayers
    BY Zenon, <1>2 DEF Joins, checkCapacityAndDuplicate
  <2>2. Members' = Members \cup {v} /\ v \notin Members
    <3>1. clients \in [VIP -> Cid \cup {Nil}] /\ c # Nil
      BY IdentityAssumption DEF IInv, TypeOK
    <3>2. \A u \in VIP : clients'[u] = IF u = v THEN c ELSE clients[u]
      BY <2>1, <3>1
    <3> QED BY SMTT(40), <2>1, <3>1, <3>2 DEF Members
  <2>3. Cardinality(Members') = Cardinality(Members) + 1
    BY Zenon, <1>1, <2>2, FS_AddElement
  <2> QED BY <1>1, <2>1, <2>3, ConstantsAssumption DEF Capacity
<1>3. CASE Leaves
  <2>1. Members' \in SUBSET Members
    BY <1>3 DEF Members, Leaves
  <2>2. IsFiniteSet(Members') /\ Cardinality(Members') <= Cardinality(Members)
    BY <1>1, <2>1, FS_Subset
  <2>3. Cardinality(Members') \in Nat
    BY <2>2, FS_CardinalityType
  <2> QED BY <1>1, <2>2, <2>3, ConstantsAssumption DEF Capacity
<1>4. CASE UNCHANGED vars
  BY <1>4 DEF vars, Capacity, Members
<1> QED BY <1>2, <1>3, <1>4, StepClients

-----------------------------------------------------------------------------
(* The theorems *)

(* Every behaviour of a room, whatever its size, its limits and the number *)
(* of workers, stays within the inductive invariant.                       *)
THEOREM Invariance == Spec => []IInv
<1> QED BY InitInv, NextInv, PTL DEF Spec

(* The handlers of the room keep every variable within its type; in        *)
(* particular the guarded decrements never take a counter below zero.      *)
THEOREM TypeCorrect == Spec => []TypeOK
<1>1. IInv => TypeOK
  BY DEF IInv
<1> QED BY <1>1, Invariance, PTL

(* markIPUsed and markIPFree keep the bitmap in step with the clients on   *)
(* every path by which a client joins or leaves.                           *)
THEOREM BitmapCorrect == Spec => []BitmapExact
<1>1. IInv => BitmapExact
  BY DEF IInv, MembersInv
<1> QED BY <1>1, Invariance, PTL

(* The entry of clients at a virtual IP is a registered client that knows  *)
(* this virtual IP as its own.                                             *)
THEOREM HoldersCorrect == Spec => []HoldersConsistent
<1>1. IInv => HoldersConsistent
  BY DEF IInv, MembersInv
<1> QED BY <1>1, Invariance, PTL

(* A pending authentication is always filed under its own PublicAddr, also *)
(* when handleAuthResponse moves it.                                       *)
THEOREM PendingFiled == Spec => []PendingAtHome
<1>1. IInv => PendingAtHome
  BY DEF IInv
<1> QED BY <1>1, Invariance, PTL

(* However registrations, authentications and departures interleave, the   *)
(* room never holds more than maxPlayers clients.                          *)
THEOREM WithinCapacity == Spec => []Capacity
<1>1. Init => Capacity
  <2> SUFFICES ASSUME Init PROVE Capacity
    OBVIOUS
  <2>1. Members = {}
    BY DEF Init, Members
  <2> QED BY <2>1, FS_EmptySet, ConstantsAssumption DEF Capacity
<1>2. IInv /\ IInv' /\ Capacity /\ [Next]_vars => Capacity'
  BY CapacityKept
<1> QED BY <1>1, <1>2, Invariance, PTL DEF Spec

(* No step of any handler gives a client's virtual IP to another client.   *)
THEOREM VIPsNotTakenOver == Spec => NoTakeover
<1>1. IInv /\ [Next]_vars =>
        [\A v \in VIP : clients[v] # Nil => clients'[v] \in {clients[v], Nil}]_vars
  <2> SUFFICES ASSUME IInv, Next
               PROVE  \A v \in VIP : clients[v] # Nil => clients'[v] \in {clients[v], Nil}
    OBVIOUS
  <2>1. CASE Joins
    BY <2>1 DEF Joins, IInv, TypeOK
  <2>2. CASE Leaves
    BY <2>2 DEF Leaves
  <2> QED BY <2>1, <2>2, StepClients
<1> QED BY <1>1, Invariance, PTL DEF Spec, NoTakeover
=============================================================================
