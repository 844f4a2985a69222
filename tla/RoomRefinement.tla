--------------------------- MODULE RoomRefinement ---------------------------
(***************************************************************************)
(* Proof that a room implements Lease, and that its players are unique,    *)
(* for any number of addresses, players, objects and workers and any       *)
(* limits, as long as responses carry the names of their registrations     *)
(* (~ForeignNames), as the clients of this repository's do.  Without that  *)
(* neither holds: the names that are checked are not those that join.      *)
(*                                                                         *)
(* The refinement mapping reads the names of a virtual IP's holder through *)
(* its object, so the proof needs that no step changes the names of an     *)
(* object in use, and that the object of a member has the names of a       *)
(* player.  A step of the room then maps to Join, to Leave, or to no step. *)
(***************************************************************************)
EXTENDS RoomProofs

(* The object keeps its names. *)
SameName(c) == client'[c].who = client[c].who

(* Every member is a player. *)
NamedMembers == \A v \in Members : client[clients[v]].who \in Player

(* Objects stored with the names they had. *)
LEMMA StoreKeepsName ==
    ASSUME NEW objs \in [Cid -> Client], Store(objs), NEW d \in Cid, Referenced(d)',
           objs[d].who = client[d].who
    PROVE  SameName(d)
BY StoreType DEF SameName

(* doRegisterClient writes only to an object not in use. *)
LEMMA DoRegisterClientKeepsNames ==
    ASSUME NEW p \in Player \cup {Nil}, NEW a \in Addr, NEW am, NEW objs \in [Cid -> Client],
           doRegisterClient(p, a, am, objs),
           NEW d \in Cid, Referenced(d), Referenced(d)', objs[d].who = client[d].who
    PROVE  SameName(d)
<1> PICK v \in VIP, c \in Fresh :
        Store([objs EXCEPT ![c] =
                 [who |-> p, vip |-> v, addr |-> a, auth |-> "none", age |-> 0]])
  BY Zenon DEF doRegisterClient
<1> DEFINE objs2 == [objs EXCEPT ![c] =
                 [who |-> p, vip |-> v, addr |-> a, auth |-> "none", age |-> 0]]
<1>1. c \in Cid /\ c # d
  BY DEF Fresh
<1>2. objs2 \in [Cid -> Client]
  BY <1>1, ConstantsAssumption DEF Client, Age
<1>3. objs2[d].who = client[d].who
  BY <1>1
<1> HIDE DEF objs2
<1>4. Store(objs2)
  BY DEF objs2
<1> QED BY <1>2, <1>3, <1>4, StoreKeepsName

(* No step changes the names of an object in use. *)
LEMMA NamesKept ==
    ASSUME IInv, Next, NEW d \in Cid, Referenced(d), Referenced(d)'
    PROVE  SameName(d)
<1>1. client \in [Cid -> Client] /\ addrMap \in [Addr -> Cid \cup {Nil}]
  BY DEF IInv, TypeOK
<1>2. Store(client) => SameName(d)
  BY <1>1, StoreKeepsName
<1>3. client' = client => SameName(d)
  BY DEF SameName
<1>4. ASSUME NEW k, cleanupPendingAuth(k) PROVE SameName(d)
  BY <1>2, <1>4 DEF cleanupPendingAuth
<1>5. ASSUME NEW c, Touch(c) PROVE SameName(d)
  BY <1>1, <1>5 DEF Touch, SameName, Client
<1>6. CASE MarkingPacket
  <2>1. ASSUME NEW a \in Addr, NEW p \in Player, resolveRestoredClient(a, p)
        PROVE  SameName(d)
    <3>1. PICK v \in Placeholders(p) :
            Store([client EXCEPT ![clients[v]].addr = a, ![clients[v]].age = 0])
      BY <2>1 DEF resolveRestoredClient
    <3> DEFINE objs == [client EXCEPT ![clients[v]].addr = a, ![clients[v]].age = 0]
    <3>2. clients[v] \in Cid
      BY DEF Placeholders, Members, IInv, TypeOK
    <3>3. objs \in [Cid -> Client] /\ objs[d].who = client[d].who
      BY <1>1, <3>2, ConstantsAssumption DEF Client, Age
    <3>4. Store(objs)
      BY <3>1
    <3> HIDE DEF objs
    <3> QED BY <3>3, <3>4, StoreKeepsName
  <2>2. ASSUME NEW a \in Addr, NEW p \in Player, registerOpen(a, p)
        PROVE  SameName(d)
    BY <1>1, <2>2, DoRegisterClientKeepsNames DEF registerOpen
  <2>3. ASSUME NEW a \in Addr, NEW p \in Player, authAccepted(a, p)
        PROVE  SameName(d)
    <3>1. PICK k \in authEntries(a, p) :
            doRegisterClient(client[addrMap[k]].who, a, authMoved(a, k).am, authMoved(a, k).objs)
      BY <2>3 DEF authAccepted
    <3>2. client[addrMap[k]].who \in Player \cup {Nil}
      BY <1>1, AuthEntriesPending DEF Client
    <3> QED BY <3>1, <3>2, AuthMovedOK, DoRegisterClientKeepsNames
  <2>4. ASSUME NEW a \in Addr, handleDisconnect(a)
        PROVE  SameName(d)
    BY <1>2, <1>4, <2>4 DEF handleDisconnect, disconnectMember
  <2> QED BY <1>6, <2>1, <2>2, <2>3, <2>4 DEF MarkingPacket, registerJoins
<1>7. CASE OtherPacket
  <2>1. ASSUME NEW a \in Addr, NEW p \in Player, doSendAuthChallenge(a, p)
        PROVE  SameName(d)
    <3> DEFINE new == [who |-> p, vip |-> Nil, addr |-> a, auth |-> "challenge", age |-> 0]
    <3>1. PICK c \in Fresh : Store([client EXCEPT ![c] = new])
      BY Zenon, <2>1 DEF doSendAuthChallenge
    <3> DEFINE objs == [client EXCEPT ![c] = new]
    <3>2. objs \in [Cid -> Client] /\ objs[d].who = client[d].who
      BY <1>1, ConstantsAssumption DEF Client, Age, Fresh
    <3>3. Store(objs)
      BY <3>1
    <3> HIDE DEF objs
    <3> QED BY <3>2, <3>3, StoreKeepsName
  <2>2. ASSUME NEW a \in Addr, NEW p \in Player, registerOther(a, p)
        PROVE  SameName(d)
    BY <1>2, <1>4, <1>5, <2>1, <2>2
       DEF registerOther, registerKnown, registerExhausted, registerRefused
  <2>3. ASSUME NEW a \in Addr, NEW p \in Player, authExhausted(a, p)
        PROVE  SameName(d)
    BY <1>1, <2>3, AuthMovedOK, StoreKeepsName DEF authExhausted
  <2>4. ASSUME NEW a \in Addr, NEW p \in Player, authOther(a, p)
        PROVE  SameName(d)
    BY <1>3, <1>4, <2>3, <2>4 DEF authOther, authMismatch, authRejected, authRefused
  <2>5. ASSUME NEW w \in Worker, NEW a \in Addr, keepAliveLookup(w, a)
        PROVE  SameName(d)
    BY <1>3, <2>5 DEF keepAliveLookup, beginJob
  <2>6. ASSUME NEW w \in Worker, NEW a \in Addr, NEW v \in VIP,
               relayLookup(w, a, v) \/ rebindLookup(w, a, v)
        PROVE  SameName(d)
    BY <1>3, <2>6 DEF relayLookup, rebindLookup, beginJob
  <2> QED BY <1>7, <2>2, <2>4, <2>5, <2>6 DEF OtherPacket
<1>8. CASE Resume
  <2>1. PICK w \in Worker : \/ keepAliveUpdate(w) \/ migrateLookup(w)
                           \/ migrateUpdate(w) \/ rebindUpdate(w)
    BY <1>8 DEF Resume
  <2>2. CASE abandonJob(w)
    BY <1>2, <2>2 DEF abandonJob
  <2>3. ASSUME NEW old, moveClient(job[w].c, old, job[w].at), job[w].op \in {"migrate", "rebind"}
        PROVE  SameName(d)
    <3> DEFINE objs == [client EXCEPT ![job[w].c].addr = job[w].at, ![job[w].c].age = 0]
    <3>1. job[w].c \in Cid /\ job[w].at \in Addr
      BY <2>3 DEF IInv, JobsRegistered, JobOK
    <3>2. objs \in [Cid -> Client] /\ objs[d].who = client[d].who
      BY <1>1, <3>1, ConstantsAssumption DEF Client, Age
    <3>3. Store(objs)
      BY <2>3 DEF moveClient
    <3> HIDE DEF objs
    <3> QED BY <3>2, <3>3, StoreKeepsName
  <2>4. CASE keepAliveUpdate(w)
    <3> DEFINE objs == [client EXCEPT ![job[w].c].age = 0]
    <3>1. job[w].c \in Cid
      BY <2>4 DEF keepAliveUpdate, IInv, JobsRegistered, JobOK
    <3>2. objs \in [Cid -> Client] /\ objs[d].who = client[d].who
      BY <1>1, <3>1, ConstantsAssumption DEF Client, Age
    <3>3. Store(objs)
      BY <2>4 DEF keepAliveUpdate
    <3> HIDE DEF objs
    <3> QED BY <3>2, <3>3, StoreKeepsName
  <2>5. CASE migrateLookup(w)
    BY <1>3, <2>2, <2>5 DEF migrateLookup
  <2> QED BY <2>1, <2>2, <2>3, <2>4, <2>5 DEF migrateUpdate, rebindUpdate
<1>9. CASE cleanupCollect
  BY <1>3, <1>9 DEF cleanupCollect, collectStale
<1>10. CASE cleanupSweep
  BY <1>2, <1>10 DEF cleanupSweep
<1>11. CASE Tick
  BY <1>1, <1>11 DEF Tick, AgeClients, SameName, Client
<1> QED BY <1>6, <1>7, <1>8, <1>9, <1>10, <1>11 DEF Next, Packet

(* The room's step as a step of Lease. *)
LEMMA StepRefines ==
    ASSUME ~ForeignNames, IInv, IInv', NamedMembers, [Next]_vars
    PROVE  NamedMembers' /\ [Leases!LNext]_holder
<1>1. clients \in [VIP -> Cid \cup {Nil}] /\ clients' \in [VIP -> Cid \cup {Nil}]
  BY DEF IInv, TypeOK
<1>2. Leases!Held = Members
  BY IdentityAssumption DEF Leases!Held, holder, Members, NamedMembers
<1>3. CASE UNCHANGED vars
  BY <1>3 DEF vars, NamedMembers, Members, holder
<1>4. ASSUME Next, NEW v \in VIP, clients[v] # Nil, clients'[v] = clients[v]
      PROVE  SameName(clients[v])
  BY <1>1, <1>4, NamesKept, ReferencedBy, ReferencedByNext
<1>5. CASE Next /\ Joins
  <2>1. PICK v \in VIP, c \in Cid, p \in Player :
          /\ nextAvailableIP(v)
          /\ clients[v] = Nil
          /\ checkCapacityAndDuplicate(p)
          /\ clients' = [clients EXCEPT ![v] = c]
          /\ client'[c].who = p
    BY Zenon, <1>5, ConstantsAssumption DEF Joins
  <2>2. clients'[v] = c /\ c # Nil /\ \A u \in VIP \ {v} : clients'[u] = clients[u]
    BY <1>1, <2>1, IdentityAssumption
  <2>3. \A u \in VIP \ {v} : clients[u] # Nil => SameName(clients[u])
    BY <1>4, <1>5, <2>2
  <2>4. NamedMembers'
    BY <2>1, <2>2, <2>3 DEF NamedMembers, Members, SameName
  <2>5. holder' = [holder EXCEPT ![v] = p]
    <3>1. \A u \in VIP \ {v} : holder'[u] = holder[u]
      BY <2>2, <2>3 DEF holder, SameName
    <3>2. holder'[v] = p
      BY <2>1, <2>2 DEF holder
    <3>3. holder = [u \in VIP |-> holder[u]] /\ holder' = [u \in VIP |-> holder'[u]]
      BY DEF holder
    <3> QED BY <3>1, <3>2, <3>3
  <2>6. \A u \in VIP : holder[u] # p
    BY <2>1, IdentityAssumption
       DEF holder, checkCapacityAndDuplicate, IInv, MembersInv, HoldersConsistent, Members
  <2>7. VIP \ Members = FreeVIPs
    BY ConstantsAssumption DEF FreeVIPs, IInv, MembersInv, BitmapExact, Reserved, VIP
  <2>8. v \in VIP \ Members /\ \A u \in VIP \ Members : v <= u
    BY <2>1, <2>7 DEF nextAvailableIP
  <2>9. Cardinality(Members) < MaxPlayers
    BY <2>1 DEF checkCapacityAndDuplicate
  <2>10. Leases!Join(v, p)
    BY <1>2, <2>5, <2>6, <2>8, <2>9 DEF Leases!Join, Leases!Cardinality, Cardinality
  <2> QED BY <2>4, <2>10 DEF Leases!LNext
<1>6. CASE Next /\ Leaves
  <2> DEFINE gone == {v \in Members : clients'[v] = Nil}
  <2>1. \A v \in VIP : clients'[v] # Nil => clients'[v] = clients[v] /\ SameName(clients[v])
    BY <1>4, <1>6 DEF Leaves
  <2>2. NamedMembers'
    BY <2>1 DEF NamedMembers, Members, SameName
  <2>3. holder' = [v \in VIP |-> IF v \in gone THEN Nil ELSE holder[v]]
    BY <1>6, <2>1 DEF holder, Members, SameName, Leaves
  <2>4. gone \in SUBSET Leases!Held
    BY <1>2
  <2>5. Leases!Leave(gone)
    BY <2>3 DEF Leases!Leave
  <2> QED BY <2>2, <2>4, <2>5 DEF Leases!LNext
<1> QED BY <1>3, <1>5, <1>6, StepClients

(* The room's step keeps the players unique. *)
LEMMA StepUnique ==
    ASSUME ~ForeignNames, IInv, IInv', UniquePlayers, [Next]_vars
    PROVE  UniquePlayers'
<1>1. clients \in [VIP -> Cid \cup {Nil}] /\ clients' \in [VIP -> Cid \cup {Nil}]
  BY DEF IInv, TypeOK
<1>2. CASE UNCHANGED vars
  BY <1>2 DEF vars, UniquePlayers, Members
<1>3. ASSUME Next, NEW v \in VIP, clients[v] # Nil, clients'[v] = clients[v]
      PROVE  SameName(clients[v])
  BY <1>1, <1>3, NamesKept, ReferencedBy, ReferencedByNext
<1>4. CASE Next /\ Joins
  <2>1. PICK v \in VIP, c \in Cid, p \in Player :
          /\ clients[v] = Nil
          /\ checkCapacityAndDuplicate(p)
          /\ clients' = [clients EXCEPT ![v] = c]
          /\ client'[c].who = p
    BY Zenon, <1>4, ConstantsAssumption DEF Joins
  <2>2. clients'[v] = c /\ \A u \in VIP \ {v} : clients'[u] = clients[u]
    BY <1>1, <2>1
  <2>3. ASSUME NEW u \in Members', u # v
        PROVE  u \in Members /\ clients'[u] = clients[u] /\ SameName(clients[u])
    BY <1>3, <1>4, <2>2, <2>3 DEF Members
  <2>4. \A u \in Members : client[clients[u]].who # p
    BY <2>1 DEF checkCapacityAndDuplicate, IInv, MembersInv, HoldersConsistent
  <2> QED BY <2>1, <2>2, <2>3, <2>4 DEF UniquePlayers, SameName
<1>5. CASE Next /\ Leaves
  <2>1. ASSUME NEW u \in Members'
        PROVE  u \in Members /\ clients'[u] = clients[u] /\ SameName(clients[u])
    BY <1>3, <1>5, <2>1 DEF Members, Leaves
  <2> QED BY <2>1 DEF UniquePlayers, SameName
<1> QED BY <1>2, <1>4, <1>5, StepClients

-----------------------------------------------------------------------------
(* The check repeated by handleAuthResponse keeps two racing               *)
(* authentications of one player from both becoming clients, provided      *)
(* clients answer with the names they registered: the code checks the      *)
(* names of the response and registers those of the entry.                 *)
THEOREM PlayersUnique == ASSUME ~ForeignNames PROVE Spec => []UniquePlayers
<1>1. Init => UniquePlayers
  BY DEF Init, UniquePlayers, Members
<1>2. IInv /\ IInv' /\ UniquePlayers /\ [Next]_vars => UniquePlayers'
  BY StepUnique
<1> QED BY <1>1, <1>2, Invariance, PTL DEF Spec

(* A room of any size, with any number of workers whose handlers           *)
(* interleave, gives out its virtual IPs as Lease says: the lowest free    *)
(* one, to a player who has none, while the room is not full.  The same    *)
(* proviso applies.                                                        *)
THEOREM RoomImplementsLease == ASSUME ~ForeignNames PROVE Spec => ImplementsLease
<1>1. Init => Leases!LInit /\ NamedMembers
  BY DEF Init, Leases!LInit, holder, NamedMembers, Members
<1>2. IInv /\ IInv' /\ NamedMembers /\ [Next]_vars => NamedMembers' /\ [Leases!LNext]_holder
  BY StepRefines
<1> QED BY <1>1, <1>2, Invariance, PTL DEF Spec, ImplementsLease, Leases!LSpec
=============================================================================
