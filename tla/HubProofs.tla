----------------------------- MODULE HubProofs -----------------------------
(***************************************************************************)
(* Proofs about Hub, for any organizations, connections and publishers.     *)
(***************************************************************************)
EXTENDS Hub, TLAPS

-----------------------------------------------------------------------------
(* The map of rooms.                                                       *)

RoomMap == UNION {[S -> (SUBSET Conns) \ {{}}] : S \in SUBSET Orgs}

\* A room is a set of connections.
LEMMA RoomType ==
  ASSUME rooms \in RoomMap, NEW o
  PROVE  Room(o) \in SUBSET Conns
BY DEF RoomMap, Room

\* Refiling one organization leaves the map typed, without empty rooms, and
\* every other room as it is.
LEMMA RefileRoom ==
  ASSUME rooms \in RoomMap, NEW o \in Orgs, NEW S \in SUBSET Conns, rooms' = Refile(o, S)
  PROVE  /\ rooms' \in RoomMap
         /\ Room(o)' = S
         /\ \A r \in Orgs \ {o} : Room(r)' = Room(r)
<1> DEFINE D == (DOMAIN rooms \cup {o}) \ (IF S = {} THEN {o} ELSE {})
<1>1. rooms' = [r \in D |-> IF r = o THEN S ELSE rooms[r]]
  BY DEF Refile
<1>2. PICK E \in SUBSET Orgs : rooms \in [E -> (SUBSET Conns) \ {{}}]
  BY DEF RoomMap
<1>3. DOMAIN rooms = E
  BY <1>2
<1>4. D \in SUBSET Orgs /\ (o \in D <=> S # {}) /\ \A r : r # o => (r \in D <=> r \in E)
  BY <1>3
<1>5. ASSUME NEW r \in D PROVE (IF r = o THEN S ELSE rooms[r]) \in (SUBSET Conns) \ {{}}
  BY <1>2, <1>4
<1> HIDE DEF D
<1>6. rooms' \in [D -> (SUBSET Conns) \ {{}}]
  BY <1>1, <1>5
<1>7. rooms' \in RoomMap
  BY <1>4, <1>6 DEF RoomMap
<1>8. Room(o)' = S
  BY <1>1, <1>4 DEF Room
<1>9. ASSUME NEW r \in Orgs \ {o} PROVE Room(r)' = Room(r)
  BY <1>1, <1>2, <1>4 DEF Room
<1> QED
  BY <1>7, <1>8, <1>9

-----------------------------------------------------------------------------
(* The invariant.                                                          *)

\* The connection that is being written to is still in its room: no handler has
\* removed it, although it may have closed it.
WritesInRoom == \A p \in Pubs : pub[p].pc = "write" => pub[p].conn \in Room(pub[p].org)

HubInv == TypeOK /\ RoomsMatchHandlers /\ LoopSeesRoom /\ WritesInRoom /\ TenantOnly

\* The fields of a publisher, by where it is.
LEMMA PublisherFields ==
  ASSUME NEW r \in Publisher
  PROVE  /\ r.pc \in {"idle", "rlock", "loop", "write"}
         /\ r.pc # "idle" => r.org \in Orgs
         /\ r.pc \in {"loop", "write"} => r.todo \in SUBSET Conns
         /\ r.pc = "write" => r.conn \in Conns
BY DEF Publisher

\* A member of a room is a connection of that organization.
LEMMA RoomIsOwn ==
  ASSUME HubInv, NEW o \in Orgs, NEW c \in Room(o)
  PROVE  c \in Conns /\ orgOf[c] = o
BY DEF HubInv, RoomsMatchHandlers

\* A publisher goes on while rooms and handlers stay.
LEMMA PublisherGoesOn ==
  ASSUME HubInv, NEW p \in Pubs, NEW r \in Publisher, Become(p, r),
         UNCHANGED <<rooms, handler>>, writer' \in Conns \cup {None}, stalled' \subseteq Conns,
         readers' = IF r.pc \in {"loop", "write"} THEN readers \cup {p} ELSE readers \ {p},
         r.pc \in {"loop", "write"} => r.todo \subseteq Room(r.org),
         r.pc = "write" => r.conn \in Room(r.org),
         received' \in [Conns -> SUBSET Orgs], TenantOnly'
  PROVE  HubInv'
<1>1. pub' \in [Pubs -> Publisher] /\ pub'[p] = r /\ \A q \in Pubs \ {p} : pub'[q] = pub[q]
  BY DEF Become, HubInv, TypeOK
<1>2. \A o : Room(o)' = Room(o)
  BY DEF Room
<1>3. TypeOK'
  <2>1. readers' = {q \in Pubs : pub'[q].pc \in {"loop", "write"}}
    BY <1>1 DEF HubInv, TypeOK
  <2> QED
    BY <1>1, <2>1 DEF HubInv, TypeOK
<1>4. RoomsMatchHandlers'
  BY <1>2 DEF HubInv, RoomsMatchHandlers
<1>5. LoopSeesRoom'
  <2>1. \A q \in readers' : q = p \/ q \in readers
    OBVIOUS
  <2>2. p \in readers' => r.pc \in {"loop", "write"}
    OBVIOUS
  <2>3. readers \subseteq Pubs
    BY DEF HubInv, TypeOK
  <2> QED
    BY <1>1, <1>2, <2>1, <2>2, <2>3 DEF HubInv, LoopSeesRoom
<1>6. WritesInRoom'
  BY <1>1, <1>2 DEF HubInv, WritesInRoom
<1> QED
  BY <1>3, <1>4, <1>5, <1>6 DEF HubInv

\* A handler goes on while nobody is publishing or the rooms stay.
LEMMA HandlerGoesOn ==
  ASSUME HubInv, UNCHANGED <<rooms, readers, pub>>, handler' \in [Conns -> HandlerPC],
         \A c \in Conns : handler'[c] \in {"reading", "leaving"}
                            <=> handler[c] \in {"reading", "leaving"},
         writer' \in Conns \cup {None}, stalled' \subseteq Conns, received' = received
  PROVE  HubInv'
<1>1. \A o : Room(o)' = Room(o)
  BY DEF Room
<1>2. TypeOK'
  BY DEF HubInv, TypeOK
<1>3. RoomsMatchHandlers'
  BY <1>1 DEF HubInv, RoomsMatchHandlers
<1>4. LoopSeesRoom' /\ WritesInRoom'
  BY <1>1 DEF HubInv, LoopSeesRoom, WritesInRoom
<1>5. TenantOnly'
  BY DEF HubInv, TenantOnly
<1> QED
  BY <1>2, <1>3, <1>4, <1>5 DEF HubInv

\* A room changes: no reader is in, and the room follows its handler.
LEMMA RoomChanges ==
  ASSUME HubInv, NEW c \in Conns, NEW h \in HandlerPC, NEW S \in SUBSET Conns,
         readers = {}, rooms' = Refile(orgOf[c], S), handler' = [handler EXCEPT ![c] = h],
         S = IF h \in {"reading", "leaving"} THEN Room(orgOf[c]) \cup {c}
             ELSE Room(orgOf[c]) \ {c},
         writer' = None, UNCHANGED <<readers, pub, stalled>>,
         received' \in [Conns -> SUBSET Orgs], TenantOnly'
  PROVE  HubInv'
<1>1. orgOf[c] \in Orgs
  BY HubAssumption
<1>2. rooms \in RoomMap /\ handler \in [Conns -> HandlerPC]
  BY DEF HubInv, TypeOK, RoomMap
<1>3. /\ rooms' \in RoomMap /\ Room(orgOf[c])' = S
      /\ \A r \in Orgs \ {orgOf[c]} : Room(r)' = Room(r)
  BY <1>1, <1>2, RefileRoom
<1>4. /\ handler' \in [Conns -> HandlerPC] /\ handler'[c] = h
      /\ \A d \in Conns \ {c} : handler'[d] = handler[d]
  BY <1>2
<1>5. TypeOK'
  BY <1>3, <1>4 DEF HubInv, TypeOK, RoomMap
<1>6. ASSUME NEW o \in Orgs
      PROVE  Room(o)' = {d \in Conns : orgOf[d] = o /\ handler'[d] \in {"reading", "leaving"}}
  <2>1. Room(o) = {d \in Conns : orgOf[d] = o /\ handler[d] \in {"reading", "leaving"}}
    BY DEF HubInv, RoomsMatchHandlers
  <2>2. CASE o = orgOf[c]
    BY <1>3, <1>4, <2>1, <2>2
  <2>3. CASE o # orgOf[c]
    BY <1>3, <1>4, <2>1, <2>3
  <2> QED
    BY <2>2, <2>3
<1>7. RoomsMatchHandlers'
  BY <1>6 DEF RoomsMatchHandlers
<1>8. LoopSeesRoom' /\ WritesInRoom'
  BY DEF HubInv, TypeOK, LoopSeesRoom, WritesInRoom
<1> QED
  BY <1>5, <1>7, <1>8 DEF HubInv

-----------------------------------------------------------------------------
(* The steps.                                                              *)

\* A handler that enters its room, once no reader is in.
LEMMA EnterKeeps ==
  ASSUME HubInv, NEW c \in Conns, Enter(c)
  PROVE  HubInv'
<1> DEFINE S == Room(orgOf[c]) \cup {c}
<1>1. S \in SUBSET Conns
  BY RoomType DEF HubInv, TypeOK, RoomMap
<1>2. received' \in [Conns -> SUBSET Orgs] /\ TenantOnly'
  BY DEF Enter, HubInv, TypeOK, TenantOnly
<1>3. "reading" \in HandlerPC
  BY DEF HandlerPC
<1> QED
  BY <1>1, <1>2, <1>3, RoomChanges DEF Enter

\* A handler that leaves it.
LEMMA LeaveKeeps ==
  ASSUME HubInv, NEW c \in Conns, Leave(c)
  PROVE  HubInv'
<1> DEFINE S == Room(orgOf[c]) \ {c}
<1>1. S \in SUBSET Conns
  BY RoomType DEF HubInv, TypeOK, RoomMap
<1>2. received' \in [Conns -> SUBSET Orgs] /\ TenantOnly'
  BY DEF Leave, HubInv, TypeOK, TenantOnly
<1>3. "closed" \in HandlerPC
  BY DEF HandlerPC
<1> QED
  BY <1>1, <1>2, <1>3, RoomChanges DEF Leave

\* The other steps of a handler and its peer leave the rooms alone.
LEMMA PeerKeeps ==
  ASSUME HubInv, NEW c \in Conns,
         Connect(c) \/ AskLock(c) \/ Disconnect(c) \/ Stall(c) \/ Resume(c)
  PROVE  HubInv'
<1>1. handler \in [Conns -> HandlerPC] /\ stalled \subseteq Conns /\ writer \in Conns \cup {None}
  BY DEF HubInv, TypeOK
<1>2. CASE Connect(c) \/ Disconnect(c)
  BY <1>1, <1>2, HandlerGoesOn DEF Connect, Disconnect, HandlerPC
<1>3. CASE AskLock(c) \/ Stall(c) \/ Resume(c)
  BY <1>1, <1>3, HandlerGoesOn DEF AskLock, Stall, Resume
<1> QED
  BY <1>2, <1>3

\* A publisher's snapshot of its room is the room, and stays in it because the
\* writers wait.
LEMMA ReadLockKeeps ==
  ASSUME HubInv, NEW p \in Pubs, ReadLock(p)
  PROVE  HubInv'
<1> DEFINE r == [pc |-> "loop", org |-> pub[p].org, todo |-> Room(pub[p].org)]
<1>1. pub[p] \in Publisher /\ pub[p].pc = "rlock"
  BY DEF ReadLock, HubInv, TypeOK
<1>2. pub[p].org \in Orgs /\ Room(pub[p].org) \in SUBSET Conns
  BY <1>1, PublisherFields, RoomType DEF HubInv, TypeOK, RoomMap
<1>3. r \in Publisher
  BY <1>2 DEF Publisher
<1> QED
  BY <1>3, PublisherGoesOn DEF ReadLock, HubInv, TypeOK, TenantOnly

\* The next connection of the room.
LEMMA StartWriteKeeps ==
  ASSUME HubInv, NEW p \in Pubs, StartWrite(p)
  PROVE  HubInv'
<1>1. pub[p] \in Publisher /\ pub[p].pc = "loop" /\ pub[p].todo \subseteq Room(pub[p].org)
  BY DEF StartWrite, HubInv, TypeOK, LoopSeesRoom
<1>2. pub[p].org \in Orgs /\ pub[p].todo \in SUBSET Conns
  BY <1>1, PublisherFields
<1>3. PICK c \in pub[p].todo :
        \/ /\ Become(p, [pc |-> "write", org |-> pub[p].org, todo |-> pub[p].todo \ {c}, conn |-> c])
           /\ readers' = readers \cup {p}
        \/ /\ Become(p, [pc |-> "idle"])
           /\ readers' = readers \ {p}
  BY <1>1 DEF StartWrite, HubInv, TypeOK
<1>4. CASE Become(p, [pc |-> "idle"]) /\ readers' = readers \ {p}
  <2>1. [pc |-> "idle"] \in Publisher
    BY DEF Publisher
  <2> QED
    BY <1>4, <2>1, PublisherGoesOn DEF StartWrite, HubInv, TypeOK, TenantOnly
<1>5. CASE /\ Become(p, [pc |-> "write", org |-> pub[p].org, todo |-> pub[p].todo \ {c}, conn |-> c])
           /\ readers' = readers \cup {p}
  <2>1. [pc |-> "write", org |-> pub[p].org, todo |-> pub[p].todo \ {c}, conn |-> c] \in Publisher
    BY <1>2 DEF Publisher
  <2> QED
    BY <1>1, <1>5, <2>1, PublisherGoesOn DEF StartWrite, HubInv, TypeOK, TenantOnly
<1> QED
  BY <1>3, <1>4, <1>5

\* What a connection receives is of its own organization, because the one that
\* is written to is in the room of the event.
LEMMA EndWriteKeeps ==
  ASSUME HubInv, NEW p \in Pubs, EndWrite(p)
  PROVE  HubInv'
<1> DEFINE c == pub[p].conn
           o == pub[p].org
           r == [pc |-> "loop", org |-> o, todo |-> pub[p].todo]
<1>1. pub[p] \in Publisher /\ pub[p].pc = "write"
  BY DEF EndWrite, HubInv, TypeOK
<1>2. c \in Room(o) /\ pub[p].todo \subseteq Room(o)
  BY <1>1 DEF HubInv, TypeOK, WritesInRoom, LoopSeesRoom
<1>3. o \in Orgs /\ pub[p].todo \in SUBSET Conns /\ r \in Publisher
  BY <1>1, PublisherFields DEF Publisher
<1>4. c \in Conns /\ orgOf[c] = o
  BY <1>2, <1>3, RoomIsOwn
<1>5. received' = received \/ received' = [received EXCEPT ![c] = @ \cup {o}]
  BY DEF EndWrite
<1> HIDE DEF c, o
<1>6. received' \in [Conns -> SUBSET Orgs] /\ TenantOnly'
  BY <1>3, <1>4, <1>5 DEF HubInv, TypeOK, TenantOnly
<1>7. /\ Become(p, r) /\ UNCHANGED <<rooms, handler>>
      /\ writer' \in Conns \cup {None} /\ stalled' \subseteq Conns
      /\ readers' = readers \cup {p}
  BY <1>1 DEF EndWrite, HubInv, TypeOK, c, o
<1> QED
  BY <1>2, <1>3, <1>6, <1>7, PublisherGoesOn

\* The publisher's other steps.
LEMMA PublishKeeps ==
  ASSUME HubInv, NEW p \in Pubs, ReadUnlock(p) \/ \E o \in Orgs : BeginPublish(p, o)
  PROVE  HubInv'
<1>1. CASE ReadUnlock(p)
  <2>1. [pc |-> "idle"] \in Publisher
    BY DEF Publisher
  <2> QED
    BY <1>1, <2>1, PublisherGoesOn DEF ReadUnlock, HubInv, TypeOK, TenantOnly
<1>2. CASE \E o \in Orgs : BeginPublish(p, o)
  <2>1. PICK o \in Orgs : BeginPublish(p, o) /\ readers' = readers \ {p}
    BY <1>2 DEF BeginPublish, HubInv, TypeOK
  <2>2. [pc |-> "rlock", org |-> o] \in Publisher
    BY DEF Publisher
  <2> QED
    BY <2>1, <2>2, PublisherGoesOn DEF BeginPublish, HubInv, TypeOK, TenantOnly
<1> QED
  BY <1>1, <1>2

LEMMA InitHub == Init => HubInv
<1> SUFFICES ASSUME Init PROVE HubInv
  OBVIOUS
<1>1. rooms \in [{} -> (SUBSET Conns) \ {{}}]
  BY DEF Init
<1>2. TypeOK
  <2>1. rooms \in RoomMap
    BY <1>1 DEF RoomMap
  <2>2. pub \in [Pubs -> Publisher]
    BY DEF Init, Publisher
  <2> QED
    BY <2>1, <2>2 DEF Init, TypeOK, RoomMap, HandlerPC
<1>3. \A o : Room(o) = {}
  BY <1>1 DEF Room
<1>4. RoomsMatchHandlers /\ LoopSeesRoom /\ WritesInRoom /\ TenantOnly
  BY <1>3 DEF Init, RoomsMatchHandlers, LoopSeesRoom, WritesInRoom, TenantOnly
<1> QED
  BY <1>2, <1>4 DEF HubInv

LEMMA StepHub == HubInv /\ [Next]_vars => HubInv'
<1> SUFFICES ASSUME HubInv, [Next]_vars PROVE HubInv'
  OBVIOUS
<1>1. ASSUME NEW c \in Conns,
             HandlerStep(c) \/ Connect(c) \/ Disconnect(c) \/ Stall(c) \/ Resume(c)
      PROVE  HubInv'
  BY <1>1, EnterKeeps, LeaveKeeps, PeerKeeps DEF HandlerStep
<1>2. ASSUME NEW p \in Pubs, PubStep(p) \/ \E o \in Orgs : BeginPublish(p, o)
      PROVE  HubInv'
  BY <1>2, ReadLockKeeps, StartWriteKeeps, EndWriteKeeps, PublishKeeps DEF PubStep
<1>3. CASE UNCHANGED vars
  BY <1>3, HandlerGoesOn DEF vars, HubInv, TypeOK
<1> QED
  BY <1>1, <1>2, <1>3 DEF Next

-----------------------------------------------------------------------------
(* The theorems.                                                           *)

\* The inductive invariant of the hub: rooms follow their handlers, and what a
\* publisher writes to, now or later in its loop, is in the room of its event.
THEOREM HubInvariant == Spec => []HubInv
BY InitHub, StepHub, PTL DEF Spec

\* Types of the map, the handlers and the publishers; no room is empty.
THEOREM TypeCorrect == Spec => []TypeOK
<1>1. HubInv => TypeOK
  BY DEF HubInv
<1> QED
  BY <1>1, HubInvariant, PTL

\* An event of one company never reaches another company's connection.
THEOREM EventsStayInTenant == Spec => []TenantOnly
<1>1. HubInv => TenantOnly
  BY DEF HubInv
<1> QED
  BY <1>1, HubInvariant, PTL

\* A connection is in its room exactly while its handler serves it.
THEOREM RoomsFollowHandlers == Spec => []RoomsMatchHandlers
<1>1. HubInv => RoomsMatchHandlers
  BY DEF HubInv
<1> QED
  BY <1>1, HubInvariant, PTL

\* No room changes under a publisher that is in its loop.
THEOREM LoopsSeeTheRoom == Spec => []LoopSeesRoom
<1>1. HubInv => LoopSeesRoom
  BY DEF HubInv
<1> QED
  BY <1>1, HubInvariant, PTL
=============================================================================
