-------------------------------- MODULE Hub --------------------------------
(***************************************************************************)
(* The realtime hub of services/api/internal/realtime/hub.go with the       *)
(* goroutines that use it: the websocket handler of every connection        *)
(* (server.go, ws) adds and removes it, and every check-out publishes.      *)
(*                                                                         *)
(* Hub.mu is a sync.RWMutex.  Publish writes to the sockets while it holds  *)
(* the read lock, and a write has no deadline: it lasts as long as the peer *)
(* does not read.  A goroutine that has asked for the write lock keeps new  *)
(* readers out until it has had it.                                         *)
(***************************************************************************)
EXTENDS FiniteSets

CONSTANTS
  Orgs,    \* organizations
  Conns,   \* websocket connections
  Pubs,    \* goroutines that publish
  orgOf,   \* the organization of each connection, from its session
  None     \* no connection

ASSUME HubAssumption == orgOf \in [Conns -> Orgs] /\ None \notin Conns

VARIABLES
  rooms,     \* the connections of each organization that has any
  handler,   \* per connection, where its ws handler is
  writer,    \* the connection whose handler has asked for the write lock
  readers,   \* the publishers that hold the read lock
  pub,       \* per publisher, where it is in Publish
  stalled,   \* connections whose peer does not read
  received   \* per connection, the organizations whose events reached it

vars == <<rooms, handler, writer, readers, pub, stalled, received>>

HandlerPC == {"closed", "adding", "reading", "leaving"}

\* todo: the connections the loop of Publish has still to write to; conn: the
\* one it is writing to.
Publisher ==
  [pc: {"idle"}]
    \cup [pc: {"rlock"}, org: Orgs]
    \cup [pc: {"loop"}, org: Orgs, todo: SUBSET Conns]
    \cup [pc: {"write"}, org: Orgs, todo: SUBSET Conns, conn: Conns]

\* The set of connections filed under o; the map has no entry for an empty one.
Room(o) == IF o \in DOMAIN rooms THEN rooms[o] ELSE {}

\* The map with the connections of o replaced.
Refile(o, S) ==
  [r \in (DOMAIN rooms \cup {o}) \ (IF S = {} THEN {o} ELSE {}) |-> IF r = o THEN S ELSE rooms[r]]

\* The handler has closed the connection: c.Close() runs before hub.Remove.
Closed(c) == handler[c] \in {"closed", "leaving"}

Init ==
  /\ rooms = << >>
  /\ handler = [c \in Conns |-> "closed"]
  /\ writer = None
  /\ readers = {}
  /\ pub = [p \in Pubs |-> [pc |-> "idle"]]
  /\ stalled = {}
  /\ received = [c \in Conns |-> {}]

-----------------------------------------------------------------------------
(* The ws handler of a connection.                                         *)

\* The upgrade succeeded; Add is about to ask for the lock.
Connect(c) ==
  /\ handler[c] = "closed"
  /\ handler' = [handler EXCEPT ![c] = "adding"]
  /\ UNCHANGED <<rooms, writer, readers, pub, stalled, received>>

\* mu.Lock(): writers take turns, and from here on new readers wait.
AskLock(c) ==
  /\ handler[c] \in {"adding", "leaving"}
  /\ writer = None
  /\ writer' = c
  /\ UNCHANGED <<rooms, handler, readers, pub, stalled, received>>

\* Add, once the readers have left.
Enter(c) ==
  /\ writer = c
  /\ readers = {}
  /\ handler[c] = "adding"
  /\ rooms' = Refile(orgOf[c], Room(orgOf[c]) \cup {c})
  /\ handler' = [handler EXCEPT ![c] = "reading"]
  /\ writer' = None
  /\ UNCHANGED <<readers, pub, stalled, received>>

\* ReadMessage returns an error: the peer has gone.  The connection is closed,
\* which ends a write to it, and Remove is next.
Disconnect(c) ==
  /\ handler[c] = "reading"
  /\ handler' = [handler EXCEPT ![c] = "leaving"]
  /\ stalled' = stalled \ {c}
  /\ UNCHANGED <<rooms, writer, readers, pub, received>>

\* Slip: the handler returns without removing its connection.
Leave_KeepInRoom(c) ==
  /\ writer = c
  /\ readers = {}
  /\ handler[c] = "leaving"
  /\ handler' = [handler EXCEPT ![c] = "closed"]
  /\ writer' = None
  /\ received' = [received EXCEPT ![c] = {}]
  /\ UNCHANGED <<rooms, readers, pub, stalled>>

\* Slip: the room is kept when its last connection leaves.
Leave_KeepRoom(c) ==
  /\ writer = c
  /\ readers = {}
  /\ handler[c] = "leaving"
  /\ rooms' = [rooms EXCEPT ![orgOf[c]] = @ \ {c}]
  /\ handler' = [handler EXCEPT ![c] = "closed"]
  /\ writer' = None
  /\ received' = [received EXCEPT ![c] = {}]
  /\ UNCHANGED <<readers, pub, stalled>>

\* Slip: Remove under no more than the read lock.
Leave_AmongReaders(c) ==
  /\ writer = c
  /\ handler[c] = "leaving"
  /\ rooms' = Refile(orgOf[c], Room(orgOf[c]) \ {c})
  /\ handler' = [handler EXCEPT ![c] = "closed"]
  /\ writer' = None
  /\ received' = [received EXCEPT ![c] = {}]
  /\ UNCHANGED <<readers, pub, stalled>>

\* Remove, once the readers have left.  The next connection starts afresh.
Leave(c) ==
  /\ writer = c
  /\ readers = {}
  /\ handler[c] = "leaving"
  /\ rooms' = Refile(orgOf[c], Room(orgOf[c]) \ {c})
  /\ handler' = [handler EXCEPT ![c] = "closed"]
  /\ writer' = None
  /\ received' = [received EXCEPT ![c] = {}]
  /\ UNCHANGED <<readers, pub, stalled>>

-----------------------------------------------------------------------------
(* Publish.                                                                *)

Become(p, r) == pub' = [pub EXCEPT ![p] = r]

\* A check-out of organization o has committed.  (No check-in does, and a
\* check-out only with the simple protocol: Attendance.)
BeginPublish(p, o) ==
  /\ pub[p].pc = "idle"
  /\ Become(p, [pc |-> "rlock", org |-> o])
  /\ UNCHANGED <<rooms, handler, writer, readers, stalled, received>>

\* Slip: the loop ranges over every room.
ReadLock_AllRooms(p) ==
  /\ pub[p].pc = "rlock"
  /\ writer = None
  /\ Become(p, [pc |-> "loop", org |-> pub[p].org, todo |-> UNION {Room(o) : o \in Orgs}])
  /\ readers' = readers \cup {p}
  /\ UNCHANGED <<rooms, handler, writer, stalled, received>>

\* mu.RLock(), which waits for a writer that has asked.  No room changes while
\* a reader is in, so the loop's connections are those of now.
ReadLock(p) ==
  /\ pub[p].pc = "rlock"
  /\ writer = None
  /\ Become(p, [pc |-> "loop", org |-> pub[p].org, todo |-> Room(pub[p].org)])
  /\ readers' = readers \cup {p}
  /\ UNCHANGED <<rooms, handler, writer, stalled, received>>

Busy(p, c) == \E q \in Pubs \ {p} : pub[q].pc = "write" /\ pub[q].conn = c

\* The next connection, in any order: the loop ranges over a map.  Two
\* goroutines that write to one connection at a time are beyond what it
\* allows: the second panics - the deferred RUnlock runs, net/http recovers,
\* and the rest of the room is not served - or the frames are mixed, which is
\* not told apart here from two writes.
StartWrite(p) ==
  /\ pub[p].pc = "loop"
  /\ \E c \in pub[p].todo :
       \/ /\ Become(p, [pc |-> "write", org |-> pub[p].org, todo |-> pub[p].todo \ {c}, conn |-> c])
          /\ UNCHANGED readers
       \/ /\ Busy(p, c)
          /\ Become(p, [pc |-> "idle"])
          /\ readers' = readers \ {p}
  /\ UNCHANGED <<rooms, handler, writer, stalled, received>>

\* WriteJSON returns: the frame is out, or the connection is closed and the
\* error ignored.
EndWrite(p) ==
  LET c == pub[p].conn
  IN  /\ pub[p].pc = "write"
      /\ c \notin stalled
      /\ received' = IF Closed(c) THEN received
                     ELSE [received EXCEPT ![c] = @ \cup {pub[p].org}]
      /\ Become(p, [pc |-> "loop", org |-> pub[p].org, todo |-> pub[p].todo])
      /\ UNCHANGED <<rooms, handler, writer, readers, stalled>>

\* Slip: the response is sent and the read lock still held.
ReadUnlock_Forgotten(p) ==
  /\ pub[p].pc = "loop"
  /\ pub[p].todo = {}
  /\ Become(p, [pc |-> "idle"])
  /\ UNCHANGED <<rooms, handler, writer, readers, stalled, received>>

\* The loop is over: RUnlock, and the response is sent.
ReadUnlock(p) ==
  /\ pub[p].pc = "loop"
  /\ pub[p].todo = {}
  /\ Become(p, [pc |-> "idle"])
  /\ readers' = readers \ {p}
  /\ UNCHANGED <<rooms, handler, writer, stalled, received>>

-----------------------------------------------------------------------------
(* The peers.                                                              *)

\* A phone without signal, a tab that is suspended: nothing is read, and
\* nothing tells the handler.
Stall(c) ==
  /\ handler[c] = "reading"
  /\ c \notin stalled
  /\ stalled' = stalled \cup {c}
  /\ UNCHANGED <<rooms, handler, writer, readers, pub, received>>

Resume(c) ==
  /\ c \in stalled
  /\ stalled' = stalled \ {c}
  /\ UNCHANGED <<rooms, handler, writer, readers, pub, received>>

HandlerStep(c) == AskLock(c) \/ Enter(c) \/ Leave(c)
PubStep(p) == ReadLock(p) \/ StartWrite(p) \/ EndWrite(p) \/ ReadUnlock(p)

Next ==
  \/ \E c \in Conns :
       HandlerStep(c) \/ Connect(c) \/ Disconnect(c) \/ Stall(c) \/ Resume(c)
  \/ \E p \in Pubs : PubStep(p) \/ \E o \in Orgs : BeginPublish(p, o)

Spec == Init /\ [][Next]_vars

\* Goroutines that can go on do.  sync.RWMutex starves neither side: a writer
\* that has asked is next, and the readers that waited for it go before the
\* next writer.  A write ends if its peer reads again and again; that a peer
\* does read is not assumed.
Fairness ==
  /\ \A c \in Conns : SF_vars(AskLock(c)) /\ WF_vars(Enter(c) \/ Leave(c))
  /\ \A p \in Pubs : SF_vars(ReadLock(p)) /\ SF_vars(EndWrite(p))
                     /\ WF_vars(StartWrite(p) \/ ReadUnlock(p))

FairSpec == Spec /\ Fairness

-----------------------------------------------------------------------------
(* Properties.                                                             *)

\* Types; the map has no empty room, and a publisher holds the read lock exactly
\* while it is in its loop.
TypeOK ==
  /\ rooms \in UNION {[S -> (SUBSET Conns) \ {{}}] : S \in SUBSET Orgs}
  /\ handler \in [Conns -> HandlerPC]
  /\ writer \in Conns \cup {None}
  /\ pub \in [Pubs -> Publisher]
  /\ readers = {p \in Pubs : pub[p].pc \in {"loop", "write"}}
  /\ stalled \subseteq Conns
  /\ received \in [Conns -> SUBSET Orgs]

\* An event of one company never reaches another company's connection.
TenantOnly == \A c \in Conns : received[c] \subseteq {orgOf[c]}

\* A connection is in its room exactly while its handler reads or leaves, so no
\* room keeps a connection that is gone.
RoomsMatchHandlers ==
  \A o \in Orgs : Room(o) = {c \in Conns : orgOf[c] = o /\ handler[c] \in {"reading", "leaving"}}

\* No room changes while a publisher is in its loop: what it has left to write
\* to is still in the room.
LoopSeesRoom == \A p \in readers : pub[p].todo \subseteq Room(pub[p].org)

\* Every publish ends, and every handler gets in and out, as long as no peer
\* stays stalled for ever.
EndsUnlessStalled ==
  (\A c \in Conns : []<>(c \notin stalled)) =>
    /\ \A p \in Pubs : pub[p].pc = "rlock" ~> pub[p].pc = "idle"
    /\ \A c \in Conns : handler[c] \in {"adding", "leaving"}
                          ~> handler[c] \in {"reading", "closed"}

-----------------------------------------------------------------------------
(* What the plan says and the code does not do.                            *)

\* Attendance is not coupled to the websockets: whatever a peer does, the
\* publish that a check-out waits for ends.
PublishEnds == \A p \in Pubs : pub[p].pc = "rlock" ~> pub[p].pc = "idle"
=============================================================================
