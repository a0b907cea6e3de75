---------------------------- MODULE WebSocketHub ----------------------------
(***************************************************************************)
(* The WebSocket hub (internal/websocket/hub.go), the event bus that feeds *)
(* it and the two pump goroutines of every connection.                     *)
(*                                                                         *)
(* The hub goroutine selects among three channels; Go picks any that is    *)
(* ready.  A client passes through the register and unregister channels at *)
(* most once, so each is modelled as the set of clients in it.  A message  *)
(* is reduced to the room it is for, a send buffer to its length.          *)
(***************************************************************************)
EXTENDS Naturals, Sequences, FiniteSets

CONSTANTS
  Clients,          \* WebSocket connections
  Users,
  UserOf,           \* client -> its user
  Rooms,
  ChanCap,          \* capacity of register and unregister (256)
  BroadcastCap,     \* capacity of broadcast (2048)
  SendCap,          \* capacity of a client's send channel (256)
  MaxEvents         \* bound: events published

ASSUME HubAssumption ==
  /\ UserOf \in [Clients -> Users]
  /\ {ChanCap, BroadcastCap, SendCap} \subseteq Nat \ {0}
  /\ MaxEvents \in Nat
  /\ IsFiniteSet(Clients)

VARIABLES
  hub,         \* the hub goroutine: "running", "stopped" or "crashed"
  clients,     \* h.clients
  rooms,       \* h.rooms
  joined,      \* client.rooms
  userConns,   \* h.userConns
  register, unregister, broadcast,   \* the hub's channels
  send,        \* messages in each client's send channel
  closed,      \* clients whose send channel is closed
  conn,        \* the connection: "none", "up" or "down"
  reader,      \* ReadPump
  writer,      \* WritePump
  inflight,    \* handler goroutines of the event bus, by the room they feed
  events,      \* events published
  lateJoin     \* history: a room was joined by a client not in h.clients

hubState == <<clients, rooms, joined, userConns, closed>>
pumps    == <<conn, reader, writer>>
bus      == <<inflight, events>>
vars == <<hub, hubState, register, unregister, broadcast, send, pumps, bus, lateJoin>>

Init ==
  /\ hub = "running"
  /\ clients = {} /\ closed = {}
  /\ rooms = [r \in Rooms |-> {}]
  /\ joined = [c \in Clients |-> {}]
  /\ userConns = [u \in Users |-> 0]
  /\ register = {} /\ unregister = {} /\ broadcast = << >>
  /\ send = [c \in Clients |-> 0]
  /\ conn = [c \in Clients |-> "none"]
  /\ reader = [c \in Clients |-> "none"]
  /\ writer = [c \in Clients |-> "none"]
  /\ inflight = [r \in Rooms |-> 0] /\ events = 0
  /\ lateJoin = FALSE

-----------------------------------------------------------------------------
(* Connections.                                                            *)

\* WSHandler.Handle: upgrade, Register (blocks while the channel is full),
\* start both pumps.  Nobody asks how many connections the user has.
Handle(c) ==
  /\ conn[c] = "none"
  /\ Cardinality(register) < ChanCap
  /\ register' = register \cup {c}
  /\ conn' = [conn EXCEPT ![c] = "up"]
  /\ reader' = [reader EXCEPT ![c] = "reading"]
  /\ writer' = [writer EXCEPT ![c] = "writing"]
  /\ UNCHANGED <<hub, hubState, unregister, broadcast, send, bus, lateJoin>>

\* The peer goes away.
Drop(c) ==
  /\ conn[c] = "up"
  /\ conn' = [conn EXCEPT ![c] = "down"]
  /\ UNCHANGED <<hub, hubState, register, unregister, broadcast, send, reader,
                 writer, bus, lateJoin>>

\* ReadPump handles a subscribe message: JoinRoom, under the hub's mutex.
JoinRoom(c, r) ==
  /\ reader[c] = "reading" /\ conn[c] = "up"
  /\ rooms' = [rooms EXCEPT ![r] = @ \cup {c}]
  /\ joined' = [joined EXCEPT ![c] = @ \cup {r}]
  /\ lateJoin' = (lateJoin \/ c \notin clients)
  /\ UNCHANGED <<hub, clients, userConns, closed, register, unregister,
                 broadcast, send, pumps, bus>>

\* ReadMessage fails: the connection is down, or a limit or deadline is hit.
ReadError(c) ==
  /\ reader[c] = "reading"
  /\ reader' = [reader EXCEPT ![c] = "leaving"]
  /\ UNCHANGED <<hub, hubState, register, unregister, broadcast, send, conn,
                 writer, bus, lateJoin>>

\* ReadPump's deferred calls: unregister (blocks while full), close.
ReadEnd(c) ==
  /\ reader[c] = "leaving"
  /\ Cardinality(unregister) < ChanCap
  /\ unregister' = unregister \cup {c}
  /\ reader' = [reader EXCEPT ![c] = "done"]
  /\ conn' = [conn EXCEPT ![c] = "down"]
  /\ UNCHANGED <<hub, hubState, register, broadcast, send, writer, bus, lateJoin>>

WriterEnds(c) ==
  /\ writer' = [writer EXCEPT ![c] = "done"]
  /\ conn' = [conn EXCEPT ![c] = "down"]

\* WritePump takes a message: written, or a write error ends the pump.
Write(c) ==
  /\ writer[c] = "writing"
  /\ send[c] > 0
  /\ send' = [send EXCEPT ![c] = @ - 1]
  /\ \/ conn[c] = "up" /\ UNCHANGED <<writer, conn>>
     \/ WriterEnds(c)
  /\ UNCHANGED <<hub, hubState, register, unregister, broadcast, reader, bus,
                 lateJoin>>

\* Mutant: the write pump does not notice a closed channel.
WriteEndOnPing(c) ==
  /\ writer[c] = "writing"
  /\ conn[c] = "down" /\ c \notin closed
  /\ WriterEnds(c)
  /\ UNCHANGED <<hub, hubState, register, unregister, broadcast, send, reader,
                 bus, lateJoin>>

\* The channel is closed and drained, or a ping finds the connection down.
WriteEnd(c) ==
  /\ writer[c] = "writing"
  /\ \/ c \in closed /\ send[c] = 0
     \/ conn[c] = "down"
  /\ WriterEnds(c)
  /\ UNCHANGED <<hub, hubState, register, unregister, broadcast, send, reader,
                 bus, lateJoin>>

-----------------------------------------------------------------------------
(* Event bus: every handler call is a goroutine of its own.  A task event, *)
(* which its handler forwards to two rooms, counts as two events here.     *)

Publish(r) ==
  /\ events < MaxEvents
  /\ events' = events + 1
  /\ inflight' = [inflight EXCEPT ![r] = @ + 1]
  /\ UNCHANGED <<hub, hubState, register, unregister, broadcast, send, pumps,
                 lateJoin>>

\* BroadcastToRoom: blocks while the broadcast channel is full.
BroadcastToRoom(r) ==
  /\ inflight[r] > 0
  /\ Len(broadcast) < BroadcastCap
  /\ broadcast' = Append(broadcast, r)
  /\ inflight' = [inflight EXCEPT ![r] = @ - 1]
  /\ UNCHANGED <<hub, hubState, register, unregister, send, pumps, events, lateJoin>>

-----------------------------------------------------------------------------
(* The hub goroutine.                                                      *)

RunRegister(c) ==
  /\ hub = "running"
  /\ c \in register
  /\ register' = register \ {c}
  /\ clients' = clients \cup {c}
  /\ userConns' = [userConns EXCEPT ![UserOf[c]] = @ + 1]
  /\ UNCHANGED <<hub, rooms, joined, closed, unregister, broadcast, send, pumps,
                 bus, lateJoin>>

\* Mutant: the count goes down for clients that are not registered, too.
RunUnregisterAlways(c) ==
  /\ hub = "running"
  /\ c \in unregister
  /\ unregister' = unregister \ {c}
  /\ IF c \in clients
     THEN /\ clients' = clients \ {c}
          /\ closed' = closed \cup {c}
          /\ rooms' = [r \in Rooms |-> IF r \in joined[c] THEN rooms[r] \ {c} ELSE rooms[r]]
     ELSE UNCHANGED <<clients, closed, rooms>>
  /\ userConns' = [userConns EXCEPT ![UserOf[c]] = IF @ > 0 THEN @ - 1 ELSE 0]
  /\ UNCHANGED <<hub, joined, register, broadcast, send, pumps, bus, lateJoin>>

\* Mutant: the client stays in its rooms.
RunUnregisterKeepsRooms(c) ==
  /\ hub = "running"
  /\ c \in unregister
  /\ unregister' = unregister \ {c}
  /\ IF c \in clients
     THEN /\ clients' = clients \ {c}
          /\ closed' = closed \cup {c}
          /\ userConns' = [userConns EXCEPT ![UserOf[c]] = IF @ > 0 THEN @ - 1 ELSE 0]
     ELSE UNCHANGED <<clients, closed, userConns>>
  /\ UNCHANGED <<hub, rooms, joined, register, broadcast, send, pumps, bus, lateJoin>>

\* A client that is not in h.clients is ignored.
RunUnregister(c) ==
  /\ hub = "running"
  /\ c \in unregister
  /\ unregister' = unregister \ {c}
  /\ \/ /\ c \in clients
        /\ hub' = IF c \in closed THEN "crashed" ELSE hub
        /\ clients' = clients \ {c}
        /\ closed' = closed \cup {c}
        /\ rooms' = [r \in Rooms |-> IF r \in joined[c] THEN rooms[r] \ {c} ELSE rooms[r]]
        /\ userConns' = [userConns EXCEPT ![UserOf[c]] = IF @ > 0 THEN @ - 1 ELSE 0]
     \/ /\ c \notin clients
        /\ UNCHANGED <<hub, clients, closed, rooms, userConns>>
  /\ UNCHANGED <<joined, register, broadcast, send, pumps, bus, lateJoin>>

\* The clients a send to would block.
Slow(targets) == {c \in targets : send[c] = SendCap}

\* The clients of a room whose buffer is full are closed and removed; their
\* user's count stays.  A send on a closed channel panics.
RunBroadcast ==
  /\ hub = "running"
  /\ broadcast # << >>
  /\ broadcast' = Tail(broadcast)
  /\ LET targets == rooms[Head(broadcast)]
         slow == Slow(targets) IN
     \/ /\ targets \cap closed # {}
        /\ hub' = "crashed"
        /\ UNCHANGED <<clients, closed, rooms, send>>
     \/ /\ targets \cap closed = {}
        /\ send' = [c \in Clients |-> IF c \in targets \ slow THEN send[c] + 1 ELSE send[c]]
        /\ closed' = closed \cup slow
        /\ clients' = clients \ slow
        /\ rooms' = [r \in Rooms |-> rooms[r] \ {c \in slow : r \in joined[c]}]
        /\ UNCHANGED hub
  /\ UNCHANGED <<joined, userConns, register, unregister, pumps, bus, lateJoin>>

\* The server's context is cancelled.
Stop ==
  /\ hub = "running"
  /\ hub' = "stopped"
  /\ UNCHANGED <<hubState, register, unregister, broadcast, send, pumps, bus, lateJoin>>

ClientStep(c) ==
  \/ Handle(c) \/ Drop(c) \/ ReadError(c) \/ ReadEnd(c) \/ Write(c) \/ WriteEnd(c)
  \/ \E r \in Rooms : JoinRoom(c, r)

HubStep == RunBroadcast \/ \E c \in Clients : RunRegister(c) \/ RunUnregister(c)

BusStep == \E r \in Rooms : Publish(r) \/ BroadcastToRoom(r)

\* A panic of the hub goroutine ends the process.
Next ==
  /\ hub # "crashed"
  /\ HubStep \/ BusStep \/ Stop \/ \E c \in Clients : ClientStep(c)

Spec == Init /\ [][Next]_vars

\* The pumps run; a read of a connection that is down fails at last, by the
\* pong deadline; a goroutine blocked on a full channel gets its turn.
Fairness ==
  /\ \A c \in Clients :
       /\ WF_vars(hub # "crashed" /\ conn[c] = "down" /\ ReadError(c))
       /\ WF_vars(hub # "crashed" /\ (Write(c) \/ WriteEnd(c)))
       /\ SF_vars(hub # "crashed" /\ ReadEnd(c))
  /\ WF_vars(HubStep)

FairSpec == Spec /\ Fairness

-----------------------------------------------------------------------------
(* Properties.                                                             *)

\* The type of every variable; no channel exceeds its capacity.
TypeOK ==
  /\ hub \in {"running", "stopped", "crashed"}
  /\ clients \subseteq Clients /\ closed \subseteq Clients
  /\ rooms \in [Rooms -> SUBSET Clients]
  /\ joined \in [Clients -> SUBSET Rooms]
  /\ userConns \in [Users -> Nat]
  /\ register \subseteq Clients /\ unregister \subseteq Clients
  /\ broadcast \in Seq(Rooms)
  /\ send \in [Clients -> 0..SendCap]
  /\ conn \in [Clients -> {"none", "up", "down"}]
  /\ reader \in [Clients -> {"none", "reading", "leaving", "done"}]
  /\ writer \in [Clients -> {"none", "writing", "done"}]
  /\ inflight \in [Rooms -> Nat] /\ events \in Nat /\ lateJoin \in BOOLEAN

Active(u) == {c \in clients : UserOf[c] = u}

\* A user is never counted with fewer connections than the hub has for it,
\* in whatever order the hub serves its channels (a limit that used the count
\* could refuse too early, never let too many in).
UserConnsCover == \A u \in Users : Cardinality(Active(u)) <= userConns[u]

\* As long as every subscription arrives while its client is in h.clients,
\* rooms hold only such clients and the hub neither sends on a closed channel
\* nor closes one twice, whoever is slow and whoever leaves.
TimelyJoinsAreSafe ==
  ~lateJoin => /\ hub # "crashed"
               /\ \A r \in Rooms : rooms[r] \subseteq clients
               /\ clients \cap closed = {}

\* Both pumps of a connection that is down end, so that its goroutines are not
\* leaked, as long as the hub goroutine runs.
PumpsEnd ==
  \A c \in Clients :
    conn[c] = "down" ~> \/ reader[c] = "done" /\ writer[c] = "done"
                        \/ hub # "running"

=============================================================================
