------------------------- MODULE WebSocketHubProofs -------------------------
(***************************************************************************)
(* Proofs about WebSocketHub, for every finite set of connections, all     *)
(* rooms and users, every channel capacity and any number of events.       *)
(***************************************************************************)
EXTENDS WebSocketHub, FiniteSetTheorems, TLAPS

LEMMA Parameters == SendCap \in Nat \ {0} /\ UserOf \in [Clients -> Users]
<1>1. SendCap \in {ChanCap, BroadcastCap, SendCap}
  OBVIOUS
<1> QED
  BY <1>1, HubAssumption

LEMMA TypeInit == Init => TypeOK
<1> SUFFICES ASSUME Init PROVE TypeOK
  OBVIOUS
<1> USE Parameters DEF Init
<1>1. lateJoin \in BOOLEAN
  OBVIOUS
<1>2. broadcast \in Seq(Rooms)
  OBVIOUS
<1>3. send \in [Clients -> 0..SendCap] /\ userConns \in [Users -> Nat]
  OBVIOUS
<1>4. /\ conn \in [Clients -> {"none", "up", "down"}]
      /\ reader \in [Clients -> {"none", "reading", "leaving", "done"}]
      /\ writer \in [Clients -> {"none", "writing", "done"}]
  OBVIOUS
<1>5. /\ rooms \in [Rooms -> SUBSET Clients]
      /\ joined \in [Clients -> SUBSET Rooms]
      /\ inflight \in [Rooms -> Nat] /\ events \in Nat
  OBVIOUS
<1> QED
  BY <1>1, <1>2, <1>3, <1>4, <1>5 DEF TypeOK

LEMMA TypeNext == TypeOK /\ [Next]_vars => TypeOK'
<1> SUFFICES ASSUME TypeOK, [Next]_vars PROVE TypeOK'
  OBVIOUS
<1> USE Parameters DEF TypeOK, hubState, pumps, bus
<1>1. ASSUME NEW c \in Clients, Handle(c) \/ Drop(c) \/ ReadError(c) \/ ReadEnd(c) PROVE TypeOK'
  <2>1. CASE Handle(c)
    BY <2>1 DEF Handle
  <2>2. CASE Drop(c)
    BY <2>2 DEF Drop
  <2>3. CASE ReadError(c)
    BY <2>3 DEF ReadError
  <2>4. CASE ReadEnd(c)
    BY <2>4 DEF ReadEnd
  <2> QED BY <1>1, <2>1, <2>2, <2>3, <2>4
<1>2. ASSUME NEW c \in Clients, Write(c) \/ WriteEnd(c) PROVE TypeOK'
  <2>1. /\ conn' \in [Clients -> {"none", "up", "down"}]
        /\ writer' \in [Clients -> {"none", "writing", "done"}]
    BY <1>2 DEF Write, WriteEnd, WriterEnds
  <2>2. send' \in [Clients -> 0..SendCap]
    <3>1. send[c] \in Nat /\ (send[c] > 0 => send[c] - 1 \in 0..SendCap)
      OBVIOUS
    <3> QED BY <1>2, <3>1 DEF Write, WriteEnd
  <2> QED BY <1>2, <2>1, <2>2 DEF Write, WriteEnd
<1>3. ASSUME NEW c \in Clients, NEW r \in Rooms, JoinRoom(c, r) PROVE TypeOK'
  <2>1. lateJoin' \in BOOLEAN
    BY <1>3 DEF JoinRoom
  <2> QED BY <1>3, <2>1 DEF JoinRoom
<1>4. ASSUME NEW c \in Clients, RunRegister(c) PROVE TypeOK'
  BY <1>4 DEF RunRegister
<1>5. ASSUME NEW c \in Clients, RunUnregister(c) PROVE TypeOK'
  <2>1. userConns' \in [Users -> Nat]
    <3>1. CASE userConns' = [userConns EXCEPT ![UserOf[c]] =
                               IF userConns[UserOf[c]] > 0 THEN userConns[UserOf[c]] - 1 ELSE 0]
      <4>1. UserOf[c] \in Users /\ userConns[UserOf[c]] \in Nat
        OBVIOUS
      <4> DEFINE n == IF userConns[UserOf[c]] > 0 THEN userConns[UserOf[c]] - 1 ELSE 0
      <4>2. n \in Nat
        BY <4>1
      <4>3. userConns' = [userConns EXCEPT ![UserOf[c]] = n]
        BY <3>1
      <4> HIDE DEF n
      <4> QED BY <4>1, <4>2, <4>3
    <3>2. CASE UNCHANGED userConns
      BY <3>2
    <3> QED BY <1>5, <3>1, <3>2 DEF RunUnregister
  <2>2. rooms' \in [Rooms -> SUBSET Clients]
    <3>1. CASE rooms' = [r \in Rooms |-> IF r \in joined[c] THEN rooms[r] \ {c} ELSE rooms[r]]
      BY <3>1
    <3>2. CASE UNCHANGED rooms
      BY <3>2
    <3> QED BY <1>5, <3>1, <3>2 DEF RunUnregister
  <2> QED BY <1>5, <2>1, <2>2 DEF RunUnregister
<1>6. CASE RunBroadcast
  <2>1. Head(broadcast) \in Rooms /\ Tail(broadcast) \in Seq(Rooms)
    BY <1>6 DEF RunBroadcast
  <2>2. send' \in [Clients -> 0..SendCap]
    <3>1. CASE UNCHANGED send
      BY <3>1
    <3>2. ASSUME NEW T, send' = [c \in Clients |-> IF c \in T \ Slow(T) THEN send[c] + 1 ELSE send[c]]
          PROVE  send' \in [Clients -> 0..SendCap]
      <4>1. \A c \in Clients : c \in T \ Slow(T) => send[c] + 1 \in 0..SendCap
        BY DEF Slow
      <4> QED BY <3>2, <4>1
    <3> QED BY <1>6, <3>1, <3>2 DEF RunBroadcast
  <2>3. rooms' \in [Rooms -> SUBSET Clients]
    BY <1>6 DEF RunBroadcast
  <2>4. closed' \subseteq Clients
    BY <1>6, <2>1 DEF RunBroadcast, Slow
  <2> QED BY <1>6, <2>1, <2>2, <2>3, <2>4 DEF RunBroadcast
<1>7. ASSUME NEW r \in Rooms, Publish(r) \/ BroadcastToRoom(r) PROVE TypeOK'
  <2>1. CASE Publish(r)
    BY <2>1 DEF Publish
  <2>2. CASE BroadcastToRoom(r)
    <3>1. Append(broadcast, r) \in Seq(Rooms)
      OBVIOUS
    <3>2. inflight[r] \in Nat /\ (inflight[r] > 0 => inflight[r] - 1 \in Nat)
      OBVIOUS
    <3>3. inflight' \in [Rooms -> Nat]
      BY <2>2, <3>2 DEF BroadcastToRoom
    <3> QED BY <2>2, <3>1, <3>3 DEF BroadcastToRoom
  <2> QED BY <1>7, <2>1, <2>2
<1>8. CASE Stop
  BY <1>8 DEF Stop
<1>9. CASE UNCHANGED vars
  BY <1>9 DEF vars
<1> QED
  BY <1>1, <1>2, <1>3, <1>4, <1>5, <1>6, <1>7, <1>8, <1>9
     DEF Next, HubStep, BusStep, ClientStep

\* Every variable keeps its type, and no client's send buffer holds more than
\* its channel does.
THEOREM TypeCorrect == Spec => []TypeOK
BY TypeInit, TypeNext, PTL DEF Spec

-----------------------------------------------------------------------------
(* Timely joins.                                                           *)

\* Until a subscription comes late: rooms and client.rooms agree, a client is
\* registered once, and only registered clients are ever closed.
Timely ==
  /\ hub # "crashed"
  /\ clients \cap closed = {}
  /\ \A r \in Rooms : \A c \in rooms[r] : c \in clients /\ r \in joined[c]
  /\ register \cap (clients \cup closed) = {}
  /\ \A c \in Clients : conn[c] = "none" => c \notin register \cup clients \cup closed

TimelyInv == ~lateJoin => Timely

LEMMA TimelyInit == Init => TimelyInv
BY DEF Init, TimelyInv, Timely

LEMMA TimelyNext == TypeOK /\ TimelyInv /\ [Next]_vars => TimelyInv'
<1> SUFFICES ASSUME TypeOK, TimelyInv, [Next]_vars, ~lateJoin' PROVE Timely'
  BY DEF TimelyInv
<1> USE DEF TypeOK, hubState, pumps, bus
<1>1. ~lateJoin /\ Timely
  <2>1. ~lateJoin
    BY DEF Next, HubStep, BusStep, ClientStep, Handle, Drop, ReadError, ReadEnd, Write, WriteEnd,
           JoinRoom, RunRegister, RunUnregister, RunBroadcast, Stop, Publish, BroadcastToRoom, vars
  <2> QED BY <2>1 DEF TimelyInv
<1>2. ASSUME NEW c \in Clients, Handle(c) PROVE Timely'
  BY <1>1, <1>2 DEF Handle, Timely
<1>3. ASSUME NEW c \in Clients, NEW r \in Rooms, JoinRoom(c, r) PROVE Timely'
  BY <1>1, <1>3 DEF JoinRoom, Timely
<1>4. ASSUME NEW c \in Clients,
             Drop(c) \/ ReadError(c) \/ ReadEnd(c) \/ Write(c) \/ WriteEnd(c)
      PROVE  Timely'
  <2>1. /\ UNCHANGED <<hub, clients, rooms, joined, closed, register>>
        /\ \A d \in Clients : conn'[d] = "none" => conn[d] = "none"
    BY <1>4 DEF Drop, ReadError, ReadEnd, Write, WriteEnd, WriterEnds
  <2> QED BY <1>1, <2>1 DEF Timely
<1>5. ASSUME NEW c \in Clients, RunRegister(c) PROVE Timely'
  BY <1>1, <1>5 DEF RunRegister, Timely
<1>6. ASSUME NEW c \in Clients, RunUnregister(c) PROVE Timely'
  BY <1>1, <1>6 DEF RunUnregister, Timely
<1>7. CASE RunBroadcast
  <2> DEFINE targets == rooms[Head(broadcast)]
             slow == Slow(targets)
  <2>1. Head(broadcast) \in Rooms
    BY <1>7 DEF RunBroadcast
  <2>2. targets \subseteq clients /\ targets \cap closed = {} /\ slow \subseteq clients
    BY <1>1, <2>1 DEF Timely, Slow
  <2>3. /\ closed' = closed \cup slow /\ clients' = clients \ slow
        /\ rooms' = [r \in Rooms |-> rooms[r] \ {c \in slow : r \in joined[c]}]
        /\ UNCHANGED <<hub, joined, register, conn>>
    BY <1>7, <2>2 DEF RunBroadcast
  <2> HIDE DEF targets, slow
  <2> QED BY <1>1, <2>2, <2>3 DEF Timely
<1>8. CASE UNCHANGED <<clients, rooms, joined, closed, register, conn>> /\ hub' # "crashed"
  BY <1>1, <1>8 DEF Timely
<1>9. ASSUME NEW r \in Rooms, Publish(r) \/ BroadcastToRoom(r) PROVE Timely'
  BY <1>1, <1>8, <1>9 DEF Publish, BroadcastToRoom, Timely
<1>10. CASE Stop
  BY <1>1, <1>8, <1>10 DEF Stop
<1>11. CASE UNCHANGED vars
  BY <1>1, <1>8, <1>11 DEF vars, Timely
<1> QED
  BY <1>2, <1>3, <1>4, <1>5, <1>6, <1>7, <1>9, <1>10, <1>11
     DEF Next, HubStep, BusStep, ClientStep

\* The hub goroutine never sends on a closed channel and never closes one
\* twice, in whatever order it serves its channels, unless a subscription was
\* handled while its client was not in h.clients.
THEOREM TimelyJoinsAreSafeCorrect == Spec => []TimelyJoinsAreSafe
<1>1. TimelyInv => TimelyJoinsAreSafe
  BY DEF TimelyInv, Timely, TimelyJoinsAreSafe
<1> QED
  BY <1>1, TypeInit, TypeNext, TimelyInit, TimelyNext, PTL DEF Spec

-----------------------------------------------------------------------------
(* Connections per user.                                                   *)

LEMMA ActiveFinite ==
  ASSUME NEW S, S \subseteq Clients, NEW u
  PROVE  /\ IsFiniteSet({c \in S : UserOf[c] = u})
         /\ Cardinality({c \in S : UserOf[c] = u}) \in Nat
BY HubAssumption, FS_Subset, FS_CardinalityType

LEMMA CoverInit == Init => UserConnsCover
<1> SUFFICES ASSUME Init, NEW u \in Users PROVE Cardinality(Active(u)) <= userConns[u]
  BY DEF UserConnsCover
<1>1. Active(u) = {} /\ userConns[u] = 0
  BY DEF Init, Active
<1> QED
  BY <1>1, FS_EmptySet

LEMMA CoverNext == TypeOK /\ UserConnsCover /\ [Next]_vars => UserConnsCover'
<1> SUFFICES ASSUME TypeOK, UserConnsCover, [Next]_vars, NEW u \in Users
             PROVE  Cardinality(Active(u)') <= userConns'[u]
  BY DEF UserConnsCover
<1>1. /\ IsFiniteSet(Active(u)) /\ Cardinality(Active(u)) \in Nat
      /\ userConns[u] \in Nat /\ Cardinality(Active(u)) <= userConns[u]
  BY ActiveFinite DEF Active, TypeOK, UserConnsCover
<1>2. CASE clients' \subseteq clients /\ userConns'[u] = userConns[u]
  <2>1. Active(u)' \subseteq Active(u)
    BY <1>2 DEF Active
  <2>2. Cardinality(Active(u)') \in Nat /\ Cardinality(Active(u)') <= Cardinality(Active(u))
    BY <1>1, <2>1, FS_Subset, FS_CardinalityType
  <2> QED BY <1>1, <1>2, <2>2
<1>3. ASSUME NEW c \in Clients, RunRegister(c) PROVE Cardinality(Active(u)') <= userConns'[u]
  <2>1. CASE UserOf[c] # u
    <3>1. Active(u)' = Active(u) /\ userConns'[u] = userConns[u]
      BY <1>3, <2>1 DEF RunRegister, Active, TypeOK
    <3> QED BY <1>1, <3>1
  <2>2. CASE UserOf[c] = u
    <3>1. Active(u)' = Active(u) \cup {c} /\ userConns'[u] = userConns[u] + 1
      BY <1>3, <2>2, HubAssumption DEF RunRegister, Active, TypeOK
    <3>2. Cardinality(Active(u) \cup {c}) \in {Cardinality(Active(u)), Cardinality(Active(u)) + 1}
      BY <1>1, FS_AddElement
    <3> QED BY <1>1, <3>1, <3>2
  <2> QED BY <2>1, <2>2
<1>4. ASSUME NEW c \in Clients, RunUnregister(c) PROVE Cardinality(Active(u)') <= userConns'[u]
  <2>1. CASE c \notin clients \/ UserOf[c] # u
    BY <1>2, <1>4, <2>1 DEF RunUnregister, TypeOK
  <2>2. CASE c \in clients /\ UserOf[c] = u
    <3>1. /\ Active(u)' = Active(u) \ {c} /\ c \in Active(u)
          /\ userConns'[u] = IF userConns[u] > 0 THEN userConns[u] - 1 ELSE 0
      BY <1>4, <2>2, HubAssumption DEF RunUnregister, Active, TypeOK
    <3>2. Cardinality(Active(u) \ {c}) = Cardinality(Active(u)) - 1
      BY <1>1, <3>1, FS_RemoveElement
    <3>3. Cardinality(Active(u)) # 0
      BY <1>1, <3>1, FS_EmptySet
    <3> QED BY <1>1, <3>1, <3>2, <3>3
  <2> QED BY <2>1, <2>2
<1>5. CASE RunBroadcast
  BY <1>2, <1>5 DEF RunBroadcast
<1>6. CASE UNCHANGED <<clients, userConns>>
  BY <1>2, <1>6
<1> QED
  BY <1>3, <1>4, <1>5, <1>6
     DEF Next, HubStep, BusStep, ClientStep, Handle, Drop, ReadError, ReadEnd, Write, WriteEnd,
         JoinRoom, Stop, Publish, BroadcastToRoom, vars, hubState

\* The count kept for a user never falls below the connections the hub holds
\* for it.
THEOREM UserConnsCoverCorrect == Spec => []UserConnsCover
BY TypeInit, TypeNext, CoverInit, CoverNext, PTL DEF Spec

=============================================================================
