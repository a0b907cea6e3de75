----------------------- MODULE ProviderSessionProofs -----------------------
(***************************************************************************)
(* Proofs about ProviderSession, for every number of sessions, hypervisors *)
(* and connections and any number of faults.                               *)
(***************************************************************************)
EXTENDS ProviderSession, TLAPS

\* The type of what a session is, and of what it has been started for.
ControlType ==
  /\ pc \in [Sessions -> SessionPC]
  /\ kind \in [Sessions -> AllKinds \cup {"none"}]
  /\ target \in [Sessions -> Hypervisors \cup {None}]
  /\ \A s \in Sessions :
       /\ pc[s] # "idle" => kind[s] \in AllKinds /\ target[s] \in Hypervisors
       /\ pc[s] \in {"dial", "store", "flag", "logout", "clear", "unflag"} => Connects(kind[s])
       /\ pc[s] \in {"ready", "find", "assert", "op", "write"} => kind[s] # "test"

\* Connections: whoever refers to one refers to one that was dialled.
LinkType ==
  /\ dials \in 0..MaxDials
  /\ own \in [Sessions -> 1..dials \cup {None}]
  /\ bound \in [Sessions -> 1..dials \cup {None}]
  /\ conn \in 1..dials \cup {None}
  /\ open \subseteq 1..dials
  /\ host \in [1..MaxDials -> Hypervisors \cup {None}]
  /\ \A c \in 1..dials : host[c] \in Hypervisors
  /\ \A s \in Sessions : pc[s] \in {"store", "flag"} => own[s] # None
  /\ \A s \in Sessions : pc[s] \in {"assert", "op"} => bound[s] # None

\* The VMs and their rows, and what a sync fetched.
MachineType ==
  /\ seen \in [Sessions -> PowerStates \cup {"none"}]
  /\ power \in [Hypervisors -> PowerStates]
  /\ row \in [Hypervisors -> RowStates]
  /\ \A s \in Sessions : pc[s] = "write" => /\ kind[s] \in Rereads
                                            /\ kind[s] = "sync" => seen[s] # "none"

FlagType ==
  /\ connected \in BOOLEAN /\ alone \in [Sessions -> BOOLEAN]
  /\ overlapped \in BOOLEAN /\ faults \in Nat

TypeInv == ControlType /\ LinkType /\ MachineType /\ FlagType

\* The handlers are those of the kinds that operate on a VM.
LEMMA HandlerType ==
  /\ DOMAIN Handler = {"powerOn", "powerOff", "suspend", "reboot", "delete"}
  /\ \A k \in DOMAIN Handler : /\ Handler[k].op.to \in PowerStates
                               /\ Handler[k].op.from \subseteq Alive
  /\ \A k \in DOMAIN Handler \ {"reboot"} : /\ Handler[k].row \in PowerStates
                                            /\ Handler[k].row = Handler[k].op.to
  /\ Handler["reboot"].op.to = "running" /\ Handler["reboot"].op.from = {"running"}
BY DEF Handler, handleVMPowerOn, handleVMPowerOff, handleVMSuspend, handleVMReboot, handleVMDelete,
       PowerOn, PowerOff, Suspend, Reboot, DeleteVM, PowerStates, Alive

\* What Operate may do to the VM, to its row and to the session.
LEMMA OperateEffect ==
  ASSUME NEW s \in Sessions, Operate(s)
  PROVE  LET h == host[bound[s]] IN
         /\ pc[s] = "op"
         /\ UNCHANGED row \/ (kind[s] = "delete" /\ SetRow(target[s], "error"))
         /\ \/ UNCHANGED power
            \/ power' = [power EXCEPT ![h] = "stopped"]
            \/ kind[s] \in DOMAIN Handler /\ power' = [power EXCEPT ![h] = Handler[kind[s]].op.to]
         /\ \/ UNCHANGED seen
            \/ seen' = [seen EXCEPT ![s] = IF kind[s] = "sync" THEN power[h] ELSE @]
         /\ \/ Goto(s, "leave")
            \/ /\ Goto(s, "write") /\ kind[s] # "console"
               /\ kind[s] \in DOMAIN Handler \/ seen' = [seen EXCEPT ![s] = IF kind[s] = "sync" THEN power[h] ELSE @]
         /\ UNCHANGED <<kind, target, own, bound, alone, object, logins, overlapped>>
BY DEF Operate, Fail

LEMMA TypeInit == Init => TypeInv
<1> SUFFICES ASSUME Init PROVE TypeInv
  OBVIOUS
<1> USE SessionAssumption DEF Init
<1>1. ControlType
  BY DEF ControlType, Connects, SessionPC
<1>2. LinkType
  BY DEF LinkType
<1>3. MachineType
  BY DEF MachineType, PowerStates, RowStates
<1>4. FlagType
  BY DEF FlagType
<1> QED
  BY <1>1, <1>2, <1>3, <1>4 DEF TypeInv

LEMMA ControlNext == ControlType /\ [Next]_vars => ControlType'
<1> SUFFICES ASSUME ControlType, [Next]_vars PROVE ControlType'
  OBVIOUS
<1> USE SessionAssumption
<1> USE DEF ControlType, Connects, SessionPC, AllKinds, object, logins, local, machine, history, Goto
<1>p. ASSUME NEW s \in Sessions, pc[s] # "idle", Panic(s) PROVE ControlType'
  BY <1>p DEF Panic, End
<1>1. ASSUME NEW s \in Sessions, Start(s) PROVE ControlType'
  BY <1>1 DEF Start, SetRow, Connects
<1>2. ASSUME NEW s \in Sessions, Dial(s) PROVE ControlType'
  BY <1>2 DEF Dial, End
<1>3. ASSUME NEW s \in Sessions, Store(s) PROVE ControlType'
  BY <1>3 DEF Store
<1>4. ASSUME NEW s \in Sessions, Flag(s) PROVE ControlType'
  BY <1>4 DEF Flag
<1>5. ASSUME NEW s \in Sessions, EnsureConnected(s) PROVE ControlType'
  BY <1>5 DEF EnsureConnected, Fail, SetRow
<1>6. ASSUME NEW s \in Sessions, FindVM(s) PROVE ControlType'
  BY <1>6, <1>p DEF FindVM, Fail, SetRow
<1>7. ASSUME NEW s \in Sessions, AssertPowerState(s) PROVE ControlType'
  BY <1>7, <1>p DEF AssertPowerState, Fail, SetRow
<1>8. ASSUME NEW s \in Sessions, Operate(s) PROVE ControlType'
  BY <1>8 DEF Operate, Fail, SetRow, Fault
<1>9. ASSUME NEW s \in Sessions, WriteRow(s) PROVE ControlType'
  BY <1>9 DEF WriteRow, SetRow, Fault
<1>10. ASSUME NEW s \in Sessions, Disconnect(s) PROVE ControlType'
  BY <1>10 DEF Disconnect, End
<1>11. ASSUME NEW s \in Sessions, Logout(s) PROVE ControlType'
  BY <1>11, <1>p DEF Logout, Fault
<1>12. ASSUME NEW s \in Sessions, Clear(s) PROVE ControlType'
  BY <1>12 DEF Clear
<1>13. ASSUME NEW s \in Sessions, Unflag(s) PROVE ControlType'
  BY <1>13 DEF Unflag, End
<1>14. CASE UNCHANGED vars
  BY <1>14 DEF vars
<1> QED
  BY <1>1, <1>2, <1>3, <1>4, <1>5, <1>6, <1>7, <1>8, <1>9, <1>10, <1>11, <1>12,
     <1>13, <1>14 DEF Next, Step

LEMMA LinkNext == TypeInv /\ [Next]_vars => LinkType'
<1> SUFFICES ASSUME TypeInv, [Next]_vars PROVE LinkType'
  OBVIOUS
<1> USE SessionAssumption
<1> USE DEF TypeInv, ControlType, LinkType, AllKinds, object, logins, local, machine, history, Goto
<1>p. ASSUME NEW s \in Sessions, pc[s] # "idle", Panic(s) PROVE LinkType'
  <2>1. CASE kind[s] \in Recovered /\ pc[s] = "logout" /\ End(s) /\ UNCHANGED <<object, logins, machine>>
    BY <2>1 DEF End
  <2>2. CASE kind[s] \in Recovered /\ Goto(s, "leave") /\ UNCHANGED <<local, object, logins, machine>>
    BY <2>2
  <2>3. CASE kind[s] \notin Recovered
    BY <1>p, <2>3 DEF Panic
  <2> QED
    BY <1>p, <2>1, <2>2, <2>3 DEF Panic
<1>1. ASSUME NEW s \in Sessions, Start(s) PROVE LinkType'
  BY <1>1 DEF Start, SetRow, Connects
<1>2. ASSUME NEW s \in Sessions, Dial(s) PROVE LinkType'
  <2>1. CASE dials < MaxDials /\ dials' = dials + 1
    <3>1. /\ dials' \in 1..MaxDials /\ 1..dials' = 1..dials \cup {dials'}
          /\ target[s] \in Hypervisors
      BY <1>2, <2>1 DEF Dial
    <3>2. CASE /\ host' = [host EXCEPT ![dials'] = target[s]]
               /\ open' = open \cup {dials'}
               /\ own' = [own EXCEPT ![s] = dials']
               /\ Goto(s, "store")
               /\ UNCHANGED <<bound, conn>>
      <4>1. /\ own' \in [Sessions -> 1..dials' \cup {None}] /\ own'[s] # None
            /\ bound' \in [Sessions -> 1..dials' \cup {None}]
            /\ conn' \in 1..dials' \cup {None} /\ open' \subseteq 1..dials'
        BY <3>1, <3>2
      <4>h. \A c \in 1..dials' : c = dials' \/ (c \in 1..dials /\ c \in 1..MaxDials /\ c # dials')
        BY <2>1, <3>1
      <4>2. /\ host' \in [1..MaxDials -> Hypervisors \cup {None}]
            /\ \A c \in 1..dials' : host'[c] \in Hypervisors
        BY <3>1, <3>2, <4>h
      <4> QED
        BY <3>1, <3>2, <4>1, <4>2
    <3>3. CASE End(s) /\ UNCHANGED logins
      BY <2>1, <3>3
    <3> QED
      BY <1>2, <2>1, <3>2, <3>3 DEF Dial
  <2>2. CASE End(s) /\ UNCHANGED logins
    BY <1>2, <2>2 DEF Dial, End
  <2> QED
    BY <1>2, <2>1, <2>2 DEF Dial
<1>3. ASSUME NEW s \in Sessions, Store(s) PROVE LinkType'
  BY <1>3 DEF Store
<1>4. ASSUME NEW s \in Sessions, Flag(s) PROVE LinkType'
  BY <1>4 DEF Flag
<1>5. ASSUME NEW s \in Sessions, EnsureConnected(s) PROVE LinkType'
  BY <1>5 DEF EnsureConnected, Fail, SetRow
<1>6. ASSUME NEW s \in Sessions, FindVM(s) PROVE LinkType'
  BY <1>6, <1>p DEF FindVM, Fail, SetRow
<1>7. ASSUME NEW s \in Sessions, AssertPowerState(s) PROVE LinkType'
  BY <1>7, <1>p DEF AssertPowerState, Fail, SetRow
<1>8. ASSUME NEW s \in Sessions, Operate(s) PROVE LinkType'
  BY <1>8 DEF Operate, Fail, SetRow, Fault
<1>9. ASSUME NEW s \in Sessions, WriteRow(s) PROVE LinkType'
  BY <1>9 DEF WriteRow, SetRow, Fault
<1>10. ASSUME NEW s \in Sessions, Disconnect(s) PROVE LinkType'
  <2>1. pc[s] = "leave" /\ UNCHANGED <<object, logins, machine, history>>
    BY <1>10 DEF Disconnect
  <2>2. CASE End(s)
    BY <2>1, <2>2 DEF End
  <2>3. CASE (Goto(s, "unflag") \/ Goto(s, "logout")) /\ UNCHANGED local
    BY <2>1, <2>3
  <2> QED
    BY <1>10, <2>2, <2>3 DEF Disconnect
<1>11. ASSUME NEW s \in Sessions, Logout(s) PROVE LinkType'
  BY <1>11, <1>p DEF Logout, Fault
<1>12. ASSUME NEW s \in Sessions, Clear(s) PROVE LinkType'
  BY <1>12 DEF Clear
<1>13. ASSUME NEW s \in Sessions, Unflag(s) PROVE LinkType'
  BY <1>13 DEF Unflag, End
<1>14. CASE UNCHANGED vars
  BY <1>14 DEF vars
<1> QED
  BY <1>1, <1>2, <1>3, <1>4, <1>5, <1>6, <1>7, <1>8, <1>9, <1>10, <1>11, <1>12,
     <1>13, <1>14 DEF Next, Step

LEMMA MachineNext == TypeInv /\ [Next]_vars => MachineType'
<1> SUFFICES ASSUME TypeInv, [Next]_vars PROVE MachineType'
  OBVIOUS
<1>t. /\ ControlType /\ MachineType
      /\ \A s \in Sessions : pc[s] = "op" => host[bound[s]] \in Hypervisors
  BY DEF TypeInv, LinkType
<1> USE <1>t DEF ControlType, MachineType, AllKinds, PowerStates, RowStates, Rereads, object, logins, local, machine, history, Goto
<1>p. ASSUME NEW s \in Sessions, pc[s] # "idle", Panic(s) PROVE MachineType'
  <2>1. CASE kind[s] \in Recovered /\ pc[s] = "logout" /\ End(s) /\ UNCHANGED <<object, logins, machine>>
    BY <2>1 DEF End
  <2>2. CASE kind[s] \in Recovered /\ Goto(s, "leave") /\ UNCHANGED <<local, object, logins, machine>>
    BY <2>2
  <2>3. CASE kind[s] \notin Recovered
    BY <1>p, <2>3 DEF Panic
  <2> QED
    BY <1>p, <2>1, <2>2, <2>3 DEF Panic
<1>1. ASSUME NEW s \in Sessions, Start(s) PROVE MachineType'
  BY <1>1 DEF Start, SetRow, Connects
<1>2. ASSUME NEW s \in Sessions, Dial(s) PROVE MachineType'
  BY <1>2 DEF Dial, End
<1>3. ASSUME NEW s \in Sessions, Store(s) PROVE MachineType'
  BY <1>3 DEF Store
<1>4. ASSUME NEW s \in Sessions, Flag(s) PROVE MachineType'
  BY <1>4 DEF Flag
<1>5. ASSUME NEW s \in Sessions, EnsureConnected(s) PROVE MachineType'
  BY <1>5 DEF EnsureConnected, Fail, SetRow
<1>6. ASSUME NEW s \in Sessions, FindVM(s) PROVE MachineType'
  BY <1>6, <1>p DEF FindVM, Fail, SetRow
<1>7. ASSUME NEW s \in Sessions, AssertPowerState(s) PROVE MachineType'
  BY <1>7, <1>p DEF AssertPowerState, Fail, SetRow
<1>8. ASSUME NEW s \in Sessions, Operate(s) PROVE MachineType'
  <2> DEFINE h == host[bound[s]]
  <2>1. /\ pc[s] = "op" /\ UNCHANGED kind
        /\ UNCHANGED row \/ SetRow(target[s], "error")
        /\ \/ UNCHANGED power
           \/ power' = [power EXCEPT ![h] = "stopped"]
           \/ kind[s] \in DOMAIN Handler /\ power' = [power EXCEPT ![h] = Handler[kind[s]].op.to]
        /\ UNCHANGED seen \/ seen' = [seen EXCEPT ![s] = IF kind[s] = "sync" THEN power[h] ELSE @]
        /\ Goto(s, "leave") \/ Goto(s, "write")
    BY <1>8, OperateEffect
  <2>2. h \in Hypervisors /\ target[s] \in Hypervisors /\ kind[s] \in AllKinds
    BY <2>1
  <2>3. row' \in [Hypervisors -> RowStates]
    BY <2>1, <2>2 DEF SetRow
  <2>4. power' \in [Hypervisors -> PowerStates]
    BY <2>1, <2>2, HandlerType
  <2>7. seen' \in [Sessions -> PowerStates \cup {"none"}]
    BY <2>1, <2>2
  <2>5. pc'[s] = "write" => kind[s] \in Rereads /\ (kind[s] = "sync" => seen'[s] # "none")
    <3> SUFFICES ASSUME pc'[s] = "write"
                 PROVE  kind[s] \in Rereads /\ (kind[s] = "sync" => seen'[s] # "none")
      OBVIOUS
    <3>1. /\ kind[s] # "console"
          /\ kind[s] \in DOMAIN Handler \/ seen' = [seen EXCEPT ![s] = IF kind[s] = "sync" THEN power[h] ELSE @]
      BY <1>8, OperateEffect
    <3>2. kind[s] \in Rereads
      BY <2>1, <2>2, <3>1
    <3>3. kind[s] = "sync" => seen'[s] = power[h]
      BY <3>1, HandlerType
    <3> QED
      BY <2>2, <3>2, <3>3
  <2>6. \A r \in Sessions \ {s} : pc'[r] = pc[r] /\ seen'[r] = seen[r]
    BY <2>1
  <2> QED
    BY <2>1, <2>3, <2>4, <2>5, <2>6, <2>7
<1>9. ASSUME NEW s \in Sessions, WriteRow(s) PROVE MachineType'
  <2>1. kind[s] \in Rereads /\ target[s] \in Hypervisors
    BY <1>9 DEF WriteRow
  <2>2. row' \in [Hypervisors -> RowStates]
    <3>1. kind[s] \notin {"sync", "reboot"} => Handler[kind[s]].row \in PowerStates
      BY <2>1, HandlerType
    <3> QED
      BY <1>9, <2>1, <3>1 DEF WriteRow, SetRow
  <2> QED
    BY <1>9, <2>2 DEF WriteRow
<1>10. ASSUME NEW s \in Sessions, Disconnect(s) PROVE MachineType'
  BY <1>10 DEF Disconnect, End
<1>11. ASSUME NEW s \in Sessions, Logout(s) PROVE MachineType'
  BY <1>11, <1>p DEF Logout, Fault
<1>12. ASSUME NEW s \in Sessions, Clear(s) PROVE MachineType'
  BY <1>12 DEF Clear
<1>13. ASSUME NEW s \in Sessions, Unflag(s) PROVE MachineType'
  BY <1>13 DEF Unflag, End
<1>14. CASE UNCHANGED vars
  BY <1>14 DEF vars
<1> QED
  BY <1>1, <1>2, <1>3, <1>4, <1>5, <1>6, <1>7, <1>8, <1>9, <1>10, <1>11, <1>12,
     <1>13, <1>14 DEF Next, Step

LEMMA FlagNext == FlagType /\ [Next]_vars => FlagType'
<1> SUFFICES ASSUME FlagType, [Next]_vars PROVE FlagType'
  OBVIOUS
<1> USE SessionAssumption
<1> USE DEF FlagType, object, logins, local, machine, history, Goto
<1>p. ASSUME NEW s \in Sessions, pc[s] # "idle", Panic(s) PROVE FlagType'
  BY <1>p DEF Panic, End
<1>1. ASSUME NEW s \in Sessions, Start(s) PROVE FlagType'
  BY <1>1 DEF Start, SetRow, Connects
<1>2. ASSUME NEW s \in Sessions, Dial(s) PROVE FlagType'
  BY <1>2 DEF Dial, End
<1>3. ASSUME NEW s \in Sessions, Store(s) PROVE FlagType'
  BY <1>3 DEF Store
<1>4. ASSUME NEW s \in Sessions, Flag(s) PROVE FlagType'
  BY <1>4 DEF Flag
<1>5. ASSUME NEW s \in Sessions, EnsureConnected(s) PROVE FlagType'
  BY <1>5 DEF EnsureConnected, Fail, SetRow
<1>6. ASSUME NEW s \in Sessions, FindVM(s) PROVE FlagType'
  BY <1>6, <1>p DEF FindVM, Fail, SetRow
<1>7. ASSUME NEW s \in Sessions, AssertPowerState(s) PROVE FlagType'
  BY <1>7, <1>p DEF AssertPowerState, Fail, SetRow
<1>8. ASSUME NEW s \in Sessions, Operate(s) PROVE FlagType'
  BY <1>8 DEF Operate, Fail, SetRow, Fault
<1>9. ASSUME NEW s \in Sessions, WriteRow(s) PROVE FlagType'
  BY <1>9 DEF WriteRow, SetRow, Fault
<1>10. ASSUME NEW s \in Sessions, Disconnect(s) PROVE FlagType'
  BY <1>10 DEF Disconnect, End
<1>11. ASSUME NEW s \in Sessions, Logout(s) PROVE FlagType'
  BY <1>11, <1>p DEF Logout, Fault
<1>12. ASSUME NEW s \in Sessions, Clear(s) PROVE FlagType'
  BY <1>12 DEF Clear
<1>13. ASSUME NEW s \in Sessions, Unflag(s) PROVE FlagType'
  BY <1>13 DEF Unflag, End
<1>14. CASE UNCHANGED vars
  BY <1>14 DEF vars
<1> QED
  BY <1>1, <1>2, <1>3, <1>4, <1>5, <1>6, <1>7, <1>8, <1>9, <1>10, <1>11, <1>12,
     <1>13, <1>14 DEF Next, Step

LEMMA TypeNext == TypeInv /\ [Next]_vars => TypeInv'
BY ControlNext, LinkNext, MachineNext, FlagNext DEF TypeInv

\* Every variable keeps its type.
THEOREM TypeCorrect == Spec => []TypeOK
<1>1. TypeInv => TypeOK
  BY SessionAssumption DEF TypeInv, TypeOK, ControlType, LinkType, MachineType, FlagType
<1> QED
  BY <1>1, TypeInit, TypeNext, PTL DEF Spec

-----------------------------------------------------------------------------
(* Nobody leaves a connection behind.                                      *)

\* Session s will clear p.conn, unless somebody else does so first.
WillClear(s) == Connects(kind[s]) /\ pc[s] \in Using \cup {"flag", "logout", "clear"}

\* Session s will take the flag down.  One that is about to log out and finds
\* the connection gone panics, and the flag is left to whoever cleared it.
WillUnflag(s) ==
  /\ Connects(kind[s])
  /\ pc[s] \in Using \cup {"clear", "unflag"} \/ (pc[s] = "logout" /\ conn # None)

Minded ==
  /\ conn # None => \E s \in Sessions : WillClear(s)
  /\ connected => \E s \in Sessions : WillUnflag(s)

\* Except when the process dies, a step moves one session, and no other
\* session is promoted or demoted by it.
LEMMA OthersRest ==
  ASSUME NEW s \in Sessions, Step(s), TypeInv
  PROVE  \/ /\ \A r \in Sessions \ {s} : pc'[r] = pc[r] /\ kind'[r] = kind[r]
            /\ pc' \in [Sessions -> SessionPC] /\ kind' \in [Sessions -> AllKinds \cup {"none"}]
         \/ /\ \A r \in Sessions : pc'[r] = "idle"
            /\ conn' = None /\ connected' = FALSE /\ UNCHANGED <<machine, history>>
            /\ conn = None /\ pc[s] \in {"find", "assert", "logout"} /\ Connects(kind[s])
<1> USE DEF Goto, End, TypeInv, ControlType, local, SessionPC, AllKinds, machine, history, object
<1>1. CASE Start(s)
  BY <1>1, SessionAssumption DEF Start, Connects
<1>2. CASE Dial(s) \/ Store(s) \/ Flag(s) \/ EnsureConnected(s)
  BY <1>2 DEF Dial, Store, Flag, EnsureConnected, Fail
<1>3. CASE Panic(s) /\ conn = None /\ pc[s] \in {"find", "assert", "logout"}
  BY <1>3 DEF Panic, Connects, Recovered
<1>4. CASE (FindVM(s) \/ AssertPowerState(s) \/ Logout(s)) /\ conn # None
  BY <1>4 DEF FindVM, AssertPowerState, Logout, Fail
<1>5. CASE Operate(s) \/ WriteRow(s)
  <2>1. CASE Operate(s)
    BY <2>1, OperateEffect
  <2>2. CASE WriteRow(s)
    BY <2>2 DEF WriteRow
  <2> QED BY <1>5, <2>1, <2>2
<1>6. CASE Disconnect(s) \/ Clear(s) \/ Unflag(s)
  BY <1>6 DEF Disconnect, Clear, Unflag
<1> QED
  BY <1>1, <1>2, <1>3, <1>4, <1>5, <1>6 DEF Step, FindVM, AssertPowerState, Logout

\* The session that moves keeps its duty, or has done it.
LEMMA DutyKept ==
  ASSUME NEW s \in Sessions, Step(s), TypeInv
  PROVE  /\ conn' # None => WillClear(s)' \/ (~WillClear(s) /\ conn # None)
         /\ connected' => WillUnflag(s)' \/ (~WillUnflag(s) /\ connected)
         /\ conn' = None /\ conn # None /\ connected' => WillUnflag(s)'
<1> USE DEF WillClear, WillUnflag, Using, Goto, TypeInv, local, object, logins, Connects
<1>t. ControlType /\ LinkType
  OBVIOUS
<1>1. CASE Start(s)
  BY <1>1, <1>t DEF Start, ControlType
<1>2. CASE Dial(s)
  BY <1>2, <1>t DEF Dial, End, ControlType
<1>3. CASE Store(s)
  BY <1>3, <1>t DEF Store, ControlType, LinkType
<1>4. CASE Flag(s)
  BY <1>4, <1>t DEF Flag, ControlType
<1>5. CASE EnsureConnected(s)
  BY <1>5, <1>t DEF EnsureConnected, Fail, ControlType
<1>p. CASE Panic(s) /\ conn = None /\ pc[s] \in {"find", "assert", "logout"}
  BY <1>p, <1>t DEF Panic, End, ControlType
<1>6. CASE (FindVM(s) \/ AssertPowerState(s)) /\ conn # None
  BY <1>6, <1>t DEF FindVM, AssertPowerState, Fail, ControlType
<1>8. CASE Operate(s)
  BY <1>8, <1>t, OperateEffect DEF ControlType
<1>9. CASE WriteRow(s)
  BY <1>9, <1>t DEF WriteRow, ControlType
<1>10. CASE Disconnect(s)
  BY <1>10, <1>t DEF Disconnect, End, ControlType
<1>11. CASE Logout(s) /\ conn # None
  BY <1>11, <1>t DEF Logout, ControlType
<1>12. CASE Clear(s)
  BY <1>12, <1>t DEF Clear, ControlType
<1>13. CASE Unflag(s)
  BY <1>13, <1>t DEF Unflag, End, ControlType
<1> QED
  BY <1>1, <1>2, <1>3, <1>4, <1>5, <1>p, <1>6, <1>8, <1>9, <1>10, <1>11, <1>12, <1>13
     DEF Step, FindVM, AssertPowerState, Logout

LEMMA MindedNext == TypeInv /\ Minded /\ [Next]_vars => Minded'
<1> SUFFICES ASSUME TypeInv, Minded, [Next]_vars PROVE Minded'
  OBVIOUS
<1>1. ASSUME NEW s \in Sessions, Step(s) PROVE Minded'
  <2>1. CASE conn' = None /\ connected' = FALSE
    BY <2>1 DEF Minded
  <2>2. CASE \A r \in Sessions \ {s} : pc'[r] = pc[r] /\ kind'[r] = kind[r]
    <3>1. ASSUME conn' # None PROVE \E r \in Sessions : WillClear(r)'
      <4>1. CASE WillClear(s)'
        BY <4>1
      <4>2. CASE ~WillClear(s) /\ conn # None
        <5>1. PICK r \in Sessions \ {s} : WillClear(r)
          BY <4>2 DEF Minded
        <5>2. WillClear(r)'
          BY <2>2, <5>1 DEF WillClear
        <5> QED BY <5>2
      <4> QED BY <1>1, <3>1, <4>1, <4>2, DutyKept
    <3>2. ASSUME connected' PROVE \E r \in Sessions : WillUnflag(r)'
      <4>1. CASE WillUnflag(s)'
        BY <4>1
      <4>2. CASE ~WillUnflag(s)' /\ ~WillUnflag(s) /\ connected
        <5>1. PICK r \in Sessions \ {s} : WillUnflag(r)
          BY <4>2 DEF Minded
        <5>2. conn # None => conn' # None
          BY <1>1, <3>2, <4>2, DutyKept
        <5>3. WillUnflag(r)'
          BY <2>2, <5>1, <5>2 DEF WillUnflag
        <5> QED BY <5>3
      <4> QED BY <1>1, <3>2, <4>1, <4>2, DutyKept
    <3> QED
      BY <3>1, <3>2 DEF Minded
  <2> QED
    BY <1>1, <2>1, <2>2, OthersRest
<1>2. CASE UNCHANGED vars
  BY <1>2 DEF vars, Minded, WillClear, WillUnflag, local, object
<1> QED
  BY <1>1, <1>2 DEF Next

\* Once all sessions have ended the shared object is disconnected.
THEOREM QuietDisconnectedCorrect == Spec => []QuietDisconnected
<1>1. Init => Minded
  BY DEF Init, Minded
<1>2. Minded => QuietDisconnected
  BY DEF Minded, QuietDisconnected, Idle, WillClear, WillUnflag, Using
<1> QED
  BY <1>1, <1>2, TypeInit, TypeNext, MindedNext, PTL DEF Spec

-----------------------------------------------------------------------------
(* A session that nobody overlaps has the connection to itself.            *)

\* From its Connect to its Disconnect the shared object holds the session's
\* own connection; a session that does not connect finds none.
Attached(s) ==
  /\ Connects(kind[s]) /\ pc[s] \in Using \cup {"store", "flag", "logout"} =>
       own[s] \in open /\ own[s] # None /\ host[own[s]] = target[s]
  /\ Connects(kind[s]) /\ pc[s] \in Using \cup {"flag", "logout", "clear"} => conn = own[s]
  /\ Connects(kind[s]) /\ pc[s] \in Using => connected
  /\ pc[s] \in {"assert", "op", "write"} => bound[s] = own[s]
  /\ ~Connects(kind[s]) => conn = None /\ ~connected /\ pc[s] \in {"ready", "leave"}

Undisturbed(s) ==
  /\ pc[s] # "idle"
  /\ \A q \in Sessions \ {s} : pc[q] = "idle"
  /\ Attached(s)

LoneInv == \A s \in Sessions : alone[s] => Undisturbed(s)

\* Every step but the first of a lone session keeps it attached.
LEMMA AttachedStep ==
  ASSUME TypeInv, NEW s \in Sessions, pc[s] # "idle", alone[s], Attached(s), Step(s), alone'[s]
  PROVE  Attached(s)' /\ pc'[s] # "idle"
<1> USE DEF Attached, Using, Goto, TypeInv, local, object, logins, Connects
<1>t. ControlType /\ LinkType /\ alone \in [Sessions -> BOOLEAN]
  BY DEF FlagType
<1>1. CASE Start(s)
  BY <1>1 DEF Start
<1>2. CASE Dial(s)
  <2>1. /\ dials' = dials + 1 /\ dials < MaxDials
        /\ host' = [host EXCEPT ![dials'] = target[s]]
        /\ open' = open \cup {dials'} /\ own' = [own EXCEPT ![s] = dials']
        /\ Goto(s, "store") /\ UNCHANGED <<kind, target>>
    BY <1>2, <1>t DEF Dial, End
  <2>2. /\ dials' \in 1..MaxDials /\ own'[s] = dials' /\ host'[dials'] = target[s]
        /\ dials' # None
    BY <2>1, <1>t, SessionAssumption DEF LinkType
  <2> QED
    BY <1>2, <2>1, <2>2, <1>t DEF Dial, ControlType
<1>3. CASE Store(s)
  BY <1>3, <1>t DEF Store, ControlType, LinkType
<1>4. CASE Flag(s)
  BY <1>4, <1>t DEF Flag, ControlType, LinkType
<1>5. CASE EnsureConnected(s)
  BY <1>5, <1>t DEF EnsureConnected, Fail, ControlType, LinkType
<1>6. CASE FindVM(s)
  <2>1. conn # None
    BY <1>6, <1>t DEF FindVM, ControlType
  <2> QED
    BY <1>6, <2>1, <1>t DEF FindVM, Fail, ControlType, LinkType
<1>7. CASE AssertPowerState(s)
  <2>1. conn # None
    BY <1>7, <1>t DEF AssertPowerState, ControlType
  <2> QED
    BY <1>7, <2>1, <1>t DEF AssertPowerState, Fail, ControlType, LinkType
<1>8. CASE Operate(s)
  <2>1. /\ pc[s] = "op" /\ (Goto(s, "leave") \/ Goto(s, "write"))
        /\ UNCHANGED <<kind, target, own, bound, object, logins>>
    BY <1>8, OperateEffect
  <2> QED
    BY <2>1, <1>t DEF ControlType
<1>9. CASE WriteRow(s)
  BY <1>9, <1>t DEF WriteRow, ControlType, LinkType
<1>10. CASE Disconnect(s)
  BY <1>10, <1>t DEF Disconnect, End, ControlType, LinkType
<1>11. CASE Logout(s)
  <2>1. conn # None
    BY <1>11, <1>t DEF Logout, ControlType
  <2> QED
    BY <1>11, <2>1, <1>t DEF Logout, ControlType, LinkType
<1>12. CASE Clear(s)
  BY <1>12, <1>t DEF Clear, ControlType, LinkType
<1>13. CASE Unflag(s)
  BY <1>13, <1>t DEF Unflag, End, ControlType, LinkType
<1> QED
  BY <1>1, <1>2, <1>3, <1>4, <1>5, <1>6, <1>7, <1>8, <1>9, <1>10, <1>11, <1>12, <1>13 DEF Step

LEMMA LoneNext == TypeInv /\ Minded /\ LoneInv /\ [Next]_vars => LoneInv'
<1> SUFFICES ASSUME TypeInv, Minded, LoneInv, [Next]_vars, NEW r \in Sessions, alone'[r]
             PROVE  Undisturbed(r)'
  BY DEF LoneInv
<1>1. ASSUME NEW s \in Sessions, Step(s) PROVE Undisturbed(r)'
  <2>1. CASE Start(s)
    <3>1. r = s /\ Idle /\ pc[s] = "idle"
      BY <1>1, <2>1 DEF Start, Idle
    <3>2. conn = None /\ connected = FALSE
      BY <3>1 DEF Minded, Idle, WillClear, WillUnflag, Using, TypeInv, FlagType
    <3>3. /\ \A q \in Sessions \ {s} : pc'[q] = "idle"
          /\ \/ pc'[s] = "dial" /\ Connects(kind'[s])
             \/ pc'[s] = "ready" /\ ~Connects(kind'[s])
          /\ UNCHANGED <<object, logins>>
      BY <2>1, <3>1 DEF Start, Goto, Idle, TypeInv, ControlType
    <3> QED
      BY <3>1, <3>2, <3>3 DEF Undisturbed, Attached, Using, object
  <2>2. CASE ~Start(s)
    <3>1. pc[s] # "idle"
      BY <1>1, <2>2, OperateEffect
         DEF Step, Dial, Store, Flag, EnsureConnected, FindVM, AssertPowerState, WriteRow, Disconnect,
             Logout, Clear, Unflag
    <3>2. alone[r]
      BY <1>1, <2>2, OperateEffect
         DEF Step, Dial, Store, Flag, EnsureConnected, FindVM, AssertPowerState, WriteRow, Disconnect,
             Logout, Clear, Unflag, Panic, End, local, TypeInv, FlagType
    <3>3. r = s /\ Undisturbed(s)
      BY <3>1, <3>2 DEF LoneInv, Undisturbed
    <3>4. Attached(s)' /\ pc'[s] # "idle"
      BY <1>1, <3>1, <3>2, <3>3, AttachedStep DEF Undisturbed
    <3>5. \A q \in Sessions \ {s} : pc'[q] = "idle"
      BY <1>1, <3>3, OthersRest DEF Undisturbed
    <3> QED
      BY <3>3, <3>4, <3>5 DEF Undisturbed
  <2> QED
    BY <2>1, <2>2
<1>2. CASE UNCHANGED vars
  BY <1>2 DEF vars, LoneInv, Undisturbed, Attached, local, object, logins
<1> QED
  BY <1>1, <1>2 DEF Next

\* A lone session works on its own open connection to its own hypervisor.
THEOREM LoneSessionCorrect == Spec => []LoneSession
<1>1. Init => Minded /\ LoneInv
  BY DEF Init, Minded, LoneInv
<1>2. LoneInv => LoneSession
  BY DEF LoneInv, Undisturbed, Attached, LoneSession
<1> QED
  BY <1>1, <1>2, TypeInit, TypeNext, MindedNext, LoneNext, PTL DEF Spec

-----------------------------------------------------------------------------
(* Sessions one after another keep the row and the hypervisor in step.     *)

\* The row of h tells the VM's state, or that a delete has failed.
Settled(h) == row[h] \in {power[h], "error"}

\* Session s is about to settle the row of its target: a delete has marked
\* it, or an operation has taken effect and the row is not yet written.
Settling(s) ==
  \/ kind[s] = "delete" /\ pc[s] = "ready" /\ row[target[s]] = "deleting"
  \/ pc[s] = "write" /\ kind[s] \in DOMAIN Handler \ {"reboot"}

\* What session s is about to write is the VM's state, and will be written.
Informed(s) ==
  pc[s] = "write" =>
    /\ kind[s] = "sync" => seen[s] = power[target[s]]
    /\ kind[s] \in DOMAIN Handler \ {"reboot"} =>
         row[target[s]] # "gone" /\ power[target[s]] = Handler[kind[s]].op.to

RowInv ==
  ~overlapped =>
    /\ \A s \in Sessions : pc[s] # "idle" => alone[s]
    /\ faults = 0 =>
         /\ \A h \in Hypervisors : Settled(h) \/ \E s \in Sessions : h = target[s] /\ Settling(s)
         /\ \A s \in Sessions : Informed(s)

\* What the one session that is under way makes of the rows.
LEMMA RowStep ==
  ASSUME TypeInv, NEW s \in Sessions, pc[s] # "idle", Undisturbed(s), Step(s), faults = 0, faults' = 0,
         \A h \in Hypervisors : Settled(h) \/ (h = target[s] /\ Settling(s)), Informed(s)
  PROVE  /\ \A h \in Hypervisors : Settled(h)' \/ (h = target'[s] /\ Settling(s)')
         /\ Informed(s)'
<1>t. /\ ControlType /\ row \in [Hypervisors -> RowStates] /\ power \in [Hypervisors -> PowerStates]
      /\ seen \in [Sessions -> PowerStates \cup {"none"}]
      /\ target[s] \in Hypervisors
      /\ Attached(s)
      /\ kind[s] = "delete" => pc[s] \in {"ready", "leave"} /\ ~connected
      /\ pc[s] \in {"find", "assert", "logout"} => conn # None
  BY DEF TypeInv, ControlType, MachineType, Undisturbed, Attached, Connects, Using
<1>1. CASE Start(s)
  BY <1>1 DEF Start
<1>2. CASE Dial(s) \/ Store(s) \/ Flag(s) \/ Disconnect(s) \/ Clear(s) \/ Unflag(s)
  <2>1. /\ UNCHANGED <<row, power>>
        /\ pc[s] \notin {"ready", "write"} /\ pc'[s] # "write"
        /\ pc'[s] = "ready" => kind'[s] # "delete"
    BY <1>2, <1>t DEF Dial, Store, Flag, Disconnect, Clear, Unflag, Goto, End, machine, ControlType, Connects,
                      local
  <2> QED
    BY <2>1 DEF Settled, Settling, Informed
<1>3. CASE EnsureConnected(s)
  <2>1. UNCHANGED <<power, target, kind>> /\ pc[s] = "ready" /\ pc'[s] \in {"find", "leave"}
    BY <1>3, <1>t DEF EnsureConnected, Fail, Goto, ControlType
  <2>2. CASE kind[s] = "delete"
    <3>1. SetRow(target[s], "error")
      BY <1>3, <1>t, <2>2 DEF EnsureConnected, Fail
    <3> QED
      BY <1>t, <2>1, <2>2, <3>1 DEF Settled, Settling, Informed, SetRow, RowStates, PowerStates
  <2>3. CASE kind[s] # "delete"
    <3>1. UNCHANGED row
      BY <1>3, <2>3 DEF EnsureConnected, Fail
    <3> QED
      BY <2>1, <2>3, <3>1 DEF Settled, Settling, Informed
  <2> QED BY <2>2, <2>3
<1>4. CASE FindVM(s) \/ AssertPowerState(s) \/ Logout(s)
  <2>1. conn # None /\ kind[s] # "delete"
    BY <1>4, <1>t DEF FindVM, AssertPowerState, Logout
  <2>2. /\ UNCHANGED <<row, power>>
        /\ pc[s] \notin {"ready", "write"} /\ pc'[s] \notin {"ready", "write"}
    BY <1>4, <1>t, <2>1 DEF FindVM, AssertPowerState, Logout, Fail, Goto, machine, ControlType
  <2> QED
    BY <2>2 DEF Settled, Settling, Informed
<1>5. CASE Operate(s)
  <2>1. /\ pc[s] = "op" /\ kind[s] # "delete" /\ host[bound[s]] = target[s]
        /\ kind[s] \in AllKinds
    BY <1>5, <1>t DEF Operate, Attached, Using, Connects, ControlType
  <2>2. UNCHANGED <<kind, target, row>> /\ (Goto(s, "leave") \/ Goto(s, "write"))
    BY <1>5, <2>1, OperateEffect
  <2>3. CASE UNCHANGED power /\ Goto(s, "leave")
    BY <1>t, <2>1, <2>2, <2>3 DEF Settled, Settling, Informed, Goto, ControlType
  <2>4. CASE /\ Goto(s, "write") /\ Allows(kind[s], power[target[s]])
             /\ kind[s] \in DOMAIN Handler
             /\ power' = [power EXCEPT ![target[s]] = Handler[kind[s]].op.to]
    <3>1. /\ power[target[s]] \in Handler[kind[s]].op.from
          /\ power'[target[s]] = Handler[kind[s]].op.to
          /\ \A h \in Hypervisors \ {target[s]} : power'[h] = power[h]
      BY <1>t, <2>4 DEF Allows
    <3>2. \A h \in Hypervisors : Settled(h)
      BY <2>1 DEF Settling
    <3>3. row[target[s]] # "gone"
      BY <1>t, <3>1, <3>2, <2>4, HandlerType DEF Settled, Alive, PowerStates
    <3>4. pc'[s] = "write" /\ kind[s] # "sync"
      BY <1>t, <2>4, HandlerType DEF Goto, ControlType
    <3>5. CASE kind[s] = "reboot"
      BY <2>2, <3>1, <3>2, <3>4, <3>5, HandlerType DEF Settled, Informed
    <3>6. CASE kind[s] # "reboot"
      BY <2>2, <2>4, <3>1, <3>2, <3>3, <3>4, <3>6 DEF Settled, Settling, Informed
    <3> QED BY <3>5, <3>6
  <2>5. CASE /\ UNCHANGED power /\ Goto(s, "write") /\ kind[s] \notin DOMAIN Handler
             /\ seen' = [seen EXCEPT ![s] = IF kind[s] = "sync" THEN power[target[s]] ELSE @]
    BY <1>t, <2>1, <2>2, <2>5 DEF Settled, Settling, Informed, Goto, ControlType
  <2> QED
    <3>1. ~Fault
      BY DEF Fault
    <3> QED
      BY <1>5, <2>1, <2>3, <2>4, <2>5, <3>1, HandlerType DEF Operate, Fail
<1>6. CASE WriteRow(s)
  <2>1. /\ pc[s] = "write" /\ Goto(s, "leave") /\ UNCHANGED <<kind, target, power>>
        /\ kind[s] \in Rereads \ {"delete"}
    BY <1>6, <1>t DEF WriteRow, TypeInv, MachineType
  <2>2. pc'[s] = "leave"
    BY <1>t, <2>1 DEF Goto, ControlType
  <2>3. CASE kind[s] = "sync"
    <3>1. SetRow(target[s], seen[s]) \/ UNCHANGED row
      BY <1>6, <2>3 DEF WriteRow, Fault
    <3>2. seen[s] = power[target[s]] /\ \A h \in Hypervisors : Settled(h)
      BY <2>1, <2>3, HandlerType DEF Settling, Informed
    <3> QED
      BY <1>t, <2>1, <2>2, <3>1, <3>2 DEF Settled, SetRow, Informed
  <2>4. CASE kind[s] = "reboot"
    BY <1>6, <2>1, <2>2, <2>4 DEF WriteRow, Fault, Settled, Settling, Informed
  <2>5. CASE kind[s] \notin {"sync", "reboot"}
    <3>1. /\ kind[s] \in DOMAIN Handler \ {"reboot"}
          /\ Handler[kind[s]].row = Handler[kind[s]].op.to /\ Handler[kind[s]].row \in PowerStates
      BY <2>1, <2>5, HandlerType DEF Rereads, AllKinds
    <3>2. SetRow(target[s], Handler[kind[s]].row)
      BY <1>6, <2>5 DEF WriteRow, Fault
    <3> QED
      BY <1>t, <2>1, <2>2, <3>1, <3>2, HandlerType DEF Settled, Settling, Informed, SetRow, Alive, PowerStates
  <2> QED BY <2>3, <2>4, <2>5
<1> QED
  BY <1>1, <1>2, <1>3, <1>4, <1>5, <1>6 DEF Step

\* The first session to start finds every row settled; a delete marks its row.
LEMMA RowStart ==
  ASSUME TypeInv, NEW s \in Sessions, Start(s), Idle,
         \A h \in Hypervisors : Settled(h)
  PROVE  /\ \A h \in Hypervisors : Settled(h)' \/ (h = target'[s] /\ Settling(s)')
         /\ Informed(s)'
<1>1. PICK k \in Kinds, h \in Hypervisors :
        /\ k \in {"delete", "console"} => row[h] # "gone"
        /\ kind' = [kind EXCEPT ![s] = k]
        /\ target' = [target EXCEPT ![s] = h]
        /\ Goto(s, IF Connects(k) THEN "dial" ELSE "ready")
        /\ IF k = "delete" THEN SetRow(h, "deleting") ELSE UNCHANGED row
  BY DEF Start
<1>2. /\ kind'[s] = k /\ target'[s] = h /\ pc'[s] \in {"dial", "ready"} /\ UNCHANGED power
      /\ k = "delete" => pc'[s] = "ready"
  BY <1>1 DEF TypeInv, ControlType, Goto, Start, Connects
<1>3. CASE k = "delete"
  <2>1. row' = [row EXCEPT ![h] = "deleting"] /\ row \in [Hypervisors -> RowStates]
    BY <1>1, <1>3 DEF SetRow, TypeInv, MachineType
  <2> QED
    BY <1>1, <1>2, <1>3, <2>1 DEF Settled, Settling, Informed
<1>4. CASE k # "delete"
  BY <1>1, <1>2, <1>4 DEF Settled, Informed
<1> QED BY <1>3, <1>4

LEMMA RowNext == TypeInv /\ LoneInv /\ RowInv /\ [Next]_vars => RowInv'
<1> SUFFICES ASSUME TypeInv, LoneInv, RowInv, [Next]_vars, ~overlapped' PROVE RowInv'
  BY DEF RowInv
<1>1. ASSUME NEW s \in Sessions, Step(s) PROVE RowInv'
  <2>1. /\ ~overlapped /\ (faults' = 0 => faults = 0)
        /\ Start(s) => Idle /\ alone' = [r \in Sessions |-> r = s]
    <3>t. faults \in Nat
      BY DEF TypeInv, FlagType
    <3>1. ASSUME Start(s) PROVE overlapped' = (overlapped \/ ~Idle) /\ UNCHANGED faults
                                /\ alone' = [r \in Sessions |-> r = s /\ Idle]
      BY <3>1 DEF Start, Idle
    <3>2. CASE Start(s)
      BY <3>1, <3>2
    <3>3. CASE Dial(s) \/ Store(s) \/ Flag(s) \/ EnsureConnected(s) \/ Disconnect(s) \/ Clear(s) \/ Unflag(s)
      <4>1. UNCHANGED history /\ pc[s] # "idle"
        BY <3>3 DEF Dial, Store, Flag, EnsureConnected, Disconnect, Clear, Unflag
      <4> QED
        BY <4>1 DEF history, Start
    <3>4. CASE FindVM(s) \/ AssertPowerState(s) \/ Logout(s)
      <4>1. /\ UNCHANGED overlapped /\ pc[s] # "idle"
            /\ UNCHANGED faults \/ faults' = faults + 1
        BY <3>4 DEF FindVM, AssertPowerState, Logout, Panic, Fault, history
      <4> QED
        BY <3>t, <4>1 DEF Start
    <3>5. CASE Operate(s) \/ WriteRow(s)
      <4>1. /\ UNCHANGED overlapped /\ pc[s] # "idle"
            /\ UNCHANGED faults \/ faults' = faults + 1
        BY <3>5 DEF Operate, WriteRow, Fault
      <4> QED
        BY <3>t, <4>1 DEF Start
    <3> QED
      BY <1>1, <3>2, <3>3, <3>4, <3>5 DEF Step
  <2>2. CASE Start(s)
    <3>1. \A r \in Sessions \ {s} : pc'[r] = "idle" /\ pc[r] = "idle"
      BY <2>1, <2>2 DEF Start, Goto, Idle, TypeInv, ControlType
    <3>2. \A r \in Sessions : pc'[r] # "idle" => alone'[r]
      BY <2>1, <2>2, <3>1
    <3>3. ASSUME faults' = 0
          PROVE  /\ \A h \in Hypervisors : Settled(h)' \/ (h = target'[s] /\ Settling(s)')
                 /\ Informed(s)'
      <4>1. \A h \in Hypervisors : Settled(h)
        BY <2>1, <2>2, <3>3 DEF RowInv, Settling, Idle
      <4> QED
        BY <2>1, <2>2, <4>1, RowStart
    <3> QED
      BY <3>1, <3>2, <3>3 DEF RowInv, Informed
  <2>3. CASE ~Start(s)
    <3>1. pc[s] # "idle"
      BY <1>1, <2>3, OperateEffect
         DEF Step, Dial, Store, Flag, EnsureConnected, FindVM, AssertPowerState, WriteRow, Disconnect,
             Logout, Clear, Unflag
    <3>2. alone[s] /\ Undisturbed(s)
      BY <2>1, <3>1 DEF RowInv, LoneInv
    <3>3. \A r \in Sessions \ {s} : pc'[r] = "idle" /\ pc[r] = "idle"
      BY <1>1, <3>2, OthersRest DEF Undisturbed
    <3>4. alone'[s] \/ pc'[s] = "idle"
      BY <1>1, <2>3, <3>2, OperateEffect
         DEF Step, Dial, Store, Flag, EnsureConnected, FindVM, AssertPowerState, WriteRow, Disconnect,
             Logout, Clear, Unflag, Panic, End, Goto, local, TypeInv, ControlType, FlagType
    <3>5. ASSUME faults' = 0
          PROVE  /\ \A h \in Hypervisors : Settled(h)' \/ (h = target'[s] /\ Settling(s)')
                 /\ Informed(s)'
      <4>1. /\ faults = 0 /\ Informed(s)
            /\ \A h \in Hypervisors : Settled(h) \/ (h = target[s] /\ Settling(s))
        BY <2>1, <3>3, <3>5 DEF RowInv, Settling
      <4> QED
        BY <1>1, <3>1, <3>2, <3>5, <4>1, RowStep
    <3> QED
      BY <3>3, <3>4, <3>5 DEF RowInv, Informed
  <2> QED BY <2>2, <2>3
<1>2. CASE UNCHANGED vars
  BY <1>2 DEF vars, RowInv, Settled, Settling, Informed, local, machine, history
<1> QED
  BY <1>1, <1>2 DEF Next

\* Sessions that come one after another leave rows that tell the VM's state.
THEOREM RowMatchesCorrect == Spec => []RowMatches
<1>1. Init => Minded /\ LoneInv /\ RowInv
  BY DEF Init, Minded, LoneInv, RowInv, Settled, Informed
<1>2. RowInv => RowMatches
  BY DEF RowInv, RowMatches, Settled, Settling, Idle
<1> QED
  BY <1>1, <1>2, TypeInit, TypeNext, MindedNext, LoneNext, RowNext, PTL DEF Spec

=============================================================================
