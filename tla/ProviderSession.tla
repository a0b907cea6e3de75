-------------------------- MODULE ProviderSession --------------------------
(***************************************************************************)
(* Sessions on a shared provider object.                                   *)
(*                                                                         *)
(* Registry.Get hands every caller the one provider object of a type.      *)
(* Task handlers, console and test requests, health checks and inventory   *)
(* syncs all run  Connect ; operation ; Disconnect  on it, each for its    *)
(* own hypervisor, with nothing that keeps them apart: the object has one  *)
(* connection field (p.conn), written without a lock, and one connected    *)
(* flag behind a lock of its own.  This module has one provider object,    *)
(* the sessions that use it, and per hypervisor one VM (the same provider  *)
(* VM ID may exist on each of them: "vm-42") with its row in the database. *)
(*                                                                         *)
(* A step is one remote call or one access to a shared field.  The vmware  *)
(* provider is modelled, the others differ in having no login to end.      *)
(***************************************************************************)
EXTENDS Naturals, FiniteSets

CONSTANTS
  Sessions,      \* goroutines: workers, requests, the health engine
  Hypervisors,   \* hypervisors of one provider type
  Kinds,         \* the kinds of session that occur
  None,          \* no connection
  MaxDials,      \* bound: connections made
  MaxFaults      \* bound: replies lost after the effect, failed row writes

VARIABLES
  pc,            \* where each session is
  kind,          \* what it was started for
  target,        \* the hypervisor it was started for
  own,           \* the connection its Connect has made
  bound,         \* the connection its VM object holds
  conn,          \* p.conn, or None
  connected,     \* BaseProvider.connected
  dials,         \* connections made so far, numbered from 1
  host,          \* the hypervisor of each connection
  open,          \* connections whose login the hypervisor still accepts
  seen,          \* what a sync fetched
  power,         \* the VM's state on each hypervisor
  row,           \* its row's status
  \* history
  alone,         \* has no other session run since this one started?
  overlapped,    \* two sessions have been under way at once
  faults

object  == <<conn, connected>>
logins  == <<dials, host, open>>
local   == <<kind, target, own, bound, seen, alone>>
machine == <<power, row>>
history == <<overlapped, faults>>
vars    == <<pc, local, object, logins, machine, history>>

-----------------------------------------------------------------------------
(* What each kind of session asks of the provider, and the row it writes.  *)

PowerStates == {"running", "stopped", "suspended", "gone"}
RowStates == PowerStates \cup {"deleting", "error"}

Alive == PowerStates \ {"gone"}

PowerOn  == [from |-> {"stopped", "suspended"}, to |-> "running"]
PowerOff == [from |-> {"running"}, to |-> "stopped"]
Suspend  == [from |-> {"running"}, to |-> "suspended"]
Reboot   == [from |-> {"running"}, to |-> "running"]
DeleteVM == [from |-> Alive, to |-> "gone"]

handleVMPowerOn  == [op |-> PowerOn,  row |-> "running"]
handleVMPowerOff == [op |-> PowerOff, row |-> "stopped"]

\* Mutant: a suspended VM is recorded as stopped.
handleVMSuspendStopped == [op |-> Suspend, row |-> "stopped"]

handleVMSuspend  == [op |-> Suspend,  row |-> "suspended"]
handleVMReboot   == [op |-> Reboot,   row |-> "unchanged"]
handleVMDelete   == [op |-> DeleteVM, row |-> "gone"]

Handler ==
  [powerOn |-> handleVMPowerOn, powerOff |-> handleVMPowerOff,
   suspend |-> handleVMSuspend, reboot |-> handleVMReboot,
   delete |-> handleVMDelete]

\* May the operation start in this state?
Allows(k, p) == k \in DOMAIN Handler => p \in Handler[k].op.from

AllKinds == {"powerOn", "powerOff", "suspend", "reboot", "delete",
             "sync", "console", "test"}

\* Kinds that call an operation which looks at p.conn a second time.
Rereads == AllKinds \ {"console", "test"}

\* vmService.Delete asks the registry for the provider and never connects.
Connects(k) == k # "delete"

\* HTTP requests: middleware.Recovery catches their panics.
Recovered == {"delete", "console", "test"}

ASSUME SessionAssumption ==
  /\ Kinds \subseteq AllKinds
  /\ MaxDials \in Nat /\ None \notin 1..MaxDials
  /\ MaxFaults \in Nat

SessionPC == {"idle", "dial", "store", "flag", "ready", "find", "assert", "op",
              "write", "leave", "logout", "clear", "unflag"}

Init ==
  /\ pc = [s \in Sessions |-> "idle"]
  /\ kind = [s \in Sessions |-> "none"]
  /\ target = [s \in Sessions |-> None]
  /\ conn = None /\ connected = FALSE
  /\ dials = 0 /\ host = [c \in 1..MaxDials |-> None] /\ open = {}
  /\ own = [s \in Sessions |-> None]
  /\ bound = [s \in Sessions |-> None]
  /\ seen = [s \in Sessions |-> "none"]
  /\ power = [h \in Hypervisors |-> "stopped"]
  /\ row = [h \in Hypervisors |-> "stopped"]
  /\ alone = [s \in Sessions |-> FALSE]
  /\ overlapped = FALSE /\ faults = 0

Goto(s, l) == pc' = [pc EXCEPT ![s] = l]

\* The session is over; its local variables are gone.
End(s) ==
  /\ Goto(s, "idle")
  /\ kind' = [kind EXCEPT ![s] = "none"]
  /\ target' = [target EXCEPT ![s] = None]
  /\ own' = [own EXCEPT ![s] = None]
  /\ bound' = [bound EXCEPT ![s] = None]
  /\ seen' = [seen EXCEPT ![s] = "none"]
  /\ alone' = [alone EXCEPT ![s] = FALSE]

\* A soft-deleted row is found by no UPDATE of a status and is not revived by
\* BulkUpsert, which leaves deleted_at as it is.
SetRow(h, v) == row' = [row EXCEPT ![h] = IF @ = "gone" THEN @ ELSE v]

Fault == faults < MaxFaults /\ faults' = faults + 1

-----------------------------------------------------------------------------

\* A handler, request or health check begins.  Delete marks the row at once.
Start(s) ==
  /\ pc[s] = "idle"
  /\ \E k \in Kinds, h \in Hypervisors :
       /\ k \in {"delete", "console"} => row[h] # "gone"
       /\ kind' = [kind EXCEPT ![s] = k]
       /\ target' = [target EXCEPT ![s] = h]
       /\ Goto(s, IF Connects(k) THEN "dial" ELSE "ready")
       /\ IF k = "delete" THEN SetRow(h, "deleting") ELSE UNCHANGED row
  /\ LET first == \A q \in Sessions : pc[q] = "idle" IN
       /\ alone' = [r \in Sessions |-> r = s /\ first]
       /\ overlapped' = (overlapped \/ ~first)
  /\ UNCHANGED <<own, bound, seen, object, logins, power, faults>>

\* newConnectionManager: log in to the target.
Dial(s) ==
  /\ pc[s] = "dial"
  /\ \/ /\ dials < MaxDials
        /\ dials' = dials + 1
        /\ host' = [host EXCEPT ![dials'] = target[s]]
        /\ open' = open \cup {dials'}
        /\ own' = [own EXCEPT ![s] = dials']
        /\ Goto(s, "store")
        /\ UNCHANGED <<kind, target, bound, seen, alone>>
     \/ End(s) /\ UNCHANGED logins
  /\ UNCHANGED <<object, machine, history>>

\* p.conn = conn; the connection that was there is overwritten, not ended.
Store(s) ==
  /\ pc[s] = "store"
  /\ conn' = own[s]
  /\ Goto(s, "flag")
  /\ UNCHANGED <<local, connected, logins, machine, history>>

\* Mutant: the flag is forgotten.
FlagForgotten(s) ==
  /\ pc[s] = "flag"
  /\ Goto(s, IF kind[s] = "test" THEN "leave" ELSE "ready")
  /\ UNCHANGED <<local, object, logins, machine, history>>

\* p.SetConnected(true).  A connection test or health check is done now.
Flag(s) ==
  /\ pc[s] = "flag"
  /\ connected' = TRUE
  /\ Goto(s, IF kind[s] = "test" THEN "leave" ELSE "ready")
  /\ UNCHANGED <<local, conn, logins, machine, history>>

\* The operation failed with an error: Delete reverts its mark to "error".
Fail(s) ==
  /\ Goto(s, "leave")
  /\ IF kind[s] = "delete" THEN SetRow(target[s], "error") ELSE UNCHANGED row

\* A nil p.conn is dereferenced.  Recovery turns a request's panic into a 500
\* and runs its deferred Disconnect; anywhere else the process dies and is
\* started again, with the logins still open at the hypervisors.
Panic(s) ==
  /\ \/ /\ kind[s] \in Recovered
        /\ \/ pc[s] = "logout" /\ End(s)
           \/ pc[s] # "logout" /\ Goto(s, "leave") /\ UNCHANGED local
        /\ UNCHANGED object
     \/ /\ kind[s] \notin Recovered
        /\ pc' = [r \in Sessions |-> "idle"]
        /\ kind' = [r \in Sessions |-> "none"]
        /\ target' = [r \in Sessions |-> None]
        /\ own' = [r \in Sessions |-> None]
        /\ bound' = [r \in Sessions |-> None]
        /\ seen' = [r \in Sessions |-> "none"]
        /\ alone' = [r \in Sessions |-> FALSE]
        /\ conn' = None /\ connected' = FALSE
  /\ UNCHANGED <<logins, machine, history>>

\* EnsureConnected looks at the flag only.
EnsureConnected(s) ==
  /\ pc[s] = "ready"
  /\ \/ /\ connected
        /\ Goto(s, "find")
        /\ UNCHANGED row
     \/ /\ ~connected
        /\ Fail(s)
  /\ UNCHANGED <<kind, target, own, bound, seen, alone, object, logins, power, history>>

\* findVM: bind a VM object to the current connection and read its name.
FindVM(s) ==
  /\ pc[s] = "find"
  /\ \/ conn = None /\ Panic(s)
     \/ /\ conn # None
        /\ bound' = [bound EXCEPT ![s] = conn]
        /\ \/ /\ conn \in open
              /\ power[host[conn]] # "gone" \/ kind[s] = "sync"
              /\ Goto(s, IF kind[s] \in Rereads THEN "assert" ELSE "op")
              /\ UNCHANGED row
           \/ Fail(s)
        /\ UNCHANGED <<kind, target, own, seen, alone, object, logins, power, history>>

\* assertPowerState reads the state through p.conn again, not through the VM
\* object; when the read fails the operation goes ahead.
AssertPowerState(s) ==
  /\ pc[s] = "assert"
  /\ \/ conn = None /\ Panic(s)
     \/ /\ conn # None
        /\ \/ /\ Allows(kind[s], power[host[conn]]) \/ kind[s] = "delete" \/ conn \notin open
              /\ Goto(s, "op")
              /\ UNCHANGED row
           \/ /\ ~Allows(kind[s], power[host[conn]]) /\ kind[s] # "delete" /\ conn \in open
              /\ Fail(s)
        /\ UNCHANGED <<kind, target, own, bound, seen, alone, object, logins, power, history>>

\* The command goes to the hypervisor the VM object is bound to, which
\* refuses it from an ended login or in a state that does not allow it.  The
\* reply may be lost (waitTask times out) after the command took effect.
\* DeleteVM powers a running VM off first; the destroy may then be refused.
Operate(s) ==
  LET h == host[bound[s]] IN
  /\ pc[s] = "op"
  /\ \/ /\ bound[s] \in open
        /\ Allows(kind[s], power[h])
        /\ \/ /\ kind[s] \in DOMAIN Handler
              /\ power' = [power EXCEPT ![h] = Handler[kind[s]].op.to]
              /\ UNCHANGED seen
           \/ /\ kind[s] \notin DOMAIN Handler
              /\ seen' = [seen EXCEPT ![s] = IF kind[s] = "sync" THEN power[h] ELSE @]
              /\ UNCHANGED power
        /\ \/ /\ Goto(s, IF kind[s] = "console" THEN "leave" ELSE "write")
              /\ UNCHANGED <<row, faults>>
           \/ Fault /\ Fail(s)
     \/ /\ kind[s] = "delete" /\ bound[s] \in open /\ power[h] = "running"
        /\ power' = [power EXCEPT ![h] = "stopped"]
        /\ Fail(s)
        /\ UNCHANGED <<seen, faults>>
     \/ /\ Fail(s)
        /\ UNCHANGED <<power, seen, faults>>
  /\ UNCHANGED <<kind, target, own, bound, alone, object, logins, overlapped>>

\* The row of the session's own VM is written; an error is only logged.  A
\* sync that was told of no VM at all removes no row.
WriteRow(s) ==
  /\ pc[s] = "write"
  /\ Goto(s, "leave")
  /\ \/ /\ \/ kind[s] = "sync" /\ SetRow(target[s], seen[s])
           \/ kind[s] = "sync" /\ seen[s] = "gone" /\ UNCHANGED row
           \/ kind[s] = "reboot" /\ UNCHANGED row
           \/ kind[s] \notin {"sync", "reboot"} /\ SetRow(target[s], Handler[kind[s]].row)
        /\ UNCHANGED faults
     \/ Fault /\ UNCHANGED row
  /\ UNCHANGED <<kind, target, own, bound, seen, alone, object, logins, power,
                 overlapped>>

\* Mutant: Disconnect returns early when the flag is down.
DisconnectIfConnected(s) ==
  /\ pc[s] = "leave"
  /\ \/ (~Connects(kind[s]) \/ ~connected) /\ End(s)
     \/ /\ Connects(kind[s]) /\ connected
        /\ Goto(s, IF conn = None THEN "unflag" ELSE "logout")
        /\ UNCHANGED local
  /\ UNCHANGED <<object, logins, machine, history>>

\* Deferred Disconnect: is there a connection?  Delete has nothing deferred.
Disconnect(s) ==
  /\ pc[s] = "leave"
  /\ \/ ~Connects(kind[s]) /\ End(s)
     \/ /\ Connects(kind[s])
        /\ Goto(s, IF conn = None THEN "unflag" ELSE "logout")
        /\ UNCHANGED local
  /\ UNCHANGED <<object, logins, machine, history>>

\* p.conn.logout, on whatever connection is there now; an error is ignored.
Logout(s) ==
  /\ pc[s] = "logout"
  /\ \/ conn = None /\ Panic(s)
     \/ /\ conn # None
        /\ \/ open' = open \ {conn} /\ UNCHANGED faults
           \/ Fault /\ UNCHANGED open
        /\ Goto(s, "clear")
        /\ UNCHANGED <<local, dials, host, object, machine, overlapped>>

\* p.conn = nil, whatever it has become during the logout.
Clear(s) ==
  /\ pc[s] = "clear"
  /\ conn' = None
  /\ Goto(s, "unflag")
  /\ UNCHANGED <<local, connected, logins, machine, history>>

\* p.SetConnected(false).
Unflag(s) ==
  /\ pc[s] = "unflag"
  /\ connected' = FALSE
  /\ End(s)
  /\ UNCHANGED <<conn, logins, machine, history>>

Step(s) ==
  \/ Start(s) \/ Dial(s) \/ Store(s) \/ Flag(s) \/ EnsureConnected(s)
  \/ FindVM(s) \/ AssertPowerState(s) \/ Operate(s) \/ WriteRow(s)
  \/ Disconnect(s) \/ Logout(s) \/ Clear(s) \/ Unflag(s)

Next == \E s \in Sessions : Step(s)

Spec == Init /\ [][Next]_vars

-----------------------------------------------------------------------------
(* Properties.                                                             *)

Idle == \A s \in Sessions : pc[s] = "idle"

\* The type of every variable.
TypeOK ==
  /\ pc \in [Sessions -> SessionPC]
  /\ kind \in [Sessions -> AllKinds \cup {"none"}]
  /\ target \in [Sessions -> Hypervisors \cup {None}]
  /\ own \in [Sessions -> 1..MaxDials \cup {None}]
  /\ bound \in [Sessions -> 1..MaxDials \cup {None}]
  /\ conn \in 1..MaxDials \cup {None}
  /\ connected \in BOOLEAN
  /\ dials \in 0..MaxDials
  /\ host \in [1..MaxDials -> Hypervisors \cup {None}]
  /\ open \subseteq 1..dials
  /\ seen \in [Sessions -> PowerStates \cup {"none"}]
  /\ power \in [Hypervisors -> PowerStates]
  /\ row \in [Hypervisors -> RowStates]
  /\ alone \in [Sessions -> BOOLEAN]
  /\ overlapped \in BOOLEAN /\ faults \in Nat

\* Once every session has ended the shared object holds no connection and
\* says so, however their Connects and Disconnects overlapped and whoever
\* panicked: Disconnect nils what others stored, but nobody leaves a
\* connection behind for the next caller.
QuietDisconnected == Idle => conn = None /\ ~connected

Using == {"ready", "find", "assert", "op", "write", "leave"}

\* A session that connects and that no other session has overlapped works on
\* its own, open connection, whatever overlapping sessions did before it
\* started: earlier interleavings leave nothing that could harm it.
LoneSession ==
  \A s \in Sessions :
    alone[s] /\ Connects(kind[s]) /\ pc[s] \in Using =>
      conn = own[s] /\ connected /\ conn \in open /\ host[conn] = target[s]

\* As long as sessions come one after another and no reply or row write is
\* lost, the row agrees with the hypervisor once a session has ended, except
\* that a failed delete leaves "error" (the revert of vmService.Delete).
RowMatches ==
  Idle /\ ~overlapped /\ faults = 0 => \A h \in Hypervisors : row[h] \in {power[h], "error"}

=============================================================================
