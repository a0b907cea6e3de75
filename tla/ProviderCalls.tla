---------------------------- MODULE ProviderCalls ----------------------------
(***************************************************************************)
(* The operations of the four hypervisor providers, run step by step       *)
(* against a hypervisor that executes requests as remote tasks, refuses    *)
(* some, loses replies, and is used by others at the same time.            *)
(* The step programs are those of ProxmoxProvider, NutanixProvider,        *)
(* VMwareProvider and ESXiProvider; this module says what a step does.     *)
(***************************************************************************)
EXTENDS ProviderSteps, FiniteSets

CONSTANTS Provider,     \* the provider types considered
          MaxCalls,     \* operations called, one after another
          MaxVM,        \* VMs 1..MaxVM; VM 1 is the one operations are called for
          Disks,        \* disks of an ESXi VM
          PageLength,   \* entities in one answer of Nutanix (500 in the code)
          FaultClass,   \* the error classes that arise although the request is right
          MaxFaults,    \* faults of the network, the hypervisor or its tasks
          MaxAdmin      \* changes made by other users of the hypervisor

ASSUME BoundsAssumption == /\ {MaxCalls, MaxVM, Disks, PageLength, MaxFaults, MaxAdmin} \subseteq Nat
                           /\ FaultClass \subseteq ErrorClass
                           /\ Provider \subseteq {"proxmox", "nutanix", "vmware", "esxi"}

VARIABLES prov,         \* the provider type in use
          connected,    \* BaseProvider.connected
          ops,          \* the operations called so far
          pc,           \* the step of the running operation
          attempt,      \* attempt number of the running step
          ctxDone,      \* the caller's context has been cancelled or has expired
          result,       \* "idle", "running", "ok" or an ErrorCode
          target,       \* the VM the running operation is about
          fresh,        \* the ID that nextVMID has returned
          task,         \* the remote task the operation waits for
          disk,         \* the disk being copied or deleted
          copied,       \* copiedDisks: the disks whose copy has ended well
          seen,         \* the last VM read: [vm, native state, VMInfo.Status]
          pending,      \* lists the goroutines of the running step still fetch
          missing,      \* lists that could not be fetched
          snap,         \* the VMs of the inventory snapshot
          power,        \* the hypervisor's VMs
          snaps,        \* VMs that have a snapshot
          disks,        \* clone disks present on the datastore
          tasks,        \* every remote task ever accepted
          asked,        \* calls that have asked the guest to reboot
          gaveUp,       \* calls with a task nobody waited out, or a reply nobody got
          held, stay,   \* history: power states of every VM, VMs never absent, since the call
          faults, admin \* used up of MaxFaults and MaxAdmin

session == <<prov, connected>>
control == <<ops, pc, attempt, result>>
local   == <<target, fresh, task, disk, copied, seen, pending, missing, snap>>
remote  == <<power, snaps, disks, tasks, asked, held, stay>>
env     == <<ctxDone, gaveUp, faults, admin>>
vars    == <<session, control, local, remote, env>>

PX == INSTANCE ProxmoxProvider
NX == INSTANCE NutanixProvider
VW == INSTANCE VMwareProvider
EX == INSTANCE ESXiProvider

----------------------------------------------------------------------------
(* The providers' operations *)

ProxmoxOps ==
    [Connect |-> PX!Connect, Disconnect |-> PX!Disconnect, Ping |-> PX!Ping, GetVM |-> PX!GetVM,
     CreateVM |-> PX!CreateVM, DeleteVM |-> PX!DeleteVM, CloneVM |-> PX!CloneVM, CloneLinked |-> PX!CloneVM,
     PowerOn |-> PX!PowerOn, PowerOff |-> PX!PowerOff, Reboot |-> PX!Reboot, Suspend |-> PX!Suspend,
     Reset |-> PX!Reset, GetVMMetrics |-> PX!GetVMMetrics, ListSnapshots |-> PX!ListSnapshots,
     CreateSnapshot |-> PX!CreateSnapshot, DeleteSnapshot |-> PX!DeleteSnapshot,
     RevertSnapshot |-> PX!RevertSnapshot, ListVMs |-> PX!ListVMs, ListDataStores |-> PX!ListDataStores,
     GetDataStore |-> PX!GetDataStore, ListNetworks |-> PX!ListNetworks, GetNetwork |-> PX!GetNetwork,
     SyncInventory |-> PX!SyncInventory, ListTemplates |-> PX!ListTemplates,
     GetConsoleSession |-> PX!GetConsoleSession]

\* The Nutanix provider has no console.
NutanixOps ==
    [Connect |-> NX!Connect, Disconnect |-> NX!Disconnect, Ping |-> NX!Ping, GetVM |-> NX!GetVM,
     CreateVM |-> NX!CreateVM, DeleteVM |-> NX!DeleteVM, CloneVM |-> NX!CloneVM, CloneLinked |-> NX!CloneVM,
     PowerOn |-> NX!PowerOn, PowerOff |-> NX!PowerOff, Reboot |-> NX!Reboot, Suspend |-> NX!Suspend,
     Reset |-> NX!Reset, GetVMMetrics |-> NX!GetVMMetrics, ListSnapshots |-> NX!ListSnapshots,
     CreateSnapshot |-> NX!CreateSnapshot, DeleteSnapshot |-> NX!DeleteSnapshot,
     RevertSnapshot |-> NX!RevertSnapshot, ListVMs |-> NX!ListVMs, ListDataStores |-> NX!ListDataStores,
     GetDataStore |-> NX!GetDataStore, ListNetworks |-> NX!ListNetworks, GetNetwork |-> NX!GetNetwork,
     SyncInventory |-> NX!SyncInventory, ListTemplates |-> NX!ListTemplates]

\* A new VM comes from a template or is blank.
VMwareOps(fromTemplate) ==
    [Connect |-> VW!Connect, Disconnect |-> VW!Disconnect, Ping |-> VW!Ping, GetVM |-> VW!GetVM,
     CreateVM |-> VW!CreateVM(fromTemplate), DeleteVM |-> VW!DeleteVM, CloneVM |-> VW!CloneVM,
     CloneLinked |-> VW!CloneLinked,
     PowerOn |-> VW!PowerOn, PowerOff |-> VW!PowerOff, Reboot |-> VW!Reboot, Suspend |-> VW!Suspend,
     Reset |-> VW!Reset, GetVMMetrics |-> VW!GetVMMetrics, ListSnapshots |-> VW!ListSnapshots,
     CreateSnapshot |-> VW!CreateSnapshot, DeleteSnapshot |-> VW!DeleteSnapshot,
     RevertSnapshot |-> VW!RevertSnapshot, ListVMs |-> VW!ListVMs, ListDataStores |-> VW!ListDataStores,
     GetDataStore |-> VW!GetDataStore, ListNetworks |-> VW!ListNetworks, GetNetwork |-> VW!GetNetwork,
     SyncInventory |-> VW!SyncInventory, ListTemplates |-> VW!ListTemplates,
     GetConsoleSession |-> VW!GetConsoleSession]

\* ESXi embeds the vSphere provider and replaces five methods.
ESXiOps == [VMwareOps(FALSE) EXCEPT !.Connect = EX!Connect, !.CloneVM = EX!CloneVM,
                                    !.CloneLinked = EX!CloneLinked, !.SyncInventory = EX!SyncInventory,
                                    !.GetConsoleSession = EX!GetConsoleSession]

Operations == [proxmox |-> ProxmoxOps, nutanix |-> NutanixOps, vmware |-> VMwareOps(TRUE), esxi |-> ESXiOps]

\* VMInfo.Status of a native state.
Status(native) == CASE prov = "proxmox" -> PX!enrichVMInfo(native)
                    [] prov = "nutanix" -> NX!mapVMToInfo(native)
                    [] OTHER            -> VW!MapVMInfoWithTopology(native)
Unseen == [vm |-> 0, native |-> "none", status |-> "unknown"]

\* The policies of withRetry around a step of the provider in use.
Policy(retry) == CASE retry = "once"      -> [maxAttempts |-> 1, shouldRetry |-> {}]
                   [] retry = "connect"   -> [proxmox |-> PX!connectRetry, nutanix |-> NX!connectRetry,
                                              vmware |-> VW!connectRetry, esxi |-> VW!connectRetry][prov]
                   [] retry = "operation" -> [proxmox |-> PX!withOperationRetry,
                                              nutanix |-> NX!withOperationRetry][prov]

----------------------------------------------------------------------------
(* The hypervisor (external): native states and what its requests do *)

Native == [proxmox |-> [on |-> "running", off |-> "stopped", suspended |-> "suspended"],
           nutanix |-> [on |-> "ON", off |-> "OFF", suspended |-> "PAUSED"],
           vmware  |-> [on |-> "poweredOn", off |-> "poweredOff", suspended |-> "suspended"],
           esxi    |-> [on |-> "poweredOn", off |-> "poweredOff", suspended |-> "suspended"]]

PowerEffect == [start |-> "on", stop |-> "off", suspend |-> "suspended",
                ON |-> "on", OFF |-> "off", PAUSE |-> "suspended",
                PowerOn |-> "on", PowerOff |-> "off", Suspend |-> "suspended",
                destroy |-> "absent"]

EffectOf(req) ==
    IF req \in DOMAIN PowerEffect THEN PowerEffect[req]
    ELSE CASE req \in {"create", "clone", "register"} -> "new"
           [] req \in {"reboot", "ACPI_REBOOT", "reset", "POWERCYCLE", "Reset"} -> "booted"
           [] req = "snapshot" -> "snapped"
           [] req = "unsnapshot" -> "unsnapped"
           [] req = "revert" -> "reverted"
           [] req = "copyDisk" -> "copied"
           [] req = "deleteDisk" -> "scrubbed"

VM == 1..MaxVM
Exists(v) == v \in VM /\ power[v] # "absent"
Running(v) == \E i \in DOMAIN tasks : tasks[i].st = "running" /\ tasks[i].vm = v
MakesVM(req) == EffectOf(req) = "new"
Untouching(req) == req \in {"copyDisk", "deleteDisk"}

\* Why a request is refused at once ({} if it is accepted).
Refusals(req) ==
    IF Untouching(req) THEN {}
    ELSE IF req \in {"create", "register"}
    THEN IF prov = "proxmox" /\ (Exists(fresh) \/ Running(fresh)) THEN {"other"} ELSE {}
    ELSE (IF Exists(target) THEN {} ELSE {"notFound"})
         \cup (IF req \in {"unsnapshot", "revert"} /\ target \notin snaps THEN {"notFound"} ELSE {})
         \cup (IF req = "clone" /\ prov = "proxmox" /\ (Exists(fresh) \/ Running(fresh)) THEN {"other"} ELSE {})
         \cup (IF ~MakesVM(req) /\ Running(target) THEN {"locked"} ELSE {})

\* An accepted request becomes a task; Proxmox reserves the requested ID, the others choose one at the end.
NewTask(req) ==
    [call |-> Len(ops), req |-> req, disk |-> disk, st |-> "running",
     vm |-> IF Untouching(req) THEN 0
            ELSE IF MakesVM(req) THEN (IF prov = "proxmox" THEN fresh ELSE 0)
            ELSE target]

----------------------------------------------------------------------------
Init == /\ prov \in Provider
        /\ connected \in BOOLEAN
        /\ ops = << >> /\ pc = 0 /\ attempt = 1 /\ result = "idle" /\ ctxDone = FALSE
        /\ target = 1 /\ fresh = 0 /\ task = 0 /\ disk = 0 /\ copied = {}
        /\ seen = Unseen /\ pending = {} /\ missing = {} /\ snap = {}
        /\ \E p \in {"on", "off"} : power = [v \in VM |-> IF v = 1 THEN p ELSE "absent"]
        /\ snaps \in SUBSET {1} /\ disks = {} /\ tasks = << >> /\ asked = {} /\ gaveUp = {}
        /\ held = [v \in VM |-> {}] /\ stay = {}
        /\ faults = 0 /\ admin = 0

\* An operation is called with a context of its own.
Call(o) ==
    /\ result # "running" /\ Len(ops) < MaxCalls
    /\ o \in DOMAIN Operations[prov]
    /\ ops' = Append(ops, o) /\ pc' = 1 /\ attempt' = 1 /\ result' = "running" /\ ctxDone' = FALSE
    /\ target' = 1 /\ fresh' = 0 /\ task' = 0 /\ disk' = 0 /\ copied' = {}
    /\ seen' = Unseen /\ pending' = {} /\ missing' = {} /\ snap' = {}
    /\ held' = [v \in VM |-> {power[v]}] /\ stay' = {v \in VM : Exists(v)}
    /\ UNCHANGED <<session, power, snaps, disks, tasks, asked, gaveUp, faults, admin>>

Program == Operations[prov][ops[Len(ops)]]
At(do) == result = "running" /\ pc <= Len(Program) /\ Program[pc].do = do
Cur == Program[pc]

Advance == pc' = pc + Cur.ok /\ attempt' = 1 /\ UNCHANGED <<ops, result>>

\* withRetry, then the wrapping of the error: repeat the step, go on elsewhere or return.
FailWith(class) ==
    LET policy == Policy(Cur.retry) IN
    /\ UNCHANGED ops
    /\ IF class \in policy.shouldRetry /\ attempt < policy.maxAttempts /\ ~ctxDone
       THEN attempt' = attempt + 1 /\ UNCHANGED <<pc, result>>
       ELSE /\ attempt' = 1
            /\ IF Cur.err > 0
               THEN pc' = pc + Cur.err /\ UNCHANGED result
               ELSE /\ pc' = 0
                    /\ result' = IF class \in DOMAIN Cur.special THEN Cur.special[class] ELSE Cur.code

\* The steps past the last one: the operation returns without an error.
Return ==
    /\ result = "running" /\ pc > Len(Program)
    /\ result' = "ok" /\ pc' = 0
    /\ UNCHANGED <<session, ops, attempt, local, remote, env>>

\* How the calls of the provider in use can fail; those of govmomi in every way.
Errors == CASE prov = "proxmox" -> PX!doWithBody
            [] prov = "nutanix" -> NX!doJSON
            [] OTHER            -> ErrorClass

\* A remote call fails: the context is done, or something is wrong on the way or on the other side.
Faulty(class) == \/ ctxDone /\ class = "other" /\ UNCHANGED faults
                 \/ ~ctxDone /\ faults < MaxFaults /\ class \in FaultClass \cap Errors /\ faults' = faults + 1

----------------------------------------------------------------------------
(* Steps without a remote call *)

Ensure == /\ At("ensure")
          /\ IF connected THEN Advance ELSE FailWith("other")
          /\ UNCHANGED <<session, local, remote, env>>

\* A stored ID or token that cannot be used; both are right in every state the program is in.
Parse == /\ At("parse") \/ At("token")
         /\ Advance
         /\ UNCHANGED <<session, local, remote, env>>

SetConnected == /\ At("connected")
                /\ connected' = Cur.arg /\ Advance
                /\ UNCHANGED <<prov, local, remote, env>>

Fail == /\ At("fail")
        /\ FailWith("other")
        /\ UNCHANGED <<session, local, remote, env>>

\* The power state just read decides whether the group goes on.
OnlyIf == /\ At("onlyIf")
          /\ IF seen.native \in Cur.arg THEN Advance ELSE FailWith("other")
          /\ UNCHANGED <<session, local, remote, env>>

\* The new VM's ID: Proxmox has chosen it before, the others read it from the ended task.
Adopt == /\ At("adopt")
         /\ target' = IF prov = "proxmox" THEN fresh ELSE tasks[task].vm
         /\ Advance
         /\ UNCHANGED <<session, fresh, task, disk, copied, seen, pending, missing, snap, remote, env>>

Disk == /\ At("disk")
        /\ disk' = Cur.arg /\ Advance
        /\ UNCHANGED <<session, target, fresh, task, copied, seen, pending, missing, snap, remote, env>>

Copied == /\ At("copied")
          /\ copied' = copied \cup {Cur.arg} /\ Advance
          /\ UNCHANGED <<session, target, fresh, task, disk, seen, pending, missing, snap, remote, env>>

IsCopied == /\ At("isCopied")
            /\ disk' = Cur.arg
            /\ IF Cur.arg \in copied THEN Advance ELSE FailWith("other")
            /\ UNCHANGED <<session, target, fresh, task, copied, seen, pending, missing, snap, remote, env>>

\* The entry is in the list or it is not.
Find == /\ At("found")
        /\ Advance \/ FailWith("notFound")
        /\ UNCHANGED <<session, local, remote, env>>

----------------------------------------------------------------------------
(* Reads *)

ReadOK == /\ At("read") /\ ~ctxDone
          /\ Advance
          /\ UNCHANGED <<session, local, remote, env>>

\* nextVMID: the lowest ID in use by nobody.
Allocate == /\ At("allocate") /\ ~ctxDone
            /\ \E v \in VM : ~Exists(v) /\ (\A w \in VM : w < v => Exists(w)) /\ fresh' = v
            /\ Advance
            /\ UNCHANGED <<session, target, task, disk, copied, seen, pending, missing, snap, remote, env>>

LookupOK == /\ At("lookup") /\ ~ctxDone /\ Exists(target)
            /\ LET native == Native[prov][power[target]]
               IN  seen' = [vm |-> target, native |-> native, status |-> Status(native)]
            /\ Advance
            /\ UNCHANGED <<session, target, fresh, task, disk, copied, pending, missing, snap, remote, env>>

\* assertPowerState accepts a state it could not read.
AssertState == /\ At("assert")
               /\ IF ~ctxDone /\ Exists(target) /\ Native[prov][power[target]] \notin Cur.arg
                  THEN FailWith("other") ELSE Advance
               /\ UNCHANGED <<session, local, remote, env>>

CurrentSnapshot == /\ At("snapped")
                   /\ IF ~ctxDone /\ target \in snaps THEN Advance ELSE FailWith("other")
                   /\ UNCHANGED <<session, local, remote, env>>

\* A read fails.  The failed read of assertPowerState and currentSnapshotRef is an answer of its own.
ReadFails == /\ At("read") \/ At("lookup") \/ At("allocate")
             /\ \/ \E c \in ErrorClass : Faulty(c) /\ FailWith(c)
                \/ At("lookup") /\ ~ctxDone /\ ~Exists(target) /\ FailWith("notFound") /\ UNCHANGED faults
             /\ UNCHANGED <<session, local, remote, ctxDone, gaveUp, admin>>

StateUnread == /\ At("assert") \/ At("snapped")
               /\ ~ctxDone /\ faults < MaxFaults /\ faults' = faults + 1
               /\ IF At("assert") THEN Advance ELSE FailWith("other")
               /\ UNCHANGED <<session, local, remote, ctxDone, gaveUp, admin>>

----------------------------------------------------------------------------
(* The goroutines of an inventory sync *)

Gather == /\ At("gather") /\ pending = {} /\ missing = {} /\ snap = {}
          /\ pending' = DOMAIN Cur.arg
          /\ UNCHANGED <<session, control, target, fresh, task, disk, copied, seen, missing, snap, remote, env>>

Answers == LET present == {v \in VM : Exists(v)}
           IN  IF prov = "nutanix" THEN NX!ClientListVMs(present, PageLength) ELSE {present}

\* One goroutine gets its list or its error; 0 marks a list of VMs that has been fetched.
Fetch(l) ==
    /\ At("gather") /\ l \in pending
    /\ pending' = pending \ {l}
    /\ \/ /\ ~ctxDone
          /\ IF l = "vms" THEN \E a \in Answers : snap' = a \cup {0} ELSE UNCHANGED snap
          /\ UNCHANGED <<missing, faults>>
       \/ /\ ctxDone \/ faults < MaxFaults
          /\ faults' = IF ctxDone THEN faults ELSE faults + 1
          /\ missing' = missing \cup {l}
          /\ UNCHANGED snap
    /\ UNCHANGED <<session, control, target, fresh, task, disk, copied, seen, remote, ctxDone, gaveUp, admin>>

\* All goroutines have answered: the first fatal error, or the snapshot.
Collect == /\ At("gather") /\ pending = {} /\ (missing # {} \/ snap # {})
           /\ IF \E l \in missing : Cur.arg[l] = "fatal" THEN FailWith("other") ELSE Advance
           /\ UNCHANGED <<session, local, remote, env>>

----------------------------------------------------------------------------
(* Requests and their tasks *)

SendOK == /\ At("send") /\ ~ctxDone /\ Refusals(Cur.arg) = {}
          /\ tasks' = Append(tasks, NewTask(Cur.arg)) /\ task' = Len(tasks) + 1
          /\ Advance
          /\ UNCHANGED <<session, target, fresh, disk, copied, seen, pending, missing, snap,
                         power, snaps, disks, asked, held, stay, env>>

SendRefused == /\ At("send") /\ ~ctxDone
               /\ \E c \in Refusals(Cur.arg) : FailWith(c)
               /\ UNCHANGED <<session, local, remote, env>>

SendFails == /\ At("send")
             /\ \E c \in ErrorClass : Faulty(c) /\ FailWith(c)
             /\ UNCHANGED <<session, local, remote, ctxDone, gaveUp, admin>>

\* Mutant: nextVMID is called inside the closure that is retried.
ReplyLostNextID ==
    /\ At("send") /\ ~ctxDone /\ Refusals(Cur.arg) = {} /\ faults < MaxFaults
    /\ faults' = faults + 1
    /\ tasks' = Append(tasks, NewTask(Cur.arg))
    /\ gaveUp' = gaveUp \cup {Len(ops)}
    /\ fresh' = IF fresh = 0 THEN 0 ELSE fresh + 1
    /\ FailWith("timeout")
    /\ UNCHANGED <<session, target, task, disk, copied, seen, pending, missing, snap,
                   power, snaps, disks, asked, held, stay, ctxDone, admin>>

\* The request is accepted and its answer lost: the provider sees a transport error.
ReplyLost == /\ At("send") /\ ~ctxDone /\ Refusals(Cur.arg) = {} /\ faults < MaxFaults
             /\ faults' = faults + 1
             /\ tasks' = Append(tasks, NewTask(Cur.arg))
             /\ gaveUp' = gaveUp \cup {Len(ops)}
             /\ FailWith("timeout")
             /\ UNCHANGED <<session, local, power, snaps, disks, asked, held, stay, ctxDone, admin>>

\* RebootGuest returns as soon as the guest has been asked.
AskGuest == /\ At("guest") /\ ~ctxDone
            /\ IF Exists(target) /\ power[target] = "on"
               THEN asked' = asked \cup {Len(ops)} /\ Advance
               ELSE UNCHANGED asked /\ FailWith("other")
            /\ UNCHANGED <<session, local, power, snaps, disks, tasks, held, stay, env>>

GuestRefuses == /\ At("guest")
                /\ \E c \in ErrorClass : Faulty(c) /\ FailWith(c)
                /\ UNCHANGED <<session, local, remote, ctxDone, gaveUp, admin>>

\* waitForTask and Task.Wait: success exactly when the task has ended well.
WaitEnds == /\ At("wait") /\ tasks[task].st # "running" /\ ~ctxDone
            /\ IF tasks[task].st = "done" THEN Advance ELSE FailWith("other")
            /\ UNCHANGED <<session, local, remote, env>>

\* Mutant: the end of the wait is taken for the end of the task.
WaitGivesUpQuietly == /\ At("wait")
                      /\ ~ctxDone /\ faults < MaxFaults /\ faults' = faults + 1
                      /\ gaveUp' = gaveUp \cup {Len(ops)}
                      /\ Advance
                      /\ UNCHANGED <<session, local, remote, ctxDone, admin>>

\* The deadline of the wait, the caller's context or (vSphere) a lost connection ends the wait.
WaitGivesUp == /\ At("wait")
               /\ \/ ctxDone /\ UNCHANGED faults
                  \/ ~ctxDone /\ faults < MaxFaults /\ faults' = faults + 1
               /\ gaveUp' = gaveUp \cup {Len(ops)}
               /\ FailWith("other")
               /\ UNCHANGED <<session, local, remote, ctxDone, admin>>

\* The caller's context is cancelled or expires.
Expire == /\ result = "running" /\ ~ctxDone /\ faults < MaxFaults
          /\ ctxDone' = TRUE /\ faults' = faults + 1
          /\ UNCHANGED <<session, control, local, remote, gaveUp, admin>>

----------------------------------------------------------------------------
(* The hypervisor (external) *)

SetPower(v, p) == /\ power' = [power EXCEPT ![v] = p]
                  /\ held' = [held EXCEPT ![v] = @ \cup {p}]
                  /\ stay' = IF p = "absent" THEN stay \ {v} ELSE stay

\* Task i ends well, as far as the VM it is about allows it.
Succeed(i) ==
    LET t == tasks[i] IN
    /\ t.st = "running"
    /\ CASE MakesVM(t.req) ->
              \E v \in VM : /\ ~Exists(v) /\ (t.vm # 0 => v = t.vm)
                            /\ SetPower(v, "off") /\ tasks' = [tasks EXCEPT ![i].st = "done", ![i].vm = v]
                            /\ UNCHANGED <<snaps, disks>>
         [] t.req \in DOMAIN PowerEffect ->
              /\ Exists(t.vm) /\ (t.req = "destroy" => power[t.vm] # "on")
              /\ SetPower(t.vm, PowerEffect[t.req]) /\ tasks' = [tasks EXCEPT ![i].st = "done"]
              /\ snaps' = IF t.req = "destroy" THEN snaps \ {t.vm} ELSE snaps
              /\ UNCHANGED disks
         [] Untouching(t.req) ->
              /\ disks' = IF t.req = "copyDisk" THEN disks \cup {t.disk} ELSE disks \ {t.disk}
              /\ tasks' = [tasks EXCEPT ![i].st = "done"]
              /\ UNCHANGED <<power, held, stay, snaps>>
         [] OTHER ->
              /\ Exists(t.vm)
              /\ snaps' = CASE t.req = "snapshot"   -> snaps \cup {t.vm}
                            [] t.req = "unsnapshot" -> snaps \ {t.vm}
                            [] OTHER                -> snaps
              /\ tasks' = [tasks EXCEPT ![i].st = "done"]
              /\ UNCHANGED <<power, held, stay, disks>>
    /\ UNCHANGED <<session, control, local, asked, env>>

\* Task i ends in an error: because the VM does not allow it, or by a fault.
TaskFails(i) ==
    /\ tasks[i].st = "running"
    /\ tasks' = [tasks EXCEPT ![i].st = "failed"]
    /\ LET t == tasks[i]
           impossible == IF MakesVM(t.req) THEN t.vm # 0 /\ Exists(t.vm)
                         ELSE ~Untouching(t.req) /\ (~Exists(t.vm) \/ (t.req = "destroy" /\ power[t.vm] = "on"))
       IN  IF impossible THEN UNCHANGED faults ELSE faults < MaxFaults /\ faults' = faults + 1
    /\ UNCHANGED <<session, control, local, power, snaps, disks, asked, held, stay, ctxDone, gaveUp, admin>>

\* Other users switch, create and delete VMs that no task is working on.
Admin(v, p) ==
    /\ admin < MaxAdmin /\ admin' = admin + 1
    /\ ~Running(v)
    /\ IF Exists(v) THEN p # power[v] ELSE p = "off" /\ \A w \in VM : w < v => Exists(w)
    /\ SetPower(v, p)
    /\ snaps' = IF p = "absent" THEN snaps \ {v} ELSE snaps
    /\ UNCHANGED <<session, control, local, disks, tasks, asked, ctxDone, gaveUp, faults>>

\* Nothing is left to do.
Done == /\ result # "running" /\ Len(ops) = MaxCalls
        /\ \A i \in DOMAIN tasks : tasks[i].st # "running"
        /\ UNCHANGED vars

Steps == \/ Ensure \/ Parse \/ SetConnected \/ Fail \/ OnlyIf \/ Adopt \/ Disk \/ Copied \/ IsCopied \/ Find
         \/ ReadOK \/ Allocate \/ LookupOK \/ AssertState \/ CurrentSnapshot \/ ReadFails \/ StateUnread
         \/ Gather \/ (\E l \in pending : Fetch(l)) \/ Collect
         \/ SendOK \/ SendRefused \/ SendFails \/ ReplyLost \/ AskGuest \/ GuestRefuses
         \/ WaitEnds \/ WaitGivesUp \/ Return

Next == \/ \E o \in DOMAIN Operations[prov] : Call(o)
        \/ Steps
        \/ Expire
        \/ \E i \in DOMAIN tasks : Succeed(i) \/ TaskFails(i)
        \/ \E v \in VM, p \in {"on", "off", "suspended", "absent"} : Admin(v, p)
        \/ Done

Spec == Init /\ [][Next]_vars

----------------------------------------------------------------------------
(* Properties *)

Last == ops[Len(ops)]
Effects == {<<tasks[i].call, EffectOf(tasks[i].req)>> : i \in {j \in DOMAIN tasks : tasks[j].st = "done"}}
           \cup {<<k, "asked">> : k \in asked}

Port == INSTANCE ProviderPort WITH done <- Effects,
                                   result <- IF result \in ErrorCode THEN "error" ELSE result

\* All four providers keep the contract of port.Provider: no operation returns nil before the hypervisor
\* has done what was asked, whatever is retried, lost, refused, late or done by others in between.
Contract == Port!Spec

\* A call of CreateVM or CloneVM makes at most one VM although its request may be sent three times:
\* Proxmox repeats it with the ID chosen before, vSphere and ESXi do not repeat it.  Nutanix repeats a
\* request that carries no identity, and makes up to one VM per attempt.
CreatedOnce ==
    \A k \in DOMAIN ops :
        Cardinality({tasks[i].vm : i \in {j \in DOMAIN tasks : /\ tasks[j].call = k /\ tasks[j].st = "done"
                                                               /\ MakesVM(tasks[j].req)}})
            <= (IF prov = "nutanix" THEN 3 ELSE 1)

\* What a call answers was so while it ran: a VM is returned with a status that it was in, and a snapshot
\* of SyncInventory lists every VM that existed during the whole call (the rows of all others are
\* deleted), however its goroutines and their failures are ordered; only Nutanix stops at one page.
AnswersTruthful ==
    result = "ok" =>
        /\ Last = "SyncInventory" => stay \subseteq snap \/ (prov = "nutanix" /\ Cardinality(snap \ {0}) >= PageLength)
        /\ Last \in {"GetVM", "CreateVM", "CloneVM", "CloneLinked"} =>
             \E p \in held[seen.vm] : seen.status = [on |-> "running", off |-> "stopped", suspended |-> "suspended",
                                                     absent |-> "absent"][p]

\* An ESXi clone that a single failure ends leaves no copied disk behind, and a registered clone keeps
\* all of its disks.  (A second failure, a done context or an abandoned task defeat cleanupDisks.)
DisksFollowClone ==
    prov = "esxi" /\ ops = <<"CloneVM">> /\ result # "running" /\ faults <= 1 /\ ~ctxDone /\ gaveUp = {} =>
        disks = IF \E i \in DOMAIN tasks : tasks[i].req = "register" /\ tasks[i].st = "done" THEN 1..Disks ELSE {}

=============================================================================
