-------------------------- MODULE ProxmoxProvider --------------------------
(***************************************************************************)
(* provider/proxmox: the operations of the Proxmox VE provider, a REST     *)
(* client whose mutating requests return the ID (UPID) of a remote task.   *)
(***************************************************************************)
EXTENDS ProviderSteps

----------------------------------------------------------------------------
(* retry.go, task.go, client.go *)

isRetryableConnectError   == {"refused", "reset", "timeout"}
isProxmoxAuthError        == {"auth"}
isRetryableOperationError == {"locked", "timeout", "reset"}

connectRetry       == [maxAttempts |-> 3, shouldRetry |-> isRetryableConnectError]
withOperationRetry == [maxAttempts |-> 3, shouldRetry |-> isRetryableOperationError]

\* A status outside 2xx becomes an apiError; transport errors are returned as they are.
parseAPIError == {"notFound", "auth", "conflict", "locked", "other"}
doWithBody == {"timeout", "reset", "refused"} \cup parseAPIError

\* The API methods of the client: one request each, an error is passed on.
GetVersion           == Read("NOT_CONNECTED")
ListNodes            == Read("INTERNAL")
ListClusterResources == "fatal"
GetVMStatus          == Lookup("INTERNAL")
GetVMConfig          == Read("INTERNAL")
VMPowerAction(action) == Send(action, "INTERNAL")
ClientCreateVM       == Send("create", "INTERNAL")
ClientDeleteVM       == Send("destroy", "INTERNAL")
ClientCloneVM        == Send("clone", "INTERNAL")
ClientListSnapshots  == Read("INTERNAL")
ClientCreateSnapshot == Send("snapshot", "INTERNAL")
ClientDeleteSnapshot == Send("unsnapshot", "INTERNAL")
RollbackSnapshot     == Send("revert", "INTERNAL")
ListStorage          == Read("INTERNAL")
ClientListNetworks   == Read("INTERNAL")
VNCProxy             == Lookup("INTERNAL")
GetVMRRDData         == Read("INTERNAL")

\* waitForTask: a stopped task is a success exactly when its exit status is OK or empty;
\* an error while polling is not one (the loop goes on until the deadline).
waitForTask == Wait("INTERNAL")

\* parseProviderVMID: "<node>/<vmid>" or an error.
parseProviderVMID == Step("parse", "", "NOT_FOUND")

----------------------------------------------------------------------------
(* mapper.go *)

mapVMStatus == [running |-> "running", stopped |-> "stopped", paused |-> "paused", suspended |-> "suspended"]

\* Of the VMInfo only the status is kept; mapVMStatus answers unknown for everything else.
enrichVMInfo(native) == IF native \in DOMAIN mapVMStatus THEN mapVMStatus[native] ELSE "unknown"

----------------------------------------------------------------------------
(* Lifecycle *)

\* resolveToken fails before any attempt; every attempt asks for the version with a new client.
resolveToken == Step("token", "", "AUTH_FAILED")
Connect == << resolveToken,
              With(Retried(GetVersion, "connect"), [auth |-> "AUTH_FAILED"]),
              Step("connected", TRUE, "INTERNAL") >>
Disconnect == << Step("connected", FALSE, "INTERNAL") >>
Ping == << EnsureConnected,
           [GetVersion EXCEPT !.ok = 3, !.err = 1],
           Step("connected", FALSE, "INTERNAL"),
           Step("fail", "", "NOT_CONNECTED") >>

----------------------------------------------------------------------------
(* VM and power operations *)

pickNode == ListNodes
nextVMID == Step("allocate", "", "INTERNAL")

\* The configuration is fetched after the status, and an error there is only logged.
GetVM == << EnsureConnected, parseProviderVMID, With(GetVMStatus, [notFound |-> "NOT_FOUND"]) >>
         \o Tolerant(<<GetVMConfig>>)

CreateVM == << EnsureConnected, pickNode, nextVMID,
               Retried(ClientCreateVM, "operation"), waitForTask,
               Step("adopt", "", "INTERNAL") >> \o GetVM

\* GetVMStatus; anything but "running" ends stopIfRunning; stop is sent once, not retried.
stopIfRunning == << GetVMStatus, Step("onlyIf", {"running"}, "INTERNAL"),
                    VMPowerAction("stop"), waitForTask >>
DeleteVM == << EnsureConnected, parseProviderVMID >> \o Tolerant(stopIfRunning)
            \o << With(ClientDeleteVM, [notFound |-> "NOT_FOUND"]), waitForTask >>

CloneVM == << EnsureConnected, parseProviderVMID, nextVMID,
              Retried(ClientCloneVM, "operation"), waitForTask,
              Step("adopt", "", "INTERNAL") >> \o GetVM

powerAction(action) ==
    << EnsureConnected, parseProviderVMID,
       With(Retried(VMPowerAction(action), "operation"),
            [notFound |-> "NOT_FOUND", conflict |-> "INVALID_STATE"]),
       waitForTask >>
PowerOn  == powerAction("start")
PowerOff == powerAction("stop")
Reboot   == powerAction("reboot")
Suspend  == powerAction("suspend")
Reset    == powerAction("reset")

\* The performance data must be there, the status that sharpens it need not.
GetVMMetrics == << EnsureConnected, parseProviderVMID, GetVMRRDData >> \o Tolerant(<<GetVMStatus>>)

----------------------------------------------------------------------------
(* Snapshots *)

ListSnapshots == << EnsureConnected, parseProviderVMID, ClientListSnapshots >>
CreateSnapshot == << EnsureConnected, parseProviderVMID,
                     Retried(ClientCreateSnapshot, "operation"), waitForTask >>
DeleteSnapshot == << EnsureConnected, parseProviderVMID,
                     With(ClientDeleteSnapshot, [notFound |-> "NOT_FOUND"]), waitForTask >>
RevertSnapshot == << EnsureConnected, parseProviderVMID,
                     With(RollbackSnapshot, [notFound |-> "NOT_FOUND"]), waitForTask >>

----------------------------------------------------------------------------
(* Inventory *)

ListVMs == << EnsureConnected, Step("gather", [vms |-> ListClusterResources], "INTERNAL") >>

\* One list of nodes, then one call per online node whose failure skips the node only.
ListDataStores == << EnsureConnected, ListNodes >> \o Tolerant(<<ListStorage>>)
ListNetworks   == << EnsureConnected, ListNodes >> \o Tolerant(<<ClientListNetworks>>)
GetDataStore == ListDataStores \o << Found("NOT_FOUND") >>
GetNetwork   == ListNetworks \o << Found("NOT_FOUND") >>

\* Three goroutines; the first error among VMs, stores and networks fails the sync.  The nodes are optional.
SyncInventory == << EnsureConnected,
                    Step("gather", [vms |-> ListClusterResources, stores |-> "fatal", networks |-> "fatal"], "INTERNAL") >>
                 \o Tolerant(<<ListNodes>>)

ListTemplates == << EnsureConnected, Read("INTERNAL") >>

\* vncproxy is a request of its own, and the ticket is all that is kept of it.
GetConsoleSession == << EnsureConnected, parseProviderVMID,
                        With(VNCProxy, [notFound |-> "NOT_FOUND"]) >>

=============================================================================
