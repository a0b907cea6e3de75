--------------------------- MODULE VMwareProvider ---------------------------
(***************************************************************************)
(* provider/vmware: the operations of the vSphere provider.  Requests are  *)
(* SOAP calls through govmomi that return a task to wait for; none of them *)
(* is repeated (withOperationRetry has no caller in this package).         *)
(***************************************************************************)
EXTENDS ProviderSteps

----------------------------------------------------------------------------
(* retry.go, client.go *)

isAuthError == {"auth"}
isRetryableConnectError == {"refused", "reset", "timeout"} \ isAuthError

connectRetry == [maxAttempts |-> 3, shouldRetry |-> isRetryableConnectError]

\* newConnectionManager logs in at once: an attempt is one remote call.
newConnectionManager == Retried(Read("AUTH_FAILED"), "connect")

\* Connection.ping: an RPC error and an inactive session are errors alike.
ping == Read("NOT_CONNECTED")

----------------------------------------------------------------------------
(* mapper.go *)

mapPowerState == [poweredOn |-> "running", poweredOff |-> "stopped", suspended |-> "suspended"]

\* Of the VMInfo only the status is kept.
MapVMInfoWithTopology(native) == IF native \in DOMAIN mapPowerState THEN mapPowerState[native] ELSE "unknown"

----------------------------------------------------------------------------
(* Helpers of provider.go *)

\* Whatever the error of the read, the VM is reported as not found.
findVM == Lookup("NOT_FOUND")

\* A power state that cannot be read is accepted.
assertPowerState(allowed) == Step("assert", allowed, "INVALID_STATE")

waitTask == Wait("INTERNAL")

\* The parent of the host, then the pool of that compute resource.
hostResourcePool == << Read("INTERNAL"), Read("INTERNAL") >>

----------------------------------------------------------------------------
(* Lifecycle *)

Connect == << newConnectionManager, Step("connected", TRUE, "INTERNAL") >>
Disconnect == Tolerant(<<Read("INTERNAL")>>) \o << Step("connected", FALSE, "INTERNAL") >>
Ping == << EnsureConnected, [ping EXCEPT !.ok = 3, !.err = 1],
           Step("connected", FALSE, "INTERNAL"), Step("fail", "", "NOT_CONNECTED") >>

----------------------------------------------------------------------------
(* VM operations *)

GetVM == << EnsureConnected, findVM, Lookup("INTERNAL") >>

\* A template that is found is cloned into the default folder ...
cloneFromTemplate == << Read("NOT_FOUND"), Read("INTERNAL") >> \o Tolerant(<<Read("INTERNAL")>>)
                     \o << Send("create", "INTERNAL"), Wait("INTERNAL"), Step("adopt", "", "INTERNAL") >>
\* ... and a blank VM created in the default folder and pool.
createBlankVM == << Read("INTERNAL"), Read("INTERNAL"),
                    Send("create", "INTERNAL"), Wait("INTERNAL"), Step("adopt", "", "INTERNAL") >>
CreateVM(fromTemplate) ==
    << EnsureConnected, Read("INTERNAL") >>
    \o (IF fromTemplate THEN cloneFromTemplate ELSE createBlankVM) \o GetVM

\* A VM that is on is switched off first; no error of that part stops the deletion.
DeleteVM == << EnsureConnected, findVM >>
            \o Tolerant(<< Lookup("INTERNAL"), Step("onlyIf", {"poweredOn"}, "INTERNAL"),
                           Send("PowerOff", "INTERNAL"), waitTask >>)
            \o << Send("destroy", "INTERNAL"), waitTask >>

\* Datacenter, source, folder and pool; the datastore of the request is used if it exists.
CloneVM == << EnsureConnected, Read("INTERNAL"), Lookup("NOT_FOUND"), Read("INTERNAL") >>
           \o hostResourcePool \o Tolerant(<<Read("INTERNAL")>>)
           \o << Send("clone", "INTERNAL"), Wait("INTERNAL"), Step("adopt", "", "INTERNAL") >> \o GetVM

\* A linked clone needs a current snapshot: currentSnapshotRef is nil when it cannot be read.
CloneLinked == << EnsureConnected, Read("INTERNAL"), Lookup("NOT_FOUND"), Read("INTERNAL") >>
               \o hostResourcePool \o << Step("snapped", "", "INVALID_STATE"), Send("clone", "INTERNAL"),
                                         Wait("INTERNAL"), Step("adopt", "", "INTERNAL") >> \o GetVM

----------------------------------------------------------------------------
(* Power operations *)

PowerOn  == << EnsureConnected, findVM, assertPowerState({"poweredOff", "suspended"}),
               Send("PowerOn", "INTERNAL"), waitTask >>
PowerOff == << EnsureConnected, findVM, assertPowerState({"poweredOn"}), Send("PowerOff", "INTERNAL"), waitTask >>
Suspend  == << EnsureConnected, findVM, assertPowerState({"poweredOn"}), Send("Suspend", "INTERNAL"), waitTask >>
Reset    == << EnsureConnected, findVM, assertPowerState({"poweredOn"}), Send("Reset", "INTERNAL"), waitTask >>

\* The guest is asked first, without a task to wait for; if that fails the VM is reset.
Reboot == << EnsureConnected, findVM, assertPowerState({"poweredOn"}),
             [Step("guest", "RebootGuest", "INTERNAL") EXCEPT !.ok = 3, !.err = 1],
             Send("Reset", "INTERNAL"), waitTask >>

\* collectVMMetrics: the counters, then the sample; both errors are returned unwrapped.
collectVMMetrics == << Read("INTERNAL"), Read("INTERNAL") >>
GetVMMetrics == << EnsureConnected, findVM >> \o collectVMMetrics

----------------------------------------------------------------------------
(* Snapshots *)

ListSnapshots  == << EnsureConnected, findVM, Read("INTERNAL") >>
CreateSnapshot == << EnsureConnected, findVM, Send("snapshot", "INTERNAL"), Wait("INTERNAL") >>
DeleteSnapshot == << EnsureConnected, findVM, Send("unsnapshot", "INTERNAL"), waitTask >>
RevertSnapshot == << EnsureConnected, findVM, Send("revert", "INTERNAL"), waitTask >>

----------------------------------------------------------------------------
(* Inventory *)

ListVMs        == << EnsureConnected, Read("INTERNAL"), Step("gather", [vms |-> "fatal"], "INTERNAL") >>
ListDataStores == << EnsureConnected, Read("INTERNAL"), Read("INTERNAL") >>
ListNetworks   == << EnsureConnected, Read("INTERNAL"), Read("INTERNAL") >>
GetDataStore   == << EnsureConnected, Read("NOT_FOUND") >>
GetNetwork     == << EnsureConnected, Read("NOT_FOUND") >>
ListTemplates  == << EnsureConnected, Read("INTERNAL"), Read("INTERNAL") >>

\* The parents of the hosts; hosts without an answer belong to no cluster.
buildHostClusterMap == Tolerant(<<Read("INTERNAL")>>)

\* Five goroutines; hosts and clusters only add names.
SyncInventory == << EnsureConnected,
                    Step("gather", [vms |-> "fatal", stores |-> "fatal", networks |-> "fatal",
                                    hosts |-> "empty", clusters |-> "empty"], "INTERNAL") >>
                 \o buildHostClusterMap

GetConsoleSession == << EnsureConnected, findVM, Lookup("INTERNAL") >>

=============================================================================
