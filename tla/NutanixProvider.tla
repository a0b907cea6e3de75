-------------------------- MODULE NutanixProvider --------------------------
(***************************************************************************)
(* provider/nutanix: the operations of the Nutanix Prism v3 provider, a    *)
(* REST client whose mutating requests return the UUID of a remote task.   *)
(***************************************************************************)
EXTENDS ProviderSteps, FiniteSets

----------------------------------------------------------------------------
(* retry.go, task.go, client.go *)

isRetryableConnectError == {"refused", "reset", "timeout"}
isNutanixAuthError      == {"auth"}

\* The message is lower-cased before it is compared, so that the listed kRetry and
\* kInternalError never match: an error of that kind is "other" and not retried.
isRetryableOperationError == {"locked", "timeout", "reset"}

connectRetry       == [maxAttempts |-> 3, shouldRetry |-> isRetryableConnectError]
withOperationRetry == [maxAttempts |-> 3, shouldRetry |-> isRetryableOperationError]

\* A status outside 2xx becomes an apiError; transport errors are returned as they are.
parseAPIError == {"notFound", "auth", "conflict", "locked", "other"}
doJSON == {"timeout", "reset", "refused"} \cup parseAPIError

\* The API methods of the client: one request each, an error is passed on.
ClientPing           == Read("NOT_CONNECTED")
ClientGetVM          == Lookup("INTERNAL")
VMPowerAction(transition) == Send(transition, "INTERNAL")
ClientDeleteVM       == Send("destroy", "INTERNAL")
ClientCloneVM(body)  == Send(body, "INTERNAL")
ListClusters         == Read("INTERNAL")
ListHosts            == Read("INTERNAL")
ListSubnets          == Read("INTERNAL")
ListImages           == Read("INTERNAL")
ListVMSnapshots      == Tolerant(<< Read("INTERNAL") >>)
CreateVMSnapshot     == Send("snapshot", "INTERNAL")
DeleteVMSnapshot     == Send("unsnapshot", "INTERNAL")
RestoreVMSnapshot    == Send("revert", "INTERNAL")

\* SUCCEEDED returns, FAILED and ABORTED are errors, anything else goes on until the deadline.
waitForTask == Wait("INTERNAL")

\* As waitForTask, and the first entity of the task is the result ("" when there is none).
waitForTaskWithResult == << Wait("INTERNAL"), Step("adopt", "", "INTERNAL") >>

\* Client.ListVMs sends one list request of at most 500 entities and no further page.
ClientListVMs(vms, pageLength) == {s \in SUBSET vms : \/ s = vms
                                                      \/ Cardinality(vms) > pageLength /\ Cardinality(s) = pageLength}

----------------------------------------------------------------------------
(* mapper.go *)

mapPowerState == [ON |-> "running", OFF |-> "stopped", PAUSED |-> "suspended", SUSPEND |-> "suspended",
                  UNKNOWN |-> "unknown"]

\* Of the VMInfo only the status is kept.
mapVMToInfo(native) == IF native \in DOMAIN mapPowerState THEN mapPowerState[native] ELSE "unknown"

\* Both bodies are sent to /vms; neither names the VM to be made, so that each one accepted makes a new VM.
buildVMCreateSpec == "create"
buildVMCloneSpec  == "create"

----------------------------------------------------------------------------
(* Lifecycle *)

Connect == << With(Retried(ClientPing, "connect"), [auth |-> "AUTH_FAILED"]),
              Step("connected", TRUE, "INTERNAL") >>
Disconnect == << Step("connected", FALSE, "INTERNAL") >>
Ping == << EnsureConnected,
           [ClientPing EXCEPT !.ok = 3, !.err = 1],
           Step("connected", FALSE, "INTERNAL"),
           Step("fail", "", "NOT_CONNECTED") >>

----------------------------------------------------------------------------
(* VM and power operations *)

\* Clusters and hosts only add names to the result.
buildTopologyMaps == Tolerant(<<ListClusters>>) \o Tolerant(<<ListHosts>>)
GetVM == << EnsureConnected, With(ClientGetVM, [notFound |-> "NOT_FOUND"]) >> \o buildTopologyMaps

pickCluster == ListClusters
CreateVM == << EnsureConnected, pickCluster, Retried(ClientCloneVM(buildVMCreateSpec), "operation") >>
            \o waitForTaskWithResult \o GetVM

powerOffIfRunning == << ClientGetVM, Step("onlyIf", {"ON"}, "INTERNAL"),
                        VMPowerAction("OFF"), waitForTask >>
DeleteVM == << EnsureConnected >> \o Tolerant(powerOffIfRunning)
            \o << With(ClientDeleteVM, [notFound |-> "NOT_FOUND"]), waitForTask >>

\* The body of the clone is a create request built from the source's specification.
CloneVM == << EnsureConnected, With(ClientGetVM, [notFound |-> "NOT_FOUND"]),
              Retried(ClientCloneVM(buildVMCloneSpec), "operation") >>
           \o waitForTaskWithResult \o GetVM

powerAction(transition) ==
    << EnsureConnected, With(Retried(VMPowerAction(transition), "operation"), [notFound |-> "NOT_FOUND"]),
       waitForTask >>
PowerOn  == powerAction("ON")
PowerOff == powerAction("OFF")
Reboot   == powerAction("ACPI_REBOOT")
Suspend  == powerAction("PAUSE")
Reset    == powerAction("POWERCYCLE")

\* Empty metrics and no call at all, connected or not.
GetVMMetrics == << >>

----------------------------------------------------------------------------
(* Snapshots *)

\* ListVMSnapshots answers an empty list when the call fails.
ListSnapshots == << EnsureConnected >> \o ListVMSnapshots
CreateSnapshot == << EnsureConnected, Retried(CreateVMSnapshot, "operation"), Wait("INTERNAL") >>
DeleteSnapshot == << EnsureConnected,
                     With(DeleteVMSnapshot, [notFound |-> "NOT_FOUND"]), waitForTask >>
RevertSnapshot == << EnsureConnected,
                     With(RestoreVMSnapshot, [notFound |-> "NOT_FOUND"]), waitForTask >>

----------------------------------------------------------------------------
(* Inventory *)

ListVMs == << EnsureConnected, Step("gather", [vms |-> "fatal"], "INTERNAL") >> \o buildTopologyMaps
ListDataStores == << EnsureConnected >> \o Tolerant(<<Read("INTERNAL")>>)
ListNetworks   == << EnsureConnected, ListSubnets >>
GetDataStore == ListDataStores \o << Found("NOT_FOUND") >>
GetNetwork   == ListNetworks \o << Found("NOT_FOUND") >>
ListTemplates  == << EnsureConnected, ListImages >>

\* Only the list of VMs is required; stores and networks that cannot be read are reported as empty.
SyncInventory == << EnsureConnected,
                    Step("gather", [vms |-> "fatal", stores |-> "empty", networks |-> "empty"], "INTERNAL") >>

=============================================================================
