---------------------------- MODULE ESXiProvider ----------------------------
(***************************************************************************)
(* provider/esxi: a standalone ESXi host.  The provider embeds the vSphere *)
(* one and replaces what needs a vCenter; a clone copies the disks one by  *)
(* one and registers a new VM on them.                                     *)
(***************************************************************************)
EXTENDS ProviderSteps

CONSTANT Disks   \* how many virtual disks the source VM has

VMware == INSTANCE VMwareProvider

\* Connect only logs around the vSphere provider's Connect.
Connect == VMware!Connect

\* The first datastore of the source, by name.
resolveSourceDatastore == << Read("INTERNAL") >>

\* What a loop over the disks does, one group of n steps after the other: the body is given for each disk.
ForEachDisk(body, n) == [i \in 1..n * Disks |-> body[(i + n - 1) \div n][((i - 1) % n) + 1]]

\* For every disk copied so far: delete it, and only log what fails.
cleanupDisk(d) == Tolerant(<< Step("isCopied", d, "INTERNAL"), Send("deleteDisk", "INTERNAL"), Wait("INTERNAL") >>)
cleanupDisks == ForEachDisk([d \in 1..Disks |-> cleanupDisk(d)], 3)

\* One copy task per disk; a disk is on the list of copied ones once its task has ended well.
copyDisk(d) == << Step("disk", d, "INTERNAL"), Send("copyDisk", "INTERNAL"), Wait("INTERNAL"),
                  Step("copied", d, "INTERNAL") >>
copyDisks == ForEachDisk([d \in 1..Disks |-> copyDisk(d)], 4)

\* The configuration of the clone names the copied disks; they belong to the VM once it is registered.
buildCloneConfigSpec == "register"

\* Folder and pool are looked up and the VM is registered on the copied disks.
registerVM == << Read("INTERNAL") >> \o VMware!hostResourcePool
              \o << Send(buildCloneConfigSpec, "INTERNAL"), Wait("INTERNAL") >>

\* The ID of the registered VM, then GetVM, whose success skips the cleanup.
getClone(skip) == << Step("adopt", "", "INTERNAL") >> \o [VMware!GetVM EXCEPT ![3].ok = skip]

\* Mutant: what goes wrong after the last copy is returned without a cleanup.
CloneVMNoCleanup ==
    << EnsureConnected, Lookup("NOT_FOUND") >> \o resolveSourceDatastore \o Tolerant(<<Read("INTERNAL")>>)
    \o OnErrorTo(copyDisks, Len(registerVM) + 4) \o registerVM
    \o getClone(Len(cleanupDisks) + 2)
    \o cleanupDisks \o << Step("fail", "", "INTERNAL") >>

\* The source is read, the target datastore is optional, and every error from the first copy
\* up to the registration runs cleanupDisks before it is returned.
CloneVM ==
    << EnsureConnected, Lookup("NOT_FOUND") >> \o resolveSourceDatastore \o Tolerant(<<Read("INTERNAL")>>)
    \o OnErrorTo(copyDisks \o registerVM, 4)
    \o getClone(Len(cleanupDisks) + 2)
    \o cleanupDisks \o << Step("fail", "", "INTERNAL") >>

\* A linked clone is refused before anything is sent.
CloneLinked == << EnsureConnected, Step("fail", "", "UNSUPPORTED") >>

\* Mutant: no list is required.
SyncInventoryTolerant == << EnsureConnected,
                            Step("gather", [vms |-> "empty", stores |-> "empty", networks |-> "empty",
                                            hosts |-> "empty"], "INTERNAL") >>

\* Four goroutines; everything but the VMs may be missing.
SyncInventory == << EnsureConnected,
                    Step("gather", [vms |-> "fatal", stores |-> "empty", networks |-> "empty",
                                    hosts |-> "empty"], "INTERNAL") >>

\* The ticket is acquired without looking for the VM first.
GetConsoleSession == << EnsureConnected, Lookup("INTERNAL") >>

=============================================================================
