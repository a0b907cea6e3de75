------------------------------ MODULE Inventory ------------------------------
(***************************************************************************)
(* service/hypervisor_service.go with the repositories it writes: the row  *)
(* of a hypervisor, and the rows of its VMs, datastores, networks,         *)
(* clusters and hosts, which an inventory synchronisation brings up to     *)
(* date one table after the other.  Synchronisations overlap with each     *)
(* other, with requests on the hypervisor and with what makes and deletes  *)
(* VMs; a write for a hypervisor that was deleted meanwhile may be refused *)
(* by a foreign key or not (AutoMigrate makes them, the repository's       *)
(* comment says that there are none).                                      *)
(***************************************************************************)
EXTENDS Naturals, FiniteSets

CONSTANTS VMs,          \* VMs that the hypervisor may have
          Syncs,        \* executions of SyncInventoryNow
          MaxChanges,   \* VMs made and deleted, and requests on the hypervisor
          MaxErrors     \* calls of the hypervisor or the database that fail

\* The other writers of rows are named by strings.
ASSUME InventoryAssumption == /\ MaxChanges \in Nat /\ MaxErrors \in Nat /\ IsFiniteSet(VMs)
                              /\ Syncs \cap {"request", "provision", "delete"} = {}

VARIABLES hyp,          \* the hypervisor's row: its connection_status, "none" before Register, "deleted"
          copy,         \* the row as read by an Update that has not saved it, "none" without one
          there,        \* the VMs on the hypervisor
          vmRow,        \* VMs -> "none", "new" (no host named in its metadata), "live", "gone" (deleted_at is set)
          infra,        \* which of the tables Tables hold rows of the hypervisor
          hostRow,      \* NoHost, or the vm_count of its host and whether that is linked to its cluster
          sync,         \* Syncs -> [pc, list, clean]
          alone,        \* history: Syncs -> nobody else has written the rows since it began
          removed,      \* history: VMs whose row has been soft-deleted
          invUsed       \* budget: [changes, errors]

invVars == <<hyp, copy, there, vmRow, infra, hostRow, sync, alone, removed, invUsed>>

Tables   == {"datastores", "networks", "clusters"}
NoHost   == [count |-> 0, linked |-> FALSE, row |-> FALSE]
Idle     == [pc |-> "idle", list |-> {}, clean |-> TRUE]
Exists   == hyp \notin {"none", "deleted"}
Rows(st) == {v \in VMs : vmRow[v] \in st}

InvInit == /\ hyp = "none" /\ copy = "none" /\ there \in SUBSET VMs
           /\ vmRow = [v \in VMs |-> "none"] /\ infra = {} /\ hostRow = NoHost
           /\ sync = [s \in Syncs |-> Idle] /\ alone = [s \in Syncs |-> TRUE]
           /\ removed = {} /\ invUsed = [changes |-> 0, errors |-> 0]

Changing == invUsed.changes < MaxChanges /\ invUsed' = [invUsed EXCEPT !.changes = @ + 1]
Failing  == invUsed.errors < MaxErrors /\ invUsed' = [invUsed EXCEPT !.errors = @ + 1]

\* Sync s, or somebody else when s is none of them, has written rows.
Written(s) == alone' = [x \in Syncs |-> alone[x] /\ x = s]

----------------------------------------------------------------------------
(* Requests on the hypervisor *)

Register == /\ hyp = "none" /\ hyp' = "unknown"
            /\ UNCHANGED <<copy, there, vmRow, infra, hostRow, sync, alone, removed, invUsed>>

\* Update reads the row, changes what the request names and saves all of it, the status it read
\* included; the row is inserted again when it was deleted meanwhile.
UpdateReads == /\ Exists /\ copy = "none" /\ Changing /\ copy' = hyp
               /\ UNCHANGED <<hyp, there, vmRow, infra, hostRow, sync, alone, removed>>

UpdateSaves == /\ copy # "none" /\ hyp' = copy /\ copy' = "none"
               /\ UNCHANGED <<there, vmRow, infra, hostRow, sync, alone, removed, invUsed>>

\* One transaction: the children of the VMs and tasks, the VMs, the other tables, then the hypervisor.
Delete == /\ Exists /\ Changing
          /\ hyp' = "deleted" /\ vmRow' = [v \in VMs |-> "none"] /\ infra' = {} /\ hostRow' = NoHost
          /\ removed' = {} /\ Written("request")
          /\ UNCHANGED <<copy, there, sync>>

\* The status is written only into a row that is still there.
UpdateConnectionStatus(st) == hyp' = IF Exists THEN st ELSE hyp

TestConnection == /\ Exists /\ Changing
                  /\ \E st \in {"connected", "error"} : UpdateConnectionStatus(st)
                  /\ UNCHANGED <<copy, there, vmRow, infra, hostRow, sync, alone, removed>>

----------------------------------------------------------------------------
(* What happens to VMs meanwhile *)

\* Somebody makes a VM on the hypervisor; the provisioning handler then inserts its row, which the
\* unique index on the provider's ID refuses when there is one, deleted or not.
VMMade(v) == /\ v \notin there /\ Changing /\ there' = there \cup {v}
             /\ UNCHANGED <<hyp, copy, vmRow, infra, hostRow, sync, alone, removed>>

RowInserted(v) == /\ v \in there /\ vmRow[v] = "none" /\ Exists /\ Changing
                  /\ vmRow' = [vmRow EXCEPT ![v] = "new"] /\ Written("provision")
                  /\ UNCHANGED <<hyp, copy, there, infra, hostRow, sync, removed>>

VMDestroyed(v) == /\ v \in there /\ Changing /\ there' = there \ {v}
                  /\ UNCHANGED <<hyp, copy, vmRow, infra, hostRow, sync, alone, removed>>

\* vmService.Delete removes the row once the provider has deleted the VM.
RowDeleted(v) == /\ v \notin there /\ v \in Rows({"new", "live"}) /\ Changing
                 /\ vmRow' = [vmRow EXCEPT ![v] = "gone"] /\ removed' = removed \cup {v} /\ Written("delete")
                 /\ UNCHANGED <<hyp, copy, there, infra, hostRow, sync>>

----------------------------------------------------------------------------
(* SyncInventory and SyncInventoryNow *)

At(s, pc) == sync[s].pc = pc

\* Sync s goes on at pc, without an error.
Goes(s, pc) == sync' = [sync EXCEPT ![s].pc = pc]

\* Sync s has met an error and goes on at pc.
Errs(s, pc) == /\ sync' = [sync EXCEPT ![s].pc = pc, ![s].clean = FALSE]
               /\ Failing \/ (~Exists /\ UNCHANGED invUsed)

SyncInventory(s) == /\ sync[s] = Idle /\ Exists /\ Goes(s, "queued")
                    /\ UNCHANGED <<hyp, copy, there, vmRow, infra, hostRow, alone, removed, invUsed>>

\* The hypervisor is loaded: it may have been deleted since the task was created.
SyncBegins(s) == /\ At(s, "queued") /\ Goes(s, IF Exists THEN "connect" ELSE "failed")
                 /\ alone' = [alone EXCEPT ![s] = TRUE]
                 /\ UNCHANGED <<hyp, copy, there, vmRow, infra, hostRow, removed, invUsed>>

SyncConnects(s) ==
    /\ At(s, "connect")
    /\ \/ Goes(s, "fetch") /\ UpdateConnectionStatus("connected") /\ UNCHANGED invUsed
       \/ Errs(s, "failed") /\ UpdateConnectionStatus("error")
    /\ UNCHANGED <<copy, there, vmRow, infra, hostRow, alone, removed>>

\* No VM in the snapshot: the rows are left alone.
SyncFetches(s) ==
    /\ At(s, "fetch")
    /\ \/ /\ sync' = [sync EXCEPT ![s].list = there, ![s].pc = IF there = {} THEN "datastores" ELSE "upsert"]
          /\ UNCHANGED <<hyp, invUsed>>
       \/ Errs(s, "failed") /\ UpdateConnectionStatus("error")
    /\ UNCHANGED <<copy, there, vmRow, infra, hostRow, alone, removed>>

\* Mutant: a row that is there is not updated.
DoNothingOnConflict(st) == IF st = "none" THEN "live" ELSE st

\* What BulkUpsert makes of the row of a VM that was listed: every column is updated but deleted_at.
Upserted(st) == IF st = "gone" THEN "gone" ELSE "live"

BulkUpsert(s) == vmRow' = [v \in VMs |-> IF v \in sync[s].list THEN Upserted(vmRow[v]) ELSE vmRow[v]]

SyncUpserts(s) ==
    /\ At(s, "upsert")
    /\ \/ BulkUpsert(s) /\ Goes(s, "mark") /\ Written(s) /\ UNCHANGED invUsed
       \/ Errs(s, "mark") /\ UNCHANGED <<vmRow, alone>>
    /\ UNCHANGED <<hyp, copy, there, infra, hostRow, removed>>

\* The rows that the listing of s does not name.
Missing(s) == Rows({"new", "live"}) \ sync[s].list

MarkDeletedByProviderIDs(s) ==
    /\ At(s, "mark")
    /\ \/ /\ vmRow' = [v \in VMs |-> IF v \in Missing(s) THEN "gone" ELSE vmRow[v]]
          /\ removed' = removed \cup Missing(s) /\ Written(s) /\ Goes(s, "datastores") /\ UNCHANGED invUsed
       \/ Errs(s, "datastores") /\ UNCHANGED <<vmRow, alone, removed>>
    /\ UNCHANGED <<hyp, copy, there, infra, hostRow>>

NextTable == [datastores |-> "networks", networks |-> "clusters", clusters |-> "hosts"]

\* A table once the rows of the snapshot are inserted, or updated where there are any.
TableUpserted(table) == infra \cup {table}

\* The datastores, networks and clusters, each in a statement of its own, an error of one keeping the
\* others from nothing.
UpsertTable(s, table) ==
    /\ At(s, table)
    /\ \/ infra' = TableUpserted(table) /\ Goes(s, NextTable[table]) /\ Written(s) /\ UNCHANGED invUsed
       \/ Errs(s, NextTable[table]) /\ UNCHANGED <<infra, alone>>
    /\ UNCHANGED <<hyp, copy, there, vmRow, hostRow, removed>>

\* The upsert writes every column of a host: the cluster it was given, and vm_count, which is 0.
HostUpserted(linked) == [count |-> 0, linked |-> linked, row |-> TRUE]

\* The hosts, linked to the clusters that have a row by now.
UpsertHosts(s) ==
    /\ At(s, "hosts")
    /\ \/ /\ hostRow' = HostUpserted("clusters" \in infra)
          /\ Goes(s, "count") /\ Written(s) /\ UNCHANGED invUsed
       \/ Errs(s, "publish") /\ UNCHANGED <<hostRow, alone>>
    /\ UNCHANGED <<hyp, copy, there, vmRow, infra, removed>>

\* The rows that are counted for a host: those whose metadata names it and that are not deleted.
Counted == Rows({"live"})

UpdateVMCount(s) ==
    /\ At(s, "count")
    /\ \/ hostRow' = [hostRow EXCEPT !.count = IF hostRow.row THEN Cardinality(Counted) ELSE 0]
          /\ Goes(s, "publish") /\ Written(s) /\ UNCHANGED invUsed
       \/ Errs(s, "publish") /\ UNCHANGED <<hostRow, alone>>
    /\ UNCHANGED <<hyp, copy, there, vmRow, infra, removed>>

\* The event, the audit entry and the goroutine for the health row (module ProviderHealth).
SyncEnds(s) == /\ At(s, "publish") /\ Goes(s, "done")
               /\ UNCHANGED <<hyp, copy, there, vmRow, infra, hostRow, alone, removed, invUsed>>

\* The task is tried again, or another one is created.
SyncAgain(s) == /\ sync[s].pc \in {"done", "failed"} /\ Changing /\ sync' = [sync EXCEPT ![s] = Idle]
                /\ UNCHANGED <<hyp, copy, there, vmRow, infra, hostRow, alone, removed>>

----------------------------------------------------------------------------

InvNext == \/ Register \/ UpdateReads \/ UpdateSaves \/ Delete \/ TestConnection
           \/ \E v \in VMs : VMMade(v) \/ RowInserted(v) \/ VMDestroyed(v) \/ RowDeleted(v)
           \/ \E s \in Syncs : \/ SyncInventory(s) \/ SyncBegins(s) \/ SyncConnects(s) \/ SyncFetches(s)
                               \/ SyncUpserts(s) \/ MarkDeletedByProviderIDs(s)
                               \/ \E table \in Tables : UpsertTable(s, table)
                               \/ UpsertHosts(s) \/ UpdateVMCount(s) \/ SyncEnds(s) \/ SyncAgain(s)

InvSpec == InvInit /\ [][InvNext]_invVars

\* A synchronisation during which nobody else wrote the rows and no call failed leaves exactly the VMs that
\* it listed, less those whose row was ever soft-deleted (the upsert does not bring them back), with a host
\* that is linked to its cluster and counts them, whatever overlapping synchronisations, failed ones,
\* provisioning and deletions left behind before it.
QuietSyncMirrors ==
    \A s \in Syncs :
        At(s, "done") /\ alone[s] /\ sync[s].clean /\ sync[s].list # {} =>
            LET live == Rows({"new", "live"})
            IN  /\ live = sync[s].list \ removed
                /\ infra = Tables
                /\ hostRow = [count |-> Cardinality(live), linked |-> TRUE, row |-> TRUE]

=============================================================================
