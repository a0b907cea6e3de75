---------------------------- MODULE Provisioning ----------------------------
(***************************************************************************)
(* service/provisioning_service.go, task/provisioning_handlers.go and the  *)
(* template service: one job that clones a VM or creates one from a        *)
(* template, its task, and the template's row.  The request and the task's *)
(* handler both read the job's row and save a changed copy of all of it.   *)
(* The engine is reduced to the status of the one task (module TaskEngine).*)
(***************************************************************************)
EXTENDS Naturals

CONSTANTS MaxTroubles  \* failed statements and cancellations

ASSUME ProvisioningAssumption == MaxTroubles \in Nat

VARIABLES job,         \* the provisioning_jobs row, or NoJob
          order,       \* progress of the request that creates it, with the row as it knows it
          jtask,       \* status of the task
          stop,        \* the task's cancel flag
          exec,        \* what the task's handler is doing
          made,        \* history: VMs created on the hypervisor (2 stands for more)
          vmRow,       \* the new VM has a row
          tpl,         \* the template: [row, remote]
          sync,        \* a template synchronisation has listed the template
          disturbed,   \* history: a write was lost, or the request saved its copy over the handler's
          troubles     \* budget

jobVars == <<job, order, jtask, stop, exec, made, vmRow, tpl, sync, disturbed, troubles>>

NoJob == [status |-> "none"]
Rest  == [pc |-> "rest"]

JobInit == /\ job = NoJob /\ order = Rest /\ jtask = "none" /\ stop = FALSE /\ exec = Rest
           /\ made = 0 /\ vmRow = FALSE
           /\ tpl = [row |-> FALSE, remote |-> TRUE] /\ sync = FALSE
           /\ disturbed = FALSE /\ troubles = 0

Trouble   == troubles < MaxTroubles /\ troubles' = troubles + 1
NoTrouble == UNCHANGED troubles

----------------------------------------------------------------------------
(* Templates: SyncTemplatesNow lists and then upserts; rows are never removed *)

TemplateList == /\ ~sync /\ tpl.remote /\ sync' = TRUE
                /\ UNCHANGED <<job, order, jtask, stop, exec, made, vmRow, tpl, disturbed, troubles>>

TemplateUpsert == /\ sync /\ sync' = FALSE
                  /\ \/ tpl' = [tpl EXCEPT !.row = TRUE] /\ NoTrouble
                     \/ UNCHANGED tpl /\ Trouble
                  /\ UNCHANGED <<job, order, jtask, stop, exec, made, vmRow, disturbed>>

\* Environment: the template disappears from the hypervisor.
TemplateVanishes == /\ tpl.remote /\ tpl' = [tpl EXCEPT !.remote = FALSE]
                    /\ UNCHANGED <<job, order, jtask, stop, exec, made, vmRow, sync, disturbed, troubles>>

----------------------------------------------------------------------------
(* Clone and Provision *)

NewJob(type) == [type |-> type, status |-> "pending", linked |-> FALSE, result |-> FALSE]

CreateJob(type) == /\ order = Rest
                   /\ type = "provision" => tpl.row
                   /\ job' = NewJob(type)
                   /\ order' = [pc |-> "task", copy |-> NewJob(type)]
                   /\ UNCHANGED <<jtask, stop, exec, made, vmRow, tpl, sync, disturbed, troubles>>

\* A job whose task cannot be created stays pending.
CreateTask == /\ order.pc = "task"
              /\ \/ /\ NoTrouble /\ jtask' = "pending"
                    /\ order' = [order EXCEPT !.pc = "link"]
                 \/ /\ Trouble /\ UNCHANGED jtask
                    /\ order' = [pc |-> "done"]
              /\ UNCHANGED <<job, stop, exec, made, vmRow, tpl, sync, disturbed>>

\* Update saves the request's copy, still pending; the fallback poller may have started the task.
LinkTask == /\ order.pc = "link"
            /\ order' = [pc |-> "done"]
            /\ \/ /\ NoTrouble
                  /\ job' = [order.copy EXCEPT !.linked = TRUE]
                  /\ disturbed' = (disturbed \/ job # order.copy \/ exec.pc = "save")
               \/ Trouble /\ disturbed' = TRUE /\ UNCHANGED job
            /\ UNCHANGED <<jtask, stop, exec, made, vmRow, tpl, sync>>

CancelJob == /\ Trouble
             /\ jtask \notin {"none", "completed", "failed", "cancelled"}
             /\ jtask' = "cancelled" /\ stop' = TRUE
             /\ UNCHANGED <<job, order, exec, made, vmRow, tpl, sync, disturbed>>

----------------------------------------------------------------------------
(* handleVMClone and handleVMProvision *)

\* The engine takes a task that the request, the poller or a retry's timer has enqueued.
ExecTake == /\ exec = Rest
            /\ \/ /\ jtask \in {"pending", "retrying"} /\ ~stop
                  /\ jtask' = "running" /\ exec' = [pc |-> "begin"]
                  /\ UNCHANGED stop
               \/ /\ jtask = "cancelled" /\ stop
                  /\ stop' = FALSE
                  /\ UNCHANGED <<jtask, exec>>
            /\ UNCHANGED <<job, order, made, vmRow, tpl, sync, disturbed, troubles>>

Close(s) == /\ exec' = Rest /\ jtask' = s
           /\ stop' = IF s = "cancelled" THEN FALSE ELSE stop

Goto(pc) == exec' = [pc |-> pc] /\ UNCHANGED <<jtask, stop>>

\* updateJobStatus: the job is read, and saved with the new status.
Mark(s, then) == exec' = [pc |-> "read", goal |-> s, then |-> then] /\ UNCHANGED <<jtask, stop>>

\* A task cancelled here leaves its job pending.
ExecBegin == /\ exec.pc = "begin"
             /\ IF stop THEN Close("cancelled") ELSE Mark("running", "connect")
             /\ UNCHANGED <<job, order, made, vmRow, tpl, sync, disturbed, troubles>>

\* Errors of the read and of the save are tolerated.
ExecRead == /\ exec.pc = "read"
            /\ \/ /\ NoTrouble
                  /\ exec' = [pc |-> "save", goal |-> exec.goal, then |-> exec.then, copy |-> job]
                  /\ UNCHANGED <<jtask, stop, disturbed>>
               \/ Trouble /\ disturbed' = TRUE /\ Goto(exec.then)
            /\ UNCHANGED <<job, order, made, vmRow, tpl, sync>>

\* A provisioned VM's row is found by its provider ID and linked.
ExecSave == /\ exec.pc = "save"
            /\ \/ /\ NoTrouble /\ UNCHANGED disturbed
                  /\ job' = [exec.copy EXCEPT !.status = exec.goal,
                                              !.result = @ \/ (exec.goal = "completed" /\ vmRow)]
               \/ Trouble /\ disturbed' = TRUE /\ UNCHANGED job
            /\ Goto(exec.then)
            /\ UNCHANGED <<order, made, vmRow, tpl, sync>>

\* Mutant: the failure is not written to the job.
FailsQuietly(end) == Goto(end)

Fails(end) == Mark("failed", end)

\* Credentials, registry and Connect.
ExecConnect == /\ exec.pc = "connect"
               /\ Goto("check") \/ Fails("error")
               /\ UNCHANGED <<job, order, made, vmRow, tpl, sync, disturbed, troubles>>

ExecCheck == /\ exec.pc = "check"
             /\ IF stop THEN Mark("cancelled", "cancelled") ELSE Goto("call")
             /\ UNCHANGED <<job, order, made, vmRow, tpl, sync, disturbed, troubles>>

\* CloneVM or CreateVM: a provider that cannot clone fails the task for good. A clone gets no row, the
\* next inventory sync brings it.
ExecCall == /\ exec.pc = "call"
            /\ \/ /\ job.type = "provision" => tpl.remote
                  /\ made' = IF made < 2 THEN made + 1 ELSE made
                  /\ IF job.type = "clone" THEN Mark("completed", "done") ELSE Goto("upsert")
               \/ Fails("error") /\ UNCHANGED made
               \/ job.type = "clone" /\ Fails("permanent") /\ UNCHANGED made
            /\ UNCHANGED <<job, order, vmRow, tpl, sync, disturbed, troubles>>

\* When the row cannot be written the job is not updated, and the task completes all the same.
ExecUpsert == /\ exec.pc = "upsert"
              /\ \/ NoTrouble /\ vmRow' = TRUE /\ Mark("completed", "done") /\ UNCHANGED disturbed
                 \/ Trouble /\ disturbed' = TRUE /\ Goto("done") /\ UNCHANGED vmRow
              /\ UNCHANGED <<job, order, made, tpl, sync>>

\* processTask: MaxRetries is 2 and no retry is counted, so every error is retried.
ExecOver == /\ \/ exec.pc = "done" /\ Close("completed")
               \/ exec.pc = "error" /\ Close("retrying")
               \/ exec.pc = "permanent" /\ Close("failed")
               \/ exec.pc = "cancelled" /\ Close("cancelled")
            /\ UNCHANGED <<job, order, made, vmRow, tpl, sync, disturbed, troubles>>

JobNext == \/ TemplateList \/ TemplateUpsert \/ TemplateVanishes
           \/ \E type \in {"clone", "provision"} : CreateJob(type)
           \/ CreateTask \/ LinkTask \/ CancelJob
           \/ ExecTake \/ ExecBegin \/ ExecRead \/ ExecSave \/ ExecConnect \/ ExecCheck \/ ExecCall
           \/ ExecUpsert \/ ExecOver

JobSpec == JobInit /\ [][JobNext]_jobVars

----------------------------------------------------------------------------
(* Properties *)

\* Unless a write was lost or the request saved over the handler, the job tells what became of its task,
\* also after errors and retries: completed with the task and linked to it (and, provisioned, to the row
\* of the VM), failed while the task has failed or waits for its retry, and completed only with a VM.
JobMatchesTask ==
    ~disturbed /\ order.pc = "done" =>
      /\ jtask = "completed" => /\ job.status = "completed" /\ job.linked
                                /\ job.type = "provision" => job.result /\ vmRow
      /\ jtask \in {"failed", "retrying"} => job.status = "failed"
      /\ job.status = "completed" => made > 0

=============================================================================
