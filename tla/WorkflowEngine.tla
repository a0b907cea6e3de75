--------------------------- MODULE WorkflowEngine ---------------------------
(***************************************************************************)
(* scheduler/workflow_engine.go, service/workflow_service.go and           *)
(* workflow_repo.go: one workflow row, the goroutines of the event bus     *)
(* that trigger it, the runs they create and the goroutines that execute   *)
(* them.  An executor works on the workflow as it was read by its trigger. *)
(***************************************************************************)
EXTENDS Naturals, Sequences, FiniteSets

CONSTANTS Handlers,      \* goroutines of the event bus that may be alive
          Runs,          \* IDs of workflow runs
          Triggers,      \* trigger types of the workflow considered
          ActionLists,   \* action lists of a request; an action is [type, targets, retries, cont]
          MaxConcurrent, \* values of max_concurrent_runs in a request
          MaxEvents,     \* events published
          MaxRequests,   \* requests served
          MaxDBErrors,   \* failed statements
          MaxRestarts    \* crashes of the process

WorkflowActions == [type : STRING, targets : Nat, retries : Nat, cont : {"inherit", "yes", "no"}]

ASSUME WorkflowAssumption == MaxConcurrent \subseteq Nat /\ ActionLists \subseteq Seq(WorkflowActions)

VARIABLES wf,            \* the workflow row, or NoWorkflow
          handlers,      \* Handlers -> handleEvent's progress
          runs,          \* Runs -> the run row, or NoRun
          exec,          \* Runs -> executeRun's progress, or Resting
          wfHist,        \* history: [overlap, orphaned |-> BOOLEAN]
          wfUsed         \* budget: [events, requests, errors, restarts]

wfVars == <<wf, handlers, runs, exec, wfHist, wfUsed>>

NoWorkflow == [none |-> TRUE]
NoRun      == [none |-> TRUE]
Resting    == [pc |-> "rest"]
Active     == {"pending", "running"}
\* The events that are published; the other two are subscribed to, and published by nobody.
Events     == {"sync_failed", "task_failed"}

WfInit == /\ wf = NoWorkflow
          /\ handlers = [h \in Handlers |-> Resting]
          /\ runs = [r \in Runs |-> NoRun] /\ exec = [r \in Runs |-> Resting]
          /\ wfHist = [overlap |-> FALSE, orphaned |-> FALSE]
          /\ wfUsed = [events |-> 0, requests |-> 0, errors |-> 0, restarts |-> 0]

HasWorkflow == wf # NoWorkflow
Spend(what, max) == wfUsed[what] < max /\ wfUsed' = [wfUsed EXCEPT ![what] = @ + 1]
DBError  == Spend("errors", MaxDBErrors)
DBWorks  == UNCHANGED wfUsed
Request  == Spend("requests", MaxRequests)

----------------------------------------------------------------------------
(* workflowService and WorkflowRepo *)

\* Create: no limit means one run at a time.  The enabled column of a disabled workflow takes the
\* default of the table, TRUE; only the status says it is paused.
CreateWorkflow(trigger, enabled, max, cont, actions) ==
    /\ ~HasWorkflow /\ wfUsed.requests = 0 /\ Request
    /\ wf' = [enabled |-> TRUE, status |-> IF enabled THEN "active" ELSE "paused", trigger |-> trigger,
              max |-> IF max = 0 THEN 1 ELSE max, cont |-> cont, actions |-> actions, count |-> 0]
    /\ UNCHANGED <<handlers, runs, exec, wfHist>>

\* Enable, Disable and Update read the row and save it; what may fall between the two is the subject of
\* module Scheduler, whose requests are the same.
EnableWorkflow  == /\ HasWorkflow /\ Request
                   /\ wf' = [wf EXCEPT !.enabled = TRUE, !.status = "active"]
                   /\ UNCHANGED <<handlers, runs, exec, wfHist>>
DisableWorkflow == /\ HasWorkflow /\ Request
                   /\ wf' = [wf EXCEPT !.enabled = FALSE, !.status = "paused"]
                   /\ UNCHANGED <<handlers, runs, exec, wfHist>>

\* Update with a limit and a list of actions.  The limit is taken as it is: 0 is no limit.  Save inserts
\* the actions of the list; the rows of the previous ones stay and are read with the workflow.
UpdateWorkflow(max, actions) ==
    /\ HasWorkflow /\ Request
    /\ wf' = [wf EXCEPT !.max = max, !.actions = @ \o actions]
    /\ wfHist' = [wfHist EXCEPT !.overlap = TRUE]
    /\ UNCHANGED <<handlers, runs, exec>>

DeleteWorkflow == /\ HasWorkflow /\ Request
                  /\ wf' = NoWorkflow
                  /\ UNCHANGED <<handlers, runs, exec, wfHist>>

ListByTrigger(trigger) == HasWorkflow /\ wf.enabled /\ wf.status = "active" /\ wf.trigger = trigger

ActiveRuns  == {r \in Runs : runs[r] # NoRun /\ runs[r].status \in Active}
CountActive == Cardinality(ActiveRuns)

\* UpdateAfterRun: the counter is computed from the executor's copy.
UpdateCounters(copy) == IF HasWorkflow THEN [wf EXCEPT !.count = copy.count + 1] ELSE wf

----------------------------------------------------------------------------
(* Triggers *)

\* The triggers of an event: a failed sync is a failed task as well.
Start(ev) == CASE ev = "hypervisor_disconnected" -> {"provider_disconnected"}
               [] ev = "sync_failed"             -> {"sync_failure", "task_failure"}
               [] ev = "task_failed"             -> {"task_failure"}
               [] ev = "vm_status_changed"       -> {"vm_state_change"}

\* handleEvent lists the workflows; checkConditions may reject this one.
handleEvent(h, ev) ==
    /\ handlers[h] = Resting /\ Spend("events", MaxEvents)
    /\ \E trigger \in Start(ev) : ListByTrigger(trigger)
    /\ handlers' = [handlers EXCEPT ![h] = [pc |-> "count", copy |-> wf]]
    /\ UNCHANGED <<wf, runs, exec, wfHist>>

\* checkConditions: one rule of the workflow does not hold.
checkConditions(h) == /\ handlers[h].pc = "count"
                      /\ handlers' = [handlers EXCEPT ![h] = Resting]
                      /\ UNCHANGED <<wf, runs, exec, wfHist, wfUsed>>

\* Mutant: a limit of two lets three run.
AtLimitLate(w) == CountActive > w.max /\ w.max > 0

AtLimit(w) == CountActive >= w.max /\ w.max > 0

\* CountActive: at the limit the event is dropped; an error of the count is no reason not to go on.
countActive(h) ==
    /\ handlers[h].pc = "count"
    /\ LET late == \E g \in Handlers \ {h} : handlers[g].pc = "create"
       IN  \/ /\ DBWorks
              /\ handlers' = [handlers EXCEPT ![h] = IF AtLimit(@.copy) THEN Resting ELSE [@ EXCEPT !.pc = "create"]]
              /\ wfHist' = [wfHist EXCEPT !.overlap = @ \/ late]
           \/ /\ DBError
              /\ handlers' = [handlers EXCEPT ![h].pc = "create"]
              /\ wfHist' = [wfHist EXCEPT !.overlap = TRUE]
    /\ UNCHANGED <<wf, runs, exec>>

NewRun(byHand) == [status |-> "pending", byHand |-> byHand, log |-> << >>]
NewExec(copy)  == [pc |-> "start", w |-> copy, log |-> << >>, attempt |-> 1, sent |-> 0, failed |-> FALSE]

\* createRun inserts a pending row, and executeRun is started on it.
createRun(h, r) ==
    /\ handlers[h].pc = "create" /\ runs[r] = NoRun
    /\ handlers' = [handlers EXCEPT ![h] = Resting]
    /\ \/ /\ DBWorks
          /\ runs' = [runs EXCEPT ![r] = NewRun(FALSE)] /\ exec' = [exec EXCEPT ![r] = NewExec(handlers[h].copy)]
       \/ DBError /\ UNCHANGED <<runs, exec>>
    /\ UNCHANGED <<wf, wfHist>>

\* TriggerManual asks the enabled column, and neither the status nor the limit.
TriggerManual(r) ==
    /\ HasWorkflow /\ wf.enabled /\ runs[r] = NoRun /\ Request
    /\ runs' = [runs EXCEPT ![r] = NewRun(TRUE)] /\ exec' = [exec EXCEPT ![r] = NewExec(wf)]
    /\ UNCHANGED <<wf, handlers, wfHist>>

----------------------------------------------------------------------------
(* Actions: what an attempt may end in, <<number of targets served, success>> *)

actionPowerOp(a)        == {<<k, k = a.targets>> : k \in 0..a.targets}   \* the first failing target ends it
actionCreateSnapshot(a) == {<<k, k = a.targets>> : k \in 0..a.targets}
actionSendNotification  == {<<1, TRUE>>}                                  \* Dispatch logs its errors
actionTriggerSync       == {<<0, FALSE>>, <<1, FALSE>>, <<1, TRUE>>}     \* the task may exist unqueued
actionWebhook           == {<<0, FALSE>>, <<1, FALSE>>, <<1, TRUE>>}     \* the answer may be an error
actionDelay             == {<<0, TRUE>>, <<0, FALSE>>}                   \* the timeout may come first

runAction(a) == CASE a.type = "create_snapshot"   -> actionCreateSnapshot(a)
                  [] a.type = "power"             -> actionPowerOp(a)
                  [] a.type = "send_notification" -> actionSendNotification
                  [] a.type = "trigger_sync"      -> actionTriggerSync
                  [] a.type = "webhook"           -> actionWebhook
                  [] a.type = "delay"             -> actionDelay
                  [] OTHER                        -> {<<0, FALSE>>}

\* The action's own setting overrides the workflow's.
ContinueOnError(w, a) == IF a.cont = "inherit" THEN w.cont ELSE a.cont = "yes"

----------------------------------------------------------------------------
(* executeRun *)

\* The row becomes running; an error is ignored.
startRun(r) ==
    /\ exec[r].pc = "start"
    /\ exec' = [exec EXCEPT ![r].pc = IF exec[r].w.actions = << >> THEN "finish" ELSE "action"]
    /\ \/ DBWorks /\ runs' = [runs EXCEPT ![r].status = "running"]
       \/ DBError /\ UNCHANGED runs
    /\ UNCHANGED <<wf, handlers, wfHist>>

\* Mutant: a failed action is never the end.
afterActionGoesOn(x, ok) ==
    LET i == Len(x.log) + 1
    IN  [x EXCEPT !.log = Append(@, ok), !.attempt = 1, !.sent = 0, !.failed = ~ok,
                  !.pc = IF i = Len(x.w.actions) THEN "finish" ELSE "action"]

\* The state of the executor when an action has ended: the next one, or the end of the run.
afterAction(x, ok) ==
    LET i    == Len(x.log) + 1
        stop == ~ok /\ ~ContinueOnError(x.w, x.w.actions[i])
    IN  [x EXCEPT !.log = Append(@, ok), !.attempt = 1, !.sent = 0, !.failed = stop,
                  !.pc = IF stop \/ i = Len(x.w.actions) THEN "finish" ELSE "action"]

\* executeAction: one attempt; a failed one is repeated from the first target on, up to retry_count times.
executeAction(r) ==
    /\ exec[r].pc = "action"
    /\ LET x == exec[r]
           a == x.w.actions[Len(x.log) + 1]
       IN  \E out \in runAction(a) :
             LET y == [x EXCEPT !.sent = IF out[1] > 0 THEN @ + 1 ELSE @]
             IN  exec' = [exec EXCEPT ![r] = IF out[2] \/ x.attempt = a.retries + 1 THEN afterAction(y, out[2])
                                             ELSE [y EXCEPT !.attempt = @ + 1]]
    /\ UNCHANGED <<wf, handlers, runs, wfHist, wfUsed>>

\* Mutant: a failed run is not saved.
finishRunFailed(r) ==
    /\ exec[r].pc = "finish"
    /\ exec' = [exec EXCEPT ![r].pc = "count"]
    /\ runs' = IF exec[r].failed THEN runs
               ELSE [runs EXCEPT ![r].status = "completed", ![r].log = exec[r].log]
    /\ UNCHANGED <<wf, handlers, wfHist, wfUsed>>

\* The outcome is saved, and then the counters of the workflow; the errors of both are ignored.
finishRun(r) ==
    /\ exec[r].pc = "finish"
    /\ exec' = [exec EXCEPT ![r].pc = "count"]
    /\ \/ /\ DBWorks /\ UNCHANGED wfHist
          /\ runs' = [runs EXCEPT ![r].status = IF exec[r].failed THEN "failed" ELSE "completed",
                                  ![r].log = exec[r].log]
       \/ DBError /\ wfHist' = [wfHist EXCEPT !.orphaned = TRUE] /\ UNCHANGED runs
    /\ UNCHANGED <<wf, handlers>>

countRun(r) ==
    /\ exec[r].pc = "count"
    /\ exec' = [exec EXCEPT ![r].pc = "done"]
    /\ \/ DBWorks /\ wf' = UpdateCounters(exec[r].w)
       \/ DBError /\ UNCHANGED wf
    /\ UNCHANGED <<handlers, runs, wfHist>>

\* The process dies with its goroutines; nothing looks at the run rows when it starts again.
RestartWorkflows ==
    /\ Spend("restarts", MaxRestarts)
    /\ wfHist' = [wfHist EXCEPT !.orphaned = @ \/ ActiveRuns # {}]
    /\ handlers' = [h \in Handlers |-> Resting]
    /\ exec' = [r \in Runs |-> IF exec[r] = Resting THEN Resting ELSE [exec[r] EXCEPT !.pc = "done"]]
    /\ UNCHANGED <<wf, runs>>

WfNext ==
    \/ \E trigger \in Triggers, enabled, cont \in BOOLEAN, max \in MaxConcurrent, actions \in ActionLists :
          CreateWorkflow(trigger, enabled, max, cont, actions)
    \/ EnableWorkflow \/ DisableWorkflow \/ DeleteWorkflow
    \/ \E max \in MaxConcurrent, actions \in ActionLists : UpdateWorkflow(max, actions)
    \/ \E h \in Handlers, ev \in Events : handleEvent(h, ev)
    \/ \E h \in Handlers : checkConditions(h) \/ countActive(h)
    \/ \E h \in Handlers, r \in Runs : createRun(h, r)
    \/ \E r \in Runs : TriggerManual(r) \/ startRun(r) \/ executeAction(r) \/ finishRun(r) \/ countRun(r)
    \/ RestartWorkflows

WfSpec == WfInit /\ [][WfNext]_wfVars

----------------------------------------------------------------------------
(* Properties *)

\* The runs that events have started never exceed max_concurrent_runs, unless the count of one event fell
\* between another's count and its insert, the count failed, or the limit was changed: the check and the
\* insert are two statements, and those are the only ways past it.
EventRunsWithinMax ==
    ~wfHist.overlap /\ HasWorkflow => Cardinality({r \in ActiveRuns : ~runs[r].byHand}) <= wf.max

\* A run that counts against the limit is being executed: only a crash, or a failed last write, leaves
\* a row pending or running for ever.
RunningIsAlive == ~wfHist.orphaned => \A r \in ActiveRuns : exec[r].pc \in {"start", "action", "finish"}

\* The outcome of a finished run follows from its log and the workflow it was started with: it failed
\* exactly when its last action failed and was not to be continued after, every failure before that
\* was to be continued after, and a completed run went through all of its actions.  No target
\* was served more often than the action's attempts.
RunTellsOutcome ==
    \A r \in Runs : exec[r] # Resting =>
        LET w == exec[r].w
            log == runs[r].log
            Fatal(i) == ~log[i] /\ ~ContinueOnError(w, w.actions[i])
        IN  /\ runs[r].status = "completed" => Len(log) = Len(w.actions) /\ \A i \in DOMAIN log : ~Fatal(i)
            /\ runs[r].status = "failed" => /\ Fatal(Len(log))
                                            /\ \A i \in 1..Len(log) - 1 : ~Fatal(i)
            /\ exec[r].sent <= exec[r].attempt

=============================================================================
