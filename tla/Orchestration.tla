---------------------------- MODULE Orchestration ----------------------------
(***************************************************************************)
(* task/bulk_handlers.go, task/environment_handlers.go and the bulk part   *)
(* of service/vm_service.go: parent tasks that occupy a worker while they  *)
(* wait for other tasks of the same pool.  A bulk parent enqueues children *)
(* that the request created and polls their rows; an environment's parent  *)
(* creates the task of one step at a time, in the order Environment plans. *)
(* Module TaskEngine has the engine in full: here taking a task from the   *)
(* queue, with its lock and its first write, is one step, and so is the    *)
(* fallback poller's re-enqueue.                                           *)
(***************************************************************************)
EXTENDS Naturals, FiniteSets, Sequences

CONSTANTS PoolSize,    \* number of workers
          BulkParents, EnvParents,
          KidsOf,      \* parent -> the sequence of its children, or of the tasks of its steps
          Scenes       \* [parents, upsets]: parents that are submitted together, and a bound for the failed
                       \* inserts, reads and pushes, cancelled parents and deleted environments

Parents == BulkParents \cup EnvParents
Kids(p) == {KidsOf[p][i] : i \in DOMAIN KidsOf[p]}
Leaves  == UNION {Kids(p) : p \in Parents}
Tasks   == Parents \cup Leaves

\* Every parent has tasks of its own, each with an ID of its own; those of parents that are never
\* submitted together may be the same here.
ASSUME OrchestrationAssumption ==
    /\ PoolSize \in Nat \ {0}
    /\ BulkParents \cap EnvParents = {} /\ Leaves \cap Parents = {}
    /\ \A p \in Parents : /\ KidsOf[p] \in Seq(Kids(p))
                          /\ \A i, j \in DOMAIN KidsOf[p] : KidsOf[p][i] = KidsOf[p][j] => i = j
    /\ \A s \in Scenes : /\ s.parents \subseteq Parents /\ s.upsets \in Nat
                         /\ \A p, q \in s.parents : p # q => Kids(p) \cap Kids(q) = {}

VARIABLES scene,       \* the scene of this behaviour
          status,      \* the status column of the task rows; "none" before the insert
          queue,       \* the Redis list; all these tasks have priority 5
          flag,        \* cancel flags in Redis
          timers,      \* armed EnqueueDelayed timers
          wk,          \* task -> what the worker that holds its lock is doing, or Free
          sub,         \* BulkParents -> progress of the request
          run,         \* EnvParents -> the orchestration_runs row
          step,        \* EnvParents -> status column of the orchestration_steps rows
          ended,       \* history: task -> whether it ever ended ("yes"), or ended with success ("ok")
          listed,      \* history: children that the bulk parent found when it was last executed
          upsets       \* budget

poolVars == <<scene, status, queue, flag, timers, wk, sub, run, step, ended, listed, upsets>>

Terminal == {"completed", "failed", "cancelled"}
Free == [pc |-> "free"]
Gone == [status |-> "gone", done |-> 0, failed |-> 0]

PoolInit == /\ scene \in Scenes
            /\ status = [t \in Tasks |-> "none"]
            /\ queue = << >> /\ flag = {} /\ timers = {}
            /\ wk = [t \in Tasks |-> Free]
            /\ sub = [p \in BulkParents |-> [pc |-> "none"]]
            /\ run = [p \in EnvParents |-> Gone]
            /\ step = [p \in EnvParents |-> << >>]
            /\ ended = [t \in Tasks |-> "no"] /\ listed = [p \in BulkParents |-> {}]
            /\ upsets = 0

Fault   == upsets < scene.upsets /\ upsets' = upsets + 1
NoFault == UNCHANGED upsets

----------------------------------------------------------------------------
(* Requests *)

\* enqueueBulkTask inserts the parent first. Its MaxRetries of 0 becomes the column's default of 3.
BulkSubmit(p) == /\ p \in scene.parents /\ sub[p].pc = "none"
                 /\ status' = [status EXCEPT ![p] = "pending"]
                 /\ sub' = [sub EXCEPT ![p] = [pc |-> "kids", todo |-> KidsOf[p]]]
                 /\ UNCHANGED <<queue, flag, timers, wk, run, step, ended, listed, upsets>>

\* A child that cannot be created is left out.
BulkCreateChild(p) ==
    /\ sub[p].pc = "kids" /\ sub[p].todo # << >>
    /\ \/ status' = [status EXCEPT ![Head(sub[p].todo)] = "pending"] /\ NoFault
       \/ UNCHANGED status /\ Fault
    /\ sub' = [sub EXCEPT ![p].todo = Tail(@)]
    /\ UNCHANGED <<queue, flag, timers, wk, run, step, ended, listed>>

\* The HTTP handler enqueues the parent, and leaves one that is refused to the poller.
BulkEnqueue(p) ==
    /\ sub[p].pc = "kids" /\ sub[p].todo = << >>
    /\ \/ /\ queue' = Append(queue, p) /\ NoFault
          /\ sub' = [sub EXCEPT ![p] = [pc |-> "pushed"]]
       \/ /\ Fault /\ UNCHANGED queue
          /\ sub' = [sub EXCEPT ![p] = [pc |-> "done"]]
    /\ UNCHANGED <<status, flag, timers, wk, run, step, ended, listed>>

BulkQueued(p) == /\ sub[p].pc = "pushed"
                 /\ status' = [status EXCEPT ![p] = "queued"]
                 /\ sub' = [sub EXCEPT ![p] = [pc |-> "done"]]
                 /\ UNCHANGED <<queue, flag, timers, wk, run, step, ended, listed, upsets>>

\* createOrchestrationRun, the plan being computed, and the handler's enqueue.
EnvSubmit(p) == /\ p \in scene.parents /\ status[p] = "none"
                /\ run' = [run EXCEPT ![p] = [status |-> "pending", done |-> 0, failed |-> 0]]
                /\ step' = [step EXCEPT ![p] = [i \in DOMAIN KidsOf[p] |-> "pending"]]
                /\ status' = [status EXCEPT ![p] = "queued"]
                /\ queue' = Append(queue, p)
                /\ UNCHANGED <<flag, timers, wk, sub, ended, listed, upsets>>

\* taskService.Cancel.
CancelParent(p) == /\ Fault
                   /\ status[p] \notin Terminal \cup {"none"}
                   /\ flag' = flag \cup {p}
                   /\ status' = [status EXCEPT ![p] = "cancelled"]
                   /\ UNCHANGED <<queue, timers, wk, sub, run, step, ended, listed>>

\* Deleting the environment deletes its runs and their steps; its task goes on.
DeleteRun(p) == /\ Fault
                /\ step[p] # << >>
                /\ run' = [run EXCEPT ![p] = Gone]
                /\ step' = [step EXCEPT ![p] = << >>]
                /\ UNCHANGED <<status, queue, flag, timers, wk, sub, ended, listed>>

----------------------------------------------------------------------------
(* The pool *)

Held(t) == wk[t] # Free

Begin(t) == IF t \in BulkParents THEN [pc |-> "bulk", expired |-> FALSE, todo |-> << >>, left |-> {}]
            ELSE IF t \in EnvParents THEN [pc |-> "env", expired |-> FALSE, i |-> 1, n |-> 0, done |-> 0, failed |-> 0]
            ELSE [pc |-> "leaf"]

Ended(t, out) == ended' = [ended EXCEPT ![t] = IF out = "completed" THEN "ok"
                                               ELSE IF out \in Terminal /\ @ = "no" THEN "yes" ELSE @]

\* A task that another worker holds is dropped, one that was cancelled is not executed.
Take ==
    LET t == Head(queue)
    IN  /\ queue # << >> /\ Cardinality({u \in Tasks : Held(u)}) < PoolSize
        /\ queue' = Tail(queue)
        /\ \/ Held(t) /\ UNCHANGED <<status, flag, wk, ended>>
           \/ /\ ~Held(t) /\ (status[t] = "cancelled" \/ t \in flag)
              /\ status' = [status EXCEPT ![t] = "cancelled"]
              /\ Ended(t, "cancelled")
              /\ flag' = flag \ {t}
              /\ UNCHANGED wk
           \/ /\ ~Held(t) /\ status[t] # "cancelled" /\ t \notin flag
              /\ status' = [status EXCEPT ![t] = "running"]
              /\ wk' = [wk EXCEPT ![t] = Begin(t)]
              /\ UNCHANGED <<flag, ended>>
        /\ UNCHANGED <<timers, sub, run, step, listed, upsets>>

\* processTask after its handler: the row, the cancel flag or the retry's timer, and the lock.
Finish(t, out) ==
    /\ status' = [status EXCEPT ![t] = out]
    /\ Ended(t, out)
    /\ flag' = IF out = "cancelled" THEN flag \ {t} ELSE flag
    /\ timers' = IF out = "retrying" THEN timers \cup {t} ELSE timers
    /\ wk' = [wk EXCEPT ![t] = Free]

\* The VM operation: it may succeed, fail for good or fail and be retried, which no count ever ends.
LeafDone(t) == /\ wk[t].pc = "leaf"
               /\ \E out \in {"completed", "failed", "retrying"} : Finish(t, out)
               /\ UNCHANGED <<queue, sub, run, step, listed, upsets>>

\* The retry's timer.
TimerFires(t) == /\ t \in timers
                 /\ queue' = Append(queue, t)
                 /\ timers' = timers \ {t}
                 /\ UNCHANGED <<status, flag, wk, sub, run, step, ended, listed, upsets>>

\* rehydrateFromDB.
Rehydrate(t) == /\ status[t] = "pending" /\ ~Held(t)
                /\ queue' = Append(queue, t)
                /\ status' = [status EXCEPT ![t] = "queued"]
                /\ UNCHANGED <<flag, timers, wk, sub, run, step, ended, listed, upsets>>

\* The timeout of a parent's context, DefaultTimeout after it was taken.
Expire(p) == /\ wk[p].pc \notin {"free", "leaf"} /\ ~wk[p].expired
             /\ wk' = [wk EXCEPT ![p].expired = TRUE]
             /\ UNCHANGED <<status, queue, flag, timers, sub, run, step, ended, listed, upsets>>

\* Mutant: only the flag in Redis is looked at.
FlagOnly(p) == p \in flag

\* tc.IsCancelled, and tc.Done.
IsCancelled(p) == wk[p].expired \/ p \in flag

\* A call to the database or Redis with the task's context.
CallWorks(p) == ~wk[p].expired /\ NoFault
CallFails(p) == \/ wk[p].expired /\ NoFault
                \/ ~wk[p].expired /\ Fault

----------------------------------------------------------------------------
(* handleBulkParent *)

\* ListByParentID: the rows in the order in which they were created.
ByCreation(p, found) ==
    {list \in [1..Cardinality(found) -> found] :
        \A i, j \in DOMAIN list : i < j => \E m, n \in DOMAIN KidsOf[p] : /\ m < n
                                                                          /\ list[i] = KidsOf[p][m] /\ list[j] = KidsOf[p][n]}

BulkList(p) ==
    LET found == {k \in Kids(p) : status[k] # "none"}
    IN  /\ wk[p].pc = "bulk" /\ ~IsCancelled(p)
        /\ \/ Fault /\ Finish(p, "retrying")
           \/ NoFault /\ found = {} /\ Finish(p, "completed")
           \/ /\ NoFault /\ found # {}
              /\ \E list \in ByCreation(p, found) :
                    wk' = [wk EXCEPT ![p].pc = "push", ![p].left = found, ![p].todo = list]
              /\ UNCHANGED <<status, flag, timers, ended>>
        /\ listed' = [listed EXCEPT ![p] = found]
        /\ UNCHANGED <<queue, sub, run, step>>

AfterPush(todo) == IF todo = << >> THEN "poll" ELSE "push"

\* Children that have ended are enqueued, too. An expired context reaches neither Redis nor the database.
BulkPush(p) ==
    /\ wk[p].pc = "push"
    /\ \/ /\ CallWorks(p)
          /\ queue' = Append(queue, Head(wk[p].todo))
          /\ wk' = [wk EXCEPT ![p].pc = "mark"]
       \/ /\ CallFails(p)
          /\ wk' = [wk EXCEPT ![p].pc = AfterPush(Tail(wk[p].todo)), ![p].todo = Tail(@)]
          /\ UNCHANGED queue
    /\ UNCHANGED <<status, flag, timers, sub, run, step, ended, listed>>

\* The push and this write are two: what the child's worker has written in between is lost.
BulkMark(p) ==
    /\ wk[p].pc = "mark" /\ p \in BulkParents
    /\ status' = IF wk[p].expired THEN status ELSE [status EXCEPT ![Head(wk[p].todo)] = "queued"]
    /\ wk' = [wk EXCEPT ![p].pc = AfterPush(Tail(wk[p].todo)), ![p].todo = Tail(@)]
    /\ UNCHANGED <<queue, flag, timers, sub, run, step, ended, listed, upsets>>

\* Mutant: a child that waits for its retry has failed.
OverOrRetrying(s) == s \in Terminal \cup {"retrying"}

\* The statuses that end the wait for a child, and for a step's task.
Over(s) == s \in Terminal

\* The rows are read one by one; a read with an expired context fails and is repeated.
BulkPoll(p) == /\ wk[p].pc = "poll" /\ ~wk[p].expired
               /\ \E k \in wk[p].left : /\ Over(status[k])
                                        /\ wk' = [wk EXCEPT ![p].left = @ \ {k}]
               /\ UNCHANGED <<status, queue, flag, timers, sub, run, step, ended, listed, upsets>>

BulkCancelled(p) == /\ wk[p].pc \in {"bulk", "poll"} /\ (wk[p].pc = "poll" => wk[p].left # {})
                    /\ IsCancelled(p)
                    /\ Finish(p, "cancelled")
                    /\ UNCHANGED <<queue, sub, run, step, listed, upsets>>

\* Failed children do not fail the parent.
BulkDone(p) == /\ wk[p].pc = "poll" /\ wk[p].left = {}
               /\ Finish(p, "completed")
               /\ UNCHANGED <<queue, sub, run, step, listed, upsets>>

----------------------------------------------------------------------------
(* handleEnvOperation *)

\* The environment service's updates: an expired context changes nothing, a deleted row matches nothing.
UpdateRun(p, new) == run' = IF wk[p].expired \/ run[p] = Gone THEN run ELSE [run EXCEPT ![p] = new]
UpdateStepStatus(p, new) == step' = IF wk[p].expired \/ step[p] = << >> THEN step
                                    ELSE [step EXCEPT ![p][wk[p].i] = new]

\* The run is marked running and its steps are loaded; without steps (the environment was deleted) the
\* task completes. MaxRetries is 1: a task that fails is not tried again.
EnvBegin(p) ==
    /\ wk[p].pc = "env"
    /\ \/ CallFails(p) /\ UpdateRun(p, [run[p] EXCEPT !.status = "failed"]) /\ Finish(p, "failed")
       \/ /\ CallWorks(p) /\ step[p] = << >>
          /\ UpdateRun(p, [run[p] EXCEPT !.status = "completed"]) /\ Finish(p, "completed")
       \/ /\ CallWorks(p) /\ step[p] # << >>
          /\ UpdateRun(p, [run[p] EXCEPT !.status = "running"])
          /\ wk' = [wk EXCEPT ![p].pc = "step", ![p].n = Len(step[p])]
          /\ UNCHANGED <<status, flag, timers, ended>>
    /\ UNCHANGED <<queue, sub, step, listed>>

EnvStep(p) == /\ wk[p].pc = "step" /\ wk[p].i <= wk[p].n /\ ~IsCancelled(p)
              /\ UpdateStepStatus(p, "running")
              /\ wk' = [wk EXCEPT ![p].pc = "dispatch"]
              /\ UNCHANGED <<status, queue, flag, timers, sub, run, ended, listed, upsets>>

EnvCancelled(p) == /\ wk[p].pc = "step" /\ wk[p].i <= wk[p].n /\ IsCancelled(p)
                   /\ UpdateRun(p, [run[p] EXCEPT !.status = "cancelled"])
                   /\ Finish(p, "cancelled")
                   /\ UNCHANGED <<queue, sub, step, listed, upsets>>

\* The step's row, the run's counts, and on to the next step.
StepOver(p, ok) ==
    LET d == wk[p].done + (IF ok THEN 1 ELSE 0)
        f == wk[p].failed + (IF ok THEN 0 ELSE 1)
    IN  /\ UpdateStepStatus(p, IF ok THEN "completed" ELSE "failed")
        /\ UpdateRun(p, [run[p] EXCEPT !.done = d, !.failed = f])
        /\ wk' = [wk EXCEPT ![p].pc = "step", ![p].i = @ + 1, ![p].done = d, ![p].failed = f]

Kid(p) == KidsOf[p][wk[p].i]

\* dispatchVMTask: the VM is read and the task created, or the step fails.
EnvDispatch(p) ==
    /\ wk[p].pc = "dispatch"
    /\ \/ /\ CallWorks(p)
          /\ status' = [status EXCEPT ![Kid(p)] = "pending"]
          /\ wk' = [wk EXCEPT ![p].pc = "enqueue"]
          /\ UNCHANGED <<run, step>>
       \/ /\ CallFails(p)
          /\ StepOver(p, FALSE)
          /\ UNCHANGED status
    /\ UNCHANGED <<queue, flag, timers, sub, ended, listed>>

\* Enqueue may be refused; the poller will find the task.
EnvEnqueue(p) ==
    /\ wk[p].pc = "enqueue"
    /\ \/ /\ CallWorks(p)
          /\ queue' = Append(queue, Kid(p))
          /\ wk' = [wk EXCEPT ![p].pc = "mark"]
       \/ /\ CallFails(p)
          /\ wk' = [wk EXCEPT ![p].pc = "wait"]
          /\ UNCHANGED queue
    /\ UNCHANGED <<status, flag, timers, sub, run, step, ended, listed>>

EnvMark(p) ==
    /\ wk[p].pc = "mark" /\ p \in EnvParents
    /\ status' = IF wk[p].expired THEN status ELSE [status EXCEPT ![Kid(p)] = "queued"]
    /\ wk' = [wk EXCEPT ![p].pc = "wait"]
    /\ UNCHANGED <<queue, flag, timers, sub, run, step, ended, listed, upsets>>

\* waitForTask: the end of the context and of its own timer, as long as the context's and started later,
\* or an error of the read fail the step; otherwise the task's end decides. The cancel flag is not
\* looked at.
EnvWait(p) ==
    /\ wk[p].pc = "wait"
    /\ \/ CallFails(p) /\ StepOver(p, FALSE)
       \/ CallWorks(p) /\ Over(status[Kid(p)]) /\ StepOver(p, status[Kid(p)] = "completed")
    /\ UNCHANGED <<status, queue, flag, timers, sub, ended, listed>>

\* Mutant: any failed step fails the run.
AnyFailed(p) == wk[p].failed > 0

\* A run fails when no step succeeded.
AllFailed(p) == wk[p].failed > 0 /\ wk[p].done = 0

\* The final status and counts.
EnvDone(p) ==
    LET out == IF AllFailed(p) THEN "failed" ELSE "completed"
    IN  /\ wk[p].pc = "step" /\ wk[p].i > wk[p].n
        /\ UpdateRun(p, [status |-> out, done |-> wk[p].done, failed |-> wk[p].failed])
        /\ Finish(p, out)
        /\ UNCHANGED <<queue, sub, step, listed, upsets>>

----------------------------------------------------------------------------

Handler(t) == \/ LeafDone(t)
              \/ BulkList(t) \/ BulkPush(t) \/ BulkMark(t) \/ BulkPoll(t) \/ BulkCancelled(t) \/ BulkDone(t)
              \/ EnvBegin(t) \/ EnvStep(t) \/ EnvCancelled(t) \/ EnvDispatch(t) \/ EnvEnqueue(t)
              \/ EnvMark(t) \/ EnvWait(t) \/ EnvDone(t)

PoolStep == \/ \E p \in BulkParents : BulkSubmit(p) \/ BulkCreateChild(p) \/ BulkEnqueue(p) \/ BulkQueued(p)
            \/ \E p \in EnvParents : EnvSubmit(p) \/ DeleteRun(p)
            \/ \E p \in Parents : CancelParent(p)
            \/ \E t \in Tasks : TimerFires(t) \/ Rehydrate(t)
            \/ Take \/ \E t \in Tasks : Handler(t) \/ Expire(t)

PoolNext == PoolStep /\ UNCHANGED scene

PoolSpec == PoolInit /\ [][PoolNext]_poolVars

\* The server's goroutines run, and so do the timers of contexts and retries.
PoolFairness ==
    /\ WF_poolVars(Take /\ UNCHANGED scene)
    /\ WF_poolVars(\E t \in Tasks : Rehydrate(t) /\ UNCHANGED scene)
    /\ \A t \in Leaves : WF_poolVars(LeafDone(t) /\ UNCHANGED scene)
    /\ \A p \in Parents : WF_poolVars((Handler(p) \/ Expire(p)) /\ UNCHANGED scene)
    /\ \A p \in BulkParents : WF_poolVars(TimerFires(p) /\ UNCHANGED scene)

----------------------------------------------------------------------------
(* Properties *)

\* When a bulk parent completes, every child that it found has ended at least once: a child that is
\* retried, taken by two workers or whose row was overwritten does not let it pass early.
ParentWaits == \A p \in BulkParents : status[p] = "completed" => \A k \in listed[p] : ended[k] # "no"

\* What the rows of a run say is what happened. A step's task exists only when the steps before it are
\* over, a completed step's task has succeeded, and a run that is over has a row whose counts are those
\* of its steps and which failed exactly when no step succeeded.
StepsTell == \A p \in EnvParents :
    LET s == step[p]  In(x) == {i \in DOMAIN s : s[i] = x}
    IN  s # << >> =>
        /\ \A j \in DOMAIN s : status[KidsOf[p][j]] # "none" => \A i \in 1..j - 1 : s[i] \in {"completed", "failed"}
        /\ \A i \in In("completed") : ended[KidsOf[p][i]] = "ok"
        /\ run[p].status = "completed" =>
             /\ run[p].done = Cardinality(In("completed")) /\ run[p].failed = Cardinality(In("failed"))
             /\ run[p].done > 0 /\ run[p].done + run[p].failed = Len(s)
        /\ run[p].status = "failed" => In("completed") = {}

\* Even when every worker is taken by a parent whose children wait in the queue, each parent that was
\* created comes to an end.
ParentsEnd == \A p \in Parents :
    status[p] # "none" ~> wk[p] = Free /\ (ended[p] # "no" \/ status[p] = "cancelled")

=============================================================================
