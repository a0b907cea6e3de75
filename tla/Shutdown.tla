------------------------------- MODULE Shutdown -------------------------------
(***************************************************************************)
(* cmd/server/main.go and Stop of bootstrap/app.go: on a signal the parts  *)
(* are stopped one after the other, some of them waiting for their         *)
(* goroutines, and the HTTP server last; the context of all of them is     *)
(* cancelled only when Stop has returned.                                  *)
(***************************************************************************)
EXTENDS Naturals, Sequences

CONSTANTS Workers,      \* workers of the task engine
          MaxTasks,     \* bound: tasks enqueued by requests
          MaxErrors     \* bound: failed Redis commands

VARIABLES stage,        \* the part of StopOrder to stop next; 0 before the signal
          closed,       \* parts whose stopCh is closed
          worker,       \* Workers -> "check", "dequeue", "task", "sleep", "gone"
          loop,         \* Loops -> "select", "busy", "gone"
          queue,        \* task IDs in Redis
          shutUsed      \* budget: [tasks, errors]

vars == <<stage, closed, worker, loop, queue, shutUsed>>

StopOrder == <<"events", "tasks", "scheduler", "analytics", "expiry", "workflow", "http", "returned">>

\* The goroutines that select between their ticker and stopCh, and whose they are.
Owner == [poller |-> "tasks", monitor |-> "tasks", schedules |-> "scheduler", metrics |-> "analytics",
          optimize |-> "analytics", expire |-> "expiry"]
Loops == DOMAIN Owner

\* The parts whose Stop waits for their goroutines, and these parts' loops.
WaitingParts == {"tasks", "scheduler", "analytics"}

Init == /\ stage = 0 /\ closed = {} /\ queue = 0 /\ shutUsed = [tasks |-> 0, errors |-> 0]
        /\ worker = [w \in Workers |-> "check"] /\ loop = [l \in Loops |-> "select"]

Stopping == stage > 0 /\ stage < Len(StopOrder)
Part     == StopOrder[stage]

Signal == /\ stage = 0 /\ stage' = 1
          /\ UNCHANGED <<closed, worker, loop, queue, shutUsed>>

\* The channel is closed first; a part that waits is done when its goroutines are.
CloseStopCh == /\ Stopping /\ Part \notin closed /\ closed' = closed \cup {Part}
               /\ UNCHANGED <<stage, worker, loop, queue, shutUsed>>

Waited == Part \in WaitingParts =>
              /\ \A l \in Loops : Owner[l] = Part => loop[l] = "gone"
              /\ Part = "tasks" => \A w \in Workers : worker[w] = "gone"

StopNext == /\ Stopping /\ Part \in closed /\ Waited /\ stage' = stage + 1
            /\ UNCHANGED <<closed, worker, loop, queue, shutUsed>>

----------------------------------------------------------------------------

Becomes(w, pc) == worker' = [worker EXCEPT ![w] = pc]

\* Only here, and while it sleeps, does a worker look at stopCh.
WorkerChecks(w) == /\ worker[w] = "check" /\ Becomes(w, IF "tasks" \in closed THEN "gone" ELSE "dequeue")
                   /\ UNCHANGED <<stage, closed, loop, queue, shutUsed>>

\* BRPOP without a timeout.
Dequeue(w) == /\ worker[w] = "dequeue" /\ queue > 0 /\ queue' = queue - 1 /\ Becomes(w, "task")
              /\ UNCHANGED <<stage, closed, loop, shutUsed>>

DequeueFails(w) == /\ worker[w] = "dequeue" /\ shutUsed.errors < MaxErrors /\ Becomes(w, "sleep")
                   /\ shutUsed' = [shutUsed EXCEPT !.errors = @ + 1]
                   /\ UNCHANGED <<stage, closed, loop, queue>>

WorkerWakes(w) == /\ worker[w] = "sleep"
                  /\ Becomes(w, "check") \/ ("tasks" \in closed /\ Becomes(w, "gone"))
                  /\ UNCHANGED <<stage, closed, loop, queue, shutUsed>>

TaskEnds(w) == /\ worker[w] = "task" /\ Becomes(w, "check")
               /\ UNCHANGED <<stage, closed, loop, queue, shutUsed>>

LoopTicks(l) == /\ loop[l] = "select" /\ loop' = [loop EXCEPT ![l] = "busy"]
                /\ UNCHANGED <<stage, closed, worker, queue, shutUsed>>

LoopWorked(l) == /\ loop[l] = "busy" /\ loop' = [loop EXCEPT ![l] = "select"]
                 /\ UNCHANGED <<stage, closed, worker, queue, shutUsed>>

LoopStops(l) == /\ loop[l] = "select" /\ Owner[l] \in closed /\ loop' = [loop EXCEPT ![l] = "gone"]
                /\ UNCHANGED <<stage, closed, worker, queue, shutUsed>>

\* Until the HTTP server is shut down requests make tasks.
Submit == /\ "http" \notin closed /\ shutUsed.tasks < MaxTasks /\ queue' = queue + 1
          /\ shutUsed' = [shutUsed EXCEPT !.tasks = @ + 1]
          /\ UNCHANGED <<stage, closed, worker, loop>>

----------------------------------------------------------------------------

WorkerStep(w) == WorkerChecks(w) \/ Dequeue(w) \/ WorkerWakes(w) \/ TaskEnds(w)

Next == \/ Signal \/ CloseStopCh \/ StopNext \/ Submit
        \/ \E w \in Workers : WorkerStep(w) \/ DequeueFails(w)
        \/ \E l \in Loops : LoopTicks(l) \/ LoopWorked(l) \/ LoopStops(l)

\* Every goroutine that can go on does, a select that finds stopCh closed again and again takes it at
\* last; nobody has to send a signal or a request, and Redis need not fail.
Fairness == /\ WF_vars(CloseStopCh) /\ WF_vars(StopNext)
            /\ \A w \in Workers : WF_vars(WorkerStep(w))
            /\ \A l \in Loops : WF_vars(LoopWorked(l)) /\ SF_vars(LoopStops(l))

Spec == Init /\ [][Next]_vars /\ Fairness

\* "Stop gracefully shuts down all components" (bootstrap/app.go) and "Stop signals all workers to finish
\* and waits for them" (task/engine.go): once the signal has come, Stop returns.
StopReturns == stage > 0 ~> stage = Len(StopOrder)

=============================================================================
