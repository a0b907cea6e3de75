------------------------------ MODULE Scheduler ------------------------------
(***************************************************************************)
(* scheduler/engine.go, service/schedule_service.go and schedule_repo.go:  *)
(* one schedule row, the goroutines that fire it, and the requests that    *)
(* edit it.  Every goroutine and request works on a copy of the row it has *)
(* read before.  Time is counted in minutes; the minutes matching the cron *)
(* expression are a parameter (module Cron finds them).                    *)
(***************************************************************************)
EXTENDS Naturals, FiniteSets, Sequences

CONSTANTS Fires,       \* goroutines of fire that may be alive
          Edits,       \* requests that may be in progress
          Slots,       \* the minutes that match the cron expression
          Horizon,     \* the clock stops here
          Targets,     \* number of target IDs of the schedule
          Bulk,        \* the operation is one task for all targets
          MaxRunsSet,  \* values of max_runs; 0 is no limit
          MaxEdits,    \* requests served
          MaxFaults    \* failed database writes, and crashes of the process

ASSUME SchedulerAssumption == /\ {Horizon, Targets, MaxEdits, MaxFaults} \subseteq Nat
                              /\ Slots \subseteq Nat /\ MaxRunsSet \subseteq Nat

VARIABLES clock,       \* the time
          row,         \* the schedule row, or NoRow
          fires,       \* Fires -> what the goroutine is doing
          edits,       \* Edits -> the request in progress
          queued,      \* targets that a task was created for
          slotFired,   \* history: how often each value of next_run_at was dispatched
          disturbed,   \* history: fires overlapped, a write was lost or the process crashed
          quiet,       \* history: disabled or deleted, and not edited since
          used         \* budget: [edits, faults]

schedVars == <<clock, row, fires, edits, queued, slotFired, disturbed, quiet, used>>

Never == Horizon + 1   \* next_run_at IS NULL: never due
NoRow == [gone |-> TRUE]
Idle  == [pc |-> "idle"]

\* CronSchedule.Next.
NextSlot(after) == LET later == {s \in Slots : s > after}
                   IN  IF later = {} THEN Never ELSE CHOOSE s \in later : \A u \in later : s <= u

\* Mutant: the slot that fires is found again.
computeNextRunInclusive(s, after) == IF s.once THEN Never ELSE NextSlot(after - 1)

\* A schedule of type once never runs again.
computeNextRun(s, after) == IF s.once THEN Never ELSE NextSlot(after)

SchedInit == /\ clock = 0 /\ row = NoRow
             /\ fires = [f \in Fires |-> Idle] /\ edits = [e \in Edits |-> Idle]
             /\ queued = {}
             /\ slotFired = [s \in 0..Horizon |-> 0]
             /\ disturbed = FALSE /\ quiet = FALSE
             /\ used = [edits |-> 0, faults |-> 0]

Passes == /\ clock < Horizon /\ clock' = clock + 1
          /\ UNCHANGED <<row, fires, edits, queued, slotFired, disturbed, quiet, used>>

----------------------------------------------------------------------------
(* scheduleService *)

Exists == row # NoRow

\* Create: a disabled schedule is paused; its enabled column takes the default of the table, TRUE.
Create(once, enabled, maxRuns, expires) ==
    /\ ~Exists /\ used.edits = 0 /\ used' = [used EXCEPT !.edits = 1]
    /\ row' = [once |-> once, enabled |-> TRUE, status |-> IF enabled THEN "active" ELSE "paused",
               next |-> IF once THEN clock + 1 ELSE NextSlot(clock), runs |-> 0,
               maxRuns |-> maxRuns, expires |-> expires]
    /\ UNCHANGED <<clock, fires, edits, queued, slotFired, disturbed, quiet>>

\* Enable, Disable and Update read the row ...
ReadRow(e, kind) ==
    /\ Exists /\ edits[e] = Idle /\ used.edits < MaxEdits
    /\ edits' = [edits EXCEPT ![e] = [pc |-> kind, copy |-> row]]
    /\ used' = [used EXCEPT !.edits = @ + 1]
    /\ quiet' = FALSE
    /\ UNCHANGED <<clock, row, fires, queued, slotFired, disturbed>>

Enabled(r)  == [r EXCEPT !.enabled = TRUE, !.status = "active"]
Disabled(r) == [r EXCEPT !.enabled = FALSE, !.status = "paused"]

\* Update with a new cron expression computes the next run from now on; an expression that never
\* matches again keeps the old one.
Rescheduled(r) == IF r.once \/ NextSlot(clock) = Never THEN r ELSE [r EXCEPT !.next = NextSlot(clock)]

Edited(kind, r) == CASE kind = "Enable" -> Enabled(r) [] kind = "Disable" -> Disabled(r)
                     [] kind = "Update" -> Rescheduled(r)

\* ... and save all of its columns, whatever has been written in between; a row deleted meanwhile
\* is inserted again.
SaveRow(e) ==
    /\ edits[e].pc \in {"Enable", "Disable", "Update"}
    /\ LET c == edits[e].copy IN
       /\ row' = Edited(edits[e].pc, c)
       /\ disturbed' = (disturbed \/ row # c \/ \E f \in Fires : fires[f] # Idle)
    /\ quiet' = (edits[e].pc = "Disable" /\ \A x \in Edits \ {e} : edits[x] = Idle)
    /\ edits' = [edits EXCEPT ![e] = Idle]
    /\ UNCHANGED <<clock, fires, queued, slotFired, used>>

Delete == /\ Exists /\ used.edits < MaxEdits /\ used' = [used EXCEPT !.edits = @ + 1]
          /\ row' = NoRow
          /\ quiet' = (\A x \in Edits : edits[x] = Idle)
          /\ UNCHANGED <<clock, fires, edits, queued, slotFired, disturbed>>

\* How many targets a task is created for.  An operation on single targets ends at the first error, and
\* the tasks of the targets before it stay; a bulk operation is one task for all of them.
dispatchVMOp   == 0..Targets
dispatchBulkOp == {0, Targets}
Dispatched     == IF Bulk THEN dispatchBulkOp ELSE dispatchVMOp

dispatch(k) == queued' = queued \cup 1..k

\* TriggerNow: a dispatch (and an execution row, which nothing reads), no change of the schedule.
TriggerNow(k) ==
    /\ Exists /\ used.edits < MaxEdits /\ used' = [used EXCEPT !.edits = @ + 1]
    /\ dispatch(k)
    /\ UNCHANGED <<clock, row, fires, edits, slotFired, disturbed, quiet>>

----------------------------------------------------------------------------
(* Engine *)

ListDue == Exists /\ row.enabled /\ row.status = "active" /\ row.next <= clock

\* tick: every due schedule is fired by a goroutine of its own, with the row as it was listed.
tick(f) ==
    /\ ListDue /\ fires[f] = Idle
    /\ fires' = [fires EXCEPT ![f] = [pc |-> "start", copy |-> row, at |-> clock]]
    /\ disturbed' = (disturbed \/ \E g \in Fires : fires[g] # Idle)
    /\ UNCHANGED <<clock, row, edits, queued, slotFired, quiet, used>>

\* Mutant: the limit is noticed one run late.
newStatusLate(s) == IF (s.maxRuns > 0 /\ s.runs + 1 > s.maxRuns) \/ clock > s.expires THEN "expired" ELSE s.status

\* The last run that max_runs allows, or the first after expires_at, ends the schedule.
newStatus(s) == IF (s.maxRuns > 0 /\ s.runs + 1 >= s.maxRuns) \/ clock > s.expires THEN "expired" ELSE s.status

\* fire, first half: next run and status are computed from the copy, then the tasks are dispatched.
fireDispatch(f, k) ==
    /\ fires[f].pc = "start"
    /\ LET s == fires[f].copy
           update == [next |-> computeNextRun(s, fires[f].at), runs |-> s.runs + 1, status |-> newStatus(s)]
       IN  /\ fires' = [fires EXCEPT ![f] = [pc |-> "update", slot |-> s.next, update |-> update]]
           /\ slotFired' = [slotFired EXCEPT ![s.next] = @ + 1]
    /\ dispatch(k)
    /\ UNCHANGED <<clock, row, edits, disturbed, quiet, used>>

\* Mutant: the row is saved whole.
UpdateAfterRunSaved(r, u) ==
    [r EXCEPT !.next = u.next, !.runs = u.runs, !.status = u.status, !.enabled = TRUE]

\* UpdateAfterRun sets the run columns and the status, nothing else.
UpdateAfterRun(r, u) == [r EXCEPT !.next = u.next, !.runs = u.runs, !.status = u.status]

\* fire, second half: after an execution row, which nothing reads, the update is written over whatever
\* the row has become; an error is only logged.
fireUpdate(f) ==
    /\ fires[f].pc = "update"
    /\ fires' = [fires EXCEPT ![f] = Idle]
    /\ \/ /\ row' = IF Exists THEN UpdateAfterRun(row, fires[f].update) ELSE row
          /\ disturbed' = (disturbed \/ (Exists /\ row.next # fires[f].slot))
          /\ UNCHANGED used
       \/ /\ used.faults < MaxFaults /\ used' = [used EXCEPT !.faults = @ + 1]
          /\ disturbed' = TRUE /\ UNCHANGED row
    /\ UNCHANGED <<clock, edits, queued, slotFired, quiet>>

\* The process dies with its goroutines and starts again.
Crash == /\ used.faults < MaxFaults /\ used' = [used EXCEPT !.faults = @ + 1]
         /\ disturbed' = (disturbed \/ \E f \in Fires : fires[f] # Idle)
         /\ fires' = [f \in Fires |-> Idle] /\ edits' = [e \in Edits |-> Idle]
         /\ UNCHANGED <<clock, row, queued, slotFired, quiet>>

SchedNext ==
    \/ Passes
    \/ \E once, enabled \in BOOLEAN, m \in MaxRunsSet, x \in {1, Never} : Create(once, enabled, m, x)
    \/ \E e \in Edits : (\E kind \in {"Enable", "Disable", "Update"} : ReadRow(e, kind)) \/ SaveRow(e)
    \/ Delete
    \/ \E k \in Dispatched : TriggerNow(k)
    \/ \E f \in Fires : \/ tick(f) \/ fireUpdate(f)
                        \/ \E k \in Dispatched : fireDispatch(f, k)
    \/ Crash

SchedSpec == SchedInit /\ [][SchedNext]_schedVars

----------------------------------------------------------------------------
(* Properties *)

\* A due time is dispatched once.  What defeats this in the code is exactly what `disturbed' records: a
\* poll while the goroutine of the previous one is still dispatching, a crash or a failed write
\* between the dispatch and UpdateAfterRun, and an edit that saves an old copy.
SlotFiredOnce == ~disturbed => \A s \in DOMAIN slotFired : slotFired[s] <= 1

\* A schedule with max_runs, left as it was created, fires at no more of its times than that, across
\* polls that find it due again while it fires; run_count never counts a time that did not fire.
RunsWithinMax ==
    LET total == Cardinality({s \in DOMAIN slotFired : slotFired[s] > 0})
    IN  ~disturbed /\ Exists /\ used.edits = 1 =>
            row.runs <= total /\ (row.maxRuns > 0 => total <= row.maxRuns)

\* A schedule that was disabled or deleted, by a request that no other request overlapped, is not due:
\* although a goroutine still firing puts the status back to active.
DisabledStaysQuiet == quiet => ~ListDue

=============================================================================
