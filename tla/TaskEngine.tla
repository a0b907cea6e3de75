----------------------------- MODULE TaskEngine -----------------------------
(***************************************************************************)
(* The asynchronous task engine of VmOrbit (internal/task).                *)
(*                                                                         *)
(* A task is a database row (status) and, while it waits, one or more      *)
(* copies of its ID in the Redis priority lists.  Four kinds of process    *)
(* touch it without any common lock: the HTTP request that creates and     *)
(* enqueues it, the request that cancels it, the worker pool, and the      *)
(* database fallback poller.  A step is one Redis call or one database     *)
(* statement, together with local work and with the calls after it that    *)
(* no other process can observe in between, so the processes interleave    *)
(* between the calls.  A call may fail (a fault): where the code ignores   *)
(* the error the step leaves that state as it was and goes on.             *)
(*                                                                         *)
(* Redis and the database survive a crash of the server process; worker    *)
(* state, semaphore slots, retry timers and half-done requests do not.     *)
(***************************************************************************)
EXTENDS Integers, Sequences, FiniteSets

CONSTANTS
  Tasks,           \* task IDs
  Workers,         \* the worker goroutines (config worker_count)
  Hypervisors,     \* hypervisor IDs
  NoTask,          \* a worker that carries no task
  NoHypervisor,    \* a task without hypervisor_id
  HypervisorOf,    \* task -> hypervisor_id or NoHypervisor
  Priority,        \* task -> the priority column, used by poller and retries
  ApiPriority,     \* task -> the priority the HTTP handler enqueues with
  MaxPriority,     \* number of Redis lists (10 in the code)
  MaxRetries,      \* task -> the max_retries column
  Registered,      \* tasks whose type has a handler
  MaxSlots,        \* concurrent tasks per hypervisor (3 in the code)
  SlowCalls,       \* may a slot wait outlast LockTTL, or a deferred release
                   \* the retry backoff?
  MaxFailures,     \* bound: handler failures per task
  MaxCancels,      \* bound: cancel requests
  MaxCrashes,      \* bound: crashes of the server process
  MaxFaults        \* bound: Redis or database errors and handler timeouts

ASSUME TasksAssumption == NoTask \notin Tasks
ASSUME WorkersAssumption == IsFiniteSet(Workers)
ASSUME HypervisorAssumption ==
  /\ NoHypervisor \notin Hypervisors
  /\ HypervisorOf \in [Tasks -> Hypervisors \cup {NoHypervisor}]
ASSUME PriorityAssumption ==
  /\ MaxPriority \in Nat \ {0}
  /\ Priority \in [Tasks -> Int]
  /\ ApiPriority \in [Tasks -> Int]
ASSUME RetryAssumption == MaxRetries \in [Tasks -> Nat]
ASSUME SlotAssumption == MaxSlots \in Nat \ {0}
ASSUME BoundAssumption ==
  /\ SlowCalls \in BOOLEAN
  /\ Registered \subseteq Tasks
  /\ {MaxFailures, MaxCancels, MaxCrashes, MaxFaults} \subseteq Nat

VARIABLES
  \* durable: the task rows and Redis
  status,          \* tasks.status, "none" before the row exists
  queue,           \* task:queue:p, oldest copy first
  locked,          \* task:lock:{id}; the key stores "1", not its owner
  cancelFlag,      \* task:cancel:{id}
  \* volatile: the server process
  pc,              \* where each worker is inside processTask
  job,             \* the task each worker carries
  outcome,         \* what the worker's handler returned
  sem,             \* tokens in each hypervisor's semaphore channel
  timers,          \* armed EnqueueDelayed timers per task
  pollPC,          \* where the fallback poller is inside rehydrateFromDB
  pollSet,         \* rows of its ListPending result it has yet to handle
  pollTask,        \* the row it is handling
  api,             \* progress of the request that creates the task
  cancelPC,        \* progress of a request that cancels the task
  \* history
  done,            \* times the task's handler succeeded
  failures,        \* times the task's handler failed
  cancels, crashes, faults

durable  == <<status, queue, locked, cancelFlag>>
worker   == <<pc, job, outcome>>
poller   == <<pollPC, pollSet, pollTask>>
requests == <<api, cancelPC>>
history  == <<done, failures, cancels, crashes, faults>>
vars     == <<durable, worker, sem, timers, poller, requests, history>>

-----------------------------------------------------------------------------

TaskStatus == {"pending", "queued", "running", "completed", "failed",
               "cancelled", "retrying", "timed_out"}

\* The states taskService.Cancel calls terminal.
Terminal == {"completed", "failed", "cancelled"}

\* The retry_count a worker loads: the column's default, which no statement
\* of the program ever writes (processTask increments its own copy only).
retry_count == 0

Outcomes == {"none", "ok", "cancelled", "permanent", "error"}

\* Between AcquireLock and ReleaseLock.
Critical == {"locked", "waitSlot", "exec", "op", "finish", "release", "unlock"}

\* Between provSem.Acquire and releaseSlot.
Slotted == {"exec", "op", "finish", "release"}

WorkerPC == {"idle", "popped"} \cup Critical

Holds(w, t) == pc[w] \in Critical /\ job[w] = t

PollerHolds(t) == pollPC = "held" /\ pollTask = t

SlotHolders(h) ==
  {w \in Workers : pc[w] \in Slotted /\ job[w] \in Tasks /\ HypervisorOf[job[w]] = h}

Elements(s) == {s[i] : i \in 1..Len(s)}

InQueue(t) == \E p \in 1..MaxPriority : t \in Elements(queue[p])

Pending == {t \in Tasks : status[t] = "pending"}

\* The priority lists exist for 1..MaxPriority; Enqueue clamps.
Clamp(p) == IF p < 1 THEN 1 ELSE IF p > MaxPriority THEN MaxPriority ELSE p

\* LPUSH of a task ID onto the list of its clamped priority.
Push(t, p) == queue' = [queue EXCEPT ![Clamp(p)] = Append(@, t)]

UpdateStatus(t, s) == status' = [status EXCEPT ![t] = s]

\* A Redis call or a database statement fails, or a handler times out.
Fault == faults < MaxFaults /\ faults' = faults + 1

\* Mutant: the completed branch forgets to write the row.
TryStatusNotCompleted(t, s) ==
  /\ IF s = "completed" THEN UNCHANGED status ELSE UpdateStatus(t, s)
  /\ UNCHANGED faults

\* "_ = TaskRepo.UpdateStatus(...)": an error leaves the row as it was.
TryStatus(t, s) ==
  \/ UpdateStatus(t, s) /\ UNCHANGED faults
  \/ Fault /\ UNCHANGED status

Init ==
  /\ status = [t \in Tasks |-> "none"]
  /\ queue = [p \in 1..MaxPriority |-> << >>]
  /\ locked = [t \in Tasks |-> FALSE]
  /\ cancelFlag = [t \in Tasks |-> FALSE]
  /\ pc = [w \in Workers |-> "idle"]
  /\ job = [w \in Workers |-> NoTask]
  /\ outcome = [w \in Workers |-> "none"]
  /\ sem = [h \in Hypervisors |-> 0]
  /\ timers = [t \in Tasks |-> 0]
  /\ pollPC = "idle" /\ pollSet = {} /\ pollTask = NoTask
  /\ api = [t \in Tasks |-> "none"]
  /\ cancelPC = [t \in Tasks |-> "idle"]
  /\ done = [t \in Tasks |-> 0]
  /\ failures = [t \in Tasks |-> 0]
  /\ cancels = 0 /\ crashes = 0 /\ faults = 0

-----------------------------------------------------------------------------
(* HTTP requests: create-and-enqueue, and cancel.                          *)

\* A service creates the row (enqueueVMTask and its siblings).
Create(t) ==
  /\ api[t] = "none"
  /\ UpdateStatus(t, "pending")
  /\ api' = [api EXCEPT ![t] = "created"]
  /\ UNCHANGED <<queue, locked, cancelFlag, worker, sem, timers, poller,
                 cancelPC, history>>

\* Engine.Enqueue, first half: the guard lets the request in and LPUSH works.
EnqueuePush(t) ==
  /\ api[t] = "created"
  /\ Push(t, ApiPriority[t])
  /\ api' = [api EXCEPT ![t] = "pushed"]
  /\ UNCHANGED <<status, locked, cancelFlag, worker, sem, timers, poller,
                 cancelPC, history>>

\* Mutant: the row is marked queued before the guard refuses.
EnqueueRejectedMarked(t) ==
  /\ api[t] = "created"
  /\ api' = [api EXCEPT ![t] = "done"]
  /\ UpdateStatus(t, "queued")
  /\ UNCHANGED <<queue, locked, cancelFlag, worker, sem, timers, poller,
                 cancelPC, history>>

\* Engine.Enqueue refuses (backpressure) or LPUSH fails: the handler only
\* logs, the row stays pending and is left to the fallback poller.
EnqueueRejected(t) ==
  /\ api[t] = "created"
  /\ api' = [api EXCEPT ![t] = "done"]
  /\ UNCHANGED <<durable, worker, sem, timers, poller, cancelPC, history>>

\* Engine.Enqueue, second half: mark the row queued.  The statement runs on
\* the request's context and is lost when the client has gone.
EnqueueMark(t) ==
  /\ api[t] = "pushed"
  /\ api' = [api EXCEPT ![t] = "done"]
  /\ UpdateStatus(t, "queued") \/ UNCHANGED status
  /\ UNCHANGED <<queue, locked, cancelFlag, worker, sem, timers, poller,
                 cancelPC, history>>

\* taskService.Cancel reads the row and refuses terminal tasks ...
CancelRead(t) ==
  /\ cancels < MaxCancels
  /\ cancelPC[t] = "idle"
  /\ status[t] \notin Terminal \cup {"none"}
  /\ cancelPC' = [cancelPC EXCEPT ![t] = "read"]
  /\ cancels' = cancels + 1
  /\ UNCHANGED <<durable, worker, sem, timers, poller, api,
                 done, failures, crashes, faults>>

\* ... then raises the Redis flag, whose failure is not fatal ...
CancelSignal(t) ==
  /\ cancelPC[t] = "read"
  /\ cancelPC' = [cancelPC EXCEPT ![t] = "flagged"]
  /\ \/ cancelFlag' = [cancelFlag EXCEPT ![t] = TRUE] /\ UNCHANGED faults
     \/ Fault /\ UNCHANGED cancelFlag
  /\ UNCHANGED <<status, queue, locked, worker, sem, timers, poller, api,
                 done, failures, cancels, crashes>>

\* ... then writes the row, whatever it has become since.
CancelMark(t) ==
  /\ cancelPC[t] = "flagged"
  /\ cancelPC' = [cancelPC EXCEPT ![t] = "idle"]
  /\ TryStatus(t, "cancelled")
  /\ UNCHANGED <<queue, locked, cancelFlag, worker, sem, timers, poller, api,
                 done, failures, cancels, crashes>>

-----------------------------------------------------------------------------
(* Workers: Engine.worker and Engine.processTask.                          *)

Goto(w, l) == pc' = [pc EXCEPT ![w] = l]

\* BRPOP over the lists in ascending priority: the oldest copy of the first
\* list that is not empty.
Dequeue(w) ==
  \E p \in 1..MaxPriority :
    /\ pc[w] = "idle"
    /\ queue[p] # << >>
    /\ \A q \in 1..(p - 1) : queue[q] = << >>
    /\ job' = [job EXCEPT ![w] = Head(queue[p])]
    /\ queue' = [queue EXCEPT ![p] = Tail(@)]
    /\ Goto(w, "popped")
    /\ UNCHANGED <<status, locked, cancelFlag, outcome, sem, timers, poller,
                   requests, history>>

\* Mutant: the boolean SET NX returns is not looked at.
AcquireLockUnchecked(w) ==
  /\ pc[w] = "popped"
  /\ locked' = [locked EXCEPT ![job[w]] = TRUE]
  /\ Goto(w, "locked")
  /\ UNCHANGED <<status, queue, cancelFlag, job, outcome, sem, timers, poller,
                 requests, history>>

\* SET NX succeeds.
AcquireLock(w) ==
  /\ pc[w] = "popped"
  /\ ~locked[job[w]]
  /\ locked' = [locked EXCEPT ![job[w]] = TRUE]
  /\ Goto(w, "locked")
  /\ UNCHANGED <<status, queue, cancelFlag, job, outcome, sem, timers, poller,
                 requests, history>>

\* The worker gives its copy up: the lock is taken, or Redis fails.  The copy
\* is already off the list and is not put back.
DropTask(w) ==
  /\ pc[w] = "popped"
  /\ \/ locked[job[w]] /\ UNCHANGED faults
     \/ Fault
  /\ job' = [job EXCEPT ![w] = NoTask]
  /\ Goto(w, "idle")
  /\ UNCHANGED <<durable, outcome, sem, timers, poller, requests,
                 done, failures, cancels, crashes>>

\* Mutant: ReleaseLock is deferred only after the cancellation check.
LoadTaskDefersLate(w) ==
  LET t == job[w] IN
  /\ pc[w] = "locked"
  /\ IF status[t] = "cancelled" \/ cancelFlag[t]
     THEN /\ UpdateStatus(t, "cancelled")
          /\ cancelFlag' = [cancelFlag EXCEPT ![t] = FALSE]
          /\ job' = [job EXCEPT ![w] = NoTask]
          /\ Goto(w, "idle")
     ELSE /\ Goto(w, "waitSlot")
          /\ UNCHANGED <<status, cancelFlag, job>>
  /\ UNCHANGED <<queue, locked, outcome, sem, timers, poller, requests, history>>

\* GetByID and the pre-execution cancellation check; IsCancelled answers
\* FALSE when Redis fails.
LoadTask(w) ==
  LET t == job[w] IN
  /\ pc[w] = "locked"
  /\ \/ /\ status[t] = "cancelled" \/ cancelFlag[t]
        /\ TryStatus(t, "cancelled")
        /\ cancelFlag' = [cancelFlag EXCEPT ![t] = FALSE]
        /\ Goto(w, "unlock")
     \/ /\ status[t] # "cancelled"
        /\ \/ ~cancelFlag[t] /\ UNCHANGED faults
           \/ cancelFlag[t] /\ Fault
        /\ Goto(w, "waitSlot")
        /\ UNCHANGED <<status, cancelFlag>>
  /\ UNCHANGED <<queue, locked, job, outcome, sem, timers, poller, requests,
                 done, failures, cancels, crashes>>

\* GetByID fails: processTask returns and its deferred ReleaseLock runs.
LoadFailed(w) ==
  /\ pc[w] = "locked"
  /\ Fault
  /\ Goto(w, "unlock")
  /\ UNCHANGED <<durable, job, outcome, sem, timers, poller, requests,
                 done, failures, cancels, crashes>>

\* Mutant: the channel has one slot too many.
TakeSlotOffByOne(h) ==
  /\ sem[h] <= MaxSlots
  /\ sem' = [sem EXCEPT ![h] = @ + 1]

\* "sem <- struct{}{}": blocks while the channel is full.
TakeSlot(h) ==
  /\ sem[h] < MaxSlots
  /\ sem' = [sem EXCEPT ![h] = @ + 1]

\* provSem.Acquire, then mark the row running.
AcquireSlot(w) ==
  LET t == job[w]
      h == HypervisorOf[t] IN
  /\ pc[w] = "waitSlot"
  /\ \/ h = NoHypervisor /\ UNCHANGED sem
     \/ h \in Hypervisors /\ TakeSlot(h)
  /\ TryStatus(t, "running")
  /\ Goto(w, "exec")
  /\ UNCHANGED <<queue, locked, cancelFlag, job, outcome, timers, poller,
                 requests, done, failures, cancels, crashes>>

\* No handler is registered for the type: failed, without a retry.
NoHandler(w) ==
  /\ pc[w] = "exec"
  /\ job[w] \notin Registered
  /\ TryStatus(job[w], "failed")
  /\ Goto(w, "release")
  /\ UNCHANGED <<queue, locked, cancelFlag, job, outcome, sem, timers, poller,
                 requests, done, failures, cancels, crashes>>

\* The handler's last tc.IsCancelled checkpoint before the provider call:
\* true on a raised flag or once the execution context has timed out.
Checkpoint(w) ==
  /\ pc[w] = "exec"
  /\ job[w] \in Registered
  /\ \/ /\ ~cancelFlag[job[w]]
        /\ Goto(w, "op")
        /\ UNCHANGED <<outcome, faults>>
     \/ /\ \/ cancelFlag[job[w]] /\ UNCHANGED faults
           \/ Fault
        /\ Goto(w, "finish")
        /\ outcome' = [outcome EXCEPT ![w] = "cancelled"]
  /\ UNCHANGED <<durable, job, sem, timers, poller, requests,
                 done, failures, cancels, crashes>>

\* The provider call and the handler's return.
HandlerReturn(w) ==
  LET t == job[w] IN
  /\ pc[w] = "op"
  /\ \E o \in {"ok", "permanent", "error"} :
       /\ outcome' = [outcome EXCEPT ![w] = o]
       /\ \/ /\ o = "ok"
             /\ done' = [done EXCEPT ![t] = @ + 1]
             /\ UNCHANGED failures
          \/ /\ o # "ok"
             /\ failures[t] < MaxFailures
             /\ failures' = [failures EXCEPT ![t] = @ + 1]
             /\ UNCHANGED done
  /\ Goto(w, "finish")
  /\ UNCHANGED <<durable, job, sem, timers, poller, requests,
                 cancels, crashes, faults>>

\* processTask increments its copy of RetryCount, then compares.
RetryAgain(t) == retry_count + 1 < MaxRetries[t]

\* The switch on handlerErr.  A retry is a process-local timer, not a row.
Finish(w) ==
  LET t == job[w] IN
  /\ pc[w] = "finish"
  /\ \/ /\ outcome[w] = "ok"
        /\ TryStatus(t, "completed")
        /\ UNCHANGED <<cancelFlag, timers>>
     \/ /\ outcome[w] = "cancelled"
        /\ TryStatus(t, "cancelled")
        /\ cancelFlag' = [cancelFlag EXCEPT ![t] = FALSE]
        /\ UNCHANGED timers
     \/ /\ outcome[w] = "error" /\ RetryAgain(t)
        /\ TryStatus(t, "retrying")
        /\ timers' = [timers EXCEPT ![t] = @ + 1]
        /\ UNCHANGED cancelFlag
     \/ /\ outcome[w] = "permanent" \/ (outcome[w] = "error" /\ ~RetryAgain(t))
        /\ TryStatus(t, "failed")
        /\ UNCHANGED <<cancelFlag, timers>>
  /\ outcome' = [outcome EXCEPT ![w] = "none"]
  /\ Goto(w, "release")
  /\ UNCHANGED <<queue, locked, job, sem, poller, requests,
                 done, failures, cancels, crashes>>

\* Deferred releaseSlot.
ReleaseSlot(w) ==
  LET h == HypervisorOf[job[w]] IN
  /\ pc[w] = "release"
  /\ IF h = NoHypervisor THEN UNCHANGED sem
                         ELSE sem' = [sem EXCEPT ![h] = @ - 1]
  /\ Goto(w, "unlock")
  /\ UNCHANGED <<durable, job, outcome, timers, poller, requests, history>>

\* Deferred ReleaseLock: DEL of the key, whoever set it.
ReleaseLock(w) ==
  /\ pc[w] = "unlock"
  /\ \/ locked' = [locked EXCEPT ![job[w]] = FALSE] /\ UNCHANGED faults
     \/ Fault /\ UNCHANGED locked
  /\ job' = [job EXCEPT ![w] = NoTask]
  /\ Goto(w, "idle")
  /\ UNCHANGED <<status, queue, cancelFlag, outcome, sem, timers, poller,
                 requests, done, failures, cancels, crashes>>

\* Mutant: no delay, the copy is pushed while the lock is still held.
TimerFireEarly(t) ==
  /\ timers[t] > 0
  /\ timers' = [timers EXCEPT ![t] = @ - 1]
  /\ Push(t, Priority[t])
  /\ UNCHANGED <<status, locked, cancelFlag, worker, sem, poller, requests, history>>

\* An EnqueueDelayed timer fires.  The backoff is at least five seconds, so
\* the worker that armed it is past its deferred calls unless calls are slow.
\* The callback ignores an error of Enqueue.
TimerFire(t) ==
  /\ timers[t] > 0
  /\ SlowCalls \/ \A w \in Workers : job[w] = t => pc[w] \notin {"release", "unlock"}
  /\ timers' = [timers EXCEPT ![t] = @ - 1]
  /\ \/ Push(t, Priority[t]) /\ UNCHANGED faults
     \/ Fault /\ UNCHANGED queue
  /\ UNCHANGED <<status, locked, cancelFlag, worker, sem, poller, requests,
                 done, failures, cancels, crashes>>

\* The lock key's TTL runs out.  The refresher covers the handler's run and
\* nothing else: a worker that waits for a slot loses its lock when the wait
\* outlasts LockTTL.  The lock of a crashed server, and one whose release
\* failed, always expire.
LockExpire(t) ==
  /\ locked[t]
  /\ ~PollerHolds(t)
  /\ \A w \in Workers : Holds(w, t) =>
       /\ SlowCalls
       /\ pc[w] = "waitSlot"
       /\ HypervisorOf[t] \in Hypervisors
       /\ sem[HypervisorOf[t]] = MaxSlots
  /\ locked' = [locked EXCEPT ![t] = FALSE]
  /\ UNCHANGED <<status, queue, cancelFlag, worker, sem, timers, poller,
                 requests, history>>

-----------------------------------------------------------------------------
(* The database fallback poller: Engine.rehydrateFromDB.                   *)

PollLimit == 2 * Cardinality(Workers)

\* ListPending: the pending rows of the lowest priority numbers, at most
\* PollLimit of them.
PollList ==
  /\ pollPC = "idle"
  /\ Pending # {}
  /\ \E rows \in SUBSET Pending :
       /\ rows = Pending \/ Cardinality(rows) = PollLimit
       /\ Cardinality(rows) <= PollLimit
       /\ \A t \in rows, u \in Pending \ rows : Priority[t] <= Priority[u]
       /\ pollSet' = rows
  /\ pollPC' = "next"
  /\ UNCHANGED <<durable, worker, sem, timers, pollTask, requests, history>>

\* AcquireLock on the next row of the result; a locked row is skipped, and
\* so is one whose lock cannot be asked for.
PollAcquire ==
  /\ pollPC = "next"
  /\ \E t \in pollSet :
       /\ \A u \in pollSet : Priority[t] <= Priority[u]
       /\ pollSet' = pollSet \ {t}
       /\ \/ /\ ~locked[t]
             /\ locked' = [locked EXCEPT ![t] = TRUE]
             /\ pollTask' = t
             /\ pollPC' = "held"
             /\ UNCHANGED faults
          \/ /\ \/ locked[t] /\ UNCHANGED faults
                \/ Fault
             /\ UNCHANGED <<locked, pollTask, pollPC>>
  /\ UNCHANGED <<status, queue, cancelFlag, worker, sem, timers, requests,
                 done, failures, cancels, crashes>>

\* ReleaseLock right after: the lock was only probed.
PollRelease ==
  /\ pollPC = "held"
  /\ \/ locked' = [locked EXCEPT ![pollTask] = FALSE] /\ UNCHANGED faults
     \/ Fault /\ UNCHANGED locked
  /\ pollPC' = "released"
  /\ UNCHANGED <<status, queue, cancelFlag, worker, sem, timers, pollSet,
                 pollTask, requests, done, failures, cancels, crashes>>

\* Enqueue the row; an error skips it.
PollPush ==
  /\ pollPC = "released"
  /\ \/ /\ Push(pollTask, Priority[pollTask])
        /\ pollPC' = "pushed"
        /\ UNCHANGED <<pollTask, faults>>
     \/ /\ Fault
        /\ pollPC' = "next"
        /\ pollTask' = NoTask
        /\ UNCHANGED queue
  /\ UNCHANGED <<status, locked, cancelFlag, worker, sem, timers, pollSet,
                 requests, done, failures, cancels, crashes>>

\* Mark the row queued, on the strength of the status ListPending returned.
PollMark ==
  /\ pollPC = "pushed"
  /\ TryStatus(pollTask, "queued")
  /\ pollPC' = "next"
  /\ pollTask' = NoTask
  /\ UNCHANGED <<queue, locked, cancelFlag, worker, sem, timers, pollSet,
                 requests, done, failures, cancels, crashes>>

PollEnd ==
  /\ pollPC = "next"
  /\ pollSet = {}
  /\ pollPC' = "idle"
  /\ UNCHANGED <<durable, worker, sem, timers, pollSet, pollTask, requests,
                 history>>

-----------------------------------------------------------------------------

\* The server process dies and is started again.
Crash ==
  /\ crashes < MaxCrashes
  /\ crashes' = crashes + 1
  /\ pc' = [w \in Workers |-> "idle"]
  /\ job' = [w \in Workers |-> NoTask]
  /\ outcome' = [w \in Workers |-> "none"]
  /\ sem' = [h \in Hypervisors |-> 0]
  /\ timers' = [t \in Tasks |-> 0]
  /\ pollPC' = "idle" /\ pollSet' = {} /\ pollTask' = NoTask
  /\ api' = [t \in Tasks |-> IF api[t] = "none" THEN "none" ELSE "done"]
  /\ cancelPC' = [t \in Tasks |-> "idle"]
  /\ UNCHANGED <<durable, done, failures, cancels, faults>>

RequestStep(t) ==
  Create(t) \/ EnqueuePush(t) \/ EnqueueRejected(t) \/ EnqueueMark(t)

CancelStep(t) == CancelRead(t) \/ CancelSignal(t) \/ CancelMark(t)

WorkerStep(w) ==
  \/ Dequeue(w) \/ AcquireLock(w) \/ DropTask(w) \/ LoadTask(w) \/ LoadFailed(w)
  \/ AcquireSlot(w) \/ NoHandler(w) \/ Checkpoint(w) \/ HandlerReturn(w)
  \/ Finish(w) \/ ReleaseSlot(w) \/ ReleaseLock(w)

PollerStep ==
  PollList \/ PollAcquire \/ PollRelease \/ PollPush \/ PollMark \/ PollEnd

Next ==
  \/ \E t \in Tasks : RequestStep(t) \/ CancelStep(t) \/ TimerFire(t) \/ LockExpire(t)
  \/ \E w \in Workers : WorkerStep(w)
  \/ PollerStep
  \/ Crash

Spec == Init /\ [][Next]_vars

\* Every goroutine keeps running and every timer fires; requests and their
\* clients, crashes and lock expiry are not promised.
Fairness ==
  /\ \A w \in Workers : WF_vars(WorkerStep(w))
  /\ \A t \in Tasks : WF_vars(TimerFire(t))
  /\ WF_vars(PollerStep)

FairSpec == Spec /\ Fairness

-----------------------------------------------------------------------------
(* Properties.                                                             *)

\* The type of every variable.
TypeOK ==
  /\ status \in [Tasks -> TaskStatus \cup {"none"}]
  /\ queue \in [1..MaxPriority -> Seq(Tasks)]
  /\ locked \in [Tasks -> BOOLEAN]
  /\ cancelFlag \in [Tasks -> BOOLEAN]
  /\ pc \in [Workers -> WorkerPC]
  /\ job \in [Workers -> Tasks \cup {NoTask}]
  /\ outcome \in [Workers -> Outcomes]
  /\ \A w \in Workers : pc[w] = "idle" <=> job[w] = NoTask
  /\ sem \in [Hypervisors -> Int]
  /\ timers \in [Tasks -> Nat]
  /\ pollPC \in {"idle", "next", "held", "released", "pushed"}
  /\ pollSet \subseteq Tasks
  /\ pollTask \in Tasks \cup {NoTask}
  /\ pollPC \in {"held", "released", "pushed"} => pollTask \in Tasks
  /\ api \in [Tasks -> {"none", "created", "pushed", "done"}]
  /\ cancelPC \in [Tasks -> {"idle", "read", "flagged"}]
  /\ done \in [Tasks -> Nat]
  /\ failures \in [Tasks -> Nat]
  /\ cancels \in Nat /\ crashes \in Nat /\ faults \in Nat

\* Two workers never own the same task: although the same ID may sit in the
\* lists several times, the lock key names no owner and ReleaseLock deletes it
\* unseen, no second worker gets between AcquireLock and ReleaseLock
\* ("this worker owns the task", queue.go; the NX lock of processTask).
OneOwner ==
  \A t \in Tasks, v, w \in Workers : Holds(v, t) /\ Holds(w, t) => v = w

\* No hypervisor ever sees more than MaxSlots handlers at once, on any path
\* out of processTask (providerSemaphore, throttle.go).
ProviderConcurrency ==
  \A h \in Hypervisors : Cardinality(SlotHolders(h)) <= MaxSlots

\* Without a crash or a failed call a lock key is never left behind: some
\* worker or the poller is between its AcquireLock and its ReleaseLock.
LockHasHolder ==
  crashes = 0 /\ faults = 0 =>
    \A t \in Tasks : locked[t] => PollerHolds(t) \/ \E w \in Workers : Holds(w, t)

\* Without a crash or a failed call a row says "running" only while a worker
\* executes it, whatever requests and the poller write in between.
RunningHasWorker ==
  crashes = 0 /\ faults = 0 =>
    \A t \in Tasks : status[t] = "running" =>
      \E w \in Workers : job[w] = t /\ pc[w] \in {"exec", "op", "finish"}

\* Someone will still look at task t: a copy, a timer, a worker that holds a
\* copy, or the poller about to push one.
InFlight(t) ==
  \/ InQueue(t)
  \/ timers[t] > 0
  \/ \E w \in Workers : job[w] = t
  \/ pollTask = t /\ pollPC \in {"held", "released"}

\* A row that waits for a retry is still in flight ("retrying tasks ... will
\* be re-enqueued by the retry backoff timer", task_repo.go), provided the
\* server has not crashed and no call has failed.
RetryNotLost ==
  crashes = 0 /\ faults = 0 =>
    \A t \in Tasks : status[t] = "retrying" => InFlight(t)

\* Every created task reaches a final status at some time, without crashes and
\* with finitely many handler failures: whoever drops a copy of it leaves
\* another copy, a timer or a pending row behind.
EveryTaskSettles ==
  \A t \in Tasks : status[t] = "pending" ~> status[t] \in Terminal

-----------------------------------------------------------------------------
(* Statements of the code's comments that the code does not meet.          *)

\* "Each worker acquires a Redis NX lock before executing to prevent
\* double-execution if the same task ID appears twice in the queue."
AtMostOnce == \A t \in Tasks : done[t] <= 1

=============================================================================
