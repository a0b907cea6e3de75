-------------------------- MODULE TaskEngineProofs --------------------------
(***************************************************************************)
(* Proofs about the task engine, for every value of the constants.         *)
(***************************************************************************)
EXTENDS TaskEngine, TLAPS, FiniteSetTheorems

-----------------------------------------------------------------------------
(* Type correctness.                                                       *)

\* RedisQueue.Enqueue always picks one of the priority lists.
LEMMA ClampInRange == \A p \in Int : Clamp(p) \in 1..MaxPriority
BY PriorityAssumption DEF Clamp

\* LPUSH keeps the lists lists of task IDs.
LEMMA PushType ==
  ASSUME queue \in [1..MaxPriority -> Seq(Tasks)],
         NEW t \in Tasks, NEW p \in Int, Push(t, p)
  PROVE  queue' \in [1..MaxPriority -> Seq(Tasks)]
<1>1. Clamp(p) \in 1..MaxPriority
  BY ClampInRange
<1>2. Append(queue[Clamp(p)], t) \in Seq(Tasks)
  BY <1>1
<1> QED
  BY <1>1, <1>2 DEF Push

\* BRPOP yields a task ID and keeps the lists lists of task IDs.
LEMMA PopType ==
  ASSUME queue \in [1..MaxPriority -> Seq(Tasks)],
         NEW p \in 1..MaxPriority, queue[p] # << >>
  PROVE  /\ Head(queue[p]) \in Tasks
         /\ [queue EXCEPT ![p] = Tail(@)] \in [1..MaxPriority -> Seq(Tasks)]
<1>1. queue[p] \in Seq(Tasks)
  OBVIOUS
<1>2. Head(queue[p]) \in Tasks /\ Tail(queue[p]) \in Seq(Tasks)
  BY <1>1
<1> QED
  BY <1>2

\* Setting or deleting the lock or cancel key of a task.
LEMMA KeyType ==
  ASSUME NEW f \in [Tasks -> BOOLEAN], NEW t, NEW b \in BOOLEAN
  PROVE  [f EXCEPT ![t] = b] \in [Tasks -> BOOLEAN]
OBVIOUS

\* Every request step, of creation and of cancellation, keeps the types.
LEMMA RequestType ==
  ASSUME TypeOK, NEW t \in Tasks, RequestStep(t) \/ CancelStep(t)
  PROVE  TypeOK'
<1> USE DEF TypeOK, worker, poller, requests, history, durable, TaskStatus,
            UpdateStatus, TryStatus, Fault
<1>1. CASE Create(t)
  BY <1>1 DEF Create
<1>2. CASE EnqueuePush(t)
  <2>1. queue' \in [1..MaxPriority -> Seq(Tasks)]
    BY <1>2, PushType, PriorityAssumption DEF EnqueuePush
  <2> QED
    BY <1>2, <2>1 DEF EnqueuePush
<1>3. CASE EnqueueRejected(t)
  BY <1>3 DEF EnqueueRejected
<1>4. CASE EnqueueMark(t)
  BY <1>4 DEF EnqueueMark
<1>5. CASE CancelRead(t)
  BY <1>5 DEF CancelRead
<1>6. CASE CancelSignal(t)
  <2>1. cancelFlag' \in [Tasks -> BOOLEAN]
    BY <1>6, KeyType DEF CancelSignal
  <2>2. faults' \in Nat
    BY <1>6 DEF CancelSignal
  <2> QED
    BY <1>6, <2>1, <2>2 DEF CancelSignal
<1>7. CASE CancelMark(t)
  BY <1>7 DEF CancelMark
<1> QED
  BY <1>1, <1>2, <1>3, <1>4, <1>5, <1>6, <1>7 DEF RequestStep, CancelStep

\* An UpdateStatus whose error is ignored keeps the types.
LEMMA TryStatusType ==
  ASSUME TypeOK, NEW t, NEW s \in TaskStatus, TryStatus(t, s)
  PROVE  status' \in [Tasks -> TaskStatus \cup {"none"}] /\ faults' \in Nat
<1>1. status \in [Tasks -> TaskStatus \cup {"none"}] /\ faults \in Nat
  BY DEF TypeOK
<1>2. CASE UpdateStatus(t, s) /\ UNCHANGED faults
  BY <1>1, <1>2 DEF UpdateStatus
<1>3. CASE Fault /\ UNCHANGED status
  BY <1>1, <1>3 DEF Fault
<1> QED
  BY <1>2, <1>3 DEF TryStatus

\* A worker that moves on with its task keeps the types.
LEMMA GotoType ==
  ASSUME TypeOK, NEW w \in Workers, NEW l \in WorkerPC \ {"idle"}, Goto(w, l),
         pc[w] # "idle", UNCHANGED job
  PROVE  /\ pc' \in [Workers -> WorkerPC]
         /\ job' \in [Workers -> Tasks \cup {NoTask}]
         /\ \A v \in Workers : pc'[v] = "idle" <=> job'[v] = NoTask
         /\ job[w] \in Tasks
BY DEF TypeOK, Goto

\* Every step of a worker inside Engine.worker and processTask.
LEMMA WorkerType ==
  ASSUME TypeOK, NEW w \in Workers, WorkerStep(w)
  PROVE  TypeOK'
<1> USE DEF worker, poller, requests, history, durable
<1>a. {"idle", "popped", "locked", "waitSlot", "exec", "op", "finish", "release",
       "unlock"} \subseteq WorkerPC
  BY DEF WorkerPC, Critical
<1>b. {"queued", "running", "completed", "failed", "cancelled", "retrying"}
        \subseteq TaskStatus
  BY DEF TaskStatus
<1>1. CASE Dequeue(w)
  <2>1. PICK p \in 1..MaxPriority :
          /\ queue[p] # << >>
          /\ job' = [job EXCEPT ![w] = Head(queue[p])]
          /\ queue' = [queue EXCEPT ![p] = Tail(@)]
    BY <1>1 DEF Dequeue
  <2>2. Head(queue[p]) \in Tasks /\ queue' \in [1..MaxPriority -> Seq(Tasks)]
    BY <2>1, PopType DEF TypeOK
  <2> QED
    <3>1. /\ Goto(w, "popped")
          /\ UNCHANGED <<status, locked, cancelFlag, outcome, sem, timers, poller,
                         requests, history>>
      BY <1>1 DEF Dequeue
    <3>2. /\ pc' \in [Workers -> WorkerPC] /\ job' \in [Workers -> Tasks \cup {NoTask}]
          /\ \A v \in Workers : pc'[v] = "idle" <=> job'[v] = NoTask
      BY <1>a, <2>1, <2>2, <3>1, TasksAssumption DEF TypeOK, Goto
    <3> QED
      BY <2>2, <3>1, <3>2 DEF TypeOK
<1>2. CASE AcquireLock(w)
  <2>1. locked' \in [Tasks -> BOOLEAN]
    BY <1>2, KeyType DEF AcquireLock, TypeOK
  <2> QED
    BY <1>2, <1>a, <2>1, GotoType DEF AcquireLock, TypeOK
<1>3. CASE DropTask(w)
  <2>1. faults' \in Nat
    BY <1>3 DEF DropTask, TypeOK, Fault
  <2>2. /\ pc' = [pc EXCEPT ![w] = "idle"] /\ job' = [job EXCEPT ![w] = NoTask]
        /\ UNCHANGED <<durable, outcome, sem, timers, poller, requests,
                       done, failures, cancels, crashes>>
    BY <1>3 DEF DropTask, Goto
  <2> QED
    BY <1>a, <2>1, <2>2 DEF TypeOK
<1>4. CASE LoadTask(w)
  <2>1. cancelFlag' \in [Tasks -> BOOLEAN]
    BY <1>4, KeyType DEF LoadTask, TypeOK
  <2>2. status' \in [Tasks -> TaskStatus \cup {"none"}] /\ faults' \in Nat
    BY <1>4, <1>b, TryStatusType DEF LoadTask, TypeOK, Fault
  <2>3. pc[w] = "locked" /\ (Goto(w, "unlock") \/ Goto(w, "waitSlot"))
    BY <1>4 DEF LoadTask
  <2>4. UNCHANGED <<queue, locked, job, outcome, sem, timers, poller, requests,
                    done, failures, cancels, crashes>>
    BY <1>4 DEF LoadTask
  <2> QED
    BY <1>a, <2>1, <2>2, <2>3, <2>4, GotoType DEF TypeOK
<1>5. CASE LoadFailed(w)
  <2>1. faults' \in Nat
    BY <1>5 DEF LoadFailed, TypeOK, Fault
  <2> QED
    BY <1>5, <1>a, <2>1, GotoType DEF LoadFailed, TypeOK
<1>6. CASE AcquireSlot(w)
  <2>1. status' \in [Tasks -> TaskStatus \cup {"none"}] /\ faults' \in Nat
    BY <1>6, <1>b, TryStatusType DEF AcquireSlot
  <2>2. sem' \in [Hypervisors -> Int]
    BY <1>6 DEF AcquireSlot, TakeSlot, TypeOK
  <2> QED
    BY <1>6, <1>a, <2>1, <2>2, GotoType DEF AcquireSlot, TypeOK
<1>7. CASE NoHandler(w)
  <2>1. status' \in [Tasks -> TaskStatus \cup {"none"}] /\ faults' \in Nat
    BY <1>7, <1>b, TryStatusType DEF NoHandler
  <2> QED
    BY <1>7, <1>a, <2>1, GotoType DEF NoHandler, TypeOK
<1>8. CASE Checkpoint(w)
  <2>1. outcome' \in [Workers -> Outcomes] /\ faults' \in Nat
    <3>1. outcome \in [Workers -> Outcomes] /\ faults \in Nat
      BY DEF TypeOK
    <3> QED
      BY <1>8, <3>1 DEF Checkpoint, Fault, Outcomes
  <2>2. pc[w] = "exec" /\ (Goto(w, "op") \/ Goto(w, "finish"))
    BY <1>8 DEF Checkpoint
  <2> QED
    BY <1>8, <1>a, <2>1, <2>2, GotoType DEF Checkpoint, TypeOK
<1>9. CASE HandlerReturn(w)
  <2>1. outcome' \in [Workers -> Outcomes]
    BY <1>9 DEF HandlerReturn, TypeOK, Outcomes
  <2>2. \/ done' = [done EXCEPT ![job[w]] = @ + 1] /\ UNCHANGED failures
        \/ failures' = [failures EXCEPT ![job[w]] = @ + 1] /\ UNCHANGED done
    BY <1>9 DEF HandlerReturn
  <2>3. done' \in [Tasks -> Nat] /\ failures' \in [Tasks -> Nat]
    <3>1. job[w] \in Tasks
      BY <1>9 DEF HandlerReturn, TypeOK
    <3>2. done \in [Tasks -> Nat] /\ failures \in [Tasks -> Nat]
      BY DEF TypeOK
    <3> QED
      BY <2>2, <3>1, <3>2
  <2> QED
    BY <1>9, <1>a, <2>1, <2>3, GotoType DEF HandlerReturn, TypeOK
<1>10. CASE Finish(w)
  <2>1. cancelFlag' \in [Tasks -> BOOLEAN]
    BY <1>10, KeyType DEF Finish, TypeOK
  <2>2. status' \in [Tasks -> TaskStatus \cup {"none"}] /\ faults' \in Nat
    BY <1>10, <1>b, TryStatusType DEF Finish
  <2>3. timers' \in [Tasks -> Nat]
    BY <1>10 DEF Finish, TypeOK
  <2>4. outcome' \in [Workers -> Outcomes]
    BY <1>10 DEF Finish, TypeOK, Outcomes
  <2>5. /\ pc[w] = "finish" /\ Goto(w, "release")
        /\ UNCHANGED <<queue, locked, job, sem, poller, requests,
                       done, failures, cancels, crashes>>
    BY <1>10 DEF Finish
  <2> QED
    BY <1>a, <2>1, <2>2, <2>3, <2>4, <2>5, GotoType DEF TypeOK
<1>11. CASE ReleaseSlot(w)
  <2>1. sem' \in [Hypervisors -> Int]
    BY <1>11 DEF ReleaseSlot, TypeOK
  <2> QED
    BY <1>11, <1>a, <2>1, GotoType DEF ReleaseSlot, TypeOK
<1>12. CASE ReleaseLock(w)
  <2>1. locked' \in [Tasks -> BOOLEAN]
    BY <1>12, KeyType DEF ReleaseLock, TypeOK
  <2>2. faults' \in Nat
    BY <1>12 DEF ReleaseLock, TypeOK, Fault
  <2>3. /\ job' = [job EXCEPT ![w] = NoTask] /\ Goto(w, "idle")
        /\ UNCHANGED <<status, queue, cancelFlag, outcome, sem, timers, poller,
                       requests, done, failures, cancels, crashes>>
    BY <1>12 DEF ReleaseLock
  <2> QED
    BY <1>a, <2>1, <2>2, <2>3 DEF TypeOK, Goto
<1> QED
  BY <1>1, <1>2, <1>3, <1>4, <1>5, <1>6, <1>7, <1>8, <1>9, <1>10, <1>11, <1>12
     DEF WorkerStep

\* Every step of the fallback poller.
LEMMA PollerType ==
  ASSUME TypeOK, PollerStep
  PROVE  TypeOK'
<1> USE DEF TypeOK, worker, poller, requests, history, durable, Fault
<1>1. CASE PollList
  BY <1>1 DEF PollList, Pending
<1>2. CASE PollAcquire
  <2>1. locked' \in [Tasks -> BOOLEAN]
    BY <1>2, KeyType DEF PollAcquire
  <2>2. /\ faults' \in Nat /\ pollSet' \subseteq Tasks
        /\ pollTask' \in Tasks \cup {NoTask}
        /\ pollPC' \in {"next", "held"}
        /\ pollPC' = "held" => pollTask' \in Tasks
    BY <1>2 DEF PollAcquire
  <2> QED
    BY <1>2, <2>1, <2>2 DEF PollAcquire
<1>3. CASE PollRelease
  <2>1. locked' \in [Tasks -> BOOLEAN]
    BY <1>3, KeyType DEF PollRelease
  <2>2. faults' \in Nat
    BY <1>3 DEF PollRelease
  <2> QED
    BY <1>3, <2>1, <2>2 DEF PollRelease
<1>4. CASE PollPush
  <2>1. queue' \in [1..MaxPriority -> Seq(Tasks)]
    BY <1>4, PushType, PriorityAssumption DEF PollPush
  <2> QED
    BY <1>4, <2>1 DEF PollPush
<1>5. CASE PollMark
  <2>1. status' \in [Tasks -> TaskStatus \cup {"none"}] /\ faults' \in Nat
    BY <1>5, TryStatusType DEF PollMark, TaskStatus
  <2> QED
    BY <1>5, <2>1 DEF PollMark
<1>6. CASE PollEnd
  BY <1>6 DEF PollEnd
<1> QED
  BY <1>1, <1>2, <1>3, <1>4, <1>5, <1>6 DEF PollerStep

\* The type invariant is inductive.
LEMMA TypeStep == TypeOK /\ [Next]_vars => TypeOK'
<1> SUFFICES ASSUME TypeOK, [Next]_vars PROVE TypeOK'
  OBVIOUS
<1> USE DEF worker, poller, requests, history, durable
<1>1. CASE \E t \in Tasks : RequestStep(t) \/ CancelStep(t)
  BY <1>1, RequestType
<1>2. ASSUME NEW t \in Tasks, TimerFire(t) PROVE TypeOK'
  <2>1. queue' \in [1..MaxPriority -> Seq(Tasks)]
    BY <1>2, PushType, PriorityAssumption DEF TimerFire, TypeOK
  <2> QED
    BY <1>2, <2>1 DEF TimerFire, TypeOK, Fault
<1>3. ASSUME NEW t \in Tasks, LockExpire(t) PROVE TypeOK'
  <2>1. locked' \in [Tasks -> BOOLEAN]
    BY <1>3, KeyType DEF LockExpire, TypeOK
  <2> QED
    BY <1>3, <2>1 DEF LockExpire, TypeOK
<1>4. CASE \E w \in Workers : WorkerStep(w)
  BY <1>4, WorkerType
<1>5. CASE PollerStep
  BY <1>5, PollerType
<1>6. CASE Crash
  BY <1>6 DEF Crash, TypeOK, WorkerPC, Outcomes
<1>7. CASE UNCHANGED vars
  BY <1>7 DEF vars, TypeOK
<1> QED
  BY <1>1, <1>2, <1>3, <1>4, <1>5, <1>6, <1>7 DEF Next

\* Init establishes the types.
LEMMA TypeInit == Init => TypeOK
<1> SUFFICES ASSUME Init PROVE TypeOK
  OBVIOUS
<1>1. /\ queue \in [1..MaxPriority -> Seq(Tasks)]
      /\ locked \in [Tasks -> BOOLEAN] /\ cancelFlag \in [Tasks -> BOOLEAN]
  BY DEF Init
<1> QED
  BY <1>1 DEF Init, TypeOK, WorkerPC, Outcomes, TaskStatus

\* Type correctness of the task engine: whatever interleaving, crash or failed
\* call, a worker past BRPOP always carries a task.
THEOREM TypeCorrect == Spec => []TypeOK
BY TypeInit, TypeStep, PTL DEF Spec

-----------------------------------------------------------------------------
(* One owner per task, provided slot waits stay within LockTTL.            *)

\* OneOwner is not inductive by itself: ReleaseLock and the poller's probe
\* delete the key whoever set it, so the invariant must say that the key
\* stands as long as anyone relies on it, and that worker and poller exclude
\* each other.
LockInv ==
  /\ OneOwner
  /\ \A t \in Tasks, w \in Workers : Holds(w, t) => locked[t] /\ ~PollerHolds(t)
  /\ \A t \in Tasks : PollerHolds(t) => locked[t]

\* A step that keeps every lock, who holds it and what the poller holds.
LEMMA LockUndisturbed ==
  ASSUME LockInv, locked' = locked,
         \A t \in Tasks, w \in Workers : Holds(w, t)' => Holds(w, t),
         \A t \in Tasks : PollerHolds(t)' => PollerHolds(t)
  PROVE  LockInv'
BY DEF LockInv, OneOwner

\* A worker's step preserves the lock invariant: only AcquireLock and
\* ReleaseLock change who holds a lock.
LEMMA WorkerLock ==
  ASSUME TypeOK, LockInv, NEW w \in Workers, WorkerStep(w)
  PROVE  LockInv'
<1> USE DEF worker, poller, requests, history, durable
<1>t. pc \in [Workers -> WorkerPC] /\ job \in [Workers -> Tasks \cup {NoTask}]
  BY DEF TypeOK
<1>1. CASE Dequeue(w)
  <2>1. /\ Goto(w, "popped") /\ pc[w] = "idle"
        /\ \A v \in Workers \ {w} : job'[v] = job[v]
        /\ UNCHANGED <<locked, pollPC, pollTask>>
    BY <1>1, <1>t DEF Dequeue
  <2> QED
    BY <2>1, <1>t, LockUndisturbed DEF Goto, Holds, PollerHolds, Critical
<1>2. CASE AcquireLock(w)
  <2>1. /\ ~locked[job[w]] /\ locked' = [locked EXCEPT ![job[w]] = TRUE]
        /\ Goto(w, "locked") /\ job[w] \in Tasks
        /\ UNCHANGED <<job, pollPC, pollTask>>
    BY <1>2 DEF AcquireLock, TypeOK
  <2>2. \A t \in Tasks : locked[t] => locked'[t]
    BY <2>1 DEF TypeOK
  <2>3. locked'[job[w]]
    BY <2>1 DEF TypeOK
  <2>4. \A t \in Tasks, v \in Workers :
          Holds(v, t)' => Holds(v, t) \/ (v = w /\ t = job[w])
    BY <2>1, <1>t DEF Goto, Holds
  <2>5. \A t \in Tasks : PollerHolds(t)' = PollerHolds(t)
    BY <2>1 DEF PollerHolds
  <2> QED
    BY <2>1, <2>2, <2>3, <2>4, <2>5 DEF LockInv, OneOwner
<1>3. CASE DropTask(w)
  BY <1>3, <1>t, LockUndisturbed
     DEF DropTask, Goto, Holds, PollerHolds, Critical
<1>4. CASE ReleaseLock(w)
  <2>1. /\ pc[w] \in Critical /\ job[w] \in Tasks
        /\ Goto(w, "idle") /\ job' = [job EXCEPT ![w] = NoTask]
        /\ UNCHANGED <<pollPC, pollTask>>
    BY <1>4 DEF ReleaseLock, TypeOK, Critical
  <2>2. \A t \in Tasks \ {job[w]} : locked'[t] = locked[t]
    BY <1>4 DEF ReleaseLock, TypeOK
  <2>3. \A t \in Tasks, v \in Workers : Holds(v, t)' => Holds(v, t) /\ v # w
    BY <2>1, <1>t DEF Goto, Holds, Critical
  <2>4. Holds(w, job[w])
    BY <2>1 DEF Holds
  <2>5. \A t \in Tasks : PollerHolds(t)' = PollerHolds(t)
    BY <2>1 DEF PollerHolds
  <2> QED
    BY <2>1, <2>2, <2>3, <2>4, <2>5 DEF LockInv, OneOwner
<1>5. CASE \/ LoadTask(w) \/ LoadFailed(w) \/ AcquireSlot(w) \/ NoHandler(w)
           \/ Checkpoint(w) \/ HandlerReturn(w) \/ Finish(w) \/ ReleaseSlot(w)
  <2>1. /\ pc[w] \in Critical
        /\ \E l \in Critical : Goto(w, l)
        /\ UNCHANGED <<locked, job, pollPC, pollTask>>
    BY <1>5 DEF LoadTask, LoadFailed, AcquireSlot, NoHandler, Checkpoint,
                HandlerReturn, Finish, ReleaseSlot, Critical
  <2> QED
    BY <2>1, <1>t, LockUndisturbed DEF Goto, Holds, PollerHolds
<1> QED
  BY <1>1, <1>2, <1>3, <1>4, <1>5 DEF WorkerStep

\* The poller's probe preserves the lock invariant: it takes a free key and
\* deletes only its own.
LEMMA PollerLock ==
  ASSUME TypeOK, LockInv, PollerStep
  PROVE  LockInv'
<1> USE DEF worker, poller, requests, history, durable
<1>1. CASE PollAcquire
  <2>1. UNCHANGED <<pc, job>>
    BY <1>1 DEF PollAcquire
  <2>2. PICK t \in pollSet :
          \/ /\ ~locked[t] /\ locked' = [locked EXCEPT ![t] = TRUE]
             /\ pollTask' = t
          \/ UNCHANGED <<locked, pollTask, pollPC>>
    BY <1>1 DEF PollAcquire
  <2>3. CASE UNCHANGED <<locked, pollTask, pollPC>>
    BY <2>1, <2>3, LockUndisturbed DEF Holds, PollerHolds
  <2>4. CASE ~locked[t] /\ locked' = [locked EXCEPT ![t] = TRUE] /\ pollTask' = t
    <3>1. locked'[t] /\ \A u \in Tasks : locked[u] => locked'[u]
      BY <2>4 DEF TypeOK
    <3>2. \A u \in Tasks : PollerHolds(u)' => u = t
      BY <2>4 DEF PollerHolds
    <3>3. \A u \in Tasks, v \in Workers : Holds(v, u)' = Holds(v, u)
      BY <2>1 DEF Holds
    <3> QED
      BY <2>4, <3>1, <3>2, <3>3 DEF LockInv, OneOwner
  <2> QED
    BY <2>2, <2>3, <2>4
<1>2. CASE PollRelease
  <2>1. PollerHolds(pollTask) /\ pollTask \in Tasks
    BY <1>2 DEF PollRelease, PollerHolds, TypeOK
  <2>2. \A t \in Tasks \ {pollTask} : locked'[t] = locked[t]
    BY <1>2 DEF PollRelease, TypeOK
  <2>3. \A t \in Tasks : ~PollerHolds(t)'
    BY <1>2 DEF PollRelease, PollerHolds
  <2>4. \A t \in Tasks, v \in Workers : Holds(v, t)' = Holds(v, t)
    BY <1>2 DEF PollRelease, Holds
  <2> QED
    BY <2>1, <2>2, <2>3, <2>4 DEF LockInv, OneOwner
<1>3. CASE PollList \/ PollPush \/ PollMark \/ PollEnd
  <2>1. UNCHANGED <<locked, pc, job>> /\ pollPC' # "held"
    BY <1>3 DEF PollList, PollPush, PollMark, PollEnd
  <2> QED
    BY <2>1, LockUndisturbed DEF Holds, PollerHolds
<1> QED
  BY <1>1, <1>2, <1>3 DEF PollerStep

\* The lock invariant is inductive when no slot wait outlasts LockTTL.
LEMMA LockStep ==
  ASSUME ~SlowCalls
  PROVE  TypeOK /\ LockInv /\ [Next]_vars => LockInv'
<1> SUFFICES ASSUME TypeOK, LockInv, [Next]_vars PROVE LockInv'
  OBVIOUS
<1> USE DEF worker, poller, requests, history, durable
<1>1. ASSUME NEW t \in Tasks, RequestStep(t) \/ CancelStep(t) \/ TimerFire(t)
      PROVE  LockInv'
  <2>1. UNCHANGED <<locked, pc, job, pollPC, pollTask>>
    BY <1>1 DEF RequestStep, CancelStep, Create, EnqueuePush, EnqueueRejected,
       EnqueueMark, CancelRead, CancelSignal, CancelMark, TimerFire
  <2> QED
    BY <2>1, LockUndisturbed DEF Holds, PollerHolds
<1>2. ASSUME NEW t \in Tasks, LockExpire(t) PROVE LockInv'
  <2>1. /\ ~PollerHolds(t)
        /\ \A w \in Workers : ~Holds(w, t)
        /\ \A u \in Tasks \ {t} : locked'[u] = locked[u]
        /\ UNCHANGED <<pc, job, pollPC, pollTask>>
    BY <1>2 DEF LockExpire, TypeOK
  <2>2. /\ \A u \in Tasks, v \in Workers : Holds(v, u)' = Holds(v, u)
        /\ \A u \in Tasks : PollerHolds(u)' = PollerHolds(u)
    BY <2>1 DEF Holds, PollerHolds
  <2> QED
    BY <2>1, <2>2 DEF LockInv, OneOwner
<1>3. CASE \E w \in Workers : WorkerStep(w)
  BY <1>3, WorkerLock
<1>4. CASE PollerStep
  BY <1>4, PollerLock
<1>5. CASE Crash
  BY <1>5 DEF Crash, LockInv, OneOwner, Holds, PollerHolds, Critical
<1>6. CASE UNCHANGED vars
  BY <1>6, LockUndisturbed DEF vars, Holds, PollerHolds
<1> QED
  BY <1>1, <1>2, <1>3, <1>4, <1>5, <1>6 DEF Next

\* At most one worker is ever between AcquireLock and ReleaseLock of a task,
\* for any number of tasks, workers, crashes and failed calls, as long as no
\* worker waits longer for a provider slot than its lock lives.
THEOREM OneOwnerCorrect ==
  ASSUME ~SlowCalls
  PROVE  Spec => []OneOwner
<1>1. Init => LockInv
  BY DEF Init, LockInv, OneOwner, Holds, PollerHolds, Critical
<1>2. TypeOK /\ LockInv /\ [Next]_vars => LockInv'
  BY LockStep
<1>3. LockInv => OneOwner
  BY DEF LockInv
<1> QED
  BY <1>1, <1>2, <1>3, TypeCorrect, PTL DEF Spec

-----------------------------------------------------------------------------
(* The provider semaphore.                                                 *)

\* The channel of every hypervisor holds exactly one token per worker between
\* provSem.Acquire and its deferred release.
SlotInv ==
  \A h \in Hypervisors :
    sem[h] = Cardinality(SlotHolders(h)) /\ sem[h] <= MaxSlots

\* The workers that hold a slot are finitely many.
LEMMA SlotHoldersFinite == \A h : IsFiniteSet(SlotHolders(h))
BY WorkersAssumption, FS_Subset DEF SlotHolders

\* A worker's step preserves the accounting: on every path out of processTask
\* the slot goes back once.
LEMMA WorkerSlot ==
  ASSUME TypeOK, SlotInv, NEW w \in Workers, WorkerStep(w)
  PROVE  SlotInv'
<1> USE DEF worker, poller, requests, history, durable
<1>t. pc \in [Workers -> WorkerPC] /\ job \in [Workers -> Tasks \cup {NoTask}]
  BY DEF TypeOK
<1>1. CASE AcquireSlot(w)
  <2>h. PICK h : h = HypervisorOf[job[w]]
    OBVIOUS
  <2>1. /\ pc[w] = "waitSlot" /\ pc' = [pc EXCEPT ![w] = "exec"] /\ job' = job
        /\ job[w] \in Tasks
    BY <1>1 DEF AcquireSlot, Goto, TypeOK
  <2>2. \A g \in Hypervisors \ {h} : SlotHolders(g)' = SlotHolders(g)
    BY <2>h, <2>1, <1>t DEF SlotHolders, Slotted
  <2>3. CASE h = NoHypervisor /\ UNCHANGED sem
    BY <2>2, <2>3, HypervisorAssumption DEF SlotInv
  <2>4. CASE h \in Hypervisors /\ TakeSlot(h)
    <3>1. SlotHolders(h)' = SlotHolders(h) \cup {w} /\ w \notin SlotHolders(h)
      BY <2>h, <2>1, <2>4, <1>t DEF SlotHolders, Slotted
    <3>2. Cardinality(SlotHolders(h)') = Cardinality(SlotHolders(h)) + 1
      BY <3>1, SlotHoldersFinite, FS_AddElement
    <3>3. sem[h] < MaxSlots /\ sem' = [sem EXCEPT ![h] = @ + 1]
      BY <2>4 DEF TakeSlot
    <3>4. sem'[h] = Cardinality(SlotHolders(h)') /\ sem'[h] <= MaxSlots
      <4>1. sem[h] = Cardinality(SlotHolders(h)) /\ sem[h] \in Int
        BY <2>4 DEF SlotInv, TypeOK
      <4>2. sem'[h] = sem[h] + 1
        BY <2>4, <3>3 DEF TypeOK
      <4> QED
        BY <4>1, <4>2, <3>2, <3>3, SlotAssumption
    <3>5. \A g \in Hypervisors \ {h} : sem'[g] = sem[g]
      BY <3>3 DEF TypeOK
    <3> QED
      BY <2>2, <3>4, <3>5 DEF SlotInv
  <2> QED
    BY <1>1, <2>h, <2>3, <2>4 DEF AcquireSlot
<1>2. CASE ReleaseSlot(w)
  <2>h. PICK h : h = HypervisorOf[job[w]]
    OBVIOUS
  <2>1. /\ pc[w] = "release" /\ pc' = [pc EXCEPT ![w] = "unlock"] /\ job' = job
        /\ job[w] \in Tasks
    BY <1>2 DEF ReleaseSlot, Goto, TypeOK
  <2>2. \A g \in Hypervisors \ {h} : SlotHolders(g)' = SlotHolders(g)
    BY <2>h, <2>1, <1>t DEF SlotHolders, Slotted
  <2>3. CASE h = NoHypervisor
    <3>1. UNCHANGED sem
      BY <1>2, <2>h, <2>3 DEF ReleaseSlot
    <3> QED
      BY <2>2, <2>3, <3>1, HypervisorAssumption DEF SlotInv
  <2>4. CASE h # NoHypervisor
    <3>1. h \in Hypervisors /\ sem' = [sem EXCEPT ![h] = @ - 1]
      BY <1>2, <2>h, <2>1, <2>4, HypervisorAssumption DEF ReleaseSlot
    <3>2. SlotHolders(h)' = SlotHolders(h) \ {w} /\ w \in SlotHolders(h)
      BY <2>h, <2>1, <1>t DEF SlotHolders, Slotted
    <3>3. Cardinality(SlotHolders(h)') = Cardinality(SlotHolders(h)) - 1
      BY <3>2, SlotHoldersFinite, FS_RemoveElement
    <3>4. sem'[h] = Cardinality(SlotHolders(h)') /\ sem'[h] <= MaxSlots
      <4>1. /\ sem[h] = Cardinality(SlotHolders(h)) /\ sem[h] \in Int
            /\ sem[h] <= MaxSlots
        BY <3>1 DEF SlotInv, TypeOK
      <4>2. sem'[h] = sem[h] - 1
        BY <3>1 DEF TypeOK
      <4> QED
        BY <4>1, <4>2, <3>3, SlotAssumption
    <3>5. \A g \in Hypervisors \ {h} : sem'[g] = sem[g]
      BY <3>1 DEF TypeOK
    <3> QED
      BY <2>2, <3>4, <3>5 DEF SlotInv
  <2> QED
    BY <2>3, <2>4
<1>3. CASE \/ Dequeue(w) \/ AcquireLock(w) \/ DropTask(w) \/ LoadTask(w)
           \/ LoadFailed(w) \/ ReleaseLock(w)
  <2>1. /\ pc[w] \notin Slotted
        /\ \E l : l \notin Slotted /\ Goto(w, l)
        /\ \A v \in Workers \ {w} : job'[v] = job[v]
        /\ UNCHANGED sem
    BY <1>3, <1>t DEF Dequeue, AcquireLock, DropTask, LoadTask, LoadFailed,
                      ReleaseLock, Slotted
  <2>2. \A h \in Hypervisors : SlotHolders(h)' = SlotHolders(h)
    BY <2>1, <1>t DEF SlotHolders, Goto
  <2> QED
    BY <2>1, <2>2 DEF SlotInv
<1>4. CASE NoHandler(w) \/ Checkpoint(w) \/ HandlerReturn(w) \/ Finish(w)
  <2>1. /\ pc[w] \in Slotted
        /\ \E l \in Slotted : Goto(w, l)
        /\ UNCHANGED <<job, sem>>
    BY <1>4 DEF NoHandler, Checkpoint, HandlerReturn, Finish, Slotted
  <2>2. \A h \in Hypervisors : SlotHolders(h)' = SlotHolders(h)
    BY <2>1, <1>t DEF SlotHolders, Goto
  <2> QED
    BY <2>1, <2>2 DEF SlotInv
<1> QED
  BY <1>1, <1>2, <1>3, <1>4 DEF WorkerStep

\* The accounting is inductive.
LEMMA SlotStep == TypeOK /\ SlotInv /\ [Next]_vars => SlotInv'
<1> SUFFICES ASSUME TypeOK, SlotInv, [Next]_vars PROVE SlotInv'
  OBVIOUS
<1> USE DEF worker, poller, requests, history, durable
<1>1. CASE UNCHANGED <<pc, job, sem>>
  BY <1>1 DEF SlotInv, SlotHolders
<1>2. CASE \E w \in Workers : WorkerStep(w)
  BY <1>2, WorkerSlot
<1>3. CASE Crash
  <2>1. \A h \in Hypervisors : SlotHolders(h)' = {} /\ sem'[h] = 0
    BY <1>3 DEF Crash, SlotHolders, Slotted
  <2> QED
    BY <2>1, FS_EmptySet, SlotAssumption DEF SlotInv
<1>4. CASE PollerStep
  BY <1>1, <1>4 DEF PollerStep, PollList, PollAcquire, PollRelease, PollPush,
                    PollMark, PollEnd
<1>5. ASSUME NEW t \in Tasks,
             RequestStep(t) \/ CancelStep(t) \/ TimerFire(t) \/ LockExpire(t)
      PROVE  SlotInv'
  BY <1>1, <1>5 DEF RequestStep, CancelStep, Create, EnqueuePush,
     EnqueueRejected, EnqueueMark, CancelRead, CancelSignal, CancelMark,
     TimerFire, LockExpire
<1>6. CASE UNCHANGED vars
  BY <1>1, <1>6 DEF vars
<1> QED
  BY <1>2, <1>3, <1>4, <1>5, <1>6 DEF Next

\* At most MaxSlots workers ever execute against one hypervisor, for any
\* worker count and any mix of tasks, errors and crashes.
THEOREM ProviderConcurrencyCorrect == Spec => []ProviderConcurrency
<1>1. Init => SlotInv
  <2> SUFFICES ASSUME Init, NEW h \in Hypervisors
               PROVE  sem[h] = Cardinality(SlotHolders(h)) /\ sem[h] <= MaxSlots
    BY DEF SlotInv
  <2>1. SlotHolders(h) = {} /\ sem[h] = 0
    BY DEF Init, SlotHolders, Slotted
  <2> QED
    BY <2>1, FS_EmptySet, SlotAssumption
<1>2. TypeOK /\ SlotInv /\ [Next]_vars => SlotInv'
  BY SlotStep
<1>3. SlotInv => ProviderConcurrency
  BY DEF SlotInv, ProviderConcurrency
<1> QED
  BY <1>1, <1>2, <1>3, TypeCorrect, PTL DEF Spec

-----------------------------------------------------------------------------
(* What a run without crashes and failed calls leaves behind.              *)

\* LockHasHolder is inductive: only AcquireLock and the poller's probe set a
\* key, and every way out of them deletes it.
LEMMA HolderStep == TypeOK /\ LockHasHolder /\ [Next]_vars => LockHasHolder'
<1> SUFFICES ASSUME TypeOK, LockHasHolder, [Next]_vars,
                    crashes' = 0, faults' = 0, NEW t \in Tasks, locked'[t]
             PROVE  (PollerHolds(t) \/ \E w \in Workers : Holds(w, t))'
  BY DEF LockHasHolder
<1> USE DEF worker, poller, requests, history, durable
<1>t. /\ pc \in [Workers -> WorkerPC] /\ job \in [Workers -> Tasks \cup {NoTask}]
      /\ locked \in [Tasks -> BOOLEAN] /\ crashes \in Nat /\ faults \in Nat
  BY DEF TypeOK
<1>1. CASE UNCHANGED <<pc, job, pollPC, pollTask, crashes>>
           /\ (locked'[t] => locked[t]) /\ faults = 0
  BY <1>1 DEF LockHasHolder, Holds, PollerHolds
<1>2. ASSUME NEW u \in Tasks,
             RequestStep(u) \/ CancelStep(u) \/ TimerFire(u) \/ LockExpire(u)
      PROVE  (PollerHolds(t) \/ \E w \in Workers : Holds(w, t))'
  <2>1. /\ UNCHANGED <<pc, job, pollPC, pollTask, crashes>>
        /\ faults = 0
    BY <1>2, <1>t DEF RequestStep, CancelStep, Create, EnqueuePush,
       EnqueueRejected, EnqueueMark, CancelRead, CancelSignal, CancelMark,
       TimerFire, LockExpire, TryStatus, Fault
  <2>2. locked' = locked \/ locked' = [locked EXCEPT ![u] = FALSE]
    BY <1>2 DEF RequestStep, CancelStep, Create, EnqueuePush, EnqueueRejected,
       EnqueueMark, CancelRead, CancelSignal, CancelMark, TimerFire, LockExpire
  <2>3. locked'[t] => locked[t]
    BY <2>2, <1>t
  <2> QED
    BY <1>1, <2>1, <2>3
<1>3. ASSUME NEW w \in Workers, WorkerStep(w)
      PROVE  (PollerHolds(t) \/ \E v \in Workers : Holds(v, t))'
  <2>1. /\ UNCHANGED <<pollPC, pollTask, crashes>> /\ faults = 0
        /\ \A v \in Workers \ {w} : pc'[v] = pc[v] /\ job'[v] = job[v]
    BY <1>3, <1>t DEF WorkerStep, Dequeue, AcquireLock, DropTask, LoadTask,
       LoadFailed, AcquireSlot, NoHandler, Checkpoint, HandlerReturn, Finish,
       ReleaseSlot, ReleaseLock, TryStatus, Fault, Goto
  <2>2. CASE AcquireLock(w)
    <3>1. /\ locked' = [locked EXCEPT ![job[w]] = TRUE]
          /\ pc'[w] = "locked" /\ job' = job
      BY <2>2, <1>t DEF AcquireLock, Goto
    <3>2. CASE t = job[w]
      BY <3>1, <3>2 DEF Holds, Critical
    <3>3. CASE t # job[w]
      <4>1. locked[t]
        BY <3>1, <3>3, <1>t
      <4>2. PollerHolds(t) \/ \E v \in Workers : Holds(v, t)
        BY <2>1, <4>1 DEF LockHasHolder
      <4> QED
        BY <2>1, <3>3, <4>2 DEF Holds, PollerHolds
    <3> QED
      BY <3>2, <3>3
  <2>3. CASE ReleaseLock(w)
    <3>1. locked' = [locked EXCEPT ![job[w]] = FALSE]
      BY <2>1, <2>3, <1>t DEF ReleaseLock, Fault
    <3>2. t # job[w] /\ locked[t]
      BY <3>1, <1>t
    <3>3. PollerHolds(t) \/ \E v \in Workers : Holds(v, t)
      BY <2>1, <3>2 DEF LockHasHolder
    <3> QED
      BY <2>1, <3>2, <3>3 DEF Holds, PollerHolds
  <2>4. CASE Dequeue(w) \/ DropTask(w)
    <3>1. locked' = locked /\ pc[w] \notin Critical
      BY <2>4 DEF Dequeue, DropTask, Critical
    <3>2. PollerHolds(t) \/ \E v \in Workers : Holds(v, t)
      BY <2>1, <3>1 DEF LockHasHolder
    <3> QED
      BY <2>1, <3>1, <3>2 DEF Holds, PollerHolds
  <2>5. CASE \/ LoadTask(w) \/ LoadFailed(w) \/ AcquireSlot(w) \/ NoHandler(w)
             \/ Checkpoint(w) \/ HandlerReturn(w) \/ Finish(w) \/ ReleaseSlot(w)
    <3>1. /\ \E l \in Critical : Goto(w, l)
          /\ UNCHANGED <<locked, job>>
      BY <2>5 DEF LoadTask, LoadFailed, AcquireSlot, NoHandler, Checkpoint,
                  HandlerReturn, Finish, ReleaseSlot, Critical
    <3>2. PollerHolds(t) \/ \E v \in Workers : Holds(v, t)
      BY <2>1, <3>1 DEF LockHasHolder
    <3> QED
      BY <2>1, <3>1, <3>2, <1>t DEF Goto, Holds, PollerHolds
  <2> QED
    BY <1>3, <2>2, <2>3, <2>4, <2>5 DEF WorkerStep
<1>4. CASE PollAcquire
  <2>1. UNCHANGED <<pc, job, crashes>> /\ faults = 0
    BY <1>4, <1>t DEF PollAcquire, Fault
  <2>2. pollPC # "held"
    BY <1>4 DEF PollAcquire
  <2>3. PICK u \in pollSet :
          \/ /\ locked' = [locked EXCEPT ![u] = TRUE]
             /\ pollTask' = u /\ pollPC' = "held"
          \/ UNCHANGED <<locked, pollTask, pollPC>>
    BY <1>4 DEF PollAcquire
  <2>4. (pollTask' = t /\ pollPC' = "held") \/ locked[t]
    BY <2>3, <1>t
  <2> QED
    BY <2>1, <2>2, <2>4 DEF LockHasHolder, Holds, PollerHolds
<1>5. CASE PollRelease
  <2>1. UNCHANGED <<pc, job, crashes>> /\ faults = 0
    BY <1>5, <1>t DEF PollRelease, Fault
  <2>2. locked' = [locked EXCEPT ![pollTask] = FALSE]
    BY <1>5, <2>1, <1>t DEF PollRelease, Fault
  <2>3. pollTask # t /\ locked[t]
    BY <2>2, <1>t
  <2> QED
    BY <2>1, <2>3 DEF LockHasHolder, Holds, PollerHolds
<1>6. CASE PollList \/ PollPush \/ PollMark \/ PollEnd
  <2>1. /\ UNCHANGED <<pc, job, locked, crashes>> /\ faults = 0
        /\ pollPC # "held"
    BY <1>6, <1>t DEF PollList, PollPush, PollMark, PollEnd, TryStatus, Fault
  <2> QED
    BY <2>1 DEF LockHasHolder, Holds, PollerHolds
<1>7. CASE Crash
  BY <1>7, <1>t DEF Crash
<1>8. CASE UNCHANGED vars
  BY <1>1, <1>8 DEF vars
<1> QED
  BY <1>2, <1>3, <1>4, <1>5, <1>6, <1>7, <1>8 DEF Next, PollerStep

\* No lock key is left behind by a run without crashes and failed calls.
THEOREM LockHasHolderCorrect == Spec => []LockHasHolder
<1>1. Init => LockHasHolder
  BY DEF Init, LockHasHolder
<1> QED
  BY <1>1, HolderStep, TypeCorrect, PTL DEF Spec

\* RunningHasWorker is inductive: only AcquireSlot writes "running", and the
\* worker that wrote it overwrites it before it leaves the handler.
LEMMA RunningStep == TypeOK /\ RunningHasWorker /\ [Next]_vars => RunningHasWorker'
<1> DEFINE Executing == {"exec", "op", "finish"}
<1> SUFFICES ASSUME TypeOK, RunningHasWorker, [Next]_vars,
                    crashes' = 0, faults' = 0, NEW t \in Tasks,
                    status'[t] = "running"
             PROVE  \E w \in Workers : job'[w] = t /\ pc'[w] \in Executing
  BY DEF RunningHasWorker
<1> USE DEF worker, poller, requests, history, durable
<1>t. /\ pc \in [Workers -> WorkerPC] /\ job \in [Workers -> Tasks \cup {NoTask}]
      /\ status \in [Tasks -> TaskStatus \cup {"none"}]
      /\ crashes \in Nat /\ faults \in Nat
  BY DEF TypeOK
<1>1. ASSUME UNCHANGED <<pc, job, crashes>>, faults = 0, status[t] = "running"
      PROVE  \E w \in Workers : job'[w] = t /\ pc'[w] \in Executing
  BY <1>1 DEF RunningHasWorker
<1>2. ASSUME NEW u \in Tasks,
             RequestStep(u) \/ CancelStep(u) \/ TimerFire(u) \/ LockExpire(u)
      PROVE  \E w \in Workers : job'[w] = t /\ pc'[w] \in Executing
  <2>1. UNCHANGED <<pc, job, crashes>> /\ faults = 0
    BY <1>2, <1>t DEF RequestStep, CancelStep, Create, EnqueuePush,
       EnqueueRejected, EnqueueMark, CancelRead, CancelSignal, CancelMark,
       TimerFire, LockExpire, TryStatus, Fault
  <2>2. status' = status \/ \E s \in {"pending", "queued", "cancelled"} :
                                status' = [status EXCEPT ![u] = s]
    BY <1>2 DEF RequestStep, CancelStep, Create, EnqueuePush, EnqueueRejected,
       EnqueueMark, CancelRead, CancelSignal, CancelMark, TimerFire, LockExpire,
       TryStatus, UpdateStatus
  <2>3. status[t] = "running"
    BY <2>2, <1>t
  <2> QED
    BY <1>1, <2>1, <2>3
<1>3. ASSUME NEW w \in Workers, WorkerStep(w)
      PROVE  \E v \in Workers : job'[v] = t /\ pc'[v] \in Executing
  <2>1. /\ crashes = 0 /\ faults = 0
        /\ \A v \in Workers \ {w} : pc'[v] = pc[v] /\ job'[v] = job[v]
    BY <1>3, <1>t DEF WorkerStep, Dequeue, AcquireLock, DropTask, LoadTask,
       LoadFailed, AcquireSlot, NoHandler, Checkpoint, HandlerReturn, Finish,
       ReleaseSlot, ReleaseLock, TryStatus, Fault, Goto
  <2>2. status[t] = "running" =>
          \E v \in Workers : job[v] = t /\ pc[v] \in Executing
    BY <2>1 DEF RunningHasWorker
  <2>3. CASE AcquireSlot(w)
    <3>1. pc'[w] = "exec" /\ job' = job /\ pc[w] = "waitSlot"
      BY <2>3, <1>t DEF AcquireSlot, Goto
    <3>2. t # job[w] => status[t] = "running"
      BY <2>3, <1>t DEF AcquireSlot, TryStatus, UpdateStatus
    <3> QED
      BY <2>1, <2>2, <3>1, <3>2
  <2>4. CASE NoHandler(w) \/ Finish(w)
    <3>1. \E s \in {"completed", "failed", "cancelled", "retrying"} :
             status' = [status EXCEPT ![job[w]] = s]
      BY <2>1, <2>4, <1>t DEF NoHandler, Finish, TryStatus, UpdateStatus, Fault
    <3>2. t # job[w] /\ status[t] = "running"
      BY <3>1, <1>t
    <3> QED
      BY <2>1, <2>2, <3>2
  <2>5. CASE Checkpoint(w) \/ HandlerReturn(w)
    <3>1. pc'[w] \in Executing /\ job' = job /\ status' = status
      BY <2>5, <1>t DEF Checkpoint, HandlerReturn, Goto
    <3> QED
      BY <2>1, <2>2, <3>1
  <2>6. CASE \/ Dequeue(w) \/ AcquireLock(w) \/ DropTask(w) \/ LoadTask(w)
             \/ LoadFailed(w) \/ ReleaseSlot(w) \/ ReleaseLock(w)
    <3>1. pc[w] \notin Executing
      BY <2>6 DEF Dequeue, AcquireLock, DropTask, LoadTask, LoadFailed,
                  ReleaseSlot, ReleaseLock
    <3>2. status' = status \/ status' = [status EXCEPT ![job[w]] = "cancelled"]
      BY <2>6 DEF Dequeue, AcquireLock, DropTask, LoadTask, LoadFailed,
                  ReleaseSlot, ReleaseLock, TryStatus, UpdateStatus
    <3>3. status[t] = "running"
      BY <3>2, <1>t
    <3> QED
      BY <2>1, <2>2, <3>1, <3>3
  <2> QED
    BY <1>3, <2>3, <2>4, <2>5, <2>6 DEF WorkerStep
<1>4. CASE PollerStep
  <2>1. UNCHANGED <<pc, job, crashes>> /\ faults = 0
    BY <1>4, <1>t DEF PollerStep, PollList, PollAcquire, PollRelease, PollPush,
                      PollMark, PollEnd, TryStatus, Fault
  <2>2. status' = status \/ status' = [status EXCEPT ![pollTask] = "queued"]
    BY <1>4 DEF PollerStep, PollList, PollAcquire, PollRelease, PollPush,
                PollMark, PollEnd, TryStatus, UpdateStatus
  <2>3. status[t] = "running"
    BY <2>2, <1>t
  <2> QED
    BY <1>1, <2>1, <2>3
<1>5. CASE Crash
  BY <1>5, <1>t DEF Crash
<1>6. CASE UNCHANGED vars
  BY <1>1, <1>6 DEF vars
<1> QED
  BY <1>2, <1>3, <1>4, <1>5, <1>6 DEF Next

\* A row says "running" only while a worker executes it, in every run without
\* crashes and failed calls.
THEOREM RunningHasWorkerCorrect == Spec => []RunningHasWorker
<1>1. Init => RunningHasWorker
  BY DEF Init, RunningHasWorker
<1> QED
  BY <1>1, RunningStep, TypeCorrect, PTL DEF Spec

-----------------------------------------------------------------------------
(* A task that waits for its retry, provided the backoff outlasts the      *)
(* deferred releases.                                                      *)

\* RetryNotLost is not inductive by itself: a worker that leaves processTask
\* gives up the last trace of its task unless the timer it armed is still
\* there.
RetryInv ==
  crashes = 0 /\ faults = 0 =>
    \A t \in Tasks : status[t] = "retrying" =>
      /\ InFlight(t)
      /\ \A w \in Workers :
           job[w] = t /\ pc[w] \in {"release", "unlock"} => timers[t] > 0

\* LPUSH puts its task on a list and loses no other copy.
LEMMA PushKeeps ==
  ASSUME queue \in [1..MaxPriority -> Seq(Tasks)],
         NEW u \in Tasks, NEW p \in Int, Push(u, p)
  PROVE  InQueue(u)' /\ \A t : InQueue(t) => InQueue(t)'
<1> DEFINE c == Clamp(p)
<1>1. c \in 1..MaxPriority
  BY ClampInRange
<1>2. queue' = [queue EXCEPT ![c] = Append(queue[c], u)]
  BY DEF Push
<1> HIDE DEF c
<1>3. queue[c] \in Seq(Tasks)
  BY <1>1
<1>4. /\ Len(queue'[c]) = Len(queue[c]) + 1
      /\ queue'[c][Len(queue[c]) + 1] = u
      /\ \A i \in 1..Len(queue[c]) : queue'[c][i] = queue[c][i]
  BY <1>1, <1>2, <1>3
<1>5. Len(queue[c]) \in Nat
  BY <1>3
<1>6. u \in Elements(queue'[c])
  BY <1>4, <1>5 DEF Elements
<1>7. \A q \in 1..MaxPriority : \A t : t \in Elements(queue[q]) => t \in Elements(queue'[q])
  <2> SUFFICES ASSUME NEW q \in 1..MaxPriority, NEW i \in 1..Len(queue[q])
               PROVE  queue[q][i] \in Elements(queue'[q])
    BY DEF Elements
  <2>1. CASE q = c
    BY <2>1, <1>4, <1>5 DEF Elements
  <2>2. CASE q # c
    BY <2>2, <1>2 DEF Elements
  <2> QED
    BY <2>1, <2>2
<1> QED
  BY <1>1, <1>6, <1>7 DEF InQueue

\* BRPOP takes off one copy, which the caller then carries.
LEMMA PopKeeps ==
  ASSUME queue \in [1..MaxPriority -> Seq(Tasks)],
         NEW p \in 1..MaxPriority, queue[p] # << >>,
         queue' = [queue EXCEPT ![p] = Tail(@)]
  PROVE  \A t : InQueue(t) => InQueue(t)' \/ t = Head(queue[p])
<1> SUFFICES ASSUME NEW t, NEW q \in 1..MaxPriority, NEW i \in 1..Len(queue[q]),
                    t = queue[q][i]
             PROVE  InQueue(t)' \/ t = Head(queue[p])
  BY DEF InQueue, Elements
<1>1. queue[p] \in Seq(Tasks) /\ queue'[p] = Tail(queue[p])
  OBVIOUS
<1>2. CASE q # p
  <2>1. queue'[q] = queue[q]
    BY <1>2
  <2> QED
    BY <2>1 DEF InQueue, Elements
<1>3. CASE q = p /\ i = 1
  BY <1>1, <1>3
<1>4. CASE q = p /\ i # 1
  <2>1. i - 1 \in 1..Len(Tail(queue[p])) /\ Tail(queue[p])[i - 1] = t
    BY <1>1, <1>4
  <2>2. t \in Elements(queue'[p])
    BY <1>1, <2>1 DEF Elements
  <2> QED
    BY <2>2 DEF InQueue
<1> QED
  BY <1>2, <1>3, <1>4

\* A step that keeps the workers, the timers and the copies of a retrying
\* task.
LEMMA RetryUndisturbed ==
  ASSUME RetryInv, UNCHANGED <<pc, job, timers, crashes>>, faults = 0,
         \A t \in Tasks : status'[t] = "retrying" => status[t] = "retrying",
         \A t \in Tasks : InQueue(t) => InQueue(t)',
         \A t \in Tasks : pollTask = t /\ pollPC \in {"held", "released"} =>
                            InFlight(t)'
  PROVE  RetryInv'
<1> SUFFICES ASSUME crashes' = 0, NEW t \in Tasks, status'[t] = "retrying"
             PROVE  /\ InFlight(t)'
                    /\ \A w \in Workers :
                         job'[w] = t /\ pc'[w] \in {"release", "unlock"} => timers'[t] > 0
  BY DEF RetryInv
<1>1. /\ InFlight(t)
      /\ \A w \in Workers :
           job[w] = t /\ pc[w] \in {"release", "unlock"} => timers[t] > 0
  BY DEF RetryInv
<1>2. InFlight(t)'
  BY <1>1 DEF InFlight
<1> QED
  BY <1>1, <1>2


\* A worker's step preserves it: a copy is dropped only while another process
\* holds the lock of the task, and a worker ends with its timer armed.
LEMMA WorkerRetry ==
  ASSUME TypeOK, LockHasHolder, RetryInv,
         NEW w \in Workers, WorkerStep(w), crashes' = 0, faults' = 0
  PROVE  RetryInv'
<1> DEFINE Armed(t) == \A v \in Workers :
             job[v] = t /\ pc[v] \in {"release", "unlock"} => timers[t] > 0
<1> SUFFICES ASSUME NEW t \in Tasks, status'[t] = "retrying"
             PROVE  InFlight(t)' /\ Armed(t)'
  BY DEF RetryInv
<1> USE DEF worker, poller, requests, history, durable
<1>t. /\ pc \in [Workers -> WorkerPC] /\ job \in [Workers -> Tasks \cup {NoTask}]
      /\ status \in [Tasks -> TaskStatus \cup {"none"}]
      /\ timers \in [Tasks -> Nat] /\ locked \in [Tasks -> BOOLEAN]
      /\ crashes \in Nat /\ faults \in Nat
  BY DEF TypeOK
<1>w. /\ UNCHANGED <<pollPC, pollTask, crashes>> /\ faults = 0
      /\ \A v \in Workers \ {w} : pc'[v] = pc[v] /\ job'[v] = job[v]
  BY <1>t DEF WorkerStep, Dequeue, AcquireLock, DropTask, LoadTask, LoadFailed,
     AcquireSlot, NoHandler, Checkpoint, HandlerReturn, Finish, ReleaseSlot,
     ReleaseLock, TryStatus, Fault, Goto
<1>r. status[t] = "retrying" => InFlight(t) /\ Armed(t)
  BY <1>w DEF RetryInv
<1>1. CASE Dequeue(w)
  <2>1. PICK p \in 1..MaxPriority :
          /\ queue[p] # << >>
          /\ job' = [job EXCEPT ![w] = Head(queue[p])]
          /\ queue' = [queue EXCEPT ![p] = Tail(@)]
    BY <1>1 DEF Dequeue
  <2>2. /\ pc[w] = "idle" /\ pc'[w] = "popped"
        /\ UNCHANGED <<status, timers>>
    BY <1>1, <1>t DEF Dequeue, Goto
  <2>3. InQueue(t) => InQueue(t)' \/ t = job'[w]
    BY <2>1, <1>t, PopKeeps DEF TypeOK
  <2>4. (\E v \in Workers : job[v] = t) => InFlight(t)'
    <3> SUFFICES ASSUME NEW v \in Workers, job[v] = t PROVE InFlight(t)'
      OBVIOUS
    <3>1. v # w
      BY <2>2, TasksAssumption DEF TypeOK
    <3> QED
      BY <3>1, <1>w DEF InFlight
  <2>5. Armed(t)'
    BY <1>r, <1>w, <2>2
  <2> QED
    BY <1>r, <1>w, <2>2, <2>3, <2>4, <2>5 DEF InFlight
<1>2. CASE DropTask(w)
  <2>1. /\ pc[w] = "popped" /\ pc'[w] = "idle" /\ locked[job[w]]
        /\ job[w] \in Tasks /\ job'[w] = NoTask
        /\ UNCHANGED <<status, timers, queue>>
    BY <1>2, <1>w, <1>t DEF DropTask, Goto, Fault, TypeOK
  <2>2. Armed(t)'
    BY <1>r, <1>w, <2>1
  <2>3. CASE t # job[w]
    BY <1>r, <1>w, <2>1, <2>3 DEF InFlight, InQueue
  <2>4. CASE t = job[w]
    <3>1. PollerHolds(t) \/ \E v \in Workers : Holds(v, t)
      BY <1>w, <2>1, <2>4 DEF LockHasHolder
    <3>2. \A v \in Workers : Holds(v, t) => v # w
      BY <2>1 DEF Holds, Critical
    <3> QED
      BY <1>w, <2>2, <3>1, <3>2 DEF InFlight, Holds, PollerHolds
  <2> QED
    BY <2>2, <2>3, <2>4
<1>3. CASE ReleaseLock(w)
  <2>1. /\ pc[w] = "unlock" /\ pc'[w] = "idle" /\ job'[w] = NoTask
        /\ UNCHANGED <<status, timers, queue>>
    BY <1>3, <1>t DEF ReleaseLock, Goto
  <2>2. Armed(t)'
    BY <1>r, <1>w, <2>1
  <2>3. CASE t # job[w]
    BY <1>r, <1>w, <2>1, <2>2, <2>3 DEF InFlight, InQueue
  <2>4. CASE t = job[w]
    <3>1. timers[t] > 0
      BY <1>r, <2>1, <2>4
    <3> QED
      BY <2>1, <2>2, <3>1 DEF InFlight
  <2> QED
    BY <2>3, <2>4
<1>4. CASE Finish(w)
  <2>1. /\ pc[w] = "finish" /\ pc'[w] = "release" /\ job[w] \in Tasks
        /\ UNCHANGED <<job, queue>>
    BY <1>4, <1>t DEF Finish, Goto, TypeOK
  <2>2. CASE t # job[w]
    <3>1. status'[t] = status[t] /\ timers'[t] = timers[t]
      BY <1>4, <2>2, <1>t DEF Finish, TryStatus, UpdateStatus
    <3> QED
      BY <1>r, <1>w, <2>1, <2>2, <3>1 DEF InFlight, InQueue
  <2>3. CASE t = job[w]
    <3>1. timers' = [timers EXCEPT ![t] = @ + 1]
      <4>1. PICK s \in {"completed", "cancelled", "retrying", "failed"} :
              /\ status' = [status EXCEPT ![t] = s]
              /\ s = "retrying" => timers' = [timers EXCEPT ![t] = @ + 1]
        BY <1>4, <2>3, <1>w, <1>t DEF Finish, TryStatus, UpdateStatus, Fault
      <4> QED
        BY <4>1, <1>t
    <3>2. timers'[t] > 0
      BY <3>1, <1>t
    <3> QED
      BY <3>2 DEF InFlight
  <2> QED
    BY <2>2, <2>3
<1>5. CASE LoadTask(w) \/ NoHandler(w)
  <2>1. /\ UNCHANGED <<job, queue, timers>>
        /\ pc[w] \in {"locked", "exec"}
    BY <1>5 DEF LoadTask, NoHandler
  <2>2. \/ status' = status /\ pc'[w] = "waitSlot"
        \/ \E s \in {"cancelled", "failed"} : status' = [status EXCEPT ![job[w]] = s]
    BY <1>5, <1>w, <1>t DEF LoadTask, NoHandler, TryStatus, UpdateStatus, Fault, Goto
  <2>3. status[t] = "retrying"
    BY <2>2, <1>t
  <2>4. pc'[w] = "waitSlot" \/ t # job[w]
    BY <2>2, <1>t
  <2>5. InFlight(t)'
    BY <1>r, <1>w, <2>1, <2>3 DEF InFlight, InQueue
  <2>6. Armed(t)'
    BY <1>r, <1>w, <2>1, <2>3, <2>4
  <2> QED
    BY <2>5, <2>6
<1>6. CASE \/ AcquireLock(w) \/ LoadFailed(w) \/ AcquireSlot(w) \/ Checkpoint(w)
           \/ HandlerReturn(w) \/ ReleaseSlot(w)
  <2>1. /\ UNCHANGED <<job, queue, timers>>
        /\ pc'[w] \in {"release", "unlock"} => pc[w] \in {"release", "unlock"}
    BY <1>6, <1>w, <1>t DEF AcquireLock, LoadFailed, AcquireSlot, Checkpoint,
       HandlerReturn, ReleaseSlot, Fault, Goto
  <2>2. status' = status \/ status' = [status EXCEPT ![job[w]] = "running"]
    BY <1>6 DEF AcquireLock, LoadFailed, AcquireSlot, Checkpoint, HandlerReturn,
       ReleaseSlot, TryStatus, UpdateStatus
  <2>3. status[t] = "retrying"
    BY <2>2, <1>t
  <2>4. InFlight(t)'
    BY <1>r, <1>w, <2>1, <2>3 DEF InFlight, InQueue
  <2>5. Armed(t)'
    BY <1>r, <1>w, <2>1, <2>3
  <2> QED
    BY <2>4, <2>5
<1> QED
  BY <1>1, <1>2, <1>3, <1>4, <1>5, <1>6 DEF WorkerStep


\* The retry invariant is inductive.
LEMMA RetryStep ==
  ASSUME ~SlowCalls
  PROVE  TypeOK /\ LockHasHolder /\ RetryInv /\ [Next]_vars => RetryInv'
<1> SUFFICES ASSUME TypeOK, LockHasHolder, RetryInv, [Next]_vars,
                    crashes' = 0, faults' = 0
             PROVE  RetryInv'
  BY DEF RetryInv
<1> USE DEF worker, poller, requests, history, durable
<1>t. /\ queue \in [1..MaxPriority -> Seq(Tasks)] /\ timers \in [Tasks -> Nat]
      /\ status \in [Tasks -> TaskStatus \cup {"none"}]
      /\ Priority \in [Tasks -> Int] /\ ApiPriority \in [Tasks -> Int]
      /\ crashes \in Nat /\ faults \in Nat
  BY PriorityAssumption DEF TypeOK
<1>1. ASSUME NEW u \in Tasks, RequestStep(u) \/ CancelStep(u) \/ LockExpire(u)
      PROVE  RetryInv'
  <2>1. UNCHANGED <<pc, job, timers, pollPC, pollTask, crashes>> /\ faults = 0
    BY <1>1, <1>t DEF RequestStep, CancelStep, Create, EnqueuePush,
       EnqueueRejected, EnqueueMark, CancelRead, CancelSignal, CancelMark,
       LockExpire, TryStatus, Fault
  <2>2. status' = status \/ \E s \in {"pending", "queued", "cancelled"} :
                                status' = [status EXCEPT ![u] = s]
    BY <1>1 DEF RequestStep, CancelStep, Create, EnqueuePush, EnqueueRejected,
       EnqueueMark, CancelRead, CancelSignal, CancelMark, LockExpire,
       TryStatus, UpdateStatus
  <2>3. queue' = queue \/ Push(u, ApiPriority[u])
    BY <1>1 DEF RequestStep, CancelStep, Create, EnqueuePush, EnqueueRejected,
       EnqueueMark, CancelRead, CancelSignal, CancelMark, LockExpire
  <2>4. \A t \in Tasks : InQueue(t) => InQueue(t)'
    <3>1. CASE queue' = queue
      BY <3>1 DEF InQueue
    <3>2. CASE Push(u, ApiPriority[u])
      BY <3>2, <1>t, PushKeeps
    <3> QED
      BY <2>3, <3>1, <3>2
  <2>5. \A t \in Tasks : status'[t] = "retrying" => status[t] = "retrying"
    BY <2>2, <1>t
  <2>6. \A t \in Tasks : pollTask = t /\ pollPC \in {"held", "released"} => InFlight(t)'
    BY <2>1 DEF InFlight
  <2> QED
    BY <2>1, <2>4, <2>5, <2>6, RetryUndisturbed
<1>2. ASSUME NEW u \in Tasks, TimerFire(u) PROVE RetryInv'
  <2>1. /\ UNCHANGED <<status, pc, job, pollPC, pollTask, crashes>> /\ faults = 0
        /\ Push(u, Priority[u])
        /\ timers' = [timers EXCEPT ![u] = @ - 1]
        /\ \A w \in Workers : job[w] = u => pc[w] \notin {"release", "unlock"}
    BY <1>2, <1>t DEF TimerFire, Fault
  <2>2. InQueue(u)' /\ \A t : InQueue(t) => InQueue(t)'
    BY <2>1, <1>t, PushKeeps
  <2>3. \A t \in Tasks \ {u} : timers'[t] = timers[t]
    BY <2>1, <1>t
  <2> SUFFICES ASSUME NEW t \in Tasks, status[t] = "retrying"
               PROVE  /\ InFlight(t)'
                      /\ \A w \in Workers : job[w] = t /\ pc[w] \in {"release", "unlock"}
                                              => timers'[t] > 0
    BY <2>1 DEF RetryInv
  <2>4. /\ InFlight(t)
        /\ \A w \in Workers :
             job[w] = t /\ pc[w] \in {"release", "unlock"} => timers[t] > 0
    BY <2>1 DEF RetryInv
  <2>5. CASE t = u
    BY <2>1, <2>2, <2>5 DEF InFlight
  <2>6. CASE t # u
    BY <2>1, <2>2, <2>3, <2>4, <2>6 DEF InFlight
  <2> QED
    BY <2>5, <2>6
<1>3. ASSUME NEW w \in Workers, WorkerStep(w) PROVE RetryInv'
  BY <1>3, WorkerRetry
<1>4. CASE PollerStep
  <2>1. UNCHANGED <<pc, job, timers, crashes>> /\ faults = 0
    BY <1>4, <1>t DEF PollerStep, PollList, PollAcquire, PollRelease, PollPush,
                      PollMark, PollEnd, TryStatus, Fault
  <2>2. status' = status \/ status' = [status EXCEPT ![pollTask] = "queued"]
    BY <1>4 DEF PollerStep, PollList, PollAcquire, PollRelease, PollPush,
                PollMark, PollEnd, TryStatus, UpdateStatus
  <2>3. \A t \in Tasks : status'[t] = "retrying" => status[t] = "retrying"
    BY <2>2, <1>t
  <2>4. CASE PollPush
    <3>1. pollTask \in Tasks /\ Push(pollTask, Priority[pollTask])
      BY <2>1, <2>4, <1>t DEF PollPush, Fault, TypeOK
    <3>2. PICK u \in Tasks : u = pollTask
      BY <3>1
    <3>3. InQueue(u)' /\ \A t : InQueue(t) => InQueue(t)'
      BY <3>1, <3>2, <1>t, PushKeeps
    <3> QED
      BY <2>1, <2>3, <3>2, <3>3, RetryUndisturbed DEF InFlight
  <2>5. CASE PollList \/ PollAcquire \/ PollRelease \/ PollMark \/ PollEnd
    <3>1. /\ queue' = queue
          /\ pollPC \in {"held", "released"} =>
               pollTask' = pollTask /\ pollPC' = "released"
      BY <2>5 DEF PollList, PollAcquire, PollRelease, PollMark, PollEnd
    <3>2. \A t \in Tasks : InQueue(t) => InQueue(t)'
      BY <3>1 DEF InQueue
    <3>3. \A t \in Tasks : pollTask = t /\ pollPC \in {"held", "released"} => InFlight(t)'
      BY <3>1 DEF InFlight
    <3> QED
      BY <2>1, <2>3, <3>2, <3>3, RetryUndisturbed
  <2> QED
    BY <1>4, <2>4, <2>5 DEF PollerStep
<1>5. CASE Crash
  BY <1>5, <1>t DEF Crash
<1>6. CASE UNCHANGED vars
  <2>1. /\ UNCHANGED <<pc, job, timers, crashes, status, queue, pollPC, pollTask>>
        /\ faults = 0
    BY <1>6 DEF vars
  <2>2. \A t \in Tasks : InQueue(t) => InQueue(t)'
    BY <2>1 DEF InQueue
  <2>3. \A t \in Tasks : pollTask = t /\ pollPC \in {"held", "released"} => InFlight(t)'
    BY <2>1 DEF InFlight
  <2> QED
    BY <2>1, <2>2, <2>3, RetryUndisturbed
<1> QED
  BY <1>1, <1>2, <1>3, <1>4, <1>5, <1>6 DEF Next

\* A row that waits for its retry is never lost, for any number of tasks,
\* copies, workers and cancel requests, as long as no call fails, the server
\* does not crash, and a worker's deferred releases end before the backoff
\* (at least five seconds) of the timer it armed.
THEOREM RetryNotLostCorrect ==
  ASSUME ~SlowCalls
  PROVE  Spec => []RetryNotLost
<1>1. Init => RetryInv
  BY DEF Init, RetryInv
<1>2. TypeOK /\ LockHasHolder /\ RetryInv /\ [Next]_vars => RetryInv'
  BY RetryStep
<1>3. RetryInv => RetryNotLost
  BY DEF RetryInv, RetryNotLost
<1> QED
  BY <1>1, <1>2, <1>3, TypeCorrect, LockHasHolderCorrect, PTL DEF Spec

=============================================================================
