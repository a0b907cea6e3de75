------------------------- MODULE OrchestrationProofs -------------------------
(***************************************************************************)
(* Theorems about modules Environment, Orchestration and Provisioning, for *)
(* any number of VMs, dependencies, workers, parents, children, faults and *)
(* any order of their steps: a plan keeps the order of the dependencies, a *)
(* bulk parent waits for its children, the rows of an environment's run    *)
(* tell what happened, and a provisioning job tells what became of its     *)
(* task.                                                                   *)
(***************************************************************************)
EXTENDS Environment, Orchestration, Provisioning, Integers, FiniteSetTheorems, SequenceTheorems, TLAPS

----------------------------------------------------------------------------
(* Orchestration: types *)

Statuses     == {"none", "pending", "queued", "running", "retrying"} \cup Terminal
StepStatuses == {"pending", "running", "completed", "failed"}
RunStatuses  == {"gone", "pending", "running", "completed", "failed", "cancelled"}
RunRow       == [status : RunStatuses, done : Nat, failed : Nat]
Submitting   == [pc : {"none", "pushed", "done"}] \cup [pc : {"kids"}, todo : Seq(Leaves)]
BulkWork     == [pc : {"bulk", "push", "mark", "poll"}, expired : BOOLEAN, todo : Seq(Leaves), left : SUBSET Leaves]
EnvWork      == [pc : {"env", "step", "dispatch", "enqueue", "mark", "wait"}, expired : BOOLEAN, i : Nat, n : Nat,
                 done : Nat, failed : Nat]
LeafWork     == [pc : {"leaf"}]
Kind(t)      == IF t \in BulkParents THEN BulkWork ELSE IF t \in EnvParents THEN EnvWork ELSE LeafWork

\* The type of the variables of module Orchestration: what a worker does with a task is what its kind asks for.
PoolType == /\ scene \in Scenes
            /\ status \in [Tasks -> Statuses] /\ ended \in [Tasks -> {"no", "yes", "ok"}]
            /\ queue \in Seq(Tasks) /\ flag \subseteq Parents /\ timers \subseteq Tasks
            /\ wk \in [Tasks -> {Free} \cup BulkWork \cup EnvWork \cup LeafWork]
            /\ \A t \in Tasks : wk[t] = Free \/ wk[t] \in Kind(t)
            /\ sub \in [BulkParents -> Submitting] /\ listed \in [BulkParents -> SUBSET Leaves]
            /\ run \in [EnvParents -> RunRow]
            /\ step \in [EnvParents -> Seq(StepStatuses)]
            /\ \A p \in EnvParents : step[p] # << >> => DOMAIN step[p] = DOMAIN KidsOf[p]
            /\ upsets \in Nat

\* A bulk parent that holds children in its hand holds its own, which exist.
KnownBulk(p) == /\ sub[p].pc # "none" => p \in scene.parents /\ status[p] # "none"
                /\ sub[p].pc = "kids" => sub[p].todo \in Seq(Kids(p))
                /\ wk[p] # Free => /\ wk[p].todo \in Seq(Kids(p)) /\ (wk[p].pc \in {"push", "mark"} => wk[p].todo # << >>)
                                   /\ \A i \in 1..Len(wk[p].todo) : status[wk[p].todo[i]] # "none"

\* An environment's parent knows how many steps there are and is at one of them.
KnownEnv(p) == /\ wk[p].pc = "env" => wk[p].i = 1
               /\ wk[p].pc \in {"step", "dispatch", "enqueue", "mark", "wait"} =>
                     /\ wk[p].n = Len(KidsOf[p]) /\ wk[p].i \in 1..wk[p].n + 1
                     /\ wk[p].pc # "step" => wk[p].i <= wk[p].n
                     /\ wk[p].pc \in {"enqueue", "mark", "wait"} => status[Kid(p)] # "none"

\* Only tasks that exist are worked on, wait for a timer or are in the queue, and of the parents only those of the scene.
Known == /\ \A p \in Parents : status[p] # "none" => p \in scene.parents
         /\ \A t \in Tasks : wk[t] # Free \/ t \in timers => status[t] # "none"
         /\ \A i \in 1..Len(queue) : status[queue[i]] # "none"
         /\ \A p \in BulkParents : KnownBulk(p)
         /\ \A p \in EnvParents : KnownEnv(p)

----------------------------------------------------------------------------
(* Orchestration: bulk parents *)

\* A leaf that is over has ended, and one that is completed has succeeded.
LeafTells(k) == (status[k] \in Terminal => ended[k] # "no") /\ (status[k] = "completed" => ended[k] = "ok")

\* A parent under way is not completed, of the children that it found those that it has stopped waiting for have
\* ended, and when it is completed all have.
BulkTells(p) == /\ wk[p] # Free => status[p] # "completed"
                /\ wk[p].pc \in {"push", "mark", "poll"} => \A k \in listed[p] \ wk[p].left : ended[k] # "no"
                /\ status[p] = "completed" => \A k \in listed[p] : ended[k] # "no"
WaitInv == (\A k \in Leaves : LeafTells(k)) /\ (\A p \in BulkParents : BulkTells(p))

----------------------------------------------------------------------------
(* Orchestration: environment parents *)

InQueue(t) == \E i \in 1..Len(queue) : queue[i] = t
Once(t)    == \A i, j \in 1..Len(queue) : queue[i] = t /\ queue[j] = t => i = j

\* The run of p has not begun, unless its rows are deleted.
Fresh(p) == step[p] # << >> => /\ run[p].status \notin {"completed", "failed"}
                               /\ \A j \in DOMAIN step[p] : step[p][j] = "pending" /\ status[KidsOf[p][j]] = "none"

Passed(p, x) == {j \in DOMAIN step[p] : j < wk[p].i /\ step[p][j] = x}

\* The rows of p while its steps are executed: the tasks of later steps do not exist, and unless its context
\* has expired the steps before the current one are over, as many of each kind as it has counted.
Doing(p) == /\ wk[p].done + wk[p].failed + 1 = wk[p].i
            /\ step[p] # << >> =>
                  /\ run[p].status \notin {"completed", "failed"}
                  /\ \A j \in DOMAIN step[p] : status[KidsOf[p][j]] # "none" =>
                        j < wk[p].i \/ (j = wk[p].i /\ wk[p].pc \in {"enqueue", "mark", "wait"})
                  /\ \A j \in DOMAIN step[p] : j >= wk[p].i => step[p][j] \notin {"completed", "failed"}
                  /\ ~wk[p].expired =>
                        /\ \A j \in DOMAIN step[p] : j < wk[p].i => step[p][j] \in {"completed", "failed"}
                        /\ Cardinality(Passed(p, "completed")) = wk[p].done
                        /\ Cardinality(Passed(p, "failed")) = wk[p].failed

\* What StepsTell says of one parent.
Tells(p) == LET s == step[p]  In(x) == {i \in DOMAIN s : s[i] = x}
            IN  s # << >> =>
                /\ \A j \in DOMAIN s : status[KidsOf[p][j]] # "none" => \A i \in 1..j - 1 : s[i] \in {"completed", "failed"}
                /\ \A i \in In("completed") : ended[KidsOf[p][i]] = "ok"
                /\ run[p].status = "completed" =>
                     /\ run[p].done = Cardinality(In("completed")) /\ run[p].failed = Cardinality(In("failed"))
                     /\ run[p].done > 0 /\ run[p].done + run[p].failed = Len(s)
                /\ run[p].status = "failed" => In("completed") = {}

\* An environment's parent is queued once and executed once: while it is in the queue, and when it begins, its run is
\* fresh. Before it is created there are no tasks of its steps.
EnvInv(p) == /\ status[p] \in {"none", "queued", "running"} \cup Terminal /\ p \notin timers
             /\ status[p] = "none" => step[p] = << >> /\ (p \in scene.parents => \A k \in Kids(p) : status[k] = "none")
             /\ Once(p) /\ (InQueue(p) => wk[p] = Free /\ Fresh(p))
             /\ wk[p].pc = "env" => Fresh(p) /\ wk[p].i = 1 /\ wk[p].done = 0 /\ wk[p].failed = 0
             /\ wk[p].pc \in {"step", "dispatch", "enqueue", "mark", "wait"} => Doing(p)
             /\ Tells(p)
TellInv == \A p \in EnvParents : EnvInv(p)

----------------------------------------------------------------------------
(* Provisioning *)

JobStatuses == {"pending", "running", "completed", "failed", "cancelled"}
JobRow      == [type : {"clone", "provision"}, status : JobStatuses, linked : BOOLEAN, result : BOOLEAN]

\* The statuses that updateJobStatus writes, and what the handler does next.
Goals == {<<"running", "connect">>, <<"completed", "done">>, <<"failed", "error">>, <<"failed", "permanent">>,
          <<"cancelled", "cancelled">>}

\* The type of the variables of module Provisioning; there is a task only for a row, and a handler only for a task.
JobType == /\ job \in {NoJob} \cup JobRow
           /\ order \in {Rest} \cup [pc : {"task", "link"}, copy : JobRow] \cup [pc : {"done"}]
           /\ jtask \in {"none", "retrying"} \cup JobStatuses /\ stop \in BOOLEAN
           /\ exec \in {Rest} \cup [pc : {"begin", "connect", "check", "call", "upsert", "done", "error", "permanent", "cancelled"}]
                       \cup [pc : {"read"}, goal : JobStatuses, then : {g[2] : g \in Goals}]
                       \cup [pc : {"save"}, goal : JobStatuses, then : {g[2] : g \in Goals}, copy : JobRow]
           /\ exec.pc \in {"read", "save"} => <<exec.goal, exec.then>> \in Goals
           /\ made \in 0..2 /\ vmRow \in BOOLEAN /\ tpl \in [row : BOOLEAN, remote : BOOLEAN] /\ sync \in BOOLEAN
           /\ disturbed \in BOOLEAN /\ troubles \in Nat
           /\ order.pc # "rest" => job \in JobRow
           /\ order.pc \in {"rest", "task"} => jtask = "none"
           /\ jtask = "none" => exec = Rest
           /\ exec # Rest => jtask \in {"running", "cancelled"}
           /\ order.pc = "task" => job = order.copy

\* Before the request has linked the task its copy of the row is pending; the row is linked once it has.
Linked == /\ order.pc \in {"task", "link"} => order.copy.status = "pending"
          /\ order.pc = "done" /\ jtask # "none" => job.linked

\* What the row says while the handler runs, and between its runs.
Follows == /\ exec.pc = "save" => exec.copy = job
           /\ exec.pc \in {"connect", "check", "call", "upsert"} => job.status = "running"
           /\ exec.pc \in {"error", "permanent"} => job.status = "failed"
           /\ exec.pc = "cancelled" => job.status = "cancelled"
           /\ exec.pc = "upsert" => made > 0
           /\ exec.pc \in {"read", "save"} /\ exec.goal = "completed" => made > 0 /\ (job.type = "provision" => vmRow)
           /\ exec.pc = "done" \/ jtask = "completed" => job.status = "completed" /\ (job.type = "provision" => job.result /\ vmRow)
           /\ exec = Rest /\ jtask \in {"failed", "retrying"} => job.status = "failed"
           /\ job.status = "completed" => made > 0
           /\ job.status = "pending" => exec.pc \in {"rest", "begin", "read", "save"}
JobInv  == ~disturbed => Linked /\ Follows

----------------------------------------------------------------------------
(* Orchestration: the proofs of types *)

LEMMA Family ==
    /\ \A p \in BulkParents : p \in Tasks /\ p \in Parents /\ p \notin EnvParents /\ p \notin Leaves /\ Kind(p) = BulkWork
    /\ \A p \in EnvParents : p \in Tasks /\ p \in Parents /\ p \notin BulkParents /\ p \notin Leaves /\ Kind(p) = EnvWork
    /\ \A k \in Leaves : k \in Tasks /\ k \notin Parents /\ k \notin BulkParents /\ k \notin EnvParents /\ Kind(k) = LeafWork
    /\ \A p \in Parents : /\ p \in Tasks /\ (p \in BulkParents \/ p \in EnvParents)
                          /\ Kids(p) \subseteq Leaves /\ KidsOf[p] \in Seq(Kids(p))
                          /\ DOMAIN KidsOf[p] = 1..Len(KidsOf[p]) /\ Len(KidsOf[p]) \in Nat
                          /\ \A i \in 1..Len(KidsOf[p]) : KidsOf[p][i] \in Kids(p) /\ KidsOf[p][i] \in Leaves
    /\ \A t \in Tasks : t \in BulkParents \/ t \in EnvParents \/ t \in Leaves
<1>1. \A p \in BulkParents : p \in Tasks /\ p \in Parents /\ p \notin EnvParents /\ p \notin Leaves /\ Kind(p) = BulkWork
  BY OrchestrationAssumption DEF Tasks, Parents, Kind
<1>2. \A p \in EnvParents : p \in Tasks /\ p \in Parents /\ p \notin BulkParents /\ p \notin Leaves /\ Kind(p) = EnvWork
  BY OrchestrationAssumption DEF Tasks, Parents, Kind
<1>3. \A k \in Leaves : k \in Tasks /\ k \notin Parents /\ k \notin BulkParents /\ k \notin EnvParents /\ Kind(k) = LeafWork
  BY OrchestrationAssumption DEF Tasks, Parents, Kind
<1>4. ASSUME NEW p \in Parents
      PROVE  /\ p \in Tasks /\ (p \in BulkParents \/ p \in EnvParents)
             /\ Kids(p) \subseteq Leaves /\ KidsOf[p] \in Seq(Kids(p))
             /\ DOMAIN KidsOf[p] = 1..Len(KidsOf[p]) /\ Len(KidsOf[p]) \in Nat
             /\ \A i \in 1..Len(KidsOf[p]) : KidsOf[p][i] \in Kids(p) /\ KidsOf[p][i] \in Leaves
  <2>1. KidsOf[p] \in Seq(Kids(p)) /\ Kids(p) \subseteq Leaves
    BY OrchestrationAssumption DEF Leaves
  <2> QED
    BY <2>1 DEF Tasks, Parents
<1> QED
  BY <1>1, <1>2, <1>3, <1>4 DEF Tasks, Parents

LEMMA WorkKinds ==
    ASSUME PoolType, NEW t \in Tasks
    PROVE  /\ wk[t] = Free <=> wk[t].pc = "free"
           /\ wk[t].pc = "leaf" => t \in Leaves
           /\ wk[t].pc \in {"bulk", "push", "poll"} => t \in BulkParents
           /\ wk[t].pc \in {"env", "step", "dispatch", "enqueue", "wait"} => t \in EnvParents
           /\ wk[t].pc \notin {"free", "leaf"} => t \in Parents
           /\ t \in BulkParents /\ wk[t] # Free => wk[t] \in BulkWork
           /\ t \in EnvParents /\ wk[t] # Free => wk[t] \in EnvWork
           /\ t \in Leaves /\ wk[t] # Free => wk[t] \in LeafWork
<1>1. wk[t] = Free \/ wk[t] \in Kind(t)
  BY DEF PoolType
<1>2. Free.pc = "free"
  BY DEF Free
<1>3. wk[t] = Free <=> wk[t].pc = "free"
  BY <1>1, <1>2 DEF Kind, BulkWork, EnvWork, LeafWork
<1>4. /\ t \in BulkParents /\ wk[t] # Free => wk[t] \in BulkWork
      /\ t \in EnvParents /\ wk[t] # Free => wk[t] \in EnvWork
      /\ t \in Leaves /\ wk[t] # Free => wk[t] \in LeafWork
  BY <1>1, Family
<1>5. \A w \in BulkWork : w.pc \in {"bulk", "push", "mark", "poll"}
  BY DEF BulkWork
<1>6. \A w \in EnvWork : w.pc \in {"env", "step", "dispatch", "enqueue", "mark", "wait"}
  BY DEF EnvWork
<1>7. \A w \in LeafWork : w.pc = "leaf"
  BY DEF LeafWork
<1> QED
  BY <1>3, <1>4, <1>5, <1>6, <1>7, Family

LEMMA BeginTyped ==
    ASSUME NEW t \in Tasks
    PROVE  /\ Begin(t) \in Kind(t)
           /\ t \in BulkParents => Begin(t) = [pc |-> "bulk", expired |-> FALSE, todo |-> << >>, left |-> {}]
           /\ t \in EnvParents => Begin(t) = [pc |-> "env", expired |-> FALSE, i |-> 1, n |-> 0, done |-> 0, failed |-> 0]
<1>1. CASE t \in BulkParents
  <2>1. << >> \in Seq(Leaves) /\ {} \in SUBSET Leaves
    OBVIOUS
  <2>2. Begin(t) = [pc |-> "bulk", expired |-> FALSE, todo |-> << >>, left |-> {}]
    BY <1>1 DEF Begin
  <2> QED
    BY <1>1, <2>1, <2>2, Family DEF BulkWork
<1>2. CASE t \in EnvParents
  BY <1>2, Family DEF Begin, EnvWork
<1>3. CASE t \in Leaves
  BY <1>3, Family DEF Begin, LeafWork
<1> QED
  BY <1>1, <1>2, <1>3, Family

\* A step that changes what the worker of task t does.
LEMMA WorkTyped ==
    ASSUME PoolType, NEW t \in Tasks, NEW w, w = Free \/ w \in Kind(t), wk' = [wk EXCEPT ![t] = w]
    PROVE  /\ wk' \in [Tasks -> {Free} \cup BulkWork \cup EnvWork \cup LeafWork]
           /\ \A u \in Tasks : wk'[u] = Free \/ wk'[u] \in Kind(u)
           /\ wk'[t] = w /\ \A u \in Tasks \ {t} : wk'[u] = wk[u]
<1>1. w \in {Free} \cup BulkWork \cup EnvWork \cup LeafWork
  BY DEF Kind
<1> QED
  BY <1>1 DEF PoolType

LEMMA FinishEffect ==
    ASSUME PoolType, NEW t \in Tasks, NEW out \in Statuses \ {"none"}, Finish(t, out)
    PROVE  /\ status' \in [Tasks -> Statuses] /\ status'[t] = out /\ \A u \in Tasks \ {t} : status'[u] = status[u]
           /\ ended' \in [Tasks -> {"no", "yes", "ok"}]
           /\ \A u \in Tasks : (ended[u] = "ok" => ended'[u] = "ok") /\ (ended[u] # "no" => ended'[u] # "no")
           /\ (out \in Terminal => ended'[t] # "no") /\ (out = "completed" => ended'[t] = "ok")
           /\ \A u \in Tasks \ {t} : ended'[u] = ended[u]
           /\ flag' \subseteq Parents /\ timers' \subseteq timers \cup {t} /\ timers' \subseteq Tasks
           /\ (t \in timers' => t \in timers \/ out = "retrying")
           /\ wk' \in [Tasks -> {Free} \cup BulkWork \cup EnvWork \cup LeafWork]
           /\ \A u \in Tasks : wk'[u] = Free \/ wk'[u] \in Kind(u)
           /\ wk'[t] = Free /\ \A u \in Tasks \ {t} : wk'[u] = wk[u]
<1>1. status' \in [Tasks -> Statuses] /\ status'[t] = out /\ \A u \in Tasks \ {t} : status'[u] = status[u]
  BY DEF Finish, PoolType
<1>2. ended' = [ended EXCEPT ![t] = IF out = "completed" THEN "ok" ELSE IF out \in Terminal /\ ended[t] = "no" THEN "yes" ELSE ended[t]]
  BY DEF Finish, Ended, PoolType
<1>3. /\ ended' \in [Tasks -> {"no", "yes", "ok"}]
      /\ \A u \in Tasks : (ended[u] = "ok" => ended'[u] = "ok") /\ (ended[u] # "no" => ended'[u] # "no")
      /\ (out \in Terminal => ended'[t] # "no") /\ (out = "completed" => ended'[t] = "ok")
      /\ \A u \in Tasks \ {t} : ended'[u] = ended[u]
  BY <1>2 DEF PoolType
<1>4. /\ flag' \subseteq Parents /\ timers' \subseteq timers \cup {t} /\ timers' \subseteq Tasks
      /\ (t \in timers' => t \in timers \/ out = "retrying")
  BY DEF Finish, PoolType
<1>5. wk' = [wk EXCEPT ![t] = Free]
  BY DEF Finish
<1> QED
  BY <1>1, <1>3, <1>4, <1>5, WorkTyped

LEMMA RunEffect ==
    ASSUME PoolType, NEW p \in EnvParents, NEW new \in RunRow, UpdateRun(p, new)
    PROVE  /\ run' \in [EnvParents -> RunRow] /\ \A q \in EnvParents \ {p} : run'[q] = run[q]
           /\ run'[p] = run[p] \/ (run'[p] = new /\ ~wk[p].expired)
BY DEF UpdateRun, PoolType

\* The row of the current step, if it is there, gets the new status.
LEMMA StepEffect ==
    ASSUME PoolType, NEW p \in EnvParents, NEW new \in StepStatuses, UpdateStepStatus(p, new),
           wk[p].i \in 1..Len(KidsOf[p])
    PROVE  /\ step' \in [EnvParents -> Seq(StepStatuses)] /\ \A q \in EnvParents \ {p} : step'[q] = step[q]
           /\ DOMAIN step'[p] = DOMAIN step[p] /\ (step'[p] = << >> <=> step[p] = << >>)
           /\ wk[p].expired => step'[p] = step[p]
           /\ \A j \in DOMAIN step[p] : IF j = wk[p].i /\ ~wk[p].expired THEN step'[p][j] = new ELSE step'[p][j] = step[p][j]
<1>1. CASE wk[p].expired \/ step[p] = << >>
  <2>1. step' = step
    BY <1>1 DEF UpdateStepStatus
  <2>2. step[p] = << >> => DOMAIN step[p] = {}
    OBVIOUS
  <2> QED
    BY <1>1, <2>1, <2>2 DEF PoolType
<1>2. CASE ~(wk[p].expired \/ step[p] = << >>)
  <2> DEFINE i == wk[p].i
             s == [step[p] EXCEPT ![i] = new]
  <2>1. step' = [step EXCEPT ![p] = s]
    BY <1>2 DEF UpdateStepStatus, PoolType
  <2>2. step[p] \in Seq(StepStatuses) /\ DOMAIN step[p] = 1..Len(KidsOf[p]) /\ DOMAIN step[p] = 1..Len(step[p])
    BY <1>2, Family DEF PoolType
  <2>3. s \in Seq(StepStatuses) /\ DOMAIN s = DOMAIN step[p] /\ s[i] = new /\ \A j \in DOMAIN step[p] \ {i} : s[j] = step[p][j]
    BY <2>2
  <2>4. s # << >>
    <3>1. i \in DOMAIN s
      BY <2>2, <2>3
    <3> QED
      BY <3>1
  <2> HIDE DEF s
  <2>5. step' \in [EnvParents -> Seq(StepStatuses)] /\ step'[p] = s /\ \A q \in EnvParents \ {p} : step'[q] = step[q]
    BY <2>1, <2>3 DEF PoolType
  <2> QED
    BY <1>2, <2>3, <2>4, <2>5
<1> QED
  BY <1>1, <1>2

\* The kid at hand of an environment's parent is one of its own.
LEMMA KidTyped ==
    ASSUME PoolType, Known, NEW p \in EnvParents, wk[p].pc \in {"dispatch", "enqueue", "mark", "wait"}
    PROVE  /\ wk[p] \in EnvWork /\ wk[p].i \in 1..Len(KidsOf[p]) /\ wk[p].n = Len(KidsOf[p])
           /\ Kid(p) \in Kids(p) /\ Kid(p) \in Leaves
<1>1. wk[p] \in EnvWork
  BY WorkKinds, Family
<1>2. wk[p].n = Len(KidsOf[p]) /\ wk[p].i \in 1..wk[p].n + 1 /\ wk[p].i <= wk[p].n
  BY DEF Known, KnownBulk, KnownEnv
<1>3. wk[p].i \in 1..Len(KidsOf[p])
  BY <1>2, Family
<1> QED
  BY <1>1, <1>2, <1>3, Family DEF Kid

\* The end of a step: where the parent stands, and what the rows have become.
LEMMA StepOverEffect ==
    ASSUME PoolType, NEW p \in EnvParents, wk[p] \in EnvWork, wk[p].i \in 1..Len(KidsOf[p]), NEW ok \in BOOLEAN, StepOver(p, ok)
    PROVE  LET d == wk[p].done + (IF ok THEN 1 ELSE 0)
               f == wk[p].failed + (IF ok THEN 0 ELSE 1)
           IN  /\ d \in Nat /\ f \in Nat
               /\ wk' = [wk EXCEPT ![p] = [wk[p] EXCEPT !.pc = "step", !.i = wk[p].i + 1, !.done = d, !.failed = f]]
               /\ [wk[p] EXCEPT !.pc = "step", !.i = wk[p].i + 1, !.done = d, !.failed = f] \in EnvWork
               /\ UpdateStepStatus(p, IF ok THEN "completed" ELSE "failed")
               /\ UpdateRun(p, [run[p] EXCEPT !.done = d, !.failed = f])
               /\ [run[p] EXCEPT !.done = d, !.failed = f] \in RunRow
               /\ [run[p] EXCEPT !.done = d, !.failed = f].status = run[p].status
<1> DEFINE d == wk[p].done + (IF ok THEN 1 ELSE 0)
           f == wk[p].failed + (IF ok THEN 0 ELSE 1)
<1>1. d \in Nat /\ f \in Nat /\ wk[p].i + 1 \in Nat
  BY DEF EnvWork
<1>2. /\ UpdateStepStatus(p, IF ok THEN "completed" ELSE "failed")
      /\ UpdateRun(p, [run[p] EXCEPT !.done = d, !.failed = f])
      /\ wk' = [wk EXCEPT ![p] = [wk[p] EXCEPT !.pc = "step", !.i = wk[p].i + 1, !.done = d, !.failed = f]]
  BY Family DEF StepOver, PoolType
<1>3. run[p] \in RunRow
  BY DEF PoolType
<1> HIDE DEF d, f
<1>4. [wk[p] EXCEPT !.pc = "step", !.i = wk[p].i + 1, !.done = d, !.failed = f] \in EnvWork
  BY <1>1 DEF EnvWork
<1>5. /\ [run[p] EXCEPT !.done = d, !.failed = f] \in RunRow
      /\ [run[p] EXCEPT !.done = d, !.failed = f].status = run[p].status
  BY <1>1, <1>3 DEF RunRow
<1> QED
  BY <1>1, <1>2, <1>4, <1>5 DEF d, f

\* The list of a parent's children has those that exist, and there is a first one.
LEMMA ListTyped ==
    ASSUME NEW p \in Parents, NEW found \in SUBSET Kids(p), found # {}, NEW list \in ByCreation(p, found)
    PROVE  list \in Seq(Kids(p)) /\ list # << >> /\ \A i \in 1..Len(list) : list[i] \in found
<1> DEFINE n == Cardinality(found)
<1>1. IsFiniteSet(Kids(p))
  <2>1. KidsOf[p] \in Surjection(1..Len(KidsOf[p]), Kids(p))
    <3>1. KidsOf[p] \in [1..Len(KidsOf[p]) -> Kids(p)]
      BY Family
    <3>2. \A k \in Kids(p) : \E i \in 1..Len(KidsOf[p]) : KidsOf[p][i] = k
      BY Family DEF Kids
    <3> QED
      BY <3>1, <3>2 DEF Surjection
  <2>2. IsFiniteSet(1..Len(KidsOf[p]))
    BY Family, FS_Interval
  <2> QED
    BY <2>1, <2>2, FS_Surjection
<1>2. IsFiniteSet(found)
  BY <1>1, FS_Subset
<1>3. n \in Nat /\ n # 0
  BY <1>2, FS_CardinalityType, FS_EmptySet
<1>4. list \in [1..n -> found]
  BY DEF ByCreation
<1> HIDE DEF n
<1> QED
  BY <1>3, <1>4

LEMMA PoolInitial == PoolInit => PoolType /\ Known /\ WaitInv /\ TellInv
<1> SUFFICES ASSUME PoolInit PROVE PoolType /\ Known /\ WaitInv /\ TellInv
  OBVIOUS
<1>1. Gone \in RunRow
  BY DEF Gone, RunRow, RunStatuses
<1>2. \A p \in BulkParents : sub[p] = [pc |-> "none"] /\ listed[p] = {}
  BY DEF PoolInit
<1>3. \A p \in EnvParents : run[p] = Gone /\ step[p] = << >>
  BY DEF PoolInit
<1>4. \A t \in Tasks : status[t] = "none" /\ wk[t] = Free /\ ended[t] = "no"
  BY DEF PoolInit
<1>5. queue = << >> /\ flag = {} /\ timers = {} /\ Len(queue) = 0
  BY DEF PoolInit
<1>6. Free.pc = "free"
  BY DEF Free
<1>7. \A p \in EnvParents \cup BulkParents \cup Leaves \cup Parents : p \in Tasks
  BY Family
<1>8. PoolType
  <2>1. sub \in [BulkParents -> Submitting]
    BY DEF PoolInit, Submitting
  <2>2. listed \in [BulkParents -> SUBSET Leaves] /\ upsets \in Nat /\ scene \in Scenes
    BY DEF PoolInit
  <2>3. run \in [EnvParents -> RunRow] /\ step \in [EnvParents -> Seq(StepStatuses)]
    BY <1>1 DEF PoolInit
  <2>4. status \in [Tasks -> Statuses] /\ ended \in [Tasks -> {"no", "yes", "ok"}]
    BY DEF PoolInit, Statuses
  <2>5. wk \in [Tasks -> {Free} \cup BulkWork \cup EnvWork \cup LeafWork]
    BY DEF PoolInit
  <2> QED
    BY <1>3, <1>4, <1>5, <2>1, <2>2, <2>3, <2>4, <2>5 DEF PoolType
<1>9. Known
  BY <1>2, <1>4, <1>5, <1>6, <1>7 DEF Known, KnownBulk, KnownEnv
<1>10. WaitInv
  BY <1>2, <1>4, <1>6, <1>7 DEF WaitInv, LeafTells, BulkTells, Terminal
<1>11. TellInv
  <2> SUFFICES ASSUME NEW p \in EnvParents PROVE EnvInv(p)
    BY DEF TellInv
  <2>1. step[p] = << >> /\ status[p] = "none" /\ wk[p].pc = "free" /\ p \notin timers
    BY <1>3, <1>4, <1>5, <1>6, <1>7
  <2>2. Tells(p)
    BY <2>1 DEF Tells
  <2>3. Once(p) /\ ~InQueue(p)
    BY <1>5 DEF Once, InQueue
  <2>4. \A k \in Kids(p) : status[k] = "none"
    BY <1>4, Family
  <2> QED
    BY <1>4, <1>7, <2>1, <2>2, <2>3, <2>4 DEF EnvInv
<1> QED
  BY <1>8, <1>9, <1>10, <1>11

LEMMA PoolTypeNext == PoolType /\ Known /\ [PoolNext]_poolVars => PoolType'
<1> SUFFICES ASSUME PoolType, Known, [PoolNext]_poolVars PROVE PoolType'
  OBVIOUS
<1>1. \A p \in BulkParents : sub[p] \in Submitting
  BY DEF PoolType
<1>2. ASSUME NEW t \in Tasks, NEW s \in Statuses, status' = [status EXCEPT ![t] = s] PROVE status' \in [Tasks -> Statuses]
  BY <1>2 DEF PoolType
<1>3. ASSUME NEW t \in Tasks, queue' = Append(queue, t) PROVE queue' \in Seq(Tasks)
  BY <1>3 DEF PoolType
<1>4. ASSUME NEW p \in BulkParents, NEW s \in Submitting, sub' = [sub EXCEPT ![p] = s] PROVE sub' \in [BulkParents -> Submitting]
  BY <1>4 DEF PoolType
<1>5. Fault \/ NoFault => upsets' \in Nat
  BY DEF Fault, NoFault, PoolType
<1>6. "pending" \in Statuses /\ "queued" \in Statuses /\ "running" \in Statuses /\ "retrying" \in Statuses /\ Terminal \subseteq Statuses
  BY DEF Statuses
<1>7. [pc |-> "pushed"] \in Submitting /\ [pc |-> "done"] \in Submitting
  BY DEF Submitting
<1>8. CASE UNCHANGED poolVars
  BY <1>8 DEF PoolType, poolVars
<1>9. ASSUME NEW p \in BulkParents, BulkSubmit(p), scene' = scene PROVE PoolType'
  <2>1. [pc |-> "kids", todo |-> KidsOf[p]] \in Submitting
    BY Family DEF Submitting
  <2>2. sub' \in [BulkParents -> Submitting] /\ status' \in [Tasks -> Statuses]
    BY <1>2, <1>4, <1>6, <1>9, <2>1, Family DEF BulkSubmit
  <2> QED
    BY <1>9, <2>2 DEF PoolType, BulkSubmit
<1>10. ASSUME NEW p \in BulkParents, BulkCreateChild(p), scene' = scene PROVE PoolType'
  <2>1. sub[p] \in [pc : {"kids"}, todo : Seq(Leaves)] /\ sub[p].todo # << >>
    BY <1>1, <1>10 DEF BulkCreateChild, Submitting
  <2>2. Head(sub[p].todo) \in Leaves /\ Tail(sub[p].todo) \in Seq(Leaves)
    BY <2>1
  <2>3. [sub[p] EXCEPT !.todo = Tail(sub[p].todo)] \in Submitting
    BY <2>1, <2>2 DEF Submitting
  <2>4. sub' = [sub EXCEPT ![p] = [sub[p] EXCEPT !.todo = Tail(sub[p].todo)]]
    BY <1>10 DEF BulkCreateChild, PoolType
  <2>5. sub' \in [BulkParents -> Submitting] /\ status' \in [Tasks -> Statuses]
    BY <1>2, <1>4, <1>6, <1>10, <2>2, <2>3, <2>4, Family DEF BulkCreateChild, PoolType
  <2> QED
    BY <1>5, <1>10, <2>5 DEF PoolType, BulkCreateChild
<1>11. ASSUME NEW p \in BulkParents, BulkEnqueue(p), scene' = scene PROVE PoolType'
  <2>1. queue' \in Seq(Tasks) /\ sub' \in [BulkParents -> Submitting]
    BY <1>3, <1>4, <1>7, <1>11, Family DEF BulkEnqueue, PoolType
  <2> QED
    BY <1>5, <1>11, <2>1 DEF PoolType, BulkEnqueue
<1>12. ASSUME NEW p \in BulkParents, BulkQueued(p), scene' = scene PROVE PoolType'
  <2>1. status' \in [Tasks -> Statuses] /\ sub' \in [BulkParents -> Submitting]
    BY <1>2, <1>4, <1>6, <1>7, <1>12, Family DEF BulkQueued
  <2> QED
    BY <1>12, <2>1 DEF PoolType, BulkQueued
<1>13. ASSUME NEW p \in EnvParents, EnvSubmit(p), scene' = scene PROVE PoolType'
  <2> DEFINE r == [status |-> "pending", done |-> 0, failed |-> 0]
             s == [i \in DOMAIN KidsOf[p] |-> "pending"]
  <2>1. r \in RunRow
    BY DEF RunRow, RunStatuses
  <2>2. s \in Seq(StepStatuses) /\ DOMAIN s = DOMAIN KidsOf[p]
    BY Family DEF StepStatuses
  <2>3. run' = [run EXCEPT ![p] = r] /\ step' = [step EXCEPT ![p] = s]
    BY <1>13 DEF EnvSubmit
  <2> HIDE DEF r, s
  <2>4. run' \in [EnvParents -> RunRow] /\ step' \in [EnvParents -> Seq(StepStatuses)]
        /\ \A q \in EnvParents : step'[q] # << >> => DOMAIN step'[q] = DOMAIN KidsOf[q]
    BY <2>1, <2>2, <2>3 DEF PoolType
  <2>5. status' \in [Tasks -> Statuses] /\ queue' \in Seq(Tasks)
    BY <1>2, <1>3, <1>6, <1>13, Family DEF EnvSubmit
  <2> QED
    BY <1>13, <2>4, <2>5 DEF PoolType, EnvSubmit
<1>14. ASSUME NEW p \in EnvParents, DeleteRun(p), scene' = scene PROVE PoolType'
  <2>1. Gone \in RunRow /\ << >> \in Seq(StepStatuses)
    BY DEF Gone, RunRow, RunStatuses
  <2>2. run' = [run EXCEPT ![p] = Gone] /\ step' = [step EXCEPT ![p] = << >>]
    BY <1>14 DEF DeleteRun
  <2>3. run' \in [EnvParents -> RunRow] /\ step' \in [EnvParents -> Seq(StepStatuses)]
        /\ \A q \in EnvParents : step'[q] # << >> => DOMAIN step'[q] = DOMAIN KidsOf[q]
    BY <2>1, <2>2 DEF PoolType
  <2> QED
    BY <1>5, <1>14, <2>3 DEF PoolType, DeleteRun
<1>15. ASSUME NEW p \in Parents, CancelParent(p), scene' = scene PROVE PoolType'
  <2>1. status' \in [Tasks -> Statuses] /\ flag' \subseteq Parents
    BY <1>2, <1>15, Family DEF CancelParent, PoolType, Terminal, Statuses
  <2> QED
    BY <1>5, <1>15, <2>1 DEF PoolType, CancelParent
<1>16. ASSUME NEW t \in Tasks, TimerFires(t) \/ Rehydrate(t), scene' = scene PROVE PoolType'
  <2>1. queue' \in Seq(Tasks)
    BY <1>3, <1>16 DEF TimerFires, Rehydrate
  <2>2. status' \in [Tasks -> Statuses] /\ timers' \subseteq Tasks
    BY <1>2, <1>6, <1>16 DEF TimerFires, Rehydrate, PoolType
  <2> QED
    BY <1>16, <2>1, <2>2 DEF PoolType, TimerFires, Rehydrate
<1>17. ASSUME Take, scene' = scene PROVE PoolType'
  <2>1. queue # << >> /\ queue' = Tail(queue)
    BY <1>17 DEF Take
  <2>2. PICK t \in Tasks : t = Head(queue)
    BY <2>1 DEF PoolType
  <2>3. queue' \in Seq(Tasks)
    BY <2>1 DEF PoolType
  <2>4. status' \in [Tasks -> Statuses] /\ flag' \subseteq Parents
    BY <1>2, <1>6, <1>17, <2>2 DEF Take, PoolType, Terminal
  <2>5. ended' \in [Tasks -> {"no", "yes", "ok"}]
    BY <1>17, <2>2 DEF Take, PoolType, Ended
  <2>6. wk' = wk \/ wk' = [wk EXCEPT ![t] = Begin(t)]
    BY <1>17, <2>2 DEF Take
  <2>7. /\ wk' \in [Tasks -> {Free} \cup BulkWork \cup EnvWork \cup LeafWork]
        /\ \A u \in Tasks : wk'[u] = Free \/ wk'[u] \in Kind(u)
    <3>1. CASE wk' = wk
      BY <3>1 DEF PoolType
    <3>2. CASE wk' = [wk EXCEPT ![t] = Begin(t)]
      BY <3>2, BeginTyped, WorkTyped
    <3> QED
      BY <2>6, <3>1, <3>2
  <2> QED
    BY <1>17, <2>3, <2>4, <2>5, <2>7 DEF PoolType, Take
<1>18. ASSUME NEW t \in Tasks, LeafDone(t), scene' = scene PROVE PoolType'
  <2>1. PICK out \in {"completed", "failed", "retrying"} : Finish(t, out)
    BY <1>18 DEF LeafDone
  <2>2. out \in Statuses \ {"none"}
    BY DEF Statuses, Terminal
  <2> QED
    BY <1>18, <2>1, <2>2, FinishEffect DEF PoolType, LeafDone
<1>19. ASSUME NEW t \in Tasks, Expire(t), scene' = scene PROVE PoolType'
  <2> DEFINE w == [wk[t] EXCEPT !.expired = TRUE]
  <2>1. wk[t] \in Kind(t) /\ (Kind(t) = BulkWork \/ Kind(t) = EnvWork)
    BY <1>19, WorkKinds, Family DEF Expire, PoolType
  <2>2. w \in Kind(t)
    <3>1. ASSUME wk[t] \in BulkWork PROVE w \in BulkWork
      BY <3>1 DEF BulkWork
    <3>2. ASSUME wk[t] \in EnvWork PROVE w \in EnvWork
      BY <3>2 DEF EnvWork
    <3> HIDE DEF w
    <3> QED
      BY <2>1, <3>1, <3>2
  <2>3. wk' = [wk EXCEPT ![t] = w]
    BY <1>19 DEF Expire, PoolType
  <2> HIDE DEF w
  <2> QED
    BY <1>19, <2>2, <2>3, WorkTyped DEF PoolType, Expire
<1>20. ASSUME NEW p \in Tasks, BulkList(p), scene' = scene PROVE PoolType'
  <2> DEFINE found == {k \in Kids(p) : status[k] # "none"}
  <2>1. p \in BulkParents /\ wk[p] \in BulkWork
    BY <1>20, WorkKinds DEF BulkList
  <2>2. found \in SUBSET Kids(p) /\ found \in SUBSET Leaves
    BY <2>1, Family
  <2>3. listed' \in [BulkParents -> SUBSET Leaves]
    BY <1>20, <2>2 DEF BulkList, PoolType
  <2>4. ASSUME NEW out \in {"retrying", "completed"}, Finish(p, out) PROVE PoolType'
    <3>1. out \in Statuses \ {"none"}
      BY DEF Statuses, Terminal
    <3> QED
      BY <1>5, <1>20, <2>3, <2>4, <3>1, FinishEffect DEF PoolType, BulkList
  <2>5. ASSUME found # {}, NEW list \in ByCreation(p, found),
               wk' = [wk EXCEPT ![p].pc = "push", ![p].left = found, ![p].todo = list], UNCHANGED <<status, flag, timers, ended>>
        PROVE  PoolType'
    <3> HIDE DEF found
    <3>1. list \in Seq(Leaves)
      <4>1. list \in Seq(Kids(p)) /\ Kids(p) \subseteq Leaves
        BY <2>1, <2>2, <2>5, ListTyped, Family
      <4>2. Len(list) \in Nat /\ list \in [1..Len(list) -> Leaves]
        BY <4>1
      <4> QED
        BY <4>2
    <3>2. wk' = [wk EXCEPT ![p] = [wk[p] EXCEPT !.pc = "push", !.left = found, !.todo = list]]
      BY <2>5 DEF PoolType
    <3>3. [wk[p] EXCEPT !.pc = "push", !.left = found, !.todo = list] \in BulkWork
      BY <2>1, <2>2, <3>1 DEF BulkWork
    <3>4. PICK w \in Kind(p) : wk' = [wk EXCEPT ![p] = w]
      BY <2>1, <3>2, <3>3, Family
    <3>5. /\ wk' \in [Tasks -> {Free} \cup BulkWork \cup EnvWork \cup LeafWork]
          /\ \A u \in Tasks : wk'[u] = Free \/ wk'[u] \in Kind(u)
      BY <3>4, WorkTyped
    <3>6. upsets' \in Nat /\ UNCHANGED <<queue, sub, run, step>>
      BY <1>5, <1>20 DEF BulkList
    <3> QED
      BY <1>20, <2>3, <2>5, <3>5, <3>6 DEF PoolType
  <2> QED
    BY <1>20, <2>4, <2>5 DEF BulkList
<1>21. ASSUME NEW p \in BulkParents, wk[p] \in BulkWork, NEW pc \in {"bulk", "push", "mark", "poll"}
       PROVE  /\ [wk[p] EXCEPT !.pc = pc] \in Kind(p)
              /\ wk[p].todo # << >> => /\ [wk[p] EXCEPT !.pc = pc, !.todo = Tail(wk[p].todo)] \in Kind(p)
                                       /\ Head(wk[p].todo) \in Tasks
  <2>1. [wk[p] EXCEPT !.pc = pc] \in BulkWork
    BY <1>21 DEF BulkWork
  <2>2. ASSUME wk[p].todo # << >> PROVE Tail(wk[p].todo) \in Seq(Leaves) /\ Head(wk[p].todo) \in Leaves
    <3>1. wk[p].todo \in Seq(Leaves)
      BY <1>21 DEF BulkWork
    <3> QED
      BY <2>2, <3>1
  <2>3. ASSUME NEW todo \in Seq(Leaves) PROVE [wk[p] EXCEPT !.pc = pc, !.todo = todo] \in BulkWork
    BY <1>21 DEF BulkWork
  <2> QED
    BY <2>1, <2>2, <2>3, Family
<1>22. \A todo : AfterPush(todo) \in {"bulk", "push", "mark", "poll"}
  BY DEF AfterPush
<1>23. ASSUME NEW p \in Tasks, BulkPush(p), scene' = scene PROVE PoolType'
  <2>1. p \in BulkParents /\ wk[p] \in BulkWork
    BY <1>23, WorkKinds DEF BulkPush
  <2>2. wk[p].todo # << >>
    BY <1>23, <2>1, WorkKinds DEF BulkPush, Known, KnownBulk, KnownEnv
  <2> DEFINE then == AfterPush(Tail(wk[p].todo))
  <2>3. \/ wk' = [wk EXCEPT ![p] = [wk[p] EXCEPT !.pc = "mark"]] /\ queue' = Append(queue, Head(wk[p].todo))
        \/ wk' = [wk EXCEPT ![p] = [wk[p] EXCEPT !.pc = then, !.todo = Tail(wk[p].todo)]] /\ queue' = queue
    BY <1>23, <2>1 DEF BulkPush, PoolType
  <2>4. then \in {"bulk", "push", "mark", "poll"}
    BY <1>22
  <2> HIDE DEF then
  <2>5. queue' \in Seq(Tasks)
    BY <1>3, <1>21, <2>1, <2>2, <2>3 DEF PoolType
  <2>6. PICK w \in Kind(p) : wk' = [wk EXCEPT ![p] = w]
    BY <1>21, <2>1, <2>2, <2>3, <2>4
  <2>7. upsets' \in Nat
    BY <1>5, <1>23 DEF BulkPush, CallWorks, CallFails
  <2> QED
    BY <1>23, <2>5, <2>6, <2>7, WorkTyped DEF PoolType, BulkPush
<1>24. ASSUME NEW p \in Tasks, BulkMark(p), scene' = scene PROVE PoolType'
  <2>1. p \in BulkParents /\ wk[p] \in BulkWork /\ wk[p].todo # << >>
    BY <1>24, WorkKinds DEF BulkMark, Known, KnownBulk, KnownEnv
  <2> DEFINE then == AfterPush(Tail(wk[p].todo))
  <2>2. wk' = [wk EXCEPT ![p] = [wk[p] EXCEPT !.pc = then, !.todo = Tail(wk[p].todo)]]
    BY <1>24, <2>1 DEF BulkMark, PoolType
  <2>3. then \in {"bulk", "push", "mark", "poll"}
    BY <1>22
  <2> HIDE DEF then
  <2>4. PICK w \in Kind(p) : wk' = [wk EXCEPT ![p] = w]
    BY <1>21, <2>1, <2>2, <2>3
  <2>5. status' \in [Tasks -> Statuses]
    BY <1>2, <1>6, <1>21, <1>24, <2>1 DEF BulkMark, PoolType
  <2> QED
    BY <1>24, <2>4, <2>5, WorkTyped DEF PoolType, BulkMark
<1>25. ASSUME NEW p \in Tasks, BulkPoll(p), scene' = scene PROVE PoolType'
  <2>1. p \in BulkParents /\ wk[p] \in BulkWork
    BY <1>25, WorkKinds DEF BulkPoll
  <2>2. PICK k \in wk[p].left : wk' = [wk EXCEPT ![p] = [wk[p] EXCEPT !.left = wk[p].left \ {k}]]
    BY <1>25, <2>1 DEF BulkPoll, PoolType
  <2>3. [wk[p] EXCEPT !.left = wk[p].left \ {k}] \in BulkWork
    BY <2>1 DEF BulkWork
  <2>4. PICK w \in Kind(p) : wk' = [wk EXCEPT ![p] = w]
    BY <2>1, <2>2, <2>3, Family
  <2> QED
    BY <1>25, <2>4, WorkTyped DEF PoolType, BulkPoll
<1>26. ASSUME NEW p \in Tasks, BulkCancelled(p) \/ BulkDone(p), scene' = scene PROVE PoolType'
  <2>1. PICK out \in {"cancelled", "completed"} : Finish(p, out)
    BY <1>26 DEF BulkCancelled, BulkDone
  <2>2. out \in Statuses \ {"none"}
    BY DEF Statuses, Terminal
  <2> QED
    BY <1>26, <2>1, <2>2, FinishEffect DEF PoolType, BulkCancelled, BulkDone
<1>27. ASSUME NEW p \in EnvParents, NEW s \in RunStatuses PROVE [run[p] EXCEPT !.status = s] \in RunRow
  BY DEF PoolType, RunRow
<1>28. ASSUME NEW p \in EnvParents, wk[p] \in EnvWork, NEW pc \in {"step", "dispatch", "enqueue", "mark", "wait"}, NEW n \in Nat
       PROVE  [wk[p] EXCEPT !.pc = pc] \in Kind(p) /\ [wk[p] EXCEPT !.pc = pc, !.n = n] \in Kind(p)
  <2>1. [wk[p] EXCEPT !.pc = pc] \in EnvWork
    BY <1>28 DEF EnvWork
  <2>2. [wk[p] EXCEPT !.pc = pc, !.n = n] \in EnvWork
    BY <1>28 DEF EnvWork
  <2> QED
    BY <2>1, <2>2, Family
<1>29. ASSUME NEW p \in Tasks, EnvBegin(p), scene' = scene PROVE PoolType'
  <2>1. p \in EnvParents /\ wk[p] \in EnvWork
    BY <1>29, WorkKinds DEF EnvBegin
  <2>2. upsets' \in Nat
    BY <1>5, <1>29 DEF EnvBegin, CallWorks, CallFails
  <2>3. PICK s \in {"failed", "completed", "running"} : UpdateRun(p, [run[p] EXCEPT !.status = s])
    BY <1>29 DEF EnvBegin
  <2>4. run' \in [EnvParents -> RunRow]
    BY <1>27, <2>1, <2>3, RunEffect DEF RunStatuses
  <2>5. ASSUME NEW out \in {"failed", "completed"}, Finish(p, out) PROVE PoolType'
    <3>1. out \in Statuses \ {"none"}
      BY DEF Statuses, Terminal
    <3> QED
      BY <1>29, <2>2, <2>4, <2>5, <3>1, FinishEffect DEF PoolType, EnvBegin
  <2>6. ASSUME wk' = [wk EXCEPT ![p].pc = "step", ![p].n = Len(step[p])], UNCHANGED <<status, flag, timers, ended>> PROVE PoolType'
    <3>1. Len(step[p]) \in Nat
      BY <2>1 DEF PoolType
    <3>2. wk' = [wk EXCEPT ![p] = [wk[p] EXCEPT !.pc = "step", !.n = Len(step[p])]]
      BY <2>6 DEF PoolType
    <3> QED
      BY <1>28, <1>29, <2>1, <2>2, <2>4, <2>6, <3>1, <3>2, WorkTyped DEF PoolType, EnvBegin
  <2> QED
    BY <1>29, <2>5, <2>6 DEF EnvBegin
<1>30. ASSUME NEW p \in Tasks, EnvStep(p), scene' = scene PROVE PoolType'
  <2>1. p \in EnvParents /\ wk[p] \in EnvWork
    BY <1>30, WorkKinds DEF EnvStep
  <2>2. wk[p].i \in 1..Len(KidsOf[p])
    BY <1>30, <2>1, Family DEF EnvStep, Known, KnownBulk, KnownEnv
  <2>3. /\ step' \in [EnvParents -> Seq(StepStatuses)]
        /\ \A q \in EnvParents : step'[q] # << >> => DOMAIN step'[q] = DOMAIN KidsOf[q]
    <3>1. "running" \in StepStatuses /\ UpdateStepStatus(p, "running")
      BY <1>30 DEF EnvStep, StepStatuses
    <3> QED
      BY <2>1, <2>2, <3>1, StepEffect DEF PoolType
  <2>4. wk' = [wk EXCEPT ![p] = [wk[p] EXCEPT !.pc = "dispatch"]]
    BY <1>30 DEF EnvStep, PoolType
  <2> QED
    BY <1>28, <1>30, <2>1, <2>3, <2>4, WorkTyped DEF PoolType, EnvStep
<1>31. ASSUME NEW p \in Tasks, EnvCancelled(p), scene' = scene PROVE PoolType'
  <2>1. p \in EnvParents
    BY <1>31, WorkKinds DEF EnvCancelled
  <2>2. "cancelled" \in Statuses \ {"none"} /\ "cancelled" \in RunStatuses
    BY DEF Statuses, Terminal, RunStatuses
  <2>3. run' \in [EnvParents -> RunRow]
    BY <1>27, <1>31, <2>1, <2>2, RunEffect DEF EnvCancelled
  <2> QED
    BY <1>31, <2>2, <2>3, FinishEffect DEF PoolType, EnvCancelled
\* What the end of a step changes.
<1>32. ASSUME NEW p \in EnvParents, wk[p] \in EnvWork, wk[p].i \in 1..Len(KidsOf[p]), NEW ok \in BOOLEAN, StepOver(p, ok)
       PROVE  /\ run' \in [EnvParents -> RunRow] /\ step' \in [EnvParents -> Seq(StepStatuses)]
              /\ \A q \in EnvParents : step'[q] # << >> => DOMAIN step'[q] = DOMAIN KidsOf[q]
              /\ wk' \in [Tasks -> {Free} \cup BulkWork \cup EnvWork \cup LeafWork]
              /\ \A u \in Tasks : wk'[u] = Free \/ wk'[u] \in Kind(u)
  <2> DEFINE d == wk[p].done + (IF ok THEN 1 ELSE 0)
             f == wk[p].failed + (IF ok THEN 0 ELSE 1)
             s == IF ok THEN "completed" ELSE "failed"
  <2>1. /\ wk' = [wk EXCEPT ![p] = [wk[p] EXCEPT !.pc = "step", !.i = wk[p].i + 1, !.done = d, !.failed = f]]
        /\ [wk[p] EXCEPT !.pc = "step", !.i = wk[p].i + 1, !.done = d, !.failed = f] \in EnvWork
        /\ UpdateStepStatus(p, s) /\ UpdateRun(p, [run[p] EXCEPT !.done = d, !.failed = f])
        /\ [run[p] EXCEPT !.done = d, !.failed = f] \in RunRow
    BY <1>32, StepOverEffect
  <2>2. s \in StepStatuses
    BY DEF StepStatuses
  <2> HIDE DEF d, f, s
  <2>3. run' \in [EnvParents -> RunRow]
    BY <2>1, RunEffect
  <2>4. /\ step' \in [EnvParents -> Seq(StepStatuses)]
        /\ \A q \in EnvParents : step'[q] # << >> => DOMAIN step'[q] = DOMAIN KidsOf[q]
    BY <1>32, <2>1, <2>2, StepEffect DEF PoolType
  <2>5. PICK w \in Kind(p) : wk' = [wk EXCEPT ![p] = w]
    BY <2>1, Family
  <2>6. /\ wk' \in [Tasks -> {Free} \cup BulkWork \cup EnvWork \cup LeafWork]
        /\ \A u \in Tasks : wk'[u] = Free \/ wk'[u] \in Kind(u)
    BY <2>5, WorkTyped, Family
  <2> QED
    BY <2>3, <2>4, <2>6
<1>33. ASSUME NEW p \in Tasks, EnvDispatch(p), scene' = scene PROVE PoolType'
  <2>1. p \in EnvParents /\ wk[p] \in EnvWork /\ wk[p].i \in 1..Len(KidsOf[p]) /\ Kid(p) \in Tasks
    BY <1>33, WorkKinds, KidTyped, Family DEF EnvDispatch
  <2>2. upsets' \in Nat
    BY <1>5, <1>33 DEF EnvDispatch, CallWorks, CallFails
  <2>3. CASE StepOver(p, FALSE) /\ UNCHANGED status
    BY <1>32, <1>33, <2>1, <2>2, <2>3 DEF PoolType, EnvDispatch
  <2>4. CASE status' = [status EXCEPT ![Kid(p)] = "pending"] /\ wk' = [wk EXCEPT ![p].pc = "enqueue"] /\ UNCHANGED <<run, step>>
    <3>1. wk' = [wk EXCEPT ![p] = [wk[p] EXCEPT !.pc = "enqueue"]]
      BY <2>4 DEF PoolType
    <3>2. status' \in [Tasks -> Statuses]
      BY <1>2, <1>6, <2>1, <2>4
    <3> QED
      BY <1>28, <1>33, <2>1, <2>2, <2>4, <3>1, <3>2, WorkTyped DEF PoolType, EnvDispatch
  <2> QED
    BY <1>33, <2>3, <2>4 DEF EnvDispatch
<1>34. ASSUME NEW p \in Tasks, EnvEnqueue(p), scene' = scene PROVE PoolType'
  <2>1. p \in EnvParents /\ wk[p] \in EnvWork /\ Kid(p) \in Tasks
    BY <1>34, WorkKinds, KidTyped, Family DEF EnvEnqueue
  <2>2. upsets' \in Nat
    BY <1>5, <1>34 DEF EnvEnqueue, CallWorks, CallFails
  <2>3. PICK pc \in {"mark", "wait"} : wk' = [wk EXCEPT ![p] = [wk[p] EXCEPT !.pc = pc]]
    BY <1>34 DEF EnvEnqueue, PoolType
  <2>4. queue' \in Seq(Tasks)
    BY <1>3, <1>34, <2>1 DEF EnvEnqueue, PoolType
  <2> QED
    BY <1>28, <1>34, <2>1, <2>2, <2>3, <2>4, WorkTyped DEF PoolType, EnvEnqueue
<1>35. ASSUME NEW p \in Tasks, EnvMark(p), scene' = scene PROVE PoolType'
  <2>1. p \in EnvParents /\ wk[p] \in EnvWork /\ Kid(p) \in Tasks
    BY <1>35, WorkKinds, KidTyped, Family DEF EnvMark
  <2>2. wk' = [wk EXCEPT ![p] = [wk[p] EXCEPT !.pc = "wait"]]
    BY <1>35 DEF EnvMark, PoolType
  <2>3. status' \in [Tasks -> Statuses]
    BY <1>2, <1>6, <1>35, <2>1 DEF EnvMark, PoolType
  <2> QED
    BY <1>28, <1>35, <2>1, <2>2, <2>3, WorkTyped DEF PoolType, EnvMark
<1>36. ASSUME NEW p \in Tasks, EnvWait(p), scene' = scene PROVE PoolType'
  <2>1. p \in EnvParents /\ wk[p] \in EnvWork /\ wk[p].i \in 1..Len(KidsOf[p])
    BY <1>36, WorkKinds, KidTyped, Family DEF EnvWait
  <2>2. upsets' \in Nat
    BY <1>5, <1>36 DEF EnvWait, CallWorks, CallFails
  <2>3. PICK ok \in BOOLEAN : StepOver(p, ok)
    BY <1>36 DEF EnvWait
  <2> QED
    BY <1>32, <1>36, <2>1, <2>2, <2>3 DEF PoolType, EnvWait
<1>37. ASSUME NEW p \in Tasks, EnvDone(p), scene' = scene PROVE PoolType'
  <2>1. p \in EnvParents /\ wk[p] \in EnvWork
    BY <1>37, WorkKinds DEF EnvDone
  <2>2. PICK out \in {"failed", "completed"} : Finish(p, out) /\ UpdateRun(p, [status |-> out, done |-> wk[p].done, failed |-> wk[p].failed])
    BY <1>37 DEF EnvDone
  <2>3. [status |-> out, done |-> wk[p].done, failed |-> wk[p].failed] \in RunRow
    BY <2>1 DEF EnvWork, RunRow, RunStatuses
  <2>4. run' \in [EnvParents -> RunRow] /\ out \in Statuses \ {"none"}
    BY <2>1, <2>2, <2>3, RunEffect DEF Statuses, Terminal
  <2> QED
    BY <1>37, <2>2, <2>4, FinishEffect DEF PoolType, EnvDone
<1>38. ASSUME NEW t \in Tasks, Handler(t), scene' = scene PROVE PoolType'
  BY <1>18, <1>20, <1>23, <1>24, <1>25, <1>26, <1>29, <1>30, <1>31, <1>33, <1>34, <1>35, <1>36, <1>37, <1>38 DEF Handler
<1> QED
  BY <1>8, <1>9, <1>10, <1>11, <1>12, <1>13, <1>14, <1>15, <1>16, <1>17, <1>19, <1>38 DEF PoolNext, PoolStep


----------------------------------------------------------------------------
(* Orchestration: what a handler leaves alone *)

\* A step of the handler of t is about t and its children.
Apart(t) == /\ wk[t] # Free /\ status[t] # "none" /\ sub' = sub
            /\ \A u \in Tasks \ {t} : wk'[u] = wk[u] /\ ended'[u] = ended[u]
            /\ \A u \in Tasks : (ended[u] = "ok" => ended'[u] = "ok") /\ (ended[u] # "no" => ended'[u] # "no")
            /\ \A u \in Tasks : status[u] # "none" => status'[u] # "none"
            /\ \A u \in Tasks \ {t} : status'[u] = status[u] \/ (t \in Parents /\ u \in Kids(t) /\ status'[u] \in {"pending", "queued"})
            /\ \A q \in EnvParents \ {t} : run'[q] = run[q] /\ step'[q] = step[q]
            /\ \A q \in BulkParents \ {t} : listed'[q] = listed[q]
            /\ timers' \subseteq timers \cup {t} /\ (t \in EnvParents => timers' \subseteq timers)
            /\ queue' = queue \/ \E k \in Leaves : status[k] # "none" /\ queue' = Append(queue, k)

LEMMA FinishApart ==
    ASSUME PoolType, Known, NEW t \in Tasks, wk[t].pc # "free", NEW out \in {"completed", "failed", "cancelled", "retrying"}, Finish(t, out),
           t \in EnvParents => out # "retrying", UNCHANGED <<queue, sub>>,
           \A q \in EnvParents \ {t} : run'[q] = run[q] /\ step'[q] = step[q],
           \A q \in BulkParents \ {t} : listed'[q] = listed[q]
    PROVE  Apart(t)
<1>1. out \in Statuses \ {"none"}
  BY DEF Statuses, Terminal
<1>2. wk[t] # Free /\ status[t] # "none"
  BY WorkKinds DEF Known, KnownBulk, KnownEnv
<1>3. timers' \subseteq timers \cup {t} /\ (t \in EnvParents => timers' \subseteq timers)
  BY DEF Finish
<1>4. /\ status'[t] # "none" /\ \A u \in Tasks \ {t} : status'[u] = status[u]
      /\ \A u \in Tasks \ {t} : wk'[u] = wk[u] /\ ended'[u] = ended[u]
      /\ \A u \in Tasks : (ended[u] = "ok" => ended'[u] = "ok") /\ (ended[u] # "no" => ended'[u] # "no")
  BY <1>1, FinishEffect
<1> QED
  BY <1>2, <1>3, <1>4 DEF Apart

\* A step that changes what t's worker does, and perhaps the row of a child or the queue.
LEMMA WorkApart ==
    ASSUME PoolType, Known, NEW t \in Parents, wk[t].pc # "free", NEW w, wk' = [wk EXCEPT ![t] = w],
           UNCHANGED <<sub, ended>>,
           \A q \in EnvParents \ {t} : run'[q] = run[q] /\ step'[q] = step[q],
           \A q \in BulkParents \ {t} : listed'[q] = listed[q],
           timers' = timers,
           status' = status \/ \E k \in Kids(t), s \in {"pending", "queued"} : status' = [status EXCEPT ![k] = s],
           queue' = queue \/ \E k \in Kids(t) : status[k] # "none" /\ queue' = Append(queue, k)
    PROVE  Apart(t)
<1>1. t \in Tasks /\ Kids(t) \subseteq Leaves /\ t \notin Kids(t) /\ Kids(t) \subseteq Tasks
  BY Family DEF Tasks
<1>2. wk[t] # Free /\ status[t] # "none"
  BY <1>1, WorkKinds DEF Known, KnownBulk, KnownEnv
<1>3. \A u \in Tasks \ {t} : wk'[u] = wk[u] /\ ended'[u] = ended[u]
  BY DEF PoolType
<1>4. /\ \A u \in Tasks : status[u] # "none" => status'[u] # "none"
      /\ \A u \in Tasks \ {t} : status'[u] = status[u] \/ (u \in Kids(t) /\ status'[u] \in {"pending", "queued"})
  BY <1>1 DEF PoolType
<1>5. queue' = queue \/ \E k \in Leaves : status[k] # "none" /\ queue' = Append(queue, k)
  BY <1>1
<1> QED
  BY <1>2, <1>3, <1>4, <1>5 DEF Apart


LEMMA HandlerApart == ASSUME PoolType, Known, NEW t \in Tasks, Handler(t) PROVE Apart(t)
<1>1. /\ Free.pc = "free"
      /\ t \in BulkParents => t \in Parents /\ t \notin EnvParents
      /\ t \in EnvParents => t \in Parents /\ t \notin BulkParents
  BY Family DEF Free
\* The head of what a bulk parent has in hand.
<1>3. ASSUME t \in BulkParents, wk[t].pc \in {"push", "mark"} PROVE Head(wk[t].todo) \in Kids(t) /\ status[Head(wk[t].todo)] # "none"
  <2>1. wk[t].todo \in Seq(Kids(t)) /\ wk[t].todo # << >> /\ \A i \in 1..Len(wk[t].todo) : status[wk[t].todo[i]] # "none"
    BY <1>1, <1>3 DEF Known, KnownBulk, KnownEnv
  <2>2. Head(wk[t].todo) = wk[t].todo[1] /\ Head(wk[t].todo) \in Kids(t) /\ 1 \in 1..Len(wk[t].todo)
    BY <2>1
  <2> QED
    BY <2>1, <2>2
<1>4. CASE LeafDone(t)
  <2>1. PICK out \in {"completed", "failed", "retrying"} : Finish(t, out)
    BY <1>4 DEF LeafDone
  <2>2. t \in Leaves /\ t \notin EnvParents /\ wk[t].pc # "free"
    BY <1>4, WorkKinds, Family DEF LeafDone
  <2> QED
    BY <1>4, <2>1, <2>2, FinishApart DEF LeafDone
<1>5. CASE BulkList(t)
  <2>1. t \in BulkParents /\ wk[t].pc # "free"
    BY <1>5, WorkKinds DEF BulkList
  <2>2. \A q \in BulkParents \ {t} : listed'[q] = listed[q]
    BY <1>5 DEF BulkList, PoolType
  <2>3. ASSUME NEW out \in {"retrying", "completed"}, Finish(t, out) PROVE Apart(t)
    BY <1>1, <1>5, <2>1, <2>2, <2>3, FinishApart DEF BulkList
  <2>4. ASSUME NEW list, wk' = [wk EXCEPT ![t].pc = "push", ![t].left = {k \in Kids(t) : status[k] # "none"}, ![t].todo = list],
               UNCHANGED <<status, flag, timers, ended>>
        PROVE  Apart(t)
    <3>1. wk' = [wk EXCEPT ![t] = [wk[t] EXCEPT !.pc = "push", !.left = {k \in Kids(t) : status[k] # "none"}, !.todo = list]]
      BY <2>4 DEF PoolType
    <3> QED
      BY <1>1, <1>5, <2>1, <2>2, <2>4, <3>1, WorkApart DEF BulkList
  <2> QED
    BY <1>5, <2>3, <2>4 DEF BulkList
<1>6. CASE BulkPush(t)
  <2>1. t \in BulkParents /\ wk[t].pc # "free"
    BY <1>6, WorkKinds DEF BulkPush
  <2>2. PICK w : wk' = [wk EXCEPT ![t] = w]
    BY <1>6 DEF BulkPush, PoolType
  <2>3. queue' = queue \/ \E k \in Kids(t) : status[k] # "none" /\ queue' = Append(queue, k)
    BY <1>3, <1>6, <2>1 DEF BulkPush
  <2> QED
    BY <1>1, <1>6, <2>1, <2>2, <2>3, WorkApart DEF BulkPush
<1>7. CASE BulkMark(t)
  <2>1. t \in BulkParents /\ wk[t].pc = "mark"
    BY <1>7 DEF BulkMark
  <2>2. PICK w : wk' = [wk EXCEPT ![t] = w]
    BY <1>7 DEF BulkMark, PoolType
  <2>3. status' = status \/ \E k \in Kids(t), s \in {"pending", "queued"} : status' = [status EXCEPT ![k] = s]
    BY <1>3, <1>7, <2>1 DEF BulkMark
  <2> QED
    BY <1>1, <1>7, <2>1, <2>2, <2>3, WorkApart DEF BulkMark
<1>8. CASE BulkPoll(t)
  <2>1. t \in BulkParents /\ wk[t].pc # "free"
    BY <1>8, WorkKinds DEF BulkPoll
  <2>2. PICK w : wk' = [wk EXCEPT ![t] = w]
    BY <1>8 DEF BulkPoll, PoolType
  <2> QED
    BY <1>1, <1>8, <2>1, <2>2, WorkApart DEF BulkPoll
<1>9. CASE BulkCancelled(t) \/ BulkDone(t)
  <2>1. t \in BulkParents /\ wk[t].pc # "free"
    BY <1>9, WorkKinds DEF BulkCancelled, BulkDone
  <2>2. PICK out \in {"cancelled", "completed"} : Finish(t, out)
    BY <1>9 DEF BulkCancelled, BulkDone
  <2> QED
    BY <1>1, <1>9, <2>1, <2>2, FinishApart DEF BulkCancelled, BulkDone
\* The rows of an environment's run.
<1>10. ASSUME NEW new, UpdateRun(t, new) PROVE \A q \in EnvParents \ {t} : run'[q] = run[q]
  BY <1>10 DEF UpdateRun, PoolType
<1>11. ASSUME NEW new, UpdateStepStatus(t, new) PROVE \A q \in EnvParents \ {t} : step'[q] = step[q]
  BY <1>11 DEF UpdateStepStatus, PoolType
<1>12. CASE EnvBegin(t)
  <2>1. t \in EnvParents /\ wk[t].pc # "free"
    BY <1>12, WorkKinds DEF EnvBegin
  <2>2. \A q \in EnvParents \ {t} : run'[q] = run[q]
    BY <1>10, <1>12 DEF EnvBegin
  <2>3. ASSUME NEW out \in {"failed", "completed"}, Finish(t, out) PROVE Apart(t)
    BY <1>1, <1>12, <2>1, <2>2, <2>3, FinishApart DEF EnvBegin
  <2>4. ASSUME wk' = [wk EXCEPT ![t].pc = "step", ![t].n = Len(step[t])], UNCHANGED <<status, flag, timers, ended>> PROVE Apart(t)
    <3>1. wk' = [wk EXCEPT ![t] = [wk[t] EXCEPT !.pc = "step", !.n = Len(step[t])]]
      BY <2>4 DEF PoolType
    <3> QED
      BY <1>1, <1>12, <2>1, <2>2, <2>4, <3>1, WorkApart DEF EnvBegin
  <2> QED
    BY <1>12, <2>3, <2>4 DEF EnvBegin
<1>13. CASE EnvStep(t)
  <2>1. t \in EnvParents /\ wk[t].pc # "free"
    BY <1>13, WorkKinds DEF EnvStep
  <2>2. PICK w : wk' = [wk EXCEPT ![t] = w]
    BY <1>13 DEF EnvStep, PoolType
  <2>3. \A q \in EnvParents \ {t} : step'[q] = step[q]
    BY <1>11, <1>13 DEF EnvStep
  <2> QED
    BY <1>1, <1>13, <2>1, <2>2, <2>3, WorkApart DEF EnvStep
<1>14. CASE EnvCancelled(t)
  <2>1. t \in EnvParents /\ wk[t].pc # "free"
    BY <1>14, WorkKinds DEF EnvCancelled
  <2>2. \A q \in EnvParents \ {t} : run'[q] = run[q]
    BY <1>10, <1>14 DEF EnvCancelled
  <2> QED
    BY <1>1, <1>14, <2>1, <2>2, FinishApart DEF EnvCancelled
<1>15. ASSUME t \in EnvParents, wk[t].pc # "free", NEW ok \in BOOLEAN, StepOver(t, ok), UNCHANGED <<status, queue, timers, sub, ended, listed>>
       PROVE  Apart(t)
  <2>1. \A q \in EnvParents \ {t} : run'[q] = run[q]
    BY <1>10, <1>15 DEF StepOver
  <2>2. \A q \in EnvParents \ {t} : step'[q] = step[q]
    BY <1>11, <1>15 DEF StepOver
  <2>3. PICK w : wk' = [wk EXCEPT ![t] = w]
    BY <1>15 DEF StepOver, PoolType
  <2> QED
    BY <1>1, <1>15, <2>1, <2>2, <2>3, WorkApart
<1>16. CASE EnvDispatch(t)
  <2>1. t \in EnvParents /\ wk[t].pc # "free" /\ Kid(t) \in Kids(t)
    BY <1>16, WorkKinds, KidTyped DEF EnvDispatch
  <2>2. CASE StepOver(t, FALSE) /\ UNCHANGED status
    BY <1>15, <1>16, <2>1, <2>2 DEF EnvDispatch
  <2>3. CASE status' = [status EXCEPT ![Kid(t)] = "pending"] /\ wk' = [wk EXCEPT ![t].pc = "enqueue"] /\ UNCHANGED <<run, step>>
    <3>1. PICK w : wk' = [wk EXCEPT ![t] = w]
      BY <2>3 DEF PoolType
    <3> QED
      BY <1>1, <1>16, <2>1, <2>3, <3>1, WorkApart DEF EnvDispatch
  <2> QED
    BY <1>16, <2>2, <2>3 DEF EnvDispatch
<1>17. CASE EnvEnqueue(t)
  <2>1. t \in EnvParents /\ wk[t].pc # "free"
    BY <1>17, WorkKinds DEF EnvEnqueue
  <2>2. Kid(t) \in Kids(t) /\ status[Kid(t)] # "none"
    BY <1>17, <2>1, KidTyped DEF EnvEnqueue, Known, KnownBulk, KnownEnv
  <2>3. PICK w : wk' = [wk EXCEPT ![t] = w]
    BY <1>17 DEF EnvEnqueue, PoolType
  <2> QED
    BY <1>1, <1>17, <2>1, <2>2, <2>3, WorkApart DEF EnvEnqueue
<1>18. CASE EnvMark(t)
  <2>1. t \in EnvParents /\ wk[t].pc # "free" /\ Kid(t) \in Kids(t)
    BY <1>18, KidTyped DEF EnvMark
  <2>2. PICK w : wk' = [wk EXCEPT ![t] = w]
    BY <1>18 DEF EnvMark, PoolType
  <2> QED
    BY <1>1, <1>18, <2>1, <2>2, WorkApart DEF EnvMark
<1>19. CASE EnvWait(t)
  <2>1. t \in EnvParents /\ wk[t].pc # "free"
    BY <1>19, WorkKinds DEF EnvWait
  <2>2. PICK ok \in BOOLEAN : StepOver(t, ok)
    BY <1>19 DEF EnvWait
  <2> QED
    BY <1>15, <1>19, <2>1, <2>2 DEF EnvWait
<1>20. CASE EnvDone(t)
  <2>1. t \in EnvParents /\ wk[t].pc # "free"
    BY <1>20, WorkKinds DEF EnvDone
  <2>2. \A q \in EnvParents \ {t} : run'[q] = run[q]
    BY <1>10, <1>20 DEF EnvDone
  <2>3. PICK out \in {"failed", "completed"} : Finish(t, out)
    BY <1>20 DEF EnvDone
  <2> QED
    BY <1>1, <1>20, <2>1, <2>2, <2>3, FinishApart DEF EnvDone
<1> QED
  BY <1>4, <1>5, <1>6, <1>7, <1>8, <1>9, <1>12, <1>13, <1>14, <1>16, <1>17, <1>18, <1>19, <1>20 DEF Handler


----------------------------------------------------------------------------
(* Orchestration: which tasks exist *)

LEMMA TakeEffect ==
    ASSUME PoolType, Known, Take
    PROVE  \E t \in Tasks :
              /\ queue # << >> /\ queue[1] = t /\ queue' = Tail(queue) /\ status[t] # "none"
              /\ \A u \in Tasks \ {t} : status'[u] = status[u] /\ wk'[u] = wk[u] /\ ended'[u] = ended[u]
              /\ \/ wk[t] # Free /\ wk'[t] = wk[t] /\ status'[t] = status[t] /\ ended'[t] = ended[t]
                 \/ wk[t] = Free /\ wk'[t] = Free /\ status'[t] = "cancelled" /\ ended'[t] # "no" /\ (ended[t] = "ok" => ended'[t] = "ok")
                 \/ wk[t] = Free /\ wk'[t] = Begin(t) /\ status'[t] = "running" /\ ended'[t] = ended[t]
              /\ UNCHANGED <<timers, sub, run, step, listed>>
<1>1. queue # << >> /\ queue' = Tail(queue) /\ UNCHANGED <<timers, sub, run, step, listed>>
  BY DEF Take
<1>2. queue[1] = Head(queue) /\ queue[1] \in Tasks /\ 1 \in 1..Len(queue)
  BY <1>1 DEF PoolType
<1>3. PICK t \in Tasks : t = queue[1]
  BY <1>2
<1>4. status[t] # "none"
  BY <1>2, <1>3 DEF Known
<1>5. CASE Held(t) /\ UNCHANGED <<status, flag, wk, ended>>
  BY <1>1, <1>3, <1>4, <1>5 DEF Held
<1>6. CASE ~Held(t) /\ status' = [status EXCEPT ![t] = "cancelled"] /\ Ended(t, "cancelled") /\ UNCHANGED wk
  <2>1. ended' = [ended EXCEPT ![t] = IF ended[t] = "no" THEN "yes" ELSE ended[t]]
    BY <1>6 DEF Ended, Terminal, PoolType
  <2> QED
    BY <1>1, <1>3, <1>4, <1>6, <2>1 DEF Held, PoolType
<1>7. CASE ~Held(t) /\ status' = [status EXCEPT ![t] = "running"] /\ wk' = [wk EXCEPT ![t] = Begin(t)] /\ UNCHANGED ended
  BY <1>1, <1>3, <1>4, <1>7 DEF Held, PoolType
<1> QED
  BY <1>2, <1>3, <1>5, <1>6, <1>7 DEF Take

\* A row that was inserted stays, and parents are inserted by the requests of the scene.
LEMMA StatusNext ==
    ASSUME PoolType, Known, PoolStep
    PROVE  /\ \A t \in Tasks : status[t] # "none" => status'[t] # "none"
           /\ \A p \in Parents : status'[p] # "none" => p \in scene.parents
<1> DEFINE Stays == /\ \A t \in Tasks : status[t] # "none" => status'[t] # "none"
                    /\ \A p \in Parents : status'[p] # "none" => p \in scene.parents
<1>1. \A p \in Parents : status[p] # "none" => p \in scene.parents
  BY DEF Known
<1>2. Parents \subseteq Tasks /\ Parents \cap Leaves = {}
  BY Family
<1>3. ASSUME status' = status PROVE Stays
  BY <1>1, <1>3
<1>4. ASSUME NEW t \in Tasks, NEW s, s # "none", status' = [status EXCEPT ![t] = s], t \in Leaves \/ status[t] # "none" \/ t \in scene.parents
      PROVE  Stays
  BY <1>1, <1>2, <1>4 DEF PoolType
<1> HIDE DEF Stays
<1>5. ASSUME NEW p \in BulkParents, BulkSubmit(p) \/ BulkCreateChild(p) \/ BulkEnqueue(p) \/ BulkQueued(p) PROVE Stays
  <2>1. p \in Tasks
    BY Family
  <2>2. CASE BulkSubmit(p) \/ BulkEnqueue(p)
    BY <1>3, <1>4, <2>1, <2>2 DEF BulkSubmit, BulkEnqueue
  <2>3. CASE BulkCreateChild(p)
    <3>1. sub[p].todo \in Seq(Kids(p)) /\ Kids(p) \subseteq Leaves /\ sub[p].todo # << >>
      BY <2>3, Family DEF BulkCreateChild, Known, KnownBulk
    <3>2. Head(sub[p].todo) \in Leaves
      BY <3>1
    <3>3. PICK k \in Leaves : status' = status \/ status' = [status EXCEPT ![k] = "pending"]
      BY <2>3, <3>2 DEF BulkCreateChild
    <3> QED
      BY <1>3, <1>4, <3>3, Family
  <2>4. CASE BulkQueued(p)
    <3>1. p \in scene.parents
      BY <2>4 DEF BulkQueued, Known, KnownBulk
    <3> QED
      BY <1>4, <2>1, <2>4, <3>1 DEF BulkQueued
  <2> QED
    BY <1>5, <2>2, <2>3, <2>4
<1>6. ASSUME NEW p \in EnvParents, EnvSubmit(p) \/ DeleteRun(p) PROVE Stays
  BY <1>3, <1>4, <1>6, Family DEF EnvSubmit, DeleteRun
<1>7. ASSUME NEW p \in Parents, CancelParent(p) PROVE Stays
  BY <1>4, <1>7, Family DEF CancelParent
<1>8. ASSUME NEW t \in Tasks, TimerFires(t) \/ Rehydrate(t) \/ Expire(t) PROVE Stays
  BY <1>3, <1>4, <1>8 DEF TimerFires, Rehydrate, Expire
<1>9. ASSUME Take PROVE Stays
  <2>1. PICK t \in Tasks : /\ status[t] # "none" /\ \A u \in Tasks \ {t} : status'[u] = status[u]
                           /\ status'[t] \in {status[t], "cancelled", "running"}
    BY <1>9, TakeEffect
  <2> QED
    BY <1>1, <1>2, <2>1 DEF Stays
<1>10. ASSUME NEW t \in Tasks, Handler(t) PROVE Stays
  <2>1. Apart(t)
    BY <1>10, HandlerApart
  <2>2. \A p \in Parents : p \notin Kids(t) \/ t \notin Parents
    BY Family
  <2> QED
    BY <1>1, <1>2, <2>1, <2>2 DEF Stays, Apart
<1> QED
  BY <1>5, <1>6, <1>7, <1>8, <1>9, <1>10 DEF PoolStep, Stays

\* What a step that leaves a parent alone leaves true of it.
LEMMA KnownStill ==
    ASSUME PoolType, Known, scene' = scene, \A t \in Tasks : status[t] # "none" => status'[t] # "none"
    PROVE  /\ \A p \in BulkParents : sub'[p] = sub[p] /\ wk'[p] = wk[p] => KnownBulk(p)'
           /\ \A p \in EnvParents : wk'[p] = wk[p] => KnownEnv(p)'
<1>1. ASSUME NEW p \in BulkParents, sub'[p] = sub[p], wk'[p] = wk[p] PROVE KnownBulk(p)'
  <2>1. KnownBulk(p) /\ p \in Tasks /\ Kids(p) \subseteq Tasks
    BY Family DEF Known
  <2>2. wk[p] # Free => \A i \in 1..Len(wk[p].todo) : wk[p].todo[i] \in Tasks
    BY <2>1 DEF KnownBulk
  <2> QED
    BY <1>1, <2>1, <2>2 DEF KnownBulk
<1>2. ASSUME NEW p \in EnvParents, wk'[p] = wk[p] PROVE KnownEnv(p)'
  <2>1. KnownEnv(p)
    BY DEF Known
  <2>2. wk[p].pc \in {"enqueue", "mark", "wait"} => Kid(p) \in Tasks
    BY KidTyped, Family
  <2>3. Kid(p)' = Kid(p)
    BY <1>2 DEF Kid
  <2> QED
    BY <1>2, <2>1, <2>2, <2>3 DEF KnownEnv
<1> QED
  BY <1>1, <1>2


LEMMA BulkKnown ==
    ASSUME PoolType, Known, NEW p \in BulkParents, Handler(p), Apart(p), scene' = scene,
           \A t \in Tasks : status[t] # "none" => status'[t] # "none"
    PROVE  KnownBulk(p)'
<1>1. p \in Tasks /\ p \in Parents /\ p \notin EnvParents /\ p \notin Leaves /\ Kids(p) \subseteq Tasks /\ Free.pc = "free"
  BY Family DEF Free
<1>2. /\ wk[p] # Free /\ wk[p] \in BulkWork /\ wk[p].todo \in Seq(Kids(p)) /\ (wk[p].pc \in {"push", "mark"} => wk[p].todo # << >>)
      /\ \A i \in 1..Len(wk[p].todo) : status[wk[p].todo[i]] # "none"
  BY <1>1, WorkKinds DEF Apart, Known, KnownBulk
<1>3. ASSUME NEW w, wk'[p] = w, w # Free => /\ w.todo \in Seq(Kids(p)) /\ (w.pc \in {"push", "mark"} => w.todo # << >>)
                                            /\ \A i \in 1..Len(w.todo) : status[w.todo[i]] # "none"
      PROVE  KnownBulk(p)'
  <2>1. sub'[p] = sub[p] /\ KnownBulk(p)
    BY DEF Apart, Known
  <2>2. w # Free => \A i \in 1..Len(w.todo) : w.todo[i] \in Tasks
    BY <1>1, <1>3
  <2> QED
    BY <1>1, <1>3, <2>1, <2>2 DEF KnownBulk
<1>4. ASSUME NEW out, Finish(p, out) PROVE KnownBulk(p)'
  BY <1>1, <1>3, <1>4 DEF Finish, PoolType
<1>5. CASE BulkList(p)
  <2> DEFINE found == {k \in Kids(p) : status[k] # "none"}
  <2>1. ASSUME found # {}, NEW list \in ByCreation(p, found), wk' = [wk EXCEPT ![p].pc = "push", ![p].left = found, ![p].todo = list]
        PROVE  KnownBulk(p)'
    <3>1. list \in Seq(Kids(p)) /\ list # << >> /\ \A i \in 1..Len(list) : list[i] \in found
      BY <1>1, <2>1, ListTyped
    <3>2. wk'[p].todo = list
      BY <1>1, <1>2, <2>1 DEF PoolType, BulkWork
    <3> QED
      BY <1>3, <3>1, <3>2
  <2> QED
    BY <1>4, <1>5, <2>1 DEF BulkList
\* What is left in hand after the first.
<1>6. ASSUME wk[p].todo # << >>, wk' = [wk EXCEPT ![p].pc = AfterPush(Tail(wk[p].todo)), ![p].todo = Tail(@)] PROVE KnownBulk(p)'
  <2> DEFINE w == [wk[p] EXCEPT !.pc = AfterPush(Tail(wk[p].todo)), !.todo = Tail(wk[p].todo)]
  <2>1. wk'[p] = w
    BY <1>1, <1>6 DEF PoolType
  <2>2. w.todo = Tail(wk[p].todo) /\ w.pc = AfterPush(Tail(wk[p].todo))
    BY <1>2 DEF BulkWork
  <2> HIDE DEF w
  <2>3. Tail(wk[p].todo) \in Seq(Kids(p)) /\ \A i \in 1..Len(Tail(wk[p].todo)) : status[Tail(wk[p].todo)[i]] # "none"
    <3> DEFINE todo == wk[p].todo
    <3>1. todo \in Seq(Kids(p)) /\ todo # << >> /\ \A i \in 1..Len(todo) : status[todo[i]] # "none"
      BY <1>2, <1>6
    <3> HIDE DEF todo
    <3>2. /\ Tail(todo) \in Seq(Kids(p))
          /\ \A i \in 1..Len(Tail(todo)) : i + 1 \in 1..Len(todo) /\ Tail(todo)[i] = todo[i + 1]
      BY <3>1
    <3>3. \A i \in 1..Len(Tail(todo)) : status[Tail(todo)[i]] # "none"
      BY <3>1, <3>2
    <3> QED
      BY <3>2, <3>3 DEF todo
  <2>4. w.pc \in {"push", "mark"} => w.todo # << >>
    BY <2>2 DEF AfterPush
  <2> QED
    BY <1>3, <2>1, <2>2, <2>3, <2>4
<1>7. CASE BulkPush(p)
  <2>1. CASE wk' = [wk EXCEPT ![p].pc = "mark"]
    <3>1. wk'[p].todo = wk[p].todo
      BY <1>1, <1>2, <2>1 DEF PoolType, BulkWork
    <3> QED
      BY <1>2, <1>3, <1>7, <3>1 DEF BulkPush
  <2> QED
    BY <1>2, <1>6, <1>7, <2>1 DEF BulkPush
<1>8. CASE BulkMark(p)
  BY <1>2, <1>6, <1>8 DEF BulkMark
<1>9. CASE BulkPoll(p)
  <2>1. PICK k : wk' = [wk EXCEPT ![p].left = @ \ {k}]
    BY <1>9 DEF BulkPoll
  <2>2. wk'[p] = [wk[p] EXCEPT !.left = wk[p].left \ {k}]
    BY <1>1, <2>1 DEF PoolType
  <2>3. wk'[p].todo = wk[p].todo /\ wk'[p].pc = "poll"
    BY <1>2, <1>9, <2>2 DEF BulkWork, BulkPoll
  <2> QED
    BY <1>2, <1>3, <2>3
<1>10. CASE BulkCancelled(p) \/ BulkDone(p)
  BY <1>4, <1>10 DEF BulkCancelled, BulkDone
<1>11. ~LeafDone(p) /\ ~EnvBegin(p) /\ ~EnvStep(p) /\ ~EnvCancelled(p) /\ ~EnvDispatch(p) /\ ~EnvEnqueue(p) /\ ~EnvMark(p) /\ ~EnvWait(p)
       /\ ~EnvDone(p)
  BY <1>1, WorkKinds DEF LeafDone, EnvBegin, EnvStep, EnvCancelled, EnvDispatch, EnvEnqueue, EnvMark, EnvWait, EnvDone
<1> QED
  BY <1>5, <1>7, <1>8, <1>9, <1>10, <1>11 DEF Handler

LEMMA EnvKnown ==
    ASSUME PoolType, Known, NEW p \in EnvParents, Handler(p), Apart(p), scene' = scene,
           \A t \in Tasks : status[t] # "none" => status'[t] # "none"
    PROVE  KnownEnv(p)'
<1>1. p \in Tasks /\ p \in Parents /\ p \notin BulkParents /\ p \notin Leaves /\ Free.pc = "free"
  BY Family DEF Free
<1>2. wk[p] # Free /\ wk[p] \in EnvWork /\ KnownEnv(p)
  BY <1>1, WorkKinds DEF Apart, Known
<1>3. ASSUME NEW out, Finish(p, out) PROVE KnownEnv(p)'
  BY <1>1, <1>3 DEF Finish, PoolType, KnownEnv
\* The next statement of the same step.
<1>4. ASSUME NEW pc \in {"dispatch", "enqueue", "mark", "wait"}, wk' = [wk EXCEPT ![p].pc = pc],
             wk[p].pc \in {"step", "dispatch", "enqueue", "mark"}, wk[p].i <= wk[p].n,
             pc \in {"enqueue", "mark", "wait"} => status'[Kid(p)] # "none"
      PROVE  KnownEnv(p)'
  <2>1. wk'[p].pc = pc /\ wk'[p].i = wk[p].i /\ wk'[p].n = wk[p].n
    BY <1>1, <1>2, <1>4 DEF PoolType, EnvWork
  <2>2. Kid(p)' = Kid(p)
    BY <2>1 DEF Kid
  <2> QED
    BY <1>2, <1>4, <2>1, <2>2 DEF KnownEnv
<1>5. CASE EnvBegin(p)
  <2>1. CASE step[p] # << >> /\ wk' = [wk EXCEPT ![p].pc = "step", ![p].n = Len(step[p])]
    <3>1. wk'[p].pc = "step" /\ wk'[p].i = wk[p].i /\ wk'[p].n = Len(step[p])
      BY <1>1, <1>2, <2>1 DEF PoolType, EnvWork
    <3>2. Len(step[p]) = Len(KidsOf[p]) /\ Len(step[p]) \in Nat
      <4>1. DOMAIN step[p] = DOMAIN KidsOf[p] /\ step[p] \in Seq(StepStatuses) /\ KidsOf[p] \in Seq(Kids(p))
        BY <1>1, <2>1, Family DEF PoolType
      <4> QED
        BY <4>1
    <3>3. wk[p].i = 1
      BY <1>2, <1>5 DEF EnvBegin, KnownEnv
    <3> QED
      BY <3>1, <3>2, <3>3 DEF KnownEnv
  <2> QED
    BY <1>3, <1>5, <2>1 DEF EnvBegin
<1>6. CASE EnvStep(p)
  BY <1>4, <1>6 DEF EnvStep
<1>7. ASSUME wk[p].pc \in {"dispatch", "wait"}, NEW ok \in BOOLEAN, StepOver(p, ok) PROVE KnownEnv(p)'
  <2>1. wk[p].i \in 1..Len(KidsOf[p]) /\ wk[p].n = Len(KidsOf[p])
    BY <1>7, KidTyped
  <2>2. wk'[p].pc = "step" /\ wk'[p].i = wk[p].i + 1 /\ wk'[p].n = wk[p].n
    BY <1>1, <1>2, <1>7 DEF StepOver, PoolType, EnvWork
  <2>3. Len(KidsOf[p]) \in Nat
    BY <1>1, Family
  <2> QED
    BY <2>1, <2>2, <2>3 DEF KnownEnv
<1>8. CASE EnvDispatch(p)
  <2>1. CASE StepOver(p, FALSE)
    BY <1>7, <1>8, <2>1 DEF EnvDispatch
  <2>2. CASE status' = [status EXCEPT ![Kid(p)] = "pending"] /\ wk' = [wk EXCEPT ![p].pc = "enqueue"]
    <3>1. wk[p].i <= wk[p].n /\ Kid(p) \in Tasks
      BY <1>2, <1>8, KidTyped, Family DEF EnvDispatch, KnownEnv
    <3>2. status'[Kid(p)] # "none"
      BY <2>2, <3>1 DEF PoolType
    <3> QED
      BY <1>4, <1>8, <2>2, <3>1, <3>2 DEF EnvDispatch
  <2> QED
    BY <1>8, <2>1, <2>2 DEF EnvDispatch
<1>9. ASSUME wk[p].pc \in {"enqueue", "mark"} PROVE wk[p].i <= wk[p].n /\ status'[Kid(p)] # "none"
  <2>1. Kid(p) \in Tasks
    BY <1>9, KidTyped, Family
  <2> QED
    BY <1>2, <1>9, <2>1 DEF KnownEnv
<1>10. CASE EnvEnqueue(p)
  <2>1. PICK pc \in {"mark", "wait"} : wk' = [wk EXCEPT ![p].pc = pc]
    BY <1>10 DEF EnvEnqueue
  <2> QED
    BY <1>4, <1>9, <1>10, <2>1 DEF EnvEnqueue
<1>11. CASE EnvMark(p)
  BY <1>4, <1>9, <1>11 DEF EnvMark
<1>12. CASE EnvWait(p)
  <2>1. PICK ok \in BOOLEAN : StepOver(p, ok)
    BY <1>12 DEF EnvWait
  <2> QED
    BY <1>7, <1>12, <2>1 DEF EnvWait
<1>13. CASE EnvCancelled(p) \/ EnvDone(p)
  BY <1>3, <1>13 DEF EnvCancelled, EnvDone
<1>14. ~LeafDone(p) /\ ~BulkList(p) /\ ~BulkPush(p) /\ ~BulkMark(p) /\ ~BulkPoll(p) /\ ~BulkCancelled(p) /\ ~BulkDone(p)
  BY <1>1, WorkKinds DEF LeafDone, BulkList, BulkPush, BulkMark, BulkPoll, BulkCancelled, BulkDone
<1> QED
  BY <1>5, <1>6, <1>8, <1>10, <1>11, <1>12, <1>13, <1>14 DEF Handler

LEMMA KnownNext == PoolType /\ Known /\ [PoolNext]_poolVars => Known'
<1> SUFFICES ASSUME PoolType, Known, [PoolNext]_poolVars PROVE Known'
  OBVIOUS
<1>1. CASE UNCHANGED poolVars
  <2>1. /\ \A p \in BulkParents : KnownBulk(p)' <=> KnownBulk(p)
        /\ \A p \in EnvParents : KnownEnv(p)' <=> KnownEnv(p)
    BY <1>1 DEF poolVars, KnownBulk, KnownEnv, Kid
  <2> QED
    BY <1>1, <2>1 DEF Known, poolVars
<1>2. ASSUME PoolStep, scene' = scene PROVE Known'
  <2> DEFINE Held1  == \A t \in Tasks : wk'[t] # Free \/ t \in timers' => status'[t] # "none"
             Queue1 == \A i \in 1..Len(queue') : status'[queue'[i]] # "none"
             Bulk1  == \A p \in BulkParents : KnownBulk(p)'
             Env1   == \A p \in EnvParents : KnownEnv(p)'
             All1   == Held1 /\ Queue1 /\ Bulk1 /\ Env1
  <2>1. /\ \A t \in Tasks : status[t] # "none" => status'[t] # "none"
        /\ \A p \in Parents : status'[p] # "none" => p \in scene.parents
    BY <1>2, StatusNext
  <2>2. /\ \A p \in BulkParents : sub'[p] = sub[p] /\ wk'[p] = wk[p] => KnownBulk(p)'
        /\ \A p \in EnvParents : wk'[p] = wk[p] => KnownEnv(p)'
    BY <1>2, <2>1, KnownStill
  <2>3. /\ \A p \in BulkParents : p \in Tasks /\ p \in Parents /\ p \notin EnvParents
        /\ \A p \in EnvParents : p \in Tasks /\ p \in Parents /\ p \notin BulkParents
        /\ \A k \in Leaves : k \in Tasks /\ k \notin BulkParents /\ k \notin EnvParents
        /\ Free.pc = "free"
    BY Family DEF Free
  \* Queues and timers.
  <2>4. ASSUME wk' = wk, timers' \subseteq timers PROVE Held1
    BY <2>1, <2>4 DEF Known
  <2>5. /\ queue' = queue => Queue1
        /\ \A t \in Tasks : queue' = Append(queue, t) /\ status'[t] # "none" => Queue1
        /\ queue # << >> /\ queue' = Tail(queue) => Queue1
    <3>1. queue \in Seq(Tasks) /\ \A i \in 1..Len(queue) : queue[i] \in Tasks /\ status'[queue[i]] # "none"
      BY <2>1 DEF PoolType, Known
    <3>2. queue' = queue => Queue1
      BY <3>1
    <3>3. ASSUME NEW t \in Tasks, queue' = Append(queue, t), status'[t] # "none" PROVE Queue1
      BY <3>1, <3>3
    <3>4. ASSUME queue # << >>, queue' = Tail(queue) PROVE Queue1
      BY <3>1, <3>4
    <3> QED
      BY <3>2, <3>3, <3>4
  <2>6. ASSUME wk' = wk, sub' = sub PROVE Bulk1 /\ Env1
    BY <2>2, <2>6
  <2>7. ASSUME NEW p \in BulkParents, wk' = wk, \A q \in BulkParents \ {p} : sub'[q] = sub[q], KnownBulk(p)' PROVE Bulk1 /\ Env1
    BY <2>2, <2>7
  <2> HIDE DEF Held1, Queue1, Bulk1, Env1
  <2>8. ASSUME NEW p \in BulkParents, BulkSubmit(p) PROVE All1
    <3>1. sub' = [sub EXCEPT ![p] = [pc |-> "kids", todo |-> KidsOf[p]]] /\ wk' = wk /\ status' = [status EXCEPT ![p] = "pending"]
          /\ p \in scene.parents
      BY <2>8 DEF BulkSubmit
    <3>2. sub'[p] = [pc |-> "kids", todo |-> KidsOf[p]] /\ \A q \in BulkParents \ {p} : sub'[q] = sub[q]
      BY <3>1 DEF PoolType
    <3>3. status'[p] # "none" /\ KidsOf[p] \in Seq(Kids(p))
      BY <2>3, <3>1, Family DEF PoolType
    <3>4. wk[p] # Free => /\ wk[p].todo \in Seq(Kids(p)) /\ (wk[p].pc \in {"push", "mark"} => wk[p].todo # << >>)
                          /\ \A i \in 1..Len(wk[p].todo) : status'[wk[p].todo[i]] # "none"
      <4>1. wk[p] # Free => status[p] # "none"
        BY <2>3 DEF Known
      <4>2. wk[p] # Free => \A i \in 1..Len(wk[p].todo) : wk[p].todo[i] \in Tasks
        BY <2>3, Family DEF Known, KnownBulk
      <4> QED
        BY <2>1, <4>1, <4>2 DEF Known, KnownBulk
    <3>5. KnownBulk(p)'
      BY <1>2, <3>1, <3>2, <3>3, <3>4 DEF KnownBulk
    <3> QED
      BY <2>4, <2>5, <2>7, <2>8, <3>2, <3>5 DEF BulkSubmit
  \* The other steps of a request.
  <2>9. ASSUME NEW p \in BulkParents, NEW s, sub' = [sub EXCEPT ![p] = s], wk' = wk, sub[p].pc # "none",
               s.pc = "kids" => s.todo \in Seq(Kids(p)) PROVE Bulk1 /\ Env1
    <3>1. sub'[p] = s /\ \A q \in BulkParents \ {p} : sub'[q] = sub[q]
      BY <2>9 DEF PoolType
    <3>2. KnownBulk(p) /\ p \in Tasks
      BY <2>3 DEF Known
    <3>3. p \in scene.parents /\ status'[p] # "none"
      BY <2>1, <2>9, <3>2 DEF KnownBulk
    <3>4. wk[p] # Free => \A i \in 1..Len(wk[p].todo) : wk[p].todo[i] \in Tasks
      BY <2>3, Family DEF Known, KnownBulk
    <3>5. KnownBulk(p)'
      BY <1>2, <2>1, <2>9, <3>1, <3>2, <3>3, <3>4 DEF KnownBulk
    <3> QED
      BY <2>7, <2>9, <3>1, <3>5
  <2>10. ASSUME NEW p \in BulkParents, BulkCreateChild(p) PROVE All1
    <3> DEFINE s == [sub[p] EXCEPT !.todo = Tail(sub[p].todo)]
    <3>1. sub' = [sub EXCEPT ![p] = s] /\ sub[p].pc = "kids" /\ wk' = wk /\ queue' = queue /\ timers' = timers
      BY <2>10 DEF BulkCreateChild, PoolType
    <3>2. sub[p].todo \in Seq(Kids(p)) /\ sub[p].todo # << >>
      BY <2>10 DEF BulkCreateChild, Known, KnownBulk
    <3>3. Tail(sub[p].todo) \in Seq(Kids(p))
      BY <3>2
    <3>4. s.pc = "kids" => s.todo \in Seq(Kids(p))
      <4>1. sub[p] \in [pc : {"kids"}, todo : Seq(Leaves)]
        BY <3>1 DEF PoolType, Submitting
      <4> QED
        BY <3>3, <4>1
    <3> HIDE DEF s
    <3> QED
      BY <2>4, <2>5, <2>9, <3>1, <3>4
  <2>11. ASSUME NEW p \in BulkParents, BulkEnqueue(p) PROVE All1
    <3>1. PICK s \in {[pc |-> "pushed"], [pc |-> "done"]} : sub' = [sub EXCEPT ![p] = s]
      BY <2>11 DEF BulkEnqueue
    <3>2. s.pc # "kids" /\ sub[p].pc # "none" /\ wk' = wk /\ timers' = timers
      BY <2>11 DEF BulkEnqueue
    <3>3. status'[p] # "none" /\ p \in Tasks
      BY <2>1, <2>3, <3>2 DEF Known, KnownBulk
    <3>4. queue' = queue \/ queue' = Append(queue, p)
      BY <2>11 DEF BulkEnqueue
    <3> QED
      BY <2>4, <2>5, <2>9, <3>1, <3>2, <3>3, <3>4
  <2>12. ASSUME NEW p \in BulkParents, BulkQueued(p) PROVE All1
    <3>1. sub' = [sub EXCEPT ![p] = [pc |-> "done"]] /\ sub[p].pc # "none" /\ wk' = wk /\ timers' = timers /\ queue' = queue
      BY <2>12 DEF BulkQueued
    <3> QED
      BY <2>4, <2>5, <2>9, <3>1
  <2>13. ASSUME NEW p \in EnvParents, EnvSubmit(p) PROVE All1
    <3>1. queue' = Append(queue, p) /\ status'[p] = "queued" /\ p \in Tasks /\ UNCHANGED <<wk, sub, timers>>
      BY <2>3, <2>13 DEF EnvSubmit, PoolType
    <3> QED
      BY <2>4, <2>5, <2>6, <3>1
  <2>14. ASSUME NEW p \in EnvParents, DeleteRun(p) PROVE All1
    BY <2>4, <2>5, <2>6, <2>14 DEF DeleteRun
  <2>15. ASSUME NEW p \in Parents, CancelParent(p) PROVE All1
    BY <2>4, <2>5, <2>6, <2>15 DEF CancelParent
  <2>16. ASSUME NEW t \in Tasks, TimerFires(t) PROVE All1
    <3>1. status'[t] # "none" /\ queue' = Append(queue, t) /\ UNCHANGED <<wk, sub>> /\ timers' \subseteq timers
      BY <2>1, <2>16 DEF TimerFires, Known
    <3> QED
      BY <2>4, <2>5, <2>6, <3>1
  <2>17. ASSUME NEW t \in Tasks, Rehydrate(t) PROVE All1
    <3>1. status'[t] # "none" /\ queue' = Append(queue, t) /\ UNCHANGED <<wk, sub, timers>>
      BY <2>1, <2>17 DEF Rehydrate
    <3> QED
      BY <2>4, <2>5, <2>6, <3>1
  <2>18. ASSUME Take PROVE All1
    <3>1. PICK t \in Tasks :
              /\ queue # << >> /\ queue' = Tail(queue) /\ status[t] # "none"
              /\ \A u \in Tasks \ {t} : wk'[u] = wk[u]
              /\ wk'[t] = wk[t] \/ wk'[t] = Begin(t)
              /\ UNCHANGED <<timers, sub>>
      BY <2>18, TakeEffect
    <3>2. Held1
      BY <2>1, <3>1 DEF Held1, Known
    <3>3. \A p \in BulkParents : KnownBulk(p)'
      <4> SUFFICES ASSUME NEW p \in BulkParents PROVE KnownBulk(p)'
        OBVIOUS
      <4>1. CASE wk'[p] = wk[p]
        BY <2>2, <3>1, <4>1
      <4>2. CASE p = t /\ wk'[p] = Begin(t)
        <5>1. wk'[p].todo = << >> /\ wk'[p].pc = "bulk"
          BY <2>3, <4>2, BeginTyped
        <5>2. KnownBulk(p) /\ status'[p] # "none"
          BY <2>1, <2>3, <3>1, <4>2 DEF Known
        <5>3. << >> \in Seq(Kids(p)) /\ Len(<< >>) = 0
          OBVIOUS
        <5> QED
          BY <1>2, <3>1, <5>1, <5>2, <5>3 DEF KnownBulk
      <4> QED
        BY <2>3, <3>1, <4>1, <4>2
    <3>4. \A p \in EnvParents : KnownEnv(p)'
      <4> SUFFICES ASSUME NEW p \in EnvParents PROVE KnownEnv(p)'
        OBVIOUS
      <4>1. CASE wk'[p] = wk[p]
        BY <2>2, <4>1
      <4>2. CASE p = t /\ wk'[p] = Begin(t)
        <5>1. wk'[p].pc = "env" /\ wk'[p].i = 1
          BY <2>3, <4>2, BeginTyped
        <5> QED
          BY <5>1 DEF KnownEnv
      <4> QED
        BY <2>3, <3>1, <4>1, <4>2
    <3> QED
      BY <2>5, <3>1, <3>2, <3>3, <3>4 DEF Bulk1, Env1
  \* Steps that change only what the worker of t does.
  <2>19. ASSUME NEW t \in Tasks, wk[t] # Free, sub' = sub, \A u \in Tasks \ {t} : wk'[u] = wk[u],
                t \in BulkParents => KnownBulk(t)', t \in EnvParents => KnownEnv(t)'
         PROVE  Bulk1 /\ Env1
    BY <2>2, <2>3, <2>19 DEF Bulk1, Env1
  <2>20. ASSUME NEW t \in Tasks, Expire(t) PROVE All1
    <3>1. /\ wk' = [wk EXCEPT ![t] = [wk[t] EXCEPT !.expired = TRUE]] /\ wk[t].pc \notin {"free", "leaf"}
          /\ UNCHANGED <<sub, queue, timers>> /\ status' = status
      BY <2>20 DEF Expire, PoolType
    <3>2. wk[t] # Free /\ (t \in BulkParents => wk[t] \in BulkWork) /\ (t \in EnvParents => wk[t] \in EnvWork)
      BY <2>3, <3>1, WorkKinds
    <3>3. wk'[t] = [wk[t] EXCEPT !.expired = TRUE] /\ \A u \in Tasks \ {t} : wk'[u] = wk[u]
      BY <3>1 DEF PoolType
    <3>4. ASSUME t \in BulkParents PROVE KnownBulk(t)'
      <4>1. wk'[t].todo = wk[t].todo /\ wk'[t].pc = wk[t].pc
        BY <3>2, <3>3, <3>4 DEF BulkWork
      <4> QED
        BY <1>2, <3>1, <3>2, <3>4, <4>1 DEF Known, KnownBulk
    <3>5. ASSUME t \in EnvParents PROVE KnownEnv(t)'
      <4>1. wk'[t].i = wk[t].i /\ wk'[t].pc = wk[t].pc /\ wk'[t].n = wk[t].n
        BY <3>2, <3>3, <3>5 DEF EnvWork
      <4>2. Kid(t)' = Kid(t) /\ KnownEnv(t)
        BY <3>5, <4>1 DEF Kid, Known
      <4> QED
        BY <3>1, <4>1, <4>2 DEF KnownEnv
    <3>6. Held1
      BY <2>1, <3>1, <3>2, <3>3 DEF Held1, Known
    <3> QED
      BY <2>5, <2>19, <3>1, <3>2, <3>3, <3>4, <3>5, <3>6
  <2>21. ASSUME NEW t \in Tasks, Handler(t) PROVE All1
    <3>1. Apart(t)
      BY <2>21, HandlerApart
    <3>2. Held1
      BY <2>1, <3>1 DEF Held1, Apart, Known
    <3>3. Queue1
      <4>1. queue' = queue \/ \E k \in Tasks : status'[k] # "none" /\ queue' = Append(queue, k)
        BY <2>1, <2>3, <3>1 DEF Apart
      <4> QED
        BY <2>5, <4>1
    <3>4. ASSUME t \in BulkParents PROVE KnownBulk(t)'
      BY <1>2, <2>1, <2>21, <3>1, <3>4, BulkKnown
    <3>5. ASSUME t \in EnvParents PROVE KnownEnv(t)'
      BY <1>2, <2>1, <2>21, <3>1, <3>5, EnvKnown
    <3>6. wk[t] # Free /\ sub' = sub /\ \A u \in Tasks \ {t} : wk'[u] = wk[u]
      BY <3>1 DEF Apart
    <3> QED
      BY <2>19, <3>2, <3>3, <3>4, <3>5, <3>6
  <2>22. All1
    BY <1>2, <2>8, <2>10, <2>11, <2>12, <2>13, <2>14, <2>15, <2>16, <2>17, <2>18, <2>20, <2>21 DEF PoolStep
  <2> QED
    BY <1>2, <2>1, <2>22 DEF Known, Held1, Queue1, Bulk1, Env1
<1> QED
  BY <1>1, <1>2 DEF PoolNext


----------------------------------------------------------------------------
(* Orchestration: a bulk parent waits for its children *)

LEMMA BulkWaits ==
    ASSUME PoolType, Known, WaitInv, NEW p \in BulkParents, Handler(p), Apart(p)
    PROVE  BulkTells(p)'
<1>1. p \in Tasks /\ p \in Parents /\ p \notin EnvParents /\ p \notin Leaves /\ Kids(p) \subseteq Tasks /\ p \notin Kids(p)
  BY Family DEF Tasks
<1>2. wk[p] # Free /\ wk[p] \in BulkWork /\ BulkTells(p) /\ status[p] # "completed" /\ Free.pc = "free"
  BY <1>1, WorkKinds DEF Apart, WaitInv, BulkTells, Free
<1>3. listed[p] \subseteq Tasks /\ \A k \in Tasks : ended[k] # "no" => ended'[k] # "no"
  BY <1>1, Family DEF PoolType, Apart
<1>4. ASSUME NEW out, Finish(p, out), out = "completed" => \A k \in listed'[p] : ended'[k] # "no" PROVE BulkTells(p)'
  <2>1. wk'[p] = Free /\ status'[p] = out
    BY <1>1, <1>4 DEF Finish, PoolType
  <2> QED
    BY <1>2, <1>4, <2>1 DEF BulkTells
<1>7. CASE BulkList(p)
  <2> DEFINE found == {k \in Kids(p) : status[k] # "none"}
  <2>1. listed'[p] = found
    BY <1>7 DEF BulkList, PoolType
  <2>2. CASE Finish(p, "retrying")
    BY <1>4, <2>2
  <2>3. CASE found = {} /\ Finish(p, "completed")
    BY <1>4, <2>1, <2>3
  <2>4. ASSUME NEW list \in ByCreation(p, found), found # {},
               wk' = [wk EXCEPT ![p].pc = "push", ![p].left = found, ![p].todo = list], status' = status
        PROVE  BulkTells(p)'
    <3>1. wk'[p].pc = "push" /\ wk'[p].left = found /\ wk'[p] # Free
      BY <1>1, <1>2, <2>4 DEF PoolType, BulkWork
    <3> QED
      BY <1>2, <2>1, <2>4, <3>1 DEF BulkTells
  <2> QED
    BY <1>7, <2>2, <2>3, <2>4 DEF BulkList
<1>8. CASE BulkPush(p)
  <2>1. wk'[p].left = wk[p].left /\ wk'[p] # Free
    BY <1>1, <1>2, <1>8 DEF BulkPush, PoolType, BulkWork, Free
  <2> QED
    BY <1>2, <1>3, <1>8, <2>1 DEF BulkPush, BulkTells
<1>9. CASE BulkMark(p)
  <2>1. wk'[p].left = wk[p].left /\ wk'[p] # Free
    BY <1>1, <1>2, <1>9 DEF BulkMark, PoolType, BulkWork, Free
  <2>2. status'[p] = status[p]
    <3>1. wk[p].todo \in Seq(Kids(p)) /\ wk[p].todo # << >>
      BY <1>2, <1>9 DEF BulkMark, Known, KnownBulk
    <3>2. Head(wk[p].todo) # p
      BY <1>1, <3>1
    <3> QED
      BY <1>1, <1>9, <3>2 DEF BulkMark, PoolType
  <2> QED
    BY <1>2, <1>3, <1>9, <2>1, <2>2 DEF BulkMark, BulkTells
<1>10. CASE BulkPoll(p)
  <2>1. PICK k \in wk[p].left : Over(status[k]) /\ wk' = [wk EXCEPT ![p].left = @ \ {k}]
    BY <1>10 DEF BulkPoll
  <2>2. wk'[p].left = wk[p].left \ {k} /\ wk'[p] # Free
    BY <1>1, <1>2, <2>1 DEF PoolType, BulkWork, Free
  <2>3. ended[k] # "no"
    <3>1. k \in Leaves
      BY <1>2 DEF BulkWork
    <3> QED
      BY <2>1, <3>1 DEF Over, WaitInv, LeafTells
  <2>4. status'[p] = status[p] /\ listed' = listed /\ ended' = ended
    BY <1>10 DEF BulkPoll
  <2> QED
    BY <1>2, <1>10, <2>2, <2>3, <2>4 DEF BulkPoll, BulkTells
<1>11. CASE BulkCancelled(p)
  BY <1>4, <1>11 DEF BulkCancelled
<1>12. CASE BulkDone(p)
  <2>1. \A k \in listed[p] : ended[k] # "no"
    BY <1>2, <1>12 DEF BulkDone, BulkTells
  <2>2. \A k \in listed'[p] : ended'[k] # "no"
    BY <1>3, <1>12, <2>1 DEF BulkDone
  <2> QED
    BY <1>4, <1>12, <2>2 DEF BulkDone
<1>13. ~LeafDone(p) /\ ~EnvBegin(p) /\ ~EnvStep(p) /\ ~EnvCancelled(p) /\ ~EnvDispatch(p) /\ ~EnvEnqueue(p) /\ ~EnvMark(p) /\ ~EnvWait(p)
       /\ ~EnvDone(p)
  BY <1>1, WorkKinds DEF LeafDone, EnvBegin, EnvStep, EnvCancelled, EnvDispatch, EnvEnqueue, EnvMark, EnvWait, EnvDone
<1> QED
  BY <1>7, <1>8, <1>9, <1>10, <1>11, <1>12, <1>13 DEF Handler

LEMMA WaitNext == PoolType /\ Known /\ WaitInv /\ [PoolNext]_poolVars => WaitInv'
<1> SUFFICES ASSUME PoolType, Known, WaitInv, [PoolNext]_poolVars PROVE WaitInv'
  OBVIOUS
<1>1. CASE UNCHANGED poolVars
  <2>1. (\A k \in Leaves : LeafTells(k)' <=> LeafTells(k)) /\ (\A p \in BulkParents : BulkTells(p)' <=> BulkTells(p))
    BY <1>1 DEF poolVars, LeafTells, BulkTells
  <2> QED
    BY <2>1 DEF WaitInv
<1>2. ASSUME PoolStep PROVE WaitInv'
  <2> DEFINE LeafSame(k) == (status'[k] = status[k] \/ status'[k] \in {"pending", "queued", "running"})
             Grows       == \A t \in Tasks : (ended[t] = "ok" => ended'[t] = "ok") /\ (ended[t] # "no" => ended'[t] # "no")
             BulkSame(p) == wk'[p] = wk[p] /\ listed'[p] = listed[p] /\ (status'[p] = status[p] \/ status'[p] # "completed")
  <2>1. /\ \A p \in BulkParents : p \in Tasks /\ p \in Parents /\ p \notin EnvParents /\ p \notin Leaves
        /\ \A p \in EnvParents : p \in Tasks /\ p \in Parents /\ p \notin BulkParents /\ p \notin Leaves
        /\ \A k \in Leaves : k \in Tasks /\ k \notin Parents /\ k \notin BulkParents /\ k \notin EnvParents
        /\ \A p \in Parents : p \in Tasks
        /\ Free.pc = "free"
    BY Family DEF Free
  <2>2. ASSUME NEW k \in Leaves, LeafSame(k), Grows PROVE LeafTells(k)'
    BY <2>1, <2>2 DEF WaitInv, LeafTells, Terminal
  <2>3. ASSUME NEW p \in BulkParents, BulkSame(p), Grows PROVE BulkTells(p)'
    <3>1. BulkTells(p) /\ listed[p] \subseteq Tasks
      BY <2>1 DEF WaitInv, PoolType
    <3> QED
      BY <2>3, <3>1 DEF BulkTells
  <2>4. ASSUME UNCHANGED <<wk, listed, ended>>, status' = status PROVE WaitInv'
    BY <2>2, <2>3, <2>4 DEF WaitInv
  <2>5. ASSUME UNCHANGED <<wk, listed, ended>>, NEW t \in Tasks, NEW s, s \notin Terminal \/ (s # "completed" /\ t \in Parents),
               status' = [status EXCEPT ![t] = s], s \in {"pending", "queued", "running", "cancelled"}
        PROVE  WaitInv'
    <3>1. \A k \in Leaves : LeafSame(k)
      BY <2>1, <2>5 DEF PoolType, Terminal
    <3>2. \A p \in BulkParents : BulkSame(p)
      BY <2>1, <2>5 DEF PoolType
    <3> QED
      BY <2>2, <2>3, <2>5, <3>1, <3>2 DEF WaitInv
  <2> HIDE DEF LeafSame, Grows, BulkSame
  <2>6. "pending" \notin Terminal /\ "queued" \notin Terminal
    BY DEF Terminal
  <2>7. ASSUME NEW p \in BulkParents, BulkSubmit(p) \/ BulkCreateChild(p) \/ BulkEnqueue(p) \/ BulkQueued(p) PROVE WaitInv'
    <3>1. CASE BulkCreateChild(p)
      <4>1. sub[p].todo \in Seq(Kids(p)) /\ Kids(p) \subseteq Leaves /\ sub[p].todo # << >>
        BY <2>1, <3>1, Family DEF BulkCreateChild, Known, KnownBulk
      <4>2. Head(sub[p].todo) \in Leaves
        BY <4>1
      <4>3. PICK k \in Leaves : status' = status \/ status' = [status EXCEPT ![k] = "pending"]
        BY <3>1, <4>2 DEF BulkCreateChild
      <4> QED
        BY <2>1, <2>4, <2>5, <2>6, <3>1, <4>3 DEF BulkCreateChild
    <3> QED
      BY <2>1, <2>4, <2>5, <2>6, <2>7, <3>1 DEF BulkSubmit, BulkEnqueue, BulkQueued
  <2>8. ASSUME NEW p \in EnvParents, EnvSubmit(p) \/ DeleteRun(p) PROVE WaitInv'
    BY <2>1, <2>4, <2>5, <2>6, <2>8 DEF EnvSubmit, DeleteRun
  <2>9. ASSUME NEW p \in Parents, CancelParent(p) PROVE WaitInv'
    BY <2>1, <2>5, <2>9 DEF CancelParent
  <2>10. ASSUME NEW t \in Tasks, TimerFires(t) \/ Rehydrate(t) PROVE WaitInv'
    BY <2>4, <2>5, <2>6, <2>10 DEF TimerFires, Rehydrate
  <2>11. ASSUME Take PROVE WaitInv'
    <3>1. PICK t \in Tasks :
              /\ \A u \in Tasks \ {t} : status'[u] = status[u] /\ wk'[u] = wk[u] /\ ended'[u] = ended[u]
              /\ \/ wk[t] # Free /\ wk'[t] = wk[t] /\ status'[t] = status[t] /\ ended'[t] = ended[t]
                 \/ wk[t] = Free /\ wk'[t] = Free /\ status'[t] = "cancelled" /\ ended'[t] # "no" /\ (ended[t] = "ok" => ended'[t] = "ok")
                 \/ wk[t] = Free /\ wk'[t] = Begin(t) /\ status'[t] = "running" /\ ended'[t] = ended[t]
              /\ listed' = listed
      BY <2>11, TakeEffect
    <3>2. Grows
      BY <3>1 DEF Grows
    <3>3. ASSUME NEW k \in Leaves PROVE LeafTells(k)'
      <4>1. CASE LeafSame(k)
        BY <2>2, <3>2, <4>1
      <4>2. CASE ~LeafSame(k)
        <5>1. k = t /\ status'[k] = "cancelled" /\ ended'[k] # "no"
          BY <2>1, <3>1, <4>2 DEF LeafSame
        <5> QED
          BY <5>1 DEF LeafTells
      <4> QED
        BY <4>1, <4>2
    <3>4. ASSUME NEW p \in BulkParents PROVE BulkTells(p)'
      <4>1. CASE BulkSame(p)
        BY <2>3, <3>2, <4>1
      <4>2. CASE ~BulkSame(p)
        <5>1. p = t /\ wk'[p] = Begin(p) /\ status'[p] = "running"
          BY <2>1, <3>1, <4>2 DEF BulkSame
        <5>2. wk'[p].pc = "bulk"
          BY <2>1, <5>1, BeginTyped
        <5> QED
          BY <5>1, <5>2 DEF BulkTells
      <4> QED
        BY <4>1, <4>2
    <3> QED
      BY <3>3, <3>4 DEF WaitInv
  <2>12. ASSUME NEW t \in Tasks, Expire(t) PROVE WaitInv'
    <3>1. wk' = [wk EXCEPT ![t] = [wk[t] EXCEPT !.expired = TRUE]] /\ wk[t].pc \notin {"free", "leaf"} /\ UNCHANGED <<status, ended, listed>>
      BY <2>12 DEF Expire, PoolType
    <3>2. \A u \in Tasks \ {t} : wk'[u] = wk[u]
      BY <3>1 DEF PoolType
    <3>3. Grows /\ \A k \in Leaves : LeafSame(k)
      BY <3>1 DEF Grows, LeafSame
    <3>4. ASSUME NEW p \in BulkParents PROVE BulkTells(p)'
      <4>1. CASE p # t
        BY <2>1, <2>3, <3>1, <3>2, <3>3, <4>1 DEF BulkSame
      <4>2. CASE p = t
        <5>1. wk[p] \in BulkWork
          BY <2>1, <3>1, <4>2, WorkKinds
        <5>2. wk'[p].pc = wk[p].pc /\ wk'[p].left = wk[p].left /\ wk[p] # Free
          BY <2>1, <3>1, <4>2, <5>1 DEF PoolType, BulkWork
        <5> QED
          BY <3>1, <5>2 DEF WaitInv, BulkTells
      <4> QED
        BY <4>1, <4>2
    <3> QED
      BY <2>2, <3>3, <3>4 DEF WaitInv
  <2>13. ASSUME NEW t \in Tasks, Handler(t) PROVE WaitInv'
    <3>1. Apart(t)
      BY <2>13, HandlerApart
    <3>2. Grows
      BY <3>1 DEF Grows, Apart
    <3>3. ASSUME NEW k \in Leaves PROVE LeafTells(k)'
      <4>1. CASE k # t
        <5>1. LeafSame(k)
          BY <2>1, <3>1, <4>1 DEF LeafSame, Apart
        <5> QED
          BY <2>2, <3>2, <5>1
      <4>2. CASE k = t
        <5>1. LeafDone(t)
          <6>1. wk[t] \in LeafWork /\ t \notin BulkParents /\ t \notin EnvParents
            BY <2>1, <3>1, <4>2, WorkKinds DEF Apart
          <6>2. wk[t].pc = "leaf"
            BY <6>1 DEF LeafWork
          <6> QED
            BY <2>13, <6>1, <6>2 DEF Handler, BulkList, BulkPush, BulkMark, BulkPoll, BulkCancelled, BulkDone, EnvBegin, EnvStep, EnvCancelled,
                  EnvDispatch, EnvEnqueue, EnvMark, EnvWait, EnvDone
        <5>2. PICK out \in {"completed", "failed", "retrying"} : Finish(t, out)
          BY <5>1 DEF LeafDone
        <5>3. status'[t] = out /\ (out \in Terminal => ended'[t] # "no") /\ (out = "completed" => ended'[t] = "ok")
          <6>1. out \in Statuses \ {"none"}
            BY DEF Statuses, Terminal
          <6> QED
            BY <5>2, <6>1, FinishEffect
        <5> QED
          BY <4>2, <5>3 DEF LeafTells
      <4> QED
        BY <4>1, <4>2
    <3>4. ASSUME NEW p \in BulkParents PROVE BulkTells(p)'
      <4>1. CASE p # t
        <5>1. BulkSame(p)
          <6>1. t \in Parents => p \notin Kids(t)
            BY <2>1, Family
          <6> QED
            BY <2>1, <3>1, <4>1, <6>1 DEF BulkSame, Apart
        <5> QED
          BY <2>3, <3>2, <5>1
      <4>2. CASE p = t
        BY <2>13, <3>1, <4>2, BulkWaits
      <4> QED
        BY <4>1, <4>2
    <3> QED
      BY <3>3, <3>4 DEF WaitInv
  <2> QED
    BY <1>2, <2>7, <2>8, <2>9, <2>10, <2>11, <2>12, <2>13 DEF PoolStep
<1> QED
  BY <1>1, <1>2 DEF PoolNext

\* The variables of the pool keep their types, whatever the number of workers and tasks: the type invariant of the
\* rows, the queue, what each worker does and the requests.
THEOREM PoolTypeCorrect == PoolSpec => []PoolType
<1>1. PoolInit => PoolType /\ Known
  BY PoolInitial
<1>2. PoolType /\ Known /\ [PoolNext]_poolVars => (PoolType /\ Known)'
  BY PoolTypeNext, KnownNext
<1> QED
  BY <1>1, <1>2, PTL DEF PoolSpec

\* Orchestration.ParentWaits: when handleBulkParent completes a parent, every child that its ListByParentID found has
\* ended at least once, however children are retried, enqueued twice, taken by two workers or overwritten.
THEOREM ParentWaitsCorrect == PoolSpec => []ParentWaits
<1>1. PoolInit => PoolType /\ Known /\ WaitInv
  BY PoolInitial
<1>2. PoolType /\ Known /\ WaitInv /\ [PoolNext]_poolVars => (PoolType /\ Known /\ WaitInv)'
  BY PoolTypeNext, KnownNext, WaitNext
<1>3. WaitInv => ParentWaits
  BY DEF WaitInv, BulkTells, ParentWaits
<1> QED
  BY <1>1, <1>2, <1>3, PTL DEF PoolSpec


----------------------------------------------------------------------------
(* Orchestration: the rows of a run tell what happened *)

LEMMA QueueAdds ==
    ASSUME queue \in Seq(Tasks), NEW t \in Tasks, NEW p \in Tasks, p # t, queue' = Append(queue, t)
    PROVE  (InQueue(p)' <=> InQueue(p)) /\ (Once(p) => Once(p)')
<1>1. /\ Len(queue) \in Nat /\ Len(queue') = Len(queue) + 1
      /\ \A i \in 1..Len(queue) : queue'[i] = queue[i]
      /\ queue'[Len(queue) + 1] = t
  OBVIOUS
<1>2. \A i \in 1..Len(queue') : queue'[i] = p => i \in 1..Len(queue) /\ queue[i] = p
  BY <1>1
<1>3. \A i \in 1..Len(queue) : i \in 1..Len(queue')
  BY <1>1
<1> QED
  BY <1>1, <1>2, <1>3 DEF InQueue, Once

LEMMA QueueTakes ==
    ASSUME queue \in Seq(Tasks), queue # << >>, NEW p \in Tasks, queue' = Tail(queue)
    PROVE  (InQueue(p)' => InQueue(p)) /\ (Once(p) => Once(p)') /\ (Once(p) /\ queue[1] = p => ~InQueue(p)')
<1>1. /\ Len(queue) \in Nat \ {0} /\ Len(queue') = Len(queue) - 1
      /\ \A i \in 1..Len(queue') : queue'[i] = queue[i + 1] /\ i + 1 \in 1..Len(queue) /\ i + 1 # 1
      /\ 1 \in 1..Len(queue)
  OBVIOUS
<1>2. InQueue(p)' => InQueue(p)
  BY <1>1 DEF InQueue
<1>3. ASSUME Once(p) PROVE Once(p)'
  <2> SUFFICES ASSUME NEW i \in 1..Len(queue'), NEW j \in 1..Len(queue'), queue'[i] = p, queue'[j] = p PROVE i = j
    BY DEF Once
  <2>1. i + 1 = j + 1
    BY <1>1, <1>3 DEF Once
  <2> QED
    BY <1>1, <2>1
<1>4. ASSUME Once(p), queue[1] = p PROVE ~InQueue(p)'
  BY <1>1, <1>4 DEF InQueue, Once
<1> QED
  BY <1>2, <1>3, <1>4

\* The steps of a run and the tasks of them.
LEMMA Steps ==
    ASSUME PoolType, NEW p \in EnvParents
    PROVE  /\ \A j \in DOMAIN step[p] : /\ j \in 1..Len(KidsOf[p]) /\ j \in Nat /\ step[p][j] \in StepStatuses
                                        /\ KidsOf[p][j] \in Kids(p) /\ KidsOf[p][j] \in Tasks /\ KidsOf[p][j] \in Leaves
           /\ step[p] # << >> => DOMAIN step[p] = 1..Len(KidsOf[p]) /\ Len(step[p]) = Len(KidsOf[p]) /\ Len(KidsOf[p]) \in Nat \ {0}
           /\ step[p] = << >> => DOMAIN step[p] = {}
           /\ \A x : IsFiniteSet(Passed(p, x)) /\ Cardinality(Passed(p, x)) \in Nat
           /\ \A i, j \in 1..Len(KidsOf[p]) : KidsOf[p][i] = KidsOf[p][j] => i = j
<1>1. step[p] \in Seq(StepStatuses) /\ (step[p] # << >> => DOMAIN step[p] = DOMAIN KidsOf[p])
  BY DEF PoolType
<1>2. p \in Parents /\ KidsOf[p] \in Seq(Kids(p)) /\ Kids(p) \subseteq Leaves /\ DOMAIN KidsOf[p] = 1..Len(KidsOf[p]) /\ Len(KidsOf[p]) \in Nat
  BY Family
<1>3. step[p] = << >> => DOMAIN step[p] = {}
  OBVIOUS
<1>4. step[p] # << >> => DOMAIN step[p] = 1..Len(KidsOf[p]) /\ Len(step[p]) = Len(KidsOf[p]) /\ Len(KidsOf[p]) \in Nat \ {0}
  <2> SUFFICES ASSUME step[p] # << >> PROVE DOMAIN step[p] = 1..Len(KidsOf[p]) /\ Len(step[p]) = Len(KidsOf[p]) /\ Len(KidsOf[p]) \in Nat \ {0}
    OBVIOUS
  <2>1. DOMAIN step[p] = 1..Len(step[p]) /\ Len(step[p]) \in Nat \ {0}
    BY <1>1
  <2> QED
    BY <1>1, <1>2, <2>1
<1>5. \A j \in DOMAIN step[p] : j \in 1..Len(KidsOf[p]) /\ j \in Nat /\ step[p][j] \in StepStatuses
  BY <1>1, <1>2, <1>3
<1>6. \A j \in 1..Len(KidsOf[p]) : KidsOf[p][j] \in Kids(p) /\ KidsOf[p][j] \in Tasks /\ KidsOf[p][j] \in Leaves
  BY <1>2, Family
<1>7. ASSUME NEW x PROVE IsFiniteSet(Passed(p, x)) /\ Cardinality(Passed(p, x)) \in Nat
  <2>1. IsFiniteSet(1..Len(KidsOf[p]))
    <3>1. \A n \in Nat : IsFiniteSet(1..n)
      BY FS_Interval
    <3> QED
      BY <1>2, <3>1
  <2>2. Passed(p, x) \subseteq 1..Len(KidsOf[p])
    BY <1>5 DEF Passed
  <2> QED
    BY <2>1, <2>2, FS_Subset, FS_CardinalityType
<1>8. \A i, j \in 1..Len(KidsOf[p]) : KidsOf[p][i] = KidsOf[p][j] => i = j
  BY <1>2, OrchestrationAssumption
<1> QED
  BY <1>3, <1>4, <1>5, <1>6, <1>7, <1>8

\* Steps that are not about p, or only cancel it.
LEMMA EnvStill ==
    ASSUME PoolType, NEW p \in EnvParents, EnvInv(p), scene' = scene,
           wk'[p] = wk[p], run'[p] = run[p], step'[p] = step[p],
           status'[p] \in {"none", "queued", "running"} \cup Terminal, status'[p] = "none" => status[p] = "none",
           p \notin timers',
           \A k \in Kids(p) : (status'[k] = "none" <=> status[k] = "none") /\ (ended[k] = "ok" => ended'[k] = "ok"),
           InQueue(p)' => InQueue(p), Once(p)'
    PROVE  EnvInv(p)'
<1>1. \A j \in DOMAIN step[p] : KidsOf[p][j] \in Kids(p)
  BY Steps
<1>2. Fresh(p) => Fresh(p)'
  BY <1>1 DEF Fresh
<1>3. \A x : Passed(p, x)' = Passed(p, x)
  BY DEF Passed
<1>4. Doing(p) => Doing(p)'
  BY <1>1, <1>3 DEF Doing
<1>5. Tells(p) => Tells(p)'
  BY <1>1 DEF Tells
<1> QED
  BY <1>2, <1>4, <1>5 DEF EnvInv

\* A parent that the scene does not submit.
LEMMA EnvIdle ==
    ASSUME PoolType', Known', NEW p \in EnvParents, p \notin scene'.parents, step'[p] = << >>
    PROVE  EnvInv(p)'
<1>1. p \in Parents /\ p \in Tasks /\ Free.pc = "free"
  BY Family DEF Free
<1>2. status'[p] = "none" /\ wk'[p] = Free /\ p \notin timers'
  BY <1>1 DEF Known
<1>3. ~InQueue(p)'
  BY <1>2 DEF InQueue, Known
<1>4. Once(p)'
  BY <1>3 DEF Once, InQueue
<1>5. Tells(p)'
  BY DEF Tells
<1> QED
  BY <1>1, <1>2, <1>3, <1>4, <1>5 DEF EnvInv


\* The next step of a run: rows before the current one stay, the current one is not over yet.
LEMMA DoingStill ==
    ASSUME PoolType, NEW p \in EnvParents, Doing(p),
           wk'[p].i = wk[p].i, wk'[p].done = wk[p].done, wk'[p].failed = wk[p].failed, wk'[p].expired = wk[p].expired,
           DOMAIN step'[p] = DOMAIN step[p], step'[p] = << >> <=> step[p] = << >>,
           \A j \in DOMAIN step[p] : step'[p][j] = step[p][j] \/ (j = wk[p].i /\ step'[p][j] = "running"),
           step[p] # << >> => run'[p].status \notin {"completed", "failed"},
           wk[p].i \in Nat,
           \A j \in DOMAIN step[p] : status'[KidsOf[p][j]] # "none" =>
                status[KidsOf[p][j]] # "none" \/ (j = wk[p].i /\ wk'[p].pc \in {"enqueue", "mark", "wait"}),
           wk[p].pc \in {"enqueue", "mark", "wait"} => wk'[p].pc \in {"enqueue", "mark", "wait"}
    PROVE  Doing(p)'
<1>1. \A x : Passed(p, x)' = Passed(p, x)
  <2>1. \A j \in DOMAIN step[p] : j < wk[p].i => step'[p][j] = step[p][j]
    BY Steps
  <2> QED
    BY <2>1 DEF Passed
<1>2. \A j \in DOMAIN step[p] : j < wk[p].i => step'[p][j] = step[p][j]
  BY Steps
<1>3. wk'[p].done + wk'[p].failed + 1 = wk'[p].i
  BY DEF Doing
<1>4. ASSUME step[p] # << >> PROVE
         /\ \A j \in DOMAIN step[p] : status'[KidsOf[p][j]] # "none" => j < wk[p].i \/ (j = wk[p].i /\ wk'[p].pc \in {"enqueue", "mark", "wait"})
         /\ \A j \in DOMAIN step[p] : j >= wk[p].i => step'[p][j] \notin {"completed", "failed"}
         /\ ~wk[p].expired =>
               /\ \A j \in DOMAIN step[p] : j < wk[p].i => step'[p][j] \in {"completed", "failed"}
               /\ Cardinality(Passed(p, "completed")) = wk[p].done
               /\ Cardinality(Passed(p, "failed")) = wk[p].failed
  <2>1. \A j \in DOMAIN step[p] : status'[KidsOf[p][j]] # "none" => j < wk[p].i \/ (j = wk[p].i /\ wk'[p].pc \in {"enqueue", "mark", "wait"})
    BY <1>4 DEF Doing
  <2>2. \A j \in DOMAIN step[p] : j >= wk[p].i => step'[p][j] \notin {"completed", "failed"}
    BY <1>4 DEF Doing
  <2> QED
    BY <1>2, <1>4, <2>1, <2>2 DEF Doing
<1> QED
  BY <1>1, <1>3, <1>4 DEF Doing

\* The rows of a run under way tell the truth if a step is completed only when its task has succeeded.
LEMMA TellsStill ==
    ASSUME PoolType, NEW p \in EnvParents, Tells(p),
           DOMAIN step'[p] = DOMAIN step[p], step'[p] = << >> <=> step[p] = << >>,
           \A j \in DOMAIN step[p] : step'[p][j] = step[p][j] \/ /\ step[p][j] \notin {"completed", "failed"}
                                                                 /\ step'[p][j] = "completed" => ended'[KidsOf[p][j]] = "ok",
           step[p] # << >> => run'[p].status \notin {"completed", "failed"},
           \A k \in Tasks : ended[k] = "ok" => ended'[k] = "ok",
           \A j \in DOMAIN step[p] : status'[KidsOf[p][j]] # "none" =>
                status[KidsOf[p][j]] # "none" \/ \A i \in 1..j - 1 : step[p][i] \in {"completed", "failed"}
    PROVE  Tells(p)'
<1> SUFFICES ASSUME step'[p] # << >> PROVE
       /\ \A j \in DOMAIN step'[p] : status'[KidsOf[p][j]] # "none" => \A i \in 1..j - 1 : step'[p][i] \in {"completed", "failed"}
       /\ \A i \in {j \in DOMAIN step'[p] : step'[p][j] = "completed"} : ended'[KidsOf[p][i]] = "ok"
  BY DEF Tells
<1>1. step[p] # << >> /\ DOMAIN step[p] = 1..Len(KidsOf[p]) /\ Len(KidsOf[p]) \in Nat
  BY Steps
<1>2. ASSUME NEW j \in DOMAIN step'[p], status'[KidsOf[p][j]] # "none", NEW i \in 1..j - 1 PROVE step'[p][i] \in {"completed", "failed"}
  <2>1. step[p][i] \in {"completed", "failed"}
    BY <1>1, <1>2 DEF Tells
  <2>2. i \in DOMAIN step[p]
    BY <1>1, <1>2
  <2> QED
    BY <2>1, <2>2
<1>3. ASSUME NEW i \in DOMAIN step'[p], step'[p][i] = "completed" PROVE ended'[KidsOf[p][i]] = "ok"
  <2>1. CASE step'[p][i] = step[p][i]
    <3>1. ended[KidsOf[p][i]] = "ok"
      BY <1>1, <1>3, <2>1 DEF Tells
    <3>2. KidsOf[p][i] \in Tasks
      BY <1>3, Steps
    <3> QED
      BY <3>1, <3>2
  <2> QED
    BY <1>3, <2>1
<1> QED
  BY <1>2, <1>3

\* The end of a step.
LEMMA DoingOver ==
    ASSUME PoolType, NEW p \in EnvParents, Doing(p), wk[p] \in EnvWork, wk[p].pc \in {"dispatch", "enqueue", "mark", "wait"},
           wk[p].i \in 1..Len(KidsOf[p]), NEW ok \in BOOLEAN, StepOver(p, ok), status' = status
    PROVE  /\ Doing(p)' /\ wk'[p].pc = "step"
           /\ DOMAIN step'[p] = DOMAIN step[p] /\ (step'[p] = << >> <=> step[p] = << >>)
           /\ \A j \in DOMAIN step[p] : step'[p][j] = step[p][j] \/ (j = wk[p].i /\ step'[p][j] = (IF ok THEN "completed" ELSE "failed"))
           /\ step[p] # << >> => run'[p].status \notin {"completed", "failed"}
<1> DEFINE d == wk[p].done + (IF ok THEN 1 ELSE 0)
           f == wk[p].failed + (IF ok THEN 0 ELSE 1)
           s == IF ok THEN "completed" ELSE "failed"
           w == [wk[p] EXCEPT !.pc = "step", !.i = wk[p].i + 1, !.done = d, !.failed = f]
           r == [run[p] EXCEPT !.done = d, !.failed = f]
           n == wk[p].i
<1>1. /\ d \in Nat /\ f \in Nat /\ wk' = [wk EXCEPT ![p] = w] /\ w \in EnvWork /\ UpdateStepStatus(p, s) /\ UpdateRun(p, r)
      /\ r \in RunRow /\ r.status = run[p].status
  <2>1. d \in Nat /\ f \in Nat
    BY StepOverEffect
  <2>2. wk' = [wk EXCEPT ![p] = w] /\ w \in EnvWork
    BY StepOverEffect
  <2>3. UpdateStepStatus(p, s) /\ UpdateRun(p, r)
    BY StepOverEffect
  <2>4. r \in RunRow /\ r.status = run[p].status
    BY StepOverEffect
  <2> QED
    BY <2>1, <2>2, <2>3, <2>4
<1>2. w.pc = "step" /\ w.i = n + 1 /\ w.done = d /\ w.failed = f /\ w.expired = wk[p].expired
  BY DEF EnvWork
<1>3. s \in StepStatuses /\ s \in {"completed", "failed"} /\ (s = "completed" <=> ok)
  BY DEF StepStatuses
<1>4. n \in Nat /\ wk[p].done \in Nat /\ wk[p].failed \in Nat /\ wk[p].expired \in BOOLEAN
  BY DEF EnvWork
<1>5. d + f + 1 = n + 1
  BY <1>4 DEF Doing
<1>6. d = (IF ok THEN wk[p].done + 1 ELSE wk[p].done) /\ f = (IF ok THEN wk[p].failed ELSE wk[p].failed + 1)
  BY <1>4
<1> HIDE DEF d, f, s, w, r
<1>7. wk'[p] = w
  BY <1>1, Family DEF PoolType
<1>8. /\ DOMAIN step'[p] = DOMAIN step[p] /\ (step'[p] = << >> <=> step[p] = << >>)
      /\ wk[p].expired => step'[p] = step[p]
      /\ \A j \in DOMAIN step[p] : IF j = n /\ ~wk[p].expired THEN step'[p][j] = s ELSE step'[p][j] = step[p][j]
  BY <1>1, <1>3, StepEffect
<1>9. run'[p].status = run[p].status
  BY <1>1, RunEffect
<1>10. step[p] # << >> => run'[p].status \notin {"completed", "failed"}
  BY <1>9 DEF Doing
<1>11. ASSUME step[p] # << >>, ~wk[p].expired
       PROVE  /\ \A j \in DOMAIN step[p] : j < n + 1 => step'[p][j] \in {"completed", "failed"}
              /\ Cardinality(Passed(p, "completed")') = d
              /\ Cardinality(Passed(p, "failed")') = f
  <2>1. n \in DOMAIN step[p] /\ \A j \in DOMAIN step[p] : j \in Nat
    BY <1>11, Steps
  <2>2. \A j \in DOMAIN step[p] : j < n + 1 <=> j < n \/ j = n
    BY <1>4, <2>1
  <2>3. \A x : Passed(p, x)' = {j \in DOMAIN step[p] : (j < n /\ step[p][j] = x) \/ (j = n /\ s = x)}
    BY <1>2, <1>4, <1>7, <1>8, <1>11, <2>2 DEF Passed
  <2>4. ASSUME NEW x, x = s PROVE Passed(p, x)' = Passed(p, x) \cup {n}
    <3>1. Passed(p, x)' = {j \in DOMAIN step[p] : (j < n /\ step[p][j] = x) \/ j = n}
      BY <2>3, <2>4
    <3>2. Passed(p, x) = {j \in DOMAIN step[p] : j < n /\ step[p][j] = x}
      BY DEF Passed
    <3> QED
      BY <2>1, <3>1, <3>2
  <2>5. \A x : x # s => Passed(p, x)' = Passed(p, x)
    BY <2>3 DEF Passed
  <2>6. \A x : n \notin Passed(p, x) /\ IsFiniteSet(Passed(p, x)) /\ Cardinality(Passed(p, x)) \in Nat
    <3>1. \A x : n \notin Passed(p, x)
      <4>1. ~(n < n)
        BY <1>4
      <4> QED
        BY <4>1 DEF Passed
    <3> QED
      BY <3>1, Steps
  <2>7. /\ \A x : x = s => Cardinality(Passed(p, x)') = Cardinality(Passed(p, x)) + 1
        /\ \A x : x # s => Cardinality(Passed(p, x)') = Cardinality(Passed(p, x))
    <3>1. \A x : Cardinality(Passed(p, x) \cup {n}) = Cardinality(Passed(p, x)) + 1
      BY <2>6, FS_AddElement
    <3> QED
      BY <2>4, <2>5, <3>1
  <2>8. Cardinality(Passed(p, "completed")) = wk[p].done /\ Cardinality(Passed(p, "failed")) = wk[p].failed
    BY <1>11 DEF Doing
  <2>9. \A j \in DOMAIN step[p] : j < n + 1 => step'[p][j] \in {"completed", "failed"}
    BY <1>3, <1>8, <1>11, <2>2 DEF Doing
  <2> QED
    BY <1>3, <1>6, <2>7, <2>8, <2>9
<1>12. ASSUME step[p] # << >>
       PROVE  /\ \A j \in DOMAIN step[p] : status[KidsOf[p][j]] # "none" => j < n + 1
              /\ \A j \in DOMAIN step[p] : j >= n + 1 => step'[p][j] \notin {"completed", "failed"}
  <2>1. \A j \in DOMAIN step[p] : j \in Nat
    BY Steps
  <2>2. \A j \in DOMAIN step[p] : status[KidsOf[p][j]] # "none" => j < n \/ j = n
    BY <1>12 DEF Doing
  <2>3. \A j \in DOMAIN step[p] : j >= n => step[p][j] \notin {"completed", "failed"}
    BY <1>12 DEF Doing
  <2>4. \A j \in DOMAIN step[p] : j >= n + 1 => j >= n /\ j # n
    BY <1>4, <2>1
  <2>5. \A j \in DOMAIN step[p] : (j < n \/ j = n) => j < n + 1
    BY <1>4, <2>1
  <2> QED
    BY <1>8, <2>2, <2>3, <2>4, <2>5
<1>13. Doing(p)'
  BY <1>2, <1>5, <1>7, <1>8, <1>10, <1>11, <1>12 DEF Doing
<1> QED
  BY <1>2, <1>7, <1>8, <1>10, <1>13 DEF s


\* The end of a run: its final status and counts are those of its steps.
LEMMA DoneTells ==
    ASSUME PoolType, Known, NEW p \in EnvParents, Doing(p), Tells(p), wk[p] \in EnvWork, EnvDone(p),
           \A k \in Kids(p) : status'[k] = status[k] /\ ended'[k] = ended[k]
    PROVE  Tells(p)'
<1> DEFINE out == IF AllFailed(p) THEN "failed" ELSE "completed"
           r   == [status |-> out, done |-> wk[p].done, failed |-> wk[p].failed]
           In(x) == {i \in DOMAIN step[p] : step[p][i] = x}
<1>1. step' = step /\ wk[p].pc = "step" /\ wk[p].i > wk[p].n /\ UpdateRun(p, r)
  BY DEF EnvDone
<1>2. CASE step[p] = << >>
  BY <1>1, <1>2 DEF Tells
<1>3. CASE step[p] # << >>
  <2>1. /\ \A j \in DOMAIN step[p] : status'[KidsOf[p][j]] # "none" => \A i \in 1..j - 1 : step[p][i] \in {"completed", "failed"}
        /\ \A i \in In("completed") : ended'[KidsOf[p][i]] = "ok"
    <3>1. \A j \in DOMAIN step[p] : KidsOf[p][j] \in Kids(p)
      BY Steps
    <3> QED
      BY <1>3, <3>1 DEF Tells
  <2>2. CASE run'[p] = run[p]
    <3>1. run'[p].status \notin {"completed", "failed"}
      BY <1>3, <2>2 DEF Doing
    <3> QED
      BY <1>1, <2>1, <3>1 DEF Tells
  <2>3. CASE run'[p] # run[p]
    <3>1. run'[p] = r /\ ~wk[p].expired
      BY <1>1, <2>3 DEF UpdateRun, PoolType
    <3>2. wk[p].done \in Nat /\ wk[p].failed \in Nat /\ wk[p].i \in Nat /\ wk[p].n = Len(KidsOf[p]) /\ wk[p].i \in 1..wk[p].n + 1
      BY <1>1 DEF EnvWork, Known, KnownEnv
    <3>3. Len(step[p]) = Len(KidsOf[p]) /\ DOMAIN step[p] = 1..Len(KidsOf[p]) /\ Len(KidsOf[p]) \in Nat \ {0}
      BY <1>3, Steps
    <3>4. wk[p].i = Len(step[p]) + 1 /\ wk[p].done + wk[p].failed = Len(step[p])
      <4>1. wk[p].done + wk[p].failed + 1 = wk[p].i
        BY DEF Doing
      <4>2. wk[p].i = wk[p].n + 1
        BY <1>1, <3>2, <3>3
      <4>3. Len(step[p]) \in Nat /\ wk[p].n = Len(step[p])
        BY <3>2, <3>3
      <4>4. wk[p].i = Len(step[p]) + 1
        BY <4>2, <4>3
      <4> HIDE DEF Doing
      <4> QED
        BY <3>2, <4>1, <4>3, <4>4
    <3>5. \A x : Passed(p, x) = In(x)
      <4>1. \A j \in DOMAIN step[p] : j < wk[p].i
        BY <3>3, <3>4
      <4> QED
        BY <4>1 DEF Passed
    <3>6. Cardinality(In("completed")) = wk[p].done /\ Cardinality(In("failed")) = wk[p].failed
      BY <1>3, <3>1, <3>5 DEF Doing
    <3>7. run'[p].done = wk[p].done /\ run'[p].failed = wk[p].failed /\ run'[p].status = out
      BY <3>1
    <3>8. out = "completed" => wk[p].done > 0
      <4>1. out = "completed" => ~(wk[p].failed > 0 /\ wk[p].done = 0)
        BY DEF AllFailed
      <4>2. Len(step[p]) \in Nat \ {0}
        BY <3>3
      <4> HIDE DEF out
      <4> QED
        BY <3>2, <3>4, <4>1, <4>2
    <3>9. out = "failed" => In("completed") = {}
      <4>1. out = "failed" => Cardinality(In("completed")) = 0
        BY <3>6 DEF AllFailed
      <4>2. IsFiniteSet(In("completed"))
        <5>1. IsFiniteSet(Passed(p, "completed"))
          BY Steps
        <5> QED
          BY <3>5, <5>1
      <4> QED
        BY <4>1, <4>2, FS_EmptySet
    <3> HIDE DEF out, r, In
    <3>10. step[p] # << >> =>
             /\ \A j \in DOMAIN step[p] : status'[KidsOf[p][j]] # "none" => \A i \in 1..j - 1 : step[p][i] \in {"completed", "failed"}
             /\ \A i \in In("completed") : ended'[KidsOf[p][i]] = "ok"
             /\ run'[p].status = "completed" =>
                  /\ run'[p].done = Cardinality(In("completed")) /\ run'[p].failed = Cardinality(In("failed"))
                  /\ run'[p].done > 0 /\ run'[p].done + run'[p].failed = Len(step[p])
             /\ run'[p].status = "failed" => In("completed") = {}
      BY <2>1, <3>4, <3>6, <3>7, <3>8, <3>9
    <3> QED
      BY <1>1, <3>10 DEF Tells, In
  <2> QED
    BY <2>2, <2>3
<1> QED
  BY <1>2, <1>3

\* The steps of the parent's own handler.
LEMMA EnvOwn ==
    ASSUME PoolType, Known, WaitInv, NEW p \in EnvParents, EnvInv(p), Handler(p), Apart(p)
    PROVE  EnvInv(p)'
<1>1. p \in Tasks /\ p \in Parents /\ p \notin BulkParents /\ p \notin Leaves /\ p \notin Kids(p) /\ Free.pc = "free" /\ Kids(p) \subseteq Tasks
      /\ Kids(p) \subseteq Leaves
  BY Family DEF Free, Tasks
<1>2. wk[p] # Free /\ wk[p] \in EnvWork /\ KnownEnv(p) /\ ~InQueue(p) /\ Once(p) /\ p \notin timers'
  BY <1>1, WorkKinds DEF Apart, Known, EnvInv
<1>3. /\ wk[p].pc \in {"env", "step", "dispatch", "enqueue", "mark", "wait"} /\ wk[p].i \in Nat /\ Tells(p)
      /\ wk[p].pc # "env" => Doing(p)
  BY <1>2 DEF EnvWork, EnvInv
<1>4. ~InQueue(p)' /\ Once(p)'
  <2>1. CASE queue' = queue
    BY <1>2, <2>1 DEF InQueue, Once
  <2>2. ASSUME NEW k \in Leaves, queue' = Append(queue, k) PROVE ~InQueue(p)' /\ Once(p)'
    <3>1. queue \in Seq(Tasks) /\ k \in Tasks /\ k # p
      BY <1>1, Family DEF PoolType
    <3> QED
      BY <1>1, <1>2, <2>2, <3>1, QueueAdds
  <2> QED
    BY <2>1, <2>2 DEF Apart
<1>5. /\ \A k \in Tasks : ended[k] = "ok" => ended'[k] = "ok"
      /\ status'[p] # "none" /\ \A j \in DOMAIN step[p] : KidsOf[p][j] \in Kids(p) /\ KidsOf[p][j] # p
  BY <1>1, Steps DEF Apart
<1>6. ASSUME NEW out \in {"completed", "failed", "cancelled"}, Finish(p, out), Tells(p)' PROVE EnvInv(p)'
  <2>1. wk'[p] = Free /\ status'[p] = out /\ out \in Terminal
    BY <1>1, <1>6 DEF Finish, PoolType, Terminal
  <2> QED
    BY <1>1, <1>2, <1>4, <1>5, <1>6, <2>1 DEF EnvInv
<1>7. ASSUME status'[p] = status[p], wk'[p].pc \in {"step", "dispatch", "enqueue", "mark", "wait"}, Doing(p)', Tells(p)' PROVE EnvInv(p)'
  BY <1>2, <1>4, <1>5, <1>7 DEF EnvInv
\* What handlers other than that of a step's end do to the row of the run.
<1>8. ASSUME NEW s \in {"running", "failed", "completed", "cancelled"}, UpdateRun(p, [run[p] EXCEPT !.status = s])
      PROVE  run'[p].status \in {run[p].status, s}
  <2>1. run[p] \in RunRow
    BY DEF PoolType
  <2>2. [run[p] EXCEPT !.status = s] \in RunRow /\ [run[p] EXCEPT !.status = s].status = s
    BY <2>1 DEF RunRow, RunStatuses
  <2> QED
    BY <1>8, <2>2, RunEffect
<1>9. CASE EnvBegin(p)
  <2>1. Fresh(p) /\ wk[p].i = 1 /\ wk[p].done = 0 /\ wk[p].failed = 0 /\ step' = step
    BY <1>9 DEF EnvBegin, EnvInv
  <2>2. CASE step[p] = << >>
    <3>1. Tells(p)'
      BY <2>1, <2>2 DEF Tells
    <3> QED
      BY <1>6, <1>9, <2>2, <3>1 DEF EnvBegin
  <2>3. CASE step[p] # << >> /\ CallFails(p) /\ UpdateRun(p, [run[p] EXCEPT !.status = "failed"]) /\ Finish(p, "failed")
    <3>1. run'[p].status # "completed"
      BY <1>8, <2>1, <2>3 DEF Fresh
    <3>2. \A j \in DOMAIN step[p] : step[p][j] = "pending" /\ status'[KidsOf[p][j]] = "none"
      BY <1>5, <2>1, <2>3, FinishEffect, <1>1 DEF Fresh, Finish, PoolType
    <3>3. Tells(p)'
      BY <2>1, <3>1, <3>2 DEF Tells
    <3> QED
      BY <1>6, <2>3, <3>3
  <2>4. CASE step[p] # << >> /\ UpdateRun(p, [run[p] EXCEPT !.status = "running"])
             /\ wk' = [wk EXCEPT ![p].pc = "step", ![p].n = Len(step[p])] /\ UNCHANGED <<status, flag, timers, ended>>
    <3>1. /\ wk'[p].pc = "step" /\ wk'[p].i = 1 /\ wk'[p].done = 0 /\ wk'[p].failed = 0
      BY <1>1, <1>2, <2>1, <2>4 DEF PoolType, EnvWork
    <3>2. run'[p].status \notin {"completed", "failed"}
      BY <1>8, <2>1, <2>4 DEF Fresh
    <3>3. \A j \in DOMAIN step[p] : step[p][j] = "pending" /\ status[KidsOf[p][j]] = "none" /\ ~(j < 1)
      BY <2>1, <2>4, Steps DEF Fresh
    <3>4. Tells(p)'
      BY <2>1, <2>4, <3>2, <3>3 DEF Tells
    <3>5. \A x : Cardinality(Passed(p, x)') = 0
      <4>1. \A x : Passed(p, x)' = {}
        BY <2>1, <3>1, <3>3 DEF Passed
      <4> QED
        BY <4>1, FS_EmptySet
    <3>6. Doing(p)'
      <4>1. wk'[p].done + wk'[p].failed + 1 = wk'[p].i
        BY <3>1
      <4>2. \A j \in DOMAIN step'[p] : step'[p][j] \notin {"completed", "failed"} /\ status'[KidsOf[p][j]] = "none" /\ ~(j < wk'[p].i)
        BY <2>1, <2>4, <3>1, <3>3
      <4>3. Cardinality(Passed(p, "completed")') = wk'[p].done /\ Cardinality(Passed(p, "failed")') = wk'[p].failed
        BY <3>1, <3>5
      <4> QED
        BY <3>2, <4>1, <4>2, <4>3 DEF Doing
    <3> QED
      BY <1>7, <2>4, <3>1, <3>4, <3>6
  <2> QED
    BY <1>9, <2>2, <2>3, <2>4 DEF EnvBegin
<1>10. ASSUME wk[p].pc # "env" PROVE step[p] # << >> => run[p].status \notin {"completed", "failed"}
  BY <1>3, <1>10 DEF Doing
<1>11. CASE EnvStep(p)
  <2>1. wk[p].i \in 1..Len(KidsOf[p]) /\ UpdateStepStatus(p, "running") /\ UNCHANGED <<status, run, ended>>
    BY <1>2, <1>11, Family DEF EnvStep, KnownEnv
  <2>2. /\ DOMAIN step'[p] = DOMAIN step[p] /\ (step'[p] = << >> <=> step[p] = << >>)
        /\ \A j \in DOMAIN step[p] : step'[p][j] = step[p][j] \/ (j = wk[p].i /\ step'[p][j] = "running")
    <3>1. "running" \in StepStatuses
      BY DEF StepStatuses
    <3> QED
      BY <2>1, <3>1, StepEffect
  <2>3. /\ wk'[p].pc = "dispatch" /\ wk'[p].i = wk[p].i /\ wk'[p].done = wk[p].done /\ wk'[p].failed = wk[p].failed
        /\ wk'[p].expired = wk[p].expired /\ wk[p].pc = "step"
    BY <1>1, <1>2, <1>11 DEF EnvStep, PoolType, EnvWork
  <2>4. Doing(p)'
    BY <1>3, <1>10, <2>1, <2>2, <2>3, DoingStill
  <2>5. \A j \in DOMAIN step[p] : step'[p][j] = step[p][j] \/ (step[p][j] \notin {"completed", "failed"} /\ step'[p][j] # "completed")
    <3>1. step[p] = << >> => DOMAIN step[p] = {}
      BY Steps
    <3>2. step[p] # << >> => \A j \in DOMAIN step[p] : j >= wk[p].i => step[p][j] \notin {"completed", "failed"}
      BY <1>3, <2>3 DEF Doing
    <3>3. wk[p].i >= wk[p].i
      BY <1>3
    <3> QED
      BY <2>2, <3>1, <3>2, <3>3
  <2>6. Tells(p)'
    BY <1>3, <1>5, <1>10, <2>1, <2>2, <2>3, <2>5, TellsStill
  <2> QED
    BY <1>7, <2>1, <2>3, <2>4, <2>6
<1>12. CASE EnvCancelled(p)
  <2>1. Finish(p, "cancelled") /\ UpdateRun(p, [run[p] EXCEPT !.status = "cancelled"]) /\ step' = step /\ wk[p].pc = "step"
    BY <1>12 DEF EnvCancelled
  <2>2. step[p] # << >> => run'[p].status \notin {"completed", "failed"}
    BY <1>8, <1>10, <2>1
  <2>3. \A j \in DOMAIN step[p] : status'[KidsOf[p][j]] = status[KidsOf[p][j]]
    BY <1>1, <1>5, <2>1 DEF Finish, PoolType
  <2>4. Tells(p)'
    BY <1>3, <1>5, <2>1, <2>2, <2>3, TellsStill
  <2> QED
    BY <1>6, <2>1, <2>4
\* The end of a step.
<1>13. ASSUME wk[p].pc \in {"dispatch", "wait"}, NEW ok \in BOOLEAN, StepOver(p, ok), status' = status, ended' = ended,
              ok => ended[Kid(p)] = "ok"
       PROVE  EnvInv(p)'
  <2>1. wk[p].i \in 1..Len(KidsOf[p])
    BY <1>13, KidTyped
  <2>2. /\ Doing(p)' /\ wk'[p].pc = "step"
        /\ DOMAIN step'[p] = DOMAIN step[p] /\ (step'[p] = << >> <=> step[p] = << >>)
        /\ \A j \in DOMAIN step[p] : step'[p][j] = step[p][j] \/ (j = wk[p].i /\ step'[p][j] = (IF ok THEN "completed" ELSE "failed"))
        /\ step[p] # << >> => run'[p].status \notin {"completed", "failed"}
    BY <1>2, <1>3, <1>13, <2>1, DoingOver
  <2>3. \A j \in DOMAIN step[p] : step'[p][j] = step[p][j] \/ /\ step[p][j] \notin {"completed", "failed"}
                                                              /\ step'[p][j] = "completed" => ended'[KidsOf[p][j]] = "ok"
    <3>1. step[p] = << >> => DOMAIN step[p] = {}
      BY Steps
    <3>2. step[p] # << >> => \A j \in DOMAIN step[p] : j >= wk[p].i => step[p][j] \notin {"completed", "failed"}
      BY <1>3, <1>13 DEF Doing
    <3>3. wk[p].i >= wk[p].i
      BY <1>3
    <3>4. ok => ended'[KidsOf[p][wk[p].i]] = "ok"
      BY <1>13 DEF Kid
    <3> QED
      BY <2>2, <3>1, <3>2, <3>3, <3>4
  <2>4. Tells(p)'
    BY <1>3, <1>5, <1>13, <2>2, <2>3, TellsStill
  <2> QED
    BY <1>7, <1>13, <2>2, <2>4
\* The next statement of a step.
<1>14. ASSUME NEW pc \in {"enqueue", "mark", "wait"}, wk' = [wk EXCEPT ![p].pc = pc], UNCHANGED <<run, step, ended>>, status'[p] = status[p],
              wk[p].pc \in {"dispatch", "enqueue", "mark"},
              \A j \in DOMAIN step[p] : status'[KidsOf[p][j]] # "none" =>
                  status[KidsOf[p][j]] # "none" \/ (j = wk[p].i /\ ~wk[p].expired)
       PROVE  EnvInv(p)'
  <2>1. /\ wk'[p].pc = pc /\ wk'[p].i = wk[p].i /\ wk'[p].done = wk[p].done /\ wk'[p].failed = wk[p].failed
        /\ wk'[p].expired = wk[p].expired
    BY <1>1, <1>2, <1>14 DEF PoolType, EnvWork
  <2>2. Doing(p)'
    BY <1>3, <1>10, <1>14, <2>1, DoingStill
  <2>3. \A j \in DOMAIN step[p] : status'[KidsOf[p][j]] # "none" =>
           status[KidsOf[p][j]] # "none" \/ \A i \in 1..j - 1 : step[p][i] \in {"completed", "failed"}
    <3> SUFFICES ASSUME NEW j \in DOMAIN step[p], j = wk[p].i, ~wk[p].expired, NEW i \in 1..j - 1 PROVE step[p][i] \in {"completed", "failed"}
      BY <1>14
    <3>1. step[p] # << >> /\ DOMAIN step[p] = 1..Len(KidsOf[p]) /\ Len(KidsOf[p]) \in Nat
      BY Steps
    <3>2. i \in DOMAIN step[p] /\ i < wk[p].i
      BY <3>1
    <3> QED
      BY <1>3, <1>14, <3>1, <3>2 DEF Doing
  <2>4. Tells(p)'
    BY <1>3, <1>5, <1>10, <1>14, <2>3, TellsStill
  <2> QED
    BY <1>7, <1>14, <2>1, <2>2, <2>4
<1>15. CASE EnvDispatch(p)
  <2>1. CASE StepOver(p, FALSE) /\ UNCHANGED status
    BY <1>13, <1>15, <2>1 DEF EnvDispatch
  <2>2. CASE CallWorks(p) /\ status' = [status EXCEPT ![Kid(p)] = "pending"] /\ wk' = [wk EXCEPT ![p].pc = "enqueue"] /\ UNCHANGED <<run, step>>
    <3>1. Kid(p) \in Kids(p) /\ wk[p].i \in 1..Len(KidsOf[p]) /\ Kid(p) = KidsOf[p][wk[p].i] /\ ~wk[p].expired
      BY <1>15, <2>2, KidTyped DEF EnvDispatch, Kid, CallWorks
    <3>2. \A u \in Tasks : u # Kid(p) => status'[u] = status[u]
      BY <2>2 DEF PoolType
    <3>3. \A j \in DOMAIN step[p] : j # wk[p].i => status'[KidsOf[p][j]] = status[KidsOf[p][j]]
      BY <3>1, <3>2, Steps
    <3>4. status'[p] = status[p]
      BY <1>1, <3>1, <3>2
    <3> QED
      BY <1>14, <1>15, <2>2, <3>1, <3>3, <3>4 DEF EnvDispatch
  <2> QED
    BY <1>15, <2>1, <2>2 DEF EnvDispatch
<1>16. CASE EnvEnqueue(p)
  <2>1. PICK pc \in {"mark", "wait"} : wk' = [wk EXCEPT ![p].pc = pc]
    BY <1>16 DEF EnvEnqueue
  <2> QED
    BY <1>14, <1>16, <2>1 DEF EnvEnqueue
<1>17. CASE EnvMark(p)
  <2>1. Kid(p) \in Kids(p) /\ status[Kid(p)] # "none"
    BY <1>2, <1>17, KidTyped DEF EnvMark, KnownEnv
  <2>2. status'[p] = status[p] /\ \A u \in Tasks : status'[u] # "none" => status[u] # "none"
    BY <1>1, <1>17, <2>1 DEF EnvMark, PoolType
  <2> QED
    BY <1>1, <1>5, <1>14, <1>17, <2>2 DEF EnvMark
<1>18. CASE EnvWait(p)
  <2>1. CASE StepOver(p, FALSE)
    BY <1>13, <1>18, <2>1 DEF EnvWait
  <2>2. CASE StepOver(p, status[Kid(p)] = "completed")
    <3>1. Kid(p) \in Leaves
      BY <1>18, KidTyped DEF EnvWait
    <3>2. PICK ok \in BOOLEAN : ok = (status[Kid(p)] = "completed")
      OBVIOUS
    <3>3. ok => ended[Kid(p)] = "ok"
      BY <3>1, <3>2 DEF WaitInv, LeafTells
    <3> QED
      BY <1>13, <1>18, <2>2, <3>2, <3>3 DEF EnvWait
  <2> QED
    BY <1>18, <2>1, <2>2 DEF EnvWait
<1>19. CASE EnvDone(p)
  <2>1. PICK out \in {"failed", "completed"} : Finish(p, out)
    BY <1>19 DEF EnvDone
  <2>2. \A u \in Tasks \ {p} : status'[u] = status[u] /\ ended'[u] = ended[u]
    BY <2>1 DEF Finish, Ended, PoolType
  <2>3. \A k \in Kids(p) : status'[k] = status[k] /\ ended'[k] = ended[k]
    BY <1>1, <2>2
  <2>4. Doing(p)
    BY <1>3, <1>19 DEF EnvDone
  <2>5. Tells(p)'
    BY <1>2, <1>3, <1>19, <2>3, <2>4, DoneTells
  <2> QED
    BY <1>6, <2>1, <2>5
<1>20. ~LeafDone(p) /\ ~BulkList(p) /\ ~BulkPush(p) /\ ~BulkMark(p) /\ ~BulkPoll(p) /\ ~BulkCancelled(p) /\ ~BulkDone(p)
  BY <1>1, WorkKinds DEF LeafDone, BulkList, BulkPush, BulkMark, BulkPoll, BulkCancelled, BulkDone
<1> QED
  BY <1>9, <1>11, <1>12, <1>15, <1>16, <1>17, <1>18, <1>19, <1>20 DEF Handler


LEMMA TellNext ==
    ASSUME PoolType, PoolType', Known, Known', WaitInv, TellInv, PoolStep, scene' = scene, NEW p \in EnvParents
    PROVE  EnvInv(p)'
<1>1. /\ p \in Tasks /\ p \in Parents /\ p \notin BulkParents /\ p \notin Leaves /\ p \notin Kids(p) /\ Kids(p) \subseteq Leaves
      /\ Kids(p) \subseteq Tasks /\ Free.pc = "free"
  BY Family DEF Free, Tasks
<1>2. EnvInv(p)
  BY DEF TellInv
<1>3. /\ status[p] \in {"none", "queued", "running"} \cup Terminal /\ p \notin timers /\ Once(p)
      /\ InQueue(p) => wk[p] = Free /\ Fresh(p)
      /\ status[p] = "none" => step[p] = << >> /\ wk[p] = Free
  BY <1>1, <1>2 DEF EnvInv, Known
<1>4. /\ \A t \in Tasks : status[t] # "none" => status'[t] # "none"
      /\ \A q \in Parents : status'[q] # "none" => q \in scene.parents
  BY StatusNext
<1>5. \A q \in Parents : q \in scene.parents /\ p \in scene.parents /\ q # p => Kids(q) \cap Kids(p) = {}
  BY OrchestrationAssumption DEF PoolType
<1>6. queue \in Seq(Tasks)
  BY DEF PoolType
<1>7. queue' = queue => (InQueue(p)' <=> InQueue(p)) /\ (Once(p)' <=> Once(p))
  BY DEF InQueue, Once
<1>8. \A t \in Tasks : queue' = Append(queue, t) /\ t # p => (InQueue(p)' <=> InQueue(p)) /\ Once(p)'
  BY <1>1, <1>3, <1>6, QueueAdds
\* The scene does not submit p.
<1>9. CASE p \notin scene.parents
  <2>1. status[p] = "none" /\ step[p] = << >> /\ wk[p] = Free
    BY <1>1, <1>3, <1>9 DEF Known
  <2>2. step'[p] = << >>
    <3>1. \A q \in EnvParents : EnvSubmit(q) \/ DeleteRun(q) => step'[p] = << >>
      BY <1>9, <2>1 DEF EnvSubmit, DeleteRun, PoolType
    <3>2. \A t \in Tasks : Handler(t) => step'[p] = << >>
      <4> SUFFICES ASSUME NEW t \in Tasks, Handler(t) PROVE step'[p] = << >>
        OBVIOUS
      <4>1. Apart(t)
        BY HandlerApart
      <4> QED
        BY <2>1, <4>1 DEF Apart
    <3>3. Take => step'[p] = << >>
      BY <2>1 DEF Take
    <3> QED
      BY <2>1, <3>1, <3>2, <3>3 DEF PoolStep, BulkSubmit, BulkCreateChild, BulkEnqueue, BulkQueued, CancelParent, TimerFires, Rehydrate, Expire
  <2> QED
    BY <1>9, <2>2, EnvIdle
<1>10. CASE p \in scene.parents
  \* Steps that leave p, its rows and the existence of its children alone.
  <2>1. ASSUME UNCHANGED <<wk, run, step, ended>>, p \notin timers', status'[p] \in {status[p], "cancelled"},
               status'[p] = "none" => status[p] = "none",
               \A k \in Kids(p) : status'[k] = "none" <=> status[k] = "none",
               queue' = queue \/ \E t \in Tasks : t # p /\ queue' = Append(queue, t)
        PROVE  EnvInv(p)'
    <3>1. (InQueue(p)' => InQueue(p)) /\ Once(p)'
      BY <1>3, <1>7, <1>8, <2>1
    <3>2. status'[p] \in {"none", "queued", "running"} \cup Terminal
      BY <1>3, <2>1 DEF Terminal
    <3> QED
      BY <1>2, <2>1, <3>1, <3>2, EnvStill
  <2>2. ASSUME NEW q \in BulkParents, BulkSubmit(q) \/ BulkCreateChild(q) \/ BulkEnqueue(q) \/ BulkQueued(q) PROVE EnvInv(p)'
    <3>1. q \in Tasks /\ q # p /\ q \in Parents /\ q \notin Kids(p)
      BY <1>1, Family
    <3>2. PICK u \in {q} \cup Kids(q), s \in {"pending", "queued"} : status' = status \/ (status' = [status EXCEPT ![u] = s] /\ q \in scene.parents)
      <4>1. CASE BulkSubmit(q) \/ BulkEnqueue(q)
        BY <4>1 DEF BulkSubmit, BulkEnqueue
      <4>2. CASE BulkQueued(q)
        <5>1. q \in scene.parents
          BY <4>2 DEF BulkQueued, Known, KnownBulk
        <5> QED
          BY <4>2, <5>1 DEF BulkQueued
      <4>3. CASE BulkCreateChild(q)
        <5>1. q \in scene.parents /\ sub[q].todo \in Seq(Kids(q)) /\ sub[q].todo # << >>
          BY <4>3 DEF BulkCreateChild, Known, KnownBulk
        <5>2. Head(sub[q].todo) \in Kids(q)
          BY <5>1
        <5> QED
          BY <4>3, <5>1, <5>2 DEF BulkCreateChild
      <4> QED
        BY <2>2, <4>1, <4>2, <4>3
    <3>3. status' = status \/ (u \notin Kids(p) /\ u # p)
      BY <1>1, <1>5, <1>10, <3>1, <3>2, Family
    <3>4. \A t \in Kids(p) \cup {p} : status'[t] = status[t]
      BY <1>1, <3>2, <3>3 DEF PoolType
    <3>5. queue' = queue \/ queue' = Append(queue, q)
      BY <2>2 DEF BulkSubmit, BulkCreateChild, BulkEnqueue, BulkQueued
    <3>6. UNCHANGED <<wk, run, step, ended, timers>>
      BY <2>2 DEF BulkSubmit, BulkCreateChild, BulkEnqueue, BulkQueued
    <3> QED
      BY <1>3, <2>1, <3>1, <3>4, <3>5, <3>6
  <2>3. ASSUME EnvSubmit(p) PROVE EnvInv(p)'
    <3>1. status[p] = "none" /\ wk' = wk /\ timers' = timers /\ queue' = Append(queue, p)
      BY <2>3 DEF EnvSubmit
    <3>2. run'[p].status = "pending" /\ step'[p] = [i \in DOMAIN KidsOf[p] |-> "pending"] /\ status'[p] = "queued"
      BY <1>1, <2>3 DEF EnvSubmit, PoolType
    <3>3. DOMAIN KidsOf[p] = 1..Len(KidsOf[p]) /\ \A j \in DOMAIN KidsOf[p] : KidsOf[p][j] \in Kids(p)
      BY <1>1, Family
    <3>4. \A j \in DOMAIN step'[p] : step'[p][j] = "pending" /\ status'[KidsOf[p][j]] = "none"
      <4>1. \A k \in Kids(p) : status[k] = "none" /\ k # p
        BY <1>1, <1>2, <1>10, <3>1 DEF EnvInv
      <4>2. \A k \in Kids(p) : status'[k] = "none"
        BY <1>1, <2>3, <4>1 DEF EnvSubmit, PoolType
      <4> QED
        BY <3>2, <3>3, <4>2
    <3>5. Fresh(p)' /\ Tells(p)'
      BY <3>2, <3>4 DEF Fresh, Tells
    <3>6. ~InQueue(p)
      BY <3>1 DEF InQueue, Known
    <3>7. Once(p)'
      <4>1. Len(queue) \in Nat /\ Len(queue') = Len(queue) + 1 /\ \A i \in 1..Len(queue) : queue'[i] = queue[i]
        BY <1>6, <3>1
      <4>2. \A i \in 1..Len(queue') : queue'[i] = p => i = Len(queue) + 1
        BY <3>6, <4>1 DEF InQueue
      <4> QED
        BY <4>2 DEF Once
    <3>8. wk'[p] = Free /\ p \notin timers'
      BY <1>3, <3>1
    <3> QED
      BY <1>1, <3>2, <3>5, <3>7, <3>8 DEF EnvInv
  <2>4. ASSUME DeleteRun(p) PROVE EnvInv(p)'
    <3>1. step'[p] = << >> /\ UNCHANGED <<status, queue, timers, wk, ended>>
      BY <2>4 DEF DeleteRun, PoolType
    <3>2. Fresh(p)' /\ Tells(p)' /\ (Doing(p) => Doing(p)')
      BY <3>1 DEF Fresh, Tells, Doing
    <3>3. (InQueue(p)' <=> InQueue(p)) /\ Once(p)'
      BY <1>3, <1>7, <3>1
    <3> QED
      BY <1>2, <1>10, <3>1, <3>2, <3>3 DEF EnvInv
  <2>5. ASSUME NEW q \in EnvParents, q # p, EnvSubmit(q) \/ DeleteRun(q) PROVE EnvInv(p)'
    <3>1. q \in Tasks /\ q \notin Kids(p)
      BY <1>1, Family
    <3>2. run'[p] = run[p] /\ step'[p] = step[p] /\ UNCHANGED <<wk, timers, ended>>
      BY <2>5 DEF EnvSubmit, DeleteRun, PoolType
    <3>3. \A t \in Kids(p) \cup {p} : status'[t] = status[t]
      BY <1>1, <2>5, <3>1 DEF EnvSubmit, DeleteRun, PoolType
    <3>4. queue' = queue \/ queue' = Append(queue, q)
      BY <2>5 DEF EnvSubmit, DeleteRun
    <3>5. (InQueue(p)' => InQueue(p)) /\ Once(p)'
      BY <1>3, <1>7, <1>8, <2>5, <3>1, <3>4
    <3> QED
      BY <1>2, <1>3, <3>2, <3>3, <3>5, EnvStill
  <2>6. ASSUME NEW q \in Parents, CancelParent(q) PROVE EnvInv(p)'
    <3>1. q \in Tasks /\ q \notin Kids(p)
      BY <1>1, Family
    <3>2. /\ UNCHANGED <<wk, run, step, ended, timers, queue>> /\ status'[p] \in {status[p], "cancelled"}
          /\ \A k \in Kids(p) : status'[k] = status[k]
      BY <1>1, <2>6, <3>1 DEF CancelParent, PoolType
    <3> QED
      BY <1>1, <1>3, <1>4, <2>1, <3>2
  <2>7. ASSUME NEW t \in Tasks, TimerFires(t) \/ Rehydrate(t) PROVE EnvInv(p)'
    <3>1. t # p
      BY <1>3, <2>7 DEF TimerFires, Rehydrate, Terminal
    <3>2. UNCHANGED <<wk, run, step, ended>> /\ timers' \subseteq timers /\ queue' = Append(queue, t)
      BY <2>7 DEF TimerFires, Rehydrate
    <3>3. status'[p] = status[p] /\ \A k \in Kids(p) : status'[k] = "none" <=> status[k] = "none"
      BY <1>1, <2>7, <3>1 DEF TimerFires, Rehydrate, PoolType
    <3> QED
      BY <1>3, <2>1, <3>1, <3>2, <3>3
  <2>8. ASSUME Take PROVE EnvInv(p)'
    <3>1. PICK t \in Tasks :
              /\ queue # << >> /\ queue[1] = t /\ queue' = Tail(queue) /\ status[t] # "none"
              /\ \A u \in Tasks \ {t} : status'[u] = status[u] /\ wk'[u] = wk[u] /\ ended'[u] = ended[u]
              /\ \/ wk[t] # Free /\ wk'[t] = wk[t] /\ status'[t] = status[t] /\ ended'[t] = ended[t]
                 \/ wk[t] = Free /\ wk'[t] = Free /\ status'[t] = "cancelled" /\ ended'[t] # "no" /\ (ended[t] = "ok" => ended'[t] = "ok")
                 \/ wk[t] = Free /\ wk'[t] = Begin(t) /\ status'[t] = "running" /\ ended'[t] = ended[t]
              /\ UNCHANGED <<timers, sub, run, step, listed>>
      BY <2>8, TakeEffect
    <3>2. (InQueue(p)' => InQueue(p)) /\ Once(p)' /\ (t = p => ~InQueue(p)')
      BY <1>1, <1>3, <1>6, <3>1, QueueTakes
    <3>3. \A k \in Kids(p) : (status'[k] = "none" <=> status[k] = "none") /\ (ended[k] = "ok" => ended'[k] = "ok")
      BY <1>1, <3>1
    <3>4. CASE wk'[p] = wk[p]
      <4>1. (status'[p] \in {status[p], "cancelled", "running"} /\ status'[p] # "none") \/ status'[p] = status[p]
        BY <1>1, <3>1
      <4>2. status'[p] \in {"none", "queued", "running"} \cup Terminal /\ (status'[p] = "none" => status[p] = "none")
        BY <1>3, <4>1 DEF Terminal
      <4> QED
        BY <1>2, <1>3, <3>1, <3>2, <3>3, <3>4, <4>2, EnvStill
    <3>5. CASE t = p /\ wk'[p] = Begin(p) /\ status'[p] = "running"
      <4>1. wk'[p].pc = "env" /\ wk'[p].i = 1 /\ wk'[p].done = 0 /\ wk'[p].failed = 0
        BY <1>1, <3>5, BeginTyped
      <4>2. InQueue(p)
        <5>1. 1 \in 1..Len(queue)
          BY <1>6, <3>1
        <5> QED
          BY <3>1, <3>5, <5>1 DEF InQueue
      <4>3. \A j \in DOMAIN step[p] : KidsOf[p][j] \in Kids(p)
        BY Steps
      <4>4. Fresh(p)'
        BY <1>3, <3>1, <3>3, <4>2, <4>3 DEF Fresh
      <4>5. Tells(p)'
        BY <3>1, <4>4 DEF Tells, Fresh
      <4> QED
        BY <1>3, <3>1, <3>2, <3>5, <4>1, <4>4, <4>5 DEF EnvInv
    <3> QED
      BY <1>1, <3>1, <3>4, <3>5
  <2>9. ASSUME NEW t \in Tasks, Expire(t) PROVE EnvInv(p)'
    <3>1. /\ wk' = [wk EXCEPT ![t] = [wk[t] EXCEPT !.expired = TRUE]] /\ wk[t].pc \notin {"free", "leaf"}
          /\ UNCHANGED <<status, queue, timers, run, step, ended>>
      BY <2>9 DEF Expire, PoolType
    <3>2. (InQueue(p)' <=> InQueue(p)) /\ Once(p)'
      BY <1>3, <1>7, <3>1
    <3>3. CASE t # p
      <4>1. wk'[p] = wk[p]
        BY <3>1, <3>3 DEF PoolType
      <4> QED
        BY <1>2, <1>3, <3>1, <3>2, <4>1, EnvStill
    <3>4. CASE t = p
      <4>1. wk[p] \in EnvWork /\ wk[p] # Free
        BY <1>1, <3>1, <3>4, WorkKinds
      <4>2. /\ wk'[p].pc = wk[p].pc /\ wk'[p].i = wk[p].i /\ wk'[p].done = wk[p].done /\ wk'[p].failed = wk[p].failed /\ wk'[p].expired
        BY <1>1, <3>1, <3>4, <4>1 DEF PoolType, EnvWork
      <4>3. (Fresh(p) => Fresh(p)') /\ (Tells(p) => Tells(p)')
        BY <3>1 DEF Fresh, Tells
      <4>4. Doing(p) => Doing(p)'
        BY <3>1, <4>2 DEF Doing
      <4>5. ~InQueue(p)
        BY <1>3, <4>1
      <4> QED
        BY <1>2, <1>10, <3>1, <3>2, <4>2, <4>3, <4>4, <4>5 DEF EnvInv
    <3> QED
      BY <3>3, <3>4
  <2>10. ASSUME NEW t \in Tasks, Handler(t) PROVE EnvInv(p)'
    <3>1. Apart(t)
      BY <2>10, HandlerApart
    <3>2. CASE t = p
      BY <1>2, <2>10, <3>1, <3>2, EnvOwn
    <3>3. CASE t # p
      <4>1. wk'[p] = wk[p] /\ run'[p] = run[p] /\ step'[p] = step[p] /\ p \notin timers'
        BY <1>1, <1>3, <3>1, <3>3 DEF Apart
      <4>2. t \in Parents => t \in scene.parents /\ p \notin Kids(t) /\ Kids(t) \cap Kids(p) = {} /\ t \notin Kids(p)
        BY <1>1, <1>5, <1>10, <3>1, <3>3, Family DEF Apart, Known
      <4>3. status'[p] = status[p]
        BY <1>1, <3>1, <3>3, <4>2 DEF Apart
      <4>4. \A k \in Kids(p) : (status'[k] = "none" <=> status[k] = "none") /\ (ended[k] = "ok" => ended'[k] = "ok")
        <5> SUFFICES ASSUME NEW k \in Kids(p) PROVE (status'[k] = "none" <=> status[k] = "none") /\ (ended[k] = "ok" => ended'[k] = "ok")
          OBVIOUS
        <5>1. k \in Tasks
          BY <1>1
        <5>2. CASE k = t
          BY <1>4, <3>1, <5>1, <5>2 DEF Apart
        <5>3. CASE k # t
          BY <3>1, <4>2, <5>1, <5>3 DEF Apart
        <5> QED
          BY <5>2, <5>3
      <4>5. (InQueue(p)' => InQueue(p)) /\ Once(p)'
        <5>1. queue' = queue \/ \E k \in Tasks : k # p /\ queue' = Append(queue, k)
          BY <1>1, <3>1, Family DEF Apart
        <5> QED
          BY <1>3, <1>7, <1>8, <5>1
      <4> QED
        BY <1>2, <1>3, <4>1, <4>3, <4>4, <4>5, EnvStill
    <3> QED
      BY <3>2, <3>3
  <2> QED
    BY <2>2, <2>3, <2>4, <2>5, <2>6, <2>7, <2>8, <2>9, <2>10 DEF PoolStep
<1> QED
  BY <1>9, <1>10

\* Orchestration.StepsTell: the orchestration_steps rows that UpdateStepStatus writes and the run's final status and counts
\* tell what became of the steps' tasks: a task exists only when the steps before it are over, a completed step's task
\* has succeeded, and a run that is over counts its steps and failed exactly when none succeeded, whatever timeouts,
\* refused calls, cancelled parents, deleted environments and races for the queue there were.
THEOREM StepsTellCorrect == PoolSpec => []StepsTell
<1>1. PoolInit => PoolType /\ Known /\ WaitInv /\ TellInv
  BY PoolInitial
<1>2. PoolType /\ Known /\ WaitInv /\ TellInv /\ [PoolNext]_poolVars => (PoolType /\ Known /\ WaitInv /\ TellInv)'
  <2> SUFFICES ASSUME PoolType, Known, WaitInv, TellInv, [PoolNext]_poolVars PROVE (PoolType /\ Known /\ WaitInv /\ TellInv)'
    OBVIOUS
  <2>1. PoolType' /\ Known' /\ WaitInv'
    BY PoolTypeNext, KnownNext, WaitNext
  <2>2. TellInv'
    <3>1. CASE UNCHANGED poolVars
      <4>1. \A p \in EnvParents : EnvInv(p)' <=> EnvInv(p)
        BY <3>1 DEF poolVars, EnvInv, Once, InQueue, Fresh, Doing, Passed, Tells
      <4> QED
        BY <4>1 DEF TellInv
    <3>2. CASE PoolStep /\ scene' = scene
      <4>1. \A p \in EnvParents : EnvInv(p)'
        BY <2>1, <3>2, TellNext
      <4> QED
        BY <4>1 DEF TellInv
    <3> QED
      BY <3>1, <3>2 DEF PoolNext
  <2> QED
    BY <2>1, <2>2
<1>3. TellInv => StepsTell
  BY DEF TellInv, EnvInv, Tells, StepsTell
<1> QED
  BY <1>1, <1>2, <1>3, PTL DEF PoolSpec


----------------------------------------------------------------------------
(* Provisioning: a job tells what became of its task *)

LEMMA JobKinds ==
    /\ NoJob.status = "none" /\ Rest.pc = "rest"
    /\ \A type \in {"clone", "provision"} : NewJob(type) \in JobRow /\ NewJob(type).status = "pending" /\ NewJob(type).type = type
    /\ \A j \in JobRow : /\ j.status \in JobStatuses /\ j.type \in {"clone", "provision"}
                         /\ [j EXCEPT !.linked = TRUE] \in JobRow
                         /\ [j EXCEPT !.linked = TRUE].linked /\ [j EXCEPT !.linked = TRUE].status = j.status
                         /\ [j EXCEPT !.linked = TRUE].type = j.type
    /\ \A g \in Goals : g[1] \in JobStatuses /\ g[2] \in {h[2] : h \in Goals} /\ g[2] \in {"connect", "done", "error", "permanent", "cancelled"}
<1>1. NoJob.status = "none" /\ Rest.pc = "rest"
  BY DEF NoJob, Rest
<1>2. \A type \in {"clone", "provision"} : NewJob(type) \in JobRow /\ NewJob(type).status = "pending" /\ NewJob(type).type = type
  BY DEF NewJob, JobRow, JobStatuses
<1>3. \A j \in JobRow : /\ j.status \in JobStatuses /\ j.type \in {"clone", "provision"}
                        /\ [j EXCEPT !.linked = TRUE] \in JobRow
                        /\ [j EXCEPT !.linked = TRUE].linked /\ [j EXCEPT !.linked = TRUE].status = j.status
                        /\ [j EXCEPT !.linked = TRUE].type = j.type
  BY DEF JobRow
<1>4. \A g \in Goals : g[1] \in JobStatuses /\ g[2] \in {"connect", "done", "error", "permanent", "cancelled"}
  BY DEF Goals, JobStatuses
<1> QED
  BY <1>1, <1>2, <1>3, <1>4

\* Which fields the request's progress and the handler's have.
LEMMA JobPhases ==
    ASSUME JobType
    PROVE  /\ order = Rest <=> order.pc = "rest"
           /\ exec = Rest <=> exec.pc = "rest"
           /\ order.pc \in {"task", "link"} => order \in [pc : {"task", "link"}, copy : JobRow]
           /\ exec.pc \in {"read", "save"} => <<exec.goal, exec.then>> \in Goals
           /\ exec.pc = "save" => exec \in [pc : {"save"}, goal : JobStatuses, then : {g[2] : g \in Goals}, copy : JobRow]
           /\ exec.pc = "save" => exec.copy \in JobRow
           /\ exec.pc # "rest" => order.pc \in {"link", "done"} /\ job \in JobRow /\ jtask # "none"
<1>1. Rest.pc = "rest"
  BY JobKinds
<1>2. /\ order = Rest <=> order.pc = "rest"
      /\ order.pc \in {"task", "link"} => order \in [pc : {"task", "link"}, copy : JobRow]
  BY <1>1 DEF JobType
<1>3. /\ exec = Rest <=> exec.pc = "rest"
      /\ exec.pc \in {"read", "save"} => <<exec.goal, exec.then>> \in Goals
      /\ exec.pc = "save" => exec \in [pc : {"save"}, goal : JobStatuses, then : {g[2] : g \in Goals}, copy : JobRow]
  BY <1>1 DEF JobType
<1>4. exec.pc = "save" => exec.copy \in JobRow
  BY <1>3
<1>5. order.pc \in {"rest", "task", "link", "done"}
  BY <1>1 DEF JobType
<1>6. exec.pc # "rest" => order.pc \in {"link", "done"} /\ job \in JobRow /\ jtask # "none"
  BY <1>3, <1>5 DEF JobType
<1> QED
  BY <1>2, <1>3, <1>4, <1>6

LEMMA JobTypeNext == JobType /\ [JobNext]_jobVars => JobType'
<1> SUFFICES ASSUME JobType, [JobNext]_jobVars PROVE JobType'
  OBVIOUS
<1>1. /\ NoJob.status = "none" /\ Rest.pc = "rest"
      /\ order = Rest <=> order.pc = "rest"
      /\ exec = Rest <=> exec.pc = "rest"
  BY JobKinds, JobPhases
<1>2. Trouble \/ NoTrouble => troubles' \in Nat
  BY DEF Trouble, NoTrouble, JobType
<1>3. ASSUME NEW pc \in {"begin", "connect", "check", "call", "upsert", "done", "error", "permanent", "cancelled"}, exec' = [pc |-> pc]
      PROVE  /\ exec' \in [pc : {"begin", "connect", "check", "call", "upsert", "done", "error", "permanent", "cancelled"}]
             /\ exec'.pc \notin {"read", "save"} /\ exec' # Rest
  BY <1>1, <1>3
<1>4. ASSUME NEW s, NEW then, <<s, then>> \in Goals, exec' = [pc |-> "read", goal |-> s, then |-> then]
      PROVE  /\ exec' \in [pc : {"read"}, goal : JobStatuses, then : {g[2] : g \in Goals}]
             /\ <<exec'.goal, exec'.then>> \in Goals /\ exec' # Rest
  <2>1. <<s, then>>[1] = s /\ <<s, then>>[2] = then
    OBVIOUS
  <2>2. s \in JobStatuses /\ then \in {g[2] : g \in Goals}
    BY <1>4, <2>1, JobKinds
  <2> QED
    BY <1>1, <1>4, <2>2
\* The handler goes on.
<1>5. ASSUME exec # Rest, UNCHANGED <<jtask, order>>, stop' \in BOOLEAN, job' \in JobRow, job' = job \/ order.pc # "task",
             made' \in 0..2, vmRow' \in BOOLEAN, UNCHANGED <<tpl, sync>>, disturbed' \in BOOLEAN, troubles' \in Nat,
             \/ \E pc \in {"begin", "connect", "check", "call", "upsert", "done", "error", "permanent", "cancelled"} : exec' = [pc |-> pc]
             \/ \E s, then : <<s, then>> \in Goals /\ exec' = [pc |-> "read", goal |-> s, then |-> then]
      PROVE  JobType'
  BY <1>3, <1>4, <1>5 DEF JobType
<1>6. ASSUME exec # Rest PROVE job \in JobRow /\ order.pc \in {"link", "done"} /\ jtask # "none"
  BY <1>1, <1>6, JobPhases
<1>7. CASE UNCHANGED jobVars
  BY <1>7 DEF JobType, jobVars
<1>8. CASE TemplateList \/ TemplateUpsert \/ TemplateVanishes
  <2>1. tpl' \in [row : BOOLEAN, remote : BOOLEAN] /\ sync' \in BOOLEAN
    BY <1>8 DEF TemplateList, TemplateUpsert, TemplateVanishes, JobType
  <2>2. troubles' \in Nat
    BY <1>2, <1>8 DEF TemplateList, TemplateUpsert, TemplateVanishes, JobType
  <2>3. UNCHANGED <<job, order, jtask, stop, exec, made, vmRow, disturbed>>
    BY <1>8 DEF TemplateList, TemplateUpsert, TemplateVanishes
  <2> QED
    BY <2>1, <2>2, <2>3 DEF JobType
<1>9. ASSUME NEW type \in {"clone", "provision"}, CreateJob(type) PROVE JobType'
  <2>1. NewJob(type) \in JobRow /\ order = Rest /\ jtask = "none" /\ exec = Rest
    BY <1>1, <1>9, JobKinds DEF CreateJob, JobType
  <2>2. order' = [pc |-> "task", copy |-> NewJob(type)] /\ job' = NewJob(type)
    BY <1>9 DEF CreateJob
  <2> HIDE DEF NewJob
  <2>3. order' \in [pc : {"task", "link"}, copy : JobRow] /\ order'.pc = "task" /\ order'.copy = job'
    BY <2>1, <2>2
  <2> QED
    BY <1>1, <1>9, <2>1, <2>2, <2>3 DEF CreateJob, JobType
<1>10. CASE CreateTask
  <2>1. order \in [pc : {"task", "link"}, copy : JobRow] /\ job \in JobRow /\ exec = Rest
    BY <1>1, <1>10, JobPhases DEF CreateTask, JobType
  <2>2. [order EXCEPT !.pc = "link"] \in [pc : {"task", "link"}, copy : JobRow] /\ [order EXCEPT !.pc = "link"].pc = "link"
    BY <2>1
  <2>3. jtask' \in {"none", "pending"} /\ (order' = [order EXCEPT !.pc = "link"] \/ (order' = [pc |-> "done"]))
    BY <1>10 DEF CreateTask, JobType
  <2>4. troubles' \in Nat /\ UNCHANGED <<job, stop, exec, made, vmRow, tpl, sync, disturbed>>
    BY <1>2, <1>10 DEF CreateTask
  <2>5. order' \in [pc : {"task", "link"}, copy : JobRow] \cup [pc : {"done"}] /\ order'.pc \in {"link", "done"}
    BY <2>2, <2>3
  <2>6. jtask' \in {"none", "retrying"} \cup JobStatuses
    BY <2>3 DEF JobStatuses
  <2> QED
    BY <1>1, <2>1, <2>4, <2>5, <2>6 DEF JobType
<1>11. CASE LinkTask
  <2>1. order \in [pc : {"task", "link"}, copy : JobRow] /\ job \in JobRow
    BY <1>1, <1>11, JobPhases DEF LinkTask, JobType
  <2>2. order.copy \in JobRow
    BY <2>1
  <2>3. [order.copy EXCEPT !.linked = TRUE] \in JobRow
    BY <2>2, JobKinds
  <2>4. job' \in JobRow /\ order' = [pc |-> "done"]
    BY <1>11, <2>1, <2>3 DEF LinkTask
  <2>5. disturbed' \in BOOLEAN
    BY <1>11 DEF LinkTask, JobType
  <2>6. troubles' \in Nat /\ UNCHANGED <<jtask, stop, exec, made, vmRow, tpl, sync>>
    BY <1>2, <1>11 DEF LinkTask
  <2> QED
    BY <1>1, <1>11, <2>4, <2>5, <2>6 DEF JobType, LinkTask
<1>12. CASE CancelJob
  <2>1. jtask # "none" /\ jtask' = "cancelled" /\ stop' = TRUE /\ "cancelled" \in JobStatuses
    BY <1>12 DEF CancelJob, JobStatuses
  <2>2. troubles' \in Nat /\ UNCHANGED <<job, order, exec, made, vmRow, tpl, sync, disturbed>>
    BY <1>2, <1>12 DEF CancelJob
  <2> QED
    BY <2>1, <2>2 DEF JobType
<1>13. CASE ExecTake
  <2>1. CASE jtask \in {"pending", "retrying"} /\ jtask' = "running" /\ exec' = [pc |-> "begin"] /\ UNCHANGED stop
    BY <1>3, <1>13, <2>1 DEF ExecTake, JobType, JobStatuses
  <2>2. CASE jtask = "cancelled" /\ stop' = FALSE /\ UNCHANGED <<jtask, exec>>
    BY <1>13, <2>2 DEF ExecTake, JobType
  <2> QED
    BY <1>13, <2>1, <2>2 DEF ExecTake
\* The end of the handler.
<1>14. ASSUME exec # Rest, NEW s \in {"completed", "retrying", "failed", "cancelled"}, Close(s),
              UNCHANGED <<job, order, made, vmRow, tpl, sync, disturbed, troubles>>
       PROVE  JobType'
  <2>1. exec' = Rest /\ jtask' = s /\ stop' \in BOOLEAN
    BY <1>14 DEF Close, JobType
  <2>2. s \in {"none", "retrying"} \cup JobStatuses /\ s # "none"
    BY DEF JobStatuses
  <2>3. order.pc \in {"link", "done"} /\ job \in JobRow
    BY <1>6, <1>14
  <2> QED
    BY <1>1, <1>14, <2>1, <2>2, <2>3 DEF JobType
<1>15. /\ <<"running", "connect">> \in Goals /\ <<"completed", "done">> \in Goals /\ <<"failed", "error">> \in Goals
       /\ <<"failed", "permanent">> \in Goals /\ <<"cancelled", "cancelled">> \in Goals
  BY DEF Goals
<1>16. /\ job \in JobRow \/ exec = Rest
       /\ made \in 0..2 /\ vmRow \in BOOLEAN /\ stop \in BOOLEAN /\ disturbed \in BOOLEAN /\ troubles \in Nat
  BY <1>6 DEF JobType
<1>17. CASE ExecBegin
  <2>1. exec # Rest
    BY <1>1, <1>17 DEF ExecBegin
  <2>2. CASE Close("cancelled")
    BY <1>14, <1>17, <2>1, <2>2 DEF ExecBegin
  <2>3. CASE Mark("running", "connect")
    BY <1>5, <1>15, <1>16, <1>17, <2>1, <2>3 DEF ExecBegin, Mark
  <2> QED
    BY <1>17, <2>2, <2>3 DEF ExecBegin
<1>18. CASE ExecRead
  <2>1. exec # Rest /\ job \in JobRow /\ <<exec.goal, exec.then>> \in Goals
    BY <1>1, <1>16, <1>18, JobPhases DEF ExecRead
  <2>2. exec.goal \in JobStatuses /\ exec.then \in {g[2] : g \in Goals} /\ exec.then \in {"connect", "done", "error", "permanent", "cancelled"}
    <3>1. <<exec.goal, exec.then>>[1] = exec.goal /\ <<exec.goal, exec.then>>[2] = exec.then
      OBVIOUS
    <3> QED
      BY <2>1, <3>1, JobKinds
  <2>3. troubles' \in Nat /\ disturbed' \in BOOLEAN /\ UNCHANGED <<job, order, made, vmRow, tpl, sync, jtask, stop>>
    BY <1>2, <1>16, <1>18 DEF ExecRead, Goto
  <2>4. CASE exec' = [pc |-> "save", goal |-> exec.goal, then |-> exec.then, copy |-> job]
    <3>1. /\ exec' \in [pc : {"save"}, goal : JobStatuses, then : {g[2] : g \in Goals}, copy : JobRow]
          /\ <<exec'.goal, exec'.then>> \in Goals /\ exec' # Rest
      BY <1>1, <2>1, <2>2, <2>4
    <3> QED
      BY <2>1, <2>3, <3>1 DEF JobType
  <2>5. CASE Goto(exec.then)
    BY <1>5, <1>16, <2>1, <2>2, <2>3, <2>5 DEF Goto
  <2> QED
    BY <1>18, <2>4, <2>5 DEF ExecRead
<1>19. CASE ExecSave
  <2>1. exec # Rest /\ job \in JobRow /\ <<exec.goal, exec.then>> \in Goals /\ exec.copy \in JobRow
    BY <1>1, <1>16, <1>19, JobPhases DEF ExecSave
  <2>2. exec.goal \in JobStatuses /\ exec.then \in {"connect", "done", "error", "permanent", "cancelled"}
    <3>1. <<exec.goal, exec.then>>[1] = exec.goal /\ <<exec.goal, exec.then>>[2] = exec.then
      OBVIOUS
    <3> QED
      BY <2>1, <3>1, JobKinds
  <2>3. job' = job \/ job' = [exec.copy EXCEPT !.status = exec.goal, !.result = @ \/ (exec.goal = "completed" /\ vmRow)]
    BY <1>19 DEF ExecSave
  <2>4. job' \in JobRow
    <3>1. (exec.copy.result \/ (exec.goal = "completed" /\ vmRow)) \in BOOLEAN
      OBVIOUS
    <3>2. \A b \in BOOLEAN : [exec.copy EXCEPT !.status = exec.goal, !.result = b] \in JobRow
      BY <2>1, <2>2 DEF JobRow
    <3> QED
      BY <2>1, <2>3, <3>1, <3>2
  <2>5. order.pc # "task"
    BY <1>6, <2>1
  <2>6. troubles' \in Nat /\ disturbed' \in BOOLEAN /\ UNCHANGED <<order, made, vmRow, tpl, sync, jtask, stop>> /\ exec' = [pc |-> exec.then]
    BY <1>2, <1>16, <1>19 DEF ExecSave, Goto
  <2> QED
    BY <1>5, <1>16, <2>1, <2>2, <2>4, <2>5, <2>6
<1>20. CASE ExecConnect
  <2>1. exec # Rest
    BY <1>1, <1>20 DEF ExecConnect
  <2> QED
    BY <1>5, <1>15, <1>16, <1>20, <2>1 DEF ExecConnect, Goto, Fails, Mark
<1>21. CASE ExecCheck
  <2>1. exec # Rest
    BY <1>1, <1>21 DEF ExecCheck
  <2> QED
    BY <1>5, <1>15, <1>16, <1>21, <2>1 DEF ExecCheck, Goto, Mark
<1>22. CASE ExecCall
  <2>1. exec # Rest /\ made' \in 0..2
    BY <1>1, <1>16, <1>22 DEF ExecCall
  <2>2. \/ exec' = [pc |-> "upsert"]
        \/ \E s, then : <<s, then>> \in Goals /\ exec' = [pc |-> "read", goal |-> s, then |-> then]
    BY <1>15, <1>22 DEF ExecCall, Goto, Fails, Mark
  <2>3. UNCHANGED <<job, order, vmRow, tpl, sync, disturbed, troubles, jtask, stop>>
    BY <1>22 DEF ExecCall, Goto, Fails, Mark
  <2> QED
    BY <1>5, <1>16, <2>1, <2>2, <2>3
<1>23. CASE ExecUpsert
  <2>1. exec # Rest /\ vmRow' \in BOOLEAN /\ disturbed' \in BOOLEAN /\ troubles' \in Nat
    BY <1>1, <1>2, <1>16, <1>23 DEF ExecUpsert
  <2>2. \/ exec' = [pc |-> "done"]
        \/ exec' = [pc |-> "read", goal |-> "completed", then |-> "done"]
    BY <1>23 DEF ExecUpsert, Goto, Mark
  <2>3. UNCHANGED <<job, order, made, tpl, sync, jtask, stop>>
    BY <1>23 DEF ExecUpsert, Goto, Mark
  <2> QED
    BY <1>5, <1>15, <1>16, <2>1, <2>2, <2>3
<1>24. CASE ExecOver
  <2>1. exec # Rest
    BY <1>1, <1>24 DEF ExecOver
  <2> QED
    BY <1>14, <1>24, <2>1 DEF ExecOver
<1> QED
  BY <1>7, <1>8, <1>9, <1>10, <1>11, <1>12, <1>13, <1>17, <1>18, <1>19, <1>20, <1>21, <1>22, <1>23, <1>24 DEF JobNext


LEMMA JobInvNext == JobType /\ JobInv /\ [JobNext]_jobVars => JobInv'
<1> SUFFICES ASSUME JobType, JobInv, [JobNext]_jobVars, ~disturbed' PROVE Linked' /\ Follows'
  BY DEF JobInv
<1>1. /\ NoJob.status = "none" /\ Rest.pc = "rest"
      /\ order = Rest <=> order.pc = "rest"
      /\ exec = Rest <=> exec.pc = "rest"
  BY JobKinds, JobPhases
<1>2. CASE UNCHANGED jobVars
  BY <1>2 DEF jobVars, JobInv, Linked, Follows
<1>3. ASSUME JobNext PROVE ~disturbed
  BY <1>3 DEF JobNext, TemplateList, TemplateUpsert, TemplateVanishes, CreateJob, CreateTask, LinkTask, CancelJob, ExecTake, ExecBegin, ExecRead,
              ExecSave, ExecConnect, ExecCheck, ExecCall, ExecUpsert, ExecOver
<1>4. CASE JobNext
  <2>1. Linked /\ Follows
    BY <1>3, <1>4 DEF JobInv
  \* The fields of the request and the row after steps that are not about them.
  <2>2. ASSUME UNCHANGED <<job, order>>, jtask # "none" PROVE Linked'
    BY <2>1, <2>2 DEF Linked
  <2>3. exec # Rest => job \in JobRow /\ order.pc \in {"link", "done"} /\ jtask # "none" /\ jtask \in {"running", "cancelled"}
    BY <1>1, JobPhases DEF JobType
  <2>4. CASE TemplateList \/ TemplateUpsert \/ TemplateVanishes
    <3>1. UNCHANGED <<job, order, jtask, stop, exec, made, vmRow, disturbed>>
      BY <2>4 DEF TemplateList, TemplateUpsert, TemplateVanishes
    <3> QED
      BY <2>1, <3>1 DEF Linked, Follows
  <2>5. ASSUME NEW type \in {"clone", "provision"}, CreateJob(type) PROVE Linked' /\ Follows'
    <3>1. jtask = "none" /\ exec = Rest
      BY <1>1, <2>5 DEF CreateJob, JobType
    <3>2. job'.status = "pending" /\ order'.pc = "task" /\ order'.copy.status = "pending" /\ UNCHANGED <<jtask, exec>>
      BY <2>5, JobKinds DEF CreateJob
    <3> QED
      BY <1>1, <3>1, <3>2 DEF Linked, Follows
  <2>6. CASE CreateTask
    <3>1. order \in [pc : {"task", "link"}, copy : JobRow] /\ order.pc = "task" /\ jtask = "none" /\ exec = Rest
      BY <1>1, <2>6, JobPhases DEF CreateTask, JobType
    <3>2. \/ order'.pc = "link" /\ order'.copy = order.copy /\ jtask' = "pending"
          \/ order'.pc = "done" /\ jtask' = "none"
      BY <2>6, <3>1 DEF CreateTask
    <3>3. UNCHANGED <<job, exec, made, vmRow>>
      BY <2>6 DEF CreateTask
    <3>4. Linked'
      BY <2>1, <3>1, <3>2 DEF Linked
    <3>5. Follows'
      BY <1>1, <2>1, <3>1, <3>2, <3>3 DEF Follows
    <3> QED
      BY <3>4, <3>5
  <2>7. CASE LinkTask
    <3>1. order.pc = "link" /\ order.copy \in JobRow
      BY <2>7, JobPhases DEF LinkTask
    <3>2. job' = [order.copy EXCEPT !.linked = TRUE] /\ job = order.copy /\ exec.pc # "save" /\ order' = [pc |-> "done"]
          /\ UNCHANGED <<jtask, exec, made, vmRow>>
      BY <2>7 DEF LinkTask
    <3>3. job'.linked /\ job'.status = "pending" /\ job'.type = job.type /\ job.status = "pending"
      BY <2>1, <3>1, <3>2, JobKinds DEF Linked
    <3>4. order'.pc = "done"
      BY <3>2
    <3>5. Linked'
      BY <3>3, <3>4 DEF Linked
    <3>6. exec.pc \in {"rest", "begin", "read"}
      BY <2>1, <3>2, <3>3 DEF Follows
    <3>7. Follows'
      BY <2>1, <3>2, <3>3, <3>6 DEF Follows
    <3> QED
      BY <3>5, <3>7
  <2>8. CASE CancelJob
    <3>1. jtask # "none" /\ jtask' = "cancelled" /\ UNCHANGED <<job, order, exec, made, vmRow>>
      BY <2>8 DEF CancelJob
    <3> QED
      BY <2>1, <2>2, <3>1 DEF Follows
  <2>9. CASE ExecTake
    <3>1. UNCHANGED <<job, order, made, vmRow>> /\ exec = Rest /\ jtask # "none"
      BY <2>9 DEF ExecTake
    <3>2. (jtask' = "running" /\ exec' = [pc |-> "begin"]) \/ UNCHANGED <<jtask, exec>>
      BY <2>9 DEF ExecTake
    <3>3. Follows'
      BY <1>1, <2>1, <3>1, <3>2 DEF Follows
    <3> QED
      BY <2>2, <3>1, <3>3
  <2>10. CASE ExecBegin
    <3>1. exec # Rest /\ UNCHANGED <<job, order, made, vmRow>>
      BY <1>1, <2>10 DEF ExecBegin
    <3>2. (exec' = Rest /\ jtask' = "cancelled") \/ (exec'.pc = "read" /\ exec'.goal = "running" /\ jtask' = jtask)
      <4>1. CASE Close("cancelled")
        BY <4>1 DEF Close
      <4>2. CASE Mark("running", "connect")
        BY <4>2 DEF Mark
      <4> QED
        BY <2>10, <4>1, <4>2 DEF ExecBegin
    <3>3. Follows'
      BY <1>1, <2>1, <2>3, <3>1, <3>2 DEF Follows
    <3> QED
      BY <2>2, <2>3, <3>1, <3>3
  <2>11. CASE ExecRead
    <3>1. exec.pc = "read" /\ UNCHANGED <<job, order, made, vmRow, jtask>>
          /\ exec' = [pc |-> "save", goal |-> exec.goal, then |-> exec.then, copy |-> job]
      BY <2>11 DEF ExecRead, Goto
    <3>2. exec'.pc = "save" /\ exec'.goal = exec.goal /\ exec'.copy = job /\ exec # Rest
      BY <1>1, <3>1
    <3>3. Follows'
      BY <1>1, <2>1, <2>3, <3>1, <3>2 DEF Follows
    <3> QED
      BY <2>2, <2>3, <3>1, <3>2, <3>3
  <2>12. CASE ExecSave
    <3>1. /\ exec.pc = "save" /\ exec # Rest /\ exec.copy = job /\ job \in JobRow /\ <<exec.goal, exec.then>> \in Goals
      BY <1>1, <2>1, <2>12, JobPhases DEF ExecSave, Follows
    <3>2. job' = [job EXCEPT !.status = exec.goal, !.result = @ \/ (exec.goal = "completed" /\ vmRow)]
          /\ exec' = [pc |-> exec.then] /\ UNCHANGED <<order, made, vmRow, jtask>>
      BY <2>12, <3>1 DEF ExecSave, Goto
    <3>3. job'.status = exec.goal /\ job'.linked = job.linked /\ job'.type = job.type /\ exec'.pc = exec.then
      BY <3>1, <3>2 DEF JobRow
    <3>4. exec.goal = "completed" /\ vmRow => job'.result
      BY <3>1, <3>2 DEF JobRow
    <3>5. \/ exec.goal = "running" /\ exec.then = "connect"
          \/ exec.goal = "completed" /\ exec.then = "done"
          \/ exec.goal = "failed" /\ exec.then \in {"error", "permanent"}
          \/ exec.goal = "cancelled" /\ exec.then = "cancelled"
      BY <3>1 DEF Goals
    <3>6. Linked'
      BY <2>1, <2>3, <3>1, <3>2, <3>3 DEF Linked
    <3>7. exec.goal = "completed" => made > 0 /\ (job.type = "provision" => vmRow)
      BY <2>1, <3>1 DEF Follows
    <3>8. Follows'
      BY <1>1, <2>3, <3>1, <3>2, <3>3, <3>4, <3>5, <3>7 DEF Follows
    <3> QED
      BY <3>6, <3>8
  \* The handler goes on and leaves the row alone.
  <2>13. ASSUME exec # Rest, UNCHANGED <<job, order, jtask, made, vmRow>>,
                \/ exec'.pc = "read" /\ exec'.goal # "completed"
                \/ exec.pc \in {"connect", "check", "call"} /\ exec'.pc \in {"check", "call"}
         PROVE  Linked' /\ Follows'
    <3>1. Linked'
      BY <2>2, <2>3, <2>13
    <3>2. Follows'
      BY <1>1, <2>1, <2>3, <2>13 DEF Follows
    <3> QED
      BY <3>1, <3>2
  <2>14. CASE ExecConnect
    <3>1. exec # Rest
      BY <1>1, <2>14 DEF ExecConnect
    <3> QED
      BY <2>13, <2>14, <3>1 DEF ExecConnect, Goto, Fails, Mark
  <2>15. CASE ExecCheck
    <3>1. exec # Rest
      BY <1>1, <2>15 DEF ExecCheck
    <3> QED
      BY <2>13, <2>15, <3>1 DEF ExecCheck, Goto, Mark
  <2>16. CASE ExecCall
    <3>1. exec # Rest /\ exec.pc = "call" /\ UNCHANGED <<job, order, jtask, vmRow>> /\ job.type \in {"clone", "provision"}
      BY <1>1, <2>3, <2>16, JobKinds DEF ExecCall, Goto, Fails, Mark
    <3>2. CASE made' = (IF made < 2 THEN made + 1 ELSE made) /\ IF job.type = "clone" THEN Mark("completed", "done") ELSE Goto("upsert")
      <4>1. made' > 0
        BY <3>2 DEF JobType
      <4>2. \/ job.type = "clone" /\ exec'.pc = "read" /\ exec'.goal = "completed"
            \/ exec'.pc = "upsert"
        BY <3>2 DEF Mark, Goto
      <4>3. Follows'
        BY <1>1, <2>1, <2>3, <3>1, <4>1, <4>2 DEF Follows
      <4> QED
        BY <2>2, <2>3, <3>1, <4>3
    <3>3. CASE UNCHANGED made /\ (Fails("error") \/ Fails("permanent"))
      BY <2>13, <3>1, <3>3 DEF Fails, Mark
    <3> QED
      BY <2>16, <3>2, <3>3 DEF ExecCall
  <2>17. CASE ExecUpsert
    <3>1. /\ exec # Rest /\ exec.pc = "upsert" /\ UNCHANGED <<job, order, jtask, made>> /\ vmRow'
          /\ exec'.pc = "read" /\ exec'.goal = "completed"
      BY <1>1, <2>17 DEF ExecUpsert, Mark
    <3>2. Follows'
      BY <1>1, <2>1, <2>3, <3>1 DEF Follows
    <3> QED
      BY <2>2, <2>3, <3>1, <3>2
  <2>18. CASE ExecOver
    <3>1. /\ exec # Rest /\ exec' = Rest /\ UNCHANGED <<job, order, made, vmRow>>
          /\ \/ exec.pc = "done" /\ jtask' = "completed"
             \/ exec.pc = "error" /\ jtask' = "retrying"
             \/ exec.pc = "permanent" /\ jtask' = "failed"
             \/ exec.pc = "cancelled" /\ jtask' = "cancelled"
      BY <1>1, <2>18 DEF ExecOver, Close
    <3>2. Linked'
      BY <2>1, <2>3, <3>1 DEF Linked
    <3>3. Follows'
      BY <1>1, <2>1, <2>3, <3>1 DEF Follows
    <3> QED
      BY <3>2, <3>3
  <2> QED
    BY <1>4, <2>4, <2>5, <2>6, <2>7, <2>8, <2>9, <2>10, <2>11, <2>12, <2>14, <2>15, <2>16, <2>17, <2>18 DEF JobNext
<1> QED
  BY <1>2, <1>4

LEMMA JobInitial == JobInit => JobType /\ JobInv
<1> SUFFICES ASSUME JobInit PROVE JobType /\ JobInv
  OBVIOUS
<1>1. NoJob.status = "none" /\ Rest.pc = "rest"
  BY JobKinds
<1>2. JobType
  <2>1. /\ job = NoJob /\ order = Rest /\ exec = Rest /\ jtask = "none" /\ stop = FALSE /\ made = 0 /\ vmRow = FALSE
        /\ sync = FALSE /\ disturbed = FALSE /\ troubles = 0
    BY DEF JobInit
  <2>2. tpl \in [row : BOOLEAN, remote : BOOLEAN]
    BY DEF JobInit
  <2>3. order.pc = "rest" /\ exec.pc = "rest"
    BY <1>1, <2>1
  <2>4. /\ job \in {NoJob} \cup JobRow
        /\ order \in {Rest} \cup [pc : {"task", "link"}, copy : JobRow] \cup [pc : {"done"}]
        /\ jtask \in {"none", "retrying"} \cup JobStatuses
    BY <2>1
  <2>5. exec \in {Rest} \cup [pc : {"begin", "connect", "check", "call", "upsert", "done", "error", "permanent", "cancelled"}]
                 \cup [pc : {"read"}, goal : JobStatuses, then : {g[2] : g \in Goals}]
                 \cup [pc : {"save"}, goal : JobStatuses, then : {g[2] : g \in Goals}, copy : JobRow]
    BY <2>1
  <2>6. made \in 0..2 /\ troubles \in Nat
    BY <2>1
  <2>7. stop \in BOOLEAN /\ vmRow \in BOOLEAN /\ sync \in BOOLEAN /\ disturbed \in BOOLEAN
    BY <2>1, Zenon
  <2>8. /\ exec.pc \notin {"read", "save"} /\ ~(order.pc # "rest") /\ order.pc # "task"
    BY <2>3
  <2> QED
    BY <2>1, <2>2, <2>4, <2>5, <2>6, <2>7, <2>8 DEF JobType
<1>3. JobInv
  BY <1>1 DEF JobInit, JobInv, Linked, Follows
<1> QED
  BY <1>2, <1>3

\* The rows and copies of a provisioning job keep their types, and its handler runs only for a task that was taken.
THEOREM JobTypeCorrect == JobSpec => []JobType
<1>1. JobInit => JobType
  BY JobInitial
<1> QED
  BY <1>1, JobTypeNext, PTL DEF JobSpec

\* Provisioning.JobMatchesTask: unless a write was lost or LinkTask saved the request's copy over the handler's row, the
\* provisioning job says what became of its task: updateJobStatus's statuses, the link to the task and to the new VM's row
\* are there when the task has completed, and a job is completed only when the hypervisor has made a VM.
THEOREM JobMatchesTaskCorrect == JobSpec => []JobMatchesTask
<1>1. JobInit => JobType /\ JobInv
  BY JobInitial
<1>2. JobType /\ JobInv /\ [JobNext]_jobVars => (JobType /\ JobInv)'
  BY JobTypeNext, JobInvNext
<1>3. JobType /\ JobInv => JobMatchesTask
  <2> SUFFICES ASSUME JobType, JobInv, ~disturbed, order.pc = "done"
               PROVE  /\ jtask = "completed" => /\ job.status = "completed" /\ job.linked
                                                /\ job.type = "provision" => job.result /\ vmRow
                      /\ jtask \in {"failed", "retrying"} => job.status = "failed"
                      /\ job.status = "completed" => made > 0
    BY DEF JobMatchesTask
  <2>1. Linked /\ Follows
    BY DEF JobInv
  <2>2. jtask \in {"failed", "retrying"} => exec = Rest
    BY DEF JobType
  <2> QED
    BY <2>1, <2>2 DEF Linked, Follows
<1> QED
  BY <1>1, <1>2, <1>3, PTL DEF JobSpec



----------------------------------------------------------------------------
(* Environment: plans *)

\* A sequence that names every member of S once.
Lists(s, S) == /\ s \in Seq(S) /\ \A i, j \in 1..Len(s) : i # j => s[i] # s[j]
               /\ \A v \in S : \E i \in 1..Len(s) : s[i] = v

\* A sequence that names every member of a set once is as long as the set is large.
LEMMA ListLength ==
    ASSUME NEW S, NEW s, Lists(s, S)
    PROVE  Len(s) = Cardinality(S) /\ Range(s) = S /\ Len(s) \in Nat /\ DOMAIN s = 1..Len(s) /\ IsFiniteSet(S)
<1>1. s \in Seq(S) /\ Len(s) \in Nat /\ DOMAIN s = 1..Len(s) /\ \A i \in 1..Len(s) : s[i] \in S
    BY DEF Lists
<1>2. Range(s) = S
    BY <1>1 DEF Range, Lists
<1>3. s \in Bijection(1..Len(s), S)
    BY <1>1 DEF Lists, Bijection, Injection, Surjection, IsInjective
<1>4. IsFiniteSet(1..Len(s)) /\ Cardinality(1..Len(s)) = Len(s)
    <2>1. \A n \in Nat : IsFiniteSet(1..n) /\ Cardinality(1..n) = n
        BY FS_Interval
    <2> QED BY <1>1, <2>1
<1>5. ExistsBijection(1..Len(s), S)
    BY <1>3 DEF ExistsBijection
<1>6. IsFiniteSet(S) /\ Cardinality(S) = Cardinality(1..Len(s))
    BY <1>4, <1>5, FS_Bijection
<1> QED BY <1>1, <1>2, <1>4, <1>6

\* What sort.Slice returns names the same VMs, each once, none before a smaller one.
LEMMA SortedLists ==
    ASSUME NEW S, IsFiniteSet(S), NEW less, NEW s \in Sorted(S, less)
    PROVE  Lists(s, S) /\ \A i, j \in 1..Len(s) : i < j => <<s[j], s[i]>> \notin less
<1> DEFINE n == Cardinality(S)
<1>1. n \in Nat
    BY FS_CardinalityType
<1>2. s \in [1..n -> S] /\ (\A i, j \in 1..n : i # j => s[i] # s[j])
    BY DEF Sorted, SetToSeqs
<1>3. \A i, j \in DOMAIN s : i < j => <<s[j], s[i]>> \notin less
    BY DEF Sorted
<1>4. IsFiniteSet(1..n) /\ Cardinality(1..n) = n
    BY <1>1, FS_Interval
<1>5. s \in Injection(1..n, S)
    BY <1>2 DEF Injection, IsInjective
<1>6. s \in Surjection(1..n, S)
    BY <1>4, <1>5, FS_Injection
<1> HIDE DEF n
<1>7. s \in Seq(S) /\ Len(s) = n /\ DOMAIN s = 1..n
    BY <1>1, <1>2
<1>8. \A v \in S : \E i \in 1..n : s[i] = v
    BY <1>6 DEF Surjection
<1> QED BY <1>2, <1>3, <1>7, <1>8 DEF Lists

\* In a list the place of a VM is where it is.
LEMMA PosIs ==
    ASSUME NEW S, NEW s, Lists(s, S), NEW i \in 1..Len(s)
    PROVE  Pos(s, s[i]) = i
<1>1. DOMAIN s = 1..Len(s) /\ \A j \in 1..Len(s) : j # i => s[j] # s[i]
    BY DEF Lists
<1>2. \A j \in DOMAIN s : s[j] = s[i] <=> j = i
    BY <1>1
<1>3. \E j \in DOMAIN s : s[j] = s[i]
    BY <1>1
<1> QED BY <1>2, <1>3 DEF Pos

\* A list behind a list of other VMs.
LEMMA ListsCat ==
    ASSUME NEW S, NEW T, S \cap T = {}, NEW s, NEW t, Lists(s, S), Lists(t, T), NEW r, r = s \o t
    PROVE  /\ Lists(r, S \cup T) /\ Len(r) = Len(s) + Len(t)
           /\ \A i \in 1..Len(s) : r[i] = s[i]
           /\ \A i \in 1..Len(t) : r[Len(s) + i] = t[i]
<1>1. s \in Seq(S \cup T) /\ t \in Seq(S \cup T) /\ Len(s) \in Nat /\ Len(t) \in Nat
    BY DEF Lists
<1>2. /\ r \in Seq(S \cup T) /\ Len(r) = Len(s) + Len(t)
      /\ \A i \in 1..Len(s) : r[i] = s[i]
      /\ \A i \in 1..Len(t) : r[Len(s) + i] = t[i]
    BY <1>1
<1>3. \A i \in 1..Len(r) : \/ i \in 1..Len(s) /\ r[i] = s[i] /\ r[i] \in S
                           \/ i - Len(s) \in 1..Len(t) /\ r[i] = t[i - Len(s)] /\ r[i] \in T
    <2> TAKE i \in 1..Len(r)
    <2>1. CASE i \in 1..Len(s)
        <3>1. s[i] \in S
            BY <2>1 DEF Lists
        <3> QED BY <1>2, <2>1, <3>1
    <2>2. CASE i \notin 1..Len(s)
        <3>1. i - Len(s) \in 1..Len(t) /\ Len(s) + (i - Len(s)) = i
            BY <1>1, <1>2, <2>2
        <3>2. r[i] = t[i - Len(s)]
            BY <1>2, <3>1
        <3> QED BY <3>1, <3>2 DEF Lists
    <2> QED BY <2>1, <2>2
<1>4. ASSUME NEW i \in 1..Len(r), NEW j \in 1..Len(r), i # j PROVE r[i] # r[j]
    <2>1. CASE r[i] \in S /\ r[j] \in S
        <3>1. i \in 1..Len(s) /\ r[i] = s[i] /\ j \in 1..Len(s) /\ r[j] = s[j]
            BY <1>3, <2>1
        <3>2. \A k, l \in 1..Len(s) : k # l => s[k] # s[l]
            BY DEF Lists
        <3>3. s[i] # s[j]
            BY <1>4, <3>1, <3>2
        <3> QED BY <3>1, <3>3
    <2>2. CASE r[i] \in T /\ r[j] \in T
        <3>1. i - Len(s) \in 1..Len(t) /\ r[i] = t[i - Len(s)] /\ j - Len(s) \in 1..Len(t) /\ r[j] = t[j - Len(s)]
            BY <1>3, <2>2
        <3>2. i - Len(s) # j - Len(s)
            BY <1>1, <1>4
        <3>3. \A k, l \in 1..Len(t) : k # l => t[k] # t[l]
            BY DEF Lists
        <3>4. t[i - Len(s)] # t[j - Len(s)]
            BY <3>1, <3>2, <3>3
        <3> QED BY <3>1, <3>4
    <2> QED BY <1>3, <2>1, <2>2
<1>5. ASSUME NEW v \in S \cup T PROVE \E i \in 1..Len(r) : r[i] = v
    <2>1. CASE v \in S
        <3>1. PICK i \in 1..Len(s) : s[i] = v
            BY <2>1 DEF Lists
        <3>2. i \in 1..Len(r) /\ r[i] = v
            BY <1>1, <1>2, <3>1
        <3> QED BY <3>2
    <2>2. CASE v \in T
        <3>1. PICK i \in 1..Len(t) : t[i] = v
            BY <2>2 DEF Lists
        <3>2. Len(s) + i \in 1..Len(r) /\ r[Len(s) + i] = v
            BY <1>1, <1>2, <3>1
        <3> QED BY <3>2
    <2> QED BY <2>1, <2>2
<1> QED BY <1>2, <1>4, <1>5 DEF Lists

\* A list without its head, and a list with one VM more.
LEMMA ListsTail ==
    ASSUME NEW S, NEW s, Lists(s, S), s # << >>
    PROVE  Head(s) \in S /\ Lists(Tail(s), S \ {Head(s)})
<1>1. s \in Seq(S) /\ Len(s) \in Nat \ {0} /\ Head(s) = s[1]
    BY DEF Lists
<1>2. /\ Tail(s) \in Seq(S) /\ Len(Tail(s)) = Len(s) - 1
      /\ \A i \in 1..Len(s) - 1 : Tail(s)[i] = s[i + 1]
    BY <1>1
<1> DEFINE t == Tail(s)
<1> HIDE DEF t
<1>3. t \in Seq(S) /\ Len(t) = Len(s) - 1 /\ (\A i \in 1..Len(s) - 1 : t[i] = s[i + 1])
    BY <1>2 DEF t
<1>4. \A i \in 1..Len(t) : i + 1 \in 1..Len(s) /\ i + 1 # 1
    BY <1>1, <1>3
<1>5. \A i, j \in 1..Len(t) : i # j => t[i] # t[j]
    <2> SUFFICES ASSUME NEW i \in 1..Len(t), NEW j \in 1..Len(t), i # j PROVE t[i] # t[j]
        OBVIOUS
    <2>1. i + 1 \in 1..Len(s) /\ j + 1 \in 1..Len(s) /\ i + 1 # j + 1 /\ t[i] = s[i + 1] /\ t[j] = s[j + 1]
        BY <1>3, <1>4
    <2> QED BY <2>1 DEF Lists
<1>6. \A i \in 1..Len(t) : t[i] \in S \ {s[1]}
    <2> TAKE i \in 1..Len(t)
    <2>1. i + 1 \in 1..Len(s) /\ i + 1 # 1 /\ 1 \in 1..Len(s) /\ t[i] = s[i + 1]
        BY <1>1, <1>3, <1>4
    <2>2. s[i + 1] # s[1] /\ s[i + 1] \in S
        BY <2>1 DEF Lists
    <2> QED BY <2>1, <2>2
<1>7. t \in Seq(S \ {s[1]})
    BY <1>3, <1>6
<1>8. \A v \in S \ {s[1]} : \E i \in 1..Len(t) : t[i] = v
    <2> TAKE v \in S \ {s[1]}
    <2>1. PICK j \in 1..Len(s) : s[j] = v
        BY DEF Lists
    <2>2. j - 1 \in 1..Len(t) /\ (j - 1) + 1 = j
        BY <1>1, <1>3, <2>1
    <2>3. t[j - 1] = v
        BY <1>3, <2>1, <2>2
    <2> QED BY <2>2, <2>3
<1>9. s[1] \in S
    BY <1>1
<1> QED BY <1>1, <1>5, <1>7, <1>8, <1>9 DEF Lists, t

LEMMA ListsAppend ==
    ASSUME NEW S, NEW s, Lists(s, S), NEW v, v \notin S
    PROVE  /\ Lists(Append(s, v), S \cup {v}) /\ Len(Append(s, v)) = Len(s) + 1
           /\ \A i \in 1..Len(s) : Append(s, v)[i] = s[i]
           /\ Append(s, v)[Len(s) + 1] = v
<1> DEFINE r == Append(s, v)
<1>1. s \in Seq(S \cup {v}) /\ Len(s) \in Nat /\ \A i \in 1..Len(s) : s[i] \in S
    BY DEF Lists
<1>2. /\ r \in Seq(S \cup {v}) /\ Len(r) = Len(s) + 1
      /\ (\A i \in 1..Len(s) : r[i] = s[i]) /\ r[Len(s) + 1] = v
    BY <1>1
<1> HIDE DEF r
<1>3. \A i \in 1..Len(r) : i \in 1..Len(s) \/ i = Len(s) + 1
    BY <1>1, <1>2
<1>4. \A i, j \in 1..Len(r) : i # j => r[i] # r[j]
    BY <1>1, <1>2, <1>3 DEF Lists
<1>5. ASSUME NEW u \in S \cup {v} PROVE \E i \in 1..Len(r) : r[i] = u
    <2>1. CASE u \in S
        <3>1. PICK i \in 1..Len(s) : s[i] = u
            BY <2>1 DEF Lists
        <3>2. i \in 1..Len(r) /\ r[i] = u
            BY <1>1, <1>2, <3>1
        <3> QED BY <3>2
    <2>2. CASE u = v
        <3>1. Len(s) + 1 \in 1..Len(r)
            BY <1>1, <1>2
        <3> QED BY <1>2, <2>2, <3>1
    <2> QED BY <2>1, <2>2
<1> QED BY <1>2, <1>4, <1>5 DEF Lists, r

\* VMs that wait for each other are stuck, and each stuck VM waits for a stuck one.
LEMMA StuckWaits ==
    ASSUME NEW ms, NEW es
    PROVE  /\ Stuck(ms, es) \subseteq DOMAIN ms
           /\ \A v \in Stuck(ms, es) : \E d \in es : d.source = v /\ d.target \in Stuck(ms, es)
           /\ \A C \in SUBSET DOMAIN ms :
                (\A v \in C : \E d \in es : d.source = v /\ d.target \in C) => C \subseteq Stuck(ms, es)
<1> DEFINE CS == {C \in SUBSET DOMAIN ms : \A v \in C : \E d \in es : d.source = v /\ d.target \in C}
<1>1. Stuck(ms, es) = UNION CS
    BY DEF Stuck
<1>2. ASSUME NEW v \in UNION CS PROVE \E d \in es : d.source = v /\ d.target \in UNION CS
    <2>1. PICK C \in CS : v \in C
        OBVIOUS
    <2>2. PICK d \in es : d.source = v /\ d.target \in C
        BY <2>1
    <2> QED BY <2>1, <2>2
<1>3. ASSUME NEW C \in SUBSET DOMAIN ms, \A v \in C : \E d \in es : d.source = v /\ d.target \in C
      PROVE  C \subseteq UNION CS
    BY <1>3
<1> QED BY <1>1, <1>2, <1>3

\* The edges into v from VMs that are not in R.
Open(es, R, v) == {d \in es : d.source = v /\ d.target \notin R}

\* Where Kahn's algorithm stands: deg counts what each VM still waits for, the queue holds the VMs that wait for
\* none, the result has each VM behind all it waited for, and no stuck VM has come up.
KahnAt(ms, es, deg, q, r, Q, R) ==
    /\ Lists(r, R) /\ Lists(q, Q) /\ R \cup Q \subseteq DOMAIN ms /\ R \cap Q = {}
    /\ deg = [v \in DOMAIN ms |-> Cardinality(Open(es, R, v))]
    /\ \A v \in DOMAIN ms : v \in R \cup Q <=> Open(es, R, v) = {}
    /\ \A j \in 1..Len(r) : \A d \in es : d.source = r[j] => \E i \in 1..j - 1 : r[i] = d.target
    /\ Stuck(ms, es) \cap (R \cup Q) = {}

Kahn(ms, es, deg, q, r) == KahnAt(ms, es, deg, q, r, Range(q), Range(r))

\* What a finished plan is: OrderRespected for these rows.
Planned(op, ms, es, r) ==
    /\ Len(r) = Cardinality(DOMAIN ms) /\ Range(r) = DOMAIN ms
    /\ IF op = "stop"
       THEN \A i, j \in DOMAIN r : i < j => ms[r[i]].stop >= ms[r[j]].stop
       ELSE /\ \A d \in es : d.target \notin Stuck(ms, es) => Pos(r, d.target) < Pos(r, d.source)
            /\ \A u \in DOMAIN ms \ Stuck(ms, es), v \in Stuck(ms, es) : Pos(r, u) < Pos(r, v)

\* The rows a plan has read: finitely many, with their orderings.
RowsOK(ms) == IsFiniteSet(DOMAIN ms) /\ \A v \in DOMAIN ms : ms[v] \in Orderings

\* The algorithm starts with the VMs that wait for none.
LEMMA KahnStart ==
    ASSUME NEW ms, IsFiniteSet(DOMAIN ms), NEW es, IsFiniteSet(es), NEW deg,
           deg = [v \in DOMAIN ms |-> Cardinality({d \in es : d.source = v})],
           NEW q \in ByStart(ms, {v \in DOMAIN ms : deg[v] = 0})
    PROVE  Kahn(ms, es, deg, q, << >>)
<1> DEFINE Z == {v \in DOMAIN ms : deg[v] = 0}
<1>1. IsFiniteSet(Z) /\ Z \subseteq DOMAIN ms
    BY FS_Subset
<1>2. Lists(q, Z) /\ Range(q) = Z
    <2> HIDE DEF Z
    <2>1. Lists(q, Z)
        BY <1>1, SortedLists DEF ByStart, Z
    <2> QED BY <2>1, ListLength
<1>3. Range(<< >>) = {} /\ Lists(<< >>, {}) /\ Len(<< >>) = 0
    BY DEF Range, Lists
<1>4. \A v \in DOMAIN ms : Open(es, {}, v) = {d \in es : d.source = v} /\ IsFiniteSet(Open(es, {}, v))
    <2> TAKE v \in DOMAIN ms
    <2>1. Open(es, {}, v) = {d \in es : d.source = v}
        BY DEF Open
    <2>2. {d \in es : d.source = v} \in SUBSET es
        OBVIOUS
    <2> QED BY <2>1, <2>2, FS_Subset
<1>5. deg = [v \in DOMAIN ms |-> Cardinality(Open(es, {}, v))]
    BY <1>4
<1>6. \A v \in DOMAIN ms : v \in Z <=> Open(es, {}, v) = {}
    BY <1>4, <1>5, FS_EmptySet
<1>7. Stuck(ms, es) \cap Z = {}
    BY <1>6, StuckWaits DEF Open
<1> DEFINE none == << >>
<1> HIDE DEF Z, none
<1>8. KahnAt(ms, es, deg, q, none, Z, {})
    <2>1. Lists(none, {}) /\ Len(none) = 0
        BY <1>3 DEF none
    <2> QED BY <1>1, <1>2, <1>5, <1>6, <1>7, <2>1 DEF KahnAt
<1>9. Range(none) = {}
    BY <1>3 DEF none
<1> QED BY <1>2, <1>8, <1>9 DEF Kahn, none

\* A step of the algorithm: its head goes from the queue to the result and releases what waited only for it.
LEMMA KahnNext ==
    ASSUME NEW ms, IsFiniteSet(DOMAIN ms), NEW es, IsFiniteSet(es), NEW deg, NEW q, NEW r,
           Kahn(ms, es, deg, q, r), q # << >>,
           NEW out, out = [v \in DOMAIN ms |-> Cardinality({d \in es : d.target = Head(q) /\ d.source = v})],
           NEW q2 \in ByStart(ms, {v \in DOMAIN ms : out[v] > 0 /\ deg[v] = out[v]})
    PROVE  Kahn(ms, es, [v \in DOMAIN ms |-> deg[v] - out[v]], Tail(q) \o q2, Append(r, Head(q)))
<1> DEFINE Q == Range(q)
           R == Range(r)
           cur == Head(q)
           F == {v \in DOMAIN ms : out[v] > 0 /\ deg[v] = out[v]}
           In(v) == {d \in es : d.target = cur /\ d.source = v}
           Q2 == (Q \ {cur}) \cup F
           R2 == R \cup {cur}
<1>1. /\ Lists(r, R) /\ Lists(q, Q) /\ R \cup Q \subseteq DOMAIN ms /\ R \cap Q = {}
      /\ deg = [v \in DOMAIN ms |-> Cardinality(Open(es, R, v))]
      /\ \A v \in DOMAIN ms : v \in R \cup Q <=> Open(es, R, v) = {}
      /\ \A j \in 1..Len(r) : \A d \in es : d.source = r[j] => \E i \in 1..j - 1 : r[i] = d.target
      /\ Stuck(ms, es) \cap (R \cup Q) = {}
    BY DEF Kahn, KahnAt
<1>2. cur \in Q /\ Lists(Tail(q), Q \ {cur})
    BY <1>1, ListsTail
<1>3. /\ Lists(Append(r, cur), R2) /\ Len(Append(r, cur)) = Len(r) + 1
      /\ \A i \in 1..Len(r) : Append(r, cur)[i] = r[i]
      /\ Append(r, cur)[Len(r) + 1] = cur
    BY <1>1, <1>2, ListsAppend
<1> HIDE DEF Q, R, cur
<1>4. ASSUME NEW v \in DOMAIN ms
      PROVE  /\ In(v) \subseteq Open(es, R, v)
             /\ Open(es, R2, v) = Open(es, R, v) \ In(v)
    BY <1>1, <1>2 DEF Open
<1>5. ASSUME NEW v \in DOMAIN ms
      PROVE  /\ out[v] \in Nat /\ deg[v] \in Nat /\ out[v] = Cardinality(In(v)) /\ deg[v] = Cardinality(Open(es, R, v))
             /\ Cardinality(Open(es, R2, v)) = deg[v] - out[v]
             /\ out[v] = 0 <=> In(v) = {}
             /\ deg[v] - out[v] = 0 <=> Open(es, R2, v) = {}
    <2> DEFINE O == Open(es, R, v)
               I == In(v)
    <2>1. out[v] = Cardinality(I) /\ deg[v] = Cardinality(O)
        BY <1>1 DEF cur
    <2>2. O \in SUBSET es /\ I \in SUBSET O /\ Open(es, R2, v) = O \ I
        BY <1>4 DEF Open
    <2> HIDE DEF O, I
    <2>3. IsFiniteSet(O) /\ IsFiniteSet(I) /\ IsFiniteSet(O \ I)
        <3>1. IsFiniteSet(O)
            BY <2>2, FS_Subset
        <3> QED BY <2>2, <3>1, FS_Subset
    <2>4. Cardinality(O) \in Nat /\ Cardinality(I) \in Nat /\ Cardinality(O \ I) \in Nat
        BY <2>3, FS_CardinalityType
    <2>5. O \cap I = I
        BY <2>2
    <2>6. Cardinality(O \ I) = Cardinality(O) - Cardinality(O \cap I)
        BY <2>3, FS_Difference
    <2>7. Cardinality(O \ I) = deg[v] - out[v]
        BY <2>1, <2>5, <2>6
    <2>8. (Cardinality(I) = 0 <=> I = {}) /\ (Cardinality(O \ I) = 0 <=> O \ I = {})
        BY <2>3, FS_EmptySet
    <2> QED BY <2>1, <2>2, <2>4, <2>7, <2>8 DEF O, I
<1> HIDE DEF In
<1>6. F \subseteq DOMAIN ms /\ IsFiniteSet(F)
    BY FS_Subset
<1>7. F \cap (R \cup Q) = {}
    BY <1>1, <1>4, <1>5
<1>8. Lists(q2, F)
    <2> HIDE DEF F
    <2> QED BY <1>6, SortedLists DEF ByStart, F
<1>9. Lists(Tail(q) \o q2, Q2)
    <2> HIDE DEF F
    <2>1. (Q \ {cur}) \cap F = {}
        BY <1>7
    <2> QED BY <1>2, <1>8, <2>1, ListsCat
<1>10. \A v \in DOMAIN ms : v \in R2 \cup Q2 <=> Open(es, R2, v) = {}
    <2> TAKE v \in DOMAIN ms
    <2>1. CASE v \in R \cup Q
        BY <1>1, <1>4, <2>1
    <2>2. CASE v \notin R \cup Q
        <3>1. v \notin R2 /\ v \notin Q \ {cur}
            BY <1>2, <2>2
        <3>2. v \in F <=> out[v] > 0 /\ deg[v] = out[v]
            OBVIOUS
        <3>3. Open(es, R, v) # {}
            BY <1>1, <2>2
        <3>4. Open(es, R2, v) = {} => In(v) # {}
            BY <1>4, <3>3
        <3>5. v \in F <=> Open(es, R2, v) = {}
            <4>1. /\ out[v] \in Nat /\ deg[v] \in Nat
                  /\ out[v] = 0 <=> In(v) = {}
                  /\ deg[v] - out[v] = 0 <=> Open(es, R2, v) = {}
                BY <1>5
            <4>2. Open(es, R2, v) = {} => out[v] # 0
                BY <3>4, <4>1
            <4> HIDE DEF F
            <4> DEFINE a == out[v]
                       b == deg[v]
            <4>3. a \in Nat /\ b \in Nat /\ (v \in F <=> a > 0 /\ b = a)
                BY <3>2, <4>1
            <4> HIDE DEF a, b
            <4>4. v \in F <=> a # 0 /\ b - a = 0
                BY <4>3
            <4> QED BY <4>1, <4>2, <4>4 DEF a, b
        <3> QED BY <3>1, <3>5
    <2> QED BY <2>1, <2>2
<1> HIDE DEF F
<1>11. ASSUME NEW j \in 1..Len(r) + 1, NEW d \in es, d.source = Append(r, cur)[j]
       PROVE  \E i \in 1..j - 1 : Append(r, cur)[i] = d.target
    <2>1. Len(r) \in Nat
        BY <1>1 DEF Lists
    <2>2. CASE j \in 1..Len(r)
        <3>1. PICK i \in 1..j - 1 : r[i] = d.target
            BY <1>1, <1>3, <1>11, <2>2
        <3>2. i \in 1..Len(r)
            BY <2>1, <2>2
        <3> QED BY <1>3, <3>1, <3>2
    <2>3. CASE j = Len(r) + 1
        <3>1. d.source = cur
            BY <1>3, <1>11, <2>3
        <3>2. Open(es, R, cur) = {}
            BY <1>1, <1>2
        <3>3. d.target \in R
            BY <3>1, <3>2 DEF Open
        <3>4. PICK i \in 1..Len(r) : r[i] = d.target
            BY <1>1, <3>3 DEF Lists
        <3>5. j - 1 = Len(r)
            BY <2>1, <2>3
        <3> QED BY <1>3, <3>4, <3>5
    <2> QED BY <2>1, <2>2, <2>3
<1>12. Stuck(ms, es) \cap (R2 \cup Q2) = {}
    <2>1. SUFFICES ASSUME NEW v \in Stuck(ms, es), v \in F PROVE FALSE
        BY <1>1, <1>2
    <2>2. Open(es, R2, v) = {}
        BY <1>6, <1>10, <2>1
    <2>3. PICK d \in es : d.source = v /\ d.target \in Stuck(ms, es)
        BY StuckWaits
    <2>4. d.target \in R2
        BY <2>2, <2>3 DEF Open
    <2> QED BY <1>1, <1>2, <2>3, <2>4
<1> DEFINE deg2 == [v \in DOMAIN ms |-> deg[v] - out[v]]
           rr == Append(r, cur)
           qq == Tail(q) \o q2
<1>13. deg2 = [v \in DOMAIN ms |-> Cardinality(Open(es, R2, v))]
    BY <1>5
<1>14. R2 \cup Q2 \subseteq DOMAIN ms /\ R2 \cap Q2 = {}
    BY <1>1, <1>2, <1>6, <1>7
<1>15. \A j \in 1..Len(rr) : \A d \in es : d.source = rr[j] => \E i \in 1..j - 1 : rr[i] = d.target
    BY <1>3, <1>11
<1>16. Lists(rr, R2) /\ Lists(qq, Q2)
    BY <1>3, <1>9
<1>17. Range(rr) = R2 /\ Range(qq) = Q2
    <2> HIDE DEF rr, qq, R2, Q2
    <2> QED BY <1>16, ListLength
<1> HIDE DEF rr, qq, R2, Q2, deg2
<1>18. KahnAt(ms, es, deg2, qq, rr, Q2, R2)
    BY <1>10, <1>12, <1>13, <1>14, <1>15, <1>16 DEF KahnAt
<1>19. Kahn(ms, es, deg2, qq, rr)
    BY <1>17, <1>18 DEF Kahn
<1> QED BY <1>19 DEF deg2, qq, rr, cur


\* With nothing left in the queue the result holds the VMs that are not stuck, and these come last.
LEMMA KahnEnd ==
    ASSUME NEW ms, IsFiniteSet(DOMAIN ms), NEW es, \A d \in es : {d.source, d.target} \subseteq DOMAIN ms,
           NEW deg, NEW r, Kahn(ms, es, deg, << >>, r), NEW op, op # "stop",
           NEW t \in ByStart(ms, DOMAIN ms \ Range(r))
    PROVE  Planned(op, ms, es, r \o t)
<1> DEFINE R == Range(r)
           S == Stuck(ms, es)
           p == r \o t
           T == DOMAIN ms \ R
<1>1. /\ Lists(r, R) /\ R \subseteq DOMAIN ms
      /\ \A v \in DOMAIN ms : v \in R <=> Open(es, R, v) = {}
      /\ \A j \in 1..Len(r) : \A d \in es : d.source = r[j] => \E i \in 1..j - 1 : r[i] = d.target
      /\ S \cap R = {}
    <2>1. Range(<< >>) = {}
        BY DEF Range
    <2> QED BY <2>1 DEF Kahn, KahnAt
<1> HIDE DEF R
<1>2. Lists(t, T)
    <2>1. IsFiniteSet(T)
        BY FS_Subset
    <2> HIDE DEF T
    <2> QED BY <2>1, SortedLists DEF ByStart, T, R
<1>3. S = T
    <2>1. \A v \in T : \E d \in es : d.source = v /\ d.target \in T
        BY <1>1 DEF Open
    <2>2. T \subseteq S
        BY <2>1, StuckWaits
    <2>3. S \subseteq DOMAIN ms
        BY StuckWaits
    <2> QED BY <1>1, <2>2, <2>3
<1>4. R \cap T = {} /\ R \cup T = DOMAIN ms
    BY <1>1
<1> HIDE DEF S, T
<1>5. /\ Lists(p, DOMAIN ms) /\ Len(p) = Len(r) + Len(t)
      /\ \A i \in 1..Len(r) : p[i] = r[i]
      /\ \A i \in 1..Len(t) : p[Len(r) + i] = t[i]
    <2>1. p = r \o t
        OBVIOUS
    <2>2. Lists(r, R) /\ Lists(t, T) /\ R \cap T = {}
        BY <1>1, <1>2, <1>4
    <2> HIDE DEF p
    <2>3. Lists(p, R \cup T)
        BY <2>1, <2>2, ListsCat
    <2>4. Len(p) = Len(r) + Len(t)
        BY <2>1, <2>2, ListsCat
    <2>5. \A i \in 1..Len(r) : p[i] = r[i]
        BY <2>1, <2>2, ListsCat
    <2>6. \A i \in 1..Len(t) : p[Len(r) + i] = t[i]
        BY <2>1, <2>2, ListsCat
    <2> QED BY <1>4, <2>3, <2>4, <2>5, <2>6
<1> HIDE DEF p
<1>6. Len(p) = Cardinality(DOMAIN ms) /\ Range(p) = DOMAIN ms
    BY <1>5, ListLength
<1>7. Len(r) \in Nat /\ Len(t) \in Nat
    BY <1>1, <1>2 DEF Lists
<1>8. ASSUME NEW i \in 1..Len(r) PROVE Pos(p, r[i]) = i
    <2>1. i \in 1..Len(p) /\ p[i] = r[i]
        BY <1>5, <1>7
    <2> QED BY <1>5, <2>1, PosIs
<1>9. ASSUME NEW u \in R PROVE \E i \in 1..Len(r) : r[i] = u /\ Pos(p, u) = i
    <2>1. PICK i \in 1..Len(r) : r[i] = u
        BY <1>1 DEF Lists
    <2> QED BY <1>8, <2>1
<1>10. ASSUME NEW u \in DOMAIN ms \ S, NEW v \in S PROVE Pos(p, u) < Pos(p, v)
    <2>1. u \in R
        BY <1>3, <1>4
    <2>2. PICK i \in 1..Len(r) : Pos(p, u) = i
        BY <1>9, <2>1
    <2>3. PICK k \in 1..Len(t) : t[k] = v
        BY <1>2, <1>3 DEF Lists
    <2>4. Len(r) + k \in 1..Len(p) /\ p[Len(r) + k] = v
        BY <1>5, <1>7, <2>3
    <2>5. Pos(p, v) = Len(r) + k
        BY <1>5, <2>4, PosIs
    <2> QED BY <1>7, <2>2, <2>5
<1>11. ASSUME NEW d \in es, d.target \notin S PROVE Pos(p, d.target) < Pos(p, d.source)
    <2>1. d.source \in DOMAIN ms /\ d.target \in DOMAIN ms
        OBVIOUS
    <2>2. CASE d.source \in S
        BY <1>10, <1>11, <2>1, <2>2
    <2>3. CASE d.source \notin S
        <3>1. d.source \in R
            BY <1>3, <1>4, <2>1, <2>3
        <3>2. PICK j \in 1..Len(r) : r[j] = d.source /\ Pos(p, d.source) = j
            BY <1>9, <3>1
        <3>3. PICK i \in 1..j - 1 : r[i] = d.target
            BY <1>1, <3>2
        <3>4. i \in 1..Len(r) /\ i < j
            BY <1>7, <3>2, <3>3
        <3>5. Pos(p, d.target) = i
            BY <1>8, <3>3, <3>4
        <3> QED BY <3>2, <3>4, <3>5
    <2> QED BY <2>2, <2>3
<1> QED BY <1>6, <1>10, <1>11 DEF Planned, S, p

\* What a sort by stop order returns.
LEMMA StopSorted ==
    ASSUME NEW ms, NEW S, IsFiniteSet(S), NEW r \in ByStop(ms, S)
    PROVE  Lists(r, S) /\ \A i, j \in 1..Len(r) : i < j => ~(ms[r[j]].stop > ms[r[i]].stop)
<1> DEFINE less == {p \in S \X S : ms[p[1]].stop > ms[p[2]].stop}
<1>1. r \in Sorted(S, less)
    BY DEF ByStop
<1>2. Lists(r, S) /\ \A i, j \in 1..Len(r) : i < j => <<r[j], r[i]>> \notin less
    <2> HIDE DEF less
    <2> QED BY <1>1, SortedLists
<1>3. ASSUME NEW u \in S, NEW v \in S, <<u, v>> \notin less PROVE ~(ms[u].stop > ms[v].stop)
    BY <1>3
<1>4. \A i \in 1..Len(r) : r[i] \in S
    BY <1>2 DEF Lists
<1> HIDE DEF less
<1> QED BY <1>2, <1>3, <1>4

\* A stop looks at the stop order only.
LEMMA StopPlanned ==
    ASSUME NEW ms, RowsOK(ms), NEW es, NEW r \in ByStop(ms, DOMAIN ms)
    PROVE  Planned("stop", ms, es, r)
<1>1. Lists(r, DOMAIN ms) /\ \A i, j \in 1..Len(r) : i < j => ~(ms[r[j]].stop > ms[r[i]].stop)
    BY StopSorted DEF RowsOK
<1>2. Len(r) = Cardinality(DOMAIN ms) /\ Range(r) = DOMAIN ms /\ DOMAIN r = 1..Len(r)
    BY <1>1, ListLength
<1>3. ASSUME NEW i \in 1..Len(r), NEW j \in 1..Len(r), i < j PROVE ms[r[i]].stop >= ms[r[j]].stop
    <2>1. r[i] \in DOMAIN ms /\ r[j] \in DOMAIN ms
        BY <1>1 DEF Lists
    <2>2. ms[r[i]].stop \in Int /\ ms[r[j]].stop \in Int
        BY <2>1, EnvironmentAssumption DEF RowsOK
    <2> QED BY <1>1, <1>3, <2>2
<1> QED BY <1>2, <1>3 DEF Planned

----------------------------------------------------------------------------
(* Environment: OrderRespected *)

\* What a request has read and computed so far.
ReqInv == /\ req = Ready \/ req.pc \in {"update", "members", "sort", "planned"}
          /\ req.pc \in {"update", "members"} => RowsOK(req.members)
          /\ req.pc = "sort" => /\ req = [pc |-> "sort", op |-> req.op, members |-> req.members, deps |-> req.deps,
                                          edges |-> req.edges, deg |-> req.deg, queue |-> req.queue, result |-> req.result]
                                /\ req.op # "stop" /\ RowsOK(req.members) /\ IsFiniteSet(req.deps)
                                /\ req.edges = Edges(req.members, req.deps)
                                /\ Kahn(req.members, req.edges, req.deg, req.queue, req.result)
          /\ req.pc = "planned" => Planned(req.op, req.members, Edges(req.members, req.deps), req.result)

PlanInv == RowsOK(members) /\ IsFiniteSet(deps) /\ ReqInv

\* The edges are some of the dependencies, between members.
LEMMA EdgesOK ==
    ASSUME NEW ms, NEW ds, IsFiniteSet(ds)
    PROVE  IsFiniteSet(Edges(ms, ds)) /\ \A d \in Edges(ms, ds) : {d.source, d.target} \subseteq DOMAIN ms
<1>1. Edges(ms, ds) \in SUBSET ds
    BY DEF Edges
<1>2. IsFiniteSet(Edges(ms, ds))
    BY <1>1, FS_Subset
<1> QED BY <1>2 DEF Edges, Ordering

\* Rows of two tables, or of fewer VMs, are rows.
LEMMA RowsRows ==
    ASSUME NEW ms, NEW ns, RowsOK(ms), RowsOK(ns)
    PROVE  RowsOK(Rows(ms, ns))
<1>1. IsFiniteSet(DOMAIN ms \cup DOMAIN ns)
    BY FS_Union DEF RowsOK
<1>2. /\ DOMAIN Rows(ms, ns) = DOMAIN ms \cup DOMAIN ns
      /\ \A v \in DOMAIN ms \cup DOMAIN ns : Rows(ms, ns)[v] = IF v \in DOMAIN ms THEN ms[v] ELSE ns[v]
    BY DEF Rows
<1>3. ASSUME NEW v \in DOMAIN ms \cup DOMAIN ns PROVE Rows(ms, ns)[v] \in Orderings
    BY <1>2 DEF RowsOK
<1> QED BY <1>1, <1>2, <1>3 DEF RowsOK

\* One row alone, and no row.
LEMMA OneRow ==
    /\ \A v : \A o \in Orderings : RowsOK([u \in {v} |-> o])
    /\ RowsOK(NoMembers)
<1>1. ASSUME NEW v, NEW o \in Orderings PROVE RowsOK([u \in {v} |-> o])
    <2>1. IsFiniteSet({v})
        BY FS_Singleton
    <2> QED BY <2>1 DEF RowsOK
<1>2. RowsOK(NoMembers)
    BY FS_EmptySet DEF RowsOK, NoMembers
<1> QED BY <1>1, <1>2

\* A request starts with nothing read.
LEMMA PlanInvInit == EnvInit => PlanInv
<1> SUFFICES ASSUME EnvInit PROVE PlanInv
    OBVIOUS
<1>1. RowsOK(members) /\ IsFiniteSet(deps)
    BY OneRow, FS_EmptySet DEF EnvInit
<1>2. ReqInv
    BY DEF EnvInit, ReqInv, Ready
<1> QED BY <1>1, <1>2 DEF PlanInv

\* The tables stay finite, with orderings, whatever is written.
LEMMA RowsInv ==
    ASSUME PlanInv, EnvNext
    PROVE  RowsOK(members') /\ IsFiniteSet(deps')
<1>1. RowsOK(members) /\ IsFiniteSet(deps) /\ ReqInv
    BY DEF PlanInv
<1>2. RowsOK(members') /\ IsFiniteSet(deps')
    <2>1. CASE EnvCreate \/ EnvUpdate \/ EnvRefreshStatus \/ PlanDependencies \/ PlanNext \/ PlanRest \/ PlanDone
        BY <1>1, <2>1 DEF EnvCreate, EnvUpdate, EnvRefreshStatus, PlanDependencies, PlanNext, PlanRest, PlanDone
    <2>2. CASE EnvUpdateSave
        <3>1. req.pc = "update" /\ members' = Rows(members, req.members) /\ deps' = deps
            BY <2>2 DEF EnvUpdateSave
        <3>2. RowsOK(req.members)
            BY <1>1, <3>1 DEF ReqInv
        <3> QED BY <1>1, <3>1, <3>2, RowsRows
    <2>3. CASE EnvDelete
        BY <2>3, OneRow, FS_EmptySet DEF EnvDelete
    <2>4. CASE \E v \in VMs, o \in Orderings : EnvAddVM(v, o)
        <3>1. PICK v \in VMs, o \in Orderings : EnvAddVM(v, o)
            BY <2>4
        <3>2. members' = Rows([u \in {v} |-> o], members) /\ deps' = deps
            BY <3>1 DEF EnvAddVM
        <3>3. RowsOK([u \in {v} |-> o])
            BY OneRow
        <3>4. RowsOK(Rows([u \in {v} |-> o], members))
            BY <1>1, <3>3, RowsRows
        <3> QED BY <1>1, <3>2, <3>4
    <2>5. CASE \E v \in VMs, o \in Orderings : EnvUpdateVMOrdering(v, o)
        <3>1. PICK v \in VMs, o \in Orderings : EnvUpdateVMOrdering(v, o)
            BY <2>5
        <3>2. members' = [members EXCEPT ![v] = o] /\ deps' = deps
            BY <3>1 DEF EnvUpdateVMOrdering
        <3>3. RowsOK(members')
            BY <1>1, <3>2 DEF RowsOK
        <3> QED BY <1>1, <3>2, <3>3
    <2>6. CASE \E v \in VMs, stay \in SUBSET deps : EnvRemoveVM(v, stay)
        <3>1. PICK v \in VMs, stay \in SUBSET deps : EnvRemoveVM(v, stay)
            BY <2>6
        <3>2. /\ members' = [u \in DOMAIN members \ {v} |-> members[u]]
              /\ deps' \in SUBSET deps
            BY <3>1 DEF EnvRemoveVM
        <3>3. IsFiniteSet(DOMAIN members \ {v})
            <4>1. IsFiniteSet(DOMAIN members) /\ DOMAIN members \ {v} \in SUBSET DOMAIN members
                BY <1>1 DEF RowsOK
            <4> QED BY <4>1, FS_Subset
        <3>4. RowsOK(members')
            BY <1>1, <3>2, <3>3 DEF RowsOK
        <3>5. IsFiniteSet(deps')
            BY <1>1, <3>2, FS_Subset
        <3> QED BY <3>4, <3>5
    <2>7. CASE \E d \in Links : EnvAddDependency(d)
        <3>1. PICK d \in Links : EnvAddDependency(d)
            BY <2>7
        <3>2. members' = members /\ deps' = deps \cup {d}
            BY <3>1 DEF EnvAddDependency
        <3> QED BY <1>1, <3>2, FS_AddElement
    <2>8. CASE \E d \in Links : EnvRemoveDependency(d)
        <3>1. PICK d \in Links : EnvRemoveDependency(d)
            BY <2>8
        <3>2. members' = members /\ deps' = deps \ {d} /\ deps' \in SUBSET deps
            BY <3>1 DEF EnvRemoveDependency
        <3> QED BY <1>1, <3>2, FS_Subset
    <2>9. CASE \E op \in Operations : PlanMembers(op)
        BY <1>1, <2>9 DEF PlanMembers
    <2> QED BY <2>1, <2>2, <2>3, <2>4, <2>5, <2>6, <2>7, <2>8, <2>9 DEF EnvNext
<1> QED BY <1>2


\* A plan that has read the dependencies starts the algorithm; a stop is finished then.
LEMMA DependenciesReq ==
    ASSUME PlanInv, PlanDependencies
    PROVE  ReqInv'
<1> DEFINE ms == req.members
           es == Edges(ms, deps)
           deg == [v \in DOMAIN ms |-> Cardinality({d \in es : d.source = v})]
<1>1. req.pc = "members" /\ RowsOK(ms) /\ IsFiniteSet(deps)
    BY DEF PlanDependencies, PlanInv, ReqInv
<1>2. CASE req.op = "stop"
    <2>1. PICK r \in ByStop(ms, DOMAIN ms) :
            req' = [pc |-> "planned", op |-> req.op, members |-> ms, deps |-> deps, result |-> r]
        BY <1>2 DEF PlanDependencies
    <2>2. Planned("stop", ms, es, r)
        BY <1>1, StopPlanned
    <2> HIDE DEF ms, es, deg
    <2>3. req'.pc = "planned" /\ req'.op = "stop" /\ req'.members = ms /\ req'.deps = deps /\ req'.result = r
        BY <1>2, <2>1
    <2>4. Planned(req'.op, req'.members, Edges(req'.members, req'.deps), req'.result)
        BY <2>2, <2>3 DEF es
    <2> QED BY <2>3, <2>4 DEF ReqInv
<1>3. CASE req.op # "stop"
    <2>1. PICK q \in ByStart(ms, {v \in DOMAIN ms : deg[v] = 0}) :
            req' = [pc |-> "sort", op |-> req.op, members |-> ms, deps |-> deps,
                    edges |-> es, deg |-> deg, queue |-> q, result |-> << >>]
        BY <1>3 DEF PlanDependencies
    <2>2. IsFiniteSet(es)
        BY <1>1, EdgesOK
    <2>3. Kahn(ms, es, deg, q, << >>)
        BY <1>1, <2>2, KahnStart DEF RowsOK
    <2>4. es = Edges(ms, deps)
        OBVIOUS
    <2> DEFINE r == << >>
    <2> HIDE DEF ms, es, deg, r
    <2>5. req' = [pc |-> "sort", op |-> req.op, members |-> ms, deps |-> deps,
                  edges |-> es, deg |-> deg, queue |-> q, result |-> r]
        BY <2>1 DEF r
    <2>6. /\ req'.pc = "sort" /\ req'.op = req.op /\ req'.members = ms /\ req'.deps = deps
          /\ req'.edges = es /\ req'.deg = deg /\ req'.queue = q /\ req'.result = r
        BY <2>5
    <2>7. Kahn(req'.members, req'.edges, req'.deg, req'.queue, req'.result)
        BY <2>3, <2>6 DEF r
    <2>8. req'.edges = Edges(req'.members, req'.deps)
        BY <2>4, <2>6
    <2> QED BY <1>1, <1>3, <2>5, <2>6, <2>7, <2>8 DEF ReqInv
<1> QED BY <1>2, <1>3

\* A step of the algorithm.
LEMMA NextReq ==
    ASSUME PlanInv, PlanNext
    PROVE  ReqInv'
<1> DEFINE ms == req.members
           es == req.edges
           cur == Head(req.queue)
           out == [v \in DOMAIN ms |-> Cardinality({d \in es : d.target = cur /\ d.source = v})]
           freed == {v \in DOMAIN ms : out[v] > 0 /\ req.deg[v] = out[v]}
           deg == [v \in DOMAIN ms |-> req.deg[v] - out[v]]
           res == Append(req.result, cur)
<1>1. /\ req.pc = "sort" /\ req.queue # << >> /\ req.op # "stop" /\ RowsOK(ms) /\ IsFiniteSet(req.deps)
      /\ es = Edges(ms, req.deps) /\ Kahn(ms, es, req.deg, req.queue, req.result)
      /\ req = [pc |-> "sort", op |-> req.op, members |-> ms, deps |-> req.deps,
                edges |-> es, deg |-> req.deg, queue |-> req.queue, result |-> req.result]
    BY DEF PlanNext, PlanInv, ReqInv
<1>2. PICK q \in ByStart(ms, freed) :
        req' = [req EXCEPT !.queue = Tail(req.queue) \o q, !.result = res, !.deg = deg]
    BY DEF PlanNext
<1> DEFINE que == Tail(req.queue) \o q
<1>3. IsFiniteSet(es)
    BY <1>1, EdgesOK
<1>4. Kahn(ms, es, deg, que, res)
    <2>1. IsFiniteSet(DOMAIN ms)
        BY <1>1 DEF RowsOK
    <2>2. out = [v \in DOMAIN ms |-> Cardinality({d \in es : d.target = Head(req.queue) /\ d.source = v})]
        OBVIOUS
    <2>3. q \in ByStart(ms, {v \in DOMAIN ms : out[v] > 0 /\ req.deg[v] = out[v]})
        BY <1>2
    <2> HIDE DEF ms, es, out
    <2> QED BY <1>1, <1>3, <2>1, <2>2, <2>3, KahnNext
<1>5. req' = [req EXCEPT !.queue = que, !.result = res, !.deg = deg]
    BY <1>2
<1> HIDE DEF ms, es, deg, res, que
<1>6. req' = [pc |-> "sort", op |-> req.op, members |-> ms, deps |-> req.deps,
              edges |-> es, deg |-> deg, queue |-> que, result |-> res]
    <2> DEFINE q0 == req.queue
               r0 == req.result
               d0 == req.deg
               p0 == req.op
               ds == req.deps
    <2>1. req = [pc |-> "sort", op |-> p0, members |-> ms, deps |-> ds,
                 edges |-> es, deg |-> d0, queue |-> q0, result |-> r0]
        BY <1>1
    <2> HIDE DEF q0, r0, d0, p0, ds
    <2>2. req' = [pc |-> "sort", op |-> p0, members |-> ms, deps |-> ds,
                  edges |-> es, deg |-> deg, queue |-> que, result |-> res]
        BY <1>5, <2>1
    <2> QED BY <2>2 DEF p0, ds
<1>7. /\ req'.pc = "sort" /\ req'.op = req.op /\ req'.members = ms /\ req'.deps = req.deps
      /\ req'.edges = es /\ req'.deg = deg /\ req'.queue = que /\ req'.result = res
    BY <1>6
<1> QED BY <1>1, <1>4, <1>6, <1>7 DEF ReqInv

\* What was held back comes last, and the plan is finished.
LEMMA RestReq ==
    ASSUME PlanInv, PlanRest
    PROVE  ReqInv'
<1> DEFINE ms == req.members
           es == req.edges
<1>1. /\ req.pc = "sort" /\ req.queue = << >> /\ req.op # "stop" /\ RowsOK(ms) /\ IsFiniteSet(req.deps)
      /\ es = Edges(ms, req.deps) /\ Kahn(ms, es, req.deg, req.queue, req.result)
    BY DEF PlanRest, PlanInv, ReqInv
<1>2. PICK t \in ByStart(ms, DOMAIN ms \ Range(req.result)) :
        req' = [pc |-> "planned", op |-> req.op, members |-> ms, deps |-> req.deps, result |-> req.result \o t]
    BY DEF PlanRest
<1>3. \A d \in es : {d.source, d.target} \subseteq DOMAIN ms
    BY <1>1, EdgesOK
<1> DEFINE res == req.result \o t
<1>4. Planned(req.op, ms, es, res)
    <2>1. Kahn(ms, es, req.deg, << >>, req.result)
        BY <1>1
    <2> QED BY <1>1, <1>3, <2>1, KahnEnd DEF RowsOK
<1>5. req' = [pc |-> "planned", op |-> req.op, members |-> ms, deps |-> req.deps, result |-> res]
    BY <1>2
<1> HIDE DEF ms, es, res
<1>6. req'.pc = "planned" /\ req'.op = req.op /\ req'.members = ms /\ req'.deps = req.deps /\ req'.result = res
    BY <1>5
<1>7. Planned(req'.op, req'.members, Edges(req'.members, req'.deps), req'.result)
    BY <1>1, <1>4, <1>6
<1> QED BY <1>6, <1>7 DEF ReqInv

\* The other actions read the rows, finish the request or leave it alone.
LEMMA PlanInvNext == PlanInv /\ [EnvNext]_envVars => PlanInv'
<1> SUFFICES ASSUME PlanInv, [EnvNext]_envVars PROVE PlanInv'
    OBVIOUS
<1>1. RowsOK(members) /\ IsFiniteSet(deps) /\ ReqInv
    BY DEF PlanInv
<1>2. CASE UNCHANGED envVars
    BY <1>1, <1>2 DEF envVars, PlanInv, ReqInv
<1>3. CASE EnvNext
    <2>1. RowsOK(members') /\ IsFiniteSet(deps')
        BY <1>3, RowsInv
    <2> SUFFICES ReqInv'
        BY <2>1 DEF PlanInv
    <2>2. CASE req' = req
        BY <1>1, <2>2 DEF ReqInv
    <2>3. CASE req' = Ready
        BY <2>3 DEF ReqInv, Ready
    <2>4. CASE EnvUpdate
        <3>1. req' = [pc |-> "update", env |-> env, members |-> members]
            BY <2>4 DEF EnvUpdate
        <3> QED BY <1>1, <3>1 DEF ReqInv
    <2>5. CASE \E op \in Operations : PlanMembers(op)
        <3>1. PICK op \in Operations : PlanMembers(op)
            BY <2>5
        <3>2. req' = [pc |-> "members", op |-> op, members |-> members]
            BY <3>1 DEF PlanMembers
        <3> QED BY <1>1, <3>2 DEF ReqInv
    <2>6. CASE PlanDependencies \/ PlanNext \/ PlanRest
        BY <2>6, DependenciesReq, NextReq, RestReq
    <2>7. \/ req' = req \/ req' = Ready \/ EnvUpdate \/ \E op \in Operations : PlanMembers(op)
          \/ PlanDependencies \/ PlanNext \/ PlanRest
        BY <1>3 DEF EnvNext, EnvCreate, EnvUpdateSave, EnvDelete, EnvRefreshStatus, EnvAddVM, EnvUpdateVMOrdering,
                    EnvRemoveVM, EnvAddDependency, EnvRemoveDependency, PlanDone
    <2> QED BY <2>2, <2>3, <2>4, <2>5, <2>6, <2>7
<1> QED BY <1>2, <1>3

\* A plan of createOrchestrationRun names each member it has read once; a stop goes by stop order, any other
\* plan has each VM behind all it depends on, except where a cycle makes that impossible, and the VMs a cycle
\* holds back come last, whatever was added, removed, reordered or saved again before.
THEOREM PlansOrdered == EnvSpec => []OrderRespected
<1>1. EnvInit => PlanInv
    BY PlanInvInit
<1>2. PlanInv /\ [EnvNext]_envVars => PlanInv'
    BY PlanInvNext
<1>3. PlanInv => OrderRespected
    <2> SUFFICES ASSUME PlanInv, req.pc = "planned" PROVE OrderRespected
        BY DEF OrderRespected
    <2>1. Planned(req.op, req.members, Edges(req.members, req.deps), req.result)
        BY DEF PlanInv, ReqInv
    <2> QED BY <2>1 DEF Planned, OrderRespected, Edges
<1> QED BY <1>1, <1>2, <1>3, PTL DEF EnvSpec


=============================================================================
