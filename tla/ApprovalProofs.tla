--------------------------- MODULE ApprovalProofs ---------------------------
(***************************************************************************)
(* Proofs about Approval, for every set of requests and actors, every      *)
(* length of a chain and any number of failed calls.                       *)
(***************************************************************************)
EXTENDS Approval, TLAPS

\* Every status, step status and operation is the one its name says.
LEMMA ResultType ==
  /\ Ops = {"approve", "reject", "cancel", "escalate"}
  /\ \A o \in Ops : Result[o] \in Decided
  /\ Result["approve"] = "approved" /\ Result["reject"] = "rejected"
  /\ \A o \in Ops : Result[o] = "approved" => o = "approve"
BY DEF Ops, Result, Decided, ApprovalStatus

\* The only steps there are have a positive order.
LEMMA StepsType == \A r \in Requests : Steps(r) \subseteq Nat \ {0}
BY DEF Steps

\* The type of the step rows.
StepRows(s) ==
  /\ DOMAIN s = Requests
  /\ \A r \in Requests : s[r] \in [Steps(r) -> ApprovalStepStatus \cup {"none"}]

\* Writing one step row keeps the type of the rows.
LEMMA StepUpdate ==
  ASSUME NEW s, StepRows(s), NEW r0 \in Requests, NEW k0 \in Steps(r0),
         NEW v \in ApprovalStepStatus
  PROVE  StepRows([s EXCEPT ![r0][k0] = v])
BY DEF StepRows

\* Where an actor works on a step, its operation is a decision on a step.
OnStep ==
  \A a \in Actors : pc[a] \in {"step", "resolve", "more"} => op[a] \in {"approve", "reject"}

\* The rows and the actors have their types after every step.
TypeInv == TypeOK /\ OnStep

LEMMA TypeInit == Init => TypeInv
BY ResultType, ApprovalAssumption
   DEF Init, TypeInv, TypeOK, OnStep, ApprovalStatus, ApprovalStepStatus

LEMMA TypeNext == TypeInv /\ [Next]_vars => TypeInv'
<1> SUFFICES ASSUME TypeInv, [Next]_vars PROVE TypeInv'
  OBVIOUS
<1> USE ResultType, StepsType, ApprovalAssumption
<1> USE DEF TypeInv, TypeOK, OnStep, rows, actor, sweep, ApprovalStatus, ApprovalStepStatus, Decided
<1>1. ASSUME NEW r \in Requests, Create(r) PROVE TypeInv'
  BY <1>1 DEF Create
<1>2. ASSUME NEW r \in Requests, CreateStep(r) PROVE TypeInv'
  <2>0. StepRows(step)
    BY DEF StepRows
  <2>1. StepRows(step')
    <3>1. CASE step' = [step EXCEPT ![r][making[r]] = "pending"]
      <4>1. making[r] \in Steps(r) /\ "pending" \in ApprovalStepStatus
        BY <1>2 DEF CreateStep
      <4>2. StepRows([step EXCEPT ![r][making[r]] = "pending"])
        BY <2>0, <4>1, StepUpdate
      <4> QED BY <3>1, <4>2
    <3>2. CASE UNCHANGED step
      BY <2>0, <3>2 DEF StepRows
    <3> QED BY <1>2, <3>1, <3>2 DEF CreateStep
  <2>2. /\ making' \in [Requests -> Nat] /\ faults' \in Nat
        /\ UNCHANGED <<status, history, due, actor, sweep, early>>
    BY <1>2 DEF CreateStep, Fault
  <2> QED
    BY <2>1, <2>2 DEF StepRows
<1>3. ASSUME NEW r \in Requests, CreateEnd(r) PROVE TypeInv'
  BY <1>3 DEF CreateEnd
<1>4. ASSUME NEW r \in Requests, CreateCut(r) PROVE TypeInv'
  BY <1>4 DEF CreateCut, Fault
<1>5. ASSUME NEW r \in Requests, PassDeadline(r) PROVE TypeInv'
  BY <1>5 DEF PassDeadline
<1>6. ASSUME NEW a \in Actors, NEW r \in Requests, NEW o \in Ops, Begin(a, r, o)
      PROVE TypeInv'
  BY <1>6 DEF Begin, Goto
<1>7. ASSUME NEW a \in Actors, ReadStep(a) PROVE TypeInv'
  BY <1>7 DEF ReadStep, Goto, PendingSteps
<1>8. ASSUME NEW a \in Actors, ResolveStep(a) PROVE TypeInv'
  <2>1. Result[op[a]] \in {"approved", "rejected"} /\ cur[a] \in Steps(req[a]) /\ req[a] \in Requests
    BY <1>8 DEF ResolveStep
  <2>2. StepRows(step')
    <3>1. StepRows(step) /\ Result[op[a]] \in ApprovalStepStatus
      BY <2>1 DEF StepRows
    <3>2. StepRows([step EXCEPT ![req[a]][cur[a]] = Result[op[a]]])
      BY <2>1, <3>1, StepUpdate
    <3> QED BY <1>8, <3>2 DEF ResolveStep
  <2>3. /\ pc' = [pc EXCEPT ![a] = IF op[a] = "approve" THEN "more" ELSE "save"]
        /\ UNCHANGED <<status, history, making, due, op, req, cur, sweep, early, faults>>
    BY <1>8 DEF ResolveStep, Goto
  <2> QED
    BY <2>1, <2>2, <2>3, <1>8 DEF StepRows, ResolveStep
<1>9. ASSUME NEW a \in Actors, MoreSteps(a) PROVE TypeInv'
  BY <1>9 DEF MoreSteps, Goto, Fault
<1>10. ASSUME NEW a \in Actors, Save(a) PROVE TypeInv'
  BY <1>10 DEF Save, Goto
<1>11. ASSUME NEW a \in Actors, Record(a) PROVE TypeInv'
  BY <1>11 DEF Record, Goto
<1>12. ASSUME NEW a \in Actors, Cut(a) PROVE TypeInv'
  BY <1>12 DEF Cut, Goto, Fault
<1>13. CASE ListExpired
  BY <1>13 DEF ListExpired
<1>14. ASSUME NEW r \in Requests, ExpireStale(r) PROVE TypeInv'
  BY <1>14 DEF ExpireStale, Fault
<1>15. ASSUME NEW r \in Requests, ExpireRecord(r) PROVE TypeInv'
  BY <1>15 DEF ExpireRecord
<1>16. CASE UNCHANGED vars
  BY <1>16 DEF vars, PendingSteps
<1> QED
  BY <1>1, <1>2, <1>3, <1>4, <1>5, <1>6, <1>7, <1>8, <1>9, <1>10, <1>11, <1>12,
     <1>13, <1>14, <1>15, <1>16 DEF Next, Creating, Acting, Expiring

\* Every variable keeps its type.
THEOREM TypeCorrect == Spec => []TypeOK
<1>1. TypeInv => TypeOK
  BY DEF TypeInv
<1> QED
  BY <1>1, TypeInit, TypeNext, PTL DEF Spec

-----------------------------------------------------------------------------
(* No save revives a decided request.                                      *)

\* A save writes the result of its operation, which is a decision; Create
\* writes "pending" only to a row that does not exist.
THEOREM NeverPendingAgainCorrect == Spec => NeverPendingAgain
<1> DEFINE Stays == \A r \in Requests : status[r] \in Decided => status'[r] \in Decided
<1>1. TypeInv /\ [Next]_vars => [Stays]_vars
  <2> SUFFICES ASSUME TypeInv, Next PROVE Stays
    OBVIOUS
  <2> USE ResultType DEF TypeInv, TypeOK, rows
  <2>1. ASSUME NEW r \in Requests, Create(r) PROVE Stays
    BY <2>1 DEF Create, Decided, ApprovalStatus
  <2>2. ASSUME NEW a \in Actors, Save(a) PROVE Stays
    BY <2>2 DEF Save
  <2>3. ASSUME NEW r \in Requests, ExpireStale(r) PROVE Stays
    BY <2>3 DEF ExpireStale, Decided, ApprovalStatus
  <2>4. CASE UNCHANGED status
    BY <2>4
  <2> QED
    BY <2>1, <2>2, <2>3, <2>4
       DEF Next, Creating, Acting, Expiring, CreateStep, CreateEnd, CreateCut, PassDeadline,
           Begin, ReadStep, ResolveStep, MoreSteps, Record, Cut, ListExpired, ExpireRecord
<1> QED
  BY <1>1, TypeInit, TypeNext, PTL DEF Spec, NeverPendingAgain

-----------------------------------------------------------------------------
(* The chain is resolved in order.                                         *)

\* Create inserts the steps in order, once: the rows from the next one on do
\* not exist, and none exists before the request does.
InOrder ==
  \A r \in Requests :
    /\ status[r] = "none" => making[r] = 0 /\ \A k \in Steps(r) : step[r][k] = "none"
    /\ making[r] # 0 => \A k \in Steps(r) : k >= making[r] => step[r][k] = "none"

\* The step an actor has read exists, and was the first one pending.
FirstPending ==
  \A a \in Actors : pc[a] = "resolve" =>
    /\ step[req[a]][cur[a]] # "none"
    /\ \A j \in Steps(req[a]) : j < cur[a] => step[req[a]][j] # "pending"

ChainInv == InOrder /\ FirstPending /\ ChainInOrder

LEMMA ChainInit == Init => ChainInv
BY DEF Init, ChainInv, InOrder, FirstPending, ChainInOrder

\* Steps that write no step row and read none keep the invariant.
LEMMA ChainFrame ==
  ASSUME TypeInv, ChainInv,
         UNCHANGED <<step, req, cur>>,
         \A r \in Requests : status[r] # "none" => status'[r] # "none",
         \A r \in Requests : making'[r] \in {0, making[r]},
         \A a \in Actors : pc'[a] = "resolve" => pc[a] = "resolve"
  PROVE  ChainInv'
BY DEF ChainInv, InOrder, FirstPending, ChainInOrder, TypeInv, TypeOK

LEMMA ChainNext == TypeInv /\ ChainInv /\ [Next]_vars => ChainInv'
<1> SUFFICES ASSUME TypeInv, ChainInv, [Next]_vars PROVE ChainInv'
  OBVIOUS
<1> USE StepsType
<1>1. ASSUME NEW r \in Requests, Create(r) PROVE ChainInv'
  BY <1>1 DEF Create, actor, TypeInv, TypeOK, ChainInv, InOrder, FirstPending, ChainInOrder
<1>2. ASSUME NEW r \in Requests, CreateStep(r) PROVE ChainInv'
  <2> DEFINE m == making[r]
  <2>1. /\ m \in Steps(r) /\ m \in Nat \ {0} /\ status[r] # "none"
        /\ making' = [making EXCEPT ![r] = m + 1]
        /\ UNCHANGED <<status, pc, op, req, cur>>
    BY <1>2 DEF CreateStep, actor, ChainInv, InOrder, TypeInv, TypeOK
  <2>2. \A q \in Requests : \A k \in Steps(q) :
          \/ step'[q][k] = step[q][k]
          \/ q = r /\ k = m /\ step'[q][k] = "pending"
    <3>1. StepRows(step) /\ "pending" \in ApprovalStepStatus
      BY DEF StepRows, TypeInv, TypeOK, ApprovalStepStatus
    <3>2. CASE step' = [step EXCEPT ![r][m] = "pending"]
      <4>1. m \in Steps(r)
        BY <2>1
      <4> HIDE DEF m
      <4>2. \A q \in Requests : \A k \in Steps(q) :
              step'[q][k] = IF q = r /\ k = m THEN "pending" ELSE step[q][k]
        BY <3>1, <3>2, <4>1 DEF StepRows
      <4> QED BY <4>2
    <3> QED BY <1>2, <3>2 DEF CreateStep
  <2>3. \A k \in Steps(r) : k >= m => step[r][k] = "none"
    BY <2>1 DEF ChainInv, InOrder
  <2>4. InOrder'
    BY <2>1, <2>2, <2>3 DEF ChainInv, InOrder, TypeInv, TypeOK
  <2>5. FirstPending'
    BY <2>1, <2>2, <2>3 DEF ChainInv, FirstPending, TypeInv, TypeOK
  <2>6. ChainInOrder'
    BY <2>1, <2>2, <2>3 DEF ChainInv, ChainInOrder
  <2> QED
    BY <2>4, <2>5, <2>6 DEF ChainInv
<1>3. ASSUME NEW a \in Actors, NEW r \in Requests, NEW o \in Ops, Begin(a, r, o)
      PROVE ChainInv'
  BY <1>3 DEF Begin, Goto, rows, TypeInv, TypeOK, ChainInv, InOrder, FirstPending, ChainInOrder
<1>4. ASSUME NEW a \in Actors, ReadStep(a) PROVE ChainInv'
  <2>1. InOrder' /\ ChainInOrder'
    BY <1>4 DEF ReadStep, rows, ChainInv, InOrder, ChainInOrder
  <2>2. FirstPending'
    <3>1. CASE pc' = [pc EXCEPT ![a] = "idle"] /\ UNCHANGED cur
      BY <1>4, <3>1 DEF ReadStep, rows, ChainInv, FirstPending, TypeInv, TypeOK
    <3>2. ASSUME NEW k \in PendingSteps(req[a]),
                 \A j \in PendingSteps(req[a]) : k <= j,
                 cur' = [cur EXCEPT ![a] = k], pc' = [pc EXCEPT ![a] = "resolve"]
          PROVE  FirstPending'
      <4>1. req[a] \in Requests /\ k \in Steps(req[a]) /\ step[req[a]][k] = "pending"
        BY <1>4 DEF ReadStep, TypeInv, TypeOK, PendingSteps
      <4>2. \A j \in Steps(req[a]) : j < k => step[req[a]][j] # "pending"
        BY <3>2, <4>1 DEF PendingSteps
      <4> QED
        BY <1>4, <3>2, <4>1, <4>2
           DEF ReadStep, rows, ChainInv, FirstPending, TypeInv, TypeOK
    <3> QED BY <1>4, <3>1, <3>2 DEF ReadStep, Goto
  <2> QED
    BY <2>1, <2>2 DEF ChainInv
<1>5. ASSUME NEW a \in Actors, ResolveStep(a) PROVE ChainInv'
  <2> DEFINE r == req[a]
             c == cur[a]
  <2>1. /\ r \in Requests /\ c \in Steps(r) /\ pc[a] = "resolve"
        /\ Result[op[a]] \in {"approved", "rejected"}
    BY <1>5, ResultType DEF ResolveStep, TypeInv, TypeOK, OnStep
  <2>2. \A q \in Requests : \A k \in Steps(q) :
          step'[q][k] = IF q = r /\ k = c THEN Result[op[a]] ELSE step[q][k]
    <3>1. StepRows(step) /\ Result[op[a]] \in ApprovalStepStatus
      BY <2>1 DEF StepRows, TypeInv, TypeOK, ApprovalStepStatus
    <3>2. step' = [step EXCEPT ![r][c] = Result[op[a]]]
      BY <1>5 DEF ResolveStep
    <3> QED BY <2>1, <3>1, <3>2 DEF StepRows
  <2>3. /\ UNCHANGED <<status, making, req, cur>>
        /\ \A b \in Actors : pc'[b] = "resolve" => pc[b] = "resolve"
    BY <1>5 DEF ResolveStep, Goto, TypeInv, TypeOK
  <2>4. /\ step[r][c] # "none"
        /\ \A j \in Steps(r) : j < c => step[r][j] # "pending"
    BY <2>1 DEF ChainInv, FirstPending
  <2>5. InOrder'
    BY <2>1, <2>2, <2>3, <2>4 DEF ChainInv, InOrder
  <2>6. FirstPending'
    BY <2>1, <2>2, <2>3 DEF ChainInv, FirstPending, TypeInv, TypeOK
  <2>7. ChainInOrder'
    BY <2>1, <2>2, <2>4 DEF ChainInv, ChainInOrder
  <2> QED
    BY <2>5, <2>6, <2>7 DEF ChainInv
<1>6. ASSUME NEW a \in Actors, Save(a) PROVE ChainInv'
  BY <1>6, ChainFrame, ResultType DEF Save, Goto, TypeInv, TypeOK, Decided, ApprovalStatus
<1>7. ASSUME NEW a \in Actors, MoreSteps(a) \/ Record(a) \/ Cut(a) PROVE ChainInv'
  BY <1>7, ChainFrame DEF MoreSteps, Record, Cut, Goto, rows, TypeInv, TypeOK
<1>8. ASSUME NEW r \in Requests, CreateEnd(r) \/ CreateCut(r) PROVE ChainInv'
  BY <1>8, ChainFrame DEF CreateEnd, CreateCut, rows, actor, TypeInv, TypeOK
<1>9. ASSUME NEW r \in Requests, ExpireStale(r) PROVE ChainInv'
  BY <1>9, ChainFrame DEF ExpireStale, actor, TypeInv, TypeOK
<1>10. ASSUME NEW r \in Requests, PassDeadline(r) \/ ExpireRecord(r)
       PROVE ChainInv'
  BY <1>10, ChainFrame DEF PassDeadline, ExpireRecord, rows, actor
<1>11. CASE UNCHANGED vars
  BY <1>11, ChainFrame DEF vars, rows, actor
<1>12. CASE ListExpired
  BY <1>12, ChainFrame DEF ListExpired, rows, actor
<1> QED
  BY <1>1, <1>2, <1>3, <1>4, <1>5, <1>6, <1>7, <1>8, <1>9, <1>10, <1>11, <1>12
     DEF Next, Creating, Acting, Expiring

\* Approval chains are processed sequentially, whoever acts at the same time:
\* what an actor has read as the first pending step stays the first one that
\* can be pending, because no row returns to pending and Create adds only
\* later ones.
THEOREM ChainInOrderCorrect == Spec => []ChainInOrder
<1>1. ChainInv => ChainInOrder
  BY DEF ChainInv
<1> QED
  BY <1>1, TypeInit, TypeNext, ChainInit, ChainNext, PTL DEF Spec

-----------------------------------------------------------------------------
(* Overlapping approvals leave no step undecided.                          *)

Resolved(r) == \A k \in Steps(r) : step[r][k] \in {"approved", "rejected"}

\* Nobody acts on a request that does not exist, and none such expires.
ActsOnRow ==
  /\ \A a \in Actors : pc[a] # "idle" => status[req[a]] # "none"
  /\ \A r \in expiring : status[r] # "none"

\* What is known of a request whose rows were all written and on which nobody
\* acted early: the rows inserted so far exist, an actor works only after the
\* last of them, and one about to approve has seen all of them decided.
ApprovedAt(r) ==
  /\ status[r] = "approved" => Resolved(r)
  /\ \A a \in Actors :
       /\ pc[a] # "idle" /\ req[a] = r => making[r] = 0
       /\ pc[a] = "save" /\ req[a] = r /\ op[a] = "approve" => Resolved(r)
  /\ status[r] # "none" =>
       \A k \in Steps(r) : making[r] = 0 \/ k < making[r] => step[r][k] # "none"

ApprovedInv ==
  /\ ActsOnRow
  /\ \A r \in Requests \ early : faults = 0 => ApprovedAt(r)

LEMMA ApprovedInit == Init => ApprovedInv
BY DEF Init, ApprovedInv, ActsOnRow, ApprovedAt

\* Steps that change no step row, start no operation and create nothing.
LEMMA ApprovedFrame ==
  ASSUME TypeInv, ApprovedInv,
         UNCHANGED <<step, op, req, early>>,
         \A r \in Requests : status'[r] = "none" <=> status[r] = "none",
         \A r \in Requests : status'[r] = "approved" => status[r] = "approved",
         UNCHANGED making,
         \A a \in Actors : pc'[a] # "idle" => pc[a] # "idle",
         \A a \in Actors : pc'[a] = "save" => pc[a] = "save",
         \A r \in expiring' : r \in Requests /\ status[r] # "none",
         faults' = 0 => faults = 0
  PROVE  ApprovedInv'
<1>1. ActsOnRow'
  BY DEF ApprovedInv, ActsOnRow, TypeInv, TypeOK
<1>2. ASSUME NEW r \in Requests \ early, faults' = 0 PROVE ApprovedAt(r)'
  <2>1. ApprovedAt(r)
    BY <1>2 DEF ApprovedInv
  <2> QED
    BY <2>1 DEF ApprovedAt, Resolved
<1> QED
  BY <1>1, <1>2 DEF ApprovedInv

LEMMA ApprovedNext ==
  TypeInv /\ ChainInv /\ ApprovedInv /\ [Next]_vars => ApprovedInv'
<1> SUFFICES ASSUME TypeInv, ChainInv, ApprovedInv, [Next]_vars PROVE ApprovedInv'
  OBVIOUS
<1> USE StepsType, ResultType, ApprovalAssumption
<1>0. ASSUME faults' = faults + 1 PROVE faults' # 0
  BY <1>0 DEF TypeInv, TypeOK
<1>1. ASSUME NEW r \in Requests, Create(r) PROVE ApprovedInv'
  BY <1>1 DEF Create, actor, sweep, TypeInv, TypeOK, ApprovedInv, ActsOnRow, ApprovedAt, Resolved
<1>2. ASSUME NEW r \in Requests, CreateStep(r) PROVE ApprovedInv'
  <2>1. /\ making[r] \in Steps(r) /\ making[r] # 0
        /\ making' = [making EXCEPT ![r] = making[r] + 1]
        /\ UNCHANGED <<status, pc, op, req, early, expiring>>
    BY <1>2 DEF CreateStep, actor, sweep
  <2>2. ActsOnRow'
    BY <2>1 DEF ApprovedInv, ActsOnRow
  <2>3. ASSUME NEW q \in Requests \ early, faults' = 0 PROVE ApprovedAt(q)'
    <3>1. step' = [step EXCEPT ![r][making[r]] = "pending"] /\ faults = 0
      BY <1>0, <1>2, <2>3 DEF CreateStep, Fault
    <3>2. ApprovedAt(q)
      BY <2>3, <3>1 DEF ApprovedInv
    <3>3. CASE q # r
      BY <2>1, <3>1, <3>2, <3>3 DEF ApprovedAt, Resolved, TypeInv, TypeOK
    <3>4. CASE q = r
      <4>1. step[r][making[r]] = "none"
        BY <2>1 DEF ChainInv, InOrder, TypeInv, TypeOK
      <4>2. status[r] # "approved" /\ \A a \in Actors : pc[a] = "idle" \/ req[a] # r
        BY <2>1, <3>2, <3>4, <4>1 DEF ApprovedAt, Resolved
      <4>3. status[r] # "none"
        BY <2>1 DEF ChainInv, InOrder
      <4>4. \A k \in Steps(r) : k < making[r] + 1 => step'[r][k] # "none"
        <5>1. \A k \in Steps(r) : k < making[r] => step[r][k] # "none"
          BY <3>2, <3>4, <4>3 DEF ApprovedAt
        <5>2. step[r] \in [Steps(r) -> ApprovalStepStatus \cup {"none"}] /\ making[r] \in Nat
          BY DEF TypeInv, TypeOK
        <5>3. step'[r] = [step[r] EXCEPT ![making[r]] = "pending"]
          BY <3>1 DEF TypeInv, TypeOK
        <5> QED BY <2>1, <5>1, <5>2, <5>3
      <4>5. making'[r] = making[r] + 1 /\ making'[r] # 0
        BY <2>1 DEF TypeInv, TypeOK
      <4> QED BY <2>1, <3>4, <4>2, <4>4, <4>5 DEF ApprovedAt
    <3> QED BY <3>3, <3>4
  <2> QED
    BY <2>1, <2>2, <2>3 DEF ApprovedInv
<1>3. ASSUME NEW r \in Requests, CreateEnd(r) PROVE ApprovedInv'
  <2>1. /\ \A k \in Steps(r) : k < making[r]
        /\ making' = [making EXCEPT ![r] = 0]
        /\ UNCHANGED <<status, step, pc, op, req, early, faults, expiring>>
    BY <1>3 DEF CreateEnd, actor, sweep, Steps, TypeInv, TypeOK
  <2> QED
    BY <2>1 DEF ApprovedInv, ActsOnRow, ApprovedAt, Resolved, TypeInv, TypeOK
<1>4. ASSUME NEW r \in Requests, CreateCut(r) PROVE ApprovedInv'
  BY <1>0, <1>4 DEF CreateCut, Fault, rows, actor, sweep, ApprovedInv, ActsOnRow
<1>5. ASSUME NEW a \in Actors, NEW r \in Requests, NEW o \in Ops, Begin(a, r, o)
      PROVE ApprovedInv'
  BY <1>5 DEF Begin, Goto, rows, sweep, TypeInv, TypeOK, ApprovedInv, ActsOnRow, ApprovedAt, Resolved
<1>6. ASSUME NEW a \in Actors, ReadStep(a) PROVE ApprovedInv'
  BY <1>6, ApprovedFrame DEF ReadStep, Goto, rows, sweep, ApprovedInv, ActsOnRow, TypeInv, TypeOK
<1>7. ASSUME NEW a \in Actors, ResolveStep(a) PROVE ApprovedInv'
  <2>1. /\ pc[a] = "resolve" /\ req[a] \in Requests /\ cur[a] \in Steps(req[a])
        /\ Result[op[a]] \in {"approved", "rejected"}
        /\ step' = [step EXCEPT ![req[a]][cur[a]] = Result[op[a]]]
        /\ UNCHANGED <<status, making, op, req, early, faults, expiring>>
    BY <1>7 DEF ResolveStep, sweep, TypeInv, TypeOK, OnStep
  <2>2. /\ \A b \in Actors : pc'[b] # "idle" => pc[b] # "idle"
        /\ \A b \in Actors : pc'[b] = "save" /\ op[b] = "approve" => pc[b] = "save"
    BY <1>7 DEF ResolveStep, Goto, TypeInv, TypeOK
  <2>3. \A q \in Requests : \A k \in Steps(q) :
          step'[q][k] \in {step[q][k], "approved", "rejected"}
    BY <2>1 DEF TypeInv, TypeOK
  <2>4. \A q \in Requests : Resolved(q) => Resolved(q)'
    BY <2>3 DEF Resolved
  <2> QED
    BY <2>1, <2>2, <2>3, <2>4 DEF ApprovedInv, ActsOnRow, ApprovedAt, TypeInv, TypeOK
<1>8. ASSUME NEW a \in Actors, MoreSteps(a) PROVE ApprovedInv'
  <2>1. /\ pc[a] = "more" /\ req[a] \in Requests
        /\ UNCHANGED <<status, step, making, op, req, early, expiring>>
        /\ pc' \in {[pc EXCEPT ![a] = "record"], [pc EXCEPT ![a] = "save"]}
    BY <1>8 DEF MoreSteps, Goto, rows, sweep, TypeInv, TypeOK
  <2>2. ActsOnRow'
    BY <2>1 DEF ApprovedInv, ActsOnRow, TypeInv, TypeOK
  <2>3. ASSUME NEW q \in Requests \ early, faults' = 0 PROVE ApprovedAt(q)'
    <3>1. /\ faults = 0
          /\ pc'[a] = "save" => PendingSteps(req[a]) = {}
      BY <1>0, <1>8, <2>3 DEF MoreSteps, Goto, Fault, TypeInv, TypeOK
    <3>2. ApprovedAt(q)
      BY <2>3, <3>1 DEF ApprovedInv
    <3>3. pc'[a] = "save" /\ req[a] = q => Resolved(q)
      BY <2>1, <3>1, <3>2
         DEF ApprovedAt, Resolved, PendingSteps, ApprovedInv, ActsOnRow, TypeInv, TypeOK,
             ApprovalStepStatus
    <3> QED
      BY <2>1, <3>2, <3>3 DEF ApprovedAt, Resolved, TypeInv, TypeOK
  <2> QED
    BY <2>1, <2>2, <2>3 DEF ApprovedInv
<1>9. ASSUME NEW a \in Actors, Save(a) PROVE ApprovedInv'
  <2>1. /\ pc[a] = "save" /\ req[a] \in Requests /\ Result[op[a]] \in Decided
        /\ Result[op[a]] = "approved" => op[a] = "approve"
        /\ status' = [status EXCEPT ![req[a]] = Result[op[a]]]
        /\ pc' = [pc EXCEPT ![a] = "record"]
        /\ UNCHANGED <<step, making, op, req, early, faults, expiring>>
    BY <1>9 DEF Save, Goto, sweep, TypeInv, TypeOK
  <2>2. Result[op[a]] # "none" /\ status[req[a]] # "none"
    BY <2>1 DEF Decided, ApprovalStatus, ApprovedInv, ActsOnRow
  <2> QED
    BY <2>1, <2>2 DEF ApprovedInv, ActsOnRow, ApprovedAt, Resolved, TypeInv, TypeOK
<1>10. ASSUME NEW a \in Actors, Record(a) \/ Cut(a) PROVE ApprovedInv'
  BY <1>0, <1>10, ApprovedFrame
     DEF Record, Cut, Goto, Fault, rows, sweep, ApprovedInv, ActsOnRow, TypeInv, TypeOK
<1>11. ASSUME NEW r \in Requests, PassDeadline(r) \/ ExpireRecord(r)
       PROVE ApprovedInv'
  BY <1>11, ApprovedFrame
     DEF PassDeadline, ExpireRecord, rows, actor, sweep, ApprovedInv, ActsOnRow, TypeInv, TypeOK
<1>12. ASSUME NEW r \in Requests, ExpireStale(r) PROVE ApprovedInv'
  <2>1. /\ UNCHANGED <<step, op, req, early, making, pc>> /\ (faults' = 0 => faults = 0)
        /\ r \in expiring /\ expiring' = expiring \ {r}
    BY <1>0, <1>12 DEF ExpireStale, Fault, actor
  <2>2. CASE UNCHANGED status
    BY <2>1, <2>2, ApprovedFrame DEF ApprovedInv, ActsOnRow, TypeInv, TypeOK
  <2>3. CASE status' = [status EXCEPT ![r] = "expired"]
    BY <2>1, <2>3 DEF ApprovedInv, ActsOnRow, ApprovedAt, Resolved, TypeInv, TypeOK
  <2> QED BY <1>12, <2>2, <2>3 DEF ExpireStale
<1>13. CASE UNCHANGED vars
  BY <1>13, ApprovedFrame DEF vars, rows, actor, sweep, ApprovedInv, ActsOnRow, TypeInv, TypeOK
<1>14. CASE ListExpired
  BY <1>14, ApprovedFrame DEF ListExpired, rows, actor, TypeInv, TypeOK
<1> QED
  BY <1>1, <1>2, <1>3, <1>4, <1>5, <1>6, <1>7, <1>8, <1>9, <1>10, <1>11, <1>12, <1>13, <1>14
     DEF Next, Creating, Acting, Expiring

\* An approved request on which nobody acted early has no undecided step, as
\* long as no call fails: the second GetCurrentPendingStep of Approve sees
\* every step the others have not yet resolved.
THEOREM ApprovedIsResolvedCorrect == Spec => []ApprovedIsResolved
<1>1. ApprovedInv => ApprovedIsResolved
  BY DEF ApprovedInv, ApprovedAt, Resolved, ApprovedIsResolved
<1> QED
  BY <1>1, TypeInit, TypeNext, ChainInit, ChainNext, ApprovedInit, ApprovedNext, PTL DEF Spec

=============================================================================
