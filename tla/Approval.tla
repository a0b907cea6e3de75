------------------------------ MODULE Approval ------------------------------
(***************************************************************************)
(* Approval requests (internal/service/approval_service.go), the expiry    *)
(* worker (internal/policy/expiry.go) and the rows they share.             *)
(*                                                                         *)
(* Every operation reads the request, checks that it is pending, and later *)
(* saves the whole row it has read; nothing makes a save conditional.  One *)
(* step of an action is one database call.  An operation that finds the    *)
(* request not pending changes nothing and is not modelled.  Steps have    *)
(* the orders 1, 2, ... in which the policy lists them.                    *)
(***************************************************************************)
EXTENDS Naturals

CONSTANTS
  Requests,
  NoRequest,
  Actors,      \* HTTP requests that decide on an approval request
  Configured,  \* request -> number of steps its policy configures
  MaxFaults    \* bound: database calls that fail, operations cut short

ASSUME ApprovalAssumption ==
  /\ Configured \in [Requests -> Nat]
  /\ NoRequest \notin Requests
  /\ MaxFaults \in Nat

VARIABLES
  status,      \* request row: status ("none" before it exists)
  step,        \* step rows: status of each step ("none" before it exists)
  making,      \* the step Create will insert next, 0 when it is over
  due,         \* requests whose expires_at has passed
  history,     \* actions in the request's audit trail
  pc,          \* where each actor is
  op,          \* its operation
  req,         \* the request it has read
  cur,         \* the step it has read
  expiring,    \* what ListExpired returned and ExpireStale has not yet saved
  recording,   \* expired requests whose history entry is still to come
  \* history variables of the model
  early,       \* requests that an actor read before Create was over
  faults

rows  == <<status, step, history>>
actor == <<pc, op, req, cur>>
sweep == <<expiring, recording>>
vars  == <<rows, making, due, actor, sweep, early, faults>>

-----------------------------------------------------------------------------

\* A policy without steps gets one for any administrator.
Steps(r) == 1..(IF Configured[r] = 0 THEN 1 ELSE Configured[r])

ApprovalStatus ==
  {"pending", "approved", "rejected", "expired", "escalated", "cancelled"}

Decided == ApprovalStatus \ {"pending"}

ApprovalStepStatus == {"pending", "approved", "rejected"}

\* The status each operation saves.
Result == [approve |-> "approved", reject |-> "rejected",
           cancel |-> "cancelled", escalate |-> "escalated"]

Ops == DOMAIN Result

PendingSteps(r) == {k \in Steps(r) : step[r][k] = "pending"}

Fault == faults < MaxFaults /\ faults' = faults + 1

Init ==
  /\ status = [r \in Requests |-> "none"]
  /\ step = [r \in Requests |-> [k \in Steps(r) |-> "none"]]
  /\ making = [r \in Requests |-> 0]
  /\ due = {}
  /\ history = [r \in Requests |-> {}]
  /\ pc = [a \in Actors |-> "idle"]
  /\ op = [a \in Actors |-> "approve"]
  /\ req = [a \in Actors |-> NoRequest]
  /\ cur = [a \in Actors |-> 0]
  /\ expiring = {} /\ recording = {}
  /\ early = {} /\ faults = 0

-----------------------------------------------------------------------------
(* Create, called by the policy engine.                                    *)

\* The request row is inserted, and visible, before its steps.
Create(r) ==
  /\ status[r] = "none"
  /\ status' = [status EXCEPT ![r] = "pending"]
  /\ making' = [making EXCEPT ![r] = 1]
  /\ UNCHANGED <<step, history, due, actor, sweep, early, faults>>

\* A step that cannot be inserted is logged and left out.
CreateStep(r) ==
  /\ making[r] \in Steps(r)
  /\ \/ step' = [step EXCEPT ![r][making[r]] = "pending"] /\ UNCHANGED faults
     \/ Fault /\ UNCHANGED step
  /\ making' = [making EXCEPT ![r] = @ + 1]
  /\ UNCHANGED <<status, history, due, actor, sweep, early>>

CreateEnd(r) ==
  /\ making[r] # 0 /\ making[r] \notin Steps(r)
  /\ history' = [history EXCEPT ![r] = @ \cup {"created"}]
  /\ making' = [making EXCEPT ![r] = 0]
  /\ UNCHANGED <<status, step, due, actor, sweep, early, faults>>

\* The server dies in the middle of Create.
CreateCut(r) ==
  /\ making[r] # 0
  /\ Fault
  /\ making' = [making EXCEPT ![r] = 0]
  /\ UNCHANGED <<rows, due, actor, sweep, early>>

-----------------------------------------------------------------------------
(* Approve, Reject, Cancel and Escalate.                                   *)

Goto(a, l) == pc' = [pc EXCEPT ![a] = l]

\* GetByID returns the request as pending.
Begin(a, r, o) ==
  /\ pc[a] = "idle"
  /\ status[r] = "pending"
  /\ op' = [op EXCEPT ![a] = o]
  /\ req' = [req EXCEPT ![a] = r]
  /\ Goto(a, IF o \in {"approve", "reject"} THEN "step" ELSE "save")
  /\ early' = IF making[r] # 0 THEN early \cup {r} ELSE early
  /\ UNCHANGED <<rows, making, due, cur, sweep, faults>>

\* Mutant: the step with the highest order is taken.
ReadStepLast(a) ==
  /\ pc[a] = "step"
  /\ \/ \E k \in PendingSteps(req[a]) :
          /\ \A j \in PendingSteps(req[a]) : j <= k
          /\ cur' = [cur EXCEPT ![a] = k]
          /\ Goto(a, "resolve")
     \/ Goto(a, "idle") /\ UNCHANGED cur
  /\ UNCHANGED <<rows, making, due, op, req, sweep, early, faults>>

\* GetCurrentPendingStep and verifyApprover: the first pending step, if this
\* actor may act on it.
ReadStep(a) ==
  /\ pc[a] = "step"
  /\ \/ \E k \in PendingSteps(req[a]) :
          /\ \A j \in PendingSteps(req[a]) : k <= j
          /\ cur' = [cur EXCEPT ![a] = k]
          /\ Goto(a, "resolve")
     \/ Goto(a, "idle") /\ UNCHANGED cur
  /\ UNCHANGED <<rows, making, due, op, req, sweep, early, faults>>

\* The step is saved as it was read, with its new status.
ResolveStep(a) ==
  /\ pc[a] = "resolve"
  /\ step' = [step EXCEPT ![req[a]][cur[a]] = Result[op[a]]]
  /\ Goto(a, IF op[a] = "approve" THEN "more" ELSE "save")
  /\ UNCHANGED <<status, history, making, due, op, req, cur, sweep, early, faults>>

\* Mutant: the step after the current one is not looked for.
MoreStepsOffByOne(a) ==
  /\ pc[a] = "more"
  /\ IF \E k \in PendingSteps(req[a]) : k > cur[a] + 1
     THEN Goto(a, "record") ELSE Goto(a, "save")
  /\ UNCHANGED <<rows, making, due, op, req, cur, sweep, early, faults>>

\* GetCurrentPendingStep again: with a step left only the history is written;
\* with none left, or when the query fails, the request is approved.
MoreSteps(a) ==
  /\ pc[a] = "more"
  /\ \/ /\ PendingSteps(req[a]) # {}
        /\ Goto(a, "record")
        /\ UNCHANGED faults
     \/ /\ PendingSteps(req[a]) = {}
        /\ Goto(a, "save")
        /\ UNCHANGED faults
     \/ Fault /\ Goto(a, "save")
  /\ UNCHANGED <<rows, making, due, op, req, cur, sweep, early>>

\* Mutant: the save does not change the status it has read.
SaveAsRead(a) ==
  /\ pc[a] = "save"
  /\ status' = [status EXCEPT ![req[a]] = IF op[a] = "escalate" THEN "pending" ELSE Result[op[a]]]
  /\ Goto(a, "record")
  /\ UNCHANGED <<step, history, making, due, op, req, cur, sweep, early, faults>>

\* requestRepo.Update: the whole row, whatever it has become since.
Save(a) ==
  /\ pc[a] = "save"
  /\ status' = [status EXCEPT ![req[a]] = Result[op[a]]]
  /\ Goto(a, "record")
  /\ UNCHANGED <<step, history, making, due, op, req, cur, sweep, early, faults>>

\* appendHistory.
Record(a) ==
  /\ pc[a] = "record"
  /\ history' = [history EXCEPT ![req[a]] = @ \cup {Result[op[a]]}]
  /\ Goto(a, "idle")
  /\ UNCHANGED <<status, step, making, due, op, req, cur, sweep, early, faults>>

\* A call fails and the operation returns its error, or the server dies.
Cut(a) ==
  /\ pc[a] # "idle"
  /\ Fault
  /\ Goto(a, "idle")
  /\ UNCHANGED <<rows, making, due, op, req, cur, sweep, early>>

-----------------------------------------------------------------------------
(* Expiry.                                                                 *)

\* Time passes expires_at.
PassDeadline(r) ==
  /\ r \notin due /\ status[r] # "none"
  /\ due' = due \cup {r}
  /\ UNCHANGED <<rows, making, actor, sweep, early, faults>>

\* Mutant: the query asks for the wrong status.
ListExpiredEscalated ==
  /\ expiring = {} /\ recording = {}
  /\ expiring' = {r \in due : status[r] = "escalated"}
  /\ expiring' # {}
  /\ UNCHANGED <<rows, making, due, actor, recording, early, faults>>

\* ExpireStale begins: ListExpired.
ListExpired ==
  /\ expiring = {} /\ recording = {}
  /\ expiring' = {r \in due : status[r] = "pending"}
  /\ expiring' # {}
  /\ UNCHANGED <<rows, making, due, actor, recording, early, faults>>

\* The row is saved as it was listed, with the status expired; a failed save
\* is logged and the loop goes on.
ExpireStale(r) ==
  /\ r \in expiring /\ recording = {}
  /\ expiring' = expiring \ {r}
  /\ \/ /\ status' = [status EXCEPT ![r] = "expired"]
        /\ recording' = {r}
        /\ UNCHANGED faults
     \/ Fault /\ UNCHANGED <<status, recording>>
  /\ UNCHANGED <<step, history, making, due, actor, early>>

ExpireRecord(r) ==
  /\ r \in recording
  /\ recording' = {}
  /\ history' = [history EXCEPT ![r] = @ \cup {"expired"}]
  /\ UNCHANGED <<status, step, making, due, actor, expiring, early, faults>>

-----------------------------------------------------------------------------

Creating(r) == Create(r) \/ CreateStep(r) \/ CreateEnd(r) \/ CreateCut(r)

Acting(a) ==
  \/ \E r \in Requests, o \in Ops : Begin(a, r, o)
  \/ ReadStep(a) \/ ResolveStep(a) \/ MoreSteps(a) \/ Save(a) \/ Record(a) \/ Cut(a)

Expiring == ListExpired \/ \E r \in Requests : ExpireStale(r) \/ ExpireRecord(r)

Next ==
  \/ \E r \in Requests : Creating(r) \/ PassDeadline(r)
  \/ \E a \in Actors : Acting(a)
  \/ Expiring

Spec == Init /\ [][Next]_vars

\* The expiry worker ticks every five minutes for as long as the server runs.
FairSpec == Spec /\ WF_vars(Expiring)

-----------------------------------------------------------------------------
(* Properties.                                                             *)

\* The type of every variable.
TypeOK ==
  /\ status \in [Requests -> ApprovalStatus \cup {"none"}]
  /\ DOMAIN step = Requests
  /\ \A r \in Requests : step[r] \in [Steps(r) -> ApprovalStepStatus \cup {"none"}]
  /\ making \in [Requests -> Nat]
  /\ due \subseteq Requests /\ early \subseteq Requests
  /\ expiring \subseteq Requests /\ recording \subseteq Requests
  /\ history \in [Requests -> SUBSET (Decided \cup {"created"})]
  /\ pc \in [Actors -> {"idle", "step", "resolve", "more", "save", "record"}]
  /\ op \in [Actors -> Ops]
  /\ req \in [Actors -> Requests \cup {NoRequest}]
  /\ cur \in [Actors -> Nat]
  /\ \A a \in Actors : pc[a] # "idle" => req[a] \in Requests
  /\ \A a \in Actors : pc[a] \in {"resolve", "more"} => cur[a] \in Steps(req[a])
  /\ faults \in Nat

\* A step is resolved only after every earlier step of its chain, although
\* approvers, rejecters and Create work on the rows at the same time ("Steps
\* are ordered by StepOrder and processed sequentially", approval.go).
ChainInOrder ==
  \A r \in Requests : \A j, k \in Steps(r) :
    j < k /\ step[r][k] \in {"approved", "rejected"} => step[r][j] # "pending"

\* While no call fails, and nobody acts before Create has inserted the whole
\* chain, an approved request has no step that nobody has decided on, however
\* the decisions overlap (the second GetCurrentPendingStep of Approve).
ApprovedIsResolved ==
  \A r \in Requests :
    status[r] = "approved" /\ r \notin early /\ faults = 0 =>
      \A k \in Steps(r) : step[r][k] \in {"approved", "rejected"}

\* Nothing turns a decided request back into a pending one: every save of the
\* whole row carries a decision of its own, never the status that was read.
NeverPendingAgain ==
  [][\A r \in Requests : status[r] \in Decided => status'[r] \in Decided]_vars

\* A pending request whose deadline has passed leaves that status.
ExpiryHappens ==
  \A r \in Requests : r \in due /\ status[r] = "pending" ~> status[r] # "pending"

=============================================================================
