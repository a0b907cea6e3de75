------------------------------- MODULE Policies -------------------------------
(***************************************************************************)
(* policy/engine.go and service/policy_service.go with their repository:   *)
(* policies, their conditions and assignments, the requests that change    *)
(* them in several statements, and an evaluation, which reads them in      *)
(* several more and lets the first policy that matches decide.             *)
(***************************************************************************)
EXTENDS Integers, Sequences, FiniteSets

CONSTANTS PolicyIDs,
          Drafts,       \* policies that requests create: [effect, prio, enabled, ops, config, conds]
          Patches,      \* what requests of Update change: functions from some of these fields
          Targets,      \* targets of assignments, "global" among them
          Evaluations,  \* requests of Evaluate: [op, family, targets, one, many, bulk, day, time, justified];
                        \* one and many are functions from types of conditions to a string or a set of them
          Editors,      \* requests under way that change policies
          MaxEdits,     \* bound: such requests
          MaxFailures   \* bound: statements that fail

\* A condition, and the fields of a policy that requests give.
Conditions == [type : STRING, op : STRING, accepted : SUBSET STRING, negate : BOOLEAN, threshold : Int,
               window : [whole : BOOLEAN, start : Int, end : Int], days : SUBSET Int]
DraftFields == [effect |-> STRING, prio |-> Int, enabled |-> BOOLEAN, ops |-> SUBSET STRING, config |-> STRING,
                conds |-> SUBSET Conditions]

ASSUME PolicyAssumption ==
    /\ IsFiniteSet(PolicyIDs) /\ "global" \in Targets /\ MaxEdits \in Nat /\ MaxFailures \in Nat
    /\ Drafts \subseteq [effect : STRING, prio : Int, enabled : BOOLEAN, ops : SUBSET STRING, config : STRING,
                         conds : SUBSET Conditions]
    /\ \A patch \in Patches : \A f \in DOMAIN patch : f \in DOMAIN DraftFields /\ patch[f] \in DraftFields[f]

VARIABLES policy,       \* PolicyIDs -> NoPolicy, or the row: [live, effect, prio, enabled, ops, config]
          conds,        \* PolicyIDs -> the conditions of its rows
          assigned,     \* PolicyIDs -> the targets it is assigned to
          editor,       \* Editors -> Free, or the request under way
          eval,         \* the evaluation under way
          decision,     \* what the last evaluation decided, NoDecision before
          wanted,       \* history: PolicyIDs -> the policy as the requests that have ended left it
          mixed,        \* history: policies on which two requests overlapped, or one failed half-way
          disturbed,    \* history: a request wrote since the evaluation began, or a statement of its own failed
          polUsed       \* budget: [edits, failures]

polVars == <<policy, conds, assigned, editor, eval, decision, wanted, mixed, disturbed, polUsed>>

NoPolicy   == [live |-> FALSE, effect |-> "none"]
Free       == [pc |-> "free"]
NoEval     == [pc |-> "none"]
NoRequest  == [op |-> "none"]
Decision(effect, allowed, req) ==
    [effect |-> effect, by |-> {}, allowed |-> allowed, violation |-> "none", approval |-> << >>, req |-> req]
NoDecision == Decision("undecided", FALSE, NoRequest)
Live       == {p \in PolicyIDs : policy[p].live}

\* The row that holds what a draft or a patched copy asks for.
Row(d) == [live |-> TRUE, effect |-> d.effect, prio |-> d.prio, enabled |-> d.enabled, ops |-> d.ops, config |-> d.config]

Stored(d) == [row |-> Row(d), conds |-> d.conds, live |-> TRUE]
Gone == [live |-> FALSE]

\* Any policies may be there from earlier requests, unassigned or assigned to one target.
PolInit ==
    /\ \E old \in [PolicyIDs -> Drafts \cup {NoPolicy}], to \in [PolicyIDs -> Targets \cup {"nowhere"}] :
          /\ \A p \in PolicyIDs : old[p] = NoPolicy => to[p] = "nowhere"
          /\ policy   = [p \in PolicyIDs |-> IF old[p] = NoPolicy THEN NoPolicy ELSE Row(old[p])]
          /\ conds    = [p \in PolicyIDs |-> IF old[p] = NoPolicy THEN {} ELSE old[p].conds]
          /\ assigned = [p \in PolicyIDs |-> {to[p]} \ {"nowhere"}]
          /\ wanted   = [p \in PolicyIDs |-> IF old[p] = NoPolicy THEN Gone ELSE Stored(old[p])]
    /\ editor = [e \in Editors |-> Free] /\ eval = NoEval /\ decision = NoDecision
    /\ mixed = {} /\ disturbed = FALSE /\ polUsed = [edits |-> 0, failures |-> 0]

----------------------------------------------------------------------------
(* Requests that change policies *)

On(e) == IF editor[e] = Free THEN {} ELSE {editor[e].policy}
Busy(p, e) == \E x \in Editors \ {e} : p \in On(x)

Editing  == polUsed.edits < MaxEdits /\ polUsed' = [polUsed EXCEPT !.edits = @ + 1]
Fails    == polUsed.failures < MaxFailures /\ polUsed' = [polUsed EXCEPT !.failures = @ + 1]

\* A statement on policy p has run for request e.
Wrote(p, e) == /\ mixed' = IF Busy(p, e) THEN mixed \cup {p} ELSE mixed
               /\ disturbed' = (disturbed \/ eval # NoEval \/ decision # NoDecision)

Ends(e)      == editor' = [editor EXCEPT ![e] = Free]
Becomes(p, w) == wanted' = [wanted EXCEPT ![p] = w]

\* A zero is not written: a column with a default takes that, and so every new policy is enabled.
Defaulted(draft) == [draft EXCEPT !.enabled = TRUE, !.prio = IF @ = 0 THEN 100 ELSE @]

\* The row first, then the conditions, if any, in a transaction of their own.
Create(e, p) ==
    /\ editor[e] = Free /\ policy[p] = NoPolicy /\ ~Busy(p, e) /\ Editing
    /\ \E draft \in Drafts :
          LET d == Defaulted(draft) IN
          /\ policy' = [policy EXCEPT ![p] = Row(d)]
          /\ IF d.conds = {} THEN Ends(e) /\ Becomes(p, Stored(d))
             ELSE /\ editor' = [editor EXCEPT ![e] = [pc |-> "conds", policy |-> p, new |-> d]]
                  /\ UNCHANGED wanted
    /\ Wrote(p, e) /\ UNCHANGED <<conds, assigned, eval, decision>>

\* Enable and Disable are updates of one column.
Toggle(b) == [enabled |-> b]

\* The copy of a row and its conditions with what the request names.
Field(patch, f, old) == IF f \in DOMAIN patch THEN patch[f] ELSE old
Patched(patch, row, cs) ==
    [effect |-> Field(patch, "effect", row.effect), prio |-> Field(patch, "prio", row.prio),
     enabled |-> Field(patch, "enabled", row.enabled), ops |-> Field(patch, "ops", row.ops),
     config |-> Field(patch, "config", row.config), conds |-> Field(patch, "conds", cs)]

\* Update reads the row with its conditions and assignments and patches the copy.
UpdatePolicyReads(e, p) ==
    /\ editor[e] = Free /\ p \in Live /\ Editing
    /\ \E patch \in Patches \cup {Toggle(TRUE), Toggle(FALSE)} :
          editor' = [editor EXCEPT ![e] =
              [pc |-> "save", policy |-> p, replace |-> "conds" \in DOMAIN patch,
               new |-> Patched(patch, policy[p], conds[p]), conds |-> conds[p], assigned |-> assigned[p]]]
    /\ UNCHANGED <<policy, conds, assigned, eval, decision, wanted, mixed, disturbed>>

\* Save: every column is written, the row is inserted again if it was deleted, and so are the conditions
\* and assignments read with it that have been deleted meanwhile.
UpdatePolicySaves(e) ==
    LET u == editor[e] IN
    /\ u.pc = "save"
    /\ policy'   = [policy EXCEPT ![u.policy] = Row(u.new)]
    /\ conds'    = [conds EXCEPT ![u.policy] = @ \cup u.conds]
    /\ assigned' = [assigned EXCEPT ![u.policy] = @ \cup u.assigned]
    /\ IF u.replace THEN /\ editor' = [editor EXCEPT ![e] = [pc |-> "conds", policy |-> u.policy, new |-> u.new]]
                         /\ UNCHANGED wanted
       ELSE Ends(e) /\ Becomes(u.policy, Stored(u.new))
    /\ Wrote(u.policy, e) /\ UNCHANGED <<eval, decision, polUsed>>

\* Mutant: the old conditions are not deleted first.
ConditionsAdded(old, new) == old \cup new

\* What the transaction leaves of the conditions.
ReplaceConditions(old, new) == new

ConditionsReplaced(e) ==
    LET u == editor[e] IN
    /\ u.pc = "conds"
    /\ conds' = [conds EXCEPT ![u.policy] = ReplaceConditions(@, u.new.conds)]
    /\ Ends(e) /\ Becomes(u.policy, Stored(u.new))
    /\ Wrote(u.policy, e) /\ UNCHANGED <<policy, assigned, eval, decision, polUsed>>

\* The request ends with an error; the row stays as it has been written.
EditFails(e) ==
    LET u == editor[e] IN
    /\ u.pc \in {"save", "conds", "assign"} /\ Fails /\ Ends(e)
    /\ mixed' = IF u.pc = "conds" THEN mixed \cup {u.policy} ELSE mixed
    /\ UNCHANGED <<policy, conds, assigned, eval, decision, wanted, disturbed>>

DeletePolicy(e, p) ==
    /\ editor[e] = Free /\ p \in Live /\ Editing
    /\ policy' = [policy EXCEPT ![p].live = FALSE] /\ Becomes(p, Gone)
    /\ Wrote(p, e) /\ UNCHANGED <<conds, assigned, editor, eval, decision>>

\* Assign looks for the policy before it inserts the row.
AssignReads(e, p) ==
    /\ editor[e] = Free /\ p \in Live /\ Editing
    /\ \E t \in Targets : editor' = [editor EXCEPT ![e] = [pc |-> "assign", policy |-> p, target |-> t]]
    /\ UNCHANGED <<policy, conds, assigned, eval, decision, wanted, mixed, disturbed>>

AssignInserts(e) ==
    LET u == editor[e] IN
    /\ u.pc = "assign" /\ Ends(e)
    /\ assigned' = [assigned EXCEPT ![u.policy] = @ \cup {u.target}]
    /\ Wrote(u.policy, e) /\ UNCHANGED <<policy, conds, eval, decision, wanted, polUsed>>

Unassign(e, p) ==
    /\ editor[e] = Free /\ Editing
    /\ \E t \in assigned[p] : assigned' = [assigned EXCEPT ![p] = @ \ {t}]
    /\ Wrote(p, e) /\ UNCHANGED <<policy, conds, editor, eval, decision, wanted>>

----------------------------------------------------------------------------
(* Matching.  The text of a condition stands for the set of strings that it accepts: the value itself,  *)
(* the listed ones, those that contain it or match it (none if it is malformed).                        *)

matchString(op, accepted, actual) ==
    \/ op \in {"equals", "contains", "in", "matches"} /\ actual \in accepted
    \/ op \in {"not_equals", "not_in"} /\ actual \notin accepted

\* Tags and roles: no other operator is ever satisfied.
matchStringSlice(op, accepted, actuals) ==
    \/ op \in {"contains", "equals", "in"} /\ actuals \cap accepted # {}
    \/ op = "not_in" /\ actuals \cap accepted = {}

matchBulkSize(op, threshold, size) ==
    \/ op = "greater_than" /\ size > threshold
    \/ op = "less_than" /\ size < threshold
    \/ op = "equals" /\ size = threshold

\* A window from start to end of one day: one that passes midnight contains no time.
isInMaintenanceWindow(window, time) == window.start <= time /\ time < window.end

\* A schedule may have no window, then all of its days count.
isInTimeSchedule(c, req) == /\ req.day \in c.days
                            /\ c.window.whole \/ isInMaintenanceWindow(c.window, req.time)

evaluateCondition(c, req) ==
    \/ c.type \in DOMAIN req.one /\ matchString(c.op, c.accepted, req.one[c.type])
    \/ c.type \in DOMAIN req.many /\ matchStringSlice(c.op, c.accepted, req.many[c.type])
    \/ c.type = "bulk_size" /\ matchBulkSize(c.op, c.threshold, req.bulk)
    \/ c.type = "maintenance_window" /\ isInMaintenanceWindow(c.window, req.time)
    \/ c.type = "time_schedule" /\ isInTimeSchedule(c, req)

evaluateConditions(cs, req) == \A c \in cs : evaluateCondition(c, req) # c.negate

\* "vm.*" stands for the operations of its family; no operation stands for all of them.
operationMatches(ops, req) == ops = {} \/ ops \cap {"*", req.op, req.family} # {}

\* ListForContext: assignments to everything or to a target of the request.
AssignedTo(targets, req) == targets \cap (req.targets \cup {"global"}) # {}

----------------------------------------------------------------------------
(* Evaluate *)

Decides(d) == decision' = d /\ eval' = NoEval

\* The lists of the enabled policies that the database may return: by priority, equals in any order.
ListEnabled ==
    LET on == {p \in Live : policy[p].enabled}
    IN  {s \in [1..Cardinality(on) -> on] :
            /\ \A i, j \in DOMAIN s : i < j => s[i] # s[j] /\ policy[s[i]].prio <= policy[s[j]].prio}

EvalBegins ==
    /\ eval = NoEval /\ decision = NoDecision
    /\ \E req \in Evaluations, list \in ListEnabled :
          eval' = [pc |-> "conds", req |-> req, list |-> list,
                   rows |-> [p \in {list[i] : i \in DOMAIN list} |-> policy[p]]]
    /\ disturbed' = FALSE
    /\ UNCHANGED <<policy, conds, assigned, editor, decision, wanted, mixed, polUsed>>

\* The conditions of these policies are loaded by a statement of their own; without policies all is allowed.
EvalLoads ==
    /\ eval.pc = "conds"
    /\ IF eval.list = << >> THEN Decides(Decision("none", TRUE, eval.req))
       ELSE /\ eval' = [pc |-> "assigned", req |-> eval.req, list |-> eval.list, rows |-> eval.rows, conds |-> conds]
            /\ UNCHANGED decision
    /\ UNCHANGED <<policy, conds, assigned, editor, wanted, mixed, disturbed, polUsed>>

EvalAssigned ==
    /\ eval.pc = "assigned"
    /\ eval' = [pc |-> "loop", req |-> eval.req, list |-> eval.list, rows |-> eval.rows, conds |-> eval.conds,
                i |-> 1, mine |-> {p \in PolicyIDs : AssignedTo(assigned[p], eval.req)}]
    /\ UNCHANGED <<policy, conds, assigned, editor, decision, wanted, mixed, disturbed, polUsed>>

\* "Policy engine failures must not block operations".
EvalFails ==
    /\ eval.pc \in {"conds", "assigned"} /\ Fails
    /\ Decides(Decision("unavailable", TRUE, eval.req)) /\ disturbed' = TRUE
    /\ UNCHANGED <<policy, conds, assigned, editor, wanted, mixed>>

\* Mutant: an operation that matches is enough.
MatchedByOperation(p) == p \in eval.mine /\ operationMatches(eval.rows[p].ops, eval.req)

Matched(p) == /\ p \in eval.mine
              /\ operationMatches(eval.rows[p].ops, eval.req)
              /\ evaluateConditions(eval.conds[p], eval.req)

EvalSkips ==
    /\ eval.pc = "loop" /\ eval.i <= Len(eval.list) /\ ~Matched(eval.list[eval.i])
    /\ IF eval.i = Len(eval.list) THEN Decides(Decision("none", TRUE, eval.req))
       ELSE eval' = [eval EXCEPT !.i = @ + 1] /\ UNCHANGED decision
    /\ UNCHANGED <<policy, conds, assigned, editor, wanted, mixed, disturbed, polUsed>>

\* The steps of the approval request: the listed ones, one for the approver role, none without either.
buildApprovalSteps(config) == CASE config = "steps" -> 2 [] config = "role" -> 1 [] OTHER -> 0

\* The decision of row p for req; made tells whether the approval request could be created.
applyEffect(p, row, req, made) ==
    [effect |-> row.effect, by |-> {p},
     allowed |-> \/ row.effect \in {"allow", "require_snapshot"}
                 \/ row.effect = "require_justification" /\ req.justified,
     violation |-> CASE row.effect = "deny" -> "blocked"
                     [] row.effect = "require_approval" -> "pending_approval"
                     [] row.effect = "require_justification" /\ req.justified -> "overridden"
                     [] OTHER -> "none",
     approval |-> IF row.effect = "require_approval" /\ made THEN <<buildApprovalSteps(row.config)>> ELSE << >>,
     req |-> req]

EvalApplies ==
    /\ eval.pc = "loop" /\ eval.i <= Len(eval.list) /\ Matched(eval.list[eval.i])
    /\ LET p == eval.list[eval.i] IN
       \/ Decides(applyEffect(p, eval.rows[p], eval.req, TRUE)) /\ UNCHANGED polUsed
       \/ eval.rows[p].effect = "require_approval" /\ Fails /\ Decides(applyEffect(p, eval.rows[p], eval.req, FALSE))
    /\ UNCHANGED <<policy, conds, assigned, editor, wanted, mixed, disturbed>>

----------------------------------------------------------------------------

PolNext == \/ \E e \in Editors : \/ UpdatePolicySaves(e) \/ ConditionsReplaced(e) \/ EditFails(e) \/ AssignInserts(e)
                                 \/ \E p \in PolicyIDs : \/ Create(e, p) \/ UpdatePolicyReads(e, p) \/ DeletePolicy(e, p)
                                                         \/ AssignReads(e, p) \/ Unassign(e, p)
           \/ EvalBegins \/ EvalLoads \/ EvalAssigned \/ EvalFails \/ EvalSkips \/ EvalApplies

PolSpec == PolInit /\ [][PolNext]_polVars

\* Requests on a policy that do not overlap leave what they were asked for, although each writes the row
\* and the conditions in separate statements and every Save writes back whatever was loaded: the columns
\* and conditions are those of the last request, none left over, and a deleted policy stays deleted.
LoneEditorKeeps ==
    \A p \in PolicyIDs \ mixed :
        (\A e \in Editors : p \notin On(e)) =>
            IF wanted[p].live THEN policy[p] = wanted[p].row /\ conds[p] = wanted[p].conds ELSE ~policy[p].live

\* The policies that a request meets, from the tables as they are.
Applying(req) == {p \in Live : /\ policy[p].enabled /\ assigned[p] \cap (req.targets \cup {"global"}) # {}
                               /\ operationMatches(policy[p].ops, req)
                               /\ \A c \in conds[p] : IF c.negate THEN ~evaluateCondition(c, req)
                                                      ELSE evaluateCondition(c, req)}

\* An evaluation that no request disturbed is decided by an applying policy that none precedes; it is
\* allowed only if that policy allows, wants a snapshot or got its justification; a violation is recorded if it
\* denies, wants approval or got its justification.  Without an applying policy all is allowed.
FirstMatchDecides ==
    (decision # NoDecision /\ ~disturbed) =>
        LET apply == Applying(decision.req)
            first == {p \in apply : \A q \in apply : policy[p].prio <= policy[q].prio}
        IN  IF apply = {} THEN decision.by = {} /\ decision.allowed /\ decision.violation = "none"
            ELSE \E p \in first :
                    /\ decision.by = {p} /\ decision.effect = policy[p].effect
                    /\ decision.allowed <=> \/ decision.effect \in {"allow", "require_snapshot"}
                                            \/ /\ decision.effect = "require_justification"
                                               /\ decision.req.justified
                    /\ decision.violation # "none" <=> \/ decision.effect \in {"deny", "require_approval"}
                                                       \/ /\ decision.effect = "require_justification"
                                                          /\ decision.allowed

=============================================================================
