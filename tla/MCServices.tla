------------------------------ MODULE MCServices ------------------------------
(***************************************************************************)
(* Services that keep rows and counters of their own: the inventory, the   *)
(* health of providers, policies, users with their tokens, and the limits  *)
(* of requests.  They share no state, so a behaviour runs one of them and  *)
(* the others rest.                                                        *)
(***************************************************************************)
EXTENDS Inventory, ProviderHealth, Policies, Access, RequestLimits, TLC

VARIABLE part

PolicyOff == /\ policy = [p \in PolicyIDs |-> NoPolicy] /\ conds = [p \in PolicyIDs |-> {}]
             /\ assigned = conds /\ wanted = [p \in PolicyIDs |-> Gone]
             /\ editor = [e \in Editors |-> Free] /\ eval = NoEval /\ decision = NoDecision
             /\ mixed = {} /\ disturbed = FALSE /\ polUsed = [edits |-> 0, failures |-> 0]

Init == /\ part \in {"inventory", "health", "policies", "access", "limits"}
        /\ InvInit /\ (part # "inventory" => there = {})
        /\ HpInit /\ AccInit /\ LimInit
        /\ IF part = "policies" THEN PolInit ELSE PolicyOff

Next == \/ part = "inventory" /\ InvNext /\ UNCHANGED <<part, hpVars, polVars, accVars, limVars>>
        \/ part = "health"    /\ HpNext  /\ UNCHANGED <<part, invVars, polVars, accVars, limVars>>
        \/ part = "policies"  /\ PolNext /\ UNCHANGED <<part, invVars, hpVars, accVars, limVars>>
        \/ part = "access"    /\ AccNext /\ UNCHANGED <<part, invVars, hpVars, polVars, limVars>>
        \/ part = "limits"    /\ LimNext /\ UNCHANGED <<part, invVars, hpVars, polVars, accVars>>

Spec == Init /\ [][Next]_<<part, invVars, hpVars, polVars, accVars, limVars>>

\* Of ten tasks six failed.
MCTaskStats == {[total |-> 10, failed |-> 6]}

\* One condition of each way of matching; two policies of equal priority, one created disabled.
NoWindow == [whole |-> TRUE, start |-> 0, end |-> 0]
Condition(type, op, accepted, negate) ==
    [type |-> type, op |-> op, accepted |-> accepted, negate |-> negate, threshold |-> 0, window |-> NoWindow, days |-> {}]
InProduction == Condition("environment", "equals", {"prod"}, FALSE)
Untagged     == Condition("vm_tag", "in", {"db", "web"}, TRUE)
Many         == [Condition("bulk_size", "greater_than", {}, FALSE) EXCEPT !.threshold = 2]
AtNight      == [Condition("maintenance_window", "equals", {}, FALSE)
                    EXCEPT !.window = [whole |-> FALSE, start |-> 0, end |-> 2]]
OnWeekdays   == [Condition("time_schedule", "equals", {}, FALSE) EXCEPT !.days = {1}]

Draft(effect, prio, enabled, ops, config, cs) ==
    [effect |-> effect, prio |-> prio, enabled |-> enabled, ops |-> ops, config |-> config, conds |-> cs]
MCDrafts == {Draft("deny", 10, TRUE, {"vm.*"}, "none", {InProduction, Untagged}),
             Draft("require_approval", 10, TRUE, {"*"}, "steps", {Many, OnWeekdays}),
             Draft("require_justification", 0, FALSE, {}, "role", {AtNight})}
MCPatches == {[effect |-> "require_snapshot", prio |-> 30, conds |-> {Many}]}

Evaluation(targets, tags, time, justified) ==
    [op |-> "vm.delete", family |-> "vm.*", targets |-> targets, bulk |-> 3, day |-> 1, time |-> time,
     justified |-> justified, one |-> [environment |-> "prod", vm_name |-> "a"],
     many |-> [vm_tag |-> tags, user_role |-> {}]]
MCEvaluations == {Evaluation({"h1"}, {"web"}, 2, FALSE), Evaluation({}, {}, 1, TRUE)}

\* Two of the four limiters: one per user and the one per hypervisor.
MCLayers == <<"user", "provider">>
MCLimit  == [user |-> 2, provider |-> 1]

\* The processes of the parts have the same names, and so have the VMs, policies and roles.
Symmetry == Permutations(Syncs) \cup Permutations(VMs)

=============================================================================
