---------------------------- MODULE MCAutomation ----------------------------
(***************************************************************************)
(* The parts that act on their own: schedules, the cron search, workflows  *)
(* and notifications.  They share no row, so a behaviour runs one of them  *)
(* and the others rest.                                                    *)
(***************************************************************************)
EXTENDS Scheduler, Cron, WorkflowEngine, Notifications, TLC

VARIABLE part

CronOff == cron = << >> /\ from = 0 /\ t = 0 /\ search = "off"
NotifyOff == NtInit /\ rule = CHOOSE x \in [RuleIDs -> [enabled : {TRUE}, filter : Filters, last : {Unset},
                                                        channel : Channels]] : TRUE

Init == \/ part = "scheduler" /\ SchedInit /\ CronOff  /\ WfInit /\ NotifyOff
        \/ part = "cron"      /\ SchedInit /\ CronInit /\ WfInit /\ NotifyOff
        \/ part = "workflow"  /\ SchedInit /\ CronOff  /\ WfInit /\ NotifyOff
        \/ part = "notify"    /\ SchedInit /\ CronOff  /\ WfInit /\ NtInit

Next == \/ part = "scheduler" /\ SchedNext /\ UNCHANGED <<part, cronVars, wfVars, ntVars>>
        \/ part = "cron"      /\ CronNext  /\ UNCHANGED <<part, schedVars, wfVars, ntVars>>
        \/ part = "workflow"  /\ WfNext    /\ UNCHANGED <<part, schedVars, cronVars, ntVars>>
        \/ part = "notify"    /\ NtNext    /\ UNCHANGED <<part, schedVars, cronVars, wfVars>>

Spec == Init /\ [][Next]_<<part, schedVars, cronVars, wfVars, ntVars>>

\* Cron fields: stars, steps, ranges, lists and single values, day 3 of the second month only in
\* the second year, month 4 missing in the year.
Part(kind, lo, hi, step) == [kind |-> kind, lo |-> lo, hi |-> hi, step |-> step]
Star == <<Part("star", 0, 0, 1)>>
Value(v) == Part("value", v, v, 1)
MCFields == [minute  |-> {Star, <<Value(0)>>, <<Value(1), Value(2)>>},
             hour    |-> {Star, <<Value(0)>>, <<Part("star", 0, 0, 2)>>},
             day     |-> {Star, <<Value(3)>>, <<Part("range", 1, 3, 2)>>},
             month   |-> {Star, <<Value(2)>>, <<Value(4)>>},
             weekday |-> {Star, <<Value(0)>>, <<Part("range", 1, 2, 1)>>}]
MCMonthStart == [k \in 0..15 |-> <<0, 3, 5, 8, 11, 14, 17, 20, 22, 25, 28, 30, 33, 36, 38, 41>>[k + 1]]

Act(type, targets, retries, cont) == [type |-> type, targets |-> targets, retries |-> retries, cont |-> cont]
MCActionLists == {<<Act("power", 2, 1, "inherit"), Act("webhook", 1, 0, "no")>>,
                  <<Act("delay", 0, 0, "yes"), Act("create_snapshot", 1, 0, "inherit")>>}

MCFilters == {[types |-> {}, severities |-> {"critical"}, providers |-> {"nutanix"}],
              [types |-> {"task_failed", "sync_completed"}, severities |-> {}, providers |-> {}]}
Channel(type, complete) == [type |-> type, complete |-> complete, state |-> "on"]
MCChannels == {Channel("email", TRUE), Channel("webhook", TRUE), Channel("slack", FALSE), Channel("pager", TRUE)}

\* The goroutines of the parts have the same names, and so have the requests and the runs.
Symmetry == Permutations(Fires) \cup Permutations(Edits)

=============================================================================
