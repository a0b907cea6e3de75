---------------------------- MODULE Notifications ----------------------------
(***************************************************************************)
(* service/event_integration.go, platform_event_service.go, the package    *)
(* notification and its services: from an event of the bus to a platform   *)
(* event, and from there by the enabled rules to the channels.  Every      *)
(* event is dispatched by a goroutine of its own, on the rules as they     *)
(* were when it listed them, within one deadline for all of them.          *)
(***************************************************************************)
EXTENDS Naturals, Sequences, FiniteSets

CONSTANTS Rules,         \* number of notification rules, in the order of creation
          Dispatchers,   \* goroutines of Dispatch that may be alive
          Filters,       \* filters of the rules considered, [types, severities, providers]; an empty set matches all
          Channels,      \* the channels considered, [type, complete, state]
          Throttle,      \* throttle_seconds, in units of the clock
          Deadline,      \* life of the dispatch context (60 s)
          MaxAttempts,   \* deliveries tried (3)
          MaxBusEvents,  \* events of the bus
          MaxSaves,      \* requests that edit rules and channels
          EndOfTime      \* the clock stops here

ASSUME NotificationAssumption ==
    /\ {Throttle, Deadline, MaxBusEvents, MaxSaves, EndOfTime} \subseteq Nat
    /\ Rules \in Nat \ {0}
    /\ Channels \subseteq [type : STRING, complete : BOOLEAN, state : {"on", "off", "gone"}]

VARIABLES now,           \* the time
          rule,          \* 1..Rules -> [enabled, filter, last, channel]
          disp,          \* Dispatchers -> the goroutine's progress
          editor,        \* a request that has read a rule and not saved it yet
          deliveries,    \* history: 1..Rules -> the successful deliveries [at, excused]
          ntUsed         \* budget: [events, saves]

ntVars == <<now, rule, disp, editor, deliveries, ntUsed>>

Unset    == EndOfTime + 1
NoWork   == [pc |-> "none"]
RuleIDs  == 1..Rules

NtInit == /\ now = 0
          /\ rule \in [RuleIDs -> [enabled : {TRUE}, filter : Filters, last : {Unset}, channel : Channels]]
          /\ disp = [d \in Dispatchers |-> NoWork] /\ editor = NoWork
          /\ deliveries = [r \in RuleIDs |-> << >>]
          /\ ntUsed = [events |-> 0, saves |-> 0]

Elapses == /\ now < EndOfTime /\ now' = now + 1
           /\ UNCHANGED <<rule, disp, editor, deliveries, ntUsed>>

----------------------------------------------------------------------------
(* EventIntegration: the platform event of an event of the bus *)

\* The type of platform event for a failed task.
taskFailureEventType(taskType) ==
    CASE taskType = "vm.power_on"    -> "vm_poweron_failed"
      [] taskType = "vm.power_off"   -> "vm_poweroff_failed"
      [] taskType = "vm.reboot"      -> "vm_reboot_failed"
      [] taskType = "vm.snapshot"    -> "snapshot_failed"
      [] taskType = "inventory.sync" -> "sync_failed"
      [] taskType = "vm.bulk"        -> "bulk_operation_failed"
      [] OTHER                       -> "task_failed"

\* What the task engine puts into the payload of a status event, by key.
publishStatusEvent(taskType) == [type |-> taskType, status |-> "failed"]

\* A key that the payload does not have reads as the empty string.
Lookup(payload, key) == IF key \in DOMAIN payload THEN payload[key] ELSE ""

onTaskStatusChanged(payload) == taskFailureEventType(Lookup(payload, "task_type"))

\* The payload of inventory.synced has neither `success' nor `error': every sync reads as completed.
onInventorySynced(payload) ==
    IF Lookup(payload, "success") = "true" \/ Lookup(payload, "error") = "" THEN "sync_completed" ELSE "sync_failed"

SeverityForEventType(t) == IF t \in {"sync_failed", "vm_poweron_failed", "vm_poweroff_failed", "vm_reboot_failed",
                                     "snapshot_failed", "task_failed", "bulk_operation_failed"}
                           THEN "critical" ELSE "info"

\* platformEventService.Dispatch: the event is stored, published, and handed to a goroutine of its own.
Dispatch(d, type, provider) ==
    /\ disp[d] = NoWork /\ ntUsed.events < MaxBusEvents
    /\ ntUsed' = [ntUsed EXCEPT !.events = @ + 1]
    /\ disp' = [disp EXCEPT ![d] = [pc |-> "list", type |-> type, provider |-> provider, began |-> now]]
    /\ UNCHANGED <<now, rule, editor, deliveries>>

\* The event of a failed task names no provider.
TaskFails(d, taskType) == Dispatch(d, onTaskStatusChanged(publishStatusEvent(taskType)), "")
InventorySynced(d)     == Dispatch(d, onInventorySynced([errors |-> "some"]), "vmware")

----------------------------------------------------------------------------
(* Dispatcher *)

Expired(d) == now >= disp[d].began + Deadline   \* sends and statements fail from here on

\* ListEnabled: copies of the enabled rules in the order of their creation.
ListEnabled(d) ==
    /\ disp[d].pc = "list"
    /\ disp' = [disp EXCEPT ![d] =
                  IF Expired(d) THEN NoWork
                  ELSE [pc |-> "rule", type |-> @.type, provider |-> @.provider, began |-> @.began, copy |-> rule,
                        at |-> 1, attempt |-> 1, stale |-> {}]]
    /\ UNCHANGED <<now, rule, editor, deliveries, ntUsed>>

\* All filters that are not empty have the event; the filter of providers lets an event without one pass.
RuleMatches(r, type, provider) ==
    /\ r.enabled
    /\ r.filter.types = {} \/ type \in r.filter.types
    /\ r.filter.severities = {} \/ SeverityForEventType(type) \in r.filter.severities
    /\ r.filter.providers = {} \/ provider = "" \/ provider \in r.filter.providers

IsThrottled(r) == Throttle > 0 /\ r.last # Unset /\ now - r.last < Throttle

NewSender(ch) == ch.type \in {"email", "slack", "webhook"}

\* The outcomes of one attempt, TRUE for success.  A request ends with the context; e-mail does not look at
\* it.  A channel without recipients or address always fails.
postJSON(d)         == IF Expired(d) THEN {FALSE} ELSE BOOLEAN
emailSend(ch)       == IF ch.complete THEN BOOLEAN ELSE {FALSE}
slackSend(ch, d)    == IF ch.complete THEN postJSON(d) ELSE {FALSE}
webhookSend(ch, d)  == IF ch.complete THEN postJSON(d) ELSE {FALSE}
SendOutcomes(ch, d) == CASE ch.type = "email"   -> emailSend(ch)
                         [] ch.type = "slack"   -> slackSend(ch, d)
                         [] ch.type = "webhook" -> webhookSend(ch, d)

\* The goroutine turns to the next rule, or ends.
NextRule(x) == IF x.at = Rules THEN NoWork ELSE [x EXCEPT !.at = @ + 1, !.attempt = 1, !.pc = "rule"]

\* A rule that does not match, is throttled, or whose channel is missing, off or of no known type is passed over.
considerRule(d) ==
    /\ disp[d].pc = "rule"
    /\ LET x == disp[d]
           r == x.copy[x.at]
           deliver == /\ RuleMatches(r, x.type, x.provider) /\ ~IsThrottled(r)
                      /\ r.channel.state = "on" /\ NewSender(r.channel)
       IN  disp' = [disp EXCEPT ![d] = IF deliver THEN [x EXCEPT !.pc = "send"] ELSE NextRule(x)]
    /\ UNCHANGED <<now, rule, editor, deliveries, ntUsed>>

\* Send: an attempt succeeds or fails; what failed is tried again MaxAttempts times in all.
Send(d, ok) ==
    /\ disp[d].pc = "send" /\ ok \in SendOutcomes(disp[d].copy[disp[d].at].channel, d)
    /\ LET x == disp[d]
       IN  disp' = [disp EXCEPT ![d] = IF ok THEN [x EXCEPT !.pc = "mark"]
                                       ELSE IF x.attempt < MaxAttempts THEN [x EXCEPT !.attempt = @ + 1]
                                       ELSE NextRule(x)]
    /\ UNCHANGED <<now, rule, editor, deliveries, ntUsed>>

\* Mutant: the time of the delivery is not kept.
UpdateLastTriggeredNot(rows, r) == rows

UpdateLastTriggered(rows, r) == [rows EXCEPT ![r].last = now]

\* After a delivery its time is written, unless the context has expired meanwhile.  Another goroutine
\* that has listed the rule before does not see it.
markDelivered(d) ==
    /\ disp[d].pc = "mark"
    /\ LET r == disp[d].at
           others == {e \in Dispatchers \ {d} : disp[e].pc \in {"rule", "send", "mark"} /\ disp[e].at <= r}
       IN  /\ rule' = IF Expired(d) THEN rule ELSE UpdateLastTriggered(rule, r)
           /\ deliveries' = [deliveries EXCEPT ![r] = Append(@, [at |-> now, lost |-> Expired(d), excused |-> r \in disp[d].stale])]
           /\ disp' = [e \in Dispatchers |-> IF e = d THEN NextRule(disp[d])
                                             ELSE IF e \in others THEN [disp[e] EXCEPT !.stale = @ \cup {r}] ELSE disp[e]]
    /\ UNCHANGED <<now, editor, ntUsed>>

----------------------------------------------------------------------------
(* The services of rules and channels *)

\* Update of a rule reads it ...
ReadRule(r) == /\ editor = NoWork /\ ntUsed.saves < MaxSaves
               /\ ntUsed' = [ntUsed EXCEPT !.saves = @ + 1]
               /\ editor' = [pc |-> "save", r |-> r, copy |-> rule[r]]
               /\ UNCHANGED <<now, rule, disp, deliveries>>

\* ... and saves all of it, the time of the last delivery as it was read.
SaveRule(enabled) ==
    /\ editor.pc = "save"
    /\ LET r == editor.r
           stale == rule[r].last # editor.copy.last
       IN  /\ rule' = [rule EXCEPT ![r] = [editor.copy EXCEPT !.enabled = enabled]]
           /\ deliveries' = [deliveries EXCEPT ![r] =
                               [i \in DOMAIN deliveries[r] |-> [deliveries[r][i] EXCEPT !.lost = @ \/ stale]]]
    /\ editor' = NoWork
    /\ UNCHANGED <<now, disp, ntUsed>>

\* Update and Delete of the rule's channel.
SetChannel(r, state) == /\ editor = NoWork /\ ntUsed.saves < MaxSaves
                        /\ ntUsed' = [ntUsed EXCEPT !.saves = @ + 1]
                        /\ rule' = [rule EXCEPT ![r].channel.state = state]
                        /\ UNCHANGED <<now, disp, editor, deliveries>>

NtNext ==
    \/ Elapses
    \/ \E d \in Dispatchers :
         \/ \E ty \in {"vm.power_on", "inventory.sync"} : TaskFails(d, ty)
         \/ InventorySynced(d) \/ ListEnabled(d) \/ considerRule(d) \/ markDelivered(d)
         \/ \E ok \in BOOLEAN : Send(d, ok)
    \/ \E r \in RuleIDs : ReadRule(r)
    \/ \E enabled \in BOOLEAN : SaveRule(enabled)
    \/ \E r \in RuleIDs, state \in {"off", "gone"} : SetChannel(r, state)

NtSpec == NtInit /\ [][NtNext]_ntVars

----------------------------------------------------------------------------
(* Properties *)

\* Between two deliveries of a rule lies at least its throttle.  The check and the write are apart, so this
\* holds of a delivery whose goroutine listed the rules after the one before was written down, and
\* unless that writing failed (the context had expired) or was overwritten by an edit of the rule.
ThrottleHolds ==
    \A r \in RuleIDs : \A i \in 1..Len(deliveries[r]) - 1 :
        LET a == deliveries[r][i]
            b == deliveries[r][i + 1]
        IN  a.lost \/ b.excused \/ b.at - a.at >= Throttle

=============================================================================
