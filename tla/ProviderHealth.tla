---------------------------- MODULE ProviderHealth ----------------------------
(***************************************************************************)
(* service/provider_health_service.go, health/engine.go and the goroutine  *)
(* that SyncInventoryNow starts: the health row of a hypervisor, which the *)
(* checks (of the engine, one at a time, and of requests) and the ends of  *)
(* synchronisations read, change and save as a whole.                      *)
(***************************************************************************)
EXTENDS Naturals

CONSTANTS Checks,        \* executions of RunCheck
          Afters,        \* goroutines of updateHealthAfterSync
          Latencies,     \* latencies of a ping, in ms
          TaskStats,     \* audited executions of the last 24 h, [total, failed]
          AuthFailures,  \* failed logins of the last 24 h
          StaleAfter,    \* staleInventoryThreshold
          LastHour,      \* the clock stops here
          MaxChecks, MaxSyncs, MaxLost   \* bounds: checks, synchronisations, failed writes

ASSUME HealthAssumption ==
    /\ Latencies \subseteq Nat /\ AuthFailures \subseteq Nat /\ TaskStats \subseteq [total : Nat, failed : Nat]
    /\ {StaleAfter, LastHour, MaxChecks, MaxSyncs, MaxLost} \subseteq Nat

VARIABLES listed,        \* the hypervisor has a row
          health,        \* its health row, or NoRow
          check,         \* Checks -> the row a check has read, NoCheck outside of one
          after,         \* Afters -> the goroutine's progress
          hour,          \* the time
          told,          \* history: what the goroutines that found a row were to write, [at, status, failures]
          raced,         \* history: somebody saved between another's read and save, or a write was lost
          hpUsed         \* budget: [checks, syncs, lost]

hpVars == <<listed, health, check, after, hour, told, raced, hpUsed>>

Never   == [at |-> LastHour + 1, status |-> "none", failures |-> 0]
NoRow   == [row |-> FALSE]
NoCheck == [pc |-> "none"]

\* The columns of a check that finds no row.
Fresh == [row |-> TRUE, online |-> FALSE, fails |-> 0, seen |-> FALSE, avg |-> 0, sync |-> Never, rate |-> [total |-> 0, failed |-> 0],
          auth |-> 0, stale |-> TRUE, score |-> 0, status |-> "unknown"]

HpInit == /\ listed = TRUE /\ health = NoRow /\ hour = 0 /\ told = Never /\ raced = FALSE
          /\ check = [c \in Checks |-> NoCheck] /\ after = [a \in Afters |-> NoCheck]
          /\ hpUsed = [checks |-> 0, syncs |-> 0, lost |-> 0]

HourPasses == /\ hour < LastHour /\ hour' = hour + 1
              /\ UNCHANGED <<listed, health, check, after, told, raced, hpUsed>>

\* Somebody has read the row and not yet saved it.
Reading(procs) == \E p \in DOMAIN procs : procs[p].pc = "read"

----------------------------------------------------------------------------
(* Scores *)

Penalty(cond, points) == IF cond THEN points ELSE 0

\* The share of failed tasks is above n tenths.
RateAbove(rate, n) == rate.total > 0 /\ 10 * rate.failed > n * rate.total

\* The penalties add up to 120 at most.
computeHealthScore(h) ==
    LET lost == Penalty(~h.online, 40) + Penalty(~h.online /\ h.fails >= 3, 20)
                + Penalty(h.avg > 500, 10) + Penalty(h.avg > 1000, 10)
                + Penalty(RateAbove(h.rate, 2), 10) + Penalty(RateAbove(h.rate, 5), 10)
                + Penalty(h.stale, 10)
                + Penalty(h.auth > 3, 5) + Penalty(h.auth > 10, 5)
    IN  IF lost > 100 THEN 0 ELSE 100 - lost

scoreToStatus(score) == IF score >= 80 THEN "healthy" ELSE IF score >= 50 THEN "degraded" ELSE "unhealthy"

\* Moving average with weight 0.3, in whole ms; 0 stands for none yet.
Averaged(avg, latency) == IF avg = 0 THEN latency ELSE (7 * avg + 3 * latency) \div 10

Stale(at) == at > hour \/ hour - at > StaleAfter

\* buildSnapshot carries over what it neither measures nor counts anew; last_seen_at is not carried over.
buildSnapshot(existing, online, latency, rate, auth) ==
    LET old  == IF existing.row THEN existing ELSE Fresh
        snap == [old EXCEPT !.online = online, !.seen = online,
                            !.fails = IF online THEN 0 ELSE @ + 1,
                            !.avg = IF online THEN Averaged(@, latency) ELSE @,
                            !.rate = rate, !.auth = auth, !.stale = Stale(old.sync.at)]
        score == computeHealthScore(snap)
    IN  [snap EXCEPT !.score = score, !.status = scoreToStatus(score)]

----------------------------------------------------------------------------
(* RunCheck, called by the engine for one hypervisor after the other and by requests *)

RunCheckReads(c) ==
    /\ check[c] = NoCheck /\ listed /\ hpUsed.checks < MaxChecks
    /\ check' = [check EXCEPT ![c] = [pc |-> "read", existing |-> health]]
    /\ hpUsed' = [hpUsed EXCEPT !.checks = @ + 1]
    /\ UNCHANGED <<listed, health, after, hour, told, raced>>

\* Mutant: the list of columns to update lacks the status.
UpsertWithoutStatus(old, new) == IF old.row THEN [new EXCEPT !.status = old.status] ELSE new

\* The row becomes new: the conflict on hypervisor_id updates every column.
Upsert(old, new) == new

\* The ping, the counts and the upsert.  The write may be lost; that for a hypervisor deleted meanwhile
\* fails or leaves a row without one.
RunCheckSaves(c) ==
    /\ check[c].pc = "read" /\ check' = [check EXCEPT ![c] = NoCheck]
    /\ \E online \in BOOLEAN, latency \in Latencies, rate \in TaskStats, auth \in AuthFailures :
          health' = Upsert(health, buildSnapshot(check[c].existing, online, latency, rate, auth))
    /\ raced' = (raced \/ Reading(after) \/ Reading([check EXCEPT ![c] = NoCheck]))
    /\ UNCHANGED <<listed, after, hour, told, hpUsed>>

RunCheckLost(c) ==
    /\ check[c].pc = "read" /\ check' = [check EXCEPT ![c] = NoCheck]
    /\ \/ ~listed /\ UNCHANGED hpUsed
       \/ hpUsed.lost < MaxLost /\ hpUsed' = [hpUsed EXCEPT !.lost = @ + 1]
    /\ UNCHANGED <<listed, health, after, hour, told, raced>>

----------------------------------------------------------------------------
(* The end of a synchronisation *)

\* SyncInventoryNow ends and starts the goroutine.
StartAfter(a) ==
    /\ after[a] = NoCheck /\ listed /\ hpUsed.syncs < MaxSyncs
    /\ \E st \in {"success", "failed"} : after' = [after EXCEPT ![a] = [pc |-> "start", status |-> st]]
    /\ hpUsed' = [hpUsed EXCEPT !.syncs = @ + 1]
    /\ UNCHANGED <<listed, health, check, hour, told, raced>>

\* Without a row there is nothing to update.
AfterReads(a) ==
    /\ after[a].pc = "start"
    /\ after' = [after EXCEPT ![a] = IF health.row THEN [pc |-> "read", status |-> @.status, existing |-> health]
                                     ELSE NoCheck]
    /\ UNCHANGED <<listed, health, check, hour, told, raced, hpUsed>>

\* What a synchronisation that ended with status st makes of the columns about it.
SyncColumns(old, st) == [at |-> hour, status |-> st, failures |-> old.failures + Penalty(st = "failed", 1)]

\* Every other column is written as it was read, and so is the hypervisor, which was loaded with the row:
\* one that was deleted meanwhile is inserted again.
AfterSaves(a) ==
    /\ after[a].pc = "read" /\ after' = [after EXCEPT ![a] = NoCheck]
    /\ \/ /\ health' = [after[a].existing EXCEPT !.sync = SyncColumns(@, after[a].status)]
          /\ listed' = TRUE
          /\ told' = SyncColumns(told, after[a].status)
          /\ raced' = (raced \/ Reading(check) \/ Reading([after EXCEPT ![a] = NoCheck]))
          /\ UNCHANGED hpUsed
       \/ /\ hpUsed.lost < MaxLost /\ hpUsed' = [hpUsed EXCEPT !.lost = @ + 1]
          /\ raced' = TRUE /\ UNCHANGED <<listed, health, told>>
    /\ UNCHANGED <<check, hour>>

DeleteHypervisor ==
    /\ listed /\ listed' = FALSE /\ health' = NoRow /\ told' = Never
    /\ raced' = (raced \/ Reading(check) \/ Reading(after))
    /\ UNCHANGED <<check, after, hour, hpUsed>>

----------------------------------------------------------------------------

HpNext == \/ HourPasses \/ DeleteHypervisor
          \/ \E c \in Checks : RunCheckReads(c) \/ RunCheckSaves(c) \/ RunCheckLost(c)
          \/ \E a \in Afters : StartAfter(a) \/ AfterReads(a) \/ AfterSaves(a)

HpSpec == HpInit /\ [][HpNext]_hpVars

\* The status of a health row follows from its own columns although checks and goroutines save rows that
\* they read earlier: a hypervisor that is offline is never shown healthy, one that failed three checks in
\* a row is unhealthy, one that is online has no failed checks.  And as long as nobody saved between
\* another's read and save, the row tells when and how the last synchronisation ended and how many failed.
HealthTells ==
    health.row =>
        /\ health.score = computeHealthScore(health) /\ health.status = scoreToStatus(health.score)
        /\ health.online <=> health.fails = 0
        /\ ~health.online => health.status # "healthy"
        /\ health.fails >= 3 => health.status = "unhealthy"
        /\ ~raced => health.sync = told

=============================================================================
