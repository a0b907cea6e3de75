-------------------------- MODULE AutomationProofs --------------------------
(***************************************************************************)
(* Proofs about the parts that act on their own: the scheduler, the search *)
(* for the next minute of a cron expression, the workflow engine and the   *)
(* notifications, for any number of goroutines, requests, runs and rules,  *)
(* any cron expression, calendar and time.                                 *)
(***************************************************************************)
EXTENDS Scheduler, Cron, WorkflowEngine, Notifications, FiniteSetTheorems, NaturalsInduction,
        WellFoundedInduction, SequenceTheorems, TLAPS

----------------------------------------------------------------------------
(* Scheduler: what the variables hold. *)

RowStatus  == {"active", "paused", "expired"}
ScheduleRow == [once : BOOLEAN, enabled : BOOLEAN, status : RowStatus, next : Nat, runs : Nat,
                maxRuns : Nat, expires : Nat]
RunUpdate  == [next : Nat, runs : Nat, status : RowStatus]
EditKinds  == {"Enable", "Disable", "Update"}

Starting == {x \in [pc : {"start"}, copy : ScheduleRow, at : 0..Horizon] : x.copy.next <= x.at}
Updating == [pc : {"update"}, slot : Nat, update : RunUpdate]
Editing  == [pc : EditKinds, copy : ScheduleRow]

SchedType ==
    /\ clock \in 0..Horizon
    /\ row \in ScheduleRow \cup {NoRow}
    /\ fires \in [Fires -> {Idle} \cup Starting \cup Updating]
    /\ edits \in [Edits -> {Idle} \cup Editing]
    /\ slotFired \in [0..Horizon -> Nat]
    /\ disturbed \in BOOLEAN /\ quiet \in BOOLEAN
    /\ used \in [edits : Nat, faults : Nat]

\* The next match of a cron expression is a later minute, if there is one.
LEMMA NextSlotLater ==
    ASSUME NEW a \in Nat
    PROVE  NextSlot(a) \in Nat /\ (NextSlot(a) = Never \/ NextSlot(a) > a)
<1> DEFINE later == {s \in Slots : s > a}
<1>0. Slots \subseteq Nat /\ Never \in Nat
    BY SchedulerAssumption DEF Never
<1>1. CASE later = {}
    BY <1>0, <1>1 DEF NextSlot
<1>2. CASE later # {}
    <2>1. \E s \in later : \A u \in later : ~(<<u, s>> \in OpToRel(<, Nat))
        BY <1>0, <1>2, NatLessThanWellFounded, WFMin
    <2>2. \E s \in later : \A u \in later : s <= u
        <3>1. ASSUME NEW u \in Nat, NEW s \in Nat, u < s PROVE <<u, s>> \in OpToRel(<, Nat)
            BY <3>1 DEF OpToRel
        <3> HIDE DEF later
        <3>2. PICK s \in later : \A u \in later : ~(<<u, s>> \in OpToRel(<, Nat))
            BY <2>1
        <3>3. later \subseteq Nat
            BY <1>0 DEF later
        <3>4. ASSUME NEW u \in later PROVE s <= u
            <4>1. u \in Nat /\ s \in Nat /\ ~(u < s)
                BY <3>1, <3>2, <3>3
            <4> QED BY <4>1
        <3> QED BY <3>2, <3>4
    <2>3. NextSlot(a) = CHOOSE s \in later : \A u \in later : s <= u
        BY <1>2 DEF NextSlot
    <2> QED
        BY <1>0, <2>2, <2>3
<1> QED BY <1>1, <1>2

LEMMA RowsDiffer == NoRow \notin ScheduleRow /\ \A x \in Starting \cup Updating \cup Editing : x # Idle
<1>1. \A x \in Starting \cup Updating \cup Editing : x.pc # Idle.pc
    BY DEF Starting, Updating, Editing, EditKinds, Idle
<1>2. "gone" \in DOMAIN NoRow /\ \A x \in ScheduleRow : "gone" \notin DOMAIN x
    BY DEF NoRow, ScheduleRow
<1> QED BY <1>1, <1>2

LEMMA IdlePC == Idle.pc = "idle"
BY DEF Idle

LEMMA SchedTypeInit == SchedInit => SchedType
<1> SUFFICES ASSUME SchedInit PROVE SchedType
    OBVIOUS
<1>1. Horizon \in Nat
    BY SchedulerAssumption
<1>2. /\ fires \in [Fires -> {Idle} \cup Starting \cup Updating]
      /\ edits \in [Edits -> {Idle} \cup Editing]
    BY DEF SchedInit
<1>3. slotFired \in [0..Horizon -> Nat] /\ clock \in 0..Horizon
    BY <1>1 DEF SchedInit
<1> QED BY <1>2, <1>3 DEF SchedInit, SchedType

\* Saving an edited copy gives a row of the type.
LEMMA EditedType ==
    ASSUME SchedType, NEW r \in ScheduleRow, NEW k \in EditKinds
    PROVE  /\ Edited(k, r) \in ScheduleRow
           /\ Edited(k, r).next = r.next \/ Edited(k, r).next > clock
           /\ k = "Disable" => ~Edited(k, r).enabled
<1>1. clock \in Nat
    BY SchedulerAssumption DEF SchedType
<1>2. NextSlot(clock) \in Nat /\ (NextSlot(clock) = Never \/ NextSlot(clock) > clock)
    BY <1>1, NextSlotLater
<1>3. CASE k = "Enable"
    BY <1>3 DEF Edited, Enabled, ScheduleRow, RowStatus
<1>4. CASE k = "Disable"
    BY <1>4 DEF Edited, Disabled, ScheduleRow, RowStatus
<1>5. CASE k = "Update"
    <2>1. Edited(k, r) = Rescheduled(r)
        BY <1>5 DEF Edited
    <2> QED BY <1>1, <1>2, <1>5, <2>1 DEF Rescheduled, ScheduleRow
<1> QED BY <1>3, <1>4, <1>5 DEF EditKinds

\* What fire computes from its copy of the row.
LEMMA UpdateComputed ==
    ASSUME SchedType, NEW f \in Fires, fires[f].pc = "start", NEW k, fireDispatch(f, k)
    PROVE  \E u \in RunUpdate :
             LET c == fires[f].copy IN
             /\ fires' = [fires EXCEPT ![f] = [pc |-> "update", slot |-> c.next, update |-> u]]
             /\ u.next > fires[f].at \/ u.next = Never
             /\ u.runs = c.runs + 1
             /\ u.status \in {c.status, "expired"}
             /\ c.maxRuns > 0 /\ u.runs >= c.maxRuns => u.status = "expired"
<1> DEFINE c == fires[f].copy
           u == [next |-> computeNextRun(c, fires[f].at), runs |-> c.runs + 1, status |-> newStatus(c)]
<1>1. fires[f] \in Starting
    BY IdlePC DEF SchedType, Updating
<1>2. c \in ScheduleRow /\ fires[f].at \in Nat
    BY <1>1 DEF Starting
<1>3. /\ computeNextRun(c, fires[f].at) \in Nat
      /\ computeNextRun(c, fires[f].at) > fires[f].at \/ computeNextRun(c, fires[f].at) = Never
    BY <1>2, NextSlotLater, SchedulerAssumption DEF computeNextRun, Never
<1>4. /\ newStatus(c) \in {c.status, "expired"}
      /\ c.maxRuns > 0 /\ c.runs + 1 >= c.maxRuns => newStatus(c) = "expired"
      /\ c.status \in RowStatus /\ c.runs + 1 \in Nat
    BY <1>2 DEF newStatus, ScheduleRow
<1>5. u \in RunUpdate
    BY <1>3, <1>4 DEF RunUpdate, RowStatus
<1>6. fires' = [fires EXCEPT ![f] = [pc |-> "update", slot |-> c.next, update |-> u]]
    BY DEF fireDispatch
<1> QED BY <1>3, <1>4, <1>5, <1>6

LEMMA SchedTypeNext == SchedType /\ [SchedNext]_schedVars => SchedType'
<1> SUFFICES ASSUME SchedType, [SchedNext]_schedVars PROVE SchedType'
    OBVIOUS
<1> USE DEF SchedType
<1>h. Horizon \in Nat
    BY SchedulerAssumption
<1>1. CASE Passes
    BY <1>1, <1>h DEF Passes
<1>2. ASSUME NEW once \in BOOLEAN, NEW enabled \in BOOLEAN, NEW m \in MaxRunsSet, NEW x \in {1, Never},
             Create(once, enabled, m, x)
      PROVE  SchedType'
    <2>1. clock + 1 \in Nat /\ NextSlot(clock) \in Nat /\ m \in Nat /\ x \in Nat
        <3>1. clock \in Nat /\ clock + 1 \in Nat /\ Never \in Nat
            BY <1>h DEF Never
        <3>2. m \in Nat
            BY SchedulerAssumption
        <3>3. NextSlot(clock) \in Nat
            BY <3>1, NextSlotLater
        <3>4. x \in Nat
            BY <3>1
        <3> QED BY <3>1, <3>2, <3>3, <3>4
    <2>2. row' \in ScheduleRow
        BY <1>2, <2>1 DEF Create, ScheduleRow, RowStatus
    <2> QED BY <1>2, <2>2 DEF Create
<1>3. ASSUME NEW e \in Edits, NEW kind \in EditKinds, ReadRow(e, kind) PROVE SchedType'
    <2>1. [pc |-> kind, copy |-> row] \in Editing
        BY <1>3 DEF ReadRow, Exists, Editing
    <2>2. edits' \in [Edits -> {Idle} \cup Editing]
        BY <1>3, <2>1 DEF ReadRow
    <2>3. used' \in [edits : Nat, faults : Nat]
        BY <1>3 DEF ReadRow
    <2> QED BY <1>3, <2>2, <2>3 DEF ReadRow
<1>4. ASSUME NEW e \in Edits, SaveRow(e) PROVE SchedType'
    <2>1. edits[e] \in Editing
        BY <1>4, IdlePC DEF SaveRow
    <2>2. row' \in ScheduleRow
        BY <1>4, <2>1, EditedType DEF SaveRow, Editing
    <2> QED BY <1>4, <2>2 DEF SaveRow
<1>5. CASE Delete
    BY <1>5 DEF Delete
<1>6. ASSUME NEW k \in Dispatched, TriggerNow(k) PROVE SchedType'
    BY <1>6 DEF TriggerNow
<1>7. ASSUME NEW f \in Fires, tick(f) PROVE SchedType'
    <2>1. [pc |-> "start", copy |-> row, at |-> clock] \in Starting
        BY <1>7, <1>h DEF tick, ListDue, Exists, Starting
    <2> QED BY <1>7, <2>1 DEF tick
<1>8. ASSUME NEW f \in Fires, fireUpdate(f) PROVE SchedType'
    <2>1. fires[f] \in Updating
        BY <1>8, IdlePC DEF fireUpdate, Starting
    <2>2. ASSUME row \in ScheduleRow PROVE UpdateAfterRun(row, fires[f].update) \in ScheduleRow
        BY <2>1, <2>2 DEF UpdateAfterRun, Updating, RunUpdate, ScheduleRow
    <2>3. row' \in ScheduleRow \cup {NoRow}
        BY <1>8, <2>2 DEF fireUpdate, Exists
    <2>4. fires' \in [Fires -> {Idle} \cup Starting \cup Updating]
        BY <1>8 DEF fireUpdate
    <2>5. used' \in [edits : Nat, faults : Nat] /\ disturbed' \in BOOLEAN
        <3>1. UNCHANGED used \/ used' = [used EXCEPT !.faults = @ + 1]
            BY <1>8 DEF fireUpdate
        <3>2. disturbed' \in BOOLEAN
            BY <1>8, Zenon DEF fireUpdate
        <3> QED BY <3>1, <3>2
    <2> QED BY <1>8, <2>3, <2>4, <2>5 DEF fireUpdate
<1>9. ASSUME NEW f \in Fires, NEW k \in Dispatched, fireDispatch(f, k) PROVE SchedType'
    <2>1. fires[f] \in Starting
        BY <1>9, IdlePC DEF fireDispatch, Updating
    <2>2. PICK u \in RunUpdate :
             fires' = [fires EXCEPT ![f] = [pc |-> "update", slot |-> fires[f].copy.next, update |-> u]]
        BY <1>9, UpdateComputed DEF fireDispatch
    <2>3. [pc |-> "update", slot |-> fires[f].copy.next, update |-> u] \in Updating
        BY <2>1 DEF Starting, Updating, ScheduleRow
    <2>4. slotFired' \in [0..Horizon -> Nat]
        <3>1. slotFired' = [slotFired EXCEPT ![fires[f].copy.next] = @ + 1]
            BY <1>9 DEF fireDispatch
        <3>2. slotFired \in [0..Horizon -> Nat]
            OBVIOUS
        <3>3. fires[f].copy.next \in 0..Horizon
            BY <1>h, <2>1 DEF Starting, ScheduleRow
        <3>4. slotFired[fires[f].copy.next] + 1 \in Nat
            BY <3>2, <3>3
        <3> HIDE DEF SchedType
        <3> QED BY <3>1, <3>2, <3>3, <3>4
    <2> QED BY <1>9, <2>2, <2>3, <2>4 DEF fireDispatch
<1>10. CASE Crash
    BY <1>10 DEF Crash
<1>11. CASE UNCHANGED schedVars
    BY <1>11 DEF schedVars
<1> QED
    BY <1>1, <1>2, <1>3, <1>4, <1>5, <1>6, <1>7, <1>8, <1>9, <1>10, <1>11 DEF SchedNext, EditKinds

----------------------------------------------------------------------------
(* Scheduler: the invariants. *)

Fired == {s \in 0..Horizon : slotFired[s] > 0}
NoUpdate == \A f \in Fires : fires[f].pc # "update"

\* Before the schedule is created nothing runs; the requests that edit it come later.
FreshInv ==
    /\ used.edits = 0 => /\ row = NoRow /\ Fired = {} /\ ~quiet
                         /\ \A f \in Fires : fires[f] = Idle
    /\ used.edits <= 1 => \A e \in Edits : edits[e] = Idle

\* While nothing has disturbed the schedule at most one goroutine fires it, and every dispatched time lies
\* before the next one: the row's, or, between dispatch and update, the one the goroutine will write.
SlotInv ==
    ~disturbed =>
        /\ \A f, g \in Fires : fires[f] # Idle /\ fires[g] # Idle => f = g
        /\ \A s \in 0..Horizon : slotFired[s] <= 1
        /\ \A s \in Fired : s <= clock
        /\ Exists /\ NoUpdate => \A s \in Fired : s < row.next
        /\ \A f \in Fires : fires[f].pc = "start" => \A s \in Fired : s < fires[f].copy.next
        /\ \A f \in Fires : fires[f].pc = "start" => fires[f].at <= clock
        /\ \A f \in Fires : fires[f].pc = "update" => \A s \in Fired : s < fires[f].update.next

\* A schedule nobody has edited counts its runs, the one in progress aside, and an active one has runs left.
WithinMax(total, max, status) == max > 0 => total <= max /\ (status = "active" => total < max)
CountInv ==
    ~disturbed /\ Exists /\ used.edits = 1 =>
        /\ NoUpdate => row.runs = Cardinality(Fired) /\ WithinMax(Cardinality(Fired), row.maxRuns, row.status)
        /\ \A f \in Fires : fires[f].pc = "start" => fires[f].copy = row /\ row.status = "active"
        /\ \A f \in Fires : fires[f].pc = "update" =>
              /\ Cardinality(Fired) = row.runs + 1 /\ fires[f].update.runs = row.runs + 1
              /\ WithinMax(Cardinality(Fired), row.maxRuns, fires[f].update.status)

\* Nobody is about to write an enabled row over a disabled one.
QuietInv == quiet => /\ \A e \in Edits : edits[e] = Idle
                     /\ Exists => ~row.enabled

LEMMA FreshNext == SchedType /\ FreshInv /\ [SchedNext]_schedVars => FreshInv'
<1> SUFFICES ASSUME SchedType, FreshInv, [SchedNext]_schedVars PROVE FreshInv'
    OBVIOUS
<1>u. used \in [edits : Nat, faults : Nat] /\ edits \in [Edits -> {Idle} \cup Editing]
    BY DEF SchedType
<1>1. CASE Passes
    BY <1>1 DEF Passes, FreshInv, Fired
<1>2. ASSUME NEW once, NEW enabled, NEW m, NEW x, Create(once, enabled, m, x) PROVE FreshInv'
    BY <1>2, <1>u DEF Create, FreshInv
<1>3. ASSUME NEW e \in Edits, NEW kind, ReadRow(e, kind) PROVE FreshInv'
    BY <1>3, <1>u DEF ReadRow, FreshInv, Exists
<1>4. ASSUME NEW e \in Edits, SaveRow(e) PROVE FreshInv'
    <2>1. edits[e] # Idle
        BY <1>4, IdlePC DEF SaveRow
    <2>2. ~(used.edits <= 1) /\ UNCHANGED used
        BY <1>4, <2>1 DEF FreshInv, SaveRow
    <2> QED BY <1>u, <2>2 DEF FreshInv
<1>5. CASE Delete \/ \E k \in Dispatched : TriggerNow(k)
    <2>1. used.edits # 0 /\ used'.edits = used.edits + 1 /\ UNCHANGED edits
        BY <1>5, <1>u DEF Delete, TriggerNow, FreshInv, Exists
    <2> QED BY <1>u, <2>1 DEF FreshInv
<1>6. ASSUME NEW f \in Fires, tick(f) PROVE FreshInv'
    BY <1>6 DEF tick, ListDue, Exists, FreshInv
<1>7. ASSUME NEW f \in Fires, fireUpdate(f) \/ \E k \in Dispatched : fireDispatch(f, k) PROVE FreshInv'
    <2>1. /\ fires[f] # Idle
          /\ used'.edits = used.edits /\ UNCHANGED edits
        BY <1>7, <1>u, IdlePC DEF fireUpdate, fireDispatch
    <2> QED BY <2>1 DEF FreshInv
<1>8. CASE Crash
    BY <1>8, <1>u DEF Crash, FreshInv, Fired
<1>9. CASE UNCHANGED schedVars
    BY <1>9 DEF schedVars, FreshInv, Fired
<1> QED
    BY <1>1, <1>2, <1>3, <1>4, <1>5, <1>6, <1>7, <1>8, <1>9 DEF SchedNext

LEMMA SlotNext == SchedType /\ FreshInv /\ SlotInv /\ [SchedNext]_schedVars => SlotInv'
<1> SUFFICES ASSUME SchedType, FreshInv, SlotInv, [SchedNext]_schedVars, ~disturbed' PROVE SlotInv'
    BY DEF SlotInv
<1>t. /\ clock \in Nat /\ Horizon \in Nat /\ clock <= Horizon
      /\ fires \in [Fires -> {Idle} \cup Starting \cup Updating]
      /\ slotFired \in [0..Horizon -> Nat]
    BY SchedulerAssumption DEF SchedType
<1>f. Fired \subseteq 0..Horizon
    BY DEF Fired
<1>1. CASE Passes
    <2>1. UNCHANGED <<row, fires, slotFired, disturbed>> /\ clock' = clock + 1
        BY <1>1 DEF Passes
    <2>2. Fired' = Fired /\ Exists' = Exists /\ NoUpdate' = NoUpdate
        BY <2>1 DEF Fired, Exists, NoUpdate
    <2>3. \A s \in Fired : s <= clock'
        BY <1>f, <1>t, <2>1 DEF SlotInv
    <2>4. \A f \in Fires : fires[f].pc = "start" => fires[f].at <= clock'
        <3>1. \A f \in Fires : fires[f].pc = "start" => fires[f].at <= clock
            BY <2>1 DEF SlotInv
        <3>2. \A f \in Fires : fires[f].pc = "start" => fires[f].at \in Int
            BY <1>t, IdlePC DEF Starting, Updating
        <3> QED BY <1>t, <2>1, <3>1, <3>2
    <2> QED BY <2>1, <2>2, <2>3, <2>4 DEF SlotInv
<1>2. ASSUME NEW once, NEW enabled, NEW m, NEW x, Create(once, enabled, m, x) PROVE SlotInv'
    <2>1. UNCHANGED <<clock, fires, slotFired, disturbed>> /\ Fired = {} /\ \A f \in Fires : fires[f] = Idle
        BY <1>2 DEF Create, FreshInv
    <2>2. Fired' = {}
        BY <2>1 DEF Fired
    <2> QED BY <2>1, <2>2, IdlePC DEF SlotInv
<1>3. ASSUME NEW e \in Edits, NEW kind, ReadRow(e, kind) PROVE SlotInv'
    BY <1>3 DEF ReadRow, SlotInv, Fired, Exists, NoUpdate
<1>4. ASSUME NEW e \in Edits, SaveRow(e) PROVE SlotInv'
    <2>1. edits[e] \in Editing
        BY <1>4, IdlePC DEF SaveRow, SchedType
    <2>2. /\ ~disturbed /\ row = edits[e].copy /\ \A f \in Fires : fires[f] = Idle
          /\ row' = Edited(edits[e].pc, row)
          /\ UNCHANGED <<clock, fires, slotFired>>
        BY <1>4 DEF SaveRow
    <2>3. row \in ScheduleRow /\ row'.next \in Nat /\ (row'.next = row.next \/ row'.next > clock)
        BY <2>1, <2>2, EditedType DEF Editing, ScheduleRow
    <2>4. Fired' = Fired
        BY <2>2 DEF Fired
    <2>5. Exists /\ NoUpdate
        BY <2>2, <2>3, RowsDiffer, IdlePC DEF Exists, NoUpdate
    <2>6. \A s \in Fired : s < row'.next
        BY <1>f, <1>t, <2>2, <2>3, <2>5 DEF SlotInv
    <2> QED BY <2>2, <2>4, <2>6, IdlePC DEF SlotInv
<1>5. CASE Delete \/ \E k \in Dispatched : TriggerNow(k)
    <2>1. UNCHANGED <<clock, fires, slotFired, disturbed>> /\ (UNCHANGED row \/ row' = NoRow)
        BY <1>5 DEF Delete, TriggerNow
    <2>2. Fired' = Fired /\ (Exists' => Exists /\ row' = row) /\ NoUpdate' = NoUpdate
        BY <2>1 DEF Fired, Exists, NoUpdate
    <2> QED BY <2>1, <2>2 DEF SlotInv
<1>6. ASSUME NEW f \in Fires, tick(f) PROVE SlotInv'
    <2>1. /\ ~disturbed /\ \A g \in Fires : fires[g] = Idle
          /\ fires' = [fires EXCEPT ![f] = [pc |-> "start", copy |-> row, at |-> clock]]
          /\ UNCHANGED <<clock, row, slotFired>> /\ Exists
        BY <1>6 DEF tick, ListDue
    <2>2. Fired' = Fired /\ NoUpdate
        BY <2>1, IdlePC DEF Fired, NoUpdate
    <2>3. \A g \in Fires : IF g = f THEN fires'[g].pc = "start" /\ fires'[g].copy = row /\ fires'[g].at = clock
                           ELSE fires'[g] = Idle
        BY <1>t, <2>1
    <2>4. \A s \in Fired : s < row.next
        BY <2>1, <2>2 DEF SlotInv
    <2> QED BY <1>t, <2>1, <2>2, <2>3, <2>4, IdlePC DEF SlotInv
<1>7. ASSUME NEW f \in Fires, fireUpdate(f) PROVE SlotInv'
    <2>1. fires[f].pc = "update" /\ fires[f] # Idle /\ fires[f] \in Updating
        BY <1>7, <1>t, IdlePC DEF fireUpdate, Starting
    <2>2. /\ ~disturbed /\ UNCHANGED <<clock, slotFired>> /\ fires' = [fires EXCEPT ![f] = Idle]
          /\ row' = IF Exists THEN UpdateAfterRun(row, fires[f].update) ELSE row
        BY <1>7 DEF fireUpdate
    <2>3. \A g \in Fires : fires'[g] = Idle
        BY <1>t, <2>1, <2>2 DEF SlotInv
    <2>4. Fired' = Fired
        BY <2>2 DEF Fired
    <2>5. Exists' => row'.next = fires[f].update.next
        BY <2>2, RowsDiffer DEF Exists, UpdateAfterRun, SchedType, ScheduleRow
    <2> QED BY <2>1, <2>2, <2>3, <2>4, <2>5, IdlePC DEF SlotInv
<1>8. ASSUME NEW f \in Fires, NEW k \in Dispatched, fireDispatch(f, k) PROVE SlotInv'
    <2> DEFINE c == fires[f].copy
    <2>1. fires[f].pc = "start" /\ fires[f] # Idle /\ fires[f] \in Starting
        BY <1>8, <1>t, IdlePC DEF fireDispatch, Updating
    <2>2. PICK u \in RunUpdate :
             /\ fires' = [fires EXCEPT ![f] = [pc |-> "update", slot |-> c.next, update |-> u]]
             /\ u.next > fires[f].at \/ u.next = Never
        BY <1>8, <2>1, UpdateComputed
    <2>3. slotFired' = [slotFired EXCEPT ![c.next] = @ + 1] /\ UNCHANGED <<clock, row, disturbed>>
        BY <1>8 DEF fireDispatch
    <2>4. /\ c.next \in 0..Horizon /\ c.next <= fires[f].at /\ fires[f].at \in 0..Horizon
          /\ u.next \in Nat
        BY <1>t, <2>1 DEF Starting, ScheduleRow, RunUpdate
    <2>5. \A g \in Fires : IF g = f THEN fires'[g].pc = "update" /\ fires'[g].update = u ELSE fires'[g] = Idle
        BY <1>t, <2>1, <2>2, <2>3 DEF SlotInv
    <2> HIDE DEF c
    <2>6. slotFired[c.next] = 0
        <3>1. c.next \in Fired => c.next < c.next
            BY <2>1, <2>3 DEF SlotInv, c
        <3>2. c.next \notin Fired /\ slotFired[c.next] \in Nat
            BY <1>t, <2>4, <3>1
        <3> QED BY <2>4, <3>2 DEF Fired
    <2>7. Fired' = Fired \cup {c.next} /\ slotFired'[c.next] = 1
          /\ \A s \in 0..Horizon \ {c.next} : slotFired'[s] = slotFired[s]
        BY <1>t, <2>3, <2>4, <2>6 DEF Fired
    <2>8. c.next < u.next /\ c.next <= clock /\ fires[f].at <= clock
        <3>1. fires[f].at <= clock
            BY <2>1, <2>3 DEF SlotInv
        <3> QED BY <1>t, <2>2, <2>4, <3>1 DEF Never
    <2>9. \A s \in Fired : s < u.next /\ s <= clock
        BY <1>f, <2>1, <2>3, <2>4, <2>8 DEF SlotInv, c
    <2>10. ~NoUpdate'
        BY <2>5 DEF NoUpdate
    <2>11. \A s \in 0..Horizon : slotFired'[s] <= 1
        BY <2>3, <2>7 DEF SlotInv
    <2> QED BY <2>3, <2>5, <2>7, <2>8, <2>9, <2>10, <2>11, IdlePC DEF SlotInv
<1>9. CASE Crash
    <2>1. ~disturbed /\ (\A f \in Fires : fires[f] = Idle /\ fires'[f] = Idle) /\ UNCHANGED <<clock, row, slotFired>>
        BY <1>9 DEF Crash
    <2>2. Fired' = Fired /\ NoUpdate
        BY <2>1, IdlePC DEF Fired, NoUpdate
    <2> QED BY <2>1, <2>2, IdlePC DEF SlotInv, Exists
<1>10. CASE UNCHANGED schedVars
    BY <1>10 DEF schedVars, SlotInv, Fired, Exists, NoUpdate
<1> QED
    BY <1>1, <1>2, <1>3, <1>4, <1>5, <1>6, <1>7, <1>8, <1>9, <1>10 DEF SchedNext

LEMMA FiredFinite == SchedType => IsFiniteSet(Fired) /\ Cardinality(Fired) \in Nat
<1> SUFFICES ASSUME SchedType PROVE IsFiniteSet(Fired)
    BY FS_CardinalityType
<1>1. IsFiniteSet(0..Horizon)
    BY FS_Interval, SchedulerAssumption
<1> QED BY <1>1, FS_Subset DEF Fired

LEMMA CountNext == SchedType /\ FreshInv /\ SlotInv /\ CountInv /\ [SchedNext]_schedVars => CountInv'
<1> SUFFICES ASSUME SchedType, FreshInv, SlotInv, CountInv, [SchedNext]_schedVars,
                    ~disturbed', Exists', used'.edits = 1
             PROVE  CountInv'
    BY DEF CountInv
<1>t. /\ used \in [edits : Nat, faults : Nat]
      /\ fires \in [Fires -> {Idle} \cup Starting \cup Updating]
      /\ Horizon \in Nat
    BY SchedulerAssumption DEF SchedType
<1>1. CASE Passes
    BY <1>1 DEF Passes, CountInv, Fired, Exists, NoUpdate
<1>2. ASSUME NEW once, NEW enabled, NEW m \in MaxRunsSet, NEW x, Create(once, enabled, m, x) PROVE CountInv'
    <2>1. /\ Fired = {} /\ UNCHANGED slotFired /\ \A f \in Fires : fires'[f] = Idle
          /\ row'.runs = 0 /\ row'.maxRuns = m /\ m \in Nat
        BY <1>2, SchedulerAssumption DEF Create, FreshInv
    <2>2. Cardinality(Fired') = 0
        BY <2>1, FS_EmptySet DEF Fired
    <2> QED BY <2>1, <2>2, IdlePC DEF CountInv, WithinMax
<1>3. ASSUME NEW e \in Edits, (\E kind : ReadRow(e, kind)) \/ SaveRow(e) PROVE FALSE
    <2>1. CASE SaveRow(e)
        <3>1. edits[e] # Idle /\ used.edits = 1
            BY <2>1, IdlePC DEF SaveRow
        <3> QED BY <3>1 DEF FreshInv
    <2>2. CASE \E kind : ReadRow(e, kind)
        <3>1. used.edits = 0 /\ row # NoRow
            BY <1>t, <2>2 DEF ReadRow, Exists
        <3> QED BY <3>1 DEF FreshInv
    <2> QED BY <1>3, <2>1, <2>2
<1>4. CASE Delete \/ \E k \in Dispatched : TriggerNow(k)
    <2>1. used' = [used EXCEPT !.edits = @ + 1] /\ row # NoRow
        BY <1>4 DEF Delete, TriggerNow, Exists
    <2>2. used.edits = 0
        BY <1>t, <2>1
    <2> QED BY <2>1, <2>2 DEF FreshInv
<1>5. ASSUME NEW f \in Fires, tick(f) PROVE CountInv'
    <2>1. /\ ~disturbed /\ \A g \in Fires : fires[g] = Idle
          /\ fires' = [fires EXCEPT ![f] = [pc |-> "start", copy |-> row, at |-> clock]]
          /\ UNCHANGED <<row, slotFired, used>> /\ Exists /\ row.status = "active"
        BY <1>5 DEF tick, ListDue
    <2>2. Fired' = Fired /\ NoUpdate
        BY <2>1, IdlePC DEF Fired, NoUpdate
    <2>3. \A g \in Fires : IF g = f THEN fires'[g].pc = "start" /\ fires'[g].copy = row ELSE fires'[g] = Idle
        BY <1>t, <2>1
    <2> QED BY <2>1, <2>2, <2>3, IdlePC DEF CountInv
<1>6. ASSUME NEW f \in Fires, fireUpdate(f) PROVE CountInv'
    <2>1. fires[f].pc = "update" /\ fires[f] # Idle /\ fires[f] \in Updating
        BY <1>6, <1>t, IdlePC DEF fireUpdate, Starting
    <2>2. /\ ~disturbed /\ UNCHANGED <<slotFired, used>> /\ fires' = [fires EXCEPT ![f] = Idle]
          /\ row' = IF Exists THEN UpdateAfterRun(row, fires[f].update) ELSE row
        BY <1>6 DEF fireUpdate
    <2>3. \A g \in Fires : fires'[g] = Idle
        BY <1>t, <2>1, <2>2 DEF SlotInv
    <2>4. Fired' = Fired
        BY <2>2 DEF Fired
    <2>5. Exists /\ row \in ScheduleRow
        BY <2>2 DEF Exists, SchedType
    <2>6. row'.runs = fires[f].update.runs /\ row'.status = fires[f].update.status /\ row'.maxRuns = row.maxRuns
        BY <2>2, <2>5 DEF UpdateAfterRun, ScheduleRow
    <2> QED BY <2>1, <2>2, <2>3, <2>4, <2>5, <2>6, IdlePC DEF CountInv
<1>7. ASSUME NEW f \in Fires, NEW k \in Dispatched, fireDispatch(f, k) PROVE CountInv'
    <2> DEFINE c == fires[f].copy
    <2>1. fires[f].pc = "start" /\ fires[f] # Idle /\ fires[f] \in Starting
        BY <1>7, <1>t, IdlePC DEF fireDispatch, Updating
    <2>2. PICK u \in RunUpdate :
             /\ fires' = [fires EXCEPT ![f] = [pc |-> "update", slot |-> c.next, update |-> u]]
             /\ u.runs = c.runs + 1
             /\ u.status \in {c.status, "expired"}
             /\ c.maxRuns > 0 /\ u.runs >= c.maxRuns => u.status = "expired"
        BY <1>7, <2>1, UpdateComputed
    <2>3. slotFired' = [slotFired EXCEPT ![c.next] = @ + 1] /\ UNCHANGED <<row, disturbed, used>>
        BY <1>7 DEF fireDispatch
    <2>4. Exists /\ ~disturbed /\ used.edits = 1
        BY <2>3 DEF Exists
    <2>5. c = row /\ row.status = "active"
        BY <2>1, <2>4 DEF CountInv
    <2>6. NoUpdate
        BY <2>1, <2>4, IdlePC DEF SlotInv, NoUpdate
    <2>7. /\ row.runs = Cardinality(Fired) /\ WithinMax(Cardinality(Fired), row.maxRuns, row.status)
          /\ row.maxRuns \in Nat
        BY <2>1, <2>4, <2>5, <2>6 DEF CountInv, Starting, ScheduleRow
    <2>8. c.next \in 0..Horizon /\ slotFired \in [0..Horizon -> Nat]
        BY <1>t, <2>1 DEF Starting, ScheduleRow, SchedType
    <2> HIDE DEF c
    <2>9. c.next \notin Fired
        <3>1. c.next \in Fired => c.next < c.next
            BY <2>1, <2>4 DEF SlotInv, c
        <3> QED BY <2>8, <3>1
    <2>10. Fired' = Fired \cup {c.next}
        BY <1>t, <2>3, <2>8, <2>9 DEF Fired
    <2>11. Cardinality(Fired') = Cardinality(Fired) + 1 /\ Cardinality(Fired) \in Nat
        BY <2>9, <2>10, FS_AddElement, FiredFinite
    <2>12. WithinMax(Cardinality(Fired'), row.maxRuns, u.status)
        BY <2>2, <2>5, <2>7, <2>11 DEF WithinMax
    <2>13. \A g \in Fires : IF g = f THEN fires'[g].pc = "update" /\ fires'[g].update = u ELSE fires'[g] = Idle
        BY <1>t, <2>1, <2>2, <2>4 DEF SlotInv
    <2>14. ~NoUpdate'
        BY <2>13 DEF NoUpdate
    <2>15. u.runs = row.runs + 1 /\ Cardinality(Fired') = row.runs + 1
        BY <2>2, <2>5, <2>7, <2>11
    <2> QED BY <2>3, <2>12, <2>13, <2>14, <2>15, IdlePC DEF CountInv
<1>8. CASE Crash
    <2>1. /\ ~disturbed /\ (\A f \in Fires : fires[f] = Idle /\ fires'[f] = Idle) /\ UNCHANGED <<row, slotFired>>
          /\ used.edits = 1
        BY <1>8, <1>t DEF Crash
    <2>2. Fired' = Fired /\ NoUpdate /\ Exists
        BY <2>1, IdlePC DEF Fired, NoUpdate, Exists
    <2> QED BY <2>1, <2>2, IdlePC DEF CountInv
<1>9. CASE UNCHANGED schedVars
    BY <1>9 DEF schedVars, CountInv, Fired, Exists, NoUpdate
<1> QED
    BY <1>1, <1>2, <1>3, <1>4, <1>5, <1>6, <1>7, <1>8, <1>9 DEF SchedNext

LEMMA QuietNext == SchedType /\ FreshInv /\ QuietInv /\ [SchedNext]_schedVars => QuietInv'
<1> SUFFICES ASSUME SchedType, FreshInv, QuietInv, [SchedNext]_schedVars, quiet' PROVE QuietInv'
    BY DEF QuietInv
<1>t. edits \in [Edits -> {Idle} \cup Editing] /\ row \in ScheduleRow \cup {NoRow}
    BY DEF SchedType
<1>1. CASE Passes \/ (\E k \in Dispatched : TriggerNow(k)) \/ (\E f \in Fires : tick(f))
           \/ (\E f \in Fires, k \in Dispatched : fireDispatch(f, k)) \/ UNCHANGED schedVars
    <2>1. UNCHANGED <<row, edits, quiet>>
        BY <1>1 DEF Passes, TriggerNow, tick, fireDispatch, schedVars
    <2> QED BY <2>1 DEF QuietInv, Exists
<1>2. ASSUME NEW once, NEW enabled, NEW m, NEW x, Create(once, enabled, m, x) PROVE FALSE
    BY <1>2 DEF Create, FreshInv
<1>3. ASSUME NEW e \in Edits, SaveRow(e) PROVE QuietInv'
    <2>1. /\ edits[e].pc = "Disable" /\ \A x \in Edits \ {e} : edits[x] = Idle
          /\ row' = Edited(edits[e].pc, edits[e].copy)
          /\ edits' = [edits EXCEPT ![e] = Idle]
        BY <1>3 DEF SaveRow
    <2>2. edits[e] \in Editing
        BY <1>t, <2>1, IdlePC
    <2>3. ~row'.enabled
        BY <2>1, <2>2, EditedType DEF Editing
    <2> QED BY <1>t, <2>1, <2>3 DEF QuietInv
<1>4. CASE Delete
    BY <1>4 DEF Delete, QuietInv, Exists
<1>5. ASSUME NEW f \in Fires, fireUpdate(f) PROVE QuietInv'
    <2>1. /\ UNCHANGED <<edits, quiet>>
          /\ row' = row \/ (Exists /\ row' = UpdateAfterRun(row, fires[f].update))
        BY <1>5 DEF fireUpdate
    <2>2. CASE row' = row
        BY <2>1, <2>2 DEF QuietInv, Exists
    <2>3. CASE Exists /\ row' = UpdateAfterRun(row, fires[f].update)
        <3>1. row \in ScheduleRow
            BY <1>t, <2>3 DEF Exists
        <3>2. row'.enabled = row.enabled
            BY <2>3, <3>1 DEF UpdateAfterRun, ScheduleRow
        <3> QED BY <2>1, <2>3, <3>2 DEF QuietInv
    <2> QED BY <2>1, <2>2, <2>3
<1>6. CASE Crash
    BY <1>6 DEF Crash, QuietInv, Exists
<1>7. ASSUME NEW e \in Edits, NEW kind, ReadRow(e, kind) PROVE FALSE
    BY <1>7 DEF ReadRow
<1> QED
    BY <1>1, <1>2, <1>3, <1>4, <1>5, <1>6, <1>7 DEF SchedNext

LEMMA SchedInvInit == SchedInit => FreshInv /\ SlotInv /\ CountInv /\ QuietInv
<1> SUFFICES ASSUME SchedInit PROVE FreshInv /\ SlotInv /\ CountInv /\ QuietInv
    OBVIOUS
<1>1. Fired = {} /\ ~Exists
    BY SchedulerAssumption DEF SchedInit, Fired, Exists
<1>2. FreshInv /\ CountInv /\ QuietInv
    BY <1>1 DEF SchedInit, FreshInv, CountInv, QuietInv
<1> QED BY <1>1, <1>2, IdlePC, SchedulerAssumption DEF SchedInit, SlotInv

\* The types of the scheduler's rows, goroutines and requests.
THEOREM SchedTypeCorrect == SchedSpec => []SchedType
BY SchedTypeInit, SchedTypeNext, PTL DEF SchedSpec

\* fire dispatches every due time once, unless goroutines of two polls overlapped, a write was lost or an
\* edit saved an old copy: whatever the cron expression, and however many goroutines and requests there are.
THEOREM SlotFiredOnceCorrect == SchedSpec => []SlotFiredOnce
<1>1. SchedType /\ SlotInv => SlotFiredOnce
    BY DEF SchedType, SlotInv, SlotFiredOnce
<1> QED BY <1>1, SchedTypeInit, SchedTypeNext, SchedInvInit, FreshNext, SlotNext, PTL DEF SchedSpec

\* A schedule that nobody edits fires at no more than max_runs of its times, and run_count counts no other.
THEOREM RunsWithinMaxCorrect == SchedSpec => []RunsWithinMax
<1>1. SchedType /\ SlotInv /\ CountInv => RunsWithinMax
    <2> DEFINE Goal == row.runs <= Cardinality(Fired) /\ (row.maxRuns > 0 => Cardinality(Fired) <= row.maxRuns)
    <2> SUFFICES ASSUME SchedType, SlotInv, CountInv PROVE ~disturbed /\ Exists /\ used.edits = 1 => Goal
        <3>1. SchedType => DOMAIN slotFired = 0..Horizon
            BY DEF SchedType
        <3>2. SchedType => {s \in DOMAIN slotFired : slotFired[s] > 0} = Fired
            BY <3>1 DEF Fired
        <3> QED BY <3>2 DEF RunsWithinMax
    <2> SUFFICES ASSUME ~disturbed, Exists, used.edits = 1 PROVE Goal
        OBVIOUS
    <2>1. row \in ScheduleRow /\ Cardinality(Fired) \in Nat
        BY FiredFinite DEF SchedType, Exists
    <2>2. CASE NoUpdate
        BY <2>1, <2>2 DEF CountInv, WithinMax, ScheduleRow
    <2>3. ASSUME NEW f \in Fires, fires[f].pc = "update"
          PROVE  Goal
        BY <2>1, <2>3 DEF CountInv, WithinMax, ScheduleRow
    <2> QED BY <2>2, <2>3 DEF NoUpdate
<1> QED
    BY <1>1, SchedTypeInit, SchedTypeNext, SchedInvInit, FreshNext, SlotNext, CountNext, PTL DEF SchedSpec

\* A disabled or deleted schedule stays so: no goroutine of fire makes it due again.
THEOREM DisabledStaysQuietCorrect == SchedSpec => []DisabledStaysQuiet
<1>1. QuietInv => DisabledStaysQuiet
    BY DEF QuietInv, DisabledStaysQuiet, ListDue
<1> QED
    BY <1>1, SchedTypeInit, SchedTypeNext, SchedInvInit, FreshNext, QuietNext, PTL DEF SchedSpec

----------------------------------------------------------------------------
(* Workflow engine: what the variables hold. *)

WorkflowRow == [enabled : BOOLEAN, status : {"active", "paused"}, trigger : Triggers, max : Nat,
                cont : BOOLEAN, actions : Seq(WorkflowActions), count : Nat]
Handling  == [pc : {"count", "create"}, copy : WorkflowRow]
RunRow    == [status : {"pending", "running", "completed", "failed"}, byHand : BOOLEAN, log : Seq(BOOLEAN)]
Executing == [pc : {"start", "action", "finish", "count", "done"}, w : WorkflowRow, log : Seq(BOOLEAN),
              attempt : Nat, sent : Nat, failed : BOOLEAN]

WfType ==
    /\ wf \in WorkflowRow \cup {NoWorkflow}
    /\ handlers \in [Handlers -> {Resting} \cup Handling]
    /\ runs \in [Runs -> {NoRun} \cup RunRow]
    /\ exec \in [Runs -> {Resting} \cup Executing]
    /\ wfHist \in [overlap : BOOLEAN, orphaned : BOOLEAN]
    /\ wfUsed \in [events : Nat, requests : Nat, errors : Nat, restarts : Nat]

\* The log so far and the counters of the attempts fit what the executor is doing.
Fatal(w, log, i) == ~log[i] /\ ~ContinueOnError(w, w.actions[i])
ExecFits(x) ==
    /\ x.pc = "start" => x.log = << >> /\ x.sent = 0 /\ x.attempt = 1 /\ ~x.failed
    /\ x.pc = "action" => /\ Len(x.log) < Len(x.w.actions) /\ x.sent < x.attempt
                          /\ \A i \in 1..Len(x.log) : ~Fatal(x.w, x.log, i)
    /\ x.pc = "finish" => IF x.failed THEN /\ Len(x.log) > 0 /\ Fatal(x.w, x.log, Len(x.log))
                                           /\ \A i \in 1..Len(x.log) - 1 : ~Fatal(x.w, x.log, i)
                          ELSE /\ Len(x.log) = Len(x.w.actions)
                               /\ \A i \in 1..Len(x.log) : ~Fatal(x.w, x.log, i)
    /\ x.sent <= x.attempt

\* A saved outcome fits the log that was saved with it.
OutcomeFits(w, run) ==
    /\ run.status = "completed" => /\ Len(run.log) = Len(w.actions)
                                   /\ \A i \in 1..Len(run.log) : ~Fatal(w, run.log, i)
    /\ run.status = "failed" => /\ Len(run.log) > 0 /\ Fatal(w, run.log, Len(run.log))
                                /\ \A i \in 1..Len(run.log) - 1 : ~Fatal(w, run.log, i)

\* Each run row has an executor, which is at work as long as the outcome is not saved.
ExecInv ==
    \A r \in Runs :
        /\ (runs[r] = NoRun) <=> (exec[r] = Resting)
        /\ exec[r] # Resting => ExecFits(exec[r]) /\ OutcomeFits(exec[r].w, runs[r])
        /\ exec[r].pc \in {"start", "action", "finish"} => runs[r].status \in Active

EventRuns == {r \in ActiveRuns : ~runs[r].byHand}
Created   == {r \in Runs : runs[r] # NoRun}

\* The runs created so far are finitely many, and none before the workflow is.
StockInv == /\ IsFiniteSet(Created)
            /\ wfUsed.requests = 0 => /\ Created = {} /\ wf = NoWorkflow
                                      /\ \A h \in Handlers : handlers[h] = Resting

\* A handler that has passed the count holds the last free place.
LimitInv ==
    ~wfHist.overlap /\ HasWorkflow =>
        /\ wf.max > 0 /\ Cardinality(EventRuns) <= wf.max
        /\ \A h \in Handlers : handlers[h] # Resting => handlers[h].copy.max = wf.max
        /\ \A h \in Handlers : handlers[h].pc = "create" =>
              /\ Cardinality(EventRuns) < wf.max
              /\ \A g \in Handlers \ {h} : handlers[g].pc # "create"

LEMMA RestingPC == Resting.pc = "rest" /\ Resting \notin Handling \cup Executing
<1>1. Resting.pc = "rest"
    BY DEF Resting
<1>2. \A x \in Handling \cup Executing : x.pc # "rest"
    BY DEF Handling, Executing
<1> QED BY <1>1, <1>2

LEMMA NoRunNoRow == NoRun \notin RunRow /\ NoWorkflow \notin WorkflowRow
<1>1. "none" \in DOMAIN NoRun /\ \A x \in RunRow : "none" \notin DOMAIN x
    BY DEF NoRun, RunRow
<1>2. "none" \in DOMAIN NoWorkflow /\ \A x \in WorkflowRow : "none" \notin DOMAIN x
    BY DEF NoWorkflow, WorkflowRow
<1> QED BY <1>1, <1>2

LEMMA WfTypeInit == WfInit => WfType
BY DEF WfInit, WfType

\* An attempt of an action ends in success or failure.
LEMMA OutcomeType ==
    ASSUME NEW a \in WorkflowActions, NEW out \in runAction(a) PROVE out[2] \in BOOLEAN
<1> DEFINE Ends == Nat \X BOOLEAN
<1>1. actionPowerOp(a) \subseteq Ends /\ actionCreateSnapshot(a) \subseteq Ends
    <2>1. a.targets \in Nat
        BY DEF WorkflowActions
    <2>2. \A k \in 0..a.targets : <<k, k = a.targets>> \in Ends
        <3>1. \A k \in 0..a.targets, b \in BOOLEAN : <<k, b>> \in Ends
            BY <2>1
        <3>2. \A k \in 0..a.targets : (k = a.targets) \in BOOLEAN
            BY Zenon
        <3> HIDE DEF Ends
        <3> QED BY <3>1, <3>2, Zenon
    <2> HIDE DEF Ends
    <2> QED BY <2>2 DEF actionPowerOp, actionCreateSnapshot
<1>2. <<0, FALSE>> \in Ends /\ <<0, TRUE>> \in Ends /\ <<1, FALSE>> \in Ends /\ <<1, TRUE>> \in Ends
    OBVIOUS
<1>3. \A o \in Ends : o[2] \in BOOLEAN
    OBVIOUS
<1> HIDE DEF Ends
<1>4. out \in Ends
    BY <1>1, <1>2 DEF runAction, actionSendNotification, actionTriggerSync, actionWebhook, actionDelay
<1> QED BY <1>3, <1>4

\* An action that has ended: its result is appended, and the run goes on or is to be finished.
LEMMA AfterActionFits ==
    ASSUME NEW x \in Executing, x.pc = "action", ExecFits(x), NEW ok \in BOOLEAN
    PROVE  LET y == afterAction(x, ok) IN y \in Executing /\ ExecFits(y) /\ y.w = x.w
                                          /\ y.pc \in {"action", "finish"}
<1> DEFINE y == afterAction(x, ok)
           i == Len(x.log) + 1
           stop == ~ok /\ ~ContinueOnError(x.w, x.w.actions[i])
<1>1. /\ x.log \in Seq(BOOLEAN) /\ Len(x.log) \in Nat /\ x.w \in WorkflowRow
      /\ x.w.actions \in Seq(WorkflowActions) /\ Len(x.w.actions) \in Nat
    BY DEF Executing, WorkflowRow
<1>2. /\ y.log = Append(x.log, ok) /\ y.w = x.w /\ y.attempt = 1 /\ y.sent = 0 /\ y.failed = stop
      /\ y.pc = IF stop \/ i = Len(x.w.actions) THEN "finish" ELSE "action"
      /\ y \in Executing
    <2>1. stop \in BOOLEAN
        OBVIOUS
    <2>2. Append(x.log, ok) \in Seq(BOOLEAN)
        BY <1>1
    <2> HIDE DEF stop, i
    <2>3. y = [x EXCEPT !.log = Append(@, ok), !.attempt = 1, !.sent = 0, !.failed = stop,
                        !.pc = IF stop \/ i = Len(x.w.actions) THEN "finish" ELSE "action"]
        BY DEF afterAction, stop, i
    <2>4. /\ y.log = Append(x.log, ok) /\ y.w = x.w /\ y.attempt = 1 /\ y.sent = 0 /\ y.failed = stop
          /\ y.pc = IF stop \/ i = Len(x.w.actions) THEN "finish" ELSE "action"
        BY <2>3 DEF Executing
    <2>5. /\ y.pc \in {"finish", "action"} /\ y.log \in Seq(BOOLEAN) /\ y.w \in WorkflowRow
          /\ y.attempt \in Nat /\ y.sent \in Nat /\ y.failed \in BOOLEAN
        BY <1>1, <2>1, <2>2, <2>4
    <2>6. y = [pc |-> y.pc, w |-> y.w, log |-> y.log, attempt |-> y.attempt, sent |-> y.sent, failed |-> y.failed]
        BY <2>3 DEF Executing
    <2> HIDE DEF y
    <2>7. y \in Executing
        BY <2>5, <2>6 DEF Executing
    <2> QED BY <2>4, <2>7
<1>3. /\ Len(y.log) = i /\ y.log[i] = ok
      /\ \A j \in 1..Len(x.log) : y.log[j] = x.log[j]
    BY <1>1, <1>2
<1>4. \A j \in 1..Len(x.log) : ~Fatal(y.w, y.log, j)
    BY <1>2, <1>3 DEF ExecFits, Fatal
<1>5. Fatal(y.w, y.log, i) <=> stop
    BY <1>2, <1>3 DEF Fatal
<1>6. i \in Nat /\ i <= Len(x.w.actions) /\ Len(x.log) = i - 1 /\ i > 0
    BY <1>1 DEF ExecFits
<1> HIDE DEF y, stop, i
<1>7. CASE stop
    <2>1. y.pc = "finish" /\ y.failed
        BY <1>2, <1>7
    <2> QED BY <1>2, <1>3, <1>4, <1>5, <1>6, <1>7, <2>1 DEF ExecFits, y
<1>8. CASE ~stop
    <2>1. \A j \in 1..i : ~Fatal(y.w, y.log, j)
        BY <1>4, <1>5, <1>6, <1>8
    <2>2. ~y.failed
        BY <1>2, <1>8
    <2>3. CASE i = Len(x.w.actions)
        <3>1. y.pc = "finish"
            BY <1>2, <2>3
        <3> QED BY <1>2, <1>3, <1>6, <2>1, <2>2, <2>3, <3>1 DEF ExecFits, y
    <2>4. CASE i # Len(x.w.actions)
        <3>1. y.pc = "action" /\ i < Len(x.w.actions)
            BY <1>1, <1>2, <1>6, <1>8, <2>4
        <3> QED BY <1>2, <1>3, <1>6, <2>1, <2>2, <2>4, <3>1 DEF ExecFits, y
    <2> QED BY <2>3, <2>4
<1> QED BY <1>7, <1>8

\* One attempt of an action.
LEMMA ActionFits ==
    ASSUME WfType, NEW r \in Runs, executeAction(r), exec[r] \in Executing, ExecFits(exec[r])
    PROVE  \E z \in Executing : /\ exec' = [exec EXCEPT ![r] = z] /\ ExecFits(z) /\ z.w = exec[r].w
                                /\ z.pc \in {"action", "finish"}
<1> DEFINE x == exec[r]
           a == x.w.actions[Len(x.log) + 1]
<1>1. x.pc = "action" /\ x \in Executing /\ ExecFits(x)
    BY DEF executeAction
<1>2. a \in WorkflowActions
    <2>1. x.w.actions \in Seq(WorkflowActions) /\ Len(x.log) \in Nat /\ Len(x.log) < Len(x.w.actions)
        BY <1>1 DEF Executing, WorkflowRow, ExecFits
    <2> QED BY <2>1
<1>3. PICK out \in runAction(a) :
        LET y == [x EXCEPT !.sent = IF out[1] > 0 THEN @ + 1 ELSE @]
        IN  exec' = [exec EXCEPT ![r] = IF out[2] \/ x.attempt = a.retries + 1 THEN afterAction(y, out[2])
                                        ELSE [y EXCEPT !.attempt = @ + 1]]
    BY DEF executeAction
<1> DEFINE y == [x EXCEPT !.sent = IF out[1] > 0 THEN @ + 1 ELSE @]
           goes == [y EXCEPT !.attempt = @ + 1]
<1>4. out[2] \in BOOLEAN
    BY <1>2, OutcomeType
<1> HIDE DEF x, a
<1>9. /\ x.sent \in Nat /\ x.attempt \in Nat /\ x.sent < x.attempt
      /\ Len(x.log) < Len(x.w.actions)
      /\ \A i \in 1..Len(x.log) : ~Fatal(x.w, x.log, i)
    BY <1>1 DEF ExecFits, Executing
<1>5. /\ y \in Executing /\ y.pc = "action" /\ y.w = x.w /\ y.log = x.log /\ y.attempt = x.attempt
      /\ y.sent \in {x.sent, x.sent + 1}
    BY <1>1 DEF Executing
<1> HIDE DEF y
<1>6. /\ goes \in Executing /\ goes.pc = "action" /\ goes.w = x.w /\ goes.log = x.log
      /\ goes.attempt = x.attempt + 1 /\ goes.sent \in {x.sent, x.sent + 1}
    BY <1>5, <1>9 DEF Executing
<1>7. ExecFits(goes)
    BY <1>6, <1>9 DEF ExecFits
<1>8. CASE out[2] \/ x.attempt = a.retries + 1
    \* The attempts spent are counted only for the action that has ended.
    <2>1. afterAction(y, out[2]) \in Executing /\ ExecFits(afterAction(y, out[2]))
          /\ afterAction(y, out[2]).w = x.w /\ afterAction(y, out[2]).pc \in {"action", "finish"}
        <3> DEFINE v == [y EXCEPT !.sent = x.sent]
        <3>1. v \in Executing /\ v.pc = "action" /\ ExecFits(v) /\ v.w = x.w
            BY <1>1, <1>5, <1>9 DEF ExecFits, Executing
        <3>2. afterAction(v, out[2]) = afterAction(y, out[2])
            BY <1>5, <3>1 DEF afterAction, Executing
        <3> HIDE DEF v
        <3>3. /\ afterAction(v, out[2]) \in Executing /\ ExecFits(afterAction(v, out[2]))
              /\ afterAction(v, out[2]).w = v.w /\ afterAction(v, out[2]).pc \in {"action", "finish"}
            BY <1>4, <3>1, AfterActionFits
        <3> QED BY <3>1, <3>2, <3>3
    <2> QED BY <1>3, <1>8, <2>1 DEF x, y
<1>10. CASE ~(out[2] \/ x.attempt = a.retries + 1)
    BY <1>3, <1>6, <1>7, <1>10 DEF x, y
<1> QED BY <1>8, <1>10

AtWork == {"start", "action", "finish"}

\* A step of an executor: what becomes of it and of its run.
LEMMA RunStep ==
    ASSUME WfType, ExecInv, NEW r \in Runs,
           startRun(r) \/ executeAction(r) \/ finishRun(r) \/ countRun(r)
    PROVE  /\ \E z \in Executing, q \in RunRow :
                /\ exec' = [exec EXCEPT ![r] = z] /\ runs' = [runs EXCEPT ![r] = q]
                /\ ExecFits(z) /\ z.w = exec[r].w /\ OutcomeFits(z.w, q) /\ q.byHand = runs[r].byHand
                /\ z.pc \in AtWork => q.status \in Active
                /\ q.status \in Active => runs[r].status \in Active
                /\ q.status \in Active /\ exec[r].pc \in AtWork /\ ~wfHist'.orphaned => z.pc \in AtWork
           /\ exec[r] \in Executing /\ runs[r] \in RunRow
           /\ UNCHANGED handlers /\ wfHist' \in {wfHist, [wfHist EXCEPT !.orphaned = TRUE]}
           /\ wf' \in {wf, UpdateCounters(exec[r].w)}
           /\ UNCHANGED wfUsed \/ wfUsed' = [wfUsed EXCEPT !.errors = @ + 1]
<1> DEFINE x == exec[r]
           z == exec'[r]
           p == runs[r]
           q == runs'[r]
           Effect ==
                /\ z \in Executing /\ q \in RunRow
                /\ exec' = [exec EXCEPT ![r] = z] /\ runs' = [runs EXCEPT ![r] = q]
                /\ ExecFits(z) /\ z.w = x.w /\ OutcomeFits(z.w, q) /\ q.byHand = p.byHand
                /\ z.pc \in AtWork => q.status \in Active
                /\ q.status \in Active => p.status \in Active
                /\ q.status \in Active /\ x.pc \in AtWork /\ ~wfHist'.orphaned => z.pc \in AtWork
<1>1. exec \in [Runs -> {Resting} \cup Executing] /\ runs \in [Runs -> {NoRun} \cup RunRow]
    BY DEF WfType
<1>2. x # Resting
    BY RestingPC DEF startRun, executeAction, finishRun, countRun
<1>3. /\ x \in Executing /\ p \in RunRow /\ ExecFits(x) /\ OutcomeFits(x.w, p)
      /\ x.pc \in AtWork => p.status \in Active
    BY <1>1, <1>2 DEF ExecInv, AtWork
<1>h. wfHist \in [overlap : BOOLEAN, orphaned : BOOLEAN]
    BY DEF WfType
<1>4. /\ UNCHANGED handlers /\ wfHist' \in {wfHist, [wfHist EXCEPT !.orphaned = TRUE]}
      /\ wf' \in {wf, UpdateCounters(exec[r].w)}
      /\ UNCHANGED wfUsed \/ wfUsed' = [wfUsed EXCEPT !.errors = @ + 1]
    BY DEF startRun, executeAction, finishRun, countRun, DBWorks, DBError, Spend
<1>5. CASE startRun(r)
    <2>1. /\ x.pc = "start"
          /\ exec' = [exec EXCEPT ![r].pc = IF x.w.actions = << >> THEN "finish" ELSE "action"]
          /\ runs' = [runs EXCEPT ![r].status = "running"] \/ runs' = runs
        BY <1>5 DEF startRun
    <2>2. /\ z.pc \in {"finish", "action"} /\ (z.pc = "finish" <=> x.w.actions = << >>)
          /\ z \in Executing /\ exec' = [exec EXCEPT ![r] = z]
          /\ z.w = x.w /\ z.log = x.log /\ z.attempt = x.attempt /\ z.sent = x.sent /\ z.failed = x.failed
        BY <1>1, <1>3, <2>1 DEF Executing
    <2>3. /\ q \in RunRow /\ runs' = [runs EXCEPT ![r] = q] /\ q.byHand = p.byHand
          /\ q.status \in {"running", p.status} /\ q.log = p.log
        BY <1>1, <1>3, <2>1 DEF RunRow
    <2> HIDE DEF x, z, p, q
    <2>4. p.status \in Active /\ q.status \in Active
        BY <1>3, <2>1, <2>3 DEF Active, AtWork
    <2>5. x.log = << >> /\ x.sent = 0 /\ x.attempt = 1 /\ ~x.failed /\ x.w.actions \in Seq(WorkflowActions)
        BY <1>3, <2>1 DEF ExecFits, Executing, WorkflowRow
    <2>6. /\ Len(z.log) = 0 /\ Len(z.w.actions) \in Nat
          /\ z.pc = "finish" => Len(z.w.actions) = 0
          /\ z.pc = "action" => Len(z.w.actions) > 0
        BY <2>2, <2>5
    <2>7. ExecFits(z)
        BY <2>2, <2>5, <2>6 DEF ExecFits
    <2>8. OutcomeFits(z.w, q)
        BY <2>4 DEF OutcomeFits, Active
    <2>9. z.pc \in AtWork
        BY <2>2 DEF AtWork
    <2>10. Effect
        BY <2>2, <2>3, <2>4, <2>7, <2>8, <2>9
    <2> QED BY <1>3, <1>4, <2>10 DEF x, z, p, q
<1>6. CASE executeAction(r)
    <2>1. x.pc = "action" /\ UNCHANGED runs
        BY <1>6 DEF executeAction
    <2>2. PICK y \in Executing : /\ exec' = [exec EXCEPT ![r] = y] /\ ExecFits(y) /\ y.w = x.w
                                 /\ y.pc \in {"action", "finish"}
        BY <1>3, <1>6, ActionFits
    <2>3. z = y /\ q = p /\ runs' = [runs EXCEPT ![r] = q] /\ exec' = [exec EXCEPT ![r] = z]
        BY <1>1, <2>1, <2>2
    <2> HIDE DEF x, z, p, q
    <2>4. z.pc \in AtWork /\ p.status \in Active
        BY <1>3, <2>1, <2>2, <2>3 DEF AtWork
    <2>5. Effect
        BY <1>3, <2>2, <2>3, <2>4
    <2> QED BY <1>3, <1>4, <2>5 DEF x, z, p, q
<1>7. CASE finishRun(r)
    <2>1. /\ x.pc = "finish" /\ exec' = [exec EXCEPT ![r].pc = "count"]
          /\ \/ runs' = [runs EXCEPT ![r].status = IF x.failed THEN "failed" ELSE "completed", ![r].log = x.log]
             \/ UNCHANGED runs /\ wfHist' = [wfHist EXCEPT !.orphaned = TRUE]
        BY <1>7 DEF finishRun
    <2>2. /\ z.pc = "count" /\ z \in Executing /\ exec' = [exec EXCEPT ![r] = z]
          /\ z.w = x.w /\ z.log = x.log /\ z.attempt = x.attempt /\ z.sent = x.sent /\ z.failed = x.failed
        BY <1>1, <1>3, <2>1 DEF Executing
    <2>3. ExecFits(z) /\ z.pc \notin AtWork
        BY <1>3, <2>2 DEF ExecFits, AtWork
    <2>4. p.status \in Active
        BY <1>3, <2>1 DEF AtWork
    <2>5. CASE runs' = [runs EXCEPT ![r].status = IF x.failed THEN "failed" ELSE "completed", ![r].log = x.log]
        <3>1. /\ runs' = [runs EXCEPT ![r] = q] /\ q.byHand = p.byHand
              /\ q.status = (IF x.failed THEN "failed" ELSE "completed") /\ q.log = x.log
            BY <1>1, <1>3, <2>5 DEF RunRow
        <3>2. x.log \in Seq(BOOLEAN) /\ x.failed \in BOOLEAN
            BY <1>3 DEF Executing
        <3>3. q \in RunRow
            <4>1. q = [p EXCEPT !.status = IF x.failed THEN "failed" ELSE "completed", !.log = x.log]
                BY <1>1, <2>5
            <4> QED BY <1>3, <3>2, <4>1 DEF RunRow
        <3> HIDE DEF x, z, p, q
        <3>4. OutcomeFits(z.w, q)
            BY <1>3, <2>1, <2>2, <3>1 DEF ExecFits, OutcomeFits
        <3>5. q.status \notin Active
            BY <3>1 DEF Active
        <3>6. Effect
            BY <2>2, <2>3, <2>4, <3>1, <3>3, <3>4, <3>5
        <3> QED BY <1>3, <1>4, <3>6 DEF x, z, p, q
    <2>6. CASE UNCHANGED runs /\ wfHist' = [wfHist EXCEPT !.orphaned = TRUE]
        <3>1. q = p /\ runs' = [runs EXCEPT ![r] = q] /\ wfHist'.orphaned
            BY <1>1, <1>h, <2>6
        <3> HIDE DEF x, z, p, q
        <3>2. Effect
            BY <1>3, <2>2, <2>3, <2>4, <3>1
        <3> QED BY <1>3, <1>4, <3>2 DEF x, z, p, q
    <2> QED BY <2>1, <2>5, <2>6
<1>8. CASE countRun(r)
    <2>1. x.pc = "count" /\ exec' = [exec EXCEPT ![r].pc = "done"] /\ UNCHANGED runs
        BY <1>8 DEF countRun
    <2>2. /\ z.pc = "done" /\ z \in Executing /\ exec' = [exec EXCEPT ![r] = z]
          /\ z.w = x.w /\ z.log = x.log /\ z.attempt = x.attempt /\ z.sent = x.sent /\ z.failed = x.failed
          /\ q = p /\ runs' = [runs EXCEPT ![r] = q]
        BY <1>1, <1>3, <2>1 DEF Executing
    <2> HIDE DEF x, z, p, q
    <2>3. ExecFits(z) /\ z.pc \notin AtWork /\ x.pc \notin AtWork
        BY <1>3, <2>1, <2>2 DEF ExecFits, AtWork
    <2>4. Effect
        BY <1>3, <2>2, <2>3
    <2> QED BY <1>3, <1>4, <2>4 DEF x, z, p, q
<1> QED BY <1>5, <1>6, <1>7, <1>8

\* A run that begins: its row is pending and its executor at the start.
LEMMA RunBegins ==
    ASSUME WfType, NEW r \in Runs, NEW copy \in WorkflowRow, NEW byHand \in BOOLEAN, runs[r] = NoRun,
           runs' = [runs EXCEPT ![r] = NewRun(byHand)], exec' = [exec EXCEPT ![r] = NewExec(copy)]
    PROVE  /\ runs'[r] \in RunRow /\ runs'[r].status = "pending" /\ runs'[r].byHand = byHand
           /\ exec'[r] \in Executing /\ exec'[r].pc = "start" /\ exec'[r].w = copy /\ ExecFits(exec'[r])
           /\ runs' \in [Runs -> {NoRun} \cup RunRow] /\ exec' \in [Runs -> {Resting} \cup Executing]
           /\ \A s \in Runs \ {r} : runs'[s] = runs[s] /\ exec'[s] = exec[s]
<1>1. NewRun(byHand) \in RunRow /\ NewRun(byHand).status = "pending" /\ NewRun(byHand).byHand = byHand
    BY DEF NewRun, RunRow
<1>2. /\ NewExec(copy) \in Executing /\ NewExec(copy).pc = "start" /\ NewExec(copy).w = copy
      /\ ExecFits(NewExec(copy))
    BY DEF NewExec, Executing, ExecFits
<1> QED BY <1>1, <1>2 DEF WfType

\* An executor that a restart ends.
LEMMA Ended ==
    ASSUME NEW x \in Executing, ExecFits(x)
    PROVE  LET y == [x EXCEPT !.pc = "done"] IN y \in Executing /\ ExecFits(y) /\ y.w = x.w /\ y.pc = "done"
BY DEF Executing, ExecFits

LEMMA WfTypeNext == WfType /\ ExecInv /\ [WfNext]_wfVars => WfType'
<1> SUFFICES ASSUME WfType, ExecInv, [WfNext]_wfVars PROVE WfType'
    OBVIOUS
<1>t. /\ wf \in WorkflowRow \cup {NoWorkflow}
      /\ handlers \in [Handlers -> {Resting} \cup Handling]
      /\ runs \in [Runs -> {NoRun} \cup RunRow]
      /\ exec \in [Runs -> {Resting} \cup Executing]
      /\ wfHist \in [overlap : BOOLEAN, orphaned : BOOLEAN]
      /\ wfUsed \in [events : Nat, requests : Nat, errors : Nat, restarts : Nat]
    BY DEF WfType
<1>1. ASSUME NEW trigger \in Triggers, NEW enabled \in BOOLEAN, NEW cont \in BOOLEAN, NEW max \in MaxConcurrent,
             NEW actions \in ActionLists, CreateWorkflow(trigger, enabled, max, cont, actions)
      PROVE  WfType'
    <2>1. max \in Nat /\ actions \in Seq(WorkflowActions)
        BY WorkflowAssumption
    <2>2. wf' \in WorkflowRow
        BY <1>1, <2>1 DEF CreateWorkflow, WorkflowRow
    <2>3. wfUsed' \in [events : Nat, requests : Nat, errors : Nat, restarts : Nat]
        BY <1>1, <1>t DEF CreateWorkflow, Request, Spend
    <2> QED BY <1>1, <1>t, <2>2, <2>3 DEF CreateWorkflow, WfType
<1>2. ASSUME EnableWorkflow \/ DisableWorkflow \/ DeleteWorkflow
             \/ \E max \in MaxConcurrent, actions \in ActionLists : UpdateWorkflow(max, actions)
      PROVE  WfType'
    <2>1. wfUsed' \in [events : Nat, requests : Nat, errors : Nat, restarts : Nat]
        <3>1. Request
            BY <1>2 DEF EnableWorkflow, DisableWorkflow, DeleteWorkflow, UpdateWorkflow
        <3> QED BY <1>t, <3>1 DEF Request, Spend
    <2>2. UNCHANGED <<handlers, runs, exec>> /\ wfHist' \in {wfHist, [wfHist EXCEPT !.overlap = TRUE]}
        BY <1>2 DEF EnableWorkflow, DisableWorkflow, DeleteWorkflow, UpdateWorkflow
    <2>3. wf' \in WorkflowRow \cup {NoWorkflow}
        <3>1. CASE EnableWorkflow \/ DisableWorkflow
            <4>1. wf \in WorkflowRow
                BY <1>t, <3>1 DEF EnableWorkflow, DisableWorkflow, HasWorkflow
            <4>2. PICK b \in BOOLEAN, st \in {"active", "paused"} :
                      wf' = [[wf EXCEPT !.enabled = b] EXCEPT !.status = st]
                BY <3>1 DEF EnableWorkflow, DisableWorkflow
            <4>3. [wf EXCEPT !.enabled = b] \in WorkflowRow
                BY <4>1 DEF WorkflowRow
            <4>4. \A z \in WorkflowRow : [z EXCEPT !.status = st] \in WorkflowRow
                BY DEF WorkflowRow
            <4> QED BY <4>2, <4>3, <4>4
        <3>2. CASE DeleteWorkflow
            BY <3>2 DEF DeleteWorkflow
        <3>3. ASSUME NEW max \in MaxConcurrent, NEW actions \in ActionLists, UpdateWorkflow(max, actions)
              PROVE  wf' \in WorkflowRow
            <4>1. max \in Nat /\ actions \in Seq(WorkflowActions)
                BY WorkflowAssumption
            <4>2. wf \in WorkflowRow /\ wf.actions \in Seq(WorkflowActions)
                BY <1>t, <3>3 DEF UpdateWorkflow, HasWorkflow, WorkflowRow
            <4>3. wf.actions \o actions \in Seq(WorkflowActions)
                BY <4>1, <4>2
            <4>4. wf' = [wf EXCEPT !.max = max, !.actions = wf.actions \o actions]
                BY <3>3 DEF UpdateWorkflow
            <4> QED BY <4>1, <4>2, <4>3, <4>4 DEF WorkflowRow
        <3> QED BY <1>2, <3>1, <3>2, <3>3
    <2> QED BY <1>t, <2>1, <2>2, <2>3 DEF WfType
<1>3. ASSUME NEW h \in Handlers,
             (\E ev \in Events : handleEvent(h, ev)) \/ checkConditions(h) \/ countActive(h)
      PROVE  WfType'
    <2>1. UNCHANGED <<wf, runs, exec>> /\ wfHist' \in [overlap : BOOLEAN, orphaned : BOOLEAN]
        BY <1>3, <1>t DEF handleEvent, checkConditions, countActive
    <2>2. wfUsed' \in [events : Nat, requests : Nat, errors : Nat, restarts : Nat]
        BY <1>3, <1>t DEF handleEvent, checkConditions, countActive, DBWorks, DBError, Spend
    <2>3. CASE \E ev \in Events : handleEvent(h, ev)
        <3>1. wf \in WorkflowRow /\ handlers' = [handlers EXCEPT ![h] = [pc |-> "count", copy |-> wf]]
            BY <1>t, <2>3 DEF handleEvent, ListByTrigger, HasWorkflow
        <3>2. handlers' \in [Handlers -> {Resting} \cup Handling]
            BY <1>t, <3>1 DEF Handling
        <3> QED BY <1>t, <2>1, <2>2, <3>2 DEF WfType
    <2>4. CASE checkConditions(h)
        BY <1>t, <2>1, <2>2, <2>4 DEF checkConditions, WfType
    <2>5. CASE countActive(h)
        <3>1. handlers[h] \in Handling
            BY <1>t, <2>5, RestingPC DEF countActive
        <3>2. [handlers[h] EXCEPT !.pc = "create"] \in Handling
            BY <3>1 DEF Handling
        <3>3. \/ handlers' = [handlers EXCEPT ![h] = Resting]
              \/ handlers' = [handlers EXCEPT ![h] = [handlers[h] EXCEPT !.pc = "create"]]
            BY <2>5 DEF countActive
        <3>4. handlers' \in [Handlers -> {Resting} \cup Handling]
            BY <1>t, <3>2, <3>3
        <3> QED BY <1>t, <2>1, <2>2, <3>4 DEF WfType
    <2> QED BY <1>3, <2>3, <2>4, <2>5
<1>4. ASSUME NEW h \in Handlers, NEW r \in Runs, createRun(h, r) PROVE WfType'
    <2>1. handlers[h] \in Handling /\ handlers[h].copy \in WorkflowRow
        BY <1>t, <1>4, RestingPC DEF createRun, Handling
    <2>2. handlers' \in [Handlers -> {Resting} \cup Handling] /\ UNCHANGED <<wf, wfHist>>
        BY <1>t, <1>4 DEF createRun
    <2>3. wfUsed' \in [events : Nat, requests : Nat, errors : Nat, restarts : Nat]
        <3>1. DBWorks \/ DBError
            BY <1>4 DEF createRun
        <3> QED BY <1>t, <3>1 DEF DBWorks, DBError, Spend
    <2>4. runs' \in [Runs -> {NoRun} \cup RunRow] /\ exec' \in [Runs -> {Resting} \cup Executing]
        <3>1. CASE UNCHANGED <<runs, exec>>
            BY <1>t, <3>1
        <3>2. CASE ~UNCHANGED <<runs, exec>>
            BY <1>4, <2>1, <3>2, RunBegins DEF createRun
        <3> QED BY <3>1, <3>2
    <2> QED BY <1>t, <2>2, <2>3, <2>4 DEF WfType
<1>5. ASSUME NEW r \in Runs, TriggerManual(r) PROVE WfType'
    <2>1. wf \in WorkflowRow /\ UNCHANGED <<wf, handlers, wfHist>>
        BY <1>t, <1>5 DEF TriggerManual, HasWorkflow
    <2>2. runs' \in [Runs -> {NoRun} \cup RunRow] /\ exec' \in [Runs -> {Resting} \cup Executing]
        BY <1>5, <2>1, RunBegins DEF TriggerManual
    <2>3. wfUsed' \in [events : Nat, requests : Nat, errors : Nat, restarts : Nat]
        BY <1>t, <1>5 DEF TriggerManual, Request, Spend
    <2> QED BY <1>t, <2>1, <2>2, <2>3 DEF WfType
<1>6. ASSUME NEW r \in Runs, startRun(r) \/ executeAction(r) \/ finishRun(r) \/ countRun(r) PROVE WfType'
    <2>1. PICK z \in Executing, q \in RunRow : exec' = [exec EXCEPT ![r] = z] /\ runs' = [runs EXCEPT ![r] = q]
        BY <1>6, RunStep
    <2>2. /\ exec[r] \in Executing /\ UNCHANGED handlers /\ wfHist' \in {wfHist, [wfHist EXCEPT !.orphaned = TRUE]}
          /\ wf' \in {wf, UpdateCounters(exec[r].w)}
          /\ UNCHANGED wfUsed \/ wfUsed' = [wfUsed EXCEPT !.errors = @ + 1]
        BY <1>6, RunStep
    <2>3. runs' \in [Runs -> {NoRun} \cup RunRow] /\ exec' \in [Runs -> {Resting} \cup Executing]
        BY <1>t, <2>1
    <2>4. wfUsed' \in [events : Nat, requests : Nat, errors : Nat, restarts : Nat]
        BY <1>t, <2>2
    <2>5. UpdateCounters(exec[r].w) \in WorkflowRow \cup {NoWorkflow}
        <3>1. exec[r].w.count + 1 \in Nat
            BY <2>2 DEF Executing, WorkflowRow
        <3>2. ASSUME wf \in WorkflowRow, NEW n \in Nat PROVE [wf EXCEPT !.count = n] \in WorkflowRow
            BY <3>2 DEF WorkflowRow
        <3> QED BY <1>t, <3>1, <3>2 DEF UpdateCounters, HasWorkflow
    <2>6. wfHist' \in [overlap : BOOLEAN, orphaned : BOOLEAN]
        BY <1>t, <2>2
    <2> QED BY <1>t, <2>2, <2>3, <2>4, <2>5, <2>6 DEF WfType
<1>7. CASE RestartWorkflows
    <2>1. UNCHANGED <<wf, runs>> /\ handlers' \in [Handlers -> {Resting} \cup Handling]
        BY <1>7 DEF RestartWorkflows
    <2>2. exec' \in [Runs -> {Resting} \cup Executing]
        <3>1. \A r \in Runs : exec[r] # Resting => [exec[r] EXCEPT !.pc = "done"] \in Executing
            BY <1>t, Ended DEF ExecInv
        <3> QED BY <1>7, <3>1 DEF RestartWorkflows
    <2>3. wfUsed' \in [events : Nat, requests : Nat, errors : Nat, restarts : Nat]
        BY <1>t, <1>7 DEF RestartWorkflows, Spend
    <2>4. wfHist' \in [overlap : BOOLEAN, orphaned : BOOLEAN]
        BY <1>t, <1>7 DEF RestartWorkflows
    <2> QED BY <1>t, <2>1, <2>2, <2>3, <2>4 DEF WfType
<1>8. CASE UNCHANGED wfVars
    BY <1>8 DEF wfVars, WfType
<1> QED
    BY <1>1, <1>2, <1>3, <1>4, <1>5, <1>6, <1>7, <1>8 DEF WfNext

\* The steps that touch neither a run nor its executor.
Elsewhere ==
    \/ \E trigger \in Triggers, enabled, cont \in BOOLEAN, max \in MaxConcurrent, actions \in ActionLists :
          CreateWorkflow(trigger, enabled, max, cont, actions)
    \/ EnableWorkflow \/ DisableWorkflow \/ DeleteWorkflow
    \/ \E max \in MaxConcurrent, actions \in ActionLists : UpdateWorkflow(max, actions)
    \/ \E h \in Handlers, ev \in Events : handleEvent(h, ev)
    \/ \E h \in Handlers : checkConditions(h) \/ countActive(h)
    \/ UNCHANGED wfVars

LEMMA ElsewhereQuiet == WfType /\ Elsewhere =>
    /\ UNCHANGED <<runs, exec>> /\ wfHist'.orphaned = wfHist.orphaned
    /\ Created' = Created /\ ActiveRuns' = ActiveRuns /\ EventRuns' = EventRuns
<1> SUFFICES ASSUME WfType, Elsewhere
             PROVE  /\ UNCHANGED <<runs, exec>> /\ wfHist'.orphaned = wfHist.orphaned
                    /\ Created' = Created /\ ActiveRuns' = ActiveRuns /\ EventRuns' = EventRuns
    OBVIOUS
<1>1. wfHist \in [overlap : BOOLEAN, orphaned : BOOLEAN]
    BY DEF WfType
<1>2. UNCHANGED <<runs, exec>> /\ wfHist'.orphaned = wfHist.orphaned
    BY <1>1 DEF Elsewhere, CreateWorkflow, EnableWorkflow, DisableWorkflow, DeleteWorkflow, UpdateWorkflow,
                handleEvent, checkConditions, countActive, wfVars
<1> QED BY <1>2 DEF Created, ActiveRuns, EventRuns

LEMMA ExecInit == WfInit => ExecInv /\ StockInv /\ LimitInv /\ RunningIsAlive
<1> SUFFICES ASSUME WfInit PROVE ExecInv /\ StockInv /\ LimitInv /\ RunningIsAlive
    OBVIOUS
<1>1. (\A r \in Runs : runs[r] = NoRun /\ exec[r] = Resting) /\ wf = NoWorkflow /\ \A h \in Handlers : handlers[h] = Resting
    BY DEF WfInit
<1>2. Created = {} /\ ActiveRuns = {} /\ ~HasWorkflow
    BY <1>1 DEF Created, ActiveRuns, HasWorkflow
<1>3. ExecInv
    BY <1>1, RestingPC DEF ExecInv
<1> QED BY <1>1, <1>2, <1>3, FS_EmptySet DEF StockInv, LimitInv, RunningIsAlive

LEMMA ExecNext == WfType /\ ExecInv /\ [WfNext]_wfVars => ExecInv'
<1> SUFFICES ASSUME WfType, ExecInv, [WfNext]_wfVars PROVE ExecInv'
    OBVIOUS
<1>t. runs \in [Runs -> {NoRun} \cup RunRow] /\ exec \in [Runs -> {Resting} \cup Executing]
    BY DEF WfType
<1>1. CASE UNCHANGED <<runs, exec>>
    BY <1>1 DEF ExecInv
<1>2. ASSUME NEW r \in Runs, NEW copy \in WorkflowRow, NEW byHand \in BOOLEAN, runs[r] = NoRun,
             runs' = [runs EXCEPT ![r] = NewRun(byHand)], exec' = [exec EXCEPT ![r] = NewExec(copy)]
      PROVE  ExecInv'
    <2>1. /\ runs'[r] \in RunRow /\ runs'[r].status = "pending"
          /\ exec'[r] \in Executing /\ exec'[r].pc = "start" /\ ExecFits(exec'[r])
          /\ \A s \in Runs \ {r} : runs'[s] = runs[s] /\ exec'[s] = exec[s]
        BY <1>2, RunBegins
    <2>2. runs'[r] # NoRun /\ exec'[r] # Resting
        BY <2>1, NoRunNoRow, RestingPC
    <2>3. OutcomeFits(exec'[r].w, runs'[r]) /\ runs'[r].status \in Active
        BY <2>1 DEF OutcomeFits, Active
    <2> QED BY <2>1, <2>2, <2>3 DEF ExecInv
<1>3. ASSUME NEW r \in Runs, startRun(r) \/ executeAction(r) \/ finishRun(r) \/ countRun(r) PROVE ExecInv'
    <2>1. PICK z \in Executing, q \in RunRow :
            /\ exec' = [exec EXCEPT ![r] = z] /\ runs' = [runs EXCEPT ![r] = q]
            /\ ExecFits(z) /\ z.w = exec[r].w /\ OutcomeFits(z.w, q)
            /\ z.pc \in AtWork => q.status \in Active
        BY <1>3, RunStep
    <2>2. exec'[r] = z /\ runs'[r] = q /\ \A s \in Runs \ {r} : runs'[s] = runs[s] /\ exec'[s] = exec[s]
        BY <1>t, <2>1
    <2>3. z # Resting /\ q # NoRun
        BY NoRunNoRow, RestingPC
    <2> QED BY <2>1, <2>2, <2>3 DEF ExecInv, AtWork
<1>4. CASE RestartWorkflows
    <2>1. /\ UNCHANGED runs
          /\ \A r \in Runs : exec'[r] = IF exec[r] = Resting THEN Resting ELSE [exec[r] EXCEPT !.pc = "done"]
        BY <1>4 DEF RestartWorkflows
    <2>2. ASSUME NEW r \in Runs, exec[r] # Resting
          PROVE  exec'[r] \in Executing /\ ExecFits(exec'[r]) /\ exec'[r].w = exec[r].w /\ exec'[r].pc = "done"
        <3>1. exec[r] \in Executing /\ ExecFits(exec[r])
            BY <1>t, <2>2 DEF ExecInv
        <3> QED BY <2>1, <2>2, <3>1, Ended
    <2>3. \A r \in Runs : exec[r] = Resting => exec'[r] = Resting
        BY <2>1
    <2> QED BY <2>1, <2>2, <2>3, RestingPC DEF ExecInv
<1>5. ASSUME NEW h \in Handlers, NEW r \in Runs, createRun(h, r) PROVE ExecInv'
    <2>1. handlers[h].copy \in WorkflowRow
        BY <1>5, RestingPC DEF createRun, WfType, Handling
    <2> QED BY <1>1, <1>2, <1>5, <2>1 DEF createRun
<1>6. ASSUME NEW r \in Runs, TriggerManual(r) PROVE ExecInv'
    <2>1. wf \in WorkflowRow
        BY <1>6 DEF TriggerManual, HasWorkflow, WfType
    <2> QED BY <1>2, <1>6, <2>1 DEF TriggerManual
<1>7. CASE Elsewhere
    BY <1>1, <1>7, ElsewhereQuiet
<1> QED
    BY <1>3, <1>4, <1>5, <1>6, <1>7 DEF WfNext, Elsewhere

\* What a new run adds to the sets that are counted.
LEMMA CountsBegin ==
    ASSUME WfType, NEW r \in Runs, NEW copy \in WorkflowRow, NEW byHand \in BOOLEAN, runs[r] = NoRun,
           runs' = [runs EXCEPT ![r] = NewRun(byHand)], exec' = [exec EXCEPT ![r] = NewExec(copy)]
    PROVE  /\ Created' = Created \cup {r} /\ r \notin Created /\ r \notin EventRuns
           /\ EventRuns' = IF byHand THEN EventRuns ELSE EventRuns \cup {r}
           /\ ActiveRuns' = ActiveRuns \cup {r}
<1>1. /\ runs'[r] \in RunRow /\ runs'[r].status = "pending" /\ runs'[r].byHand = byHand
      /\ \A s \in Runs \ {r} : runs'[s] = runs[s]
    BY RunBegins
<1>2. runs'[r] # NoRun /\ runs'[r].status \in Active
    BY <1>1, NoRunNoRow DEF Active
<1> QED BY <1>1, <1>2 DEF Created, ActiveRuns, EventRuns

\* A step of an executor makes no run active and turns no run into one started by an event.
LEMMA CountsStep ==
    ASSUME WfType, ExecInv, NEW r \in Runs,
           startRun(r) \/ executeAction(r) \/ finishRun(r) \/ countRun(r)
    PROVE  Created' = Created /\ EventRuns' \subseteq EventRuns /\ ActiveRuns' \subseteq ActiveRuns
<1>1. PICK q \in RunRow : /\ runs' = [runs EXCEPT ![r] = q] /\ q.byHand = runs[r].byHand
                          /\ q.status \in Active => runs[r].status \in Active
    BY RunStep
<1>2. runs[r] \in RunRow /\ runs[r] # NoRun /\ q # NoRun
    BY RunStep, NoRunNoRow
<1>3. runs'[r] = q /\ \A s \in Runs \ {r} : runs'[s] = runs[s]
    BY <1>1 DEF WfType
<1> QED BY <1>1, <1>2, <1>3 DEF Created, ActiveRuns, EventRuns

LEMMA AliveNext == WfType /\ ExecInv /\ RunningIsAlive /\ [WfNext]_wfVars => RunningIsAlive'
<1> SUFFICES ASSUME WfType, ExecInv, RunningIsAlive, [WfNext]_wfVars, ~wfHist'.orphaned PROVE RunningIsAlive'
    BY DEF RunningIsAlive
<1>t. /\ runs \in [Runs -> {NoRun} \cup RunRow] /\ exec \in [Runs -> {Resting} \cup Executing]
      /\ wfHist \in [overlap : BOOLEAN, orphaned : BOOLEAN]
    BY DEF WfType
<1>1. CASE Elsewhere
    BY <1>1, ElsewhereQuiet DEF RunningIsAlive
<1>2. ASSUME NEW r \in Runs, NEW copy \in WorkflowRow, NEW byHand \in BOOLEAN, runs[r] = NoRun,
             runs' = [runs EXCEPT ![r] = NewRun(byHand)], exec' = [exec EXCEPT ![r] = NewExec(copy)],
             UNCHANGED wfHist
      PROVE  RunningIsAlive'
    <2>1. exec'[r].pc = "start" /\ \A s \in Runs \ {r} : exec'[s] = exec[s]
        BY <1>2, RunBegins
    <2>2. ActiveRuns' = ActiveRuns \cup {r}
        BY <1>2, CountsBegin
    <2> QED BY <1>2, <2>1, <2>2 DEF RunningIsAlive, ActiveRuns
<1>3. ASSUME NEW r \in Runs, startRun(r) \/ executeAction(r) \/ finishRun(r) \/ countRun(r) PROVE RunningIsAlive'
    <2>1. PICK z \in Executing, q \in RunRow :
            /\ exec' = [exec EXCEPT ![r] = z] /\ runs' = [runs EXCEPT ![r] = q]
            /\ q.status \in Active => runs[r].status \in Active
            /\ q.status \in Active /\ exec[r].pc \in AtWork /\ ~wfHist'.orphaned => z.pc \in AtWork
        BY <1>3, RunStep
    <2>2. /\ runs[r] # NoRun /\ ~wfHist.orphaned
          /\ exec'[r] = z /\ runs'[r] = q /\ \A s \in Runs \ {r} : runs'[s] = runs[s] /\ exec'[s] = exec[s]
        BY <1>3, <1>t, <2>1, RunStep, NoRunNoRow
    <2> QED BY <2>1, <2>2 DEF RunningIsAlive, ActiveRuns, AtWork
<1>4. CASE RestartWorkflows
    <2>1. wfHist' = [wfHist EXCEPT !.orphaned = @ \/ ActiveRuns # {}] /\ UNCHANGED runs
        BY <1>4 DEF RestartWorkflows
    <2>2. ActiveRuns' = {}
        BY <1>t, <2>1 DEF ActiveRuns
    <2> QED BY <2>2 DEF RunningIsAlive
<1>5. ASSUME NEW h \in Handlers, NEW r \in Runs, createRun(h, r) PROVE RunningIsAlive'
    <2>1. handlers[h].copy \in WorkflowRow
        BY <1>5, RestingPC DEF createRun, WfType, Handling
    <2>2. CASE UNCHANGED <<runs, exec, wfHist>>
        BY <2>2 DEF RunningIsAlive, ActiveRuns
    <2> QED BY <1>2, <1>5, <2>1, <2>2 DEF createRun
<1>6. ASSUME NEW r \in Runs, TriggerManual(r) PROVE RunningIsAlive'
    <2>1. wf \in WorkflowRow
        BY <1>6 DEF TriggerManual, HasWorkflow, WfType
    <2> QED BY <1>2, <1>6, <2>1 DEF TriggerManual
<1> QED
    BY <1>1, <1>3, <1>4, <1>5, <1>6 DEF WfNext, Elsewhere

LEMMA StockNext == WfType /\ ExecInv /\ StockInv /\ [WfNext]_wfVars => StockInv'
<1> SUFFICES ASSUME WfType, ExecInv, StockInv, [WfNext]_wfVars PROVE StockInv'
    OBVIOUS
<1>t. /\ wfUsed \in [events : Nat, requests : Nat, errors : Nat, restarts : Nat]
      /\ handlers \in [Handlers -> {Resting} \cup Handling]
    BY DEF WfType
<1>1. ASSUME Request, Created' = Created PROVE StockInv'
    <2>1. wfUsed'.requests = wfUsed.requests + 1
        BY <1>1, <1>t DEF Request, Spend
    <2> QED BY <1>1, <1>t, <2>1 DEF StockInv
<1>2. CASE \/ \E trigger \in Triggers, enabled, cont \in BOOLEAN, max \in MaxConcurrent, actions \in ActionLists :
                CreateWorkflow(trigger, enabled, max, cont, actions)
           \/ EnableWorkflow \/ DisableWorkflow \/ DeleteWorkflow
           \/ \E max \in MaxConcurrent, actions \in ActionLists : UpdateWorkflow(max, actions)
    <2>1. Request /\ Elsewhere
        BY <1>2 DEF CreateWorkflow, EnableWorkflow, DisableWorkflow, DeleteWorkflow, UpdateWorkflow, Elsewhere
    <2> QED BY <1>1, <2>1, ElsewhereQuiet
<1>3. ASSUME NEW h \in Handlers, (\E ev \in Events : handleEvent(h, ev)) \/ checkConditions(h) \/ countActive(h)
      PROVE  StockInv'
    <2>1. Elsewhere
        BY <1>3 DEF Elsewhere
    <2>2. Created' = Created
        BY <2>1, ElsewhereQuiet
    <2>3. wfUsed'.requests = wfUsed.requests
        BY <1>3, <1>t DEF handleEvent, checkConditions, countActive, DBWorks, DBError, Spend
    <2>4. wfUsed.requests # 0
        <3>1. (wf # NoWorkflow) \/ (handlers[h] # Resting)
            BY <1>3, RestingPC DEF handleEvent, ListByTrigger, HasWorkflow, checkConditions, countActive
        <3> QED BY <3>1 DEF StockInv
    <2> QED BY <2>2, <2>3, <2>4 DEF StockInv
<1>4. ASSUME NEW h \in Handlers, NEW r \in Runs, createRun(h, r) PROVE StockInv'
    <2>1. handlers[h] # Resting /\ handlers[h].copy \in WorkflowRow
        BY <1>4, <1>t, RestingPC DEF createRun, Handling
    <2>2. wfUsed'.requests = wfUsed.requests /\ wfUsed.requests # 0
        <3>1. DBWorks \/ DBError
            BY <1>4 DEF createRun
        <3>2. wfUsed'.requests = wfUsed.requests
            BY <1>t, <3>1 DEF DBWorks, DBError, Spend
        <3> QED BY <2>1, <3>2 DEF StockInv
    <2>3. Created' = Created \/ Created' = Created \cup {r}
        <3>1. CASE UNCHANGED runs
            BY <3>1 DEF Created
        <3> QED BY <1>4, <2>1, <3>1, CountsBegin DEF createRun
    <2> QED BY <2>2, <2>3, FS_AddElement DEF StockInv
<1>5. ASSUME NEW r \in Runs, TriggerManual(r) PROVE StockInv'
    <2>1. wf \in WorkflowRow /\ Request
        BY <1>5 DEF TriggerManual, HasWorkflow, WfType
    <2>2. Created' = Created \cup {r}
        BY <1>5, <2>1, CountsBegin DEF TriggerManual
    <2>3. wfUsed'.requests = wfUsed.requests + 1
        BY <1>t, <2>1 DEF Request, Spend
    <2>4. IsFiniteSet(Created')
        BY <2>2, FS_AddElement DEF StockInv
    <2> QED BY <1>t, <2>3, <2>4 DEF StockInv
<1>6. ASSUME NEW r \in Runs, startRun(r) \/ executeAction(r) \/ finishRun(r) \/ countRun(r) PROVE StockInv'
    <2>1. Created' = Created
        BY <1>6, CountsStep
    <2>2. runs[r] # NoRun /\ (UNCHANGED wfUsed \/ wfUsed' = [wfUsed EXCEPT !.errors = @ + 1])
        BY <1>6, RunStep, NoRunNoRow
    <2>3. wfUsed'.requests = wfUsed.requests /\ wfUsed.requests # 0
        BY <1>t, <2>2 DEF StockInv, Created
    <2> QED BY <2>1, <2>3 DEF StockInv
<1>7. CASE RestartWorkflows
    <2>1. /\ UNCHANGED <<wf, runs>> /\ wfUsed'.requests = wfUsed.requests
          /\ \A h \in Handlers : handlers'[h] = Resting
        BY <1>7, <1>t DEF RestartWorkflows, Spend
    <2> QED BY <2>1 DEF StockInv, Created
<1>8. CASE UNCHANGED wfVars
    BY <1>8 DEF wfVars, StockInv, Created
<1> QED
    BY <1>2, <1>3, <1>4, <1>5, <1>6, <1>7, <1>8 DEF WfNext

LEMMA EventRunsFinite ==
    ASSUME StockInv
    PROVE  /\ IsFiniteSet(EventRuns) /\ IsFiniteSet(ActiveRuns)
           /\ Cardinality(EventRuns) \in Nat /\ CountActive \in Nat /\ Cardinality(EventRuns) <= CountActive
<1>1. EventRuns \subseteq ActiveRuns /\ ActiveRuns \subseteq Created /\ IsFiniteSet(Created)
    BY DEF EventRuns, ActiveRuns, Created, StockInv
<1>2. IsFiniteSet(ActiveRuns)
    BY <1>1, FS_Subset
<1>3. IsFiniteSet(EventRuns) /\ Cardinality(EventRuns) <= Cardinality(ActiveRuns)
    BY <1>1, <1>2, FS_Subset
<1> QED BY <1>2, <1>3, FS_CardinalityType DEF CountActive

LEMMA LimitNext == WfType /\ WfType' /\ ExecInv /\ StockInv /\ LimitInv /\ [WfNext]_wfVars => LimitInv'
<1> SUFFICES ASSUME WfType, WfType', ExecInv, StockInv, LimitInv, [WfNext]_wfVars, ~wfHist'.overlap, HasWorkflow'
             PROVE  LimitInv'
    BY DEF LimitInv
<1>t. /\ wf \in WorkflowRow \cup {NoWorkflow}
      /\ handlers \in [Handlers -> {Resting} \cup Handling]
      /\ wfHist \in [overlap : BOOLEAN, orphaned : BOOLEAN]
    BY DEF WfType
<1>c. Cardinality(EventRuns) \in Nat
    BY EventRunsFinite
<1>r. \A h \in Handlers : handlers[h].pc = "create" => handlers[h] # Resting
    BY RestingPC
\* A step that leaves the handlers and the limit alone and adds no run of an event.
<1>1. ASSUME UNCHANGED handlers, wfHist'.overlap = wfHist.overlap, HasWorkflow, wf'.max = wf.max,
             EventRuns' \subseteq EventRuns
      PROVE  LimitInv'
    <2>1. Cardinality(EventRuns') <= Cardinality(EventRuns) /\ Cardinality(EventRuns') \in Nat
        BY <1>1, EventRunsFinite, FS_Subset, FS_CardinalityType
    <2>2. wf.max \in Nat
        BY <1>t, <1>1 DEF HasWorkflow, WorkflowRow
    <2> QED BY <1>1, <1>c, <2>1, <2>2 DEF LimitInv
\* A step that only ends handlers.
<1>2. ASSUME wfHist'.overlap = wfHist.overlap, HasWorkflow, wf'.max = wf.max, EventRuns' = EventRuns,
             \A h \in Handlers : handlers'[h] \in {handlers[h], Resting}
      PROVE  LimitInv'
    <2>1. \A h \in Handlers : handlers'[h] # Resting => handlers'[h] = handlers[h]
        BY <1>2
    <2>2. \A h \in Handlers : handlers'[h].pc = "create" => handlers'[h] = handlers[h]
        BY <1>2, RestingPC
    <2> QED BY <1>2, <2>1, <2>2 DEF LimitInv
<1>3. ASSUME NEW trigger, NEW enabled, NEW cont, NEW max \in MaxConcurrent, NEW actions,
             CreateWorkflow(trigger, enabled, max, cont, actions)
      PROVE  LimitInv'
    <2>1. Created = {} /\ UNCHANGED <<handlers, runs>> /\ \A h \in Handlers : handlers[h] = Resting
        BY <1>3 DEF CreateWorkflow, StockInv
    <2>2. EventRuns' = {}
        BY <2>1 DEF EventRuns, ActiveRuns, Created
    <2>3. Cardinality(EventRuns') = 0
        BY <2>2, FS_EmptySet
    <2>4. wf'.max \in Nat /\ wf'.max > 0
        BY <1>3, WorkflowAssumption DEF CreateWorkflow
    <2> QED BY <2>1, <2>3, <2>4, RestingPC DEF LimitInv
<1>4. CASE EnableWorkflow \/ DisableWorkflow
    <2>1. UNCHANGED <<handlers, runs, wfHist>> /\ HasWorkflow /\ wf'.max = wf.max
        BY <1>4, <1>t DEF EnableWorkflow, DisableWorkflow, HasWorkflow, WorkflowRow
    <2>2. EventRuns' = EventRuns
        BY <2>1 DEF EventRuns, ActiveRuns
    <2> QED BY <1>1, <2>1, <2>2
<1>5. CASE DeleteWorkflow
    BY <1>5 DEF DeleteWorkflow, HasWorkflow
<1>6. ASSUME NEW max, NEW actions, UpdateWorkflow(max, actions) PROVE FALSE
    BY <1>6, <1>t DEF UpdateWorkflow
<1>7. ASSUME NEW h \in Handlers, NEW ev, handleEvent(h, ev) PROVE LimitInv'
    <2>1. /\ UNCHANGED <<wf, runs, wfHist>> /\ HasWorkflow
          /\ handlers' = [handlers EXCEPT ![h] = [pc |-> "count", copy |-> wf]]
        BY <1>7 DEF handleEvent, ListByTrigger
    <2>2. EventRuns' = EventRuns
        BY <2>1 DEF EventRuns, ActiveRuns
    <2>3. \A g \in Handlers : IF g = h THEN handlers'[g].pc = "count" /\ handlers'[g].copy = wf
                              ELSE handlers'[g] = handlers[g]
        BY <1>t, <2>1
    <2> QED BY <2>1, <2>2, <2>3 DEF LimitInv
<1>8. ASSUME NEW h \in Handlers, checkConditions(h) PROVE LimitInv'
    <2>1. UNCHANGED <<wf, runs, wfHist>> /\ handlers' = [handlers EXCEPT ![h] = Resting]
        BY <1>8 DEF checkConditions
    <2>2. EventRuns' = EventRuns /\ HasWorkflow
        BY <2>1 DEF EventRuns, ActiveRuns, HasWorkflow
    <2> QED BY <1>t, <1>2, <2>1, <2>2
<1>9. ASSUME NEW h \in Handlers, countActive(h) PROVE LimitInv'
    <2> DEFINE late == \E g \in Handlers \ {h} : handlers[g].pc = "create"
    <2>1. /\ handlers' = [handlers EXCEPT ![h] = IF AtLimit(handlers[h].copy) THEN Resting
                                                 ELSE [handlers[h] EXCEPT !.pc = "create"]]
          /\ wfHist' = [wfHist EXCEPT !.overlap = @ \/ late]
          /\ UNCHANGED <<wf, runs>>
        BY <1>9, <1>t DEF countActive
    <2>2. ~wfHist.overlap /\ ~late /\ wfHist'.overlap = wfHist.overlap
        BY <1>t, <2>1
    <2>3. EventRuns' = EventRuns /\ HasWorkflow
        BY <2>1 DEF EventRuns, ActiveRuns, HasWorkflow
    <2>4. CASE AtLimit(handlers[h].copy)
        BY <1>t, <1>2, <2>1, <2>2, <2>3, <2>4
    <2>5. CASE ~AtLimit(handlers[h].copy)
        <3>1. handlers[h] \in Handling
            BY <1>t, <1>9, RestingPC DEF countActive
        <3>2. handlers[h].copy.max = wf.max /\ wf.max \in Nat /\ wf.max > 0
            BY <1>t, <2>2, <2>3, <3>1, RestingPC DEF LimitInv, HasWorkflow, WorkflowRow
        <3>3. Cardinality(EventRuns) < wf.max
            BY <2>5, <3>2, EventRunsFinite DEF AtLimit
        <3>4. \A g \in Handlers : IF g = h THEN handlers'[g].copy = handlers[g].copy
                                  ELSE handlers'[g] = handlers[g] /\ handlers'[g].pc # "create"
            BY <1>t, <2>1, <2>2, <2>5, <3>1 DEF Handling
        <3> QED BY <2>1, <2>2, <2>3, <3>2, <3>3, <3>4 DEF LimitInv
    <2> QED BY <2>4, <2>5
<1>10. ASSUME NEW h \in Handlers, NEW r \in Runs, createRun(h, r) PROVE LimitInv'
    <2>1. /\ handlers[h].pc = "create" /\ handlers' = [handlers EXCEPT ![h] = Resting] /\ UNCHANGED <<wf, wfHist>>
          /\ HasWorkflow
        BY <1>10 DEF createRun, HasWorkflow
    <2>2. CASE UNCHANGED runs
        <3>1. EventRuns' = EventRuns
            BY <2>2 DEF EventRuns, ActiveRuns
        <3> QED BY <1>t, <1>2, <2>1, <3>1
    <2>3. CASE ~UNCHANGED runs
        <3>1. handlers[h].copy \in WorkflowRow
            BY <1>t, <2>1, RestingPC DEF Handling
        <3>2. EventRuns' = EventRuns \cup {r} /\ r \notin EventRuns
            BY <1>10, <2>3, <3>1, CountsBegin DEF createRun
        <3>3. Cardinality(EventRuns') = Cardinality(EventRuns) + 1
            BY <3>2, EventRunsFinite, FS_AddElement
        <3>4. Cardinality(EventRuns) < wf.max /\ \A g \in Handlers \ {h} : handlers[g].pc # "create"
            BY <2>1 DEF LimitInv
        <3>5. wf.max \in Nat
            BY <1>t, <2>1 DEF HasWorkflow, WorkflowRow
        <3>6. \A g \in Handlers : IF g = h THEN handlers'[g] = Resting ELSE handlers'[g] = handlers[g]
            BY <1>t, <2>1
        <3> QED BY <1>c, <2>1, <3>3, <3>4, <3>5, <3>6, RestingPC DEF LimitInv
    <2> QED BY <2>2, <2>3
<1>11. ASSUME NEW r \in Runs, TriggerManual(r) PROVE LimitInv'
    <2>1. wf \in WorkflowRow /\ HasWorkflow /\ UNCHANGED <<wf, handlers, wfHist>>
        BY <1>t, <1>11 DEF TriggerManual, HasWorkflow
    <2>2. EventRuns' = EventRuns
        BY <1>11, <2>1, CountsBegin DEF TriggerManual
    <2> QED BY <1>1, <2>1, <2>2
<1>12. ASSUME NEW r \in Runs, startRun(r) \/ executeAction(r) \/ finishRun(r) \/ countRun(r) PROVE LimitInv'
    <2>1. /\ UNCHANGED handlers /\ wfHist' \in {wfHist, [wfHist EXCEPT !.orphaned = TRUE]}
          /\ wf' \in {wf, UpdateCounters(exec[r].w)}
        BY <1>12, RunStep
    <2>2. HasWorkflow /\ wf'.max = wf.max
        BY <1>t, <2>1 DEF UpdateCounters, HasWorkflow, WorkflowRow
    <2>3. wfHist'.overlap = wfHist.overlap
        BY <1>t, <2>1
    <2> QED BY <1>1, <1>12, <2>1, <2>2, <2>3, CountsStep
<1>13. CASE RestartWorkflows
    <2>1. /\ UNCHANGED <<wf, runs>> /\ wfHist'.overlap = wfHist.overlap
          /\ \A h \in Handlers : handlers'[h] = Resting
        BY <1>t, <1>13 DEF RestartWorkflows
    <2>2. EventRuns' = EventRuns /\ HasWorkflow
        BY <2>1 DEF EventRuns, ActiveRuns, HasWorkflow
    <2> QED BY <1>2, <2>1, <2>2
<1>14. CASE UNCHANGED wfVars
    BY <1>14 DEF wfVars, LimitInv, HasWorkflow, EventRuns, ActiveRuns
<1> QED
    BY <1>3, <1>4, <1>5, <1>6, <1>7, <1>8, <1>9, <1>10, <1>11, <1>12, <1>13, <1>14 DEF WfNext

\* The types of the workflow, its runs and the goroutines that trigger and execute them.
THEOREM WfTypeCorrect == WfSpec => []WfType
BY WfTypeInit, ExecInit, WfTypeNext, ExecNext, PTL DEF WfSpec

\* handleEvent never starts more runs than max_concurrent_runs unless two events passed the count together,
\* the count failed or the limit was changed, for any number of events, runs and restarts.
THEOREM EventRunsWithinMaxCorrect == WfSpec => []EventRunsWithinMax
<1>1. LimitInv => EventRunsWithinMax
    BY DEF LimitInv, EventRunsWithinMax, EventRuns
<1> QED
    BY <1>1, WfTypeInit, ExecInit, WfTypeNext, ExecNext, StockNext, LimitNext, PTL DEF WfSpec

\* Only a crash or a failed last write leaves a run pending or running with nobody executing it.
THEOREM RunningIsAliveCorrect == WfSpec => []RunningIsAlive
BY WfTypeInit, ExecInit, WfTypeNext, ExecNext, AliveNext, PTL DEF WfSpec

\* The outcome executeRun saves follows from the log it saves, for every list of actions.
THEOREM RunTellsOutcomeCorrect == WfSpec => []RunTellsOutcome
<1>1. WfType /\ ExecInv => RunTellsOutcome
    <2> SUFFICES ASSUME WfType, ExecInv, NEW r \in Runs, exec[r] # Resting
                 PROVE  LET w == exec[r].w
                            log == runs[r].log
                            Fatal_1(i) == ~log[i] /\ ~ContinueOnError(w, w.actions[i])
                        IN  /\ runs[r].status = "completed" =>
                                    Len(log) = Len(w.actions) /\ \A i \in DOMAIN log : ~Fatal_1(i)
                            /\ runs[r].status = "failed" => /\ Fatal_1(Len(log))
                                                            /\ \A i \in 1..Len(log) - 1 : ~Fatal_1(i)
                            /\ exec[r].sent <= exec[r].attempt
        BY DEF RunTellsOutcome
    <2>1. ExecFits(exec[r]) /\ OutcomeFits(exec[r].w, runs[r]) /\ runs[r] # NoRun
        BY DEF ExecInv
    <2>2. DOMAIN runs[r].log = 1..Len(runs[r].log)
        BY <2>1 DEF WfType, RunRow
    <2> QED BY <2>1, <2>2 DEF ExecFits, OutcomeFits, Fatal
<1> QED
    BY <1>1, WfTypeInit, ExecInit, WfTypeNext, ExecNext, PTL DEF WfSpec

----------------------------------------------------------------------------
(* Notifications: what the variables hold. *)

EventType == {"vm_poweron_failed", "vm_poweroff_failed", "vm_reboot_failed", "snapshot_failed", "sync_failed",
              "bulk_operation_failed", "task_failed", "sync_completed"}
ChannelRow == [type : STRING, complete : BOOLEAN, state : {"on", "off", "gone"}]
RuleRow   == [enabled : BOOLEAN, filter : Filters, last : Nat, channel : ChannelRow]
Listing   == [pc : {"list"}, type : EventType, provider : {"", "vmware"}, began : Nat]
Walking   == [pc : {"rule", "send", "mark"}, type : EventType, provider : {"", "vmware"}, began : Nat,
              copy : [RuleIDs -> RuleRow], at : RuleIDs, attempt : Nat, stale : SUBSET RuleIDs]
SavingRule == [pc : {"save"}, r : RuleIDs, copy : RuleRow]
Delivery  == [at : Nat, lost : BOOLEAN, excused : BOOLEAN]

NtType ==
    /\ now \in 0..EndOfTime
    /\ rule \in [RuleIDs -> RuleRow]
    /\ disp \in [Dispatchers -> {NoWork} \cup Listing \cup Walking]
    /\ editor \in {NoWork} \cup SavingRule
    /\ deliveries \in [RuleIDs -> Seq(Delivery)]

\* The last delivery is known to whoever reads this as last_triggered_at.
Tells(seq, when) == Len(seq) > 0 /\ ~seq[Len(seq)].lost => when = seq[Len(seq)].at

\* Rows tell the time of the last delivery, and so do the copies of a goroutine, for the rules still
\* ahead of it that no other goroutine has delivered since; the rule it is about to deliver is not throttled.
ToldInv ==
    /\ \A r \in RuleIDs : \A i \in 1..Len(deliveries[r]) : deliveries[r][i].at <= now
    /\ \A r \in RuleIDs : Tells(deliveries[r], rule[r].last)
    /\ \A d \in Dispatchers : disp[d].pc \in {"rule", "send", "mark"} =>
          \A r \in RuleIDs : r >= disp[d].at /\ r \notin disp[d].stale => Tells(deliveries[r], disp[d].copy[r].last)
    /\ \A d \in Dispatchers : disp[d].pc \in {"send", "mark"} => ~IsThrottled(disp[d].copy[disp[d].at])

Busy == {"rule", "send", "mark"}

LEMMA NoWorkPC == NoWork.pc = "none" /\ NoWork \notin Listing \cup Walking \cup SavingRule
<1>1. NoWork.pc = "none"
    BY DEF NoWork
<1>2. \A x \in Listing \cup Walking \cup SavingRule : x.pc # "none"
    BY DEF Listing, Walking, SavingRule
<1> QED BY <1>1, <1>2

LEMMA BusyWalks == NtType => \A d \in Dispatchers : disp[d].pc \in Busy => disp[d] \in Walking
BY NoWorkPC DEF NtType, Busy, Listing

LEMMA NtTypeInit == NtInit => NtType
<1> SUFFICES ASSUME NtInit PROVE NtType
    OBVIOUS
<1>1. EndOfTime \in Nat /\ Unset \in Nat /\ Channels \subseteq ChannelRow
    BY NotificationAssumption DEF Unset, ChannelRow
<1>2. rule \in [RuleIDs -> RuleRow]
    BY <1>1 DEF NtInit, RuleRow
<1>3. deliveries \in [RuleIDs -> Seq(Delivery)]
    BY DEF NtInit
<1> QED BY <1>1, <1>2, <1>3 DEF NtInit, NtType

\* Where a goroutine may be after it has looked at a rule or tried to send.
Onward(x, z) ==
    /\ z \in {NoWork} \cup Walking
    /\ z # NoWork => /\ z.copy = x.copy /\ z.stale = x.stale /\ z.at >= x.at
                     /\ z.pc \in {"send", "mark"} => ~IsThrottled(z.copy[z.at])

LEMMA NextRuleOnward ==
    ASSUME NEW x \in Walking
    PROVE  Onward(x, NextRule(x)) /\ (NextRule(x) # NoWork => NextRule(x).at = x.at + 1 /\ NextRule(x).pc = "rule")
<1>1. Rules \in Nat /\ x.at \in 1..Rules
    BY NotificationAssumption DEF Walking, RuleIDs
<1>2. CASE x.at = Rules
    BY <1>2 DEF NextRule, Onward
<1>3. CASE x.at # Rules
    <2> DEFINE z == [x EXCEPT !.at = @ + 1, !.attempt = 1, !.pc = "rule"]
    <2>1. x.at + 1 \in RuleIDs
        BY <1>1, <1>3 DEF RuleIDs
    <2>2. z \in Walking /\ z.copy = x.copy /\ z.stale = x.stale /\ z.at = x.at + 1 /\ z.pc = "rule"
        BY <2>1 DEF Walking
    <2>3. NextRule(x) = z
        BY <1>3 DEF NextRule
    <2> HIDE DEF z
    <2> QED BY <1>1, <2>2, <2>3 DEF Onward
<1> QED BY <1>2, <1>3

LEMMA WalkOnward ==
    ASSUME NtType, ToldInv, NEW d \in Dispatchers, considerRule(d) \/ \E ok \in BOOLEAN : Send(d, ok)
    PROVE  /\ disp[d] \in Walking /\ UNCHANGED <<now, rule, editor, deliveries>>
           /\ \E z : disp' = [disp EXCEPT ![d] = z] /\ Onward(disp[d], z)
<1> DEFINE x == disp[d]
<1>1. x \in Walking
    BY BusyWalks DEF considerRule, Send, Busy
<1>2. UNCHANGED <<now, rule, editor, deliveries>>
    BY DEF considerRule, Send
<1>5. x.at \in Nat /\ x.attempt \in Nat
    <2>1. Rules \in Nat /\ x.at \in 1..Rules /\ x.attempt \in Nat
        BY <1>1, NotificationAssumption DEF Walking, RuleIDs
    <2> QED BY <2>1
<1>3. CASE considerRule(d)
    <2>1. \/ disp' = [disp EXCEPT ![d] = NextRule(x)]
          \/ disp' = [disp EXCEPT ![d] = [x EXCEPT !.pc = "send"]] /\ ~IsThrottled(x.copy[x.at])
        BY <1>3 DEF considerRule
    <2>2. ~IsThrottled(x.copy[x.at]) => Onward(x, [x EXCEPT !.pc = "send"])
        <3>1. /\ [x EXCEPT !.pc = "send"] \in Walking
              /\ [x EXCEPT !.pc = "send"].copy = x.copy /\ [x EXCEPT !.pc = "send"].at = x.at
              /\ [x EXCEPT !.pc = "send"].stale = x.stale
            BY <1>1 DEF Walking
        <3>2. x.at >= x.at
            BY <1>5
        <3> QED BY <3>1, <3>2 DEF Onward
    <2> QED BY <1>1, <1>2, <2>1, <2>2, NextRuleOnward
<1>4. ASSUME NEW ok \in BOOLEAN, Send(d, ok) PROVE \E z : disp' = [disp EXCEPT ![d] = z] /\ Onward(x, z)
    <2>1. x.pc = "send" /\ ~IsThrottled(x.copy[x.at])
        BY <1>4 DEF Send, ToldInv
    <2>2. \/ disp' = [disp EXCEPT ![d] = NextRule(x)]
          \/ disp' = [disp EXCEPT ![d] = [x EXCEPT !.pc = "mark"]]
          \/ disp' = [disp EXCEPT ![d] = [x EXCEPT !.attempt = @ + 1]]
        BY <1>4 DEF Send
    <2>3. x.at >= x.at /\ x.attempt + 1 \in Nat
        BY <1>5
    <2>4. Onward(x, [x EXCEPT !.pc = "mark"])
        <3>1. /\ [x EXCEPT !.pc = "mark"] \in Walking
              /\ [x EXCEPT !.pc = "mark"].copy = x.copy /\ [x EXCEPT !.pc = "mark"].at = x.at
              /\ [x EXCEPT !.pc = "mark"].stale = x.stale
            BY <1>1 DEF Walking
        <3> QED BY <2>1, <2>3, <3>1 DEF Onward
    <2>5. Onward(x, [x EXCEPT !.attempt = @ + 1])
        <3>1. /\ [x EXCEPT !.attempt = @ + 1] \in Walking
              /\ [x EXCEPT !.attempt = @ + 1].copy = x.copy /\ [x EXCEPT !.attempt = @ + 1].at = x.at
              /\ [x EXCEPT !.attempt = @ + 1].stale = x.stale
            BY <1>1, <2>3 DEF Walking
        <3> QED BY <2>1, <2>3, <3>1 DEF Onward
    <2> QED BY <1>1, <2>2, <2>4, <2>5, NextRuleOnward
<1> QED BY <1>1, <1>2, <1>3, <1>4

LEMMA EventTypes == (\A x : taskFailureEventType(x) \in EventType) /\ (\A p : onInventorySynced(p) \in EventType)
BY DEF taskFailureEventType, onInventorySynced, EventType

\* markDelivered: the delivery is appended and the goroutines behind it are told.
LEMMA MarkEffect ==
    ASSUME NtType, NEW d \in Dispatchers, markDelivered(d)
    PROVE  LET r == disp[d].at
           IN  /\ disp[d] \in Walking /\ r \in RuleIDs /\ UNCHANGED <<now, editor>>
               /\ rule' = IF Expired(d) THEN rule ELSE [rule EXCEPT ![r].last = now]
               /\ deliveries' = [deliveries EXCEPT ![r] =
                                    Append(@, [at |-> now, lost |-> Expired(d), excused |-> r \in disp[d].stale])]
               /\ disp'[d] = NextRule(disp[d])
               /\ \A e \in Dispatchers \ {d} :
                    IF disp[e].pc \in Busy /\ disp[e].at <= r
                    THEN disp'[e] = [disp[e] EXCEPT !.stale = @ \cup {r}] ELSE disp'[e] = disp[e]
               /\ DOMAIN disp' = Dispatchers /\ disp' = [e \in Dispatchers |-> disp'[e]]
<1>1. disp[d] \in Walking
    BY BusyWalks DEF markDelivered, Busy
<1>2. disp[d].at \in RuleIDs
    BY <1>1 DEF Walking
<1> QED BY <1>1, <1>2 DEF markDelivered, UpdateLastTriggered, Busy

\* SaveRule: the row is as the request read it, and deliveries it does not know of are lost.
LEMMA SaveEffect ==
    ASSUME NtType, NEW enabled \in BOOLEAN, SaveRule(enabled)
    PROVE  LET r == editor.r IN
           /\ r \in RuleIDs /\ editor \in SavingRule /\ editor' = NoWork /\ UNCHANGED <<now, disp>>
           /\ rule' \in [RuleIDs -> RuleRow] /\ rule'[r].last = editor.copy.last
           /\ deliveries' \in [RuleIDs -> Seq(Delivery)]
           /\ \A s \in RuleIDs \ {r} : rule'[s] = rule[s] /\ deliveries'[s] = deliveries[s]
           /\ Len(deliveries'[r]) = Len(deliveries[r])
           /\ \A i \in 1..Len(deliveries[r]) :
                /\ deliveries'[r][i].at = deliveries[r][i].at
                /\ deliveries'[r][i].excused = deliveries[r][i].excused
                /\ deliveries'[r][i].lost <=> deliveries[r][i].lost \/ rule[r].last # editor.copy.last
<1> DEFINE r == editor.r
           seq == deliveries[r]
           new == [i \in DOMAIN seq |-> [seq[i] EXCEPT !.lost = @ \/ rule[r].last # editor.copy.last]]
<1>1. editor \in SavingRule /\ r \in RuleIDs /\ editor.copy \in RuleRow
    BY NoWorkPC DEF NtType, SaveRule, SavingRule
<1>2. /\ rule' = [rule EXCEPT ![r] = [editor.copy EXCEPT !.enabled = enabled]]
      /\ deliveries' = [deliveries EXCEPT ![r] = new]
      /\ editor' = NoWork /\ UNCHANGED <<now, disp>>
    BY DEF SaveRule
<1>3. [editor.copy EXCEPT !.enabled = enabled] \in RuleRow
      /\ [editor.copy EXCEPT !.enabled = enabled].last = editor.copy.last
    BY <1>1 DEF RuleRow
<1>4. rule \in [RuleIDs -> RuleRow] /\ deliveries \in [RuleIDs -> Seq(Delivery)]
    BY DEF NtType
<1>5. seq \in Seq(Delivery) /\ Len(seq) \in Nat /\ DOMAIN seq = 1..Len(seq)
    BY <1>1, <1>4
<1>6. \A i \in 1..Len(seq) : /\ new[i] \in Delivery
                             /\ new[i].at = seq[i].at /\ new[i].excused = seq[i].excused
                             /\ new[i].lost <=> seq[i].lost \/ rule[r].last # editor.copy.last
    <2> SUFFICES ASSUME NEW i \in 1..Len(seq)
                 PROVE  /\ new[i] \in Delivery
                        /\ new[i].at = seq[i].at /\ new[i].excused = seq[i].excused
                        /\ new[i].lost <=> seq[i].lost \/ rule[r].last # editor.copy.last
        OBVIOUS
    <2>1. seq[i] \in Delivery
        BY <1>5
    <2>2. new[i] = [seq[i] EXCEPT !.lost = seq[i].lost \/ rule[r].last # editor.copy.last]
        BY <1>5
    <2>3. (seq[i].lost \/ rule[r].last # editor.copy.last) \in BOOLEAN
        OBVIOUS
    <2> HIDE DEF new
    <2> QED BY <2>1, <2>2, <2>3 DEF Delivery
<1>7. new \in [1..Len(seq) -> Delivery]
    BY <1>5, <1>6
<1>8. new \in Seq(Delivery) /\ Len(new) = Len(seq)
    <2> HIDE DEF new
    <2> QED BY <1>5, <1>7, SeqDef
<1> HIDE DEF new
<1>9. /\ deliveries' \in [RuleIDs -> Seq(Delivery)] /\ deliveries'[r] = new
      /\ \A s \in RuleIDs \ {r} : deliveries'[s] = deliveries[s]
    BY <1>1, <1>2, <1>4, <1>8
<1>10. /\ rule' \in [RuleIDs -> RuleRow] /\ rule'[r].last = editor.copy.last
       /\ \A s \in RuleIDs \ {r} : rule'[s] = rule[s]
    BY <1>1, <1>2, <1>3, <1>4
<1> QED BY <1>1, <1>2, <1>6, <1>8, <1>9, <1>10

LEMMA NtTypeNext == NtType /\ ToldInv /\ [NtNext]_ntVars => NtType'
<1> SUFFICES ASSUME NtType, ToldInv, [NtNext]_ntVars PROVE NtType'
    OBVIOUS
<1>t. /\ now \in 0..EndOfTime /\ EndOfTime \in Nat
      /\ rule \in [RuleIDs -> RuleRow]
      /\ disp \in [Dispatchers -> {NoWork} \cup Listing \cup Walking]
      /\ editor \in {NoWork} \cup SavingRule
      /\ deliveries \in [RuleIDs -> Seq(Delivery)]
    BY NotificationAssumption DEF NtType
<1>m. now \in Nat
    <2>1. now \in 0..EndOfTime /\ EndOfTime \in Nat
        BY <1>t
    <2> QED BY <2>1
<1>1. CASE Elapses
    BY <1>1, <1>t DEF Elapses, NtType
<1>2. ASSUME NEW d \in Dispatchers, NEW type \in EventType, NEW provider \in {"", "vmware"}, Dispatch(d, type, provider)
      PROVE  NtType'
    <2>1. [pc |-> "list", type |-> type, provider |-> provider, began |-> now] \in Listing
        BY <1>m DEF Listing
    <2>2. disp' \in [Dispatchers -> {NoWork} \cup Listing \cup Walking]
        BY <1>2, <1>t, <2>1 DEF Dispatch
    <2> QED BY <1>2, <1>t, <2>2 DEF Dispatch, NtType
<1>3. ASSUME NEW d \in Dispatchers, ListEnabled(d) PROVE NtType'
    <2>1. disp[d] \in Listing
        BY <1>3, <1>t, NoWorkPC DEF ListEnabled, Walking
    <2> DEFINE z == [pc |-> "rule", type |-> disp[d].type, provider |-> disp[d].provider, began |-> disp[d].began,
                     copy |-> rule, at |-> 1, attempt |-> 1, stale |-> {}]
    <2>2. 1 \in RuleIDs
        BY NotificationAssumption DEF RuleIDs
    <2>3. z \in Walking
        BY <1>t, <2>1, <2>2 DEF Walking, Listing
    <2>4. disp' = [disp EXCEPT ![d] = IF Expired(d) THEN NoWork ELSE z]
        BY <1>3 DEF ListEnabled
    <2> HIDE DEF z
    <2>5. disp' \in [Dispatchers -> {NoWork} \cup Listing \cup Walking]
        BY <1>t, <2>3, <2>4
    <2> QED BY <1>3, <1>t, <2>5 DEF ListEnabled, NtType
<1>4. ASSUME NEW d \in Dispatchers, considerRule(d) \/ \E ok \in BOOLEAN : Send(d, ok) PROVE NtType'
    <2>1. PICK z : disp' = [disp EXCEPT ![d] = z] /\ Onward(disp[d], z)
        BY <1>4, WalkOnward
    <2>2. disp' \in [Dispatchers -> {NoWork} \cup Listing \cup Walking]
        BY <1>t, <2>1 DEF Onward
    <2>3. UNCHANGED <<now, rule, editor, deliveries>>
        BY <1>4, WalkOnward
    <2> QED BY <1>t, <2>2, <2>3 DEF NtType
<1>5. ASSUME NEW d \in Dispatchers, markDelivered(d) PROVE NtType'
    <2> DEFINE r == disp[d].at
               b == [at |-> now, lost |-> Expired(d), excused |-> r \in disp[d].stale]
    <2>1. /\ disp[d] \in Walking /\ r \in RuleIDs /\ UNCHANGED <<now, editor>>
          /\ rule' = IF Expired(d) THEN rule ELSE [rule EXCEPT ![r].last = now]
          /\ deliveries' = [deliveries EXCEPT ![r] = Append(@, b)]
          /\ disp' = [e \in Dispatchers |-> disp'[e]]
        BY <1>5, MarkEffect
    <2>2. rule' \in [RuleIDs -> RuleRow]
        <3>1. \A x \in RuleRow : [x EXCEPT !.last = now] \in RuleRow
            BY <1>m DEF RuleRow
        <3>2. CASE Expired(d)
            BY <1>t, <2>1, <3>2
        <3>3. CASE ~Expired(d)
            <4>1. rule' = [rule EXCEPT ![r] = [rule[r] EXCEPT !.last = now]]
                BY <2>1, <3>3
            <4> QED BY <1>t, <2>1, <3>1, <4>1
        <3> QED BY <3>2, <3>3
    <2>3. b \in Delivery
        <3>1. Expired(d) \in BOOLEAN
            BY DEF Expired
        <3>2. (r \in disp[d].stale) \in BOOLEAN
            OBVIOUS
        <3> QED BY <1>m, <3>1, <3>2 DEF Delivery
    <2> HIDE DEF b
    <2>4. deliveries' \in [RuleIDs -> Seq(Delivery)]
        BY <1>t, <2>1, <2>3
    <2>5. \A e \in Dispatchers : disp'[e] \in {NoWork} \cup Listing \cup Walking
        <3>1. disp'[d] \in {NoWork} \cup Walking
            BY <1>5, <2>1, MarkEffect, NextRuleOnward DEF Onward
        <3>2. ASSUME NEW e \in Dispatchers \ {d}, disp[e].pc \in Busy, disp[e].at <= r
              PROVE  disp'[e] \in Walking
            <4>1. disp[e] \in Walking /\ disp'[e] = [disp[e] EXCEPT !.stale = @ \cup {r}]
                BY <1>5, <3>2, MarkEffect, BusyWalks
            <4>2. disp[e].stale \cup {r} \in SUBSET RuleIDs
                BY <2>1, <4>1 DEF Walking
            <4> QED BY <4>1, <4>2 DEF Walking
        <3>3. ASSUME NEW e \in Dispatchers \ {d}, ~(disp[e].pc \in Busy /\ disp[e].at <= r)
              PROVE  disp'[e] = disp[e]
            BY <1>5, <3>3, MarkEffect
        <3> QED BY <1>t, <3>1, <3>2, <3>3
    <2>6. disp' \in [Dispatchers -> {NoWork} \cup Listing \cup Walking]
        BY <2>1, <2>5
    <2> QED BY <1>t, <2>1, <2>2, <2>4, <2>6 DEF NtType
<1>6. ASSUME NEW r \in RuleIDs, ReadRule(r) PROVE NtType'
    <2>1. [pc |-> "save", r |-> r, copy |-> rule[r]] \in SavingRule
        BY <1>t DEF SavingRule
    <2> QED BY <1>6, <1>t, <2>1 DEF ReadRule, NtType
<1>7. ASSUME NEW enabled \in BOOLEAN, SaveRule(enabled) PROVE NtType'
    BY <1>7, <1>t, SaveEffect DEF NtType
<1>8. ASSUME NEW r \in RuleIDs, NEW state \in {"off", "gone"}, SetChannel(r, state) PROVE NtType'
    <2>1. rule' = [rule EXCEPT ![r].channel.state = state]
        BY <1>8 DEF SetChannel
    <2>2. rule' \in [RuleIDs -> RuleRow]
        <3>1. rule \in [RuleIDs -> RuleRow] /\ rule[r] \in RuleRow
            BY <1>t
        <3>2. [rule[r].channel EXCEPT !.state = state] \in ChannelRow
            BY <3>1 DEF RuleRow, ChannelRow
        <3>3. [rule[r] EXCEPT !.channel = [rule[r].channel EXCEPT !.state = state]] \in RuleRow
            BY <3>1, <3>2 DEF RuleRow
        <3> QED BY <2>1, <3>1, <3>3
    <2> QED BY <1>8, <1>t, <2>2 DEF SetChannel, NtType
<1>9. CASE UNCHANGED ntVars
    BY <1>9 DEF ntVars, NtType
<1>10. ASSUME NEW d \in Dispatchers, NEW ty, TaskFails(d, ty) PROVE NtType'
    <2>1. onTaskStatusChanged(publishStatusEvent(ty)) \in EventType
        BY EventTypes DEF onTaskStatusChanged
    <2> QED BY <1>2, <1>10, <2>1 DEF TaskFails
<1>11. ASSUME NEW d \in Dispatchers, InventorySynced(d) PROVE NtType'
    <2>1. onInventorySynced([errors |-> "some"]) \in EventType
        BY EventTypes
    <2> QED BY <1>2, <1>11, <2>1 DEF InventorySynced
<1> QED
    BY <1>1, <1>3, <1>4, <1>5, <1>6, <1>7, <1>8, <1>9, <1>10, <1>11 DEF NtNext

LEMMA ToldInit == NtInit => ToldInv /\ ThrottleHolds
<1> SUFFICES ASSUME NtInit PROVE ToldInv /\ ThrottleHolds
    OBVIOUS
<1>1. (\A r \in RuleIDs : deliveries[r] = << >>) /\ \A d \in Dispatchers : disp[d] = NoWork
    BY DEF NtInit
<1>2. Len(<< >>) = 0
    OBVIOUS
<1> QED BY <1>1, <1>2, NoWorkPC DEF ToldInv, Tells, ThrottleHolds

LEMMA ToldNext == NtType /\ ToldInv /\ ThrottleHolds /\ [NtNext]_ntVars => ToldInv' /\ ThrottleHolds'
<1> SUFFICES ASSUME NtType, ToldInv, ThrottleHolds, [NtNext]_ntVars PROVE ToldInv' /\ ThrottleHolds'
    OBVIOUS
<1>t. /\ disp \in [Dispatchers -> {NoWork} \cup Listing \cup Walking]
      /\ rule \in [RuleIDs -> RuleRow] /\ deliveries \in [RuleIDs -> Seq(Delivery)]
    BY DEF NtType
<1>n. now \in Nat /\ now <= EndOfTime /\ EndOfTime \in Nat /\ Throttle \in Nat
    BY NotificationAssumption DEF NtType
<1>s. \A r \in RuleIDs : Len(deliveries[r]) \in Nat /\ \A i \in 1..Len(deliveries[r]) : deliveries[r][i] \in Delivery
    BY <1>t
<1>1. CASE Elapses
    <2>1. now' = now + 1 /\ UNCHANGED <<rule, disp, deliveries>>
        BY <1>1 DEF Elapses
    <2>2. \A r \in RuleIDs : \A i \in 1..Len(deliveries[r]) : deliveries[r][i].at <= now'
        <3> SUFFICES ASSUME NEW r \in RuleIDs, NEW i \in 1..Len(deliveries[r]) PROVE deliveries[r][i].at <= now'
            OBVIOUS
        <3>1. deliveries[r][i].at \in Nat /\ deliveries[r][i].at <= now
            BY <1>s DEF ToldInv, Delivery
        <3> QED BY <1>n, <2>1, <3>1
    <2>3. ASSUME NEW d \in Dispatchers, disp[d].pc \in {"send", "mark"}
          PROVE  ~IsThrottled(disp[d].copy[disp[d].at])'
        <3>1. disp[d] \in Walking
            BY <2>3, BusyWalks DEF Busy
        <3>2. disp[d].copy[disp[d].at].last \in Nat
            BY <3>1 DEF Walking, RuleRow
        <3>3. ~IsThrottled(disp[d].copy[disp[d].at])
            BY <2>3 DEF ToldInv
        <3> HIDE DEF ToldInv
        <3> QED BY <1>n, <2>1, <3>2, <3>3 DEF IsThrottled
    <2> QED BY <2>1, <2>2, <2>3 DEF ToldInv, ThrottleHolds
\* A step of one goroutine that delivers nothing.
<1>2. ASSUME NEW d \in Dispatchers, NEW z, disp' = [disp EXCEPT ![d] = z], UNCHANGED <<now, rule, deliveries>>,
             z.pc \in Busy => \A r \in RuleIDs : r >= z.at /\ r \notin z.stale => Tells(deliveries[r], z.copy[r].last),
             z.pc \in {"send", "mark"} => ~IsThrottled(z.copy[z.at])
      PROVE  ToldInv' /\ ThrottleHolds'
    <2>1. \A e \in Dispatchers : disp'[e] = IF e = d THEN z ELSE disp[e]
        BY <1>2, <1>t
    <2>2. ASSUME NEW e \in Dispatchers, disp'[e].pc \in {"send", "mark"}
          PROVE  ~IsThrottled(disp'[e].copy[disp'[e].at])
        BY <1>2, <2>1, <2>2 DEF ToldInv
    <2>3. \A e \in Dispatchers : disp'[e].pc \in {"send", "mark"} => ~IsThrottled(disp[e].copy[disp[e].at])'
        BY <1>2, <2>2 DEF IsThrottled
    <2>4. ASSUME NEW e \in Dispatchers, disp'[e].pc \in Busy, NEW r \in RuleIDs, r >= disp'[e].at, r \notin disp'[e].stale
          PROVE  Tells(deliveries[r], disp'[e].copy[r].last)
        BY <1>2, <2>1, <2>4 DEF ToldInv, Busy
    <2> QED BY <1>2, <2>3, <2>4 DEF ToldInv, ThrottleHolds, Busy
<1>3. ASSUME NEW d \in Dispatchers, NEW type, NEW provider, Dispatch(d, type, provider)
      PROVE  ToldInv' /\ ThrottleHolds'
    <2> DEFINE z == [pc |-> "list", type |-> type, provider |-> provider, began |-> now]
    <2>1. disp' = [disp EXCEPT ![d] = z] /\ UNCHANGED <<now, rule, deliveries>>
        BY <1>3 DEF Dispatch
    <2>2. z.pc = "list"
        OBVIOUS
    <2> HIDE DEF z
    <2>3. z.pc \notin Busy /\ z.pc \notin {"send", "mark"}
        BY <2>2 DEF Busy
    <2> QED BY <1>2, <2>1, <2>3
<1>4. ASSUME NEW d \in Dispatchers, ListEnabled(d) PROVE ToldInv' /\ ThrottleHolds'
    <2> DEFINE z == [pc |-> "rule", type |-> disp[d].type, provider |-> disp[d].provider, began |-> disp[d].began,
                     copy |-> rule, at |-> 1, attempt |-> 1, stale |-> {}]
    <2>1. UNCHANGED <<now, rule, deliveries>>
          /\ (disp' = [disp EXCEPT ![d] = NoWork] \/ disp' = [disp EXCEPT ![d] = z])
        BY <1>4 DEF ListEnabled
    <2>2. z.pc = "rule" /\ z.copy = rule
        OBVIOUS
    <2>3. NoWork.pc \notin Busy /\ NoWork.pc \notin {"send", "mark"} /\ z.pc \notin {"send", "mark"}
        BY <2>2, NoWorkPC DEF Busy
    <2>4. \A r \in RuleIDs : Tells(deliveries[r], z.copy[r].last)
        BY <2>2 DEF ToldInv
    <2> HIDE DEF z
    <2>5. CASE disp' = [disp EXCEPT ![d] = NoWork]
        BY <1>2, <2>1, <2>3, <2>5
    <2>6. CASE disp' = [disp EXCEPT ![d] = z]
        BY <1>2, <2>1, <2>3, <2>4, <2>6
    <2> QED BY <2>1, <2>5, <2>6
<1>5. ASSUME NEW d \in Dispatchers, considerRule(d) \/ \E ok \in BOOLEAN : Send(d, ok) PROVE ToldInv' /\ ThrottleHolds'
    <2>1. PICK z : disp' = [disp EXCEPT ![d] = z] /\ Onward(disp[d], z)
        BY <1>5, WalkOnward
    <2>2. disp[d] \in Walking /\ UNCHANGED <<now, rule, deliveries>>
        BY <1>5, WalkOnward
    <2>3. CASE z = NoWork
        <3>1. z.pc \notin Busy /\ z.pc \notin {"send", "mark"}
            BY <2>3, NoWorkPC DEF Busy
        <3> QED BY <1>2, <2>1, <2>2, <3>1
    <2>4. CASE z # NoWork
        <3>1. /\ z.copy = disp[d].copy /\ z.stale = disp[d].stale /\ z.at >= disp[d].at /\ z \in Walking
              /\ z.pc \in {"send", "mark"} => ~IsThrottled(z.copy[z.at])
            BY <2>1, <2>4 DEF Onward
        <3>2. disp[d].pc \in {"rule", "send", "mark"}
            BY <2>2 DEF Walking
        <3>3. \A r \in RuleIDs : r >= z.at => r >= disp[d].at
            <4>1. z.at \in 1..Rules /\ disp[d].at \in 1..Rules /\ Rules \in Nat
                BY <2>2, <3>1, NotificationAssumption DEF Walking, RuleIDs
            <4> QED BY <3>1, <4>1 DEF RuleIDs
        <3>4. \A r \in RuleIDs : r >= z.at /\ r \notin z.stale => Tells(deliveries[r], z.copy[r].last)
            BY <3>1, <3>2, <3>3 DEF ToldInv
        <3> QED BY <1>2, <2>1, <2>2, <3>1, <3>4
    <2> QED BY <2>3, <2>4
<1>6. ASSUME NEW d \in Dispatchers, markDelivered(d) PROVE ToldInv' /\ ThrottleHolds'
    <2> DEFINE x == disp[d]
               r == x.at
               b == [at |-> now, lost |-> Expired(d), excused |-> r \in x.stale]
               n == Len(deliveries[r])
    <2>1. /\ x \in Walking /\ r \in RuleIDs /\ UNCHANGED now
          /\ rule' = IF Expired(d) THEN rule ELSE [rule EXCEPT ![r].last = now]
          /\ deliveries' = [deliveries EXCEPT ![r] = Append(@, b)]
          /\ disp'[d] = NextRule(x)
        BY <1>6, MarkEffect
    <2>m. x.pc = "mark"
        BY <1>6 DEF markDelivered
    <2>2. b.at = now /\ (b.lost <=> Expired(d)) /\ (b.excused <=> r \in x.stale)
        OBVIOUS
    <2>3. ASSUME NEW e \in Dispatchers \ {d}
          PROVE  \/ disp[e].pc \in Busy /\ disp[e].at <= r /\ disp'[e] = [disp[e] EXCEPT !.stale = @ \cup {r}]
                 \/ ~(disp[e].pc \in Busy /\ disp[e].at <= r) /\ disp'[e] = disp[e]
        BY <1>6, MarkEffect
    <2> HIDE DEF b, x, r, n
    <2>4. /\ Len(deliveries'[r]) = n + 1 /\ n \in Nat /\ deliveries'[r][n + 1] = b
          /\ \A i \in 1..n : deliveries'[r][i] = deliveries[r][i]
          /\ \A s \in RuleIDs \ {r} : deliveries'[s] = deliveries[s]
        <3>1. deliveries'[r] = Append(deliveries[r], b) /\ \A s \in RuleIDs \ {r} : deliveries'[s] = deliveries[s]
            BY <1>t, <2>1
        <3>2. deliveries[r] \in Seq(Delivery)
            BY <1>t, <2>1
        <3> QED BY <3>1, <3>2 DEF n
    <2>5. \A s \in RuleIDs : \A i \in 1..Len(deliveries'[s]) : deliveries'[s][i].at <= now'
        <3>1. ASSUME NEW i \in 1..n + 1 PROVE deliveries'[r][i].at <= now
            <4>1. CASE i = n + 1
                BY <1>n, <2>2, <2>4, <4>1
            <4>2. CASE i # n + 1
                <5>1. i \in 1..n
                    BY <2>4, <4>2
                <5> QED BY <2>1, <2>4, <5>1 DEF ToldInv, n
            <4> QED BY <4>1, <4>2
        <3> QED BY <2>1, <2>4, <3>1 DEF ToldInv
    <2>6. \A s \in RuleIDs : Tells(deliveries'[s], rule'[s].last)
        <3>1. Tells(deliveries'[r], rule'[r].last)
            <4>1. ~b.lost => rule'[r].last = now
                BY <1>t, <2>1, <2>2 DEF RuleRow
            <4> QED BY <2>2, <2>4, <4>1 DEF Tells
        <3>2. \A s \in RuleIDs \ {r} : rule'[s] = rule[s]
            BY <1>t, <2>1
        <3> QED BY <2>4, <3>1, <3>2 DEF ToldInv
    <2>7. \A e \in Dispatchers \ {d} :
             disp'[e].pc \in Busy => /\ disp[e] \in Walking
                                     /\ disp'[e].pc = disp[e].pc /\ disp'[e].copy = disp[e].copy
                                     /\ disp'[e].at = disp[e].at /\ disp[e].stale \subseteq disp'[e].stale
                                     /\ r \in disp'[e].stale \/ ~(disp[e].at <= r)
        <3> SUFFICES ASSUME NEW e \in Dispatchers \ {d}, disp'[e].pc \in Busy
                     PROVE  /\ disp[e] \in Walking
                            /\ disp'[e].pc = disp[e].pc /\ disp'[e].copy = disp[e].copy
                            /\ disp'[e].at = disp[e].at /\ disp[e].stale \subseteq disp'[e].stale
                            /\ r \in disp'[e].stale \/ ~(disp[e].at <= r)
            OBVIOUS
        <3>1. CASE disp[e].pc \in Busy /\ disp[e].at <= r /\ disp'[e] = [disp[e] EXCEPT !.stale = @ \cup {r}]
            <4>1. disp[e] \in Walking
                BY <3>1, BusyWalks
            <4>2. [disp[e] EXCEPT !.stale = @ \cup {r}].stale = disp[e].stale \cup {r}
                BY <4>1 DEF Walking
            <4>3. \A z \in Walking : \A st : LET y == [z EXCEPT !.stale = st]
                                            IN  y.pc = z.pc /\ y.copy = z.copy /\ y.at = z.at
                BY DEF Walking
            <4> QED BY <3>1, <4>1, <4>2, <4>3
        <3>2. CASE ~(disp[e].pc \in Busy /\ disp[e].at <= r) /\ disp'[e] = disp[e]
            BY <3>2, BusyWalks
        <3> QED BY <2>3, <3>1, <3>2
    <2>8. disp'[d].pc \in Busy => /\ disp'[d].copy = x.copy /\ disp'[d].stale = x.stale /\ disp'[d].at = r + 1
                                  /\ disp'[d].pc = "rule"
        BY <2>1, NextRuleOnward, NoWorkPC DEF Onward, Busy, r
    <2>9. ASSUME NEW e \in Dispatchers, disp'[e].pc \in Busy, NEW s \in RuleIDs, s >= disp'[e].at, s \notin disp'[e].stale
          PROVE  Tells(deliveries'[s], disp'[e].copy[s].last)
        <3>r. r \in Nat /\ s \in Nat
            BY <2>1, NotificationAssumption DEF RuleIDs
        <3>1. CASE e = d
            <4>1. s # r /\ s >= r
                BY <2>8, <2>9, <3>1, <3>r
            <4>2. Tells(deliveries[s], x.copy[s].last)
                BY <2>8, <2>9, <2>m, <3>1, <4>1 DEF ToldInv, x, r
            <4> QED BY <2>4, <2>8, <2>9, <3>1, <4>1, <4>2
        <3>2. CASE e # d
            <4>1. /\ disp'[e].pc = disp[e].pc /\ disp'[e].copy = disp[e].copy /\ disp'[e].at = disp[e].at
                  /\ s \notin disp[e].stale /\ (r \in disp'[e].stale \/ ~(disp[e].at <= r))
                BY <2>7, <2>9, <3>2
            <4>2. s # r
                BY <2>9, <3>r, <4>1
            <4>3. Tells(deliveries[s], disp[e].copy[s].last)
                BY <2>9, <4>1 DEF ToldInv, Busy
            <4> QED BY <2>4, <4>1, <4>2, <4>3
        <3> QED BY <3>1, <3>2
    <2>10. ASSUME NEW e \in Dispatchers, disp'[e].pc \in {"send", "mark"}
           PROVE  ~IsThrottled(disp[e].copy[disp[e].at])'
        <3>1. disp'[e].pc \in Busy /\ e # d
            BY <2>8, <2>10 DEF Busy
        <3>2. disp'[e].copy = disp[e].copy /\ disp'[e].at = disp[e].at /\ ~IsThrottled(disp[e].copy[disp[e].at])
            BY <2>7, <2>10, <3>1 DEF ToldInv
        <3> QED BY <2>1, <3>2 DEF IsThrottled
    <2>11. ToldInv'
        BY <2>5, <2>6, <2>9, <2>10 DEF ToldInv, Busy
    <2>12. n > 0 => deliveries[r][n].lost \/ b.excused \/ b.at - deliveries[r][n].at >= Throttle
        <3> SUFFICES ASSUME n > 0, ~deliveries[r][n].lost, r \notin x.stale
                     PROVE  now - deliveries[r][n].at >= Throttle
            BY <2>2
        <3>1. /\ deliveries[r][n].at \in Nat /\ deliveries[r][n].at <= now
            BY <1>s, <2>1, <2>4 DEF ToldInv, Delivery, n
        <3>2. r \in Nat
            BY <2>1, NotificationAssumption DEF RuleIDs
        <3>3. Tells(deliveries[r], x.copy[r].last) /\ ~IsThrottled(x.copy[r])
            BY <2>1, <2>m, <3>2 DEF ToldInv, x, r
        <3>4. x.copy[r].last = deliveries[r][n].at
            BY <3>3 DEF Tells, n
        <3> QED BY <1>n, <3>1, <3>3, <3>4 DEF IsThrottled, Unset
    <2>13. ThrottleHolds'
        <3> SUFFICES ASSUME NEW s \in RuleIDs, NEW i \in 1..Len(deliveries'[s]) - 1
                     PROVE  \/ deliveries'[s][i].lost \/ deliveries'[s][i + 1].excused
                            \/ deliveries'[s][i + 1].at - deliveries'[s][i].at >= Throttle
            BY DEF ThrottleHolds
        <3>1. CASE s # r
            BY <2>4, <3>1 DEF ThrottleHolds
        <3>2. CASE s = r /\ i = n
            <4>1. n > 0 /\ n \in 1..n
                BY <2>4, <3>2
            <4> QED BY <2>4, <2>12, <3>2, <4>1
        <3>3. CASE s = r /\ i # n
            <4>1. i \in 1..n - 1 /\ i \in 1..n /\ i + 1 \in 1..n
                BY <2>4, <3>3
            <4> QED BY <2>1, <2>4, <3>3, <4>1 DEF ThrottleHolds, n
        <3> QED BY <3>1, <3>2, <3>3
    <2> QED BY <2>11, <2>13
<1>7. ASSUME NEW s \in RuleIDs, ReadRule(s) PROVE ToldInv' /\ ThrottleHolds'
    BY <1>7 DEF ReadRule, ToldInv, ThrottleHolds, IsThrottled
<1>8. ASSUME NEW enabled \in BOOLEAN, SaveRule(enabled) PROVE ToldInv' /\ ThrottleHolds'
    <2> DEFINE r == editor.r
    <2>1. /\ r \in RuleIDs /\ UNCHANGED <<now, disp>> /\ rule'[r].last = editor.copy.last
          /\ \A s \in RuleIDs \ {r} : rule'[s] = rule[s] /\ deliveries'[s] = deliveries[s]
          /\ Len(deliveries'[r]) = Len(deliveries[r])
          /\ \A i \in 1..Len(deliveries[r]) :
                /\ deliveries'[r][i].at = deliveries[r][i].at
                /\ deliveries'[r][i].excused = deliveries[r][i].excused
                /\ deliveries'[r][i].lost <=> deliveries[r][i].lost \/ rule[r].last # editor.copy.last
        BY <1>8, SaveEffect
    <2> HIDE DEF r
    <2>2. \A w : Tells(deliveries[r], w) => Tells(deliveries'[r], w)
        <3>1. Len(deliveries[r]) > 0 => Len(deliveries[r]) \in 1..Len(deliveries[r])
            BY <1>s, <2>1
        <3> QED BY <2>1, <3>1 DEF Tells
    <2>3. Tells(deliveries'[r], rule'[r].last)
        <3>1. Len(deliveries[r]) > 0 => Len(deliveries[r]) \in 1..Len(deliveries[r])
            BY <1>s, <2>1
        <3>2. Tells(deliveries[r], rule[r].last)
            BY <2>1 DEF ToldInv
        <3> QED BY <2>1, <3>1, <3>2 DEF Tells
    <2>4. \A s \in RuleIDs : Tells(deliveries'[s], rule'[s].last)
        BY <2>1, <2>3 DEF ToldInv
    <2>5. \A s \in RuleIDs : \A w : Tells(deliveries[s], w) => Tells(deliveries'[s], w)
        BY <2>1, <2>2
    <2>6. \A s \in RuleIDs : \A i \in 1..Len(deliveries'[s]) : deliveries'[s][i].at <= now'
        BY <2>1 DEF ToldInv
    <2>7. ToldInv'
        BY <2>1, <2>4, <2>5, <2>6 DEF ToldInv, IsThrottled
    <2>8. ThrottleHolds'
        <3> SUFFICES ASSUME NEW s \in RuleIDs, NEW i \in 1..Len(deliveries'[s]) - 1
                     PROVE  \/ deliveries'[s][i].lost \/ deliveries'[s][i + 1].excused
                            \/ deliveries'[s][i + 1].at - deliveries'[s][i].at >= Throttle
            BY DEF ThrottleHolds
        <3>1. CASE s # r
            BY <2>1, <3>1 DEF ThrottleHolds
        <3>2. CASE s = r
            <4>1. i \in 1..Len(deliveries[r]) /\ i + 1 \in 1..Len(deliveries[r]) /\ i \in 1..Len(deliveries[r]) - 1
                BY <1>s, <2>1, <3>2
            <4>2. \/ deliveries[r][i].lost \/ deliveries[r][i + 1].excused
                  \/ deliveries[r][i + 1].at - deliveries[r][i].at >= Throttle
                BY <2>1, <4>1 DEF ThrottleHolds
            <4> QED BY <2>1, <3>2, <4>1, <4>2
        <3> QED BY <3>1, <3>2
    <2> QED BY <2>7, <2>8
<1>9. ASSUME NEW r \in RuleIDs, NEW state, SetChannel(r, state) PROVE ToldInv' /\ ThrottleHolds'
    <2>1. rule' = [rule EXCEPT ![r].channel.state = state] /\ UNCHANGED <<now, disp, deliveries>>
        BY <1>9 DEF SetChannel
    <2>2. \A s \in RuleIDs : rule'[s].last = rule[s].last
        BY <1>t, <2>1 DEF RuleRow
    <2> QED BY <2>1, <2>2 DEF ToldInv, ThrottleHolds, IsThrottled
<1>10. CASE UNCHANGED ntVars
    BY <1>10 DEF ntVars, ToldInv, ThrottleHolds, IsThrottled
<1> QED
    BY <1>1, <1>3, <1>4, <1>5, <1>6, <1>7, <1>8, <1>9, <1>10 DEF NtNext, TaskFails, InventorySynced

\* The types of rules, goroutines and deliveries.
THEOREM NtTypeCorrect == NtSpec => []NtType
BY NtTypeInit, ToldInit, NtTypeNext, ToldNext, PTL DEF NtSpec

\* The dispatcher keeps the throttle between two deliveries of a rule, unless the second goroutine listed the
\* rules before the first delivery was written, or that writing was lost: for any number of rules, goroutines
\* and edits, and whatever the throttle and the deadline.
THEOREM ThrottleHoldsCorrect == NtSpec => []ThrottleHolds
BY NtTypeInit, ToldInit, NtTypeNext, ToldNext, PTL DEF NtSpec

----------------------------------------------------------------------------
(* Cron: arithmetic of the calendar *)

\* A set of numbers has a least one.
LEMMA LeastIs ==
    ASSUME NEW S, S \subseteq Nat, S # {}
    PROVE  Least(S) \in S /\ \A n \in S : Least(S) <= n
<1>1. \E m \in S : \A n \in S : ~(<<n, m>> \in OpToRel(<, Nat))
    BY NatLessThanWellFounded, WFMin
<1>2. PICK m \in S : \A n \in S : ~(<<n, m>> \in OpToRel(<, Nat))
    BY <1>1
<1>3. ASSUME NEW n \in S PROVE m <= n
    <2>1. n \in Nat /\ m \in Nat
        OBVIOUS
    <2>2. ~(n < m)
        BY <1>2, <2>1 DEF OpToRel
    <2> QED BY <2>1, <2>2
<1> QED BY <1>3 DEF Least

\* Multiples grow.
LEMMA Multiples ==
    ASSUME NEW a \in Nat, NEW b \in Nat, NEW n \in Nat
    PROVE  a * n \in Nat /\ (a <= b => a * n <= b * n)
<1>1. ASSUME a <= b PROVE a * n <= b * n
    <2>1. PICK c \in Nat : b = a + c
        <3>1. b - a \in Nat /\ b = a + (b - a)
            BY <1>1
        <3> QED BY <3>1
    <2>2. b * n = a * n + c * n
        BY <2>1
    <2>3. c * n \in Nat /\ a * n \in Nat
        OBVIOUS
    <2> QED BY <2>2, <2>3
<1> QED BY <1>1

\* What the quotient and the remainder are.
LEMMA Quotient ==
    ASSUME NEW x \in Nat, NEW n \in Nat \ {0}
    PROVE  /\ x \div n \in Nat /\ x % n \in 0..n - 1 /\ x = (x \div n) * n + (x % n)
           /\ (x \div n) * n <= x /\ x < (x \div n + 1) * n
<1> DEFINE q == x \div n
           r == x % n
<1>1. q \in Nat /\ r \in 0..n - 1
    OBVIOUS
<1>2. r = x - n * q
    OBVIOUS
<1> HIDE DEF q, r
<1>3. n * q = q * n /\ (q + 1) * n = q * n + n /\ q * n \in Nat
    BY <1>1
<1>4. x = q * n + r
    BY <1>1, <1>2, <1>3
<1>5. q * n <= x /\ x < (q + 1) * n
    BY <1>1, <1>3, <1>4
<1> QED BY <1>1, <1>4, <1>5 DEF q, r

\* The quotient tells between which multiples a number lies.
LEMMA QuotientBounds ==
    ASSUME NEW x \in Nat, NEW n \in Nat \ {0}, NEW b \in Nat
    PROVE  (x < b * n => x \div n < b) /\ (x >= b * n => x \div n >= b)
<1> DEFINE q == x \div n
<1>1. q \in Nat /\ q * n <= x /\ x < (q + 1) * n
    BY Quotient
<1> HIDE DEF q
<1>2. ASSUME b <= q PROVE b * n <= x
    BY <1>1, <1>2, Multiples
<1>3. ASSUME q + 1 <= b PROVE x < b * n
    <2>1. (q + 1) * n <= b * n /\ (q + 1) * n \in Nat /\ b * n \in Nat
        BY <1>1, <1>3, Multiples
    <2> QED BY <1>1, <2>1
<1>4. b <= q \/ q + 1 <= b
    BY <1>1
<1>5. b * n \in Nat
    BY Multiples
<1>6. x < b * n => q < b
    BY <1>1, <1>2, <1>4, <1>5
<1>7. x >= b * n => q >= b
    BY <1>1, <1>3, <1>4, <1>5
<1> QED BY <1>6, <1>7 DEF q

\* A number is determined by its quotient and its remainder.
LEMMA QuotientIs ==
    ASSUME NEW n \in Nat \ {0}, NEW q \in Nat, NEW r \in 0..n - 1
    PROVE  q * n + r \in Nat /\ (q * n + r) \div n = q /\ (q * n + r) % n = r
<1> DEFINE x == q * n + r
<1>1. q * n \in Nat /\ (q + 1) * n = q * n + n
    BY Multiples
<1>2. x \in Nat /\ q * n <= x /\ x < (q + 1) * n
    BY <1>1
<1> HIDE DEF x
<1> DEFINE p == x \div n
           s == x % n
<1>3. p \in Nat /\ s \in 0..n - 1 /\ x = p * n + s
    BY <1>2, Quotient
<1>4. p >= q /\ p < q + 1
    <2>1. q + 1 \in Nat
        OBVIOUS
    <2> QED BY <1>2, <2>1, QuotientBounds
<1> HIDE DEF p, s
<1>5. p = q
    BY <1>3, <1>4
<1>6. s = r
    <2>1. q * n + s = q * n + r
        BY <1>3, <1>5 DEF x
    <2> QED BY <1>1, <1>3, <2>1
<1> QED BY <1>2, <1>5, <1>6 DEF x, p, s


\* A day lies in one month, which begins before it.
LEMMA MonthOfIs ==
    ASSUME NEW d \in Nat, d < MonthStart[Months]
    PROVE  /\ MonthOf(d) \in 0..Months - 1
           /\ MonthStart[MonthOf(d)] <= d /\ d < MonthStart[MonthOf(d) + 1]
           /\ \A k \in 0..Months : (MonthStart[k] <= d => k <= MonthOf(d)) /\ (d < MonthStart[k] => MonthOf(d) < k)
<1> DEFINE S == {k \in 0..Months : d < MonthStart[k]}
           n == Least(S)
<1>1. Months \in Nat /\ MonthStart \in [0..Months -> Nat] /\ MonthStart[0] = 0
    BY CronAssumption
<1>2. Months \in S /\ S \subseteq Nat
    BY <1>1
<1>3. n \in S /\ \A k \in S : n <= k
    <2> HIDE DEF S
    <2> QED BY <1>2, LeastIs
<1>4. n \in 0..Months /\ d < MonthStart[n] /\ n # 0
    <2>1. n \in 0..Months /\ d < MonthStart[n]
        BY <1>3
    <2> HIDE DEF n
    <2> QED BY <1>1, <2>1
<1>5. \A k \in 0..Months : k < n => MonthStart[k] <= d
    <2> SUFFICES ASSUME NEW k \in 0..Months, k < n PROVE MonthStart[k] <= d
        OBVIOUS
    <2>1. k \notin S
        <3> HIDE DEF S, n
        <3> QED BY <1>3, <1>4
    <2> QED BY <1>1, <2>1
<1> HIDE DEF n, S
<1>6. n - 1 \in 0..Months - 1 /\ MonthStart[n - 1] <= d /\ d < MonthStart[(n - 1) + 1]
    <2>1. n - 1 \in 0..Months - 1 /\ n - 1 \in 0..Months /\ n - 1 < n /\ (n - 1) + 1 = n
        BY <1>1, <1>4
    <2> QED BY <1>4, <1>5, <2>1
<1> DEFINE k0 == MonthOf(d)
<1>7. k0 \in 0..Months - 1 /\ MonthStart[k0] <= d /\ d < MonthStart[k0 + 1]
    BY <1>6 DEF MonthOf
<1> HIDE DEF k0
<1>8. ASSUME NEW k \in 0..Months PROVE (MonthStart[k] <= d => k <= k0) /\ (d < MonthStart[k] => k0 < k)
    <2>1. k0 \in 0..Months /\ k0 + 1 \in 0..Months
        BY <1>1, <1>7
    <2>2. /\ MonthStart[k] \in Nat /\ MonthStart[k0] \in Nat /\ MonthStart[k0 + 1] \in Nat
        BY <1>1, <2>1
    <2>3. k0 + 1 < k => MonthStart[k0 + 1] < MonthStart[k]
        BY <2>1, CronAssumption
    <2>4. k < k0 => MonthStart[k] < MonthStart[k0]
        BY <2>1, CronAssumption
    <2>5. k = k0 + 1 => MonthStart[k] = MonthStart[k0 + 1]
        OBVIOUS
    <2>6. k = k0 => MonthStart[k] = MonthStart[k0]
        OBVIOUS
    <2>7. k0 + 1 < k \/ k = k0 + 1 \/ k = k0 \/ k < k0
        BY <2>1
    <2> DEFINE a == MonthStart[k]
               b == MonthStart[k0]
               c == MonthStart[k0 + 1]
    <2> HIDE DEF a, b, c
    <2>8. a \in Nat /\ b \in Nat /\ c \in Nat /\ b <= d /\ d < c
        BY <1>7, <2>2 DEF a, b, c
    <2>9. (k0 + 1 < k => c < a) /\ (k < k0 => a < b) /\ (k = k0 + 1 => a = c) /\ (k = k0 => a = b)
        BY <2>3, <2>4, <2>5, <2>6 DEF a, b, c
    <2>10. (a <= d => k <= k0) /\ (d < a => k0 < k)
        BY <2>1, <2>7, <2>8, <2>9
    <2> QED BY <2>10 DEF a
<1> QED BY <1>7, <1>8 DEF k0

\* A minute's day, hour and minute.
LEMMA DayNumberIs ==
    ASSUME NEW u \in Nat
    PROVE  /\ MinutesPerDay \in Nat \ {0} /\ DayNumber(u) \in Nat
           /\ \A d \in Nat : /\ u < d * MinutesPerDay => DayNumber(u) < d
                             /\ u >= d * MinutesPerDay => DayNumber(u) >= d
<1>1. MinutesPerHour \in Nat \ {0} /\ HoursPerDay \in Nat \ {0}
    BY CronAssumption
<1>2. MinutesPerHour * HoursPerDay \in Nat /\ 1 * HoursPerDay <= MinutesPerHour * HoursPerDay
    BY <1>1, Multiples
<1>3. MinutesPerDay \in Nat \ {0}
    BY <1>1, <1>2 DEF MinutesPerDay
<1> QED BY <1>3, Quotient, QuotientBounds DEF DayNumber

\* Minutes of one day, and minutes of one hour of a day.
LEMMA SameDay ==
    ASSUME NEW a \in Nat, NEW u \in Nat, a <= u, u < (DayNumber(a) + 1) * MinutesPerDay
    PROVE  DayNumber(u) = DayNumber(a)
<1>1. DayNumber(a) \in Nat /\ DayNumber(u) \in Nat /\ MinutesPerDay \in Nat \ {0}
    BY DayNumberIs
<1>2. DayNumber(a) * MinutesPerDay <= a
    BY <1>1, Quotient DEF DayNumber
<1>3. DayNumber(a) * MinutesPerDay \in Nat
    BY <1>1, Multiples
<1>4. DayNumber(u) >= DayNumber(a)
    BY <1>1, <1>2, <1>3, DayNumberIs
<1>5. DayNumber(u) < DayNumber(a) + 1
    BY <1>1, DayNumberIs
<1> QED BY <1>1, <1>4, <1>5

LEMMA SameHour ==
    ASSUME NEW a \in Nat, NEW u \in Nat, a <= u, u < (a \div MinutesPerHour + 1) * MinutesPerHour
    PROVE  Hour(u) = Hour(a)
<1> DEFINE n == MinutesPerHour
           q == a \div n
<1>1. n \in Nat \ {0}
    BY CronAssumption
<1> HIDE DEF n
<1>2. q \in Nat /\ q * n <= a
    BY <1>1, Quotient
<1> HIDE DEF q
<1>3. q * n \in Nat /\ q * n <= u /\ u < (q + 1) * n /\ q + 1 \in Nat
    BY <1>1, <1>2, Multiples DEF q, n
<1>4. u \div n \in Nat /\ u \div n >= q /\ u \div n < q + 1
    BY <1>1, <1>2, <1>3, Quotient, QuotientBounds
<1>5. u \div n = q
    BY <1>2, <1>4
<1> QED BY <1>5 DEF Hour, n, q


----------------------------------------------------------------------------
(* Cron: NextIsLeast *)

\* Before t nothing matches; the search has ended at a match, or at or beyond the limit.
CronInv ==
    /\ cron.months \subseteq 1..MonthsPerYear /\ cron.months # {}
    /\ from \in 0..MaxFrom /\ t \in Nat /\ t > from
    /\ search \in {"running", "found", "none"}
    /\ \A u \in (from + 1)..(t - 1) : ~Matches(u)
    /\ search = "found" => Matches(t)
    /\ search = "none" => t >= from + 1 + SearchLimit

\* A parsed field has values of its range only.
LEMMA FieldInRange ==
    ASSUME NEW field \in Seq(Parts), NEW min \in Int, NEW max \in Int
    PROVE  parseField(field, min, max) \subseteq min..max
<1>1. ASSUME NEW part \in Parts PROVE parsePart(part, min, max) \subseteq min..max
    <2> DEFINE valid == /\ part.step >= 1
                        /\ part.kind # "star" => part.lo \in min..max
                        /\ part.kind = "range" => part.hi \in part.lo..max
    <2>1. part.kind \in {"star", "range", "value"} /\ part.lo \in Int /\ part.hi \in Int /\ part.step \in Int
        BY DEF Parts
    <2>2. \A lo, hi \in Int : Every(lo, hi, part.step) \subseteq lo..hi
        BY DEF Every
    <2>3. CASE ~valid
        BY <2>3 DEF parsePart, Invalid
    <2>4. CASE valid /\ part.kind = "star"
        <3>1. parsePart(part, min, max) = Every(min, max, part.step)
            BY <2>4 DEF parsePart
        <3> QED BY <2>2, <3>1
    <2>5. CASE valid /\ part.kind = "range"
        <3>1. parsePart(part, min, max) = Every(part.lo, part.hi, part.step)
            BY <2>5 DEF parsePart
        <3>2. Every(part.lo, part.hi, part.step) \subseteq part.lo..part.hi
            BY <2>1, <2>2
        <3>3. part.lo..part.hi \subseteq min..max
            BY <2>1, <2>5
        <3> QED BY <3>1, <3>2, <3>3
    <2>6. CASE valid /\ part.kind = "value"
        <3>1. parsePart(part, min, max) = {part.lo}
            BY <2>6 DEF parsePart
        <3> QED BY <2>6, <3>1
    <2> QED BY <2>1, <2>3, <2>4, <2>5, <2>6
<1> DEFINE parts == {parsePart(field[i], min, max) : i \in DOMAIN field}
<1>2. \A p \in parts : p \subseteq min..max
    BY <1>1
<1>3. parseField(field, min, max) = IF Invalid \in parts THEN Invalid ELSE UNION parts
    BY DEF parseField
<1> HIDE DEF parts
<1>4. UNION parts \subseteq min..max
    BY <1>2
<1> QED BY <1>3, <1>4 DEF Invalid

\* A search starts with nothing before it.
LEMMA CronInvInit == CronInit => CronInv
<1> SUFFICES ASSUME CronInit PROVE CronInv
    OBVIOUS
<1>1. PICK mi \in Fields.minute, h \in Fields.hour, d \in Fields.day, mo \in Fields.month, w \in Fields.weekday :
        cron = ParseCron([minute |-> mi, hour |-> h, day |-> d, month |-> mo, weekday |-> w])
    BY DEF CronInit
<1>2. cron.months = parseField(mo, 1, MonthsPerYear) /\ "months" \in DOMAIN cron
    BY <1>1 DEF ParseCron
<1>3. mo \in Seq(Parts) /\ MonthsPerYear \in Int
    BY CronAssumption
<1>4. cron.months \subseteq 1..MonthsPerYear
    BY <1>2, <1>3, FieldInRange
<1>5. cron.months # {}
    BY <1>2 DEF CronInit, Parsed, Invalid
<1>6. MaxFrom \in Nat
    BY CronAssumption
<1>7. from \in 0..MaxFrom /\ t = from + 1 /\ search = "running"
    BY DEF CronInit
<1>8. (from + 1)..(t - 1) = {} /\ t \in Nat /\ t > from
    BY <1>6, <1>7
<1> QED BY <1>4, <1>5, <1>7, <1>8 DEF CronInv

\* The next month of a set, in this year or at the latest in the next one: the months before it are not in the set.
LEMMA NextMonthIs ==
    ASSUME NEW S, S \subseteq 1..MonthsPerYear, S # {}, NEW k \in Nat, (k % MonthsPerYear) + 1 \notin S,
           NEW y, NEW m,
           LET later == {n \in S : n > (k % MonthsPerYear) + 1}
           IN  IF later # {} THEN y = k \div MonthsPerYear /\ m = Least(later)
                             ELSE y = k \div MonthsPerYear + 1 /\ m = Least(S)
    PROVE  LET n == y * MonthsPerYear + m - 1
           IN  /\ n \in Nat /\ k < n /\ n < k + 2 * MonthsPerYear
               /\ \A j \in k..n - 1 : (j % MonthsPerYear) + 1 \notin S
<1> DEFINE M == MonthsPerYear
           q == k \div M
           r == k % M
           later == {n \in S : n > r + 1}
<1>1. M \in Nat \ {0}
    BY CronAssumption
<1> HIDE DEF M
<1>2. q \in Nat /\ r \in 0..M - 1 /\ k = q * M + r
    BY <1>1, Quotient
<1>3. S \subseteq 1..M /\ r + 1 \notin S
    BY DEF M
<1>4. later \subseteq S
    OBVIOUS
<1>5. IF later # {} THEN y = q /\ m = Least(later) ELSE y = q + 1 /\ m = Least(S)
    BY DEF M
<1> DEFINE a == q * M
<1>6. a \in Nat /\ (q + 1) * M = a + M
    BY <1>1, <1>2, Multiples
<1>7. ASSUME NEW s \in 0..M - 1 PROVE (a + s) % M = s /\ (a + M + s) % M = s
    <2>1. (q * M + s) % M = s
        BY <1>1, <1>2, QuotientIs
    <2>2. q + 1 \in Nat
        BY <1>2
    <2>3. ((q + 1) * M + s) % M = s
        BY <1>1, <2>2, QuotientIs
    <2> QED BY <1>6, <2>1, <2>3
<1>8. \A n \in S : n \in later <=> n > r + 1
    OBVIOUS
<1> HIDE DEF q, r, later, a
<1>9. k = a + r
    BY <1>2 DEF a
<1>10. CASE later # {}
    <2>1. y * M = a /\ m \in later /\ \A n \in later : m <= n
        <3>1. later \subseteq Nat
            BY <1>1, <1>3, <1>4
        <3> QED BY <1>5, <1>10, <3>1, LeastIs DEF a
    <2>2. m \in S /\ m \in 1..M /\ m > r + 1
        BY <1>3, <1>4, <1>8, <2>1
    <2> DEFINE n == y * M + m - 1
    <2>3. n = a + m - 1
        BY <2>1
    <2> HIDE DEF n
    <2>4. n \in Nat /\ k < n /\ n < k + 2 * M
        BY <1>1, <1>2, <1>6, <1>9, <2>2, <2>3
    <2>5. ASSUME NEW j \in k..n - 1 PROVE (j % M) + 1 \notin S
        <3> DEFINE s == j - a
        <3>1. s \in 0..M - 1 /\ j = a + s /\ r + 1 <= s + 1 /\ s + 1 < m
            BY <1>1, <1>2, <1>6, <1>9, <2>2, <2>3
        <3> HIDE DEF s
        <3>2. j % M = s
            BY <1>7, <3>1
        <3>3. ASSUME s + 1 \in S PROVE FALSE
            <4>1. s + 1 # r + 1
                BY <1>3, <3>3
            <4>2. s + 1 > r + 1
                BY <1>2, <3>1, <4>1
            <4>3. s + 1 \in later
                BY <1>8, <3>3, <4>2
            <4>4. m <= s + 1
                BY <2>1, <4>3
            <4> QED BY <2>2, <3>1, <4>4
        <3> QED BY <3>2, <3>3
    <2> QED BY <2>4, <2>5 DEF n, M
<1>11. CASE later = {}
    <2>1. y = q + 1 /\ m \in S /\ \A n \in S : m <= n
        <3>1. S \subseteq Nat
            BY <1>1, <1>3
        <3> QED BY <1>5, <1>11, <3>1, LeastIs
    <2>2. m \in 1..M /\ y * M = a + M
        BY <1>3, <1>6, <2>1
    <2> DEFINE n == y * M + m - 1
    <2>3. n = a + M + m - 1
        BY <2>2
    <2> HIDE DEF n
    <2>4. n \in Nat /\ k < n /\ n < k + 2 * M
        BY <1>1, <1>2, <1>6, <1>9, <2>2, <2>3
    <2>5. ASSUME NEW j \in k..n - 1 PROVE (j % M) + 1 \notin S
        <3>1. CASE j < a + M
            <4> DEFINE s == j - a
            <4>1. s \in 0..M - 1 /\ j = a + s /\ r + 1 <= s + 1
                BY <1>1, <1>2, <1>6, <1>9, <2>2, <2>3, <3>1
            <4> HIDE DEF s
            <4>2. j % M = s
                BY <1>7, <4>1
            <4>3. ASSUME s + 1 \in S PROVE FALSE
                <5>1. s + 1 # r + 1
                    BY <1>3, <4>3
                <5>2. s + 1 > r + 1
                    BY <1>2, <4>1, <5>1
                <5> QED BY <1>8, <1>11, <4>3, <5>2
            <4> QED BY <4>2, <4>3
        <3>2. CASE j >= a + M
            <4> DEFINE s == j - (a + M)
            <4>1. s \in 0..M - 1 /\ j = a + M + s /\ s + 1 < m
                BY <1>1, <1>6, <1>9, <2>2, <2>3, <3>2
            <4> HIDE DEF s
            <4>2. j % M = s
                BY <1>7, <4>1
            <4>3. s + 1 \notin S
                BY <2>1, <2>2, <4>1
            <4> QED BY <4>2, <4>3
        <3>3. j \in Int /\ a + M \in Int
            BY <1>1, <1>6
        <3> QED BY <3>1, <3>2, <3>3
    <2> QED BY <2>4, <2>5 DEF n, M
<1> QED BY <1>10, <1>11


\* The calendar reaches beyond the limit of every search.
LEMMA InCalendar ==
    ASSUME CronInv, Searching
    PROVE  /\ DayNumber(t) \in Nat /\ Months - 2 * MonthsPerYear \in 0..Months
           /\ DayNumber(t) < MonthStart[Months - 2 * MonthsPerYear]
<1> DEFINE last == Months - 2 * MonthsPerYear
<1>1. last \in 0..Months
    BY CronAssumption
<1>2. MonthStart[last] \in Nat /\ MaxFrom + 1 + SearchLimit <= MonthStart[last] * MinutesPerDay
    BY <1>1, CronAssumption
<1>3. SearchLimit \in Nat /\ MaxFrom \in Nat /\ t \in Nat /\ from \in 0..MaxFrom /\ t < from + 1 + SearchLimit
    BY CronAssumption DEF CronInv, Searching
<1> HIDE DEF last
<1>4. MonthStart[last] * MinutesPerDay \in Nat
    BY <1>2, <1>3, DayNumberIs, Multiples
<1> DEFINE n == MonthStart[last] * MinutesPerDay
<1>5. t < n
    <2> HIDE DEF n
    <2>1. n \in Nat /\ MaxFrom + 1 + SearchLimit <= n
        BY <1>2, <1>4 DEF n
    <2> QED BY <1>3, <2>1
<1>6. DayNumber(t) \in Nat /\ DayNumber(t) < MonthStart[last]
    BY <1>2, <1>3, <1>5, DayNumberIs
<1> QED BY <1>1, <1>6 DEF last

\* A jump to a month of the set skips only minutes of months that are not in the set.
LEMMA JumpMonth ==
    ASSUME CronInv, advanceToNextMonth
    PROVE  t' \in Nat /\ t' > t /\ \A u \in t..(t' - 1) : Month(u) \notin cron.months
<1> DEFINE d == DayNumber(t)
           k == MonthOf(d)
           last == Months - 2 * MonthsPerYear
           S == cron.months
           later == {m \in S : m > (k % MonthsPerYear) + 1}
           y == IF later # {} THEN k \div MonthsPerYear ELSE k \div MonthsPerYear + 1
           m == IF later # {} THEN Least(later) ELSE Least(S)
           n == y * MonthsPerYear + m - 1
<1>1. /\ Searching /\ Month(t) \notin S
      /\ t \in Nat /\ S \subseteq 1..MonthsPerYear /\ S # {}
    BY DEF CronInv, advanceToNextMonth, MonthOK
<1>2. t' = MonthStart[n] * MinutesPerDay
    BY DEF advanceToNextMonth, Month, Year, FirstOf
<1>3. (k % MonthsPerYear) + 1 \notin S
    BY <1>1 DEF Month
<1>4. d \in Nat /\ last \in 0..Months /\ d < MonthStart[last]
    BY <1>1, InCalendar
<1>5. Months \in Nat /\ MonthsPerYear \in Nat \ {0} /\ MonthStart \in [0..Months -> Nat]
    BY CronAssumption
<1> DEFINE f == MonthStart[last]
<1>6. d < MonthStart[Months]
    <2>1. last < Months => MonthStart[last] < MonthStart[Months]
        BY <1>4, <1>5, CronAssumption
    <2>2. last = Months => MonthStart[last] = MonthStart[Months]
        OBVIOUS
    <2>3. last < Months \/ last = Months
        BY <1>4, <1>5
    <2>4. MonthStart[last] \in Nat /\ MonthStart[Months] \in Nat
        BY <1>4, <1>5
    <2> HIDE DEF d, last
    <2> QED BY <1>4, <2>1, <2>2, <2>3, <2>4
<1> HIDE DEF d
<1>7. k \in 0..Months - 1 /\ k < last /\ MonthStart[k] <= d
    <2> HIDE DEF last
    <2> QED BY <1>4, <1>6, MonthOfIs
<1> HIDE DEF k
<1>8. n \in Nat /\ k < n /\ n < k + 2 * MonthsPerYear /\ \A j \in k..n - 1 : (j % MonthsPerYear) + 1 \notin S
    <2>1. k \in Nat
        BY <1>5, <1>7
    <2>2. IF later # {} THEN y = k \div MonthsPerYear /\ m = Least(later)
                        ELSE y = k \div MonthsPerYear + 1 /\ m = Least(S)
        OBVIOUS
    <2> HIDE DEF y, m, S
    <2> QED BY <1>1, <1>3, <2>1, <2>2, NextMonthIs
<1> HIDE DEF n, last, later, y, m
<1>9. n \in 0..Months /\ MonthStart[n] \in Nat
    BY <1>5, <1>7, <1>8 DEF last
<1>10. MonthStart[n] * MinutesPerDay \in Nat /\ MinutesPerDay \in Nat \ {0}
    BY <1>1, <1>9, DayNumberIs, Multiples
<1>11. t' \in Nat
    BY <1>2, <1>10
<1>12. MonthStart[n] > d
    <2>1. MonthStart[n] <= d => n <= k
        BY <1>4, <1>6, <1>9, MonthOfIs DEF k
    <2> QED BY <1>4, <1>7, <1>8, <1>9, <2>1
<1>13. t' > t
    <2>1. t < MonthStart[n] * MinutesPerDay \/ DayNumber(t) >= MonthStart[n]
        BY <1>1, <1>9, <1>10, DayNumberIs
    <2> QED BY <1>1, <1>2, <1>4, <1>9, <1>11, <1>12, <2>1 DEF d
<1>14. ASSUME NEW u \in t..(t' - 1) PROVE Month(u) \notin S
    <2> DEFINE e == DayNumber(u)
    <2>1. u \in Nat /\ t <= u /\ u < MonthStart[n] * MinutesPerDay
        BY <1>1, <1>2, <1>11
    <2>2. e \in Nat /\ e < MonthStart[n]
        BY <1>9, <2>1, DayNumberIs
    <2>3. e >= d
        <3>1. d * MinutesPerDay <= t /\ d * MinutesPerDay \in Nat
            BY <1>1, <1>4, <1>10, Quotient, Multiples DEF d, DayNumber
        <3>2. u >= d * MinutesPerDay
            BY <1>1, <2>1, <3>1
        <3> QED BY <1>4, <2>1, <3>2, DayNumberIs
    <2>4. e < MonthStart[Months] /\ MonthStart[k] <= e
        <3>1. n < Months => MonthStart[n] < MonthStart[Months]
            BY <1>5, <1>9, CronAssumption
        <3>2. n = Months => MonthStart[n] = MonthStart[Months]
            OBVIOUS
        <3>3. n < Months \/ n = Months
            BY <1>5, <1>9
        <3>4. MonthStart[Months] \in Nat /\ MonthStart[k] \in Nat
            BY <1>5, <1>7
        <3> HIDE DEF e
        <3> QED BY <1>4, <1>7, <1>9, <2>2, <2>3, <3>1, <3>2, <3>3, <3>4
    <2> HIDE DEF e
    <2> DEFINE j == MonthOf(e)
    <2>5. j \in 0..Months - 1 /\ k <= j /\ j < n
        BY <1>5, <1>7, <1>9, <2>2, <2>4, MonthOfIs
    <2> HIDE DEF j
    <2>6. (j % MonthsPerYear) + 1 \notin S
        <3>1. j \in k..n - 1
            BY <1>7, <1>8, <2>5
        <3> QED BY <1>8, <3>1
    <2> QED BY <2>6 DEF Month, j, e
<1> QED BY <1>11, <1>13, <1>14


\* Every iteration of the search.
LEMMA CronInvNext == CronInv /\ [CronNext]_cronVars => CronInv'
<1> SUFFICES ASSUME CronInv, [CronNext]_cronVars PROVE CronInv'
    OBVIOUS
<1>1. /\ cron.months \subseteq 1..MonthsPerYear /\ cron.months # {}
      /\ from \in 0..MaxFrom /\ from \in Nat /\ t \in Nat /\ t > from
      /\ \A u \in (from + 1)..(t - 1) : ~Matches(u)
    BY CronAssumption DEF CronInv
<1>2. ASSUME UNCHANGED <<cron, from, search>>, search = "running", t' \in Nat, t' > t,
             \A u \in t..(t' - 1) : ~Matches(u)
      PROVE  CronInv'
    <2>1. \A u \in (from + 1)..(t' - 1) : ~Matches(u)
        <3> TAKE u \in (from + 1)..(t' - 1)
        <3> DEFINE n == t'
        <3>1. from \in Nat /\ t \in Nat /\ n \in Nat /\ u \in (from + 1)..(n - 1)
            BY <1>1, <1>2
        <3> HIDE DEF n
        <3>2. u \in (from + 1)..(t - 1) \/ u \in t..(n - 1)
            BY <3>1
        <3> QED BY <1>1, <1>2, <3>2 DEF n
    <2>2. \A u \in (from' + 1)..(t' - 1) : ~Matches(u)'
        BY <1>2, <2>1 DEF Matches
    <2>3. t' > from'
        BY <1>1, <1>2
    <2> QED BY <1>1, <1>2, <2>2, <2>3 DEF CronInv, Matches
<1>3. CASE UNCHANGED cronVars
    <2>1. \A u \in (from' + 1)..(t' - 1) : ~Matches(u)'
        BY <1>1, <1>3 DEF cronVars, Matches
    <2>2. Matches(t)' <=> Matches(t)
        BY <1>3 DEF cronVars, Matches
    <2> QED BY <1>1, <1>3, <2>1, <2>2 DEF cronVars, CronInv
<1>4. CASE advanceToNextMonth
    <2>1. t' \in Nat /\ t' > t /\ \A u \in t..(t' - 1) : Month(u) \notin cron.months
        BY <1>4, JumpMonth
    <2>2. UNCHANGED <<cron, from, search>> /\ search = "running"
        BY <1>4 DEF advanceToNextMonth, Searching
    <2> QED BY <1>2, <2>1, <2>2 DEF Matches
<1>5. CASE nextDay
    <2>1. UNCHANGED <<cron, from, search>> /\ search = "running" /\ ~DayOK /\ t' = (DayNumber(t) + 1) * MinutesPerDay
        BY <1>5 DEF nextDay, Searching
    <2>2. MinutesPerDay \in Nat \ {0} /\ DayNumber(t) + 1 \in Nat
        BY <1>1, DayNumberIs
    <2>3. t' \in Nat
        BY <2>1, <2>2, Multiples
    <2>4. t' > t
        BY <1>1, <2>1, <2>2, Quotient DEF DayNumber
    <2>5. ASSUME NEW u \in t..(t' - 1) PROVE ~Matches(u)
        <3>1. u \in Nat /\ t <= u /\ u < (DayNumber(t) + 1) * MinutesPerDay
            BY <1>1, <2>1, <2>3
        <3>2. DayNumber(u) = DayNumber(t)
            BY <1>1, <3>1, SameDay
        <3>3. Day(u) = Day(t) /\ Weekday(u) = Weekday(t)
            BY <3>2 DEF Day, Weekday
        <3> QED BY <2>1, <3>3 DEF DayOK, Matches
    <2> QED BY <1>2, <2>1, <2>3, <2>4, <2>5
<1>6. CASE nextHour
    <2>1. /\ UNCHANGED <<cron, from, search>> /\ search = "running" /\ ~HourOK
          /\ t' = (t \div MinutesPerHour + 1) * MinutesPerHour
        BY <1>6 DEF nextHour, Searching
    <2>2. MinutesPerHour \in Nat \ {0}
        BY CronAssumption
    <2>3. t \div MinutesPerHour + 1 \in Nat /\ t < (t \div MinutesPerHour + 1) * MinutesPerHour
        BY <1>1, <2>2, Quotient
    <2>4. t' \in Nat /\ t' > t
        <3>1. (t \div MinutesPerHour + 1) * MinutesPerHour \in Nat
            BY <2>2, <2>3, Multiples
        <3> QED BY <2>1, <2>3, <3>1
    <2>5. ASSUME NEW u \in t..(t' - 1) PROVE ~Matches(u)
        <3>1. u \in Nat /\ t <= u /\ u < t'
            <4> DEFINE n == t'
            <4>1. t \in Nat /\ n \in Nat /\ u \in t..(n - 1)
                BY <1>1, <2>4
            <4> HIDE DEF n
            <4>2. u \in Nat /\ t <= u /\ u < n
                BY <4>1
            <4> QED BY <4>2 DEF n
        <3>2. Hour(u) = Hour(t)
            BY <1>1, <2>1, <3>1, SameHour
        <3> QED BY <2>1, <3>2 DEF HourOK, Matches
    <2> QED BY <1>2, <2>1, <2>4, <2>5
<1>7. CASE nextMinute
    <2>1. /\ UNCHANGED <<cron, from, search>> /\ search = "running" /\ Minute(t) \notin cron.minutes /\ t' = t + 1
        BY <1>7 DEF nextMinute, Searching
    <2>2. t' \in Nat /\ t' > t /\ \A u \in t..(t' - 1) : u = t
        BY <1>1, <2>1
    <2>3. ~Matches(t)
        BY <2>1 DEF Matches
    <2> QED BY <1>2, <2>1, <2>2, <2>3
<1>8. CASE found
    <2>1. UNCHANGED <<cron, from, t>> /\ search' = "found" /\ Matches(t)
        BY <1>8 DEF found, MonthOK, DayOK, HourOK, Matches
    <2>2. \A u \in (from' + 1)..(t' - 1) : ~Matches(u)'
        BY <1>1, <2>1 DEF Matches
    <2>3. Matches(t)'
        BY <2>1 DEF Matches
    <2> QED BY <1>1, <2>1, <2>2, <2>3 DEF CronInv
<1>9. CASE noMatch
    <2>1. UNCHANGED <<cron, from, t>> /\ search' = "none" /\ ~(t < from + 1 + SearchLimit) /\ SearchLimit \in Nat
        BY <1>9, CronAssumption DEF noMatch
    <2>2. \A u \in (from' + 1)..(t' - 1) : ~Matches(u)'
        BY <1>1, <2>1 DEF Matches
    <2> QED BY <1>1, <2>1, <2>2 DEF CronInv
<1> QED BY <1>3, <1>4, <1>5, <1>6, <1>7, <1>8, <1>9 DEF CronNext

\* CronSchedule.Next returns the least matching minute after its argument, whatever is jumped over on the way, and
\* none only when none lies within the limit: for every cron expression, any calendar whose years may differ in
\* length, and every start.
THEOREM NextIsLeastCorrect == CronSpec => []NextIsLeast
<1>1. CronInv => NextIsLeast
    <2> SUFFICES ASSUME CronInv PROVE NextIsLeast
        OBVIOUS
    <2>1. /\ from \in Nat /\ t \in Nat /\ SearchLimit \in Nat /\ \A u \in (from + 1)..(t - 1) : ~Matches(u)
          /\ search = "found" => Matches(t)
        BY CronAssumption DEF CronInv
    <2>2. ASSUME search = "none", NEW u \in (from + 1)..(from + SearchLimit) PROVE ~Matches(u)
        <3>1. t >= from + 1 + SearchLimit
            BY <2>2 DEF CronInv
        <3>2. u \in (from + 1)..(t - 1)
            BY <2>1, <3>1
        <3> QED BY <2>1, <3>2
    <2> QED BY <2>1, <2>2 DEF NextIsLeast
<1> QED BY <1>1, CronInvInit, CronInvNext, PTL DEF CronSpec


=============================================================================
