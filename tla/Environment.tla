----------------------------- MODULE Environment -----------------------------
(***************************************************************************)
(* service/environment_service.go and environment_repo.go: one environment *)
(* row, its member VMs with their start and stop order, the dependencies   *)
(* between VMs, and a request that works on a copy of them: an update that *)
(* saves the row it has read, or an orchestration that plans its steps.    *)
(* Module Orchestration executes such a plan.                              *)
(***************************************************************************)
EXTENDS Integers, FiniteSets, SequencesExt

CONSTANTS VMs,         \* the VMs that may become members
          Orderings,   \* values of [start, stop], the member's StartOrder and StopOrder
          Operations,  \* orchestrations requested, of start, stop, restart, snapshot and clone
          Links        \* dependencies that may be added: [source, target, type]

ASSUME EnvironmentAssumption == Orderings \subseteq [start : Int, stop : Int]

VARIABLES env,         \* the environment row: its status, or NoEnv
          members,     \* the environment_vms rows: member VM -> its ordering
          deps,        \* the vm_dependencies rows
          req          \* the request in progress, with the copies it has read

envVars == <<env, members, deps, req>>

NoEnv == "none"
Ready == [pc |-> "idle"]
NoMembers == [v \in {} |-> 0]

EnvInit == env = NoEnv /\ members = NoMembers /\ deps = {} /\ req = Ready

\* While a plan is computed nothing that others write matters: it has read all it needs.
Editable == req.pc \notin {"sort", "planned"}

----------------------------------------------------------------------------
(* The rows *)

\* The rows ms, and those of ns for VMs that have none in ms.
Rows(ms, ns) == [v \in DOMAIN ms \cup DOMAIN ns |-> IF v \in DOMAIN ms THEN ms[v] ELSE ns[v]]

EnvCreate == /\ Editable /\ env = NoEnv
             /\ env' = "unknown"
             /\ UNCHANGED <<members, deps, req>>

\* The repository preloads the members.
EnvUpdate == /\ env # NoEnv /\ req = Ready
             /\ req' = [pc |-> "update", env |-> env, members |-> members]
             /\ UNCHANGED <<env, members, deps>>

\* Save writes every column of the copy and inserts the preloaded members that are gone; a row that was
\* deleted in the meantime is inserted again.
EnvUpdateSave == /\ req.pc = "update"
                 /\ env' = req.env
                 /\ members' = Rows(members, req.members)
                 /\ req' = Ready
                 /\ UNCHANGED deps

\* One transaction, with the dependencies and the members (and the runs and their steps).
EnvDelete == /\ Editable /\ env # NoEnv
             /\ env' = NoEnv /\ members' = NoMembers /\ deps' = {}
             /\ UNCHANGED req

\* An upsert; the status is refreshed by a goroutine.
EnvAddVM(v, o) == /\ Editable /\ env # NoEnv
                  /\ members' = Rows([u \in {v} |-> o], members)
                  /\ UNCHANGED <<env, deps, req>>

\* Dependencies of the VM are listed after the member is gone and deleted one by one; neither an error
\* nor one that is added in between stops the request, so some may stay.
EnvRemoveVM(v, stay) == /\ Editable /\ v \in DOMAIN members
                        /\ stay \subseteq {d \in deps : v \in {d.source, d.target}}
                        /\ members' = [u \in DOMAIN members \ {v} |-> members[u]]
                        /\ deps' = {d \in deps : v \notin {d.source, d.target}} \cup stay
                        /\ UNCHANGED <<env, req>>

EnvUpdateVMOrdering(v, o) == /\ Editable /\ v \in DOMAIN members
                             /\ members' = [members EXCEPT ![v] = o]
                             /\ UNCHANGED <<env, deps, req>>

\* Neither VM has to be a member; the foreign key asks for the environment.
EnvAddDependency(d) == /\ Editable /\ env # NoEnv
                       /\ d.source # d.target
                       /\ d \notin deps
                       /\ deps' = deps \cup {d}
                       /\ UNCHANGED <<env, members, req>>

EnvRemoveDependency(d) == /\ Editable /\ d \in deps
                          /\ deps' = deps \ {d}
                          /\ UNCHANGED <<env, members, req>>

\* The aggregate of the VMs' power states, as others have left them in the VM rows.
Aggregate(vms, power) == LET In(s) == {v \in vms : power[v] = s}
                         IN  IF vms = {}              THEN "unknown"
                             ELSE IF In("error") # {} THEN "unhealthy"
                             ELSE IF In("running") = vms THEN "healthy"
                             ELSE IF In("running") # {} THEN "degraded"
                             ELSE "unknown"

EnvRefreshStatus == /\ Editable /\ env # NoEnv
                    /\ \E power \in [DOMAIN members -> {"running", "stopped", "error"}] :
                         env' = Aggregate(DOMAIN members, power)
                    /\ UNCHANGED <<members, deps, req>>

----------------------------------------------------------------------------
(* createOrchestrationRun: the execution order *)

\* What sort.Slice, which is not stable, may return for S.
Sorted(S, less) == {s \in SetToSeqs(S) : \A i, j \in DOMAIN s : i < j => <<s[j], s[i]>> \notin less}

ByStart(ms, S) == Sorted(S, {p \in S \X S : ms[p[1]].start < ms[p[2]].start})
ByStop(ms, S)  == Sorted(S, {p \in S \X S : ms[p[1]].stop > ms[p[2]].stop})

Ordering(d, ms) == /\ d.type \in {"start_before", "requires"}
                   /\ {d.source, d.target} \subseteq DOMAIN ms

\* Mutant: the edge points from the VM that needs the other to the other.
EdgesReversed(ms, ds) == {[d EXCEPT !.source = d.target, !.target = d.source] : d \in {e \in ds : Ordering(e, ms)}}

\* The dependencies that order a start, between members; the edge leads from the target to the source.
Edges(ms, ds) == {d \in ds : Ordering(d, ms)}

\* The environment must exist and have members.
PlanMembers(op) == /\ req = Ready /\ env # NoEnv /\ members # NoMembers
                   /\ req' = [pc |-> "members", op |-> op, members |-> members]
                   /\ UNCHANGED <<env, members, deps>>

\* Kahn's algorithm: the VMs without an incoming edge open the queue. A stop looks at no dependency.
PlanDependencies ==
    LET ms  == req.members
        es  == Edges(ms, deps)
        deg == [v \in DOMAIN ms |-> Cardinality({d \in es : d.source = v})]
    IN  /\ req.pc = "members"
        /\ IF req.op = "stop"
           THEN \E r \in ByStop(ms, DOMAIN ms) :
                  req' = [pc |-> "planned", op |-> req.op, members |-> ms, deps |-> deps, result |-> r]
           ELSE \E q \in ByStart(ms, {v \in DOMAIN ms : deg[v] = 0}) :
                  req' = [pc |-> "sort", op |-> req.op, members |-> ms, deps |-> deps,
                          edges |-> es, deg |-> deg, queue |-> q, result |-> << >>]
        /\ UNCHANGED <<env, members, deps>>

\* The first of the queue is next, and the neighbours it releases join the queue.
PlanNext ==
    LET cur   == Head(req.queue)
        out   == [v \in DOMAIN req.members |-> Cardinality({d \in req.edges : d.target = cur /\ d.source = v})]
        freed == {v \in DOMAIN req.members : out[v] > 0 /\ req.deg[v] = out[v]}
    IN  /\ req.pc = "sort" /\ req.queue # << >>
        /\ \E q \in ByStart(req.members, freed) :
             req' = [req EXCEPT !.queue = Tail(req.queue) \o q,
                                !.result = Append(req.result, cur),
                                !.deg = [v \in DOMAIN req.members |-> req.deg[v] - out[v]]]
        /\ UNCHANGED <<env, members, deps>>

\* What a cycle holds back comes last.
PlanRest ==
    /\ req.pc = "sort" /\ req.queue = << >>
    /\ \E r \in ByStart(req.members, DOMAIN req.members \ Range(req.result)) :
         req' = [pc |-> "planned", op |-> req.op, members |-> req.members, deps |-> req.deps,
                 result |-> req.result \o r]
    /\ UNCHANGED <<env, members, deps>>

\* The run, its steps in this order and the parent task are created (Orchestration).
PlanDone == /\ req.pc = "planned"
            /\ req' = Ready
            /\ UNCHANGED <<env, members, deps>>

EnvNext == \/ EnvCreate \/ EnvUpdate \/ EnvUpdateSave \/ EnvDelete \/ EnvRefreshStatus
           \/ \E v \in VMs, o \in Orderings : EnvAddVM(v, o) \/ EnvUpdateVMOrdering(v, o)
           \/ \E v \in VMs, stay \in SUBSET deps : EnvRemoveVM(v, stay)
           \/ \E d \in Links : EnvAddDependency(d) \/ EnvRemoveDependency(d)
           \/ \E op \in Operations : PlanMembers(op)
           \/ PlanDependencies \/ PlanNext \/ PlanRest \/ PlanDone

EnvSpec == EnvInit /\ [][EnvNext]_envVars

----------------------------------------------------------------------------
(* Properties *)

\* The VMs of a plan that are on a cycle of dependencies or wait for one that is: each waits for another of them.
Stuck(ms, es) == UNION {C \in SUBSET DOMAIN ms : \A v \in C : \E d \in es : d.source = v /\ d.target \in C}

Pos(s, v) == CHOOSE i \in DOMAIN s : s[i] = v

\* Whatever was added, removed and reordered before, a plan names every member that it read once; for a
\* stop in descending stop order, otherwise with each VM after all the VMs it depends on, except where a
\* cycle of dependencies makes that impossible, and the VMs a cycle holds back come last.
OrderRespected ==
    req.pc = "planned" =>
      LET ms == req.members  r == req.result  es == {d \in req.deps : Ordering(d, ms)}
          stuck == Stuck(ms, es)
      IN  /\ Len(r) = Cardinality(DOMAIN ms) /\ Range(r) = DOMAIN ms
          /\ IF req.op = "stop"
             THEN \A i, j \in DOMAIN r : i < j => ms[r[i]].stop >= ms[r[j]].stop
             ELSE /\ \A d \in es : d.target \notin stuck => Pos(r, d.target) < Pos(r, d.source)
                  /\ \A u \in DOMAIN ms \ stuck, v \in stuck : Pos(r, u) < Pos(r, v)

=============================================================================
