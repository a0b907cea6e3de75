--------------------------- MODULE MCOrchestration ---------------------------
(***************************************************************************)
(* The tasks made of other tasks: an environment's plan, the pool that     *)
(* executes bulk and environment parents, and a provisioning job.  They    *)
(* meet in the plan's result only (KidsOf is such a sequence), so a        *)
(* behaviour runs one of them and the others rest.                         *)
(***************************************************************************)
EXTENDS Environment, Orchestration, Provisioning

CONSTANT Parts

VARIABLE part

Init == /\ part \in Parts /\ EnvInit /\ PoolInit /\ JobInit
        /\ part # "pool" => scene = CHOOSE s \in Scenes : TRUE

Next == \/ part = "plan" /\ EnvNext  /\ UNCHANGED <<part, poolVars, jobVars>>
        \/ part = "pool" /\ PoolNext /\ UNCHANGED <<part, envVars, jobVars>>
        \/ part = "job"  /\ JobNext  /\ UNCHANGED <<part, envVars, poolVars>>

Spec == Init /\ [][Next]_<<part, envVars, poolVars, jobVars>>

FairSpec == Init /\ [][Next]_<<part, envVars, poolVars, jobVars>> /\ PoolFairness

\* VM b needs a, and b and c need each other: a cycle behind a when all are added.
Link(s, t, y) == [source |-> s, target |-> t, type |-> y]
MCLinks == {Link("b", "a", "start_before"), Link("c", "b", "requires"), Link("b", "c", "start_before"),
            Link("c", "a", "stop_after")}
MCOrderings == {[start |-> 0, stop |-> 1], [start |-> 1, stop |-> 0]}

MCKidsOf == [p \in Parents |-> IF p = "e2" THEN <<"k2">> ELSE IF p \in {"b1", "e1"} THEN <<"k1">> ELSE <<"k1", "k2">>]

\* One bulk task of two VMs, one of a single VM with two upsets, one environment of two steps with two
\* upsets, and two environments that hold both workers.
MCScenes == {[parents |-> {"b"}, upsets |-> 0], [parents |-> {"b1"}, upsets |-> 2],
             [parents |-> {"e"}, upsets |-> 2], [parents |-> {"e1", "e2"}, upsets |-> 0]}
LivenessScenes == {[parents |-> {"b1"}, upsets |-> 1], [parents |-> {"e"}, upsets |-> 1],
                   [parents |-> {"e1", "e2"}, upsets |-> 0]}

=============================================================================
