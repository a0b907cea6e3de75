---------------------------- MODULE MCTaskEngine ----------------------------
(***************************************************************************)
(* Small instances of TaskEngine for TLC.                                  *)
(***************************************************************************)
EXTENDS TaskEngine, TLC

CONSTANTS t1, t2, h1

\* t1 is a power operation (enqueued with priority 3, column 5), t2 is enqueued with its column's value;
\* the values are folded onto two lists, and 9 and 0 exercise the clamp.
MCApiPriority == (t1 :> 0) @@ (t2 :> 2)
MCPriority == (t1 :> 9) @@ (t2 :> 2)

\* The tasks share a hypervisor.
MCHypervisorOf == (t1 :> h1) @@ (t2 :> h1)

\* t2 has no hypervisor.
MCHypervisorOfOne == (t1 :> h1) @@ (t2 :> NoHypervisor)

MCMaxRetries == (t1 :> 2) @@ (t2 :> 1)

\* An instance with one task.
MCPriority1 == t1 :> 9
MCApiPriority1 == t1 :> 0
MCHypervisorOf1 == t1 :> h1
MCMaxRetries1 == t1 :> 2

\* While there is one task every fault may happen once; with both there are handler failures and a crash,
\* one of each at most.
Contained == (\A t \in Tasks : api[t] # "none") =>
                 cancels = 0 /\ faults = 0 /\ \A t \in Tasks : failures[t] > 0 => \A u \in Tasks \ {t} : failures[u] = 0

Symmetry == Permutations(Workers)

=============================================================================
