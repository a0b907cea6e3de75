------------------------- MODULE MCProviderSession -------------------------
(***************************************************************************)
(* A small instance of ProviderSession for TLC.                            *)
(***************************************************************************)
EXTENDS ProviderSession, TLC

\* Sessions one after another may be of every kind, with four connections and
\* a fault; those that overlap are of three kinds, with three connections and
\* no fault: one that operates, one that only looks and one that never
\* connects.
Contained ==
  overlapped => /\ \A s \in Sessions : kind[s] \in {"none", "powerOn", "console", "delete"}
                /\ dials <= 3 /\ faults = 0

Symmetry == Permutations(Sessions) \cup Permutations(Hypervisors)

=============================================================================
