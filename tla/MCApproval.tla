----------------------------- MODULE MCApproval -----------------------------
(***************************************************************************)
(* Small instances of Approval for TLC.                                    *)
(***************************************************************************)
EXTENDS Approval, TLC

CONSTANTS r1

\* A chain of three steps.
MCConfigured == (r1 :> 3)

Symmetry == Permutations(Actors)

=============================================================================
