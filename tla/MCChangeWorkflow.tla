-------------------------- MODULE MCChangeWorkflow --------------------------
(* Model values of ChangeWorkflow for TLC. *)
EXTENDS ChangeWorkflowInvariant, TLC

CONSTANTS r1, r2, p1

MCRequests == {r1, r2}
MCProducts == {p1}
MCQuantities == {1}
Symmetry == Permutations(MCRequests)
=============================================================================
