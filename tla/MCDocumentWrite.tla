-------------------------- MODULE MCDocumentWrite --------------------------
(* Small instances of DocumentWrite. *)
EXTENDS DocumentWrite, TLC

CONSTANTS e1, e2

ExecutionSymmetry == Permutations(Executions)
=============================================================================
