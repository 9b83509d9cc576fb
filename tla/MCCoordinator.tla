--------------------------- MODULE MCCoordinator ---------------------------
(***************************************************************************)
(* Coordinator for TLC.  Callers that may ask for the same operations are  *)
(* interchangeable, and so are the lives of one id.                        *)
(***************************************************************************)
EXTENDS Coordinator, TLC

Symmetry == Permutations(Callers) \cup Permutations(Lives)
=============================================================================
