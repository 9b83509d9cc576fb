---------------------------- MODULE MCApprovals ----------------------------
(* Small instances of Approvals: a write action and a read action. *)
EXTENDS Approvals

CONSTANTS w1, r1, write, read, h1, h2

MCActionOf == [e \in Executions |-> IF e = r1 THEN read ELSE write]
=============================================================================
