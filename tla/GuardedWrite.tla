---------------------------- MODULE GuardedWrite ----------------------------
(***************************************************************************)
(* What the action pipeline and the approval service promise together:     *)
(* an execution is granted or refused at most once and for good, and only  *)
(* a granted one makes its side effect, once.                              *)
(***************************************************************************)
CONSTANT Executions
VARIABLES verdict, performed

GuardedWriteInit ==
  /\ verdict = [e \in Executions |-> "open"]
  /\ performed = {}

Grant(e) ==
  /\ verdict[e] = "open"
  /\ verdict' = [verdict EXCEPT ![e] = "granted"]
  /\ UNCHANGED performed

Refuse(e) ==
  /\ verdict[e] = "open"
  /\ verdict' = [verdict EXCEPT ![e] = "refused"]
  /\ UNCHANGED performed

Perform(e) ==
  /\ verdict[e] = "granted"
  /\ e \notin performed
  /\ performed' = performed \union {e}
  /\ UNCHANGED verdict

GuardedWriteNext == \E e \in Executions : Grant(e) \/ Refuse(e) \/ Perform(e)

GuardedWriteSpec ==
  GuardedWriteInit /\ [][GuardedWriteNext]_<<verdict, performed>>
=============================================================================
