--------------------------- MODULE ApprovalsProofs ---------------------------
(***************************************************************************)
(* Proofs about Approvals, for every set of executions, action names and   *)
(* hooks and every number of crashes.                                      *)
(***************************************************************************)
EXTENDS Approvals, TLAPS

(***************************************************************************)
(* The strengthening.  Coherent relates, for one execution, the stage of   *)
(* its pipeline, its journal row and its approval row; it is what rules    *)
(* out a second entry of the executor and a grant after a refusal.         *)
(***************************************************************************)
Coherent(e) ==
  /\ pc[e] = "policy" => journal[e] = "proposed"
  /\ pc[e] = "suspended" => journal[e] = "awaiting-approval"
  /\ pc[e] \in {"policy", "suspended"} => approval[e].state = "none"
  /\ pc[e] \in Executor => journal[e] = "running" /\ starts[e] > 0
  /\ pc[e] \in Live => e \in inflight \union aborted
  /\ mode = "booting" => pc[e] = "idle"
  /\ journal[e] \in {"absent", "proposed"} => approval[e].state = "none"
  /\ journal[e] \in {"absent", "proposed", "awaiting-approval"} => starts[e] = 0
  /\ journal[e] = "awaiting-approval" => "deny" \notin said[e]
  /\ approval[e].state = "pending" /\ e \notin overdue => journal[e] = "awaiting-approval"
  /\ following = e => /\ mode = "up"
                      /\ approval[e].state # "none"
                      /\ approval[e].state \in Outcomes \/ e \in overdue
  /\ e \in committed => starts[e] > 0
  /\ told[e] \subseteq {journal[e]} \intersect Terminal

IInv ==
  /\ TypeOK
  /\ \A e \in Executions : Coherent(e)
  /\ ExecutorEnteredAtMostOnce
  /\ EnteredOnlyWhenAuthorized
  /\ UnloadedPipelinesAreAborted

USE DEF Terminal, Executor, Live, Outcomes, Refusals

-----------------------------------------------------------------------------
(***************************************************************************)
(* Types.                                                                  *)
(***************************************************************************)
LEMMA InitTypeOK == Init => TypeOK
<1> SUFFICES ASSUME Init PROVE TypeOK
  OBVIOUS
<1>1. RowsTypeOK
  BY DEF Init, ActionsInit, RowsTypeOK, ActionStates, Stages
<1>2. PolicyTypeOK
  BY DEF Init, ActionsInit, PolicyTypeOK
<1>3. ProcessTypeOK
  <2>1. 0 \in 0..MaxCrashes
    BY ActionsAssumption DEF ActionsAssumption
  <2> QED
    BY <2>1 DEF Init, ActionsInit, ProcessTypeOK
<1>5. SignalTypeOK
  BY DEF Init, ActionsInit, SignalTypeOK
<1>4. ApprovalTypeOK
  BY DEF Init, ApprovalTypeOK, ApprovalStates
<1> QED
  BY <1>1, <1>2, <1>3, <1>4, <1>5 DEF TypeOK

\* What Return and Throw do to the row: one outcome, journaled and told, or,
\* when journaling throws, nothing.
LEMMA Ending ==
  ASSUME NEW e \in Executions, Return(e) \/ Throw(e)
  PROVE  \E outcome \in Terminal :
           \/ Journal(e, outcome) /\ Tell(e, outcome)
           \/ UNCHANGED <<journal, told>>
  BY DEF Return, Throw

LEMMA EndingTypeOK ==
  ASSUME TypeOK, NEW e \in Executions, Return(e) \/ Throw(e)
  PROVE  RowsTypeOK'
<1>1. PICK outcome \in Terminal :
        \/ Journal(e, outcome) /\ Tell(e, outcome)
        \/ UNCHANGED <<journal, told>>
  BY Ending
<1>2. journal' \in [Executions -> ActionStates]
  BY <1>1 DEF Journal, TypeOK, RowsTypeOK, ActionStates
<1>3. told' \in [Executions -> SUBSET Terminal]
  BY <1>1 DEF Tell, TypeOK, RowsTypeOK
<1>4. pc' \in [Executions -> Stages] /\ UNCHANGED <<committed, audited, starts>>
  BY DEF Return, Throw, Finish, TypeOK, RowsTypeOK, Stages
<1> QED
  BY <1>2, <1>3, <1>4 DEF TypeOK, RowsTypeOK

LEMMA CrashProcessTypeOK ==
  ASSUME TypeOK, Crash
  PROVE  ProcessTypeOK'
<1>1. crashes \in 0..MaxCrashes /\ crashes < MaxCrashes /\ crashes' = crashes + 1
  BY DEF TypeOK, ProcessTypeOK, Crash, Die
<1>2. crashes' \in 0..MaxCrashes
  BY <1>1, ActionsAssumption DEF ActionsAssumption
<1> QED
  BY <1>2 DEF Crash, Die, ProcessTypeOK

LEMMA CreateApprovalTypeOK ==
  ASSUME TypeOK, NEW e \in Executions, Create(e)
  PROVE  ApprovalTypeOK'
<1>1. approval \in [Executions -> [state : ApprovalStates, version : Nat]]
  BY DEF TypeOK, ApprovalTypeOK
<1>2. \/ approval' = [approval EXCEPT ![e] = [state |-> "pending", version |-> 1]]
      \/ approval' = approval
  BY DEF Create
<1>3. [state |-> "pending", version |-> 1] \in [state : ApprovalStates, version : Nat]
  BY DEF ApprovalStates
<1>4. approval' \in [Executions -> [state : ApprovalStates, version : Nat]]
  BY <1>1, <1>2, <1>3
<1> QED
  BY <1>4 DEF Create, TypeOK, ApprovalTypeOK

LEMMA DecideApprovalTypeOK ==
  ASSUME TypeOK, NEW e \in Executions, NEW version \in ClientVersions,
         NEW outcome \in {"approved"} \union Refusals, Decide(e, outcome, version)
  PROVE  ApprovalTypeOK'
<1>1. approval \in [Executions -> [state : ApprovalStates, version : Nat]]
  BY DEF TypeOK, ApprovalTypeOK
<1>2. approval' \in [Executions -> [state : ApprovalStates, version : Nat]]
  BY <1>1 DEF Decide, ConditionalUpdate, ApprovalStates
<1>3. announced' \in [Executions -> SUBSET Outcomes]
  BY DEF TypeOK, ApprovalTypeOK, Decide, Announce
<1>4. following' \in Executions \union {None} /\ overdue' \subseteq Executions
  BY DEF TypeOK, ApprovalTypeOK, Decide
<1> QED
  BY <1>2, <1>3, <1>4 DEF ApprovalTypeOK

LEMMA AnnouncedTypeOK ==
  ASSUME TypeOK, NEW e \in Executions, Announce(e, "expired") \/ UNCHANGED announced
  PROVE  announced' \in [Executions -> SUBSET Outcomes]
<1>1. announced \in [Executions -> SUBSET Outcomes]
  BY DEF TypeOK, ApprovalTypeOK
<1>2. CASE UNCHANGED announced
  BY <1>1, <1>2
<1>3. CASE Announce(e, "expired")
  BY <1>1, <1>3 DEF Announce
<1> QED
  BY <1>2, <1>3

LEMMA NextTypeOK ==
  ASSUME TypeOK, Next
  PROVE  TypeOK'
<1> USE ActionsAssumption
    DEF TypeOK, RowsTypeOK, PolicyTypeOK, ProcessTypeOK, SignalTypeOK, ApprovalTypeOK,
        ActionStates, Stages, ApprovalStates, Verdicts
<1>1. ASSUME NEW e \in Executions, Reserve(e), UNCHANGED approvalVars
      PROVE  TypeOK'
  BY <1>1 DEF Reserve, Journal, processVars, approvalVars
<1>2. ASSUME NEW e \in Executions, Replay(e), UNCHANGED approvalVars
      PROVE  TypeOK'
  BY <1>2 DEF Replay, Tell, policyVars, processVars, signalVars, approvalVars
<1>3. ASSUME NEW e \in Executions, HookReturns(e), UNCHANGED approvalVars
      PROVE  TypeOK'
  BY <1>3 DEF HookReturns, Verdicts, processVars, signalVars, approvalVars
<1>4. ASSUME NEW e \in Executions, RejectBeforeExecutor(e), UNCHANGED approvalVars
      PROVE  TypeOK'
  BY <1>4 DEF RejectBeforeExecutor, Finish, RecordRunning, processVars, approvalVars
<1>5. ASSUME NEW e \in Executions, DenyByPolicy(e), UNCHANGED approvalVars
      PROVE  TypeOK'
  BY <1>5 DEF DenyByPolicy, Resolved, Journal, Tell, Finish, policyVars, processVars,
         approvalVars
<1>6. ASSUME NEW e \in Executions, Suspend(e), UNCHANGED approvalVars
      PROVE  TypeOK'
  BY <1>6 DEF Suspend, Resolved, Journal, Finish, policyVars, processVars, approvalVars
<1>7. ASSUME NEW e \in Executions, StartAllowed(e), UNCHANGED approvalVars
      PROVE  TypeOK'
  BY <1>7 DEF StartAllowed, Resolved, EnterExecutor, policyVars, processVars, signalVars,
         Journal, RecordRunning, approvalVars
<1>8. ASSUME NEW e \in Executions, Commit(e), UNCHANGED approvalVars
      PROVE  TypeOK'
  BY <1>8 DEF Commit, policyVars, processVars, signalVars, approvalVars
<1>9. ASSUME NEW e \in Executions, Return(e), UNCHANGED approvalVars
      PROVE  TypeOK'
  <2>1. RowsTypeOK'
    BY <1>9, EndingTypeOK
  <2> QED
    BY <1>9, <2>1 DEF Return, Finish, policyVars, processVars, approvalVars
<1>10. ASSUME NEW e \in Executions, Throw(e), UNCHANGED approvalVars
      PROVE  TypeOK'
  <2>1. RowsTypeOK'
    BY <1>10, EndingTypeOK
  <2> QED
    BY <1>10, <2>1 DEF Throw, Finish, policyVars, processVars, approvalVars
<1>11. ASSUME NEW n \in Names, RegisterAction(n), UNCHANGED approvalVars
      PROVE  TypeOK'
  BY <1>11 DEF RegisterAction, policyVars, signalVars, approvalVars
<1>12. ASSUME NEW n \in Names, UnloadAction(n), UNCHANGED approvalVars
      PROVE  TypeOK'
  BY <1>12 DEF UnloadAction, policyVars, approvalVars
<1>13. ASSUME NEW h \in Hooks, RegisterHook(h), UNCHANGED approvalVars
      PROVE  TypeOK'
  BY <1>13 DEF RegisterHook, processVars, signalVars, approvalVars
<1>14. ASSUME NEW h \in Hooks, UnloadHook(h), UNCHANGED approvalVars
      PROVE  TypeOK'
  <2>1. hooks' \in Seq(Hooks)
    BY <1>14 DEF UnloadHook, RemoveAt
  <2>2. PolicyTypeOK'
    BY <1>14, <2>1 DEF UnloadHook
  <2> QED
    BY <1>14, <2>2 DEF UnloadHook, processVars, signalVars, approvalVars
<1>15. ASSUME ToggleSession, UNCHANGED approvalVars
      PROVE  TypeOK'
  BY <1>15 DEF ToggleSession, policyVars, signalVars, approvalVars
<1>16. ASSUME RecoverOrphanedExecutions, UNCHANGED approvalVars
      PROVE  TypeOK'
  BY <1>16 DEF RecoverOrphanedExecutions, policyVars, processVars, signalVars,
         approvalVars
<1>17. ASSUME Boot, UNCHANGED approvalVars
      PROVE  TypeOK'
  BY <1>17 DEF Boot, policyVars, signalVars, approvalVars
<1>18. ASSUME NEW e \in Executions, Create(e)
      PROVE  TypeOK'
  <2>1. ApprovalTypeOK'
    BY <1>18, CreateApprovalTypeOK
  <2> QED
    BY <1>18, <2>1 DEF Create, policyVars, processVars, signalVars
<1>19. ASSUME NEW e \in Executions, NEW version \in ClientVersions, DecideOverdue(e,
             version), mode = "up"
      PROVE  TypeOK'
  BY <1>19 DEF DecideOverdue, ConditionalUpdate, Announce, actionVars, policyVars,
         processVars, signalVars
<1>20. ASSUME NEW e \in Executions, NEW version \in ClientVersions,
             NEW outcome \in {"approved"} \union Refusals, Decide(e, outcome, version), mode = "up",
             following = None
      PROVE  TypeOK'
  <2>1. ApprovalTypeOK'
    BY <1>20, DecideApprovalTypeOK
  <2> QED
    BY <1>20, <2>1 DEF Decide, actionVars, policyVars, processVars, signalVars
<1>21. ASSUME NEW e \in Executions, Expire(e)
      PROVE  TypeOK'
  BY <1>21 DEF Expire, actionVars, policyVars, processVars, signalVars
<1>22. ASSUME NEW e \in Executions, Follow(e)
      PROVE  TypeOK'
  <2>1. ApprovalTypeOK'
    <3>1. announced' \in [Executions -> SUBSET Outcomes]
      BY <1>22, AnnouncedTypeOK DEF Follow
    <3>2. UNCHANGED <<approval, overdue>> /\ following' = None
      BY <1>22 DEF Follow
    <3> QED
      BY <3>1, <3>2
  <2>2. CASE Resume(e)
    BY <2>1, <2>2 DEF Resume, EnterExecutor, Journal, RecordRunning, policyVars, processVars
  <2>3. CASE ResumeRejects(e)
    BY <2>1, <2>3 DEF ResumeRejects, RecordRunning, policyVars, processVars, signalVars
  <2>4. CASE CancelExecution(e)
    BY <2>1, <2>4 DEF CancelExecution, policyVars, processVars, signalVars
  <2> QED
    BY <1>22, <2>2, <2>3, <2>4 DEF Follow
<1>23. ASSUME Crash
      PROVE  TypeOK'
  <2>1. ProcessTypeOK'
    BY <1>23, CrashProcessTypeOK
  <2>2. PolicyTypeOK'
    BY <1>23 DEF Crash, Die
  <2>3. RowsTypeOK' /\ SignalTypeOK'
    BY <1>23 DEF Crash, Die
  <2>4. ApprovalTypeOK'
    BY <1>23 DEF Crash, Die
  <2> QED
    BY <2>1, <2>2, <2>3, <2>4
<1> QED
  BY <1>1, <1>2, <1>3, <1>4, <1>5, <1>6, <1>7, <1>8, <1>9, <1>10, <1>11, <1>12, <1>13,
         <1>14, <1>15, <1>16, <1>17, <1>18, <1>19, <1>20, <1>21, <1>22, <1>23 DEF Next,
         PipelineStep, PluginStep, ProcessStep, DecideStep, ClientVersions

\* The rows, the pipelines and the process keep their types.
THEOREM TypeCorrect == Spec => []TypeOK
<1>1. TypeOK /\ UNCHANGED vars => TypeOK'
  BY DEF TypeOK, RowsTypeOK, PolicyTypeOK, ProcessTypeOK, SignalTypeOK, ApprovalTypeOK,
         vars, actionVars, policyVars, processVars, signalVars, approvalVars
<1> QED
  BY InitTypeOK, NextTypeOK, <1>1, PTL DEF Spec

-----------------------------------------------------------------------------
(***************************************************************************)
(* The inductive invariant.                                                *)
(***************************************************************************)
LEMMA InitIInv == Init => IInv
<1> SUFFICES ASSUME Init PROVE IInv
  OBVIOUS
<1>1. TypeOK
  BY InitTypeOK
<1>2. \A e \in Executions : Coherent(e)
  BY ApprovalsAssumption DEF Init, ActionsInit, Coherent
<1>3. ExecutorEnteredAtMostOnce /\ EnteredOnlyWhenAuthorized /\ UnloadedPipelinesAreAborted
  BY DEF Init, ActionsInit, ExecutorEnteredAtMostOnce, EnteredOnlyWhenAuthorized,
         UnloadedPipelinesAreAborted
<1> QED
  BY <1>1, <1>2, <1>3 DEF IInv

LEMMA EndingCoherent ==
  ASSUME IInv, TypeOK', NEW e \in Executions, Return(e) \/ Throw(e),
         UNCHANGED approvalVars, NEW f \in Executions
  PROVE  Coherent(f)'
<1>1. PICK outcome \in Terminal :
        \/ Journal(e, outcome) /\ Tell(e, outcome)
        \/ UNCHANGED <<journal, told>>
  BY Ending
<1>2. /\ pc[e] \in Executor
      /\ pc' = [pc EXCEPT ![e] = "idle"]
      /\ inflight' = inflight \ {e}
      /\ aborted' = aborted \ {e}
      /\ UNCHANGED <<committed, starts, mode, said, approval, overdue, following>>
  BY DEF Return, Throw, Finish, policyVars, processVars, approvalVars
<1>3. Coherent(e) /\ Coherent(f) /\ TypeOK
  BY DEF IInv
<1>4. CASE f = e
  <2>1. journal[e] = "running" /\ starts[e] > 0 /\ told[e] = {}
    BY <1>2, <1>3 DEF Coherent
  <2>2. /\ pc'[e] = "idle"
        /\ \/ journal'[e] = outcome /\ told'[e] = {outcome}
           \/ journal'[e] = "running" /\ told'[e] = {}
    BY <1>1, <1>2, <2>1 DEF Journal, Tell, TypeOK, RowsTypeOK
  <2> QED
    BY <1>2, <1>3, <1>4, <2>1, <2>2 DEF Coherent
<1>5. CASE f # e
  <2>1. pc'[f] = pc[f] /\ journal'[f] = journal[f] /\ told'[f] = told[f]
    BY <1>1, <1>2, <1>5 DEF Journal, Tell, TypeOK, RowsTypeOK
  <2> QED
    BY <1>2, <1>3, <1>5, <2>1 DEF Coherent
<1> QED
  BY <1>4, <1>5

LEMMA DenyCoherent ==
  ASSUME IInv, TypeOK', NEW e \in Executions, DenyByPolicy(e), UNCHANGED approvalVars,
         NEW f \in Executions
  PROVE  Coherent(f)'
<1> USE DEF IInv, TypeOK, RowsTypeOK, SignalTypeOK, Stages, ActionStates, Coherent,
        DenyByPolicy, Resolved, Journal, Tell, Finish, policyVars, processVars, approvalVars
<1>1. CASE f = e
  BY <1>1
<1>2. CASE f # e
  BY <1>2
<1> QED
  BY <1>1, <1>2

LEMMA ResumeCoherent ==
  ASSUME IInv, TypeOK', NEW e \in Executions, Follow(e), approval[e].state = "approved",
         Resume(e), NEW f \in Executions
  PROVE  Coherent(f)'
<1>1. /\ journal[e] = "awaiting-approval"
      /\ journal' = [journal EXCEPT ![e] = "running"]
      /\ starts' = [starts EXCEPT ![e] = @ + 1]
      /\ pc' = [pc EXCEPT ![e] = "resumed"]
      /\ inflight' = inflight \union {e}
      /\ UNCHANGED <<committed, told, aborted, said, mode, approval, overdue>>
      /\ following' = None
  BY DEF Follow, Resume, CanResume, EnterExecutor, Journal, policyVars, processVars
<1>2. mode = "up"
  BY DEF IInv, Coherent, Follow
<1>3. Coherent(e) /\ Coherent(f) /\ TypeOK
  BY DEF IInv
<1>4. CASE f = e
  <2>1. starts[e] = 0 /\ told[e] = {}
    BY <1>1, <1>3 DEF Coherent
  <2>2. journal'[e] = "running" /\ starts'[e] = 1 /\ pc'[e] = "resumed"
    BY <1>1, <2>1, <1>3 DEF TypeOK, RowsTypeOK
  <2> QED
    BY <1>1, <1>2, <1>3, <1>4, <2>1, <2>2, ApprovalsAssumption DEF Coherent
<1>5. CASE f # e
  <2>1. pc'[f] = pc[f] /\ journal'[f] = journal[f] /\ starts'[f] = starts[f]
    BY <1>1, <1>5, <1>3 DEF TypeOK, RowsTypeOK
  <2> QED
    BY <1>1, <1>3, <1>5, <2>1, ApprovalsAssumption DEF Coherent
<1> QED
  BY <1>4, <1>5

LEMMA OverdueCoherent ==
  ASSUME IInv, NEW e \in Executions, NEW version \in ClientVersions,
         DecideOverdue(e, version), mode = "up", NEW f \in Executions
  PROVE  Coherent(f)'
<1>1. /\ approval[e].state = "pending" /\ e \in overdue
      /\ following' = e
      /\ UNCHANGED <<journal, committed, mode, pc, inflight, aborted, starts, told, said, overdue>>
  BY DEF DecideOverdue, actionVars, policyVars, processVars, signalVars
<1>2. Coherent(f) /\ TypeOK /\ e \in Executions
  BY DEF IInv
<1>3. \/ approval'[e].state = "expired"
      \/ approval' = approval
  BY <1>2 DEF DecideOverdue, ConditionalUpdate, TypeOK, ApprovalTypeOK
<1>4. CASE f = e
  BY <1>1, <1>2, <1>3, <1>4 DEF Coherent
<1>5. CASE f # e
  <2>1. approval'[f] = approval[f]
    BY <1>2, <1>5 DEF DecideOverdue, ConditionalUpdate, TypeOK, ApprovalTypeOK
  <2> QED
    BY <1>1, <1>2, <1>5, <2>1 DEF Coherent
<1> QED
  BY <1>4, <1>5

LEMMA DecideCoherent ==
  ASSUME IInv, NEW e \in Executions, NEW version \in ClientVersions,
         NEW outcome \in {"approved"} \union Refusals,
         Decide(e, outcome, version), mode = "up", following = None, NEW f \in Executions
  PROVE  Coherent(f)'
<1>1. /\ approval[e].state = "pending" /\ e \notin overdue
      /\ following' \in {e, None}
      /\ UNCHANGED <<journal, committed, mode, pc, inflight, aborted, starts, told, said, overdue>>
  BY DEF Decide, Moves, actionVars, policyVars, processVars, signalVars
<1>2. Coherent(f) /\ TypeOK
  BY DEF IInv
<1>3. /\ approval'[e].state = outcome
      /\ f # e => approval'[f] = approval[f]
  BY <1>2 DEF Decide, ConditionalUpdate, TypeOK, ApprovalTypeOK
<1>4. CASE f = e
  BY <1>1, <1>2, <1>3, <1>4, ApprovalsAssumption DEF Coherent
<1>5. CASE f # e
  BY <1>1, <1>2, <1>3, <1>5, ApprovalsAssumption DEF Coherent
<1> QED
  BY <1>4, <1>5

LEMMA NextCoherent ==
  ASSUME IInv, TypeOK', Next, NEW f \in Executions
  PROVE  Coherent(f)'
<1> USE ApprovalsAssumption
    DEF IInv, Coherent, TypeOK, RowsTypeOK, PolicyTypeOK, ProcessTypeOK, SignalTypeOK,
        ApprovalTypeOK, ActionStates, Stages, ApprovalStates
<1>1. ASSUME NEW e \in Executions, Reserve(e), UNCHANGED approvalVars
      PROVE  Coherent(f)'
  BY <1>1 DEF Reserve, Journal, processVars, approvalVars
<1>2. ASSUME NEW e \in Executions, Replay(e), UNCHANGED approvalVars
      PROVE  Coherent(f)'
  BY <1>2 DEF Replay, Tell, policyVars, processVars, signalVars, approvalVars
<1>3. ASSUME NEW e \in Executions, HookReturns(e), UNCHANGED approvalVars
      PROVE  Coherent(f)'
  BY <1>3 DEF HookReturns, Verdicts, processVars, signalVars, approvalVars
<1>4. ASSUME NEW e \in Executions, RejectBeforeExecutor(e), UNCHANGED approvalVars
      PROVE  Coherent(f)'
  BY <1>4 DEF RejectBeforeExecutor, Finish, ResolvePolicy, RecordRunning, processVars,
         approvalVars
<1>5. ASSUME NEW e \in Executions, DenyByPolicy(e), UNCHANGED approvalVars
      PROVE  Coherent(f)'
  BY <1>5, DenyCoherent
<1>6. ASSUME NEW e \in Executions, Suspend(e), UNCHANGED approvalVars
      PROVE  Coherent(f)'
  BY <1>6 DEF Suspend, Resolved, Journal, Finish, policyVars, processVars, ResolvePolicy,
         approvalVars
<1>7. ASSUME NEW e \in Executions, StartAllowed(e), UNCHANGED approvalVars
      PROVE  Coherent(f)'
  BY <1>7 DEF StartAllowed, Resolved, EnterExecutor, policyVars, processVars, signalVars,
         ResolvePolicy, Journal, RecordRunning, approvalVars
<1>8. ASSUME NEW e \in Executions, Commit(e), UNCHANGED approvalVars
      PROVE  Coherent(f)'
  BY <1>8 DEF Commit, policyVars, processVars, signalVars, approvalVars
<1>9. ASSUME NEW e \in Executions, Return(e), UNCHANGED approvalVars
      PROVE  Coherent(f)'
  BY <1>9, EndingCoherent
<1>10. ASSUME NEW e \in Executions, Throw(e), UNCHANGED approvalVars
      PROVE  Coherent(f)'
  BY <1>10, EndingCoherent
<1>11. ASSUME NEW n \in Names, RegisterAction(n), UNCHANGED approvalVars
      PROVE  Coherent(f)'
  BY <1>11 DEF RegisterAction, policyVars, signalVars, approvalVars
<1>12. ASSUME NEW n \in Names, UnloadAction(n), UNCHANGED approvalVars
      PROVE  Coherent(f)'
  BY <1>12 DEF UnloadAction, policyVars, approvalVars
<1>13. ASSUME NEW h \in Hooks, RegisterHook(h), UNCHANGED approvalVars
      PROVE  Coherent(f)'
  BY <1>13 DEF RegisterHook, processVars, signalVars, approvalVars
<1>14. ASSUME NEW h \in Hooks, UnloadHook(h), UNCHANGED approvalVars
      PROVE  Coherent(f)'
  BY <1>14 DEF UnloadHook, processVars, signalVars, approvalVars
<1>15. ASSUME ToggleSession, UNCHANGED approvalVars
      PROVE  Coherent(f)'
  BY <1>15 DEF ToggleSession, policyVars, signalVars, approvalVars
<1>16. ASSUME RecoverOrphanedExecutions, UNCHANGED approvalVars
      PROVE  Coherent(f)'
  BY <1>16 DEF RecoverOrphanedExecutions, policyVars, processVars, signalVars,
         approvalVars
<1>17. ASSUME Boot, UNCHANGED approvalVars
      PROVE  Coherent(f)'
  BY <1>17 DEF Boot, policyVars, signalVars, approvalVars
<1>18. ASSUME NEW e \in Executions, Create(e)
      PROVE  Coherent(f)'
  BY <1>18 DEF Create, policyVars, processVars, signalVars
<1>19. ASSUME NEW e \in Executions, NEW version \in ClientVersions, DecideOverdue(e,
             version), mode = "up"
      PROVE  Coherent(f)'
  BY <1>19, OverdueCoherent
<1>20. ASSUME NEW e \in Executions, NEW version \in ClientVersions,
             NEW outcome \in {"approved"} \union Refusals, Decide(e, outcome, version), mode = "up",
             following = None
      PROVE  Coherent(f)'
  BY <1>20, DecideCoherent
<1>21. ASSUME NEW e \in Executions, Expire(e)
      PROVE  Coherent(f)'
  BY <1>21 DEF Expire, actionVars, policyVars, processVars, signalVars
<1>22. ASSUME NEW e \in Executions, Follow(e)
      PROVE  Coherent(f)'
  <2>1. CASE approval[e].state = "approved" /\ Resume(e)
    BY <1>22, <2>1, ResumeCoherent
  <2>2. CASE ResumeRejects(e)
    BY <1>22, <2>2 DEF Follow, ResumeRejects, policyVars, processVars, signalVars
  <2>3. CASE approval[e].state # "approved" /\ CancelExecution(e)
    BY <1>22, <2>3 DEF Follow, CancelExecution, policyVars, processVars, signalVars
  <2> QED
    BY <1>22, <2>1, <2>2, <2>3 DEF Follow
<1>23. ASSUME Crash
      PROVE  Coherent(f)'
  BY <1>23 DEF Crash, Die
<1> QED
  BY <1>1, <1>2, <1>3, <1>4, <1>5, <1>6, <1>7, <1>8, <1>9, <1>10, <1>11, <1>12, <1>13,
         <1>14, <1>15, <1>16, <1>17, <1>18, <1>19, <1>20, <1>21, <1>22, <1>23 DEF Next,
         PipelineStep, PluginStep, ProcessStep, DecideStep, ClientVersions

LEMMA NextSafe ==
  ASSUME IInv, TypeOK', Next
  PROVE  /\ ExecutorEnteredAtMostOnce'
         /\ EnteredOnlyWhenAuthorized'
         /\ UnloadedPipelinesAreAborted'
<1> DEFINE Safe == /\ ExecutorEnteredAtMostOnce
                   /\ EnteredOnlyWhenAuthorized
                   /\ UnloadedPipelinesAreAborted
<1> USE DEF Safe, IInv, Coherent, TypeOK, RowsTypeOK, PolicyTypeOK, SignalTypeOK,
        ApprovalTypeOK, ExecutorEnteredAtMostOnce, EnteredOnlyWhenAuthorized,
        UnloadedPipelinesAreAborted
<1>1. ASSUME NEW e \in Executions, Reserve(e), UNCHANGED approvalVars
      PROVE  Safe'
  BY <1>1 DEF Reserve, Journal, processVars, approvalVars
<1>2. ASSUME NEW e \in Executions, Replay(e), UNCHANGED approvalVars
      PROVE  Safe'
  BY <1>2 DEF Replay, Tell, policyVars, processVars, signalVars, approvalVars
<1>3. ASSUME NEW e \in Executions, HookReturns(e), UNCHANGED approvalVars
      PROVE  Safe'
  BY <1>3 DEF HookReturns, Verdicts, processVars, signalVars, approvalVars
<1>4. ASSUME NEW e \in Executions, RejectBeforeExecutor(e), UNCHANGED approvalVars
      PROVE  Safe'
  BY <1>4 DEF RejectBeforeExecutor, Finish, ResolvePolicy, RecordRunning, processVars,
         approvalVars
<1>5. ASSUME NEW e \in Executions, DenyByPolicy(e), UNCHANGED approvalVars
      PROVE  Safe'
  BY <1>5 DEF DenyByPolicy, Resolved, Journal, Tell, Finish, policyVars, processVars,
         ResolvePolicy, approvalVars
<1>6. ASSUME NEW e \in Executions, Suspend(e), UNCHANGED approvalVars
      PROVE  Safe'
  BY <1>6 DEF Suspend, Resolved, Journal, Finish, policyVars, processVars, ResolvePolicy,
         approvalVars
<1>7. ASSUME NEW e \in Executions, StartAllowed(e), UNCHANGED approvalVars
      PROVE  Safe'
  BY <1>7 DEF StartAllowed, Resolved, EnterExecutor, policyVars, processVars, signalVars,
         ResolvePolicy, Journal, RecordRunning, approvalVars
<1>8. ASSUME NEW e \in Executions, Commit(e), UNCHANGED approvalVars
      PROVE  Safe'
  BY <1>8 DEF Commit, policyVars, processVars, signalVars, approvalVars
<1>9. ASSUME NEW e \in Executions, Return(e), UNCHANGED approvalVars
      PROVE  Safe'
  BY <1>9 DEF Return, Finish, Journal, Tell, policyVars, processVars, approvalVars
<1>10. ASSUME NEW e \in Executions, Throw(e), UNCHANGED approvalVars
      PROVE  Safe'
  BY <1>10 DEF Throw, Finish, Journal, Tell, policyVars, processVars, approvalVars
<1>11. ASSUME NEW n \in Names, RegisterAction(n), UNCHANGED approvalVars
      PROVE  Safe'
  BY <1>11 DEF RegisterAction, policyVars, signalVars, approvalVars
<1>12. ASSUME NEW n \in Names, UnloadAction(n), UNCHANGED approvalVars
      PROVE  Safe'
  BY <1>12 DEF UnloadAction, policyVars, approvalVars
<1>13. ASSUME NEW h \in Hooks, RegisterHook(h), UNCHANGED approvalVars
      PROVE  Safe'
  BY <1>13 DEF RegisterHook, processVars, signalVars, approvalVars
<1>14. ASSUME NEW h \in Hooks, UnloadHook(h), UNCHANGED approvalVars
      PROVE  Safe'
  BY <1>14 DEF UnloadHook, processVars, signalVars, approvalVars
<1>15. ASSUME ToggleSession, UNCHANGED approvalVars
      PROVE  Safe'
  BY <1>15 DEF ToggleSession, policyVars, signalVars, approvalVars
<1>16. ASSUME RecoverOrphanedExecutions, UNCHANGED approvalVars
      PROVE  Safe'
  BY <1>16 DEF RecoverOrphanedExecutions, policyVars, processVars, signalVars,
         approvalVars
<1>17. ASSUME Boot, UNCHANGED approvalVars
      PROVE  Safe'
  BY <1>17 DEF Boot, policyVars, signalVars, approvalVars
<1>18. ASSUME NEW e \in Executions, Create(e)
      PROVE  Safe'
  <2>1. \A f \in Executions : approval[f].state = "approved" => approval'[f].state = "approved"
    BY <1>18 DEF Create
  <2> QED
    BY <1>18, <2>1 DEF Create, policyVars, signalVars
<1>19. ASSUME NEW e \in Executions, NEW version \in ClientVersions, DecideOverdue(e,
             version), mode = "up"
      PROVE  Safe'
  BY <1>19 DEF DecideOverdue, ConditionalUpdate, Announce, actionVars, Moves, policyVars,
         processVars, signalVars
<1>20. ASSUME NEW e \in Executions, NEW version \in ClientVersions,
             NEW outcome \in {"approved"} \union Refusals, Decide(e, outcome, version), mode = "up",
             following = None
      PROVE  Safe'
  BY <1>20 DEF Decide, Moves, ConditionalUpdate, Announce, actionVars, policyVars,
         processVars, signalVars
<1>21. ASSUME NEW e \in Executions, Expire(e)
      PROVE  Safe'
  BY <1>21 DEF Expire, actionVars, policyVars, processVars, signalVars
<1>22. ASSUME NEW e \in Executions, Follow(e)
      PROVE  Safe'
  <2>1. CASE approval[e].state = "approved" /\ Resume(e)
    <3>1. /\ journal[e] = "awaiting-approval"
          /\ starts' = [starts EXCEPT ![e] = @ + 1]
          /\ UNCHANGED <<said, approval, aborted, orphaned>>
      BY <1>22, <2>1 DEF Follow, Resume, CanResume, EnterExecutor, policyVars
    <3>2. starts[e] = 0 /\ "deny" \notin said[e]
      BY <3>1
    <3> QED
      BY <2>1, <3>1, <3>2
  <2>2. CASE ResumeRejects(e)
    BY <1>22, <2>2 DEF Follow, ResumeRejects, policyVars, signalVars
  <2>3. CASE CancelExecution(e)
    BY <1>22, <2>3 DEF Follow, CancelExecution, policyVars, signalVars
  <2> QED
    BY <1>22, <2>1, <2>2, <2>3 DEF Follow
<1>23. ASSUME Crash
      PROVE  Safe'
  BY <1>23 DEF Crash, Die
<1> QED
  BY <1>1, <1>2, <1>3, <1>4, <1>5, <1>6, <1>7, <1>8, <1>9, <1>10, <1>11, <1>12, <1>13,
         <1>14, <1>15, <1>16, <1>17, <1>18, <1>19, <1>20, <1>21, <1>22, <1>23 DEF Next,
         PipelineStep, PluginStep, ProcessStep, DecideStep, ClientVersions

LEMMA StutterIInv == IInv /\ UNCHANGED vars => IInv'
  BY DEF IInv, Coherent, TypeOK, RowsTypeOK, PolicyTypeOK, ProcessTypeOK, SignalTypeOK,
         ApprovalTypeOK, ExecutorEnteredAtMostOnce, EnteredOnlyWhenAuthorized,
         UnloadedPipelinesAreAborted, vars, actionVars, policyVars, processVars,
         signalVars, approvalVars

LEMMA Inductive == IInv /\ [Next]_vars => IInv'
  BY NextTypeOK, NextCoherent, NextSafe, StutterIInv DEF IInv

LEMMA Invariance == Spec => []IInv
  BY InitIInv, Inductive, PTL DEF Spec

\* However calls, decisions, unloads, crashes and recoveries interleave, the
\* executor of an execution is entered at most once.
THEOREM AtMostOnce == Spec => []ExecutorEnteredAtMostOnce
<1>1. IInv => ExecutorEnteredAtMostOnce
  BY DEF IInv
<1> QED
  BY Invariance, <1>1, PTL

\* No executor is entered without an approved row or the policy's word.
THEOREM Authorized == Spec => []EnteredOnlyWhenAuthorized
<1>1. IInv => EnteredOnlyWhenAuthorized
  BY DEF IInv
<1> QED
  BY Invariance, <1>1, PTL

\* A pipeline whose definition was unloaded has had its signal aborted.
THEOREM UnloadAborts == Spec => []UnloadedPipelinesAreAborted
<1>1. IInv => UnloadedPipelinesAreAborted
  BY DEF IInv
<1> QED
  BY Invariance, <1>1, PTL

\* No two callers are told different ends of one execution.
THEOREM Agreement == Spec => []CallersAgree
<1>1. IInv => CallersAgree
  BY DEF IInv, Coherent, CallersAgree
<1> QED
  BY Invariance, <1>1, PTL

-----------------------------------------------------------------------------
(***************************************************************************)
(* The refinement.  A step of the pipeline or of the approval service      *)
(* moves the verdict of one execution at most, from open to granted or     *)
(* refused; Commit performs a granted one; everything else stutters.       *)
(***************************************************************************)
Mapped == [e \in Executions |-> VerdictOf(e)]

Settles(e) ==
  /\ committed' = committed
  /\ \A f \in Executions : f # e => VerdictOf(f)' = VerdictOf(f)
  /\ \/ VerdictOf(e)' = VerdictOf(e)
     \/ VerdictOf(e) = "open" /\ VerdictOf(e)' \in {"granted", "refused"}

Idles == committed' = committed /\ \A f \in Executions : VerdictOf(f)' = VerdictOf(f)

AbstractStep == [Guarded!GuardedWriteNext]_<<Mapped, committed>>

LEMMA IdlesIsStutter == Idles => AbstractStep
<1> SUFFICES ASSUME Idles PROVE AbstractStep
  OBVIOUS
<1>1. Mapped' = Mapped
  BY DEF Idles, Mapped
<1> QED
  BY <1>1 DEF Idles, AbstractStep

LEMMA SettlesIsStep ==
  ASSUME NEW e \in Executions, Settles(e)
  PROVE  AbstractStep
<1>1. CASE VerdictOf(e)' = VerdictOf(e)
  BY <1>1, IdlesIsStutter DEF Settles, Idles
<1>2. CASE VerdictOf(e) = "open" /\ VerdictOf(e)' \in {"granted", "refused"}
  <2>1. Mapped[e] = "open" /\ Mapped' = [Mapped EXCEPT ![e] = VerdictOf(e)']
    BY <1>2 DEF Settles, Mapped
  <2>2. Guarded!Grant(e) \/ Guarded!Refuse(e)
    BY <1>2, <2>1 DEF Settles, Mapped, Guarded!Grant, Guarded!Refuse
  <2> QED
    BY <2>2 DEF Guarded!GuardedWriteNext, AbstractStep
<1> QED
  BY <1>1, <1>2 DEF Settles

\* A granted execution whose side effect happens.
LEMMA CommitPerforms ==
  ASSUME IInv, NEW e \in Executions, Commit(e), UNCHANGED approvalVars
  PROVE  AbstractStep
<1>1. VerdictOf(e) = "granted"
  BY DEF IInv, Coherent, Commit, VerdictOf
<1>2. Mapped' = Mapped
  BY DEF Commit, approvalVars, Mapped, VerdictOf
<1>3. Guarded!Perform(e)
  BY <1>1, <1>2 DEF Commit, Mapped, Guarded!Perform
<1> QED
  BY <1>3 DEF Guarded!GuardedWriteNext, AbstractStep

LEMMA FollowSettles ==
  ASSUME IInv, NEW e \in Executions, Follow(e)
  PROVE  Settles(e)
<1>1. TypeOK /\ Coherent(e) /\ approval' = approval /\ following = e
  BY DEF IInv, Follow
<1>2. CASE approval[e].state = "approved" /\ Resume(e)
  <2>1. /\ committed' = committed
        /\ \A f \in Executions : f # e => journal'[f] = journal[f] /\ starts'[f] = starts[f]
    BY <1>2 DEF Resume, EnterExecutor, Journal, IInv, TypeOK, RowsTypeOK
  <2> QED
    BY <1>1, <1>2, <2>1 DEF Settles, VerdictOf
<1>3. CASE ResumeRejects(e)
  BY <1>1, <1>3 DEF ResumeRejects, Settles, VerdictOf
<1>4. CASE approval[e].state # "approved" /\ CancelExecution(e)
  <2>1. /\ committed' = committed /\ starts' = starts
        /\ \A f \in Executions : f # e => journal'[f] = journal[f]
        /\ \/ journal[e] = "awaiting-approval" /\ journal'[e] = "cancelled"
           \/ journal'[e] = journal[e]
    BY <1>1, <1>4 DEF CancelExecution, TypeOK, RowsTypeOK
  <2>2. journal[e] = "awaiting-approval" => starts[e] = 0
    BY <1>1 DEF Coherent
  <2> QED
    BY <1>1, <1>4, <2>1, <2>2 DEF Settles, VerdictOf
<1> QED
  BY <1>2, <1>3, <1>4 DEF Follow

LEMMA NextImplements ==
  ASSUME IInv, Next
  PROVE  AbstractStep
<1> USE DEF IInv, TypeOK, RowsTypeOK, ApprovalTypeOK
<1>1. ASSUME NEW e \in Executions, Reserve(e), UNCHANGED approvalVars
      PROVE  AbstractStep
  BY <1>1, IdlesIsStutter DEF Reserve, Journal, approvalVars, Idles, VerdictOf
<1>2. ASSUME NEW e \in Executions, Replay(e), UNCHANGED approvalVars
      PROVE  AbstractStep
  BY <1>2, IdlesIsStutter DEF Replay, approvalVars, Idles, VerdictOf
<1>3. ASSUME NEW e \in Executions, HookReturns(e), UNCHANGED approvalVars
      PROVE  AbstractStep
  BY <1>3, IdlesIsStutter DEF HookReturns, approvalVars, Idles, VerdictOf
<1>4. ASSUME NEW e \in Executions, RejectBeforeExecutor(e), UNCHANGED approvalVars
      PROVE  AbstractStep
  BY <1>4, IdlesIsStutter DEF RejectBeforeExecutor, RecordRunning, approvalVars, Idles,
         VerdictOf
<1>5. ASSUME NEW e \in Executions, DenyByPolicy(e), UNCHANGED approvalVars
      PROVE  AbstractStep
  <2>1. /\ journal[e] = "proposed" /\ approval[e].state = "none" /\ starts[e] = 0
        /\ journal' = [journal EXCEPT ![e] = "cancelled"]
        /\ UNCHANGED <<committed, starts, approval>>
    BY <1>5 DEF DenyByPolicy, Resolved, Journal, Coherent, approvalVars
  <2> QED
    BY <2>1, SettlesIsStep DEF Settles, VerdictOf
<1>6. ASSUME NEW e \in Executions, Suspend(e), UNCHANGED approvalVars
      PROVE  AbstractStep
  BY <1>6, IdlesIsStutter DEF Suspend, Resolved, Journal, approvalVars, Idles, VerdictOf,
         Coherent
<1>7. ASSUME NEW e \in Executions, StartAllowed(e), UNCHANGED approvalVars
      PROVE  AbstractStep
  <2>1. /\ journal[e] = "proposed" /\ approval[e].state = "none" /\ starts[e] = 0
        /\ journal' = [journal EXCEPT ![e] = "running"]
        /\ starts' = [starts EXCEPT ![e] = @ + 1]
        /\ UNCHANGED <<committed, approval>>
    BY <1>7 DEF StartAllowed, EnterExecutor, Resolved, Journal, Coherent, approvalVars
  <2> QED
    BY <2>1, SettlesIsStep DEF Settles, VerdictOf
<1>8. ASSUME NEW e \in Executions, Commit(e), UNCHANGED approvalVars
      PROVE  AbstractStep
  BY <1>8, CommitPerforms
<1>9. ASSUME NEW e \in Executions, Return(e), UNCHANGED approvalVars
      PROVE  AbstractStep
  <2>1. starts[e] > 0 /\ UNCHANGED <<committed, starts, approval>>
    BY <1>9 DEF Return, Coherent, approvalVars
  <2>2. \A f \in Executions : f # e => journal'[f] = journal[f]
    BY <1>9 DEF Return, Journal
  <2> QED
    BY <2>1, <2>2, SettlesIsStep DEF Settles, VerdictOf
<1>10. ASSUME NEW e \in Executions, Throw(e), UNCHANGED approvalVars
      PROVE  AbstractStep
  <2>1. starts[e] > 0 /\ UNCHANGED <<committed, starts, approval>>
    BY <1>10 DEF Throw, Coherent, approvalVars
  <2>2. \A f \in Executions : f # e => journal'[f] = journal[f]
    BY <1>10 DEF Throw, Journal
  <2> QED
    BY <2>1, <2>2, SettlesIsStep DEF Settles, VerdictOf
<1>11. ASSUME NEW n \in Names, RegisterAction(n), UNCHANGED approvalVars
      PROVE  AbstractStep
  BY <1>11, IdlesIsStutter DEF RegisterAction, approvalVars, Idles, VerdictOf
<1>12. ASSUME NEW n \in Names, UnloadAction(n), UNCHANGED approvalVars
      PROVE  AbstractStep
  BY <1>12, IdlesIsStutter DEF UnloadAction, approvalVars, Idles, VerdictOf
<1>13. ASSUME NEW h \in Hooks, RegisterHook(h), UNCHANGED approvalVars
      PROVE  AbstractStep
  BY <1>13, IdlesIsStutter DEF RegisterHook, approvalVars, Idles, VerdictOf
<1>14. ASSUME NEW h \in Hooks, UnloadHook(h), UNCHANGED approvalVars
      PROVE  AbstractStep
  BY <1>14, IdlesIsStutter DEF UnloadHook, approvalVars, Idles, VerdictOf
<1>15. ASSUME ToggleSession, UNCHANGED approvalVars
      PROVE  AbstractStep
  BY <1>15, IdlesIsStutter DEF ToggleSession, approvalVars, Idles, VerdictOf
<1>16. ASSUME RecoverOrphanedExecutions, UNCHANGED approvalVars
      PROVE  AbstractStep
  BY <1>16, IdlesIsStutter DEF RecoverOrphanedExecutions, approvalVars, Idles, VerdictOf
<1>17. ASSUME Boot, UNCHANGED approvalVars
      PROVE  AbstractStep
  BY <1>17, IdlesIsStutter DEF Boot, approvalVars, Idles, VerdictOf
<1>18. ASSUME NEW e \in Executions, Create(e)
      PROVE  AbstractStep
  <2>1. UNCHANGED <<journal, committed, starts>>
    BY <1>18 DEF Create
  <2>2. \/ /\ approval[e].state = "none" /\ approval'[e].state = "pending"
           /\ \A f \in Executions : f # e => approval'[f] = approval[f]
        \/ approval' = approval
    BY <1>18 DEF Create
  <2> QED
    BY <2>1, <2>2, SettlesIsStep DEF Settles, VerdictOf
<1>19. ASSUME NEW e \in Executions, NEW version \in ClientVersions, DecideOverdue(e,
             version), mode = "up"
      PROVE  AbstractStep
  <2>1. approval[e].state = "pending" /\ UNCHANGED <<journal, committed, starts>>
    BY <1>19 DEF DecideOverdue, actionVars
  <2>2. /\ approval'[e].state = "expired" \/ approval'[e] = approval[e]
        /\ \A f \in Executions : f # e => approval'[f] = approval[f]
    BY <1>19 DEF DecideOverdue, ConditionalUpdate
  <2> QED
    BY <2>1, <2>2, SettlesIsStep DEF Settles, VerdictOf
<1>20. ASSUME NEW e \in Executions, NEW version \in ClientVersions,
             NEW outcome \in {"approved"} \union Refusals, Decide(e, outcome, version), mode = "up",
             following = None
      PROVE  AbstractStep
  <2>1. /\ approval[e].state = "pending" /\ UNCHANGED <<journal, committed, starts>>
        /\ starts[e] = 0 /\ journal[e] = "awaiting-approval"
    BY <1>20 DEF Decide, Moves, actionVars, Coherent
  <2>2. /\ approval'[e].state = outcome
        /\ \A f \in Executions : f # e => approval'[f] = approval[f]
    BY <1>20 DEF Decide, ConditionalUpdate
  <2> QED
    BY <2>1, <2>2, SettlesIsStep DEF Settles, VerdictOf
<1>21. ASSUME NEW e \in Executions, Expire(e)
      PROVE  AbstractStep
  BY <1>21, IdlesIsStutter DEF Expire, actionVars, Idles, VerdictOf
<1>22. ASSUME NEW e \in Executions, Follow(e)
      PROVE  AbstractStep
  BY <1>22, FollowSettles, SettlesIsStep
<1>23. ASSUME Crash
      PROVE  AbstractStep
  BY <1>23, IdlesIsStutter DEF Crash, Die, Idles, VerdictOf
<1> QED
  BY <1>1, <1>2, <1>3, <1>4, <1>5, <1>6, <1>7, <1>8, <1>9, <1>10, <1>11, <1>12, <1>13,
         <1>14, <1>15, <1>16, <1>17, <1>18, <1>19, <1>20, <1>21, <1>22, <1>23 DEF Next,
         PipelineStep, PluginStep, ProcessStep, DecideStep, ClientVersions

\* The pipeline and the approval service together implement GuardedWrite: an
\* execution is granted or refused once and for good, and only granted ones
\* make their side effect, once.
THEOREM Refinement == Spec => ImplementsGuardedWrite
<1>1. Init => Guarded!GuardedWriteInit
  BY DEF Init, ActionsInit, Guarded!GuardedWriteInit, VerdictOf
<1>2. IInv /\ [Next]_vars => [Guarded!GuardedWriteNext]_<<Mapped, committed>>
  <2>1. UNCHANGED vars => Idles
    BY DEF vars, actionVars, approvalVars, Idles, VerdictOf
  <2> QED
    BY NextImplements, <2>1, IdlesIsStutter DEF AbstractStep
<1> QED
  BY Invariance, <1>1, <1>2, PTL DEF Spec, ImplementsGuardedWrite, Guarded!GuardedWriteSpec, Mapped

-----------------------------------------------------------------------------
(***************************************************************************)
(* Rows that have ended.                                                   *)
(***************************************************************************)
LEMMA NextKeepsEnds ==
  ASSUME IInv, Next, NEW f \in Executions, journal[f] \in Terminal
  PROVE  journal'[f] = journal[f]
<1> USE DEF IInv, TypeOK, RowsTypeOK
<1>1. ASSUME NEW e \in Executions, Reserve(e), UNCHANGED approvalVars
      PROVE  journal'[f] = journal[f]
  BY <1>1 DEF Reserve, Journal
<1>2. ASSUME NEW e \in Executions, Replay(e), UNCHANGED approvalVars
      PROVE  journal'[f] = journal[f]
  BY <1>2 DEF Replay
<1>3. ASSUME NEW e \in Executions, HookReturns(e), UNCHANGED approvalVars
      PROVE  journal'[f] = journal[f]
  BY <1>3 DEF HookReturns
<1>4. ASSUME NEW e \in Executions, RejectBeforeExecutor(e), UNCHANGED approvalVars
      PROVE  journal'[f] = journal[f]
  BY <1>4 DEF RejectBeforeExecutor
<1>5. ASSUME NEW e \in Executions, DenyByPolicy(e), UNCHANGED approvalVars
      PROVE  journal'[f] = journal[f]
  <2>1. journal[e] = "proposed"
    BY <1>5 DEF DenyByPolicy, Resolved, Coherent
  <2> QED
    BY <1>5, <2>1 DEF DenyByPolicy, Journal, EnterExecutor
<1>6. ASSUME NEW e \in Executions, Suspend(e), UNCHANGED approvalVars
      PROVE  journal'[f] = journal[f]
  <2>1. journal[e] = "proposed"
    BY <1>6 DEF Suspend, Resolved, Coherent
  <2> QED
    BY <1>6, <2>1 DEF Suspend, Journal, EnterExecutor
<1>7. ASSUME NEW e \in Executions, StartAllowed(e), UNCHANGED approvalVars
      PROVE  journal'[f] = journal[f]
  <2>1. journal[e] = "proposed"
    BY <1>7 DEF StartAllowed, Resolved, Coherent
  <2> QED
    BY <1>7, <2>1 DEF StartAllowed, Journal, EnterExecutor
<1>8. ASSUME NEW e \in Executions, Commit(e), UNCHANGED approvalVars
      PROVE  journal'[f] = journal[f]
  BY <1>8 DEF Commit
<1>9. ASSUME NEW e \in Executions, Return(e), UNCHANGED approvalVars
      PROVE  journal'[f] = journal[f]
  <2>1. journal[e] = "running"
    BY <1>9 DEF Return, Coherent
  <2> QED
    BY <1>9, <2>1 DEF Return, Journal
<1>10. ASSUME NEW e \in Executions, Throw(e), UNCHANGED approvalVars
      PROVE  journal'[f] = journal[f]
  <2>1. journal[e] = "running"
    BY <1>10 DEF Throw, Coherent
  <2> QED
    BY <1>10, <2>1 DEF Throw, Journal
<1>11. ASSUME NEW n \in Names, RegisterAction(n), UNCHANGED approvalVars
      PROVE  journal'[f] = journal[f]
  BY <1>11 DEF RegisterAction
<1>12. ASSUME NEW n \in Names, UnloadAction(n), UNCHANGED approvalVars
      PROVE  journal'[f] = journal[f]
  BY <1>12 DEF UnloadAction
<1>13. ASSUME NEW h \in Hooks, RegisterHook(h), UNCHANGED approvalVars
      PROVE  journal'[f] = journal[f]
  BY <1>13 DEF RegisterHook
<1>14. ASSUME NEW h \in Hooks, UnloadHook(h), UNCHANGED approvalVars
      PROVE  journal'[f] = journal[f]
  BY <1>14 DEF UnloadHook
<1>15. ASSUME ToggleSession, UNCHANGED approvalVars
      PROVE  journal'[f] = journal[f]
  BY <1>15 DEF ToggleSession
<1>16. ASSUME RecoverOrphanedExecutions, UNCHANGED approvalVars
      PROVE  journal'[f] = journal[f]
  BY <1>16 DEF RecoverOrphanedExecutions
<1>17. ASSUME Boot, UNCHANGED approvalVars
      PROVE  journal'[f] = journal[f]
  BY <1>17 DEF Boot
<1>18. ASSUME NEW e \in Executions, Create(e)
      PROVE  journal'[f] = journal[f]
  BY <1>18 DEF Create
<1>19. ASSUME NEW e \in Executions, NEW version \in ClientVersions, DecideOverdue(e,
             version), mode = "up"
      PROVE  journal'[f] = journal[f]
  BY <1>19 DEF DecideOverdue, actionVars
<1>20. ASSUME NEW e \in Executions, NEW version \in ClientVersions,
             NEW outcome \in {"approved"} \union Refusals, Decide(e, outcome, version), mode = "up",
             following = None
      PROVE  journal'[f] = journal[f]
  BY <1>20 DEF Decide, actionVars
<1>21. ASSUME NEW e \in Executions, Expire(e)
      PROVE  journal'[f] = journal[f]
  BY <1>21 DEF Expire, actionVars
<1>22. ASSUME NEW e \in Executions, Follow(e)
      PROVE  journal'[f] = journal[f]
  BY <1>22 DEF Follow, Resume, CanResume, EnterExecutor, Journal, ResumeRejects, CancelExecution
<1>23. ASSUME Crash
      PROVE  journal'[f] = journal[f]
  BY <1>23 DEF Crash, Die
<1> QED
  BY <1>1, <1>2, <1>3, <1>4, <1>5, <1>6, <1>7, <1>8, <1>9, <1>10, <1>11, <1>12, <1>13,
         <1>14, <1>15, <1>16, <1>17, <1>18, <1>19, <1>20, <1>21, <1>22, <1>23 DEF Next,
         PipelineStep, PluginStep, ProcessStep, DecideStep, ClientVersions

\* A row that has ended never changes again, and what callers were told is
\* what the row says.
THEOREM EndsStay == Spec => EndedRowsStay
<1>1. IInv /\ IInv' /\ [Next]_vars => [KeepsEndedRows]_vars
  <2>1. ASSUME IInv, IInv', Next
        PROVE  KeepsEndedRows
    <3>1. \A f \in Executions : told'[f] \subseteq {journal'[f]}
      BY <2>1 DEF IInv, Coherent
    <3> QED
      BY <2>1, <3>1, NextKeepsEnds DEF KeepsEndedRows
  <2> QED
    BY <2>1
<1> QED
  BY Invariance, <1>1, PTL DEF Spec, EndedRowsStay
=============================================================================
