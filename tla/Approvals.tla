----------------------------- MODULE Approvals -----------------------------
(***************************************************************************)
(* The approval service, ApprovalsService of packages/shared/approvals,    *)
(* composed with the action pipeline: a write the policy suspends gets an  *)
(* approval row, and the decision on that row resumes or cancels the       *)
(* execution.                                                              *)
(*                                                                         *)
(* decide() writes the approval row in one transaction and then, in the    *)
(* same synchronous stretch, moves the execution row in another.  Nothing  *)
(* in the process runs between the two, but the process can die there:     *)
(* "following" names the execution decide() still has to move.             *)
(***************************************************************************)
EXTENDS Actions

CONSTANT None

ASSUME ApprovalsAssumption == None \notin Executions

VARIABLES
  approval,     \* durable: the approvals row of each execution (UNIQUE)
  overdue,      \* executions whose expires_at has passed
  following,    \* the execution decide() is about to resume or cancel
  announced     \* history: approval/resolved outcomes put in the session log

approvalVars == <<approval, overdue, following, announced>>
vars == <<actionVars, approvalVars>>

Refusals       == {"denied", "cancelled"}
Outcomes       == {"approved", "expired"} \union Refusals
ApprovalStates == {"none", "pending"} \union Outcomes

\* Versions a client may send: those a row can have, and one it cannot.
ClientVersions == 1..3

Init ==
  /\ ActionsInit
  /\ approval = [e \in Executions |-> [state |-> "none", version |-> 0]]
  /\ overdue = {}
  /\ following = None
  /\ announced = [e \in Executions |-> {}]

\* decide() appends approval/resolved when the caller hands it a session,
\* which the facade does exactly when the session is live.
Announce(e, outcome) ==
  announced' = IF sessionLive
               THEN [announced EXCEPT ![e] = @ \union {outcome}]
               ELSE announced

(***************************************************************************)
(* create(): the host that was told requires-approval inserts the pending  *)
(* row; it may also fail to, and then nobody will.                         *)
(***************************************************************************)
Create(e) ==
  /\ pc[e] = "suspended"
  /\ pc' = [pc EXCEPT ![e] = "idle"]
  /\ \/ /\ approval[e].state = "none"
        /\ approval' = [approval EXCEPT ![e] = [state |-> "pending", version |-> 1]]
     \/ UNCHANGED approval
  /\ UNCHANGED <<journal, committed, audited, starts, told, overdue, following, announced,
                 policyVars, processVars, signalVars>>

Expire(e) ==
  /\ approval[e].state = "pending"
  /\ e \notin overdue
  /\ overdue' = overdue \union {e}
  /\ UNCHANGED <<actionVars, approval, following, announced>>

\* Mutation: the update guards on the version alone.
MovesByVersion(e, version) == approval[e].version = version

\* UPDATE approvals ... WHERE state = 'pending' AND version = ?
Moves(e, version) == approval[e].state = "pending" /\ approval[e].version = version

ConditionalUpdate(e, state, version) ==
  approval' = IF Moves(e, version)
              THEN [approval EXCEPT ![e] = [state |-> state, version |-> @.version + 1]]
              ELSE approval

\* decide() on an overdue request: expire it; the result of the conditional
\* update is not looked at.  What follows cancels the execution, announces the
\* expiry and throws.
DecideOverdue(e, version) ==
  /\ approval[e].state = "pending"
  /\ e \in overdue
  /\ ConditionalUpdate(e, "expired", version)
  /\ following' = e
  /\ UNCHANGED <<actionVars, overdue, announced>>

\* decide() in time: a decision that moves no row throws.  An append that
\* throws (it may not reenter a publication) leaves the row decided and the
\* execution where it was.
Decide(e, outcome, version) ==
  /\ e \notin overdue
  /\ Moves(e, version)
  /\ ConditionalUpdate(e, outcome, version)
  /\ \/ Announce(e, outcome) /\ following' = e
     \/ sessionLive /\ UNCHANGED <<announced, following>>
  /\ UNCHANGED <<actionVars, overdue>>

\* resumeSuspended or cancelSuspended, and on the overdue path the append that
\* comes after it, which may throw.
Follow(e) ==
  /\ following = e
  /\ following' = None
  /\ IF approval[e].state = "approved"
     THEN Resume(e) \/ ResumeRejects(e)
     ELSE CancelExecution(e)
  /\ \/ e \in overdue /\ Announce(e, "expired")
     \/ UNCHANGED announced
  /\ UNCHANGED <<approval, overdue>>

DecideStep(e) ==
  \/ \E version \in ClientVersions : DecideOverdue(e, version)
  \/ \E version \in ClientVersions, outcome \in {"approved"} \union Refusals :
       Decide(e, outcome, version)

Crash == Die /\ following' = None /\ UNCHANGED <<approval, overdue, announced>>

Next ==
  \/ /\ following = None
     /\ \/ /\ \/ \E e \in Executions : PipelineStep(e)
              \/ PluginStep
              \/ ProcessStep
           /\ UNCHANGED approvalVars
        \/ mode = "up" /\ \E e \in Executions : Create(e) \/ DecideStep(e)
        \/ \E e \in Executions : Expire(e)
  \/ \E e \in Executions : Follow(e)
  \/ Crash

Spec == Init /\ [][Next]_vars
-----------------------------------------------------------------------------
ApprovalTypeOK ==
  /\ approval \in [Executions -> [state : ApprovalStates, version : Nat]]
  /\ overdue \subseteq Executions
  /\ following \in Executions \union {None}
  /\ announced \in [Executions -> SUBSET Outcomes]

\* The rows, the pipelines and the process keep their types.
TypeOK == RowsTypeOK /\ PolicyTypeOK /\ ProcessTypeOK /\ SignalTypeOK /\ ApprovalTypeOK

\* SPEC 3.4, a key is used once: however calls, replays, decisions, plugin
\* unloads, crashes and recoveries interleave, the executor of an execution is
\* entered at most once.
ExecutorEnteredAtMostOnce == \A e \in Executions : starts[e] <= 1

\* An executor that was entered had its authorization: the approval row says
\* approved, or no hook refused or asked for approval and, for a write, some
\* hook explicitly allowed it.
EnteredOnlyWhenAuthorized ==
  \A e \in Executions :
    starts[e] > 0 =>
      /\ "deny" \notin said[e]
      /\ \/ approval[e].state = "approved"
         \/ /\ "require-approval" \notin said[e]
            /\ ActionOf[e] \in Writes => "allow" \in said[e]

\* SPEC 5.8, a plugin unloaded while it executes: a pipeline that still holds a
\* definition nobody can look up any more has had its signal aborted, at
\* whichever await of execute() or resume() the unload found it.
UnloadedPipelinesAreAborted == orphaned \subseteq aborted

\* Two callers of one key are never told two different ends of the execution,
\* by the first call, by replays, or after a crash and recovery.
CallersAgree ==
  \A e \in Executions : \A a, b \in told[e] : a = b

\* A row that has ended never changes again, and what callers were told is
\* what the row says.
KeepsEndedRows ==
  \A e \in Executions :
    /\ journal[e] \in Terminal => journal'[e] = journal[e]
    /\ told'[e] \subseteq {journal'[e]}

EndedRowsStay == [][KeepsEndedRows]_vars

(***************************************************************************)
(* The promise of GuardedWrite: a grant is an approved row or an executor  *)
(* entered on the policy's word; a refusal is a decided row or a row       *)
(* cancelled without having run.                                           *)
(***************************************************************************)
VerdictOf(e) ==
  IF starts[e] > 0 \/ approval[e].state = "approved" THEN "granted"
  ELSE IF journal[e] = "cancelled" \/ approval[e].state \in Outcomes THEN "refused"
  ELSE "open"

Guarded == INSTANCE GuardedWrite
  WITH verdict <- [e \in Executions |-> VerdictOf(e)], performed <- committed

\* The pipeline and the approval service together implement GuardedWrite.
ImplementsGuardedWrite == Guarded!GuardedWriteSpec
=============================================================================
