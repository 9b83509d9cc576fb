------------------------------ MODULE Actions ------------------------------
(***************************************************************************)
(* The action pipeline, ActionsService of packages/shared/actions: one     *)
(* journal row per (action name, idempotency key), the in-process          *)
(* pipelines that drive it, and the recovery pass of the next process.     *)
(*                                                                         *)
(* JavaScript runs one handler at a time and the SQLite driver is          *)
(* synchronous, so everything between two awaits is one action here.  The  *)
(* awaits of execute() are each policy hook, the return of resolvePolicy   *)
(* and the executor; a process may die between any two actions.            *)
(*                                                                         *)
(* This module states the operations.  Approvals.tla adds the approval     *)
(* rows, which are the only callers of resume() and cancelExecution(), and *)
(* composes both into a specification.                                     *)
(***************************************************************************)
EXTENDS Naturals, Sequences, SequencesExt

CONSTANTS
  Executions,   \* an execution: one action_name and one idempotency_key
  Names,        \* the action names
  ActionOf,     \* the name each execution belongs to
  Writes,       \* the names whose sideEffect is local-write or external-write
  Hooks,        \* the policy hooks plugins may register
  MaxCrashes    \* bound on process deaths

ASSUME ActionsAssumption ==
  /\ ActionOf \in [Executions -> Names]
  /\ Writes \subseteq Names
  /\ MaxCrashes \in Nat

VARIABLES
  \* durable: the action_executions table
  journal,      \* state of each row, "absent" before the INSERT
  \* the outside world
  committed,    \* executions whose side effect has happened
  \* this process
  mode,         \* "booting" until the host has mounted the plugins, then "up"
  registered,   \* definitions: the names currently registered
  hooks,        \* the registered policy hooks, in registration order
  pc,           \* where the pipeline of each execution stands
  cursor,       \* index of the hook being awaited, 0 once policy is resolved
  inflight,     \* the keys of the inflight map
  aborted,      \* pipelines whose AbortController has fired
  sessionLive,  \* whether ctx.sessions.get finds the owning session
  crashes,
  \* history
  said,         \* the hook verdicts each execution's policy phase collected
  orphaned,     \* live pipelines whose definition has been unloaded
  audited,      \* executions whose running record reached the session log
  starts,       \* how often the executor was entered
  told          \* terminal outcomes reported to some caller

policyVars  == <<hooks, cursor, said>>
processVars == <<mode, registered, sessionLive, crashes>>
signalVars  == <<inflight, aborted, orphaned>>
actionVars  == <<journal, committed, pc, audited, starts, told,
                 policyVars, processVars, signalVars>>

Verdicts == {"allow", "deny", "require-approval"}
Terminal == {"succeeded", "failed", "cancelled", "recovery-required"}
ActionStates == {"absent", "proposed", "awaiting-approval", "running"} \union Terminal

\* "executing" and "resumed" are the executor entered by execute() and by
\* resume(); "suspended" is execute() having returned requires-approval to a
\* host that has not yet created the approval row.
Executor == {"executing", "resumed"}
Live     == {"policy"} \union Executor
Stages   == {"idle", "suspended"} \union Live

(***************************************************************************)
(* The decision over the verdicts the hooks gave: a deny wins, then a      *)
(* require-approval, then an explicit allow; without any, writes require   *)
(* approval and reads are allowed.                                         *)
(***************************************************************************)
\* Mutation: a call nobody decided is allowed, whatever its side effect.
ResolvePolicyDefaultAllow(verdicts, name) ==
  CASE "deny" \in verdicts             -> "deny"
    [] "deny" \notin verdicts /\ "require-approval" \in verdicts -> "require-approval"
    [] OTHER -> "allow"

ResolvePolicy(verdicts, name) ==
  CASE "deny" \in verdicts             -> "deny"
    [] "deny" \notin verdicts /\ "require-approval" \in verdicts -> "require-approval"
    [] verdicts = {"allow"}            -> "allow"
    [] OTHER -> IF name \in Writes THEN "require-approval" ELSE "allow"

ActionsInit ==
  /\ journal = [e \in Executions |-> "absent"]
  /\ committed = {}
  /\ mode = "booting"
  /\ registered = {}
  /\ hooks = <<>>
  /\ pc = [e \in Executions |-> "idle"]
  /\ cursor = [e \in Executions |-> 0]
  /\ inflight = {}
  /\ aborted = {}
  /\ sessionLive = FALSE
  /\ crashes = 0
  /\ said = [e \in Executions |-> {}]
  /\ orphaned = {}
  /\ audited = {}
  /\ starts = [e \in Executions |-> 0]
  /\ told = [e \in Executions |-> {}]

(***************************************************************************)
(* Parts of the handlers.                                                  *)
(***************************************************************************)

\* execute()'s finally block: the pipeline leaves the inflight map and its
\* controller and definition are unreachable from here on.
Finish(e, stage) ==
  /\ pc' = [pc EXCEPT ![e] = stage]
  /\ inflight' = inflight \ {e}
  /\ aborted' = aborted \ {e}
  /\ orphaned' = orphaned \ {e}

\* The bundle's recorder appends to the session when it is live and returns
\* silently when it is not.
RecordRunning(e) == audited' = IF sessionLive THEN audited \union {e} ELSE audited

Tell(e, outcome) == told' = [told EXCEPT ![e] = @ \union {outcome}]

Journal(e, state) == journal' = [journal EXCEPT ![e] = state]

EnterExecutor(e, stage) ==
  /\ Journal(e, "running")
  /\ RecordRunning(e)
  /\ starts' = [starts EXCEPT ![e] = @ + 1]
  /\ pc' = [pc EXCEPT ![e] = stage]

(***************************************************************************)
(* execute(): the synchronous head.  A valid call of a registered action   *)
(* reserves the row and invokes the first hook; a call that finds the row  *)
(* replays it.                                                             *)
(***************************************************************************)
Reserve(e) ==
  /\ mode = "up"
  /\ ActionOf[e] \in registered
  /\ journal[e] = "absent"
  /\ Journal(e, "proposed")
  /\ inflight' = inflight \union {e}
  /\ pc' = [pc EXCEPT ![e] = "policy"]
  /\ cursor' = [cursor EXCEPT ![e] = IF hooks = <<>> THEN 0 ELSE 1]
  /\ UNCHANGED <<committed, hooks, said, audited, starts, told,
                 aborted, orphaned, processVars>>

\* A same-key call: terminal rows are reported, others are "in-progress".
Replay(e) ==
  /\ mode = "up"
  /\ ActionOf[e] \in registered
  /\ journal[e] \in Terminal
  /\ Tell(e, journal[e])
  /\ UNCHANGED <<journal, committed, pc, audited, starts, policyVars, processVars, signalVars>>

\* resolvePolicy: the awaited hook answers; a deny returns at once, otherwise
\* the loop goes on with whatever now stands at the next index.
HookReturns(e) ==
  /\ pc[e] = "policy"
  /\ cursor[e] > 0
  /\ \E v \in Verdicts :
       LET next == cursor[e] + 1
           goOn == v # "deny" /\ next <= Len(hooks)
       IN  /\ said' = [said EXCEPT ![e] = @ \union {v}]
           /\ cursor' = [cursor EXCEPT ![e] = IF goOn THEN next ELSE 0]
  /\ UNCHANGED <<journal, committed, pc, hooks, audited, starts, told, processVars, signalVars>>

\* A hook throws or returns an invalid result, the caller's signal aborts
\* between two hooks, or the audit gate or a journal write throws: execute()
\* rejects before the executor and the row stays proposed.
RejectBeforeExecutor(e) ==
  /\ pc[e] = "policy"
  /\ Finish(e, "idle")
  /\ cursor' = [cursor EXCEPT ![e] = 0]
  /\ \/ UNCHANGED audited
     \/ /\ cursor[e] = 0
        /\ ResolvePolicy(said[e], ActionOf[e]) = "allow"
        /\ RecordRunning(e)
  /\ UNCHANGED <<journal, committed, hooks, said, starts, told, processVars>>

Resolved(e, decision) ==
  /\ pc[e] = "policy"
  /\ cursor[e] = 0
  /\ ResolvePolicy(said[e], ActionOf[e]) = decision

DenyByPolicy(e) ==
  /\ Resolved(e, "deny")
  /\ Journal(e, "cancelled")
  /\ Tell(e, "cancelled")
  /\ Finish(e, "idle")
  /\ UNCHANGED <<committed, audited, starts, policyVars, processVars>>

Suspend(e) ==
  /\ Resolved(e, "require-approval")
  /\ Journal(e, "awaiting-approval")
  /\ Finish(e, "suspended")
  /\ UNCHANGED <<committed, audited, starts, told, policyVars, processVars>>

StartAllowed(e) ==
  /\ Resolved(e, "allow")
  /\ EnterExecutor(e, "executing")
  /\ UNCHANGED <<committed, told, policyVars, processVars, signalVars>>

(***************************************************************************)
(* The executor runs asynchronously: its side effect may happen at any     *)
(* time, and then it returns, throws, or gives up on the abort signal.     *)
(***************************************************************************)
Commit(e) ==
  /\ pc[e] \in Executor
  /\ e \notin committed
  /\ committed' = committed \union {e}
  /\ UNCHANGED <<journal, pc, audited, starts, told, policyVars, processVars, signalVars>>

\* The executor returns: persistOutcome("succeeded") runs inside the try, so
\* when it throws (an unserializable result, a busy database) the catch block
\* journals "failed", and when that throws too the row stays running.
Return(e) ==
  /\ pc[e] \in Executor
  /\ e \in committed
  /\ Finish(e, "idle")
  /\ \/ \E outcome \in {"succeeded", "failed"} : Journal(e, outcome) /\ Tell(e, outcome)
     \/ UNCHANGED <<journal, told>>
  /\ UNCHANGED <<committed, audited, starts, policyVars, processVars>>

\* The executor throws an error ("failed") or an AbortError ("cancelled"; the
\* code looks at the error, not at the signal); journaling may throw in turn.
Throw(e) ==
  /\ pc[e] \in Executor
  /\ Finish(e, "idle")
  /\ \/ \E outcome \in {"failed", "cancelled"} : Journal(e, outcome) /\ Tell(e, outcome)
     \/ UNCHANGED <<journal, told>>
  /\ UNCHANGED <<committed, audited, starts, policyVars, processVars>>

(***************************************************************************)
(* resume() and cancelExecution(), called by the approval service.         *)
(***************************************************************************)
CanResume(e) == journal[e] = "awaiting-approval" /\ ActionOf[e] \in registered

Resume(e) ==
  /\ CanResume(e)
  /\ EnterExecutor(e, "resumed")
  /\ inflight' = inflight \union {e}
  /\ UNCHANGED <<committed, told, aborted, orphaned, policyVars, processVars>>

\* resume() rejects: the row moved, the action is gone or its schema no longer
\* accepts the input, the audit gate throws, or the transition to running does.
ResumeRejects(e) ==
  /\ \/ UNCHANGED audited
     \/ CanResume(e) /\ RecordRunning(e)
  /\ UNCHANGED <<journal, committed, pc, starts, told, policyVars, processVars, signalVars>>

\* cancelExecution: only an awaiting-approval row moves.
CancelExecution(e) ==
  /\ journal' = [journal EXCEPT ![e] = IF @ = "awaiting-approval" THEN "cancelled" ELSE @]
  /\ UNCHANGED <<committed, pc, audited, starts, told, policyVars, processVars, signalVars>>

(***************************************************************************)
(* Plugins come and go while pipelines run.                                *)
(***************************************************************************)
RegisterAction(n) ==
  /\ mode = "up"
  /\ n \notin registered
  /\ registered' = registered \union {n}
  /\ UNCHANGED <<journal, committed, pc, audited, starts, told, mode, sessionLive, crashes,
                 policyVars, signalVars>>

\* The disposer drops the definition and aborts every pipeline the inflight
\* map holds for it.
UnloadAction(n) ==
  LET running == {e \in inflight : ActionOf[e] = n}
  IN  /\ mode = "up"
      /\ n \in registered
      /\ registered' = registered \ {n}
      /\ aborted' = aborted \union running
      /\ inflight' = inflight \ running
      /\ orphaned' = orphaned \union {e \in Executions : pc[e] \in Live /\ ActionOf[e] = n}
      /\ UNCHANGED <<journal, committed, pc, audited, starts, told, mode, sessionLive, crashes,
                     policyVars>>

Registered(h) == \E i \in DOMAIN hooks : hooks[i] = h

RegisterHook(h) ==
  /\ mode = "up"
  /\ ~Registered(h)
  /\ hooks' = Append(hooks, h)
  /\ UNCHANGED <<journal, committed, pc, cursor, said, audited, starts, told,
                 processVars, signalVars>>

\* splice(index, 1) on the array resolvePolicy may be iterating over.
UnloadHook(h) ==
  /\ mode = "up"
  /\ \E i \in DOMAIN hooks : hooks[i] = h /\ hooks' = RemoveAt(hooks, i)
  /\ UNCHANGED <<journal, committed, pc, cursor, said, audited, starts, told,
                 processVars, signalVars>>

\* The owning session is opened, resumed or closed by its host.
ToggleSession ==
  /\ mode = "up"
  /\ sessionLive' = ~sessionLive
  /\ UNCHANGED <<journal, committed, pc, audited, starts, told, mode, registered, crashes,
                 policyVars, signalVars>>

(***************************************************************************)
(* The process dies and a new one starts.  The recovery pass is the host's *)
(* to call, "after the runtime starts, so a running row can only be a      *)
(* crash orphan": it is allowed here only before the first call.           *)
(***************************************************************************)
\* Mutation: the recovery pass frees the rows that did not succeed for a retry.
RecoverForRetry ==
  /\ mode = "booting"
  /\ journal' = [e \in Executions |->
       IF journal[e] \in {"proposed", "running", "failed"} THEN "absent" ELSE journal[e]]
  /\ UNCHANGED <<committed, pc, audited, starts, told, policyVars, processVars, signalVars>>

RecoverOrphanedExecutions ==
  /\ mode = "booting"
  /\ \E e \in Executions : journal[e] \in {"proposed", "running"}
  /\ journal' = [e \in Executions |->
       IF journal[e] \in {"proposed", "running"} THEN "recovery-required" ELSE journal[e]]
  /\ UNCHANGED <<committed, pc, audited, starts, told, policyVars, processVars, signalVars>>

Boot ==
  /\ mode = "booting"
  /\ mode' = "up"
  /\ registered' = Names
  /\ UNCHANGED <<journal, committed, pc, audited, starts, told, sessionLive, crashes,
                 policyVars, signalVars>>

Die ==
  /\ mode = "up"
  /\ crashes < MaxCrashes
  /\ mode' = "booting"
  /\ crashes' = crashes + 1
  /\ registered' = {}
  /\ hooks' = <<>>
  /\ pc' = [e \in Executions |-> "idle"]
  /\ cursor' = [e \in Executions |-> 0]
  /\ inflight' = {}
  /\ aborted' = {}
  /\ orphaned' = {}
  /\ sessionLive' = FALSE
  /\ UNCHANGED <<journal, committed, audited, starts, told, said>>

PipelineStep(e) ==
  \/ Reserve(e) \/ Replay(e)
  \/ HookReturns(e) \/ RejectBeforeExecutor(e)
  \/ DenyByPolicy(e) \/ Suspend(e) \/ StartAllowed(e)
  \/ Commit(e) \/ Return(e) \/ Throw(e)

PluginStep ==
  \/ \E n \in Names : RegisterAction(n) \/ UnloadAction(n)
  \/ \E h \in Hooks : RegisterHook(h) \/ UnloadHook(h)
  \/ ToggleSession

ProcessStep == RecoverOrphanedExecutions \/ Boot
-----------------------------------------------------------------------------
RowsTypeOK ==
  /\ journal \in [Executions -> ActionStates]
  /\ committed \subseteq Executions
  /\ pc \in [Executions -> Stages]
  /\ audited \subseteq Executions
  /\ starts \in [Executions -> Nat]
  /\ told \in [Executions -> SUBSET Terminal]

PolicyTypeOK ==
  /\ hooks \in Seq(Hooks)
  /\ cursor \in [Executions -> Nat]
  /\ said \in [Executions -> SUBSET Verdicts]

ProcessTypeOK ==
  /\ mode \in {"booting", "up"}
  /\ registered \subseteq Names
  /\ sessionLive \in BOOLEAN
  /\ crashes \in 0..MaxCrashes

SignalTypeOK ==
  /\ inflight \subseteq Executions
  /\ aborted \subseteq Executions
  /\ orphaned \subseteq Executions
=============================================================================
