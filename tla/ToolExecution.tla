--------------------------- MODULE ToolExecution ---------------------------
(***************************************************************************)
(* The staged pipeline of one tool call, ToolRuntime.prepareExecution to   *)
(* finishScheduledExecution of packages/harness/tools, with the question   *)
(* ApprovalService.request asks a user.                                    *)
(*                                                                         *)
(* A stage names the await an execution stands at.  Listeners, guards,     *)
(* answerers, wrappers and tool bodies belong to plugins: what they answer *)
(* is a choice.  Content, values and contexts are left out; of a result,   *)
(* only how it came about is kept.                                         *)
(***************************************************************************)
EXTENDS Naturals, FiniteSets

CONSTANT Calls   \* the calls that share one caller signal

VARIABLES
  exec,     \* Calls -> the execution
  signal    \* whether the caller's signal is aborted

Stages == {"none", "pre-execute", "asking", "answered", "ready", "around", "body",
           "parked", "done"}
Results == {"none", "success", "error", "aborted", "aborted before dispatch"}
Outcomes == {"none", "allowed-once", "rejected", "cancelled", "unavailable"}

\* A parked execution has a result; post says whether post-execute still runs.
Execution == [stage : Stages, result : Results, post : BOOLEAN, invoked : BOOLEAN,
              timeout : BOOLEAN, asked : BOOLEAN, outcome : Outcomes, decided : BOOLEAN]

Blank == [stage |-> "none", result |-> "none", post |-> FALSE, invoked |-> FALSE,
          timeout |-> FALSE, asked |-> FALSE, outcome |-> "none", decided |-> FALSE]

Park(x, result, post) ==
  [x EXCEPT !.stage = "parked", !.result = result, !.post = post, !.timeout = FALSE]

\* Mutation: how a cancelled call ended does not depend on its body.
AlwaysBefore(x) == "aborted before dispatch"

\* cancellationResult
Cancellation(x) == IF x.invoked THEN "aborted" ELSE "aborted before dispatch"

\* Cancellation supersedes success, never a failure
Superseded(x, result) == IF signal /\ result = "success" THEN Cancellation(x) ELSE result

-----------------------------------------------------------------------------
(* prepare *)

\* createExecution of a nested call, and the check before the first listener
Created == IF signal THEN Park(Blank, "aborted before dispatch", FALSE)
           ELSE [Blank EXCEPT !.stage = "pre-execute"]

\* prepareExecution once the call is allowed: the guards, and the signal again
Guarded(x) ==
  {Park(x, "error", TRUE), IF signal THEN Park(x, "aborted before dispatch", TRUE)
                           ELSE [x EXCEPT !.stage = "ready"]}

\* request: asked is logged, then decide refuses, or asks the answerers
Asked(x) ==
  LET y == [x EXCEPT !.asked = TRUE] IN
  IF signal THEN {[y EXCEPT !.stage = "answered", !.outcome = "cancelled"]}
  ELSE {[y EXCEPT !.stage = "answered", !.outcome = "rejected"], [y EXCEPT !.stage = "asking"]}

\* The pre-execute listeners allow, deny, ask or throw; without an approval
\* service or an agent, to ask is to deny.
PreExecuted(x) == Guarded(x) \cup Asked(x) \cup {Park(x, "error", TRUE), Park(x, "error", FALSE)}

PreExecute(c) ==
  /\ exec[c].stage = "pre-execute"
  /\ \E x \in PreExecuted(exec[c]) : exec' = [exec EXCEPT ![c] = x]
  /\ UNCHANGED signal

\* The answerers settle first; what is not an outcome becomes "unavailable".
Answer(c) ==
  /\ exec[c].stage = "asking"
  /\ \E o \in Outcomes \ {"none"} : exec' = [exec EXCEPT ![c].stage = "answered", ![c].outcome = o]
  /\ UNCHANGED signal

\* Mutation: a question that is cancelled goes on as if it had been allowed.
ResolvedUnread(x) == Guarded(x)

\* serviceAsk maps the outcome
Resolved(x) ==
  CASE x.outcome = "allowed-once" -> Guarded(x)
    [] x.outcome = "cancelled" /\ signal -> {Park(x, "aborted before dispatch", TRUE)}
    [] OTHER -> {Park(x, "error", TRUE)}

\* decided is logged and the outcome decides
Resolve(c) ==
  /\ exec[c].stage = "answered"
  /\ \E x \in Resolved([exec[c] EXCEPT !.decided = TRUE]) : exec' = [exec EXCEPT ![c] = x]
  /\ UNCHANGED signal

\* Mutation: a question stays open when its signal is aborted.
StillAsking(x) == x

\* What the abort event does to an execution: a question is withdrawn, and a
\* late answer finds it settled.
Withdrawn(x) ==
  IF x.stage = "asking" THEN [x EXCEPT !.stage = "answered", !.outcome = "cancelled"] ELSE x

AbortAll == signal' = TRUE /\ exec' = [c \in Calls |-> Withdrawn(exec[c])]

-----------------------------------------------------------------------------
(* dispatch *)

\* dispatchScheduledExecution after the wrappers returned: one may have authored
\* another result than the one it was given, or thrown past post-execute.
Dispatched(x, result) ==
  {Park(x, Superseded(x, r), TRUE) : r \in {result, "success", "error"}}
    \cup {Park(x, "error", FALSE)}

\* dispatchToolBody up to the call of the body, which may be unknown by now
Entered(x) ==
  IF signal \/ x.timeout
  THEN Dispatched(x, "aborted before dispatch")
  ELSE Dispatched(x, "error") \cup {[x EXCEPT !.stage = "body", !.invoked = TRUE]}

\* The tools/execute wrappers: one may answer itself, or go on to the body, also
\* under a signal of its own.
Around(c) ==
  /\ exec[c].stage = "around"
  /\ \E x \in Entered(exec[c]) \cup Entered([exec[c] EXCEPT !.timeout = TRUE]) :
       exec' = [exec EXCEPT ![c] = x]
  /\ UNCHANGED signal

\* A wrapper's signal fires while the body runs
Timeout(c) ==
  /\ exec[c].stage = "body" /\ ~exec[c].timeout
  /\ exec' = [exec EXCEPT ![c].timeout = TRUE]
  /\ UNCHANGED signal

\* The body settles: it throws, or returns what fits its output schema or not
BodySettles(c) ==
  LET x == exec[c] IN
  /\ x.stage = "body"
  /\ \E r \in {"error", IF signal \/ x.timeout THEN "aborted" ELSE "success"} :
       \E y \in Dispatched(x, r) : exec' = [exec EXCEPT ![c] = y]
  /\ UNCHANGED signal

-----------------------------------------------------------------------------
(* finalize and finish *)

\* post-execute accepts, replaces, blocks or throws; then the signal once more
Posted(x) == IF x.post THEN {Superseded(x, x.result), "error"} ELSE {x.result}

\* The definition's content finalizer may throw after all of that.  Nobody reads
\* the execution again.
Finished(x) == {[Blank EXCEPT !.stage = "done", !.result = r, !.invoked = x.invoked] :
                  r \in Posted(x) \cup {"error"}}

-----------------------------------------------------------------------------
(* Properties *)

\* What a result says of the body is true of it: "aborted" only after a body
\* that ran to its end, "aborted before dispatch" only when none was invoked.
OutcomeTellsTheBody ==
  \A c \in Calls : exec[c].stage \in {"parked", "done"} =>
    /\ exec[c].result = "aborted" => exec[c].invoked
    /\ exec[c].result = "aborted before dispatch" => ~exec[c].invoked

\* Nothing that was asked runs unless the user allowed it, and what was asked
\* is answered in the log before the call goes on.
OnlyGrantedRuns ==
  \A c \in Calls : exec[c].asked =>
    /\ exec[c].stage \notin {"asking", "answered"} => exec[c].decided
    /\ exec[c].invoked => exec[c].outcome = "allowed-once"

=============================================================================
