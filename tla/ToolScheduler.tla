--------------------------- MODULE ToolScheduler ---------------------------
(***************************************************************************)
(* The scheduler of one step's tool calls, executeToolCalls and runGroup   *)
(* of packages/harness/agent-loop/src/tool-calls.ts.                       *)
(*                                                                         *)
(* Calls are numbered in model order.  The scheduler is one async function *)
(* that awaits prepare, finalize, the race of the pool and, after a        *)
(* failure, the settling of the pool; what it does between two awaits is   *)
(* one action.  Tool bodies settle, the step is aborted and tools change   *)
(* their concurrency mode at any time.  The content of results, their      *)
(* contexts and whether one concludes the turn are left out.               *)
(***************************************************************************)
EXTENDS Naturals, Sequences, FiniteSets

CONSTANTS
  N,            \* the calls of the assistant message
  MaxParallel   \* maxParallelToolCalls of the loop's configuration

ASSUME ToolSchedulerAssumption ==
  /\ N \in Nat \ {0}
  /\ MaxParallel \in Nat \ {0}

Calls == 1..N

VARIABLES
  mode,      \* what executionMode says of each call, until it is started
  signal,    \* the step's abort signal
  pc,        \* the await executeToolCalls stands at, or how it ended
  first,     \* calls consumed by earlier groups
  last,      \* the last call of the group
  calls,     \* the tool/call events of the log
  results,   \* the tool/result events of the log
  slots,     \* calls whose slot is filled
  inFlight,  \* the keys of the inFlight map
  running,   \* tool bodies that have not settled
  aborted,   \* what the group has seen of the signal
  failure    \* schedulerFailure

groupVars == <<first, last>>
poolVars  == <<slots, inFlight, running>>
vars == <<mode, signal, pc, groupVars, calls, results, poolVars, aborted, failure>>

Ends  == {"done", "aborted", "failed"}
Stops == {"group", "preparing", "committing", "pool", "drain"} \union Ends

Init ==
  /\ mode \in [Calls -> {"parallel", "exclusive"}]
  /\ signal \in BOOLEAN
  /\ pc = "group"
  /\ first = 0
  /\ last = 0
  /\ calls = <<>>
  /\ results = <<>>
  /\ slots = {}
  /\ inFlight = {}
  /\ running = {}
  /\ aborted = FALSE
  /\ failure = FALSE

(***************************************************************************)
(* The environment.                                                        *)
(***************************************************************************)
Started(c) == c <= Len(calls)

\* A registry change: executionMode of a started call is not read again.
Reclassify(c) ==
  /\ pc \notin Ends
  /\ ~Started(c)
  /\ mode' = [mode EXCEPT ![c] = IF @ = "parallel" THEN "exclusive" ELSE "parallel"]
  /\ UNCHANGED <<signal, pc, groupVars, calls, results, poolVars, aborted, failure>>

Abort ==
  /\ pc \notin Ends
  /\ ~signal
  /\ signal' = TRUE
  /\ UNCHANGED <<mode, pc, groupVars, calls, results, poolVars, aborted, failure>>

\* A dispatched call settles: its result fills the slot, or dispatch itself
\* rejects and the failure is recorded.
Settle(c) ==
  /\ c \in running
  /\ running' = running \ {c}
  /\ \/ slots' = slots \union {c} /\ UNCHANGED failure
     \/ failure' = TRUE /\ UNCHANGED slots
  /\ UNCHANGED <<mode, signal, pc, groupVars, calls, results, inFlight, aborted>>

(***************************************************************************)
(* The scheduler.                                                          *)
(***************************************************************************)
\* Mutation: the live mode of a later call is not read again.
MayStartUnread(c, before, end) == c <= end

\* Later calls of a parallel group are reclassified before they start.
MayStart(c, before, end) ==
  /\ c <= end
  /\ c = before + 1 \/ mode[c] = "parallel"

\* fillPool's loop head: log and prepare the next call, or go and race.
Fill(before, end, stop) ==
  LET c == Len(calls) + 1
  IN  IF ~stop /\ MayStart(c, before, end) /\ Cardinality(inFlight) < MaxParallel
      THEN calls' = Append(calls, c) /\ pc' = "preparing"
      ELSE UNCHANGED calls /\ pc' = "pool"

\* executeToolCalls classifies the next call and enters runGroup.
StartGroup ==
  /\ pc = "group"
  /\ first < N
  /\ last' = IF mode[first + 1] = "parallel" THEN N ELSE first + 1
  /\ aborted' = signal
  /\ Fill(first, last', aborted')
  /\ UNCHANGED <<mode, signal, first, results, poolVars, failure>>

Complete ==
  /\ pc = "group"
  /\ first = N
  /\ pc' = "done"
  /\ UNCHANGED <<mode, signal, groupVars, calls, results, poolVars, aborted, failure>>

\* prepare returns: the call is dispatched, or its result is known already.
\* A failure recorded meanwhile is thrown before the dispatch.
Prepared ==
  LET c == Len(calls)
  IN  /\ pc = "preparing"
      /\ ~failure
      /\ pc' = "committing"
      /\ \/ /\ inFlight' = inFlight \union {c}
            /\ running' = running \union {c}
            /\ UNCHANGED slots
         \/ slots' = slots \union {c} /\ UNCHANGED <<inFlight, running>>
      /\ UNCHANGED <<mode, signal, groupVars, calls, results, aborted, failure>>

\* The catch block: wait for everything that was dispatched.
Drain ==
  /\ failure' = TRUE
  /\ pc' = "drain"
  /\ UNCHANGED <<mode, signal, groupVars, calls, results, aborted>>

\* prepare throws, or returns after a failure.
PrepareFails ==
  /\ pc = "preparing"
  /\ Drain
  /\ UNCHANGED poolVars

\* Mutation: whatever has settled is committed.
CommitSettled ==
  /\ pc = "committing"
  /\ \E c \in slots :
       /\ \A i \in DOMAIN results : results[i] # c
       /\ results' = Append(results, c)
  /\ UNCHANGED <<mode, signal, pc, groupVars, calls, poolVars, aborted, failure>>

\* commitReady: the next call in model order is finalized and its result logged.
Committable == Len(results) < last /\ Len(results) + 1 \in slots

Commit ==
  /\ pc = "committing"
  /\ Committable
  /\ results' = Append(results, Len(results) + 1)
  /\ UNCHANGED <<mode, signal, pc, groupVars, calls, poolVars, aborted, failure>>

\* Finalizing throws.
CommitFails ==
  /\ pc = "committing"
  /\ Committable
  /\ Drain
  /\ UNCHANGED poolVars

\* commitReady returns: throw a recorded failure, look at the signal, fill.
Committed ==
  /\ pc = "committing"
  /\ ~Committable
  /\ ~failure
  /\ aborted' = (aborted \/ signal)
  /\ Fill(first, last, aborted')
  /\ UNCHANGED <<mode, signal, groupVars, results, poolVars, failure>>

CommittedFails ==
  /\ pc = "committing"
  /\ ~Committable
  /\ failure
  /\ Drain
  /\ UNCHANGED poolVars

\* Mutation: a call that won the race stays in the map.
RaceResolvesKept ==
  /\ pc = "pool"
  /\ inFlight \ running # {}
  /\ IF failure THEN Drain
     ELSE /\ pc' = "committing"
          /\ UNCHANGED <<mode, signal, groupVars, calls, results, aborted, failure>>
  /\ UNCHANGED poolVars

\* The race of the pool resolves with a call that has settled.
RaceResolves ==
  /\ pc = "pool"
  /\ \E c \in inFlight \ running : inFlight' = inFlight \ {c}
  /\ IF failure THEN Drain
     ELSE /\ pc' = "committing"
          /\ UNCHANGED <<mode, signal, groupVars, calls, results, aborted, failure>>
  /\ UNCHANGED <<slots, running>>

\* runGroup returns what it started.
GroupEnds ==
  /\ pc = "pool"
  /\ inFlight = {}
  /\ ~aborted
  /\ pc' = "group"
  /\ first' = Len(calls)
  /\ UNCHANGED <<mode, signal, last, calls, results, poolVars, aborted, failure>>

\* An aborted group: every call not started, of this group and of later ones,
\* is logged with a synthetic result.
GroupAborts ==
  /\ pc = "pool"
  /\ inFlight = {}
  /\ aborted
  /\ pc' = "aborted"
  /\ LET skipped == [i \in 1..(N - Len(calls)) |-> Len(calls) + i]
     IN  calls' = calls \o skipped /\ results' = results \o skipped
  /\ UNCHANGED <<mode, signal, groupVars, poolVars, aborted, failure>>

\* Mutation: the failure is thrown while tools still run.
DrainedAtOnce ==
  /\ pc = "drain"
  /\ pc' = "failed"
  /\ UNCHANGED <<mode, signal, groupVars, calls, results, poolVars, aborted, failure>>

Drained ==
  /\ pc = "drain"
  /\ running = {}
  /\ pc' = "failed"
  /\ UNCHANGED <<mode, signal, groupVars, calls, results, poolVars, aborted, failure>>

SchedulerStep ==
  \/ StartGroup \/ Complete
  \/ Prepared \/ PrepareFails
  \/ Commit \/ CommitFails \/ Committed \/ CommittedFails
  \/ RaceResolves \/ GroupEnds \/ GroupAborts
  \/ Drained

Next ==
  \/ SchedulerStep
  \/ Abort
  \/ \E c \in Calls : Reclassify(c) \/ Settle(c)

(***************************************************************************)
(* Promise jobs run, prepare and finalize answer, and every tool body that *)
(* was dispatched settles.                                                 *)
(***************************************************************************)
Fairness == WF_vars(SchedulerStep) /\ \A c \in Calls : WF_vars(Settle(c))

Spec == Init /\ [][Next]_vars /\ Fairness
-----------------------------------------------------------------------------
ProgressTypeOK ==
  /\ mode \in [Calls -> {"parallel", "exclusive"}]
  /\ pc \in Stops
  /\ first \in 0..N
  /\ last \in 0..N

LogTypeOK ==
  /\ calls \in Seq(Calls)
  /\ results \in Seq(Calls)

PoolTypeOK ==
  /\ slots \subseteq Calls
  /\ inFlight \subseteq Calls
  /\ running \subseteq inFlight

SignalTypeOK ==
  /\ signal \in BOOLEAN
  /\ aborted \in BOOLEAN
  /\ failure \in BOOLEAN

\* Every variable keeps its type.
TypeOK == ProgressTypeOK /\ LogTypeOK /\ PoolTypeOK /\ SignalTypeOK

Open(c) == Started(c) /\ c > Len(results)

\* "Exclusive calls form barriers": while a call that was exclusive when it
\* started has no result yet, no other call of the step is open.
ExclusiveRunsAlone ==
  \A c, d \in Calls :
    Open(c) /\ Open(d) /\ mode[c] = "exclusive" => c = d

\* The pool is bounded: never more tool bodies than configured.
PoolIsBounded == Cardinality(running) <= MaxParallel

\* "A non-aborted group commits every started call", and an aborted one does
\* before it fabricates results: when the pool is empty nothing is uncommitted.
StartedCallsAreCommitted ==
  pc = "pool" /\ inFlight = {} => Len(results) = Len(calls)

\* No tool body outlives the step, however the step ended.
NothingOutlivesTheStep == pc \in Ends => running = {}

\* Once the step is aborted no further call is started, and after a scheduler
\* failure no further tool body is dispatched.
AbortStopsStarts ==
  [][/\ signal /\ pc' = "preparing" => pc = "preparing"
     /\ failure => running' \subseteq running]_vars

\* The step ends once its tools settle.
StepEnds == <>(pc \in Ends)

\* The scheduler answers the calls in model order, once each.
Ordered == INSTANCE OrderedAnswers
  WITH outcome <- IF pc \in Ends THEN pc ELSE "open"

ImplementsOrderedAnswers == Ordered!OrderedAnswersSpec
=============================================================================
