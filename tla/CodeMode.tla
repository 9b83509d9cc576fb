------------------------------ MODULE CodeMode ------------------------------
(***************************************************************************)
(* One run of the run_code tool, createRunCodeTool of packages/harness/    *)
(* tools/src/code-mode.ts: a program submits calls of tools through its    *)
(* bindings, and one ordered lane prepares, starts and commits them while  *)
(* only their bodies overlap.                                              *)
(*                                                                         *)
(* Calls are numbered in the order of submission.  The lane is drive: what *)
(* it does between two awaits is one action.  How a call is classified is  *)
(* read from the registry at each pass, so it is a choice of the pass.     *)
(***************************************************************************)
EXTENDS ToolExecution, Sequences

CONSTANT MaxParallel   \* maxParallelSubCalls

ASSUME CodeModeAssumption ==
  /\ IsFiniteSet(Calls) /\ Calls = 1..Cardinality(Calls)
  /\ MaxParallel \in Nat \ {0}

VARIABLES
  run,        \* the run: running, draining after the program settled, done
  promise,    \* Calls -> what the binding's promise became
  pending,    \* pendingQueue
  commits,    \* commitQueue
  inFlight,   \* calls in the pool
  mode,       \* Calls -> the classification a call was started under
  exclusive,  \* exclusiveActive
  lane,       \* the await the lane stands at, and the call it stands there for
  logWork,    \* settled calls whose tool/code-dispatch event is not appended
  logged      \* the tool/code-dispatch-start and tool/code-dispatch events

queueVars == <<pending, commits, inFlight, mode, exclusive>>
runVars == <<run, promise, logWork, logged>>
vars == <<exec, signal, runVars, queueVars, lane>>

Init ==
  /\ exec = [c \in Calls |-> Blank]
  /\ signal = FALSE
  /\ run = "running"
  /\ promise = [c \in Calls |-> "none"]
  /\ pending = <<>> /\ commits = <<>> /\ inFlight = {}
  /\ mode = [c \in Calls |-> "none"]
  /\ exclusive = FALSE
  /\ lane = [at |-> "off", call |-> 0]
  /\ logWork = {}
  /\ logged = {}

Standing(at, c) == [at |-> at, call |-> c]
Passing == Standing("pass", 0)

\* wakeup, and drive when no lane runs
Driven == IF lane.at \in {"off", "asleep"} THEN Passing ELSE lane
Woken == IF lane.at = "asleep" THEN Passing ELSE lane

-----------------------------------------------------------------------------
(* The program and the run *)

\* A binding is called: queued, or refused once the run is over
Submit(c) ==
  /\ run = "running" /\ promise[c] = "none"
  /\ \A d \in Calls : d < c => promise[d] # "none"
  /\ IF signal
     THEN /\ promise' = [promise EXCEPT ![c] = "rejected"]
          /\ UNCHANGED <<pending, lane>>
     ELSE /\ promise' = [promise EXCEPT ![c] = "pending"]
          /\ pending' = Append(pending, c)
          /\ lane' = Driven
  /\ UNCHANGED <<exec, signal, run, logWork, logged, commits, inFlight, mode, exclusive>>

\* The outer signal aborts the run
OuterAbort ==
  /\ run = "running" /\ ~signal
  /\ AbortAll
  /\ UNCHANGED <<runVars, queueVars, lane>>

\* runtime.run settles: the run is aborted and drained
ProgramSettles ==
  /\ run = "running"
  /\ run' = "draining"
  /\ AbortAll
  /\ lane' = IF lane.at = "off" THEN Passing ELSE lane
  /\ UNCHANGED <<promise, logWork, logged, queueVars>>

\* Mutation: the run returns when its lane is done.
ReturnUnlogged ==
  /\ run = "draining" /\ lane.at = "off"
  /\ run' = "done"
  /\ UNCHANGED <<exec, signal, promise, logWork, logged, queueVars, lane>>

\* drainDispatches is over
Return ==
  /\ run = "draining" /\ lane.at = "off" /\ logWork = {}
  /\ run' = "done"
  /\ UNCHANGED <<exec, signal, promise, logWork, logged, queueVars, lane>>

-----------------------------------------------------------------------------
(* The lane *)

CommitReady == commits # <<>> /\ exec[Head(commits)].stage = "parked"

\* Mutation: an exclusive call does not wait for the pool.
CapacityForAny(m) == ~exclusive /\ Cardinality(inFlight) < MaxParallel

\* Room for one more: an exclusive call takes an empty pool
Capacity(m) ==
  ~exclusive /\ (IF m = "exclusive" THEN inFlight = {} ELSE Cardinality(inFlight) < MaxParallel)

\* Nothing to commit and nothing to start: sleep, or end when all is quiet
Rest == lane' = IF pending = <<>> /\ commits = <<>> /\ inFlight = {} THEN Standing("off", 0)
                ELSE Standing("asleep", 0)

BeginCommit ==
  /\ lane.at = "pass" /\ CommitReady
  /\ commits' = Tail(commits)
  /\ lane' = Standing("committing", Head(commits))
  /\ UNCHANGED <<exec, signal, runVars, pending, inFlight, mode, exclusive>>

Abandon ==
  /\ lane.at = "pass" /\ ~CommitReady /\ pending # <<>> /\ signal
  /\ promise' = [promise EXCEPT ![Head(pending)] = "rejected"]
  /\ pending' = Tail(pending)
  /\ UNCHANGED <<exec, signal, run, logWork, logged, commits, inFlight, mode, exclusive, lane>>

\* start: log the call, then prepare it
Start(m) ==
  LET c == Head(pending) IN
  /\ exclusive' = (exclusive \/ m = "exclusive")
  /\ mode' = [mode EXCEPT ![c] = m]
  /\ pending' = Tail(pending)
  /\ commits' = Append(commits, c)
  /\ logged' = logged \cup {[kind |-> "start", call |-> c]}
  /\ exec' = [exec EXCEPT ![c] = Created]
  /\ lane' = Standing("preparing", c)
  /\ UNCHANGED <<signal, run, promise, logWork, inFlight>>

Classify ==
  /\ lane.at = "pass" /\ ~CommitReady /\ pending # <<>> /\ ~signal
  /\ \E m \in {"parallel", "exclusive"} :
       IF Capacity(m) THEN Start(m)
       ELSE Rest /\ UNCHANGED <<exec, signal, runVars, queueVars>>

Idle ==
  /\ lane.at = "pass" /\ ~CommitReady /\ pending = <<>>
  /\ Rest
  /\ UNCHANGED <<exec, signal, runVars, queueVars>>

\* prepare settled: launch the body, or the call has its result already
Launch ==
  LET c == lane.call IN
  /\ lane.at = "preparing" /\ exec[c].stage \in {"ready", "parked"}
  /\ exec' = [exec EXCEPT ![c].stage = IF @ = "ready" THEN "around" ELSE @]
  /\ inFlight' = inFlight \cup {c}
  /\ lane' = Passing
  /\ UNCHANGED <<signal, runVars, pending, commits, mode, exclusive>>

\* A flight is over: it leaves the pool and wakes the lane
Leave(c) ==
  /\ c \in inFlight /\ exec[c].stage \in {"parked", "done"}
  /\ inFlight' = inFlight \ {c}
  /\ lane' = Woken
  /\ UNCHANGED <<exec, signal, runVars, pending, commits, mode, exclusive>>

\* The barrier after the commit of c
Barrier(c) == exclusive /\ mode[c] # "exclusive"

\* commit: post-execute settles, the program has its value, and the event is
\* appended beside the lane, which waits when too many are.
Commit ==
  LET c == lane.call IN
  /\ lane.at = "committing" /\ exec[c].stage = "parked"
  /\ \E x \in Finished(exec[c]) : exec' = [exec EXCEPT ![c] = x]
  /\ promise' = [promise EXCEPT ![c] = "settled"]
  /\ logWork' = logWork \cup {c}
  /\ lane' = Standing("holding", c)
  /\ UNCHANGED <<signal, run, logged, queueVars>>

Release ==
  /\ lane.at = "holding" /\ Cardinality(logWork) <= MaxParallel
  /\ exclusive' = Barrier(lane.call)
  /\ mode' = [mode EXCEPT ![lane.call] = "none"]
  /\ lane' = Passing
  /\ UNCHANGED <<exec, signal, runVars, pending, commits, inFlight>>

\* The dispatch-log listeners settle and the event is appended
LogDispatch(c) ==
  /\ c \in logWork
  /\ logWork' = logWork \ {c}
  /\ logged' = logged \cup {[kind |-> "settled", call |-> c]}
  /\ exec' = [exec EXCEPT ![c] = [Blank EXCEPT !.stage = "done"]]
  /\ UNCHANGED <<signal, run, promise, queueVars, lane>>

Stage(c) ==
  /\ PreExecute(c) \/ Resolve(c) \/ Around(c) \/ BodySettles(c)
  /\ UNCHANGED <<runVars, queueVars, lane>>

Plugin(c) ==
  /\ Answer(c) \/ Timeout(c)
  /\ UNCHANGED <<runVars, queueVars, lane>>

Lane == BeginCommit \/ Abandon \/ Classify \/ Idle \/ Launch \/ Commit \/ Release

Next ==
  \/ OuterAbort \/ ProgramSettles \/ Return \/ Lane
  \/ \E c \in Calls : Submit(c) \/ Stage(c) \/ Plugin(c) \/ Leave(c) \/ LogDispatch(c)

\* Promises settle in turn, listeners and bodies do settle, and a program whose
\* run is aborted ends.  A user owes no answer.
Fairness ==
  /\ WF_vars(Lane) /\ WF_vars(Return) /\ WF_vars(signal /\ ProgramSettles)
  /\ \A c \in Calls : WF_vars(Stage(c)) /\ WF_vars(Leave(c)) /\ WF_vars(LogDispatch(c))

Spec == Init /\ [][Next]_vars /\ Fairness
-----------------------------------------------------------------------------
(* Properties *)

\* A call is under way from its start to the end of its commit.
UnderWay ==
  {c \in Calls : mode[c] # "none" /\ (promise[c] = "pending" \/ lane = Standing("holding", c))}

\* An exclusive call has the run to itself until its commit is over, and no more
\* bodies overlap than the pool holds.
ExclusiveRunsAlone ==
  /\ \A c \in UnderWay : mode[c] = "exclusive" => UnderWay = {c}
  /\ Cardinality({c \in Calls : exec[c].stage \in {"around", "body"}}) <= MaxParallel

\* When the run returns nothing of it goes on: no body, no open question, no
\* promise, and whatever was logged as started is logged as settled.
NothingOutlivesTheRun ==
  run = "done" =>
    /\ \A c \in Calls : exec[c].stage \in {"none", "done"} /\ promise[c] # "pending"
    /\ \A c \in Calls : [kind |-> "start", call |-> c] \in logged
                          => [kind |-> "settled", call |-> c] \in logged

\* An aborted run ends, whoever was asked and has not answered.
AbortedRunEnds == signal ~> run = "done"
=============================================================================
