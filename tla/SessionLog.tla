---------------------------- MODULE SessionLog -----------------------------
(***************************************************************************)
(* The grammar of one session's event log, across crashes.  The agent loop *)
(* (packages/harness/agent-loop/src/agent.ts, tool-calls.ts) writes turns, *)
(* steps, messages, calls and results; a process dies and leaves the part  *)
(* of the log that was stored; what interruptedTurnClosers                 *)
(* (packages/harness/session/src/repair.ts) adds closes it, and the agent  *)
(* of the next process writes on.  SessionStore.fork copies a part.        *)
(*                                                                         *)
(* An event keeps what its boundaries and its transcript are made of; a    *)
(* call is its place in its message, so identifiers repeat from step to    *)
(* step, as those the block assembler makes up do.  Appends with no await  *)
(* between them are one action: a crash cuts anywhere all the same.        *)
(***************************************************************************)
EXTENDS Naturals, FiniteSets, SequencesExt

CONSTANTS MaxTurns, MaxSteps, MaxCalls, MaxLives

VARIABLES
  log,                        \* Session.log
  stored,                     \* how much of it no crash takes away
  pc,                         \* where the agent is, "down" between processes
  turn, step,                 \* phase.turn (or lastTurn) and phase.step
  calls, started, committed,  \* of the message the scheduler works on
  lives,                      \* how many processes and forks there were
  abandoned                   \* history: steps whose scheduler failed

agent == <<turn, step, calls, started, committed>>
vars == <<log, stored, pc, agent, lives, abandoned>>

TurnStart(t)       == [type |-> "turn/start", turn |-> t]
TurnEnd(t)         == [type |-> "turn/end", turn |-> t]
StepStart(t, s)    == [type |-> "step/start", turn |-> t, step |-> s]
StepEnd(t, s)      == [type |-> "step/end", turn |-> t, step |-> s]
User               == [type |-> "user/message"]
EndSeed            == [type |-> "session/end-seed"]
Assistant(t, s, n) == [type |-> "assistant/message", turn |-> t, step |-> s, calls |-> n]
Call(t, s, c)      == [type |-> "tool/call", turn |-> t, step |-> s, call |-> c]
Result(t, s, c, code) ==
  [type |-> "tool/result", turn |-> t, step |-> s, call |-> c, code |-> code]

Init ==
  /\ log = <<>>
  /\ stored = 0
  /\ pc = "idle"
  /\ turn = 0
  /\ step = 0
  /\ calls = 0
  /\ started = 0
  /\ committed = 0
  /\ lives = 1
  /\ abandoned = {}

(***************************************************************************)
(* What the invariant companion (packages/harness/session/src/invariant.ts)*)
(* keeps of a log and which event it takes next.                           *)
(***************************************************************************)
Inside(trace, e) == trace.turn = e.turn /\ trace.step = e.step

Legal(trace, e) ==
  CASE e.type = "turn/start" -> trace.turn = 0 /\ e.turn = trace.nextTurn
    [] e.type = "turn/end" -> trace.turn = e.turn /\ trace.step = 0
    [] e.type = "step/start" ->
         trace.turn = e.turn /\ trace.step = 0 /\ e.step = trace.nextStep
    [] e.type \in {"step/end", "assistant/message", "tool/call"} -> Inside(trace, e)
    [] e.type = "tool/result" ->
         Inside(trace, e) /\ (e.call \in trace.pending \/ e.code = "not-started")
    [] OTHER -> TRUE

Advance(trace, e) ==
  CASE e.type = "turn/start" -> [trace EXCEPT !.turn = e.turn, !.nextStep = 1]
    [] e.type = "turn/end" -> [trace EXCEPT !.turn = 0, !.nextTurn = @ + 1]
    [] e.type = "step/start" -> [trace EXCEPT !.step = e.step]
    [] e.type = "step/end" ->
         [trace EXCEPT !.step = 0, !.nextStep = @ + 1, !.pending = {}]
    [] e.type = "tool/call" -> [trace EXCEPT !.pending = @ \union {e.call}]
    [] e.type = "tool/result" -> [trace EXCEPT !.pending = @ \ {e.call}]
    [] OTHER -> trace

FreshTrace ==
  [turn |-> 0, step |-> 0, nextTurn |-> 1, nextStep |-> 1, pending |-> {}, valid |-> TRUE]

\* What is left of f, applied to the events one by one from the state first.
Folded(f(_, _), first, events) ==
  LET state[n \in 0..Len(events)] ==
        IF n = 0 THEN first ELSE f(state[n - 1], events[n])
  IN  state[Len(events)]

Traced(events) ==
  Folded(LAMBDA trace, e : [Advance(trace, e) EXCEPT !.valid = @ /\ Legal(trace, e)],
         FreshTrace, events)

Accepted(events) == Traced(events).valid

(***************************************************************************)
(* repair.ts.                                                              *)
(***************************************************************************)
\* The scan: the boundaries that are open, the calls of the last message
\* without a result, and those of them that were recorded as started.
Scan(cursor, e) ==
  CASE e.type \in {"turn/start", "turn/end"} ->
         [turn |-> IF e.type = "turn/start" THEN e.turn ELSE 0,
          step |-> 0, pending |-> {}, started |-> {}]
    [] e.type = "step/start" -> [cursor EXCEPT !.step = e.step]
    [] e.type = "step/end" -> [cursor EXCEPT !.step = 0, !.pending = {}, !.started = {}]
    [] e.type = "assistant/message" -> [cursor EXCEPT !.pending = @ \union 1..e.calls]
    [] e.type = "tool/call" ->
         [cursor EXCEPT !.started = @ \union ({e.call} \intersect cursor.pending)]
    [] e.type = "tool/result" ->
         [cursor EXCEPT !.pending = @ \ {e.call}, !.started = @ \ {e.call}]
    [] OTHER -> cursor

Scanned(events) ==
  Folded(Scan, [turn |-> 0, step |-> 0, pending |-> {}, started |-> {}], events)

InOrder(S) == SetToSortSeq(S, LAMBDA a, b : a < b)

\* Mutation: only the calls that were recorded get a result.
ClosersOfTheRecorded(events) ==
  LET open == Scanned(events)
      Closer(c) == Result(open.turn, open.step, c, "unknown")
      list == InOrder(open.started)
  IN  IF open.turn = 0 THEN <<>>
      ELSE [i \in DOMAIN list |-> Closer(list[i])]
           \o (IF open.step = 0 THEN <<>> ELSE <<StepEnd(open.turn, open.step)>>)
           \o <<TurnEnd(open.turn)>>

\* Mutation: the turn is closed over its open step.
ClosersOfTheTurn(events) ==
  LET open == Scanned(events)
  IN  IF open.turn = 0 THEN <<>> ELSE <<TurnEnd(open.turn)>>

Closers(events) ==
  LET open == Scanned(events)
      Closer(c) == Result(open.turn, open.step, c,
                          IF c \in open.started THEN "unknown" ELSE "not-started")
      list == InOrder(open.pending)
  IN  IF open.turn = 0 THEN <<>>
      ELSE [i \in DOMAIN list |-> Closer(list[i])]
           \o (IF open.step = 0 THEN <<>> ELSE <<StepEnd(open.turn, open.step)>>)
           \o <<TurnEnd(open.turn)>>

(***************************************************************************)
(* The agent of one process.                                               *)
(***************************************************************************)
Write(events) == log' = log \o events

\* turn(): the boundary opens before anything is claimed.
StartTurn ==
  /\ pc = "idle"
  /\ turn < MaxTurns
  /\ Write(<<TurnStart(turn + 1)>>)
  /\ turn' = turn + 1
  /\ step' = 0
  /\ pc' = "boundary"
  /\ UNCHANGED <<stored, calls, started, committed, lives, abandoned>>

\* The next step and its messages; the first step has some.
StartStep ==
  /\ pc = "boundary"
  /\ step < MaxSteps
  /\ \E messages \in {<<>>, <<User>>} :
       /\ step = 0 => messages # <<>>
       /\ Write(<<StepStart(turn, step + 1)>> \o messages)
  /\ step' = step + 1
  /\ pc' = "request"
  /\ UNCHANGED <<stored, turn, calls, started, committed, lives, abandoned>>

\* A turn that has nothing to do or has finished, and one that throws between
\* two steps.
EndTurn ==
  /\ pc = "boundary"
  /\ Write(<<TurnEnd(turn)>>)
  /\ pc' = "idle"
  /\ UNCHANGED <<stored, agent, lives, abandoned>>

\* step(): the response is logged; max-tokens has dropped its calls.
Respond ==
  /\ pc = "request"
  /\ \E n \in 0..MaxCalls :
       /\ calls' = n
       /\ IF n = 0
          THEN Write(<<Assistant(turn, step, 0), StepEnd(turn, step)>>) /\ pc' = "boundary"
          ELSE Write(<<Assistant(turn, step, n)>>) /\ pc' = "calls"
  /\ started' = 0
  /\ committed' = 0
  /\ UNCHANGED <<stored, turn, step, lives, abandoned>>

\* The request failed, or was cancelled: then the text it had streamed is
\* kept, without calls.  Nobody catches between the step and the turn.
RequestThrows ==
  /\ pc = "request"
  /\ \E kept \in {<<>>, <<Assistant(turn, step, 0)>>} :
       Write(kept \o <<StepEnd(turn, step), TurnEnd(turn)>>)
  /\ pc' = "idle"
  /\ UNCHANGED <<stored, agent, lives, abandoned>>

\* startCall and commitReady of the scheduler: calls start in order and so do
\* their results, the two interleaved as the pool allows.
StartCall ==
  /\ pc = "calls"
  /\ started < calls
  /\ Write(<<Call(turn, step, started + 1)>>)
  /\ started' = started + 1
  /\ UNCHANGED <<stored, pc, turn, step, calls, committed, lives, abandoned>>

CommitCall ==
  /\ pc = "calls"
  /\ committed < started
  /\ Write(<<Result(turn, step, committed + 1, "reported")>>)
  /\ committed' = committed + 1
  /\ UNCHANGED <<stored, pc, turn, step, calls, started, lives, abandoned>>

FinishCalls ==
  /\ pc = "calls"
  /\ committed = calls
  /\ Write(<<StepEnd(turn, step)>>)
  /\ pc' = "boundary"
  /\ UNCHANGED <<stored, agent, lives, abandoned>>

\* appendSkippedToolCall.
Skip(first, last) ==
  FlattenSeq([i \in 1..(last + 1 - first) |->
    <<Call(turn, step, first + i - 1), Result(turn, step, first + i - 1, "aborted")>>])

\* Abort, once the started calls have drained.
AbortCalls ==
  /\ pc = "calls"
  /\ committed = started
  /\ started < calls
  /\ Write(Skip(started + 1, calls) \o <<StepEnd(turn, step), TurnEnd(turn)>>)
  /\ pc' = "idle"
  /\ UNCHANGED <<stored, agent, lives, abandoned>>

\* A scheduler failure fabricates no results.
SchedulerFails ==
  /\ pc = "calls"
  /\ committed < calls
  /\ Write(<<StepEnd(turn, step), TurnEnd(turn)>>)
  /\ pc' = "idle"
  /\ abandoned' = abandoned \union {<<turn, step>>}
  /\ UNCHANGED <<stored, agent, lives>>

(***************************************************************************)
(* From one process, and one session, to the next.                         *)
(***************************************************************************)
Rest ==
  /\ step' = 0
  /\ calls' = 0
  /\ started' = 0
  /\ committed' = 0
  /\ abandoned' = {s \in abandoned : \E i \in DOMAIN log' : log'[i] = StepEnd(s[1], s[2])}

\* Mutation: the search for the last turn starts at the wrong end.
FirstTurn(events) ==
  LET t == {events[i].turn : i \in {j \in DOMAIN events : events[j].type = "turn/start"}}
  IN  IF t = {} THEN 0 ELSE Min(t)

\* The turn of the last turn/start: lastTurn in the agent's constructor.
LastTurn(events) ==
  LET t == {events[i].turn : i \in {j \in DOMAIN events : events[j].type = "turn/start"}}
  IN  IF t = {} THEN 0 ELSE Max(t)

\* The constructor marks the end of a seed, unless it ends in a mark.
Marked(seed) == IF seed # <<>> /\ Last(seed) = EndSeed THEN seed ELSE Append(seed, EndSeed)

\* The process dies, or the session is closed when nothing is under way; the
\* write path has stored some prefix of the log.
Crash ==
  /\ pc # "down"
  /\ lives < MaxLives
  /\ \E k \in stored..Len(log) : log' = SubSeq(log, 1, k)
  /\ pc' = "down"
  /\ turn' = 0
  /\ Rest
  /\ UNCHANGED <<stored, lives>>

\* Load: the closers are stored before anybody gets the session; the mark of
\* the constructor is not.
Load ==
  LET repaired == log \o Closers(log)
  IN  /\ pc = "down"
      /\ log' = Marked(repaired)
      /\ stored' = Len(repaired)
      /\ pc' = "idle"
      /\ turn' = LastTurn(repaired)
      /\ lives' = lives + 1
      /\ UNCHANGED <<step, calls, started, committed, abandoned>>

\* Mutation: a boundary is open when a step of its turn is.
ForkableBetweenSteps(boundary) == Scanned(SubSeq(log, 1, boundary)).step = 0

\* _forkSeed: the last turn boundary of the prefix is not a turn/start.
Forkable(boundary) ==
  LET edges == {j \in 1..boundary : log[j].type \in {"turn/start", "turn/end"}}
  IN  edges # {} => log[Max(edges)].type = "turn/end"

\* fork: an agent goes on with the child.
Fork ==
  /\ pc # "down"
  /\ lives < MaxLives
  /\ \E boundary \in 1..Len(log) :
       LET seed == SubSeq(log, 1, boundary)
       IN  /\ Forkable(boundary)
           /\ log' = Marked(seed)
           /\ stored' = Len(log')
           /\ turn' = LastTurn(seed)
  /\ pc' = "idle"
  /\ Rest
  /\ lives' = lives + 1

Next ==
  \/ StartTurn \/ StartStep \/ EndTurn \/ Respond \/ RequestThrows
  \/ StartCall \/ CommitCall \/ FinishCalls \/ AbortCalls \/ SchedulerFails
  \/ Crash \/ Load \/ Fork

Spec == Init /\ [][Next]_vars
-----------------------------------------------------------------------------
\* The invariant companion accepts the log at every moment of its life, as
\* the process that writes it goes and as the next one seeds its trace with
\* what was left and repaired.
LogIsAccepted == pc # "down" => Accepted(log)

\* Wherever the store stops, the closers complete the log: what they make of
\* the prefix is accepted and needs no further repair.
EveryCutIsRepaired ==
  pc = "down" =>
    LET repaired == log \o Closers(log) IN Accepted(repaired) /\ Closers(repaired) = <<>>

\* The results of the i-th event's calls: behind it, before the transcript
\* goes on.
Results(i, c) ==
  {j \in i + 1..Len(log) :
     /\ log[j].type = "tool/result"
     /\ log[j].call = c
     /\ \A k \in i + 1..j - 1 : log[k].type \notin {"user/message", "assistant/message"}}

\* "Providers reject dangling assistant calls": while no scheduler works on
\* it, the transcript answers every call of every message once, before the
\* next message, unless the scheduler failed on that message's step.
EveryCallIsAnswered ==
  pc \notin {"down", "calls"} =>
    \A i \in DOMAIN log :
      log[i].type = "assistant/message" /\ <<log[i].turn, log[i].step>> \notin abandoned =>
        \A c \in 1..log[i].calls : Cardinality(Results(i, c)) = 1

\* Between turns there is nothing to repair, in the log of a resumed agent and
\* in a fork as well: a fork takes whole turns.
RestingIsWhole == pc = "idle" => Closers(log) = <<>>
=============================================================================
