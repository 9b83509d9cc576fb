---------------------------- MODULE WriteBehind ----------------------------
(***************************************************************************)
(* Write-behind of one live session: SessionWriteBehind, and the part of   *)
(* PersistenceCoordinator that drives it (initFor, flush, appendLiveBatch, *)
(* appendCore) in packages/harness/session-persistence.                    *)
(*                                                                         *)
(* Events are their seq.  A promise job is an action: a settled write runs *)
(* its catch, its finally and its continuation as separate jobs, and the   *)
(* session may append, or a caller may flush, between them.  Timers wait   *)
(* until no job is queued.                                                 *)
(***************************************************************************)
EXTENDS Naturals, Sequences, FiniteSetsExt

CONSTANTS
  Callers,      \* who calls ctx session/flush
  MaxEvents,    \* bound on the events of the session
  MaxSeed,      \* bound on the events it holds before persistence sees it
  MaxFailures   \* bound on the writes the storage refuses

ASSUME WriteBehindAssumption ==
  /\ MaxEvents \in Nat /\ MaxFailures \in Nat
  /\ MaxSeed \in 0..MaxEvents

VARIABLES
  emitted,      \* events the session holds, 0 .. emitted - 1
  log,          \* durable; its length is state.cursor
  init,         \* live.init: "none" until initFor, then how its promise stands
  seed,         \* how many events initFor found in session.events
  \* SessionWriteBehind
  pending, timer, deadlineExpired, automaticPaused,
  active,       \* whether this.active is set
  barrier,      \* "none", "overlap" awaiting the active write, or "draining"
  writes,       \* the write operations that have not run all their jobs
  \* callers of flush
  caller,       \* "idle", "waiting" on live.init, or "joined" to the barrier
  mark,         \* events the session held when the caller called, 0 when idle
  \* history
  acknowledged, \* events that a fulfilled flush has promised
  failures

writerVars == <<pending, timer, deadlineExpired, automaticPaused, active, barrier, writes>>
callerVars == <<caller, mark, acknowledged>>
vars == <<emitted, log, init, seed, writerVars, callerVars, failures>>

D == INSTANCE DurableLog
  WITH appended <- emitted, stored <- log

Init ==
  /\ emitted \in 0..MaxSeed
  /\ \E k \in 0..emitted : log = D!Events(0, k)
  /\ init = "none"
  /\ seed = 0
  /\ pending = <<>>
  /\ timer = FALSE
  /\ deadlineExpired = FALSE
  /\ automaticPaused = FALSE
  /\ active = FALSE
  /\ barrier = "none"
  /\ writes = {}
  /\ caller = [c \in Callers |-> "idle"]
  /\ mark = [c \in Callers |-> 0]
  /\ acknowledged = 0
  /\ failures = 0

(***************************************************************************)
(* initFor and the events of the session.                                  *)
(***************************************************************************)
\* initFor: the first sight of the session captures session.events as its
\* seed and starts onCreated.
InitFor(events) ==
  IF init = "none" THEN init' = "running" /\ seed' = events ELSE UNCHANGED <<init, seed>>

\* session/created, or the pass over sessions that live already.
Attach ==
  /\ init = "none"
  /\ InitFor(emitted)
  /\ UNCHANGED <<emitted, log, writerVars, callerVars, failures>>

\* Mutation: an append after a failure resumes the automatic path, unarmed.
EnqueueUnarmed(event) ==
  /\ pending' = Append(pending, event)
  /\ automaticPaused' = (automaticPaused /\ barrier # "none")
  /\ timer' = (timer \/ (barrier = "none" /\ pending = <<>>))
  /\ UNCHANGED <<deadlineExpired, active, barrier, writes>>

\* Mutation: a barrier closes the queue to new events.
EnqueueRefused(event) ==
  /\ pending' = IF barrier = "none" THEN Append(pending, event) ELSE pending
  /\ timer' = (timer \/ barrier = "none")
  /\ automaticPaused' = (automaticPaused /\ barrier # "none")
  /\ UNCHANGED <<deadlineExpired, active, barrier, writes>>

\* enqueue: queue the event and, unless a barrier drains the queue, arm the
\* timer when the queue was empty or the automatic path was paused.
Enqueue(event) ==
  /\ pending' = Append(pending, event)
  /\ \/ barrier # "none" /\ UNCHANGED <<timer, deadlineExpired, automaticPaused>>
     \/ /\ barrier = "none"
        /\ automaticPaused
        /\ automaticPaused' = FALSE
        /\ deadlineExpired' = FALSE
        /\ timer' = TRUE
     \/ /\ barrier = "none"
        /\ ~automaticPaused
        /\ timer' = (timer \/ pending = <<>>)
        /\ UNCHANGED <<deadlineExpired, automaticPaused>>
  /\ UNCHANGED <<active, barrier, writes>>

\* The session appends an event: session.events holds it before session/event
\* is published, so an initFor it triggers captures it too.
Emit ==
  /\ emitted < MaxEvents
  /\ emitted' = emitted + 1
  /\ InitFor(emitted + 1)
  /\ Enqueue(emitted)
  /\ UNCHANGED <<log, callerVars, failures>>

\* onCreated persists the part of the seed the log does not hold, once.
InitSucceeds ==
  /\ init = "running"
  /\ init' = "ready"
  /\ log' = D!Events(0, seed)
  /\ UNCHANGED <<emitted, seed, writerVars, callerVars, failures>>

InitFails ==
  /\ init = "running"
  /\ failures < MaxFailures
  /\ init' = "failed"
  /\ failures' = failures + 1
  /\ UNCHANGED <<emitted, log, seed, writerVars, callerVars>>

(***************************************************************************)
(* Writes.                                                                 *)
(***************************************************************************)
Write(batch, background, stage, ok) ==
  [batch |-> batch, background |-> background, stage |-> stage, ok |-> ok]

\* startWrite takes the whole queue.
StartWrite(others, background) ==
  /\ writes' = others \union {Write(pending, background, "writing", TRUE)}
  /\ pending' = <<>>
  /\ timer' = FALSE
  /\ deadlineExpired' = FALSE
  /\ active' = TRUE

\* appendLiveBatch drops the leading events initialization already stored.
Fresh(batch) ==
  LET first == CHOOSE k \in 1..(Len(batch) + 1) :
                 \A i \in 1..Len(batch) : i >= k <=> batch[i] >= Len(log)
  IN  SubSeq(batch, first, Len(batch))

\* appendCore's contract: each event's seq must continue the stored log.
Continues(events) == \A i \in DOMAIN events : events[i] = Len(log) + i - 1

WriteSucceeds(w) ==
  /\ w.stage = "writing"
  /\ init = "ready"
  /\ Continues(Fresh(w.batch))
  /\ log' = log \o Fresh(w.batch)
  /\ writes' = (writes \ {w}) \union {[w EXCEPT !.stage = "settling"]}
  /\ UNCHANGED <<emitted, init, seed, pending, timer, deadlineExpired, automaticPaused,
                 active, barrier, callerVars, failures>>

\* The storage refuses the batch, or initialization had failed, or the batch
\* does not continue the log: the catch job puts it back at the front.
WriteFails(w) ==
  /\ w.stage = "writing"
  /\ \/ init = "failed" /\ UNCHANGED failures
     \/ init = "ready" /\ ~Continues(Fresh(w.batch)) /\ UNCHANGED failures
     \/ init = "ready" /\ failures < MaxFailures /\ failures' = failures + 1
  /\ pending' = w.batch \o pending
  /\ timer' = FALSE
  /\ deadlineExpired' = FALSE
  /\ automaticPaused' = TRUE
  /\ writes' = (writes \ {w}) \union {[w EXCEPT !.stage = "settling", !.ok = FALSE]}
  /\ UNCHANGED <<emitted, log, init, seed, active, barrier, callerVars>>

\* The finally job.
ClearActive(w) ==
  /\ w.stage = "settling"
  /\ active' = FALSE
  /\ writes' = (writes \ {w}) \union {[w EXCEPT !.stage = "continuing"]}
  /\ UNCHANGED <<emitted, log, init, seed, pending, timer, deadlineExpired, automaticPaused,
                 barrier, callerVars, failures>>

\* Promise jobs that run before the next timer callback.
JobsQueued ==
  \/ \E w \in writes : w.stage # "writing"
  \/ init \in {"ready", "failed"} /\ \E c \in Callers : caller[c] = "waiting"

\* onDeadline: start a background write, or remember that the active one used
\* the budget.
Deadline ==
  /\ timer
  /\ ~JobsQueued
  /\ \/ /\ active
        /\ timer' = FALSE
        /\ deadlineExpired' = TRUE
        /\ UNCHANGED <<pending, active, writes>>
     \/ ~active /\ StartWrite(writes, TRUE)
  /\ UNCHANGED <<emitted, log, init, seed, automaticPaused, barrier, callerVars, failures>>

(***************************************************************************)
(* The flush barrier.                                                      *)
(***************************************************************************)
Joined == {c \in Callers : caller[c] = "joined"}

\* Mutation: the promise of flush is never settled.
ReleaseNobody(callers) == UNCHANGED <<caller, mark>>

Release(callers) ==
  /\ caller' = [c \in Callers |-> IF c \in callers THEN "idle" ELSE caller[c]]
  /\ mark' = [c \in Callers |-> IF c \in callers THEN 0 ELSE mark[c]]

\* resolve(): every caller that joined is told its events are durable.
Fulfil(callers) ==
  /\ Release(callers)
  /\ acknowledged' = Max({acknowledged} \union {mark[c] : c \in callers})

\* drainBarrier's loop: write until the queue is empty, and close the barrier
\* in the job that sees it empty.
Drain(others, callers) ==
  \/ /\ pending # <<>>
     /\ StartWrite(others, FALSE)
     /\ barrier' = "draining"
     /\ caller' = [c \in Callers |-> IF c \in callers THEN "joined" ELSE caller[c]]
     /\ UNCHANGED <<mark, acknowledged>>
  \/ /\ pending = <<>>
     /\ barrier' = "none"
     /\ writes' = others
     /\ Fulfil(callers)
     /\ UNCHANGED <<pending, active>>

\* What follows a background write: the drain that awaited it, or the next
\* write when the deadline passed meanwhile.
ContinueBackground(w) ==
  /\ w.stage = "continuing"
  /\ w.background
  /\ \/ /\ barrier = "overlap"
        /\ automaticPaused' = FALSE
        /\ Drain(writes \ {w}, Joined)
        /\ pending = <<>> => UNCHANGED <<timer, deadlineExpired>>
     \/ /\ barrier = "none" /\ w.ok /\ pending # <<>> /\ deadlineExpired
        /\ StartWrite(writes \ {w}, TRUE)
        /\ UNCHANGED <<automaticPaused, barrier, callerVars>>
     \/ /\ barrier # "overlap"
        /\ ~(barrier = "none" /\ w.ok /\ pending # <<>> /\ deadlineExpired)
        /\ writes' = writes \ {w}
        /\ UNCHANGED <<pending, timer, deadlineExpired, automaticPaused, active, barrier,
                       callerVars>>
  /\ UNCHANGED <<emitted, log, init, seed, failures>>

\* What follows a write of the barrier: drain on, or reject the callers.
ContinueBarrier(w) ==
  /\ w.stage = "continuing"
  /\ ~w.background
  /\ \/ /\ w.ok
        /\ Drain(writes \ {w}, Joined)
        /\ pending = <<>> => UNCHANGED <<timer, deadlineExpired>>
     \/ /\ ~w.ok
        /\ barrier' = "none"
        /\ writes' = writes \ {w}
        /\ Release(Joined)
        /\ UNCHANGED <<pending, timer, deadlineExpired, active, acknowledged>>
  /\ UNCHANGED <<emitted, log, init, seed, automaticPaused, failures>>

\* The coordinator's flush cancels the automatic wait, then awaits live.init.
CallFlush(c) ==
  /\ caller[c] = "idle"
  /\ caller' = [caller EXCEPT ![c] = "waiting"]
  /\ mark' = [mark EXCEPT ![c] = emitted]
  /\ InitFor(emitted)
  /\ timer' = FALSE
  /\ deadlineExpired' = FALSE
  /\ UNCHANGED <<emitted, log, pending, automaticPaused, active, barrier, writes,
                 acknowledged, failures>>

FlushRejects(c) ==
  /\ caller[c] = "waiting"
  /\ init = "failed"
  /\ Release({c})
  /\ timer' = FALSE
  /\ deadlineExpired' = FALSE
  /\ UNCHANGED <<emitted, log, init, seed, pending, automaticPaused, active, barrier, writes,
                 acknowledged, failures>>

\* SessionWriteBehind.flush joins the barrier, or raises one.
JoinBarrier(c) ==
  /\ caller[c] = "waiting"
  /\ init = "ready"
  /\ barrier # "none"
  /\ caller' = [caller EXCEPT ![c] = "joined"]
  /\ UNCHANGED <<emitted, log, init, seed, writerVars, mark, acknowledged, failures>>

\* Mutation: flush does not await the write that is active.
RaiseBarrierAtOnce(c) ==
  /\ caller[c] = "waiting"
  /\ init = "ready"
  /\ barrier = "none"
  /\ timer' = FALSE
  /\ deadlineExpired' = FALSE
  /\ automaticPaused' = FALSE
  /\ Drain(writes, {c})
  /\ UNCHANGED <<emitted, log, init, seed, failures>>

\* The barrier awaits the active write, or drains the queue at once.
RaiseBarrier(c) ==
  /\ caller[c] = "waiting"
  /\ init = "ready"
  /\ barrier = "none"
  /\ timer' = FALSE
  /\ deadlineExpired' = FALSE
  /\ automaticPaused' = FALSE
  /\ \/ /\ active
        /\ barrier' = "overlap"
        /\ caller' = [caller EXCEPT ![c] = "joined"]
        /\ UNCHANGED <<pending, active, writes, mark, acknowledged>>
     \/ ~active /\ Drain(writes, {c})
  /\ UNCHANGED <<emitted, log, init, seed, failures>>

Settle    == \E w \in writes : WriteSucceeds(w) \/ WriteFails(w)
Job       == \E w \in writes : ClearActive(w) \/ ContinueBackground(w) \/ ContinueBarrier(w)
FlushStep(c) == FlushRejects(c) \/ JoinBarrier(c) \/ RaiseBarrier(c)

Next ==
  \/ Attach \/ Emit
  \/ InitSucceeds \/ InitFails
  \/ Settle \/ Job \/ Deadline
  \/ \E c \in Callers : CallFlush(c) \/ FlushStep(c)

(***************************************************************************)
(* Storage answers, timers fire, queued jobs run, and a session that       *)
(* exists is announced.  Nobody need append or call flush.                 *)
(***************************************************************************)
Fairness ==
  /\ WF_vars(Attach)
  /\ WF_vars(InitSucceeds \/ InitFails)
  /\ WF_vars(Settle)
  /\ WF_vars(Job)
  /\ WF_vars(Deadline)
  /\ \A c \in Callers : WF_vars(FlushStep(c))

Spec == Init /\ [][Next]_vars /\ Fairness
-----------------------------------------------------------------------------
Seqs == 0..(MaxEvents - 1)

Writing == {w \in writes : w.stage = "writing"}

\* An appended event is in the log, in the seed being stored, in a batch that
\* is being written, or in the queue, whatever failed; a session whose
\* initialization failed has only lost its seed.
NothingIsLost ==
  \A n \in 0..(emitted - 1) :
    \/ n < Len(log)
    \/ init \in {"none", "running", "failed"} /\ (init = "none" \/ n < seed)
    \/ \E i \in DOMAIN pending : pending[i] = n
    \/ \E w \in Writing : \E i \in DOMAIN w.batch : w.batch[i] = n

\* Every appended event reaches the log unless storage failed and paused the
\* automatic path.
EventsLand ==
  \A n \in 1..MaxEvents :
    (emitted >= n) ~> (Len(log) >= n \/ automaticPaused \/ init = "failed")

\* A flush is answered.
FlushSettles == \A c \in Callers : (caller[c] # "idle") ~> (caller[c] = "idle")

\* The log only grows, in order and without gaps or duplicates, through
\* failed and retried writes, and a fulfilled flush is covered by it.
ImplementsDurableLog == D!DurableLogSpec
=============================================================================
