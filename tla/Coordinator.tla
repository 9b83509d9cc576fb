---------------------------- MODULE Coordinator ----------------------------
(***************************************************************************)
(* PersistenceCoordinator of packages/harness/session-persistence for one  *)
(* session id, with the session store and the callers that resume, load,   *)
(* inspect, append to or create the session of that id.                    *)
(*                                                                         *)
(* Operations of one id run on a promise chain, one at a time.  Whatever   *)
(* runs beside them is synchronous and cannot reach what they read, so one *)
(* operation is one step.  A life is one live Session object: it enters    *)
(* the store, appends, is detached and drains.  The inside of its write    *)
(* controller is module WriteBehind; here it holds a count of pending      *)
(* events and at most one write.                                           *)
(***************************************************************************)
EXTENDS Preparations, FiniteSets, SequencesExt

CONSTANTS
  Lives,         \* the live Session objects of this id, one after the other
  None,
  CallerOps,     \* what a caller may ask for
  Loaders,       \* whether the host's loadSession hands over the stored cwd
  MaxEvents,     \* bound on the events of one session
  Mishaps,       \* what may go wrong around the coordinator
  MaxMishaps     \* bound on how often

ASSUME CoordinatorAssumption ==
  /\ None \notin Lives \cup Callers
  /\ Lives \cap Callers = {}
  /\ CallerOps \subseteq {"prepare", "load", "resume", "inspect", "append", "create"}
  /\ Loaders \subseteq BOOLEAN
  /\ Mishaps \subseteq {"fault", "outside", "reload"}
  /\ {MaxEvents, MaxMishaps} \subseteq Nat

VARIABLES
  log,       \* the durable events; an artifact exists once there is one
  header,    \* cwd of the stored header
  states,    \* states.get(id)
  pool,      \* preparations
  chain,     \* operations of the id that have not run, the next one first
  life,      \* Lives -> the Session, its LiveSessionState and its retirement
  retiring,  \* retirements.get(id)
  call,      \* Callers -> the call and where it stands
  used       \* mishaps so far

vars == <<log, header, states, pool, chain, life, retiring, call, used>>

\* An event is who appended it and whether it opens a turn, ends one, or is
\* the end-of-seed marker of a constructor.
Event == [by : Lives \cup Callers \cup {None}, kind : {"start", "end", "mark"}]
InsideTurn(events) == events # <<>> /\ Last(events).kind = "start"

\* interruptedTurnClosers
Closers(events) == IF InsideTurn(events) THEN <<[by |-> None, kind |-> "end"]>> ELSE <<>>

\* Session constructor: a seed that does not end in a marker gets one
Marked(events, i) ==
  IF events = <<>> \/ Last(events).kind = "mark"
  THEN events
  ELSE Append(events, [by |-> i, kind |-> "mark"])

NextEvent(events, who) == [by |-> who, kind |-> IF InsideTurn(events) THEN "end" ELSE "start"]

Cwds == {"workspace", "elsewhere"}

\* SessionState; owner is None for a state no live session has claimed
NoState ==
  [owner |-> None, cursor |-> 0, materialized |-> FALSE, cwd |-> "elsewhere", tracked |-> FALSE]
Track(owner, cursor, materialized, cwd) ==
  [owner |-> owner, cursor |-> cursor, materialized |-> materialized, cwd |-> cwd, tracked |-> TRUE]

\* pending counts the events the write controller still holds, always the
\* last ones; writing those of its write in flight.  retired is the promise of
\* retireCore: "no", "flushing", "releasing", "done" or "failed".
Unborn == [phase |-> "unborn", events |-> <<>>, cwd |-> "elsewhere",
           init |-> "none", pending |-> 0, writing |-> 0, retired |-> "no"]

LiveOnes == {i \in Lives : life[i].phase = "live"}
Live == IF LiveOnes = {} THEN None ELSE CHOOSE i \in LiveOnes : TRUE

NoCall == [op |-> "none", at |-> "idle", entry |-> 0, life |-> None,
           view |-> <<>>, got |-> "none", grown |-> FALSE]

Job(op, who, entry, events) == [op |-> op, who |-> who, entry |-> entry, events |-> events]
Queue(job) == chain' = Append(chain, job)

\* A fault is a storage operation that throws
Suffer(mishap) == mishap \in Mishaps /\ used < MaxMishaps /\ used' = used + 1
Fault == Suffer("fault")

Init ==
  /\ log \in {<<>>, <<[by |-> None, kind |-> "start"]>>}
  /\ header = "workspace"
  /\ states = NoState
  /\ pool = EmptyPool
  /\ chain = <<>>
  /\ life = [i \in Lives |-> Unborn]
  /\ retiring = None
  /\ call = [c \in Callers |-> NoCall]
  /\ used = 0

-----------------------------------------------------------------------------
(* Live sessions: SessionStore and the write path listeners *)

\* initFor without a reservation, and onCreated queued for it
Born(i, events, cwd) ==
  /\ life' = [life EXCEPT ![i] = [Unborn EXCEPT !.phase = "live", !.events = events,
                                  !.cwd = cwd, !.init = "pending"]]
  /\ Queue(Job("created", i, 0, events))

\* sessions.create under this id.  While the pool knows the id, the
\* session/created listener throws and the store rolls the session back.
CreateFresh(i, cwd) ==
  /\ LiveOnes = {} /\ life[i].phase = "unborn"
  /\ ~Known(pool)
  /\ Born(i, <<>>, cwd)
  /\ UNCHANGED <<log, header, states, pool, retiring, call, used>>

\* Session.append and the session/event listener
AppendEvent(i) ==
  /\ life[i].phase = "live" /\ Len(life[i].events) < MaxEvents
  /\ life' = [life EXCEPT ![i].events = Append(@, NextEvent(@, i)), ![i].pending = @ + 1]
  /\ UNCHANGED <<log, header, states, pool, chain, retiring, call, used>>

\* The write controller starts a write and it reaches the chain
StartWrite(i) ==
  LET l == life[i] IN
  /\ l.init = "bound" /\ l.pending > 0 /\ l.writing = 0 /\ l.retired # "failed"
  /\ life' = [life EXCEPT ![i].writing = l.pending]
  /\ Queue(Job("write", i, 0, SubSeq(l.events, Len(l.events) - l.pending + 1, Len(l.events))))
  /\ UNCHANGED <<log, header, states, pool, retiring, call, used>>

\* detach: the store forgets the session and retire starts its last drain
Dispose(i) ==
  /\ life[i].phase = "live"
  /\ life' = [life EXCEPT ![i].phase = "gone", ![i].retired = "flushing"]
  /\ retiring' = i
  /\ UNCHANGED <<log, header, states, pool, chain, call, used>>

\* Mutation: a flush settles with the write in flight, not with the last event.
DrainedOfOneWrite(i) == life[i].init = "bound" /\ life[i].writing = 0

Drained(i) == life[i].init = "bound" /\ life[i].pending = 0 /\ life[i].writing = 0
Forget(i) == retiring' = IF retiring = i THEN None ELSE retiring

\* retireCore after its flush
RetireFlushed(i) ==
  /\ life[i].retired = "flushing" /\ Drained(i)
  /\ life' = [life EXCEPT ![i].retired = "releasing"]
  /\ Queue(Job("release", i, 0, <<>>))
  /\ UNCHANGED <<log, header, states, pool, retiring, call, used>>

\* the flush rejects with the failed initialization: the live entry and
\* whatever it owns stay
RetireUnbound(i) ==
  /\ life[i].retired = "flushing" /\ life[i].init = "failed"
  /\ life' = [life EXCEPT ![i].retired = "failed"]
  /\ Forget(i)
  /\ UNCHANGED <<log, header, states, pool, chain, call, used>>

-----------------------------------------------------------------------------
(* Operations of the chain *)

At(op) == chain # <<>> /\ Head(chain).op = op
Done == chain' = Tail(chain)
Settle(c, got) == call' = [call EXCEPT ![c].got = got]
Read(events) == [events |-> events \o Closers(events), revision |-> Len(events)]

\* prepareCore, and the pool's continuation of it
RunLoad ==
  LET e == Head(chain).entry IN
  /\ At("load")
  /\ \/ /\ log # <<>>
        /\ pool' = Loaded(pool, e, Read(log))
        /\ UNCHANGED used
     \/ /\ pool' = LoadFailed(pool, e)
        /\ IF log = <<>> THEN UNCHANGED used ELSE Fault
  /\ Done
  /\ UNCHANGED <<log, header, states, life, retiring, call>>

\* Mutation: a repair does not ask whether a session still owns the id.
OwnerIgnored == FALSE

\* Whether a session, live or draining, owns what the id is tracked as
Owned == states.owner # None

\* commitPrepared.  A caller that gave up while it was queued makes it throw.
RunCommit ==
  LET c == Head(chain).who
      source == SourceOf(pool, Head(chain).entry) IN
  /\ At("commit")
  /\ Done
  /\ \/ /\ call[c].at # "committing"
        /\ UNCHANGED <<log, states, call, used>>
     \/ /\ call[c].at = "committing"
        /\ \/ /\ Owned
              /\ Settle(c, "threw")
              /\ UNCHANGED <<log, states, used>>
           \/ /\ ~Owned /\ Fault
              /\ Settle(c, "threw")
              /\ UNCHANGED <<log, states>>
           \/ /\ ~Owned
              /\ source.revision # Len(log)
              /\ Settle(c, "stale")
              /\ UNCHANGED <<log, states, used>>
           \/ /\ ~Owned
              /\ source.revision = Len(log) /\ HasClosers(source)
              /\ log' = log \o Closers(log)
              /\ Settle(c, "stale")
              /\ UNCHANGED <<states, used>>
           \/ /\ ~Owned
              /\ source.revision = Len(log) /\ ~HasClosers(source)
              /\ states' = Track(None, Len(log), TRUE, header)
              /\ Settle(c, "done")
              /\ UNCHANGED <<log, used>>
  /\ UNCHANGED <<header, pool, life, retiring>>

\* isPreparedSourceCurrent, for inspect
RunCheck ==
  LET c == Head(chain).who IN
  /\ At("check")
  /\ \/ /\ call[c].at # "checking"
        /\ UNCHANGED <<call, used>>
     \/ /\ call[c].at = "checking"
        /\ Settle(c, IF SourceOf(pool, Head(chain).entry).revision = Len(log)
                     THEN "done" ELSE "stale")
        /\ UNCHANGED used
     \/ /\ call[c].at = "checking"
        /\ Settle(c, "threw") /\ Fault
  /\ Done
  /\ UNCHANGED <<log, header, states, pool, life, retiring>>

\* appendCore once its state is known: events must continue both the cursor
\* and the stored tail, and nobody may hold the id
CanAppend(st, first) ==
  /\ Writable(pool)
  /\ st.cursor = first /\ Len(log) = first
  /\ st.materialized <=> log # <<>>
Store(st, events) ==
  /\ log' = log \o events
  /\ header' = st.cwd
  /\ states' = [st EXCEPT !.materialized = TRUE, !.cursor = @ + Len(events)]
  /\ pool' = Invalidate(pool)

\* The state an initialization leaves, and its suffix appended under it: the
\* binding stays when the append fails.
Bind(i, st, events) ==
  \/ /\ events = <<>>
     /\ states' = st
     /\ life' = [life EXCEPT ![i].init = "bound"]
     /\ UNCHANGED <<log, header, pool, used>>
  \/ /\ events # <<>> /\ CanAppend(st, st.cursor)
     /\ Store(st, events)
     /\ life' = [life EXCEPT ![i].init = "bound"]
     /\ UNCHANGED used
  \/ /\ events # <<>>
     /\ states' = st
     /\ life' = [life EXCEPT ![i].init = "failed"]
     /\ IF CanAppend(st, st.cursor) THEN Fault ELSE UNCHANGED used
     /\ UNCHANGED <<log, header, pool>>

InitFails(i) ==
  /\ life' = [life EXCEPT ![i].init = "failed"]
  /\ UNCHANGED <<log, header, states, pool>>

After(events, n) == SubSeq(events, n + 1, Len(events))
\* Mutation: a session claims stored events that are not its own.
CoversAnything(seed, n) == TRUE

Covers(seed, n) == n <= Len(log) /\ IsPrefix(SubSeq(log, 1, n), seed)

\* Whether onCreated may take the id from the session it is bound to
Abandoned == ~states.materialized /\ life[states.owner].pending = 0

\* onCreated: claim an ownerless state, adopt a stored prefix, or register a
\* new session; anything else is a collision
RunCreated ==
  LET i == Head(chain).who
      seed == Head(chain).events
      l == life[i] IN
  /\ At("created")
  /\ Done
  /\ \/ /\ states.tracked /\ states.owner = None
        /\ IF l.cwd = states.cwd /\ Covers(seed, states.cursor)
           THEN Bind(i, [states EXCEPT !.owner = i], After(seed, states.cursor))
           ELSE InitFails(i) /\ UNCHANGED used
     \/ /\ states.owner # None /\ ~Abandoned
        /\ InitFails(i) /\ UNCHANGED used
     \/ /\ ~states.tracked \/ (states.owner # None /\ Abandoned)
        /\ IF log = <<>>
           THEN IF Known(pool)
                THEN InitFails(i) /\ UNCHANGED used
                ELSE Bind(i, Track(i, 0, FALSE, l.cwd), seed)
           ELSE IF l.cwd = header /\ Covers(seed, Len(log))
                THEN Bind(i, Track(i, Len(log), TRUE, header), After(seed, Len(log)))
                ELSE InitFails(i) /\ UNCHANGED used
     \/ InitFails(i) /\ Fault
  /\ UNCHANGED <<retiring, call>>

\* appendCore of the suffix a prepared session was published with
RunSuffix ==
  LET i == Head(chain).who IN
  /\ At("suffix")
  /\ Done
  /\ Bind(i, states, Head(chain).events)
  /\ UNCHANGED <<retiring, call>>

\* appendLiveBatch: events below the cursor are already stored.  A failure
\* keeps the events and rejects the flushes that wait for them.
RunWrite ==
  LET i == Head(chain).who
      l == life[i]
      fresh == SelectSeq([k \in 1..l.writing |-> Len(l.events) - l.pending + k],
                         LAMBDA n : n > states.cursor) IN
  /\ At("write")
  /\ Done
  /\ \/ /\ fresh # <<>> => CanAppend(states, Head(fresh) - 1)
        /\ IF fresh = <<>>
           THEN UNCHANGED <<log, header, states, pool>>
           ELSE Store(states, [k \in 1..Len(fresh) |-> l.events[fresh[k]]])
        /\ life' = [life EXCEPT ![i].pending = @ - l.writing, ![i].writing = 0]
        /\ UNCHANGED <<retiring, call, used>>
     \/ /\ fresh # <<>>
        /\ IF CanAppend(states, Head(fresh) - 1) THEN Fault ELSE UNCHANGED used
        /\ life' = [life EXCEPT ![i].writing = 0,
                                ![i].retired = IF @ = "flushing" THEN "failed" ELSE @]
        /\ IF l.retired = "flushing" THEN Forget(i) ELSE UNCHANGED retiring
        /\ call' = [c \in Callers |-> IF call[c].at = "flushing" /\ call[c].life = i
                                      THEN [call[c] EXCEPT !.at = "failed"] ELSE call[c]]
        /\ UNCHANGED <<log, header, states, pool>>

\* retireCore's last step
RunRelease ==
  LET i == Head(chain).who IN
  /\ At("release")
  /\ Done
  /\ life' = [life EXCEPT ![i].retired = "done"]
  /\ states' = IF states.owner = i THEN NoState ELSE states
  /\ Forget(i)
  /\ UNCHANGED <<log, header, pool, call, used>>

\* createCore, for the public create
RunCreate ==
  LET c == Head(chain).who IN
  /\ At("create")
  /\ Done
  /\ \/ /\ ~states.tracked /\ ~Known(pool) /\ log = <<>>
        /\ \E cwd \in Cwds : states' = Track(None, 0, FALSE, cwd)
        /\ Settle(c, "done")
     \/ /\ states.tracked \/ Known(pool) \/ log # <<>>
        /\ Settle(c, "threw")
        /\ UNCHANGED states
  /\ UNCHANGED <<log, header, pool, life, retiring, used>>

\* appendCore, for the public append: a state that is not tracked is adopted
\* first, which takes a ready entry and commits a pending repair
RunAppend ==
  LET c == Head(chain).who
      batch == Head(chain).events
      first == Head(chain).entry
      adopting == ~states.tracked /\ Writable(pool)
      taken == IF adopting /\ PhaseOf(pool) = "ready" THEN Invalidate(pool) ELSE pool
      st == IF adopting THEN Track(None, Len(log), TRUE, header) ELSE states IN
  /\ At("append")
  /\ Done
  /\ \/ /\ st.tracked /\ CanAppend(st, first)
        /\ Closers(log) = <<>> \/ ~adopting
        /\ Store(st, batch)
        /\ Settle(c, "done")
        /\ UNCHANGED used
     \/ /\ adopting /\ log # <<>> /\ Closers(log) # <<>>
        /\ log' = log \o Closers(log)
        /\ states' = Track(None, Len(log'), TRUE, header)
        /\ pool' = taken
        /\ Settle(c, "threw")
        /\ UNCHANGED <<header, used>>
     \/ /\ ~CanAppend(st, first) /\ (~adopting \/ Closers(log) = <<>>)
        /\ states' = IF log # <<>> THEN st ELSE states
        /\ pool' = taken
        /\ Settle(c, "threw")
        /\ UNCHANGED <<log, header, used>>
     \/ /\ Settle(c, "threw") /\ Fault
        /\ UNCHANGED <<log, header, states, pool>>
  /\ UNCHANGED <<life, retiring>>

RunHead == \/ RunLoad \/ RunCommit \/ RunCheck \/ RunCreated \/ RunSuffix
           \/ RunWrite \/ RunRelease \/ RunCreate \/ RunAppend

-----------------------------------------------------------------------------
(* Callers: prepare, load, inspect, append, create and the resumeSession of
   the SDK, which loads *)

\* A retry, like a new call, first awaits the retirement it finds
Ask(c, op) == [call[c] EXCEPT !.op = op, !.at = "asked", !.entry = 0,
                              !.life = retiring, !.got = "none"]
Finish(c, at, view) == [NoCall EXCEPT !.op = call[c].op, !.at = at, !.view = view]

\* An entry object nobody refers to
Unreferenced(e) ==
  /\ pool.current # e
  /\ \A c \in Callers : call[c].entry # e
  /\ \A k \in DOMAIN chain : chain[k].op \in {"load", "commit", "check"} => chain[k].entry # e

Call(c) ==
  /\ call[c].at = "idle"
  /\ \/ /\ \E op \in CallerOps \cap {"prepare", "load", "resume", "inspect"} :
             call' = [call EXCEPT ![c] = Ask(c, op)]
        /\ UNCHANGED chain
     \/ /\ "create" \in CallerOps
        /\ call' = [call EXCEPT ![c].op = "create", ![c].at = "queued"]
        /\ Queue(Job("create", c, 0, <<>>))
     \/ /\ "append" \in CallerOps /\ LiveOnes = {}
        /\ call' = [call EXCEPT ![c].op = "append", ![c].at = "queued"]
        /\ Queue(Job("append", c, Len(log), <<NextEvent(log, c)>>))
  /\ UNCHANGED <<log, header, states, pool, life, retiring, used>>

\* The retirement settled: reject with it, answer from the live session, or
\* look the entry up, starting its read when there is none
Look(c) ==
  LET k == call[c] IN
  /\ k.at = "asked"
  /\ k.life # None => life[k.life].retired \in {"done", "failed"}
  /\ IF k.life # None /\ life[k.life].retired = "failed"
     THEN call' = [call EXCEPT ![c] = Finish(c, "failed", <<>>)] /\ UNCHANGED <<pool, chain>>
     ELSE IF Live # None
     THEN /\ call' = [call EXCEPT ![c] =
               CASE k.op = "prepare" -> Finish(c, "failed", <<>>)
                 [] k.op = "inspect" -> Finish(c, "answered", life[Live].events)
                 [] OTHER -> [Finish(c, "flushing", life[Live].events) EXCEPT !.life = Live]]
          /\ UNCHANGED <<pool, chain>>
     ELSE IF Known(pool)
     THEN call' = [call EXCEPT ![c].at = "loading", ![c].entry = pool.current]
          /\ UNCHANGED <<pool, chain>>
     ELSE LET e == CHOOSE x \in Entries : Unreferenced(x) IN
          /\ call' = [call EXCEPT ![c].at = "loading", ![c].entry = e]
          /\ pool' = Enter(pool, e)
          /\ Queue(Job("load", c, e, <<>>))
  /\ UNCHANGED <<log, header, states, life, retiring, used>>

\* reserve, from where its caller resumes: the entry is gone, held by somebody
\* else, or ready to be committed by this caller
Contend(c) ==
  LET k == call[c]
      e == k.entry IN
  /\ k.op \in {"prepare", "load", "resume"}
  /\ \/ k.at = "loading" /\ pool.entry[e].result = "loaded"
     \/ k.at = "settling" /\ c \notin pool.entry[e].waiting
  /\ \/ /\ pool.current # e
        /\ call' = [call EXCEPT ![c] = Ask(c, k.op)]
        /\ UNCHANGED <<pool, chain>>
     \/ /\ pool.current = e /\ PhaseOf(pool) # "ready"
        /\ call' = [call EXCEPT ![c].at = "settling"]
        /\ pool' = Await(pool, e, c)
        /\ UNCHANGED chain
     \/ /\ pool.current = e /\ PhaseOf(pool) = "ready"
        /\ call' = [call EXCEPT ![c].at = "committing"]
        /\ pool' = BeginCommit(pool, e)
        /\ Queue(Job("commit", c, e, <<>>))
  /\ UNCHANGED <<log, header, states, life, retiring, used>>

\* reserve after its commit; what prepare and load do with the reservation
Committed(c) ==
  LET k == call[c]
      e == k.entry
      committed == k.got = "done" /\ pool.current = e IN
  /\ k.at = "committing" /\ k.got # "none"
  /\ IF committed /\ k.op = "prepare"
     THEN /\ pool' = Reserve(pool, e)
          /\ call' = [call EXCEPT ![c].at = "holding", ![c].got = "none"]
     ELSE /\ pool' = Drop(pool, e)
          /\ call' = [call EXCEPT ![c] =
               CASE committed -> Finish(c, IF k.op = "resume" THEN "loaded" ELSE "answered",
                                        SourceOf(pool, e).events)
                 [] k.got = "threw" -> Finish(c, "failed", <<>>)
                 [] OTHER -> Ask(c, k.op)]
  /\ UNCHANGED <<log, header, states, chain, life, retiring, used>>

\* The shared read failed; inspect answers from a session that went live
ReadFailed(c) ==
  /\ call[c].at = "loading" /\ pool.entry[call[c].entry].result = "failed"
  /\ call' = [call EXCEPT ![c] =
       IF call[c].op = "inspect" /\ Live # None
       THEN Finish(c, "answered", life[Live].events)
       ELSE Finish(c, "failed", <<>>)]
  /\ UNCHANGED <<log, header, states, pool, chain, life, retiring, used>>

\* inspect: check that the shared source is still current
Observe(c) ==
  LET k == call[c] IN
  /\ k.op = "inspect" /\ k.at = "loading" /\ pool.entry[k.entry].result = "loaded"
  /\ IF Live # None
     THEN call' = [call EXCEPT ![c] = Finish(c, "answered", life[Live].events)] /\ UNCHANGED chain
     ELSE /\ call' = [call EXCEPT ![c].at = "checking"]
          /\ Queue(Job("check", c, k.entry, <<>>))
  /\ UNCHANGED <<log, header, states, pool, life, retiring, used>>

Checked(c) ==
  LET k == call[c]
      stale == k.got = "stale" /\ Live = None IN
  /\ k.at = "checking" /\ k.got # "none"
  /\ pool' = IF stale THEN DiscardReady(pool, k.entry) ELSE pool
  /\ call' = [call EXCEPT ![c] =
       CASE Live # None -> Finish(c, "answered", life[Live].events)
         [] Live = None /\ k.got = "threw" -> Finish(c, "failed", <<>>)
         [] stale /\ ~Retained(pool, k.entry) -> Ask(c, k.op)
         [] OTHER -> Finish(c, "answered", SourceOf(pool, k.entry).events)]
  /\ UNCHANGED <<log, header, states, chain, life, retiring, used>>

\* loadLiveSnapshot: the flush of the live session settles
Flushed(c) ==
  LET k == call[c] IN
  /\ k.at = "flushing"
  /\ \/ /\ Drained(k.life)
        /\ call' = [call EXCEPT ![c] =
             IF k.view = <<>> \/ InsideTurn(k.view)
             THEN Finish(c, "failed", <<>>)
             ELSE Finish(c, IF k.op = "resume" THEN "loaded" ELSE "answered", k.view)]
     \/ /\ life[k.life].init = "failed" \/ life[k.life].retired = "failed"
        /\ call' = [call EXCEPT ![c] = Finish(c, "failed", <<>>)]
  /\ UNCHANGED <<log, header, states, pool, chain, life, retiring, used>>

\* append and create settled
Answered(c) ==
  /\ call[c].at = "queued" /\ call[c].got # "none"
  /\ call' = [call EXCEPT ![c].at = IF call[c].got = "done" THEN "answered" ELSE "failed"]
  /\ UNCHANGED <<log, header, states, pool, chain, life, retiring, used>>

-----------------------------------------------------------------------------
(* The holder of a reservation: the agent loop sets the agent up, then enters
   and announces the session, or gives the preparation back *)

\* setup appends to the session before it is published
Grow(c) ==
  /\ call[c].at = "holding" /\ ~call[c].grown
  /\ call' = [call EXCEPT ![c].grown = TRUE]
  /\ UNCHANGED <<log, header, states, pool, chain, life, retiring, used>>

\* initFor with a reservation: attachPrepared binds the session and queues
\* what it holds beyond the durable log
Publish(c, i) ==
  LET seed == SourceOf(pool, call[c].entry).events
      marked == Marked(seed, i)
      events == IF call[c].grown THEN Append(marked, NextEvent(marked, i)) ELSE marked
      suffix == After(events, states.cursor) IN
  /\ call[c].at = "holding" /\ life[i].phase = "unborn"
  /\ call' = [call EXCEPT ![c] = Finish(c, "answered", <<>>)]
  /\ LiveOnes = {} /\ states.owner = None /\ states.cursor = Len(seed)
  /\ pool' = Drop(pool, call[c].entry)
  /\ states' = [states EXCEPT !.owner = i]
  /\ life' = [life EXCEPT ![i] = [Unborn EXCEPT !.phase = "live", !.events = events,
                                  !.cwd = states.cwd,
                                  !.init = IF suffix = <<>> THEN "bound" ELSE "pending"]]
  /\ chain' = IF suffix = <<>> THEN chain ELSE Append(chain, Job("suffix", i, 0, suffix))
  /\ UNCHANGED <<log, header, retiring, used>>

\* SessionPreparation disposed without publication
GiveBack(c) ==
  /\ call[c].at = "holding"
  /\ pool' = Release(pool, call[c].entry, states.owner = None /\ ~call[c].grown)
  /\ call' = [call EXCEPT ![c] = Finish(c, "failed", <<>>)]
  /\ UNCHANGED <<log, header, states, chain, life, retiring, used>>

\* The signal of prepare or inspect fires while it waits.  A commit that is
\* still queued rejects at once, one that has run is kept for reuse.
Abort(c) ==
  LET k == call[c] IN
  /\ k.op \in {"prepare", "inspect"}
  /\ k.at \in {"asked", "loading", "settling", "committing", "checking"}
  /\ k.at = "checking" => k.got = "none"
  /\ call' = [call EXCEPT ![c] = Finish(c, "failed", <<>>)]
  /\ pool' = CASE k.at = "committing" /\ k.got = "done" -> MakeReady(pool, k.entry)
               [] k.at = "committing" /\ k.got # "done" -> Drop(pool, k.entry)
               [] OTHER -> pool
  /\ UNCHANGED <<log, header, states, chain, life, retiring, used>>

\* resumeSession of the SDK: create a live session from the loaded events.
\* The store, or the pool through session/created, may refuse it.
ResumeCreate(c, i) ==
  LET k == call[c] IN
  /\ k.at = "loaded"
  /\ call' = [call EXCEPT ![c].at = IF LiveOnes = {} /\ ~Known(pool) THEN "answered" ELSE "failed"]
  /\ IF LiveOnes = {} /\ ~Known(pool)
     THEN /\ life[i].phase = "unborn"
          /\ \E keeps \in Loaders :
               Born(i, Marked(k.view, i), IF keeps THEN header ELSE "elsewhere")
     ELSE UNCHANGED <<life, chain>>
  /\ UNCHANGED <<log, header, states, pool, retiring, used>>

-----------------------------------------------------------------------------
(* Around the coordinator *)

\* Another process appends to the log
Outside ==
  /\ Suffer("outside") /\ log # <<>>
  /\ log' = Append(log, NextEvent(log, None))
  /\ UNCHANGED <<header, states, pool, chain, life, retiring, call>>

\* Other ids fill the LRU
EvictReady ==
  /\ PhaseOf(pool) = "ready"
  /\ pool' = Evict(pool)
  /\ UNCHANGED <<log, header, states, chain, life, retiring, call, used>>

\* The plugin is reloaded while nothing of this id is under way: its drain
\* gave up on what is still pending, and the new coordinator meets the live
\* session as it is.
Reload ==
  /\ Suffer("reload") /\ Live # None
  /\ chain = <<>> /\ retiring = None
  /\ \A c \in Callers : call[c].at \in {"idle", "answered", "failed"}
  /\ life[Live].writing = 0
  /\ states' = NoState
  /\ pool' = EmptyPool
  /\ life' = [life EXCEPT ![Live].init = "pending", ![Live].pending = 0]
  /\ Queue(Job("created", Live, 0, life[Live].events))
  /\ UNCHANGED <<log, header, retiring, call>>

Next ==
  \/ \E i \in Lives : \/ \E cwd \in Cwds : CreateFresh(i, cwd)
                      \/ AppendEvent(i) \/ StartWrite(i) \/ Dispose(i)
                      \/ RetireFlushed(i) \/ RetireUnbound(i)
  \/ RunHead
  \/ \E c \in Callers : \/ Call(c) \/ Look(c) \/ Contend(c) \/ Committed(c)
                        \/ ReadFailed(c) \/ Observe(c) \/ Checked(c) \/ Flushed(c)
                        \/ Answered(c) \/ Grow(c) \/ GiveBack(c) \/ Abort(c)
                        \/ \E i \in Lives : Publish(c, i) \/ ResumeCreate(c, i)
  \/ Outside \/ EvictReady \/ Reload

Spec == Init /\ [][Next]_vars
-----------------------------------------------------------------------------
(* Properties *)

Holders ==
  {c \in Callers : call[c].at = "holding"
                   \/ (call[c].at = "committing" /\ pool.current = call[c].entry)}

\* While the pool knows the id no session of it is live, so a read, a repair or
\* a reservation never runs beside the session it describes.  A reservation has
\* one holder, and what it holds is the durable log: the state committed for it
\* stands, ownerless, at the end of its events.
ReservationHoldsTheLog ==
  /\ Known(pool) => LiveOnes = {}
  /\ Cardinality(Holders) <= 1
  /\ \A c \in Callers : call[c].at = "holding" =>
       /\ pool.current = call[c].entry /\ PhaseOf(pool) = "reserved"
       /\ states.tracked /\ states.owner = None
       /\ states.cursor = Len(SourceOf(pool, call[c].entry).events)
       /\ SubSeq(log, 1, states.cursor) = SourceOf(pool, call[c].entry).events

\* Whoever waits is waited for: a reservation by its holder, a settled operation
\* by a job of the chain, a retirement by a drain that still runs.  An entry that
\* leaves the pool settles what its callers await.
Pending(op, who, e) ==
  \E k \in DOMAIN chain : chain[k].op = op /\ chain[k].who = who /\ chain[k].entry = e
EveryWaitEnds ==
  \A c \in Callers :
    LET k == call[c] IN
    /\ (k.at = "settling" /\ c \in pool.entry[k.entry].waiting)
         => \E h \in Holders : call[h].entry = k.entry
    /\ (k.at = "loading" /\ pool.entry[k.entry].result = "pending")
         => \E d \in Callers : Pending("load", d, k.entry)
    /\ (k.at = "committing" /\ k.got = "none") => Pending("commit", c, k.entry)
    /\ (k.at = "checking" /\ k.got = "none") => Pending("check", c, k.entry)
    /\ (k.at = "asked" /\ k.life # None) => life[k.life].retired # "no"

\* A bound session and the log do not diverge: what the coordinator tracks as
\* stored is a prefix of the session, unless a public append wrote behind it.
Intruded == \E k \in 1..Len(log) : log[k].by \in Callers
OwnerMatchesLog ==
  (states.owner # None /\ ~Intruded)
    => IsPrefix(SubSeq(log, 1, states.cursor), life[states.owner].events)

\* A session whose retirement was fulfilled is durable to its last event.
RetiredIsDurable ==
  \A i \in Lives : (life[i].retired = "done" /\ ~Intruded) => IsPrefix(life[i].events, log)

\* What load answers is durable, also when it is a snapshot of a live session.
LoadedIsDurable ==
  \A c \in Callers :
    (call[c].op \in {"load", "resume"} /\ call[c].at \in {"answered", "loaded"} /\ ~Intruded)
    => IsPrefix(call[c].view, log) /\ ~InsideTurn(call[c].view)

\* A crash repair closes a turn that nobody goes on with: it never lands under a
\* session that holds this log as its history and has not been refused, live or
\* retired and still draining.
Repairs == used' = used /\ log' # log /\ Last(log').by = None
Continues(i) == /\ life[i].phase # "unborn" /\ life[i].retired \in {"no", "flushing"}
                /\ life[i].init # "failed" /\ IsPrefix(log, life[i].events)
RepairsAreCold == [][Repairs => \A i \in Lives : ~Continues(i) /\ states.owner # i]_vars

\* A session that goes on with what is stored is taken back by the coordinator:
\* with nothing else going wrong its binding does not fail.
Restored(i) == life[i].events # <<>> /\ life[i].events[1].by # i
ResumedIsBound ==
  \A i \in Lives : (used = 0 /\ Restored(i)) => life[i].init # "failed"
=============================================================================
