-------------------------- MODULE AgentLifecycle ---------------------------
(***************************************************************************)
(* Attempts to bring one identity to life, and their ends: the factory     *)
(* (AgentLoop in packages/harness/agent-loop/src/index.ts) and the entries *)
(* it makes in the two registries (SessionStore in                         *)
(* packages/harness/session/src/index.ts, AgentRegistry in                 *)
(* packages/harness/agent/src/index.ts).                                   *)
(*                                                                         *)
(* An attempt creates a fresh session, resumes a stored one, or restores a *)
(* configured one, which falls back from the second to the first.  It is   *)
(* cancelled by its caller, by the fiber that owns it and by the factory;  *)
(* each of them may come at every await.  Publication has no await: its    *)
(* listeners decide how far it gets.  What the agent does with its input   *)
(* is that its driver is "running" or "idle".                              *)
(***************************************************************************)
EXTENDS Naturals

CONSTANTS
  Attempts,
  None,      \* nobody is registered
  MaxSends   \* how often the drivers are woken, all together

ASSUME AgentLifecycleAssumption == None \notin Attempts

VARIABLES
  factory,            \* "open", "closing" or "closed": FactoryOwnership
  sessions, agents,   \* whose entry the registries hold for the identity
  kind, pc,           \* what an attempt is and where it awaits
  cancelled,          \* options.signal, while the attempt loads
  owner,              \* "active", "unloading" or "gone": its owner's fiber
  aborted,            \* the abort controller of prepare
  teardown,           \* where its dispose awaits
  byOwner,            \* ownerTriggered
  preparation,        \* of a stored session
  driver,
  woken,
  sessionEdge, agentEdge   \* history: what listeners were told of the entries

registries == <<sessions, agents, sessionEdge, agentEdge>>
attempt == <<kind, pc, cancelled, owner, aborted, teardown, byOwner, preparation>>
vars == <<factory, registries, attempt, driver, woken>>

Init ==
  /\ factory = "open"
  /\ sessions = None
  /\ agents = None
  /\ kind = [a \in Attempts |-> "none"]
  /\ pc = [a \in Attempts |-> "unborn"]
  /\ cancelled = [a \in Attempts |-> FALSE]
  /\ owner = [a \in Attempts |-> "active"]
  /\ aborted = [a \in Attempts |-> FALSE]
  /\ teardown = [a \in Attempts |-> "none"]
  /\ byOwner = [a \in Attempts |-> FALSE]
  /\ preparation = [a \in Attempts |-> "none"]
  /\ driver = [a \in Attempts |-> "idle"]
  /\ woken = 0
  /\ sessionEdge = [a \in Attempts |-> "none"]
  /\ agentEdge = [a \in Attempts |-> "none"]

Goto(a, where) == pc' = [pc EXCEPT ![a] = where]

\* prepare has registered a dispose for the attempt, which has not begun.
Prepared(a) == pc[a] \in {"setup", "ready", "live"} /\ teardown[a] = "none"

\* dispose, as far as its first await, for each of the attempts S.
Dispose(S) ==
  /\ aborted' = [a \in Attempts |-> aborted[a] \/ a \in S]
  /\ teardown' = [a \in Attempts |-> IF a \in S /\ teardown[a] = "none" THEN "drain"
                                     ELSE teardown[a]]

\* raceAbort and assertLive: the attempt throws, and disposes what it has made.
Fail(a) == Goto(a, "failing") /\ Dispose({a})

(***************************************************************************)
(* Loading a stored session.                                               *)
(***************************************************************************)
\* createAgent, resume, and the configured agents of the constructor.  A
\* creation is refused when the identity is registered, or its signal aborted.
Begin(a) ==
  /\ pc[a] = "unborn"
  /\ factory = "open"
  /\ owner[a] = "active"
  /\ \E k \in {"create", "resume", "restore"} :
       /\ kind' = [kind EXCEPT ![a] = k]
       /\ CASE k = "create" -> /\ Goto(a, "rejected") \/ (sessions = None /\ Goto(a, "setup"))
                               /\ UNCHANGED preparation
            [] k = "resume" -> Goto(a, "loading")
                               /\ preparation' = [preparation EXCEPT ![a] = "pending"]
            [] k = "restore" -> Goto(a, "waiting") /\ UNCHANGED preparation
  /\ UNCHANGED <<factory, registries, cancelled, owner, aborted, teardown, byOwner, driver, woken>>

\* waitForDrainingConfiguredIdentity.
Waited(a) ==
  /\ pc[a] = "waiting"
  /\ \/ /\ factory # "open"
        /\ Goto(a, "rejected")
        /\ UNCHANGED preparation
     \/ /\ factory = "open"
        /\ sessions = None /\ agents = None
        /\ Goto(a, "loading")
        /\ preparation' = [preparation EXCEPT ![a] = "pending"]
  /\ UNCHANGED <<factory, registries, kind, cancelled, owner, aborted, teardown, byOwner, driver,
                 woken>>

\* Where an attempt that fails goes: for a configured agent of a factory that is
\* active, the backend is asked what it stores.
Refused(a) ==
  IF kind[a] = "restore" /\ factory = "open" /\ owner[a] = "active" THEN "listing"
  ELSE "rejected"

\* The backend answers.  It prepares an identity for one caller, and none that
\* is live.  An answer nobody waits for any more is given back.
LoadSettles(a) ==
  /\ preparation[a] = "pending"
  /\ \/ /\ sessions = None
        /\ \A b \in Attempts : preparation[b] # "held"
        /\ preparation' =
              [preparation EXCEPT ![a] = IF pc[a] = "loading" THEN "held" ELSE "returned"]
        /\ IF pc[a] = "loading" THEN Goto(a, "loaded") ELSE UNCHANGED pc
     \/ /\ preparation' = [preparation EXCEPT ![a] = "none"]
        /\ IF pc[a] = "loading" THEN Goto(a, Refused(a)) ELSE UNCHANGED pc
  /\ UNCHANGED <<factory, registries, kind, cancelled, owner, aborted, teardown, byOwner, driver,
                 woken>>

\* The three signals of a load, one of them aborted.
AbandonLoad(a) ==
  /\ pc[a] = "loading"
  /\ cancelled[a] \/ owner[a] # "active" \/ factory # "open"
  /\ Goto(a, "rejected")
  /\ cancelled' = [cancelled EXCEPT ![a] = FALSE]
  /\ UNCHANGED <<factory, registries, kind, owner, aborted, teardown, byOwner, preparation,
                 driver, woken>>

\* The preparation leaves its caller: a session that was not published goes
\* back to its provider.
Returned(a) ==
  preparation' = [preparation EXCEPT ![a] = IF @ = "held" THEN "returned" ELSE @]

\* Behind the load: owner, factory and caller are looked at again.
Loaded(a) ==
  /\ pc[a] = "loaded"
  /\ IF owner[a] = "active" /\ factory = "open" /\ ~cancelled[a]
     THEN Goto(a, "setup") /\ UNCHANGED preparation
     ELSE Goto(a, "rejected") /\ Returned(a)
  /\ cancelled' = [cancelled EXCEPT ![a] = FALSE]
  /\ UNCHANGED <<factory, registries, kind, owner, aborted, teardown, byOwner, driver,
                 woken>>

(***************************************************************************)
(* Setup and publication.                                                  *)
(***************************************************************************)
SetupSettles(a) ==
  /\ pc[a] = "setup"
  /\ ~aborted[a]
  /\ \/ Goto(a, "ready") /\ UNCHANGED <<aborted, teardown>>
     \/ Fail(a)
  /\ UNCHANGED <<factory, registries, kind, cancelled, owner, byOwner, preparation, driver, woken>>

\* Mutation: the setup is awaited to its end.
SetupHeld(a) == FALSE

\* raceAbort.
Interrupted(a) == aborted[a]

SetupAborted(a) ==
  /\ pc[a] = "setup"
  /\ Interrupted(a)
  /\ Fail(a)
  /\ UNCHANGED <<factory, registries, kind, cancelled, owner, byOwner, preparation, driver, woken>>

\* publish: both entries are made, the session is announced, then the agent,
\* then its start.  A listener of the stage reached throws, or unloads the
\* owner, or nobody does: "end".
Enter(a, stage) ==
  /\ sessions = None
  /\ sessions' = a
  /\ agents' = a
  /\ sessionEdge' = [sessionEdge EXCEPT ![a] = "created"]
  /\ agentEdge' = IF stage = "session" THEN agentEdge ELSE [agentEdge EXCEPT ![a] = "created"]

Publish(a) ==
  /\ pc[a] = "ready"
  /\ \/ /\ aborted[a] \/ sessions # None
        /\ Fail(a)
        /\ UNCHANGED <<registries, preparation, owner, byOwner>>
     \/ /\ ~aborted[a]
        /\ \E stage \in {"session", "agent", "start"} :
             /\ Enter(a, stage)
             /\ Fail(a)
             /\ \/ UNCHANGED <<owner, byOwner>>
                \/ /\ owner[a] = "active"
                   /\ owner' = [owner EXCEPT ![a] = "unloading"]
                   /\ byOwner' = [byOwner EXCEPT ![a] = TRUE]
        /\ UNCHANGED preparation
     \/ /\ ~aborted[a]
        /\ Enter(a, "end")
        /\ Goto(a, "live")
        /\ preparation' = [preparation EXCEPT ![a] = IF @ = "held" THEN "consumed" ELSE @]
        /\ UNCHANGED <<aborted, teardown, owner, byOwner>>
  /\ UNCHANGED <<factory, kind, cancelled, driver, woken>>

\* The backend lists no artifact, so the configured agent is created.  create
\* awaits nothing, not even the rollback of what it made.  (What was prepared
\* from its artifact is listed.)
CreateConfigured(a) ==
  /\ pc[a] = "listing"
  /\ teardown[a] = "none"
  /\ \/ /\ factory # "open" \/ owner[a] # "active" \/ sessions # None
        /\ Goto(a, "rejected")
        /\ UNCHANGED <<registries, aborted, teardown>>
     \/ /\ factory = "open" /\ owner[a] = "active"
        /\ Enter(a, "end")
        /\ Goto(a, "live")
        /\ UNCHANGED <<aborted, teardown>>
     \/ /\ factory = "open" /\ owner[a] = "active"
        /\ \E stage \in {"session", "agent", "start"} : Enter(a, stage)
        /\ Goto(a, "rejected")
        /\ Dispose({a})
  /\ UNCHANGED <<factory, kind, cancelled, owner, byOwner, preparation, driver, woken>>

\* The artifact exists, so the failure of its load stands; or the backend throws.
LoadFailureStands(a) ==
  /\ pc[a] = "listing"
  /\ Goto(a, "rejected")
  /\ UNCHANGED <<factory, registries, kind, cancelled, owner, aborted, teardown, byOwner,
                 preparation, driver, woken>>

FailureSettles(a) ==
  /\ pc[a] = "failing"
  /\ teardown[a] = "done"
  /\ Goto(a, Refused(a))
  /\ Returned(a)
  /\ UNCHANGED <<factory, registries, kind, cancelled, owner, aborted, teardown, byOwner, driver,
                 woken>>

(***************************************************************************)
(* The driver, as far as teardown waits for it.  Input that arrives once   *)
(* dispose found the agent idle is "the sender's bug"; a listener of the   *)
(* idle transition that the cancel itself causes still sends.              *)
(***************************************************************************)
Send(a) ==
  /\ agents = a
  /\ agentEdge[a] = "created"
  /\ teardown[a] \in {"none", "drain"}
  /\ driver[a] = "idle"
  /\ woken < MaxSends
  /\ driver' = [driver EXCEPT ![a] = "running"]
  /\ woken' = woken + 1
  /\ UNCHANGED <<factory, registries, attempt>>

DriverEnds(a) ==
  /\ driver[a] = "running"
  /\ driver' = [driver EXCEPT ![a] = "idle"]
  /\ UNCHANGED <<factory, registries, attempt, woken>>

(***************************************************************************)
(* Cancellation and teardown.                                              *)
(***************************************************************************)
CallerCancels(a) ==
  /\ kind[a] # "restore"
  /\ \/ /\ pc[a] \in {"loading", "loaded"}
        /\ cancelled' = [cancelled EXCEPT ![a] = TRUE]
        /\ UNCHANGED aborted
     \/ /\ pc[a] \in {"setup", "ready"}
        /\ aborted' = [aborted EXCEPT ![a] = TRUE]
        /\ UNCHANGED cancelled
  /\ UNCHANGED <<factory, registries, kind, pc, owner, teardown, byOwner, preparation, driver,
                 woken>>

\* The holder of the handle.
DisposeHandle(a) ==
  /\ pc[a] = "live"
  /\ teardown[a] = "none"
  /\ Dispose({a})
  /\ UNCHANGED <<factory, registries, kind, pc, cancelled, owner, byOwner, preparation, driver,
                 woken>>

\* The effects of the owner's fiber: it waits for a dispose it starts itself,
\* not for one that is under way.
UnloadOwner(a) ==
  /\ pc[a] # "unborn" /\ ~(pc[a] = "rejected" /\ teardown[a] \in {"none", "done"})
  /\ owner[a] = "active"
  /\ owner' = [owner EXCEPT ![a] = "unloading"]
  /\ byOwner' = [byOwner EXCEPT ![a] = Prepared(a)]
  /\ IF Prepared(a) THEN Dispose({a}) ELSE UNCHANGED <<aborted, teardown>>
  /\ UNCHANGED <<factory, registries, kind, pc, cancelled, preparation, driver, woken>>

OwnerUnloaded(a) ==
  /\ owner[a] = "unloading"
  /\ byOwner[a] => teardown[a] = "done"
  /\ owner' = [owner EXCEPT ![a] = "gone"]
  /\ UNCHANGED <<factory, registries, kind, pc, cancelled, aborted, teardown, byOwner, preparation,
                 driver, woken>>

\* FactoryOwnership.dispose.
CloseFactory ==
  /\ factory = "open"
  /\ factory' = "closing"
  /\ Dispose({a \in Attempts : Prepared(a)})
  /\ UNCHANGED <<registries, kind, pc, cancelled, owner, byOwner, preparation, driver, woken>>

\* Mutation: only the agents are joined, not the startups and wrappers.
AgentsSettled(a) == teardown[a] \in {"none", "done"}

\* What it joins: the teardowns it started and the continuations it tracked.
Settled(a) ==
  /\ teardown[a] \in {"none", "done"}
  /\ pc[a] \in {"unborn", "live", "rejected"}

FactoryClosed ==
  /\ factory = "closing"
  /\ \A a \in Attempts : Settled(a)
  /\ factory' = "closed"
  /\ UNCHANGED <<registries, attempt, driver, woken>>

\* Mutation: only the first activity is awaited.
QuietOnce(a) == TRUE

\* machine.whenIdle.
Quiet(a) == driver[a] = "idle"

Drained(a) ==
  /\ teardown[a] = "drain"
  /\ Quiet(a)
  /\ teardown' = [teardown EXCEPT ![a] = "unwind"]
  /\ UNCHANGED <<factory, registries, kind, pc, cancelled, owner, aborted, byOwner, preparation,
                 driver, woken>>

\* Mutation: an entry is removed by its identity.
WithoutId(registry, a) == None

\* detachEntered: a stale capability removes nobody else's entry.
Without(registry, a) == IF registry = a THEN None ELSE registry

\* emitDisposed, for what was announced.
Paired(edge, a) == [edge EXCEPT ![a] = IF @ = "created" THEN "disposed" ELSE @]

\* The scope is unwound; both registries are left and the owner is let go,
\* whose effect returns at once.
Unwound(a) ==
  /\ teardown[a] = "unwind"
  /\ agents' = Without(agents, a)
  /\ sessions' = Without(sessions, a)
  /\ agentEdge' = Paired(agentEdge, a)
  /\ sessionEdge' = Paired(sessionEdge, a)
  /\ teardown' = [teardown EXCEPT ![a] = "done"]
  /\ UNCHANGED <<factory, kind, pc, cancelled, owner, aborted, byOwner, preparation, driver, woken>>

Continue(a) ==
  \/ Waited(a) \/ AbandonLoad(a) \/ Loaded(a) \/ SetupAborted(a) \/ Publish(a)
  \/ FailureSettles(a) \/ DriverEnds(a) \/ Drained(a) \/ Unwound(a) \/ OwnerUnloaded(a)

\* list answers a configured agent.
Listed(a) == CreateConfigured(a) \/ LoadFailureStands(a)

Environment(a) ==
  \/ Begin(a) \/ LoadSettles(a) \/ Listed(a) \/ SetupSettles(a) \/ Send(a)
  \/ CallerCancels(a) \/ DisposeHandle(a) \/ UnloadOwner(a)

Next ==
  \/ \E a \in Attempts : Continue(a) \/ Environment(a)
  \/ CloseFactory \/ FactoryClosed

\* Promise jobs run, drivers come to an end and scopes unwind; a backend and a
\* setup may never settle.
Fairness == WF_vars(FactoryClosed) /\ \A a \in Attempts : WF_vars(Continue(a))

Spec == Init /\ [][Next]_vars /\ Fairness
-----------------------------------------------------------------------------
\* Whatever was announced is registered until its end is announced, as well
\* when a publication is rolled back half-way and when another attempt at the
\* same identity fails.
EdgesArePaired ==
  \A a \in Attempts :
    /\ sessionEdge[a] = "created" <=> sessions = a
    /\ agentEdge[a] = "created" => agents = a
    /\ agents = a => sessions = a

\* "Nothing still drives the detached session": the last events of an agent
\* find a store that publishes them.
NothingDrivesADetachedSession ==
  \A a \in Attempts : driver[a] = "running" => sessions = a /\ agents = a

\* A factory that is gone has left nothing behind: no entry, no driver, no
\* continuation, and no stored session held for one.
NothingOutlivesTheFactory ==
  factory = "closed" =>
    /\ sessions = None /\ agents = None
    /\ \A a \in Attempts :
         /\ pc[a] \notin {"waiting", "loading", "loaded", "setup", "ready", "listing", "failing"}
         /\ driver[a] = "idle"
         /\ preparation[a] # "held"

\* Neither a load that never answers nor a setup that never settles keeps the
\* factory or an owner waiting.  The list of a configured agent does keep the
\* factory: nothing races it, and the factory joins its startup.
TeardownCompletes ==
  /\ (\A a \in Attempts : []<>(pc[a] # "listing")) =>
       (factory = "closing" ~> factory = "closed")
  /\ \A a \in Attempts : owner[a] = "unloading" ~> owner[a] = "gone"
=============================================================================
