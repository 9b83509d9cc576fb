# TLA+ specifications of rigo

rigo runs a work and code agent in one Node process over SQLite. This directory
holds specifications of the parts whose correctness depends on the order in
which things happen, the TLC configurations that check them on small instances,
and TLAPS proofs about some of them. Paths below are relative to `src/`.

## 1. The system

### Components, their state and what makes them correct

| Component | State | Operations | Hard behaviour | Correct when |
|---|---|---|---|---|
| Action pipeline `packages/shared/actions` | `action_executions` table (durable); definitions, hooks, inflight controllers (process) | `execute`, replay, `resume`, `cancelExecution`, `recoverOrphanedExecutions`, register / unload of actions and hooks | hooks and executors are awaited while plugins come and go; the process dies between journal writes | an executor is entered at most once per key and only when authorized; callers agree on the end; an unload aborts |
| Approvals `packages/shared/approvals` | `approvals` table | `create`, `decide`, expiry, list | optimistic versions; two transactions per decision with a crash between | a decision is made once, and moves the execution accordingly |
| Session log `packages/harness/session` | append-only event list per session; store of live sessions | `append`, `enter`, `announce`, `detach`, `fork`, repair of a cut log | crashes at any event; observers run inside `append`; half-made publications | the log keeps its grammar over crashes, repairs and forks; edges are paired |
| Write-behind `packages/harness/session-persistence/src/write-behind.ts` | queue, timer, active write, barrier | `enqueue`, `flush`, deadline | promise jobs interleave with appends and flushes; storage failures | the stored log is a prefix of the session, nothing is lost or stranded, a fulfilled flush is durable |
| Coordinator and preparations `packages/harness/session-persistence` | tracked state, promise chain, retirement and live sessions per id; pool of cold reads and reservations | `create`, `append`, `prepare`, `load`, `inspect`, adoption, retirement, reload | one id asked for by several callers while its session comes and goes | one owner per id; a reservation stands on the durable log; no repair under a session that goes on |
| SQLite backend `packages/shared/session-persistence-sqlite`, `storage-sqlite-node` | database file, `schema_migrations` | `appendBatch`, `commitRepair`, `runMigrations` | crash between migrations | each is one transaction |
| Agent loop: driver `packages/harness/agent-loop/src/agent.ts` | phase, wake latch, abort controller | `send`, `cancel`, `runMaintenance`, turns and steps | wake-ups racing cancellation; listeners that call back | no wake lost, an abort stops its turn |
| Agent loop: scheduler `.../tool-calls.ts` | groups, slots, pool | `executeToolCalls` | parallel tools settling in any order | one result per call in model order |
| Agent loop: lifecycle `.../index.ts`, agent registry `packages/harness/agent` | factory, owners, attempts, entries of two registries | `createAgent`, `resume`, restore, handle, owner and factory teardown | cancellation at every await; a teardown that waits for drivers | nothing drives a detached session; a closed factory leaves nothing |
| Agent inbox `packages/harness/agent/src/inbox.ts` | two pending lists, projected from durable splices | `splice`, `claim`, `clear` | durable claim before use | no message lost or claimed twice |
| Tool execution `packages/harness/tools`, user approval `packages/harness/user-approval` | staged executions; open questions; the lane of a program | prepare, guards, question, wrappers, body, post-execute; `run_code` | aborts and timeouts at every stage; calls that overlap | results tell what happened to the body; nothing runs ungranted |
| Document write `packages/work/documents-write`, documents service `packages/work/documents` | file, projection row, journal row, event | `writeDocumentAtomically`, `recoverDocumentWrites`, `read` | crash between rename, projection, journal; reads and editors beside a write | no version is replaced twice, a write that happened is reported as one, once |
| HTTP, SDK and client stream `packages/api`, `apps/work-web/src/api.ts` | SSE subscriptions, last event of a client | event stream, replay, reconnection, `resumeSession`, `decideApproval` | live events during a replay; a process that dies | each event delivered once, in order |
| Audit, LLM, knowledge, scope, settings, boot, type registry, web views | mostly configuration and data | | little concurrency of their own | |

`vendor/cordis` is the vendored plugin framework and is not modelled.

### How they interact

A host calls `actions.execute`. The policy hooks answer; a write nobody
explicitly allowed is suspended and the host inserts an approval row. A client's
decision (`SDK decideApproval`) goes to `approvals.decide`, which moves the row
and calls back `actions.resume` or `cancelExecution`. Every running execution is
recorded in the owning session through the bundle's recorder. The agent factory
brings a session and its agent to life together; the driver appends turns, steps,
calls and results, its scheduler runs each call through the staged tool pipeline,
and the `run_code` tool runs a lane of its own over the same pipeline. Each
session append is published to the persistence coordinator, which queues it in
the session's write-behind controller, and to the subscribers of the HTTP event
stream; `session/flush` is the durability barrier. A session that is not live is
read cold: `prepare` reserves it for the factory, `load` answers the SDK and the
stream. After a crash the host may run `recoverOrphanedExecutions` before it
serves.

## 2. Plan

| # | Modules | Abstract specification | Theorems | State |
|---|---|---|---|---|
| 1 | `Actions`, `Approvals` (composition), `MCApprovals` | `GuardedWrite` | type, at-most-once, authorization, unload, agreement, refinement | done, proved |
| 2 | `WriteBehind`, `MCWriteBehind` | `DurableLog` | type, nothing lost, one write at a time, refinement | done, proved |
| 3 | `ToolScheduler` | `OrderedAnswers` | type, barriers, pool, commits, drain, abort, refinement | done, proved |
| 4 | `AgentDriver` (driver and inbox) | `TurnLog` | type, latched wakes, cancellation, refinement | done, proved |
| 5 | `Preparations`, `Coordinator` (composition), `MCCoordinator` | | exclusivity of a reservation | checked |
| 6 | `DocumentWrite`, `MCDocumentWrite` (write, read and recovery over the journal) | | type, accounting, one write per version, versions, projection lag | done, proved |
| 7 | `EventStream` | | | checked |
| 8 | `ToolExecution`, `CodeMode` (composition) | | type, outcomes, grants, exclusion, containment | done, proved |
| 9 | `SessionLog` | | | checked |
| 10 | `AgentLifecycle` | | type, paired edges, detached sessions, closed factory | done, proved |
| 11 | migrations, LLM retry, message deduplication | | | not begun |

Modules are written so that they can be proved about: constants with named
assumptions, one action per handler, no RECURSIVE operator.

## 3. Modules

### Actions and Approvals

`Actions` states the operations of `ActionsService`; `Approvals` extends it with
the approval rows and composes both into `Spec`. An *execution* is one
`(action_name, idempotency_key)`.

JavaScript runs one handler at a time and the SQLite driver is synchronous, so
everything between two awaits is one action. The awaits of `execute()` are each
hook, the return of `resolvePolicy` and the executor, which gives the stages of
`pc`: `policy` (with `cursor`, the index of the hook that is awaited, 0 once the
policy is resolved), `executing` or `resumed`, `suspended` (the host has been told
`requires-approval` and has not created the row yet) and `idle`.

| Variable | Code |
|---|---|
| `journal` | `state` of the row in `action_executions` |
| `committed` | whether the executor's side effect has happened (the outside world) |
| `registered`, `hooks` | `definitions`, `hooks` |
| `inflight`, `aborted` | the `inflight` map, and the controllers that have fired |
| `mode`, `crashes` | the process: booting (plugins not mounted; recovery may run) or up |
| `sessionLive` | what `ctx.sessions.get` finds |
| `approval`, `overdue` | the `approvals` rows, and those past `expires_at` |
| `following` | an execution `decide()` has yet to move in its second transaction |
| `said`, `unseen`, `orphaned`, `audited`, `starts`, `told`, `announced` | history |

| Action | Code |
|---|---|
| `Reserve`, `Replay` | the synchronous head of `execute`, `replay` |
| `HookReturns`, `RejectBeforeExecutor`, `DenyByPolicy`, `Suspend`, `StartAllowed` | `resolvePolicy` and what follows it |
| `Commit`, `Return`, `Throw` | the executor (external) and the code behind it |
| `Resume`, `ResumeRejects`, `CancelExecution` | the calls of the approval service |
| `RegisterAction`, `UnloadAction`, `RegisterHook`, `UnloadHook` | registration and its disposers |
| `RecoverOrphanedExecutions`, `Boot`, `Die` / `Crash` | recovery pass and process |
| `Create`, `Expire`, `DecideOverdue`, `Decide`, `Follow` | `create`, the clock, `decide` |

What is abstracted. Calls that are rejected before any state changes (invalid
input, unknown action, idempotency conflict, not found) are left out. A hook
answers any verdict. `execute`'s reply `denied` and a replayed row `cancelled`
are the same end. An AbortError is judged by the error, as the code does, so
`Throw` may end as failed or cancelled whether or not the signal fired. Two
processes over one database are not modelled.

`GuardedWrite` is what the two services promise together: an execution is
granted or refused at most once and for good, and makes its side effect only
after a grant, once. The refinement mapping computes the verdict from `starts`,
`approval` and `journal`.

### WriteBehind

`WriteBehind` is one live session: `SessionWriteBehind` and the coordinator's
path around it. An event is its seq. Each promise job is an action: a settled
write runs its catch (`WriteFails`) or nothing (`WriteSucceeds`), its finally
(`ClearActive`) and its continuation (`ContinueBackground`, `ContinueBarrier`) one
after the other, and between them the session may append (`Emit`), or a caller may
flush. Timer callbacks wait until no job is queued (`JobsQueued`).

| Variable | Code |
|---|---|
| `emitted` | `session.events.length` |
| `log` | the stored log; its length is `state.cursor` |
| `init`, `seed` | `live.init` and the events `initFor` captured |
| `pending`, `timer`, `deadlineExpired`, `automaticPaused`, `active`, `barrier` | the fields of `SessionWriteBehind`; `barrier` tells whether the drain awaits an overlapping write |
| `writes` | operations of `startWrite` that have jobs left to run |
| `caller`, `mark` | callers of `flush`, and what the session held when they called |
| `acknowledged` | what a fulfilled flush has promised (history) |

`session.append` pushes the event before it publishes it, so an `initFor` caused by
the first event captures that event in its seed and queues it too; `Fresh` (the
filter of `appendLiveBatch`) is what drops it again. The backend's `appendBatch`
is one transaction, as its interface demands. Not modelled: the
public `append`/`create` on the same id, retirement and disposal, which `Coordinator` has. A session
attached from a preparation is covered as one whose initialization stores its
suffix.

`DurableLog` is the promise: the log is a prefix of the session's events, only
grows, and covers every fulfilled flush.

### ToolScheduler

`ToolScheduler` is `executeToolCalls` with `runGroup`
(`packages/harness/agent-loop/src/tool-calls.ts`): one step's tool calls, numbered
in model order. The scheduler is one async function; its awaits are the values of
`pc`, and what runs between two of them is one action.

| Variable | Code |
|---|---|
| `mode` | what `executionMode` answers for a call that is not started |
| `signal`, `aborted` | the step's signal, and what the group has seen of it |
| `pc` | at a group (`group`), in `prepare` (`preparing`), in `commitReady` (`committing`), racing or leaving (`pool`), in the catch block (`drain`), or ended |
| `first`, `last` | `next`, and the end of the group in the message |
| `calls`, `results` | the `tool/call` and `tool/result` events, by call |
| `slots`, `inFlight` | `slots` and `inFlight`; `running` are the bodies not settled |
| `failure` | `schedulerFailure` |

| Action | Code |
|---|---|
| `StartGroup`, `Complete` | the loop of `executeToolCalls` |
| `Fill` (part of `StartGroup`, `Committed`), `MayStart` | the loop head of `fillPool` and the append of `startCall` |
| `Prepared`, `PrepareFails` | `startCall` after `prepare` |
| `Commit`, `CommitFails`, `Committed`, `CommittedFails` | `commitReady` and the checks behind it |
| `RaceResolves` | the race of the pool |
| `GroupEnds`, `GroupAborts` | the end of `runGroup`, with both loops of skipped calls |
| `Drain` (part of the failures), `Drained` | the catch block |
| `Settle`, `Abort`, `Reclassify` | tool bodies, the abort signal, the tool registry |

`nextToStart`, `started` and `committed` are the lengths of `calls` and `results`.
Each commit is a step of its own because `finalize` is awaited. A tool's mode is
left alone once its call is started, as the code does not read it again. A throw
of `session.append` is the throw of the `prepare` or `finalize` beside it. Left out: the
content of results, the contexts they add and whether one concludes the turn.

`OrderedAnswers` is the promise: calls and results in model order, once each, no
result before its call; fabricated results only for calls that were not started;
a step that completes has answered everything.

### AgentDriver

`AgentDriver` is one agent: `ReactLoopAgent`
(`packages/harness/agent-loop/src/agent.ts`) with its `Inbox`
(`packages/harness/agent/src/inbox.ts`). What runs between two awaits is one action,
cut further where the code publishes something whose listeners may call the agent
back. Three publications are frames: the driver's jobs wait until they return.

| Variable | Code |
|---|---|
| `phase`, `signal`, `latch` | `this.phase.kind`, the reason of `phase.abort`, `phase.wakeRequested` |
| `pc` | where `kick` and `turn` stand: behind the publication of running (`entered`), of `turn/start` (`opened`) or `turn/end` (`ended`), awaiting `preStep`, `step` or turn-stopping, holding a decision of `preStep`, before the next turn (`again`) or before the `finally` of `kick` (`tail`) |
| `ends`, `stepped` | `turnEnds`, `phase.step > 0` |
| `nextTurn`, `nextStep` | the lists of the inbox |
| `sending` | a waking `send` whose insertion is being published, with its classification |
| `retiring` | the publication of idle by `kick`, with the latch read before it |
| `parcel`, `disposed` | history: what became of each message, and whether a disposal cancelled an activity |

| Action | Code |
|---|---|
| `Send`, `Wake` | `send` up to the insertion, and `wakeDriver` behind its publication |
| `Cancel`, `Remove`, `RunMaintenance` | the calls of that name, from callers and listeners |
| `MaintenanceEnds`, `Replay` | the `finally` of `runMaintenance`, and the replay of a latch |
| `StartTurn`, `FirstClaim` | `turn` up to `turn/start`, and from there to the await of `preStep` |
| `PreStepReturns`, `Reject`, `EnterEmpty`, `Enter` | `preStep` behind its hooks, and what `turn` makes of its decision |
| `StepReturns`, `StoppingReturns`, `TurnThrows` | behind the awaits of `step` and turn-stopping, and the catch block |
| `TurnReturns`, `Converge`, `Retire` | behind `turn/end`, and the `finally` of `kick` around the publication of idle |

A session event is published inside `append`, which cannot be reentered, so its
listeners may cancel but neither send nor remove. A listener of an insertion or of a
status may do anything, with one bound: it does not send while another waking send
is on the stack. Each message is sent once. Left out: the inside of a step (its
outcome is any of `completed`, `max-tokens`, more steps, or a throw), messages'
content, `replace` and `prepend`, sends from the listeners of a discarded message, the
rebuilding of the lists from the log, `whenIdle`, which has no state, and failures of
`append`.

`TurnLog` is the promise: a turn opens when none is open; only in a turn is anything
claimed, at its first boundary all steering and the oldest ordinary message, later
steering only; a message is claimed or dropped once.

### DocumentWrite

`DocumentWrite` is one document: its file, its row in the documents database, the
journal rows of the executions that want to write it, and the process.
`writeDocumentAtomically` and the loop of `recoverDocumentWrites` have no await, so
while an execution is inside one (`Busy`) the process does nothing else; their steps
are apart because the process can die between them and an editor can change the
file. `DocumentsService.read` awaits its providers, and the work bundle registers one
per session, so a read can stay suspended while other code of the process runs.

| Variable | Code |
|---|---|
| `file` | the content of the target |
| `record` | `version` and `content_hash` of the `documents` row, version 0 for none |
| `journal`, `wanted`, `expected` | `state` and `request_json` of the `action_executions` rows |
| `announced` | `document/written` events appended for an execution |
| `pc`, `reading`, `mode` | the executor or the replay of a row, the reads in flight, the process |
| `renames`, `replaced`, `published` | how often an execution replaced the target, who moved the row to a new version, what the row has held (history) |
| `thrown` | what threw first behind the rename of an execution: projection, event, journal (history) |
| `undone` | the versions to which stale reads have taken the row (history) |

| Action | Code |
|---|---|
| `Propose`, `Suspend`, `Start`, `PersistOutcome`, `PersistFails` | what `Actions` and `Approvals` do with the row, in short |
| `Check`, `WriteFails`, `Rename`, `Project`, `ProjectFails`, `AppendWritten`, `AppendFails` | `writeDocumentAtomically` |
| `BeginRead`, `ProviderReads`, `CommitRead` | `DocumentsService.read` and the local provider |
| `ReplayRecord`, `ReplayRow`, `ReplayEvent`, `ReplayStops`, `RequireRecovery` | one row of `recoverDocumentWrites` |
| `RecoverOrphanedExecutions` | the recovery pass of the pipeline, which the host may call instead |
| `Boot`, `Crash`, `Edit` | the host, the process, somebody with an editor |

Every write to a database or a session may throw. Behind the rename that leaves the target
replaced: `ProjectFails` stands for a target that is gone or unreadable, a content that
`projectDocument` rejects only then, and `commitWrite` throwing for any content;
`AppendFails` for the session that refuses the event; `PersistFails` for the journal that
refuses the success, which the pipeline then journals as a failure, and for the journal that
refuses the failure too, which leaves the row running. `ReplayStops` is a journal or a session
that throws inside the recovery of a row and so ends the pass. Where a failing write
changes nothing it needs no action: a journal that throws ahead of the executor leaves a row
like one whose policy never decides, a read whose commit throws is a read that was not begun,
and a replay whose commit throws leaves the row to a later pass. A cancellation at the start of the executor is
journaled as cancelled, which the model counts with the failures: no property tells them
apart. The two attempts to journal an outcome follow each other at once in the code; in the
model others may come between, but nothing reads the row there.

No host in the repository calls either recovery pass, so the model lets a process
boot with any subset of its orphans recovered. Left out: refusals of suspended rows
(see `Approvals`), the index version of the row, the `document/read` event, and
whether an event is flushed before a crash (see `WriteBehind`). A content is either
accepted or rejected by `projectDocument`; an unsupported extension rejects all of
them.

### Preparations and Coordinator

`Preparations` has the methods of `SessionPreparations` as operators on the pool of one
session id; `Coordinator` extends it with `PersistenceCoordinator`, the store of live
sessions and the callers. The coordinator runs the operations of one id on a promise
chain, one at a time, and nothing that runs beside an operation reaches what it reads, so
an operation of the chain is one step; what its caller does when its promise settles is
another. The revision of the log is its length, because every change appends to it.

| Variable | Code |
|---|---|
| `log`, `header` | the stored events and the `cwd` of the stored header |
| `states` | `states.get(id)`: owner, cursor, materialized, and whether there is one |
| `pool` | `preparations`: the current entry, and every entry object somebody refers to |
| `chain` | the operations queued for the id |
| `life` | a `Session` object with its `LiveSessionState`, its write controller as a count of pending events, and its retirement |
| `retiring` | `retirements.get(id)` |
| `call` | a caller: what it asked for and which await it stands at |

| Action | Code |
|---|---|
| `CreateFresh`, `AppendEvent`, `StartWrite`, `Dispose` | `sessions.create`, `append`, the write controller, `detach` |
| `RetireFlushed`, `RetireUnbound`, `RunRelease` | `retireCore` |
| `RunLoad`, `RunCommit`, `RunCheck` | `prepareCore`, `commitPrepared`, `isPreparedSourceCurrent` |
| `RunCreated`, `RunSuffix`, `RunWrite` | `onCreated`, `attachPrepared`, `appendLiveBatch` |
| `RunCreate`, `RunAppend` | the public `create` and `append`, with adoption and its repair |
| `Call`, `Look`, `ReadFailed`, `Answered` | a call up to its first await, the entry it finds or starts, and its end |
| `Contend`, `Committed` | `reserve` before and behind its commit |
| `Observe`, `Checked`, `Flushed` | `inspect` and `loadLiveSnapshot` |
| `Grow`, `Publish`, `GiveBack`, `Abort` | the holder of a reservation, and a caller's signal |
| `ResumeCreate` | `resumeSession` of the SDK, from what `load` answered |
| `Outside`, `EvictReady`, `Reload` | another process, other ids in the LRU, the plugin's reload |

Left out: `readFrom`, torn tails, listing, and the wait of the plugin's own disposal.
Another process appends between two operations, never inside one. `Entries` bounds how many
entry objects somebody refers to; an identity is used again when nobody does.

### EventStream

`EventStream` is one session, the requests for its event stream (`streamSessionEvents`
over `replaySessionEvents`), and `openEventStream` of the web client, which reconnects
with `Last-Event-ID`. The awaits of a handler are the values of `conn[c].at`: `requested`
(not routed), `loading` (the replay awaits `persistence.load`), `replayed`, `open`.

| Variable | Code |
|---|---|
| `log`, `durable`, `live` | the events, how many are stored, whether `sessions.get` finds the session |
| `open`, `epoch` | whether a crash cut a turn, and the process that appended an event |
| `conn` | a request: `Last-Event-ID`, its subscription, its buffer, its replay, what is on the wire |
| `client` | `lastEventId`, the connection it reads, and what it handed on (history) |

`Handle`, `LoadStored`, `ReplayFails` and `Reply` are the handler, `Publish` with `Notify`
the subscription, `Connect`, `Deliver` and `Cut` the client and the network; `Flush`,
`CloseSession`, `ResumeSession` and `Crash` are the session. The snapshot that opens a
stream is a frame with seq -1. An event says whether it was published: seeds, the
end-of-seed mark and the closers of a repair never are, and a stream shows them only in a
replay. Left out: other routes, heartbeats, the content of frames, and the views.

### ToolExecution and CodeMode

`ToolExecution` is the staged pipeline of one call (`ToolRuntime` from `prepare` to
`finishScheduledExecution`) with the question of `packages/harness/user-approval`. A stage
names the await an execution stands at; listeners, guards, answerers, wrappers and bodies
are plugins and answer anything. Of a result, it keeps how it came about: `success`,
`error`, `aborted`, `aborted before dispatch`. `CodeMode` extends it with one run of the
`run_code` tool: the program's calls (numbered as submitted), and the ordered lane `drive`
that prepares, starts and commits them while only their bodies overlap.

| Variable | Code |
|---|---|
| `exec` | an execution: stage, result, whether post-execute still runs, whether the body was invoked, the wrapper's signal, and its question |
| `signal` | the signal of the run |
| `run`, `promise` | the run, and the promise of each binding call |
| `pending`, `commits`, `inFlight`, `exclusive` | `pendingQueue`, `commitQueue`, the pool, `exclusiveActive` |
| `mode` | the classification a call was started under, while it matters |
| `lane` | the await `drive` stands at |
| `logWork`, `logged` | `logWork`, and the events appended |

| Action | Code |
|---|---|
| `PreExecute`, `Answer`, `Resolve` | `prepareExecution`: listeners, guards, the question and its outcome |
| `Around`, `Timeout`, `BodySettles` | wrappers, a signal of theirs, the body, `dispatchScheduledExecution` |
| `Submit`, `OuterAbort`, `ProgramSettles`, `Return` | a binding call, the outer signal, `runtime.run` settling, the end of `drainDispatches` |
| `BeginCommit`, `Commit`, `Release` | the commit of a call, its dispatch log, the barrier behind it |
| `Abandon`, `Classify`, `Idle`, `Launch`, `Leave` | one pass of `drive`, and a flight that settles |
| `LogDispatch` | the `tool/code-dispatch` event |

A wrapper calls `next` at most once. Left out: content, values and contexts of results,
registration, visibility and schemas, nesting, and the worker that runs the program.

### SessionLog

`SessionLog` is the grammar of one session's log: what the agent loop appends, what the
invariant companion (`invariant.ts`) accepts, what `interruptedTurnClosers` (`repair.ts`)
adds after a crash, and what `fork` copies. A crash cuts the log at any event behind what
is known to be stored; the next process loads, repairs, marks the end of the seed, and
writes on.

| Variable | Code |
|---|---|
| `log`, `stored` | the events, and how many no crash takes away |
| `pc` | where the agent is: `idle`, at a step `boundary`, in a `request`, at its `calls`, `down` |
| `turn`, `step`, `calls`, `started`, `committed` | the counters of `phase` and of the scheduler |
| `lives`, `abandoned` | processes and forks so far; steps whose scheduler failed (history) |

`Legal` and `Advance` are the companion, `Scan` and `Closers` the repair. `StartTurn`,
`StartStep`, `Respond`, `RequestThrows`, `StartCall`, `CommitCall`, `FinishCalls`,
`AbortCalls`, `SchedulerFails` and `EndTurn` are the agent; `Crash`, `Load` and `Fork` what
lies between two lives. A call is its place in its message, so identifiers repeat from step
to step. Left out: chunks, request headers, inbox events, surface events, and the events of
code-mode calls, which the companion does not count. Appends with no await between them are
one action, which loses no cut because a crash takes any suffix.

### AgentLifecycle

`AgentLifecycle` is the factory of the agent loop and its entries in the session store and
the agent registry, for attempts at one identity. An attempt creates, resumes or restores
(a configured agent, which falls back to a fresh session); `pc` is the await it stands at.

| Variable | Code |
|---|---|
| `factory` | `FactoryOwnership`: open, closing, closed |
| `sessions`, `agents` | whose entry the two registries hold |
| `cancelled`, `aborted` | the caller's signal while loading, the abort controller of `prepare` |
| `owner`, `byOwner` | the owner's fiber, and `ownerTriggered` |
| `teardown` | the await of `dispose`: the driver (`drain`), the scope (`unwind`), or done |
| `preparation` | the stored session: asked for, held, consumed or given back |
| `driver`, `woken` | whether the agent's driver runs, and how often it was woken (bound) |
| `sessionEdge`, `agentEdge` | what listeners were told (history) |

| Action | Code |
|---|---|
| `Begin`, `Waited`, `LoadSettles`, `AbandonLoad`, `Loaded` | up to the loaded session |
| `SetupSettles`, `SetupAborted` | setup, raced with the abort |
| `Publish` | both entries, both announcements, the start; how far its listeners let it get |
| `Refused`, `CreateConfigured`, `LoadFailureStands` | a configured agent that could not be restored: `list` is asked (`pc` at `listing`), and the agent created or its failure reported |
| `FailureSettles` | the rollback awaited by a failed attempt |
| `CallerCancels`, `DisposeHandle`, `UnloadOwner`, `CloseFactory` | who may end an attempt |
| `Drained`, `Unwound`, `OwnerUnloaded`, `FactoryClosed` | behind the awaits of a teardown |
| `Send`, `DriverEnds` | the driver, as far as teardown waits for it |

Publication is one action: its listeners run synchronously, and a teardown they start has
its first await before it detaches anything. A listener that closes the factory inside a
publication is left out, and so is input sent after a dispose found the agent idle, which
the code calls the sender's bug. The driver itself is `AgentDriver`.

## 4. Runs

| Run | Bounds | Shows |
|---|---|---|
| `approvals` | one write and one read execution, one hook, one crash | the pipeline is safe and implements `GuardedWrite` |
| `write_behind` | 2 callers, 4 events, seed up to 2, 2 failures | nothing is lost, `DurableLog` is implemented, events land, flushes are answered |
| `tool_scheduler` | 5 calls, pool of 3 | order and completeness of the log, barriers, abort, failure, termination |
| `agent_driver` | 3 messages | latched wakes, cancellation and the refinement of `TurnLog` |
| `document_write` | 2 executions of any request, 2 accepted contents and a rejected one, 1 read, 1 edit, 2 crashes | optimistic concurrency, single side effect, what recovery leaves behind |
| `preparations` | 2 callers that prepare, load, inspect or append, 1 live session, 3 events, 1 fault or outside append | reservations, waits, what `load` answers |
| `coordinator` | 2 live sessions after another, 1 caller that prepares, resumes, appends or creates, 3 events, 2 mishaps (fault, reload) | ownership, retirement, repairs |
| `stream` | 3 connections, 4 events, 1 crash, 1 close, 1 failing replay | delivery over reconnections and resumptions |
| `code_mode` | 3 calls, pool of 2 | outcomes, grants, barriers, the end of a run |
| `session_log` | 2 turns of 2 steps of up to 2 calls, 3 lives | the grammar of the log over crashes, repairs and forks |
| `agent_lifecycle` | 2 attempts at one identity, 2 wakes | announcements, teardown, termination |
| `resume` | 1 live session, 1 caller that resumes | a disagreement of the code with its tests (section 6) |

Bounds. Executions of the pipeline interact only through hooks, registrations and the
process, so one execution of each side-effect class with one hook reaches every verdict,
every stage and every unload; the number of decisions, replays, registrations and
session toggles is not bounded. One crash reaches recovery from every state, and a second
one adds no state of rows (the proofs hold for any number). `ClientVersions` holds every
version a row can have and one it cannot. For `WriteBehind`, four events over two seeds
allow a batch in flight, a batch put back, and events queued behind both; two failures
allow any two of initialization, a background write and a barrier write to fail. For
`ToolScheduler`, five calls over a pool of three allow a full pool with calls waiting, a
barrier before, inside and behind a parallel group, and calls settling in every order. For
`AgentDriver`, three messages allow two in one list, one in each, and one sent behind a
claim; cancels and maintenance jobs are not bounded, and the proofs hold for any set of
messages. For `DocumentWrite`, two executions compete for one version with equal or
different contents; the second crash falls into the recovery from the first; versions
above 2 behave as 2 does, and `MaxVersion` lets a request name a version that does not
exist yet. For `Coordinator`, one run has two callers, so that one waits for the other's
reservation while a live session comes and goes, and the other has two live sessions, so
that the second finds what the first left: a retirement, a failed drain, a state without
owner. Three events are a turn, its end and a mark or a next turn. For `EventStream`, a third
connection follows one that was refused or cut during its replay, and four events leave
some before, inside and behind a replay. For `CodeMode`, three calls are one in
commit, one in its body and one waiting, with any classification at any pass. For
`SessionLog`, three lives cut a log that was already repaired, and fork one that was
resumed. For `AgentLifecycle`, two attempts compete for one identity, and the second may
find the first at any await of its teardown.

Properties of `approvals`:

- `ExecutorEnteredAtMostOnce`: no interleaving of calls, decisions, unloads,
  crashes and recoveries enters an executor twice.
- `EnteredOnlyWhenAuthorized`: an entered executor had an approved row or the
  policy's word, explicit for a write.
- `CallersAgree`: callers are told one end, the one in the row.
- `ImplementsGuardedWrite`.

Properties of `write_behind`: `NothingIsLost`, `ImplementsDurableLog`, `EventsLand` and
`FlushSettles`. Of `tool_scheduler`: `ExclusiveRunsAlone`, `NothingOutlivesTheStep`,
`StepEnds` and `ImplementsOrderedAnswers`; the run does not check for deadlock, because a
step ends. Of `agent_driver`: `LatchedWakesRun` (an agent at rest holds no message whose
wake was latched behind maintenance or an aborted activity), `CancelStopsTheTurn` and
`ImplementsTurnLog`. A message that was latched when a disposal took over its replay counts
as parked, because disposal never starts a turn.

Properties of `document_write`: `WriteIsAccounted` (no execution replaces the target twice; a
write that happened is journaled as failed only when its projection, its event or the journal
threw behind its rename, and one that announced itself only when the journal refused its
success), `OneWritePerVersion` (of the writes that name one version, one replaces it),
`VersionNamesOneContent`, and `ProjectionLagsByOneWrite` (without outside edits and stale reads
a file ahead of its row was written by an execution whose row tells of it: running, to be
recovered, or failed because its projection threw; no failure lets a second write start from
there). A read that commits a stale projection takes the row back to some version (section 6):
`OneWritePerVersion` and `VersionNamesOneContent` hold below it (`Intact`), which is how much
such a read can undo.

Properties of `preparations`: `ReservationHoldsTheLog` (while the pool knows an id no session
of it is live, a reservation has one holder, and what it holds is the stored log at the
cursor that was committed for it), `EveryWaitEnds` (whoever waits for a reservation, a queued
operation or a retirement is waited for by somebody who ends it) and `LoadedIsDurable` (what
`load` answers is stored, also when it is a snapshot of a live session).

Properties of `coordinator`: `OwnerMatchesLog` (what the coordinator tracks for a bound session
is a prefix of it), `RetiredIsDurable` (a fulfilled retirement has stored the last event) and
`RepairsAreCold` (no repair closes a turn under a session that goes on with this log). The
public `append` does not ask for the owner of the state, so a session behind which it wrote
(`Intruded`) is excepted from the first two and from `LoadedIsDurable`.

Properties of `stream`: `DeliveredExactlyOnce` (over all its connections a client gets
events in order, none twice, and misses none that was published up to its last one) and
`CatchesUp`. A client that got an event the process lost in a crash is ahead of the log
(`Forked`) and excepted; so is, for `CatchesUp`, one that has no connection left to open.

Properties of `code_mode`: `OutcomeTellsTheBody` ("aborted" only after a body that ran,
"aborted before dispatch" only when none did), `OnlyGrantedRuns` (what was asked runs only
when allowed, and its outcome is logged before the call goes on), `ExclusiveRunsAlone` (from
its start to the end of its commit, and no more bodies than the pool holds),
`NothingOutlivesTheRun` (no body, question, promise or unlogged call when the run returns)
and `AbortedRunEnds`.

Properties of `session_log`: `LogIsAccepted` (the companion accepts every log the loop, the
repair and fork produce), `EveryCutIsRepaired` (closers complete any stored prefix, and need
no closers themselves), `EveryCallIsAnswered` (each call of each message has one result before
the transcript goes on, except in a step whose scheduler failed) and `RestingIsWhole` (a log
between turns needs no repair, also a fork's).

Properties of `agent_lifecycle`: `EdgesArePaired` (what was announced is registered until its
end is announced), `NothingDrivesADetachedSession`, `NothingOutlivesTheFactory` (no entry,
driver, continuation or held preparation) and `TeardownCompletes` (an
unloading owner goes away and a closing factory closes although loads and setups never settle;
the factory, unless a configured agent stays at a `list` that never answers, which nothing
races and the factory joins: section 6).

Fairness. `Approvals`, `DocumentWrite`, `Coordinator` and `SessionLog` claim safety only:
nobody has to decide, to call recovery or to append, and executors may hang. `WriteBehind`
assumes weak fairness of storage (every write settles), timers, promise jobs and the
announcement of a session, which is what the event loop provides; appending and flushing
are not fair. `EventsLand` excepts a log whose automatic path was paused by a failure,
which the code retains until the next append or flush. `ToolScheduler` assumes that promise
jobs run and that whatever the scheduler awaits answers: `prepare`, `finalize` and every
dispatched body; a tool that hangs hangs its step. `AgentDriver` states the same of its
hooks, steps and maintenance jobs. `EventStream` assumes that handlers run to their end
(a load is answered or rejected), that the network delivers and that the client
reconnects; nobody owes an event, a flush, a close or a resumption. `CodeMode` assumes
that the lane and the promise jobs run, that listeners, wrappers and bodies settle, and
that a program whose run was aborted ends, as the contract of the runtime demands (`packages/harness/code-runtime/src/types.ts`); a user owes
no answer and a program no call. `AgentLifecycle` assumes that continuations run, that a
driver comes to an end and that the scope of an agent unwinds (its disposers settle), both of
which a teardown awaits unraced; backends (a load, and the `list` asked for a configured agent) and
setups may never settle, nobody has to cancel or to dispose.

Deadlock is checked where the system goes on for ever (`approvals`, `write_behind`,
`agent_driver`, `document_write`); the other models end when their bounds are used up.

## 5. Proofs

`ApprovalsProofs` proves, for every set of executions, names and hooks and any
number of crashes: `TypeCorrect`, `AtMostOnce`, `Authorized`, `UnloadAborts`,
`Agreement`, `EndsStay` and `Refinement`. The assumptions are those of the
modules: `ActionOf` maps executions to names, `Writes` are names, `MaxCrashes` is a
natural number and `None` is not an execution.

None of the invariants is inductive by itself. `Coherent(e)` ties the row, the
pipeline and the approval of one execution together: a row that is absent or
proposed has not started, an execution that waits for approval has neither
started nor a live pipeline, a live pipeline belongs to a proposed or running
row and sits in `inflight` unless its signal fired, what callers were told is the
row's terminal state, and a decided approval excludes the policy's own grant.
`IInv` is the type invariant, `Coherent` for every execution and the
three invariants that speak of all executions. Each action has a lemma that shows
it preserves `Coherent` for the execution it moves; the others keep their part
of the state. The refinement proof maps `StartAllowed` and an approving
`Decide` to `Grant`, a refusing `Decide`, an expiry and `DenyByPolicy` to `Refuse`,
`Commit` to `Perform`, and every other step to a stutter; the interesting case is
`Resume`, whose execution was granted when its row was approved.

`ToolSchedulerProofs` proves, for every number of calls and every size of the pool
(both positive), type correctness, `ExclusiveRunsAlone`, `NothingOutlivesTheStep`,
`PoolIsBounded`, `StartedCallsAreCommitted`, `AbortStopsStarts` and the refinement. Its `IInv` says where a started call without a result can be: in a
slot, in flight, or being prepared (`Covered`), and that the next one to commit is
in flight whenever the scheduler races, so an empty pool leaves nothing behind.
`Counted` orders the counters, `Pooled` ties the pool to the started calls of the
group, `Barrier` says that a group of several calls is parallel throughout, and
`Numbered` that the log holds 1, 2, 3 and so on, which with three lemmas on sequences
gives the refinement: starts map to `Issue`, commits to `Answer`, `GroupAborts` to
`Abandon`, `Drained` to `Fail`.

`AgentDriverProofs` proves, for every set of messages, type correctness,
`LatchedWakesRun`, `CancelStopsTheTurn` and the refinement. `IInv` has a control half
(`Phased`: a driver runs exactly in its phase, an idle agent has no latch) and a data
half: `Unique` (no message twice in the lists), `InboxMatchesHistory` (the lists hold what
was sent and neither claimed nor dropped) and `LatchesStand` (what was latched has a
latch, or a frame about to replay it, which only a driver or a maintenance job
started by a listener can overtake). Four lemmas say what appending, removing and
claiming do to a list without repetitions; `Relabelled` and `Departed` lift them to the
history. In the refinement `StartTurn` is `OpenTurn`, the claims are `TakeFirst` and
`TakeLater`, every end of a turn is `CloseTurn`, and waking, latching and replaying
stutter.

`WriteBehindProofs` proves, for every bound on events, failures and seed and every set of
callers, type correctness, `NothingIsLost` and the refinement. `IInv` has four parts beside
the types. `OneAtATime`: at most one background and one barrier write exist, `active` holds
exactly while one has not reached its continuation, and the barrier drains exactly while its
own write is there. `InLine`: what a write holds and what is queued behind it are the last
events of the session in order. `Covered`: everything before them is stored, or is in the seed
of the initialization that runs or failed; this is what makes a retried batch continue the log.
`Promised`: what a caller waits for is not beyond the session, and what a flush fulfilled is
stored. Lemmas say what taking, restoring and filtering a batch does to a queue in line. In the
refinement `Emit` is `AppendEvent`, `InitSucceeds` and `WriteSucceeds` are `Store` (or a
stutter, when the batch held nothing fresh), a fulfilled flush is `Acknowledge`, and
failures, timers and callers stutter.

`DocumentWriteProofs` proves, for any executions, contents, readers, edits and crashes, type
correctness and the four properties of the run. `IInv` says of each execution where its row is
for its place (`Placed`) and what it can have done there (`Accounted`); that one execution at
most is inside the synchronous part (`Alone`), so that nothing comes between its check of the
version and its replacement (`Checked`); that the version only grows, past those that
replaced, published or hold an earlier one (`Versioned`); and, without edits from outside, what
the file holds at each step of a write (`Held`), that the write the projection owes has a row
that tells (`Lagging`), and that a read which would still commit over the record it saw has
seen the file as it is (`Current`). A read in flight that no stale one came before
has seen the row as it is or an earlier version of it (`Preceded`). `Follows` and `Commits` state once what a committed
projection does to versions, for the writer, the reader and the replay, `Undoes` what a stale
read leaves of them and `Precedes` what a commit is for the other reads. `Versioned` holds
always, of the versions below those a stale read went back to; `Lagging`, `Current` and `Preceded` are
conditional on no stale read: that condition cannot be dropped, because the code commits stale
projections (section 6).

`CodeModeProofs` proves, for any number of calls and any positive pool, type correctness and the
four safety properties of the run, over the pipeline of `ToolExecution` as the lane drives
it. `Sound` ties what a call was granted and whether its body was entered to its stage. `Placed`
says where a call is: queued, in the commit queue (being prepared, in the pool or parked), or at
the head of the lane until its commit is over; `Barred` that an exclusive call
is there alone, `Pooled` that a call is prepared only while the pool has room, and `Accounted` that a logged start has
its end logged or somebody on the way to log it.

`AgentLifecycleProofs` proves, for any number of attempts at one identity, type correctness and
the three safety properties of the run. The properties are nearly inductive together; what they
lack is `Kept`: a registered attempt is live or being torn down, a teardown has aborted
its driver's controller, a factory that is closing has started the teardown of everything
prepared, and a held preparation belongs to an attempt that still has to use it or give it
back. One lemma describes what a disposal does to every attempt, whoever starts it.

The assumptions are those of the modules, named `...Assumption` where they are declared: bounds
are natural numbers, pools and numbers of calls positive, the calls of a program
`1..Cardinality(Calls)` and finitely many, and the values for "none" and "missing" not among what
they are the absence of. TLC evaluates each of them in the runs.

Model-checked only: `Preparations`, `Coordinator` and `EventStream`, which have no proofs yet;
`SessionLog`, whose properties speak of what folds over the log compute, which needs an
induction over data; and all liveness (`EventsLand`, `FlushSettles`, `StepEnds`, `CatchesUp`,
`AbortedRunEnds`, `TeardownCompletes`): both are out of the prover's reach.
Proved and in no run: type correctness, `OneAtATime`, `UnloadedPipelinesAreAborted`,
`EndedRowsStay`, `PoolIsBounded`, `StartedCallsAreCommitted` and `AbortStopsStarts`.

## 6. Where the code disagrees with its docs, comments and tests

A run shows one of them.

- `resume`: the loader the work bundle gives to the SDK (`packages/bundle/work-base/src/index.ts:301-304`)
  hands over the events and drops the stored `cwd`, so `resumeSession`
  (`packages/api/sdk/src/index.ts:242`) creates the live session without one, and the
  coordinator, which compares it with the stored header (`coordinator.ts:1252`, `:1305`),
  refuses the session as a collision: what a resumed session of a workspace appends is
  never stored, and its flush and `closeSession` reject. The integration test
  (`tests/integration/runtime-facade.spec.ts:292`) expects the `cwd` to survive, with a loader
  of its own that keeps it (`:285`).

The others were met while modelling; the models contain the behaviour, and the
properties above are stated so that they hold of it.

Actions and documents:

- The success is persisted inside the `try` around the executor (`actions/src/index.ts:543`),
  so a result that cannot be journaled turns a committed side effect into a journaled
  failure, which the comment on `recordAuditSafe` (`:415`) rules out. The document write has
  two more such steps behind its rename, `commitWrite` and the append to the session
  (`documents-write/src/index.ts:267`, `:268`).
- On an overdue request `decide()` ignores whether its update moved the row
  (`approvals/src/index.ts:335`); with a stale version the expiry is announced and the
  execution cancelled while the row stays pending.
- The audit recorder returns silently without a live session
  (`work-base/src/index.ts:204`), so an executor runs with no running record.
- `resolvePolicy` iterates the live hook array across awaits (`actions/src/index.ts:850`); an
  unload makes it skip the hook behind the one that left.
- `DocumentsService.read` commits a projection computed from the row it saw before it
  awaited its providers (`documents/src/index.ts:266`, `:281`), so a write that lands meanwhile
  is undone in the row: the version goes back, against "the version is monotonic" (`:18`).
- `recoverDocumentWrites` counts as replayed the "rows whose rename provably happened"
  (`documents-write/src/index.ts:297`), yet a row still `proposed`, which no policy has
  allowed, is replayed as a success when the file happens to hold its content. And content
  over 5 MiB, or a file that is neither Markdown nor text, is rejected only behind the
  rename (`:263`): the target is replaced and the execution journaled as failed.

Agent loop and tools:

- A turn whose first step is rewritten to empty returns without looking at the inbox
  (`agent.ts:276`), and between the last look at the inbox (`:324`) and the `finally` of `kick`
  lies a promise job. A wake sent to the driver in either window is neither latched nor
  claimed and waits in an idle agent, against "Live drivers claim queued work
  themselves" (`:178`).
- An activity cancelled by the user and then disposed keeps the reason of the user, so a
  late wake latches and is replayed as a turn the disposal waits for, against "disposal
  never latches" (`:178`).
- The comment at `agent.ts:166` says that "a latched replay is suppressed when the queue no
  longer holds the wake"; the code replays when the queue holds anything.
- A configured agent that cannot be restored awaits `persistence.list()`
  (`agent-loop/src/index.ts:424`) without racing it, in a startup that
  `FactoryOwnership.dispose` joins (`:87`): a backend whose `list` never answers keeps the
  factory closing for ever, although the load before it is raced so that "a never-settling
  backend cannot pin the identity" (`:670`).
- `agent-loop/src/index.ts:494` says that every racing owner awaits one quiescence; an owner
  whose effect finds a disposal under way returns at once (`:527`).
- The signal of `CreateAgentOptions` is documented as detached before the handle becomes
  visible; it is detached when the agent is disposed.
- A setup that was aborted between its settlement and the publication has still run.
- A failure of the scheduler leaves the calls of its step without results, and a later
  transcript with them (`abandoned` in `SessionLog`).
- `TOOL_NOT_STARTED` (`repair.ts:13`) is also said of a call whose body ran when its
  `tool/call` was still buffered at the crash.

Sessions and the event stream:

- Each connection opens with a snapshot frame (`http/src/index.ts:432`), at which the client's
  view resets (`apps/work-web/src/events.ts:108`), while a reconnection replays only what lies
  behind `Last-Event-ID`: the view of a reconnected client holds the tail alone.
- A replay that rejects leaves its subscription registered (`http/src/index.ts:423`), and so does
  a connection closed during the replay, because the close listener comes later (`:460`). An
  unknown session is answered with 500, and the client tries again for ever.
- End-of-seed marks and closers are never published, so a stream that stays open over a
  resumption does not show them.
- A client that got events the process lost in a crash skips as many of those that
  replace them (`Forked`).
- The public `append` of the coordinator does not ask whether a live session owns the state
  it appends under (`Intruded`).
- `closeSession` of the SDK forgets its handle only behind the disposal, so a second call
  meanwhile disposes again.

## 7. Not modelled

`PROJECT.json` lists every component with its status. Left out for good: pure I/O (HTTP
routing, the SQLite driver, the file system), configuration, prompt assembly, schemas,
registration and visibility of tools, the web views and vendored code: sequential code over
data, for which unit tests are the better instrument. Left for later: the migrations over a
crash between two of them, the retry policy of the LLM service, the deduplication of
`sendMessage`, surface folding and `deriveMessages`, and the reconstruction of the inbox from
the log.
