--------------------------- MODULE DocumentWrite ---------------------------
(***************************************************************************)
(* One document: the file in the workspace, its projection row (the        *)
(* documents database), the journal rows of the executions that want to    *)
(* write it (the session database), the atomic write itself and the        *)
(* recovery pass over writes that a crash left behind.                     *)
(*                                                                         *)
(* writeDocumentAtomically and the body of recoverDocumentWrites contain   *)
(* no await: nothing else of the process runs inside them (Busy).  The     *)
(* process can die inside them, and an editor can change the file.         *)
(* DocumentsService.read does await its providers, between reading the     *)
(* previous projection and committing the next one.  Every write to a      *)
(* database or to a session may throw.                                     *)
(***************************************************************************)
EXTENDS Naturals

CONSTANTS
  Executions,   \* executions of document.write on this document
  Contents,     \* what a document can contain
  Missing,      \* there is no file, or no projection row
  Rejected,     \* the contents projectDocument throws for (over 5 MiB)
  Readers,      \* concurrent calls of DocumentsService.read
  MaxVersion,   \* bound on the expectedVersion a request may carry
  MaxEdits,     \* bound on changes made outside the program
  MaxCrashes    \* bound on process deaths

ASSUME DocumentWriteAssumption ==
  /\ Missing \notin Contents
  /\ Rejected \subseteq Contents
  /\ MaxVersion \in Nat /\ MaxEdits \in Nat /\ MaxCrashes \in Nat

VARIABLES
  \* durable
  file,         \* what the target holds
  record,       \* the projection row: version and content (hash)
  journal,      \* state of each row of action_executions
  wanted,       \* content in the request of each row
  expected,     \* expectedVersion in the request of each row
  announced,    \* document/written events appended for each execution
  \* this process
  mode,         \* "booting" while recovery may run, then "up"
  pc,           \* how far the write or the replay of each execution is
  reading,      \* what each read holds across its await
  \* bounds
  edits, crashes,
  \* history
  renames,      \* how often each execution replaced the target
  thrown,       \* what threw first behind the rename of each execution
  replaced,     \* executions whose executor moved the record to a new version
  published,    \* every <<version, content>> the record has held
  undone        \* versions at which a read has committed over a record other than
                \* the one it saw

requestVars == <<wanted, expected>>
durableVars == <<file, record, journal, requestVars, announced>>
historyVars == <<renames, thrown, replaced, published, undone>>
vars == <<durableVars, mode, pc, reading, edits, crashes, historyVars>>

Files     == Contents \union {Missing}
NoRecord  == [version |-> 0, content |-> Missing]
Idle      == [at |-> "idle", previous |-> NoRecord, content |-> Missing]
RowStates == {"absent", "proposed", "awaiting-approval", "running",
              "succeeded", "failed", "recovery-required"}
\* Inside the executor, and inside the recovery of one row.
Writing   == {"checking", "checked", "renamed", "projected"}
Replaying == {"replaying", "reporting"}
Throws    == {"nothing", "projection", "event", "journal"}
Stages    == {"idle", "policy", "returned", "threw"} \union Writing \union Replaying

Init ==
  /\ file \in Files
  /\ record = NoRecord
  /\ journal = [e \in Executions |-> "absent"]
  /\ wanted = [e \in Executions |-> Missing]
  /\ expected = [e \in Executions |-> 0]
  /\ announced = [e \in Executions |-> 0]
  /\ mode = "up"
  /\ pc = [e \in Executions |-> "idle"]
  /\ reading = [r \in Readers |-> Idle]
  /\ edits = 0
  /\ crashes = 0
  /\ renames = [e \in Executions |-> 0]
  /\ thrown = [e \in Executions |-> "nothing"]
  /\ replaced = {}
  /\ published = {}
  /\ undone = {}

Busy  == \E e \in Executions : pc[e] \in Writing \union Replaying
Ready == mode = "up" /\ ~Busy

Move(e, stage)   == pc' = [pc EXCEPT ![e] = stage]
Journal(e, state) == journal' = [journal EXCEPT ![e] = state]
Throw(e, what)   == thrown' = [thrown EXCEPT ![e] = what]

(***************************************************************************)
(* The projection.                                                         *)
(***************************************************************************)
\* Mutation: the version is not bumped when the content changes.
ProjectedAtOldVersion(previous, content) ==
  [version |-> IF previous = NoRecord THEN 1 ELSE previous.version, content |-> content]
Projected(previous, content) ==
  IF previous.content = content
  THEN previous
  ELSE [version |-> previous.version + 1, content |-> content]

CommitRecord(next) ==
  /\ record' = next
  /\ published' = published \union {<<next.version, next.content>>}

(***************************************************************************)
(* The action pipeline around the write (Actions.tla models it in full).   *)
(***************************************************************************)
Propose(e) ==
  /\ Ready /\ journal[e] = "absent"
  /\ \E c \in Contents : wanted' = [wanted EXCEPT ![e] = c]
  /\ \E n \in 0..MaxVersion : expected' = [expected EXCEPT ![e] = n]
  /\ Journal(e, "proposed")
  /\ Move(e, "policy")
  /\ UNCHANGED <<file, record, announced, mode, reading, edits, crashes, historyVars>>

Suspend(e) ==
  /\ Ready /\ pc[e] = "policy"
  /\ Journal(e, "awaiting-approval")
  /\ Move(e, "idle")
  /\ UNCHANGED <<file, record, requestVars, announced, mode, reading, edits, crashes, historyVars>>

\* The policy allows the write, or an approval resumes it.
Start(e) ==
  /\ Ready
  /\ pc[e] = "policy" \/ journal[e] = "awaiting-approval"
  /\ Journal(e, "running")
  /\ Move(e, "checking")
  /\ UNCHANGED <<file, record, requestVars, announced, mode, reading, edits, crashes, historyVars>>

PersistOutcome(e) ==
  /\ Ready /\ pc[e] \in {"returned", "threw"}
  /\ Journal(e, IF pc[e] = "returned" THEN "succeeded" ELSE "failed")
  /\ Move(e, "idle")
  /\ UNCHANGED <<file, record, requestVars, announced, mode, reading, edits, crashes, historyVars>>

\* Success is journaled inside the try of the executor: when that throws, the
\* handler of what threw journals the execution as failed, and when that throws
\* too the row stays running.
PersistFails(e) ==
  /\ Ready /\ pc[e] \in {"returned", "threw"}
  /\ IF pc[e] = "returned"
     THEN Move(e, "threw") /\ Throw(e, "journal")
     ELSE Move(e, "idle") /\ UNCHANGED thrown
  /\ UNCHANGED <<durableVars, mode, reading, edits, crashes,
                 renames, replaced, published, undone>>

(***************************************************************************)
(* writeDocumentAtomically                                                 *)
(***************************************************************************)
\* The file differs from the row, or exists without one.
Drifted == file \notin {Missing, record.content}

\* Mutation: the expected version is not compared.
ConflictsByDrift(e) == Drifted
Conflicts(e) == Drifted \/ record.version # expected[e]

Check(e) ==
  /\ pc[e] = "checking"
  /\ Move(e, IF Conflicts(e) THEN "threw" ELSE "checked")
  /\ UNCHANGED <<durableVars, mode, reading, edits, crashes, historyVars>>

\* The signal has fired, the parent is outside the root, or the temp file or
\* the rename fails: the target is untouched.
WriteFails(e) ==
  /\ pc[e] \in {"checking", "checked"}
  /\ Move(e, "threw")
  /\ UNCHANGED <<durableVars, mode, reading, edits, crashes, historyVars>>

Rename(e) ==
  /\ pc[e] = "checked"
  /\ file' = wanted[e]
  /\ renames' = [renames EXCEPT ![e] = @ + 1]
  /\ Move(e, "renamed")
  /\ UNCHANGED <<record, journal, requestVars, announced, mode, reading, edits, crashes,
                 thrown, replaced, published, undone>>

\* The target is re-read for the event's hash, and the row follows the request.
Project(e) ==
  /\ pc[e] = "renamed"
  /\ file # Missing /\ wanted[e] \notin Rejected
  /\ CommitRecord(Projected(record, wanted[e]))
  /\ replaced' = IF record.content = wanted[e] THEN replaced ELSE replaced \union {e}
  /\ Move(e, "projected")
  /\ UNCHANGED <<file, journal, requestVars, announced, mode, reading, edits, crashes,
                 renames, thrown, undone>>

\* The target is gone or cannot be read again, the content is only now found to
\* be too large, or the transaction of commitWrite throws.
ProjectFails(e) ==
  /\ pc[e] = "renamed"
  /\ Throw(e, "projection")
  /\ Move(e, "threw")
  /\ UNCHANGED <<durableVars, mode, reading, edits, crashes,
                 renames, replaced, published, undone>>

AppendWritten(e) ==
  /\ pc[e] = "projected"
  /\ announced' = [announced EXCEPT ![e] = @ + 1]
  /\ Move(e, "returned")
  /\ UNCHANGED <<file, record, journal, requestVars, mode, reading, edits, crashes, historyVars>>

\* The session refuses the event.
AppendFails(e) ==
  /\ pc[e] = "projected"
  /\ Throw(e, "event")
  /\ Move(e, "threw")
  /\ UNCHANGED <<durableVars, mode, reading, edits, crashes,
                 renames, replaced, published, undone>>

(***************************************************************************)
(* DocumentsService.read                                                   *)
(***************************************************************************)
BeginRead(r) ==
  /\ Ready /\ reading[r].at = "idle"
  /\ reading' = [reading EXCEPT ![r] = [at |-> "asking", previous |-> record, content |-> Missing]]
  /\ UNCHANGED <<durableVars, mode, pc, edits, crashes, historyVars>>

\* A provider answers, the first one before read() yields and the ones behind
\* it after that.  The read ends here when no provider has the document, or when
\* projectDocument is going to throw.
ProviderReads(r) ==
  /\ Ready /\ reading[r].at = "asking"
  /\ reading' = [reading EXCEPT ![r] =
       IF file = Missing \/ file \in Rejected
       THEN Idle ELSE [@ EXCEPT !.at = "answered", !.content = file]]
  /\ UNCHANGED <<durableVars, mode, pc, edits, crashes, historyVars>>

CommitRead(r) ==
  /\ Ready /\ reading[r].at = "answered"
  /\ CommitRecord(Projected(reading[r].previous, reading[r].content))
  /\ undone' = IF reading[r].previous = record THEN undone ELSE undone \union {record'.version}
  /\ reading' = [reading EXCEPT ![r] = Idle]
  /\ UNCHANGED <<file, journal, requestVars, announced, mode, pc, edits, crashes,
                 renames, thrown, replaced>>

(***************************************************************************)
(* Recovery, which the host may call for some rows before it serves: by    *)
(* recoverDocumentWrites, a row at a time and in three writes, or by       *)
(* recoverOrphanedExecutions of the pipeline, all rows at once.  A row     *)
(* whose content is rejected makes the first pass throw and stays.         *)
(***************************************************************************)
Recovering == mode = "booting" /\ ~Busy
Orphaned(e) == journal[e] \in {"proposed", "running"}

\* Mutation: the replay forgets the projection.
ReplayUnprojected(e) ==
  /\ Recovering /\ Orphaned(e) /\ file = wanted[e] /\ file \notin Rejected
  /\ Journal(e, "succeeded")
  /\ Move(e, "reporting")
  /\ UNCHANGED <<file, record, requestVars, announced, mode, reading, edits, crashes, historyVars>>

ReplayRecord(e) ==
  /\ Recovering /\ Orphaned(e) /\ file = wanted[e] /\ file \notin Rejected
  /\ CommitRecord(Projected(record, wanted[e]))
  /\ Move(e, "replaying")
  /\ UNCHANGED <<file, journal, requestVars, announced, mode, reading, edits, crashes,
                 renames, thrown, replaced, undone>>

ReplayRow(e) ==
  /\ pc[e] = "replaying"
  /\ Journal(e, "succeeded")
  /\ Move(e, "reporting")
  /\ UNCHANGED <<file, record, requestVars, announced, mode, reading, edits, crashes, historyVars>>

ReplayEvent(e) ==
  /\ pc[e] = "reporting"
  /\ announced' = [announced EXCEPT ![e] = @ + 1]
  /\ Move(e, "idle")
  /\ UNCHANGED <<file, record, journal, requestVars, mode, reading, edits, crashes, historyVars>>

\* The journal or the session throws, which ends the pass.
ReplayStops(e) ==
  /\ pc[e] \in Replaying
  /\ Move(e, "idle")
  /\ UNCHANGED <<durableVars, mode, reading, edits, crashes, historyVars>>

\* Mutation: a write that did not provably happen is reported as failed.
ReportFailed(e) ==
  /\ Recovering /\ Orphaned(e) /\ file # wanted[e]
  /\ Journal(e, "failed")
  /\ UNCHANGED <<file, record, requestVars, announced, mode, pc, reading, edits, crashes,
                 historyVars>>

RequireRecovery(e) ==
  /\ Recovering /\ Orphaned(e) /\ file # wanted[e]
  /\ Journal(e, "recovery-required")
  /\ UNCHANGED <<file, record, requestVars, announced, mode, pc, reading, edits, crashes,
                 historyVars>>

RecoverOrphanedExecutions ==
  /\ Recovering /\ \E e \in Executions : Orphaned(e)
  /\ journal' = [e \in Executions |-> IF Orphaned(e) THEN "recovery-required" ELSE journal[e]]
  /\ UNCHANGED <<file, record, requestVars, announced, mode, pc, reading, edits, crashes,
                 historyVars>>

Boot ==
  /\ Recovering
  /\ mode' = "up"
  /\ UNCHANGED <<durableVars, pc, reading, edits, crashes, historyVars>>

(***************************************************************************)
(* The world outside.                                                      *)
(***************************************************************************)
Crash ==
  /\ crashes < MaxCrashes
  /\ crashes' = crashes + 1
  /\ mode' = "booting"
  /\ pc' = [e \in Executions |-> "idle"]
  /\ reading' = [r \in Readers |-> Idle]
  /\ UNCHANGED <<durableVars, edits, historyVars>>

Edit ==
  /\ edits < MaxEdits
  /\ edits' = edits + 1
  /\ file' \in Files \ {file}
  /\ UNCHANGED <<record, journal, requestVars, announced, mode, pc, reading, crashes, historyVars>>

PipelineStep(e) ==
  Propose(e) \/ Suspend(e) \/ Start(e) \/ PersistOutcome(e) \/ PersistFails(e)
WriteStep(e) ==
  \/ Check(e) \/ WriteFails(e) \/ Rename(e)
  \/ Project(e) \/ ProjectFails(e) \/ AppendWritten(e) \/ AppendFails(e)
ReadStep(r) == BeginRead(r) \/ ProviderReads(r) \/ CommitRead(r)
RecoverStep(e) ==
  ReplayRecord(e) \/ ReplayRow(e) \/ ReplayEvent(e) \/ ReplayStops(e) \/ RequireRecovery(e)

Next ==
  \/ \E e \in Executions : PipelineStep(e) \/ WriteStep(e) \/ RecoverStep(e)
  \/ \E r \in Readers : ReadStep(r)
  \/ RecoverOrphanedExecutions \/ Boot \/ Crash \/ Edit

Spec == Init /\ [][Next]_vars

(***************************************************************************)
(* Properties.                                                             *)
(***************************************************************************)
Records == [version : Nat, content : Files]

\* One file side effect per execution: calls, crashes, failing databases and
\* recovery passes never replace the target a second time (the recovery pass
\* "never re-writes").  A write that replaced it or announced itself is journaled
\* as failed only by its own call, and only when something threw behind its
\* rename (the projection, the event or the journal); one that announced itself,
\* only when the journal refused its success.
WriteIsAccounted ==
  \A e \in Executions :
    /\ renames[e] <= 1
    /\ renames[e] > 0 \/ announced[e] > 0 =>
         \/ journal[e] \in {"running", "succeeded", "recovery-required"}
         \/ journal[e] = "failed" /\ thrown[e] # "nothing"
    /\ announced[e] > 0 /\ journal[e] = "failed" => thrown[e] = "journal"

\* A read that commits a stale projection takes the row back to some version.
\* Below it nothing is lost.
Intact(n) == \A v \in undone : n < v

\* Optimistic concurrency: of the writes that name one version only one
\* replaces it, whatever is approved, resumed, crashed or recovered in between,
\* unless a stale read has taken the row back that far.
OneWritePerVersion ==
  \A e, f \in replaced :
    e # f /\ Intact(expected[e]) => expected[e] # expected[f]

\* A version number stands for one content, which is what expectedVersion and
\* the index rely on, unless a stale read has taken the row back that far.
VersionNamesOneContent ==
  \A p, q \in published :
    p[1] = q[1] /\ Intact(p[1]) => p[2] = q[2]

\* When only the program touches a file it has read or written, the projection
\* lags it by a single write, and the row of that write is there to tell: an
\* orphan that recovery can replay, one the user has to look at, or a failure
\* whose projection threw.  No failure makes room for a second write to lag.
ProjectionLagsByOneWrite ==
  edits = 0 /\ undone = {} =>
    \/ file = record.content
    \/ record = NoRecord /\ \A e \in Executions : renames[e] = 0
    \/ \E e \in Executions :
         /\ wanted[e] = file /\ renames[e] > 0
         /\ \/ journal[e] \in {"running", "recovery-required"}
            \/ journal[e] = "failed" /\ thrown[e] = "projection"
=============================================================================
