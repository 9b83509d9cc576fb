---------------------------- MODULE Preparations ----------------------------
(***************************************************************************)
(* SessionPreparations of packages/harness/session-persistence, for one    *)
(* session id: cold reads that callers share, the exclusive reservation of *)
(* the session they built, and the ready entries kept for reuse.           *)
(*                                                                         *)
(* A pool p names the entry its map holds for the id and records every     *)
(* entry object somebody still refers to: callers go on comparing an entry *)
(* they hold with the current one after it was removed.  The operators are *)
(* the methods; each runs without an await.                                *)
(***************************************************************************)
EXTENDS Naturals, Sequences

CONSTANTS
  Callers,   \* who may wait for a reservation
  Entries    \* identities of entry objects, reused when nobody refers to them

ASSUME PreparationsAssumption == 0 \notin Entries

\* What a cold read built: the balanced events of its unpublished session and
\* the revision of the log it read.  Every change of the log appends to it, so
\* its length serves as revision.  Events beyond it are closers.
NoSource == [events |-> <<>>, revision |-> 0]

\* Mutation: the repair of an interrupted turn is not committed.
HasNoClosers(source) == FALSE

HasClosers(source) == Len(source.events) > source.revision

\* result is how entry.result settled; waiting are the callers that await
\* reservationSettled, empty again once that promise has settled.
Blank == [phase |-> "unused", source |-> NoSource, result |-> "pending", waiting |-> {}]

EmptyPool == [current |-> 0, entry |-> [e \in Entries |-> Blank]]

Known(p) == p.current # 0
PhaseOf(p) == IF Known(p) THEN p.entry[p.current].phase ELSE "unused"
SourceOf(p, e) == p.entry[e].source

\* entryFor, when no entry exists
Enter(p, e) ==
  [p EXCEPT !.current = e, !.entry[e] = [Blank EXCEPT !.phase = "loading"]]

\* Mutation: removing an entry forgets the callers that wait for it.
DropKeepsWaiters(p, e) ==
  IF p.current = e
  THEN [p EXCEPT !.current = 0, !.entry[e].phase = "unused"]
  ELSE p

\* remove; nobody reads the phase of an entry that is not current
Drop(p, e) ==
  IF p.current = e
  THEN [p EXCEPT !.current = 0, !.entry[e].waiting = {}, !.entry[e].phase = "unused"]
  ELSE p

\* makeReady
MakeReady(p, e) ==
  IF p.current = e
  THEN [p EXCEPT !.entry[e].phase = "ready", !.entry[e].waiting = {}]
  ELSE p

\* entryFor's continuations: the read settled
Loaded(p, e, source) ==
  MakeReady([p EXCEPT !.entry[e].source = source, !.entry[e].result = "loaded"], e)
LoadFailed(p, e) ==
  [Drop(p, e) EXCEPT !.entry[e].result = "failed"]

\* reserve: wait for the entry's holder, or become its holder
Await(p, e, c) == [p EXCEPT !.entry[e].waiting = @ \cup {c}]
BeginCommit(p, e) == [p EXCEPT !.entry[e].phase = "committing"]
Reserve(p, e) == [p EXCEPT !.entry[e].phase = "reserved"]

\* release
Release(p, e, reusable) ==
  IF p.current = e /\ p.entry[e].phase = "reserved"
  THEN IF reusable THEN MakeReady(p, e) ELSE Drop(p, e)
  ELSE p

\* invalidate
Invalidate(p) == IF Known(p) THEN Drop(p, p.current) ELSE p

\* discardReady: whether an exclusive holder keeps the stale entry
Retained(p, e) == p.current = e /\ p.entry[e].phase # "ready"
DiscardReady(p, e) == IF Retained(p, e) THEN p ELSE Drop(p, e)

\* Mutation: an append does not ask who holds the id.
AlwaysWritable(p) == TRUE

\* assertWritable
Writable(p) == PhaseOf(p) \notin {"committing", "reserved"}

\* touch, on behalf of another id: its LRU may drop this id's ready entry
Evict(p) == Drop(p, p.current)

=============================================================================
