------------------------ MODULE DocumentWriteProofs -------------------------
(***************************************************************************)
(* Proofs about DocumentWrite, for any executions, contents, readers and   *)
(* number of edits and crashes.                                            *)
(***************************************************************************)
EXTENDS DocumentWrite, TLAPS

(***************************************************************************)
(* The strengthening.                                                      *)
(***************************************************************************)
Reading == [at : {"idle", "asking", "answered"}, previous : Records, content : Files]

TypeOK ==
  /\ file \in Files /\ record \in Records
  /\ journal \in [Executions -> RowStates]
  /\ wanted \in [Executions -> Files]
  /\ expected \in [Executions -> Nat]
  /\ announced \in [Executions -> Nat]
  /\ mode \in {"booting", "up"}
  /\ pc \in [Executions -> Stages]
  /\ reading \in [Readers -> Reading]
  /\ edits \in Nat
  /\ renames \in [Executions -> Nat]
  /\ thrown \in [Executions -> Throws] /\ replaced \subseteq Executions
  /\ published \subseteq Nat \X Files
  /\ undone \subseteq Nat

Inside == Writing \union Replaying
Alone == \A e, f \in Executions : pc[e] \in Inside /\ pc[f] \in Inside => e = f

\* Where an execution is, its row and the process agree.
Placed(e) ==
  /\ pc[e] = "policy" => journal[e] = "proposed"
  /\ pc[e] \in Writing \union {"returned", "threw"} => journal[e] = "running"
  /\ pc[e] = "replaying" => journal[e] \in {"proposed", "running"}
  /\ pc[e] = "reporting" => journal[e] = "succeeded"
  /\ pc[e] \in Replaying => mode = "booting"
  /\ pc[e] \notin Replaying \union {"idle"} => mode = "up"
  /\ journal[e] = "absent" => e \notin replaced
  /\ journal[e] # "absent" => wanted[e] \in Contents

\* What it has done is what its place allows.
Accounted(e) ==
  /\ renames[e] <= 1
  /\ journal[e] \in {"absent", "proposed", "awaiting-approval"} => renames[e] = 0 /\ announced[e] = 0
  /\ pc[e] \in {"checking", "checked"} => renames[e] = 0
  /\ pc[e] \in {"renamed", "projected", "returned"} => renames[e] = 1
  /\ pc[e] \in Writing => announced[e] = 0
  /\ pc[e] = "threw" /\ renames[e] > 0 => thrown[e] # "nothing"
  /\ pc[e] = "threw" /\ announced[e] > 0 => renames[e] = 1 /\ thrown[e] = "journal"
  /\ renames[e] > 0 \/ announced[e] > 0 =>
       \/ journal[e] \in {"running", "succeeded", "recovery-required"}
       \/ journal[e] = "failed" /\ thrown[e] # "nothing"
  /\ announced[e] > 0 /\ journal[e] = "failed" => thrown[e] = "journal"

\* Below what a stale read took back, the version only grows: those who named
\* one or published one are at it or behind it.
Versioned ==
  /\ \A e \in replaced : Intact(expected[e]) => expected[e] < record.version
  /\ \A e, f \in replaced : e # f /\ Intact(expected[e]) => expected[e] # expected[f]
  /\ \A n \in Nat, c \in Files :
       <<n, c>> \in published /\ Intact(n) =>
         n < record.version \/ (n = record.version /\ c = record.content)
  /\ \A n \in Nat, c, d \in Files :
       <<n, c>> \in published /\ <<n, d>> \in published /\ Intact(n) => c = d

\* Without stale reads, what a read holds is the record or behind it.
Preceded(r) ==
  reading[r].at # "idle" =>
    reading[r].previous = record \/ reading[r].previous.version < record.version

\* Nothing comes between the check of a version and its replacement.
Checked(e) == pc[e] \in {"checked", "renamed"} => record.version = expected[e]

\* Only what projectDocument takes is projected or answered.
Accepted ==
  /\ record.content \notin Rejected
  /\ \A r \in Readers : reading[r].at = "answered" => reading[r].content \in Contents \ Rejected

\* What the file holds while a write or a replay is under way.
Held(e) ==
  /\ pc[e] = "checked" => file \in {Missing, record.content}
  /\ pc[e] = "renamed" => file = wanted[e]
  /\ pc[e] \in {"projected", "replaying"} => file = record.content

\* An execution that replaced the file and is to be projected yet.
Owing(e) ==
  /\ wanted[e] = file /\ renames[e] > 0
  /\ \/ journal[e] = "running" /\ pc[e] \in {"renamed", "idle"}
     \/ journal[e] = "running" /\ pc[e] = "threw" /\ thrown[e] = "projection"
     \/ journal[e] = "recovery-required"
     \/ journal[e] = "failed" /\ thrown[e] = "projection"

Lagging ==
  \/ file = record.content
  \/ record = NoRecord /\ \A e \in Executions : renames[e] = 0
  \/ \E e \in Executions : Owing(e)

\* A read that would commit over the record it saw has seen the file as it is,
\* or as the record says it is.
Current(r) ==
  reading[r].at = "answered" /\ reading[r].previous = record =>
    reading[r].content \in {file, record.content}

IInv ==
  /\ TypeOK /\ Alone /\ Accepted
  /\ \A e \in Executions : Placed(e) /\ Accounted(e) /\ Checked(e)
  /\ Versioned
  /\ edits = 0 => \A e \in Executions : Held(e)
  /\ undone = {} => \A r \in Readers : Preceded(r)
  /\ edits = 0 /\ undone = {} => Lagging /\ \A r \in Readers : Current(r)

(***************************************************************************)
(* The projection.                                                         *)
(***************************************************************************)
\* A row follows the content and moves to a new version exactly with it.
LEMMA Follows ==
  ASSUME NEW p \in Records, NEW c \in Files
  PROVE  /\ Projected(p, c) \in Records /\ Projected(p, c).content = c
         /\ Projected(p, c) = p \/ Projected(p, c).version = p.version + 1
         /\ Projected(p, c) = p <=> p.content = c
  BY DEF Projected, Records, Files

\* Committing a row that follows the one there is keeps what the versions mean.
LEMMA Commits ==
  ASSUME TypeOK, Versioned, NEW c \in Files, CommitRecord(Projected(record, c)),
         expected' = expected, undone' = undone, replaced' \subseteq Executions,
         \A e \in replaced' : e \in replaced \/ (expected[e] = record.version /\ record.content # c),
         \A e, f \in replaced' : e \in replaced \/ f \in replaced \/ e = f
  PROVE  Versioned'
<1> DEFINE next == Projected(record, c)
<1>1. /\ record \in Records /\ next \in Records /\ record' = next /\ next.content = c
      /\ next = record \/ next.version = record.version + 1
      /\ next = record <=> record.content = c
  BY Follows DEF CommitRecord, TypeOK
<1> HIDE DEF next
<1>2. /\ record.version \in Nat /\ next.version \in Nat
      /\ record.version <= next.version
      /\ next # record => record.version < next.version
      /\ expected \in [Executions -> Nat] /\ replaced \subseteq Executions
  BY <1>1 DEF Records, TypeOK
<1>0. \A n \in Nat : Intact(n)' <=> Intact(n)
  BY DEF Intact
<1>3. ASSUME NEW e \in replaced', Intact(expected[e])'
      PROVE  expected'[e] < record'.version
  BY <1>0, <1>1, <1>2, <1>3 DEF Versioned
<1>4. ASSUME NEW e \in replaced', NEW f \in replaced', e # f, Intact(expected[e])'
      PROVE  expected'[e] # expected'[f]
  <2>1. Intact(expected[e])
    BY <1>0, <1>2, <1>4
  <2>2. CASE e \in replaced /\ f \in replaced
    BY <2>1, <2>2, <1>4 DEF Versioned
  <2>3. CASE e \in replaced /\ f \notin replaced
    BY <2>1, <2>3, <1>2, <1>4 DEF Versioned
  <2>4. CASE e \notin replaced /\ f \in replaced
    <3>1. expected[e] = record.version
      BY <2>4
    <3>2. SUFFICES ASSUME expected[f] = expected[e] PROVE FALSE
      OBVIOUS
    <3>3. Intact(expected[f])
      BY <2>1, <3>2
    <3> QED
      BY <2>4, <3>1, <3>2, <3>3, <1>2 DEF Versioned
  <2> QED
    BY <2>2, <2>3, <2>4, <1>4
<1>5. ASSUME NEW n \in Nat, NEW d \in Files, <<n, d>> \in published', Intact(n)'
      PROVE  n < record'.version \/ (n = record'.version /\ d = record'.content)
  <2>1. CASE <<n, d>> \in published
    BY <2>1, <1>0, <1>1, <1>2, <1>5 DEF Versioned
  <2>2. CASE n = next.version /\ d = next.content
    BY <2>2, <1>1
  <2> QED
    BY <1>5, <2>1, <2>2 DEF CommitRecord, next
<1>6. ASSUME NEW n \in Nat, NEW d \in Files, NEW k \in Files,
             <<n, d>> \in published', <<n, k>> \in published', Intact(n)'
      PROVE  d = k
  <2>1. CASE <<n, d>> \in published /\ <<n, k>> \in published
    BY <2>1, <1>0, <1>6 DEF Versioned
  <2>2. CASE <<n, d>> \notin published \/ <<n, k>> \notin published
    <3>1. n = next.version
      BY <1>6, <2>2 DEF CommitRecord, next
    <3> QED
      BY <1>1, <1>2, <1>5, <1>6, <3>1
  <2> QED
    BY <2>1, <2>2
<1> QED
  BY <1>3, <1>4, <1>5, <1>6 DEF Versioned

\* A stale row speaks for the versions below it.
LEMMA Undoes ==
  ASSUME TypeOK, Versioned, NEW next \in Records, CommitRecord(next),
         undone' = undone \union {next.version}, UNCHANGED <<expected, replaced>>
  PROVE  Versioned'
<1>1. record' = next /\ next.version \in Nat
  BY DEF CommitRecord, Records
<1>2. ASSUME NEW n \in Nat, Intact(n)' PROVE Intact(n) /\ n < next.version
  BY <1>2 DEF Intact
<1>3. /\ expected \in [Executions -> Nat] /\ replaced \subseteq Executions
  BY DEF TypeOK
<1>4. ASSUME NEW n \in Nat, NEW d \in Files, <<n, d>> \in published', Intact(n)'
      PROVE  n < next.version /\ <<n, d>> \in published
  BY <1>1, <1>2, <1>4 DEF CommitRecord
<1>5. \A e \in replaced' : Intact(expected[e])' => expected'[e] < record'.version
  BY <1>1, <1>2, <1>3
<1>6. \A e, f \in replaced' : e # f /\ Intact(expected[e])' => expected'[e] # expected'[f]
  BY <1>2, <1>3 DEF Versioned
<1>7. \A n \in Nat, c \in Files :
        <<n, c>> \in published' /\ Intact(n)' =>
          n < record'.version \/ (n = record'.version /\ c = record'.content)
  BY <1>1, <1>4
<1>8. \A n \in Nat, c, d \in Files :
        <<n, c>> \in published' /\ <<n, d>> \in published' /\ Intact(n)' => c = d
  BY <1>2, <1>4 DEF Versioned
<1> QED
  BY <1>5, <1>6, <1>7, <1>8 DEF Versioned

\* The readers stay behind a row that follows.
LEMMA Precedes ==
  ASSUME TypeOK, NEW c \in Files, CommitRecord(Projected(record, c)),
         NEW r \in Readers, Preceded(r), reading'[r].at # "idle" => reading'[r] = reading[r]
  PROVE  Preceded(r)'
<1> DEFINE next == Projected(record, c)
<1>1. /\ record \in Records /\ next \in Records /\ record' = next
      /\ next = record \/ next.version = record.version + 1
  BY Follows DEF CommitRecord, TypeOK
<1> HIDE DEF next
<1>2. reading[r].previous \in Records
  BY DEF TypeOK, Reading
<1> QED
  BY <1>1, <1>2 DEF Preceded, Records

LEMMA ProposeKeeps ==
  ASSUME IInv, NEW e \in Executions, Propose(e) PROVE IInv'
<1>1. TypeOK'
  BY DocumentWriteAssumption DEF IInv, TypeOK, Reading, Records, Files, NoRecord,
         Idle, RowStates, Stages, Throws, Inside, Writing, Replaying, Propose, Ready, Busy,
         Move, Journal, historyVars
<1>2. Alone'
  BY DEF IInv, TypeOK, Alone, Inside, Writing, Replaying, Propose, Ready, Busy, Move,
         Journal, historyVars
<1>3. Accepted'
  BY DEF IInv, TypeOK, Accepted, Reading, Records, Files, Idle, Propose, Ready, Busy,
         Move, Journal, historyVars
<1>4. ASSUME NEW f \in Executions PROVE Placed(f)'
  BY DEF IInv, TypeOK, Placed, Inside, Writing, Replaying, Propose, Ready, Busy, Move,
         Journal, historyVars
<1>5. ASSUME NEW f \in Executions PROVE Accounted(f)'
  BY DEF IInv, TypeOK, Placed, Accounted, Inside, Writing, Replaying, Propose, Ready,
         Busy, Move, Journal, historyVars
<1>6. ASSUME NEW f \in Executions PROVE Checked(f)'
  BY DEF IInv, TypeOK, Alone, Checked, Inside, Writing, Replaying, Propose, Ready,
         Busy, Move, Journal, historyVars
<1>7. Versioned'
  BY DEF IInv, TypeOK, Versioned, Intact, Placed, Records, Files, NoRecord, Idle,
         Propose, Ready, Busy, Move, Journal, historyVars
<1>8. ASSUME edits' = 0, NEW f \in Executions PROVE Held(f)'
  BY <1>8 DEF IInv, TypeOK, Alone, Held, Inside, Writing, Replaying, Propose, Ready,
         Busy, Move, Journal, historyVars
<1>9. ASSUME edits' = 0, undone' = {} PROVE Lagging'
  BY <1>9 DEF IInv, TypeOK, Lagging, Owing, Placed, Held, Inside, Writing, Replaying,
         Propose, Ready, Busy, Move, Journal, historyVars
<1>10. ASSUME edits' = 0, undone' = {}, NEW s \in Readers PROVE Current(s)'
  BY <1>10 DEF IInv, TypeOK, Current, Accepted, Held, Alone, Idle, Inside, Writing,
         Replaying, Propose, Ready, Busy, Move, Journal, historyVars
<1>11. ASSUME undone' = {}, NEW s \in Readers PROVE Preceded(s)'
  BY <1>11 DEF IInv, TypeOK, Preceded, Records, Files, NoRecord, Idle,
         Propose, Ready, Busy, Move, Journal, historyVars
<1> QED
  BY <1>1, <1>2, <1>3, <1>4, <1>5, <1>6, <1>7, <1>8, <1>9, <1>10,
     <1>11 DEF IInv

LEMMA SuspendKeeps ==
  ASSUME IInv, NEW e \in Executions, Suspend(e) PROVE IInv'
<1>1. TypeOK'
  BY DocumentWriteAssumption DEF IInv, TypeOK, Reading, Records, Files, NoRecord,
         Idle, RowStates, Stages, Throws, Inside, Writing, Replaying, Suspend, Ready, Busy,
         Move, Journal, requestVars, historyVars
<1>2. Alone'
  BY DEF IInv, TypeOK, Alone, Inside, Writing, Replaying, Suspend, Ready, Busy, Move,
         Journal, requestVars, historyVars
<1>3. Accepted'
  BY DEF IInv, TypeOK, Accepted, Reading, Records, Files, Idle, Suspend, Ready, Busy,
         Move, Journal, requestVars, historyVars
<1>4. ASSUME NEW f \in Executions PROVE Placed(f)'
  BY DEF IInv, TypeOK, Placed, Inside, Writing, Replaying, Suspend, Ready, Busy, Move,
         Journal, requestVars, historyVars
<1>5. ASSUME NEW f \in Executions PROVE Accounted(f)'
  BY DEF IInv, TypeOK, Placed, Accounted, Inside, Writing, Replaying, Suspend, Ready,
         Busy, Move, Journal, requestVars, historyVars
<1>6. ASSUME NEW f \in Executions PROVE Checked(f)'
  BY DEF IInv, TypeOK, Alone, Checked, Inside, Writing, Replaying, Suspend, Ready,
         Busy, Move, Journal, requestVars, historyVars
<1>7. Versioned'
  BY DEF IInv, TypeOK, Versioned, Intact, Placed, Records, Files, NoRecord, Idle,
         Suspend, Ready, Busy, Move, Journal, requestVars, historyVars
<1>8. ASSUME edits' = 0, NEW f \in Executions PROVE Held(f)'
  BY <1>8 DEF IInv, TypeOK, Alone, Held, Inside, Writing, Replaying, Suspend, Ready,
         Busy, Move, Journal, requestVars, historyVars
<1>9. ASSUME edits' = 0, undone' = {} PROVE Lagging'
  BY <1>9 DEF IInv, TypeOK, Lagging, Owing, Placed, Held, Inside, Writing, Replaying,
         Suspend, Ready, Busy, Move, Journal, requestVars, historyVars
<1>10. ASSUME edits' = 0, undone' = {}, NEW s \in Readers PROVE Current(s)'
  BY <1>10 DEF IInv, TypeOK, Current, Accepted, Held, Alone, Idle, Inside, Writing,
         Replaying, Suspend, Ready, Busy, Move, Journal, requestVars, historyVars
<1>11. ASSUME undone' = {}, NEW s \in Readers PROVE Preceded(s)'
  BY <1>11 DEF IInv, TypeOK, Preceded, Records, Files, NoRecord, Idle,
         Suspend, Ready, Busy, Move, Journal, requestVars, historyVars
<1> QED
  BY <1>1, <1>2, <1>3, <1>4, <1>5, <1>6, <1>7, <1>8, <1>9, <1>10,
     <1>11 DEF IInv

LEMMA StartKeeps ==
  ASSUME IInv, NEW e \in Executions, Start(e) PROVE IInv'
<1>1. TypeOK'
  BY DocumentWriteAssumption DEF IInv, TypeOK, Reading, Records, Files, NoRecord,
         Idle, RowStates, Stages, Throws, Inside, Writing, Replaying, Start, Ready, Busy,
         Move, Journal, requestVars, historyVars
<1>2. Alone'
  BY DEF IInv, TypeOK, Alone, Inside, Writing, Replaying, Start, Ready, Busy, Move,
         Journal, requestVars, historyVars
<1>3. Accepted'
  BY DEF IInv, TypeOK, Accepted, Reading, Records, Files, Idle, Start, Ready, Busy,
         Move, Journal, requestVars, historyVars
<1>4. ASSUME NEW f \in Executions PROVE Placed(f)'
  BY DEF IInv, TypeOK, Placed, Inside, Writing, Replaying, Start, Ready, Busy, Move,
         Journal, requestVars, historyVars
<1>5. ASSUME NEW f \in Executions PROVE Accounted(f)'
  BY DEF IInv, TypeOK, Placed, Accounted, Inside, Writing, Replaying, Start, Ready,
         Busy, Move, Journal, requestVars, historyVars
<1>6. ASSUME NEW f \in Executions PROVE Checked(f)'
  BY DEF IInv, TypeOK, Alone, Checked, Inside, Writing, Replaying, Start, Ready, Busy,
         Move, Journal, requestVars, historyVars
<1>7. Versioned'
  BY DEF IInv, TypeOK, Versioned, Intact, Placed, Records, Files, NoRecord, Idle, Start,
         Ready, Busy, Move, Journal, requestVars, historyVars
<1>8. ASSUME edits' = 0, NEW f \in Executions PROVE Held(f)'
  BY <1>8 DEF IInv, TypeOK, Alone, Held, Inside, Writing, Replaying, Start, Ready,
         Busy, Move, Journal, requestVars, historyVars
<1>9. ASSUME edits' = 0, undone' = {} PROVE Lagging'
  BY <1>9 DEF IInv, TypeOK, Lagging, Owing, Placed, Held, Inside, Writing, Replaying,
         Start, Ready, Busy, Move, Journal, requestVars, historyVars
<1>10. ASSUME edits' = 0, undone' = {}, NEW s \in Readers PROVE Current(s)'
  BY <1>10 DEF IInv, TypeOK, Current, Accepted, Held, Alone, Idle, Inside, Writing,
         Replaying, Start, Ready, Busy, Move, Journal, requestVars, historyVars
<1>11. ASSUME undone' = {}, NEW s \in Readers PROVE Preceded(s)'
  BY <1>11 DEF IInv, TypeOK, Preceded, Records, Files, NoRecord, Idle, Start,
         Ready, Busy, Move, Journal, requestVars, historyVars
<1> QED
  BY <1>1, <1>2, <1>3, <1>4, <1>5, <1>6, <1>7, <1>8, <1>9, <1>10,
     <1>11 DEF IInv

LEMMA PersistOutcomeKeeps ==
  ASSUME IInv, NEW e \in Executions, PersistOutcome(e) PROVE IInv'
<1>1. TypeOK'
  BY DocumentWriteAssumption DEF IInv, TypeOK, Reading, Records, Files, NoRecord,
         Idle, RowStates, Stages, Throws, Inside, Writing, Replaying, PersistOutcome, Ready,
         Busy, Move, Journal, requestVars, historyVars
<1>2. Alone'
  BY DEF IInv, TypeOK, Alone, Inside, Writing, Replaying, PersistOutcome, Ready, Busy,
         Move, Journal, requestVars, historyVars
<1>3. Accepted'
  BY DEF IInv, TypeOK, Accepted, Reading, Records, Files, Idle, PersistOutcome, Ready,
         Busy, Move, Journal, requestVars, historyVars
<1>4. ASSUME NEW f \in Executions PROVE Placed(f)'
  BY DEF IInv, TypeOK, Placed, Inside, Writing, Replaying, PersistOutcome, Ready,
         Busy, Move, Journal, requestVars, historyVars
<1>5. ASSUME NEW f \in Executions PROVE Accounted(f)'
  BY DEF IInv, TypeOK, Placed, Accounted, Inside, Writing, Replaying, PersistOutcome,
         Ready, Busy, Move, Journal, requestVars, historyVars
<1>6. ASSUME NEW f \in Executions PROVE Checked(f)'
  BY DEF IInv, TypeOK, Alone, Checked, Inside, Writing, Replaying, PersistOutcome,
         Ready, Busy, Move, Journal, requestVars, historyVars
<1>7. Versioned'
  BY DEF IInv, TypeOK, Versioned, Intact, Placed, Records, Files, NoRecord, Idle,
         PersistOutcome, Ready, Busy, Move, Journal, requestVars, historyVars
<1>8. ASSUME edits' = 0, NEW f \in Executions PROVE Held(f)'
  BY <1>8 DEF IInv, TypeOK, Alone, Held, Inside, Writing, Replaying, PersistOutcome,
         Ready, Busy, Move, Journal, requestVars, historyVars
<1>9. ASSUME edits' = 0, undone' = {} PROVE Lagging'
  BY <1>9 DEF IInv, TypeOK, Lagging, Owing, Placed, Held, Inside, Writing, Replaying,
         PersistOutcome, Ready, Busy, Move, Journal, requestVars, historyVars
<1>10. ASSUME edits' = 0, undone' = {}, NEW s \in Readers PROVE Current(s)'
  BY <1>10 DEF IInv, TypeOK, Current, Accepted, Held, Alone, Idle, Inside, Writing,
         Replaying, PersistOutcome, Ready, Busy, Move, Journal, requestVars,
         historyVars
<1>11. ASSUME undone' = {}, NEW s \in Readers PROVE Preceded(s)'
  BY <1>11 DEF IInv, TypeOK, Preceded, Records, Files, NoRecord, Idle,
         PersistOutcome, Ready, Busy, Move, Journal, requestVars, historyVars
<1> QED
  BY <1>1, <1>2, <1>3, <1>4, <1>5, <1>6, <1>7, <1>8, <1>9, <1>10,
     <1>11 DEF IInv

LEMMA PersistFailsKeeps ==
  ASSUME IInv, NEW e \in Executions, PersistFails(e) PROVE IInv'
<1>1. TypeOK'
  BY DocumentWriteAssumption DEF IInv, TypeOK, Reading, Records, Files, NoRecord,
         Idle, RowStates, Stages, Throws, Inside, Writing, Replaying, PersistFails,
         Ready, Busy, Move, Throw, durableVars, requestVars, historyVars
<1>2. Alone'
  BY DEF IInv, TypeOK, Alone, Inside, Writing, Replaying, PersistFails, Ready, Busy,
         Move, Throw, durableVars, requestVars, historyVars
<1>3. Accepted'
  BY DEF IInv, TypeOK, Accepted, Reading, Records, Files, Idle, PersistFails, Ready,
         Busy, Move, Throw, durableVars, requestVars, historyVars
<1>4. ASSUME NEW f \in Executions PROVE Placed(f)'
  BY DEF IInv, TypeOK, Placed, Inside, Writing, Replaying, PersistFails, Ready,
         Busy, Move, Throw, durableVars, requestVars, historyVars
<1>5. ASSUME NEW f \in Executions PROVE Accounted(f)'
  BY DEF IInv, TypeOK, Placed, Accounted, Inside, Writing, Replaying, PersistFails,
         Ready, Busy, Move, Throw, durableVars, requestVars, historyVars
<1>6. ASSUME NEW f \in Executions PROVE Checked(f)'
  BY DEF IInv, TypeOK, Alone, Checked, Inside, Writing, Replaying, PersistFails,
         Ready, Busy, Move, Throw, durableVars, requestVars, historyVars
<1>7. Versioned'
  BY DEF IInv, TypeOK, Versioned, Intact, Placed, Records, Files, NoRecord, Idle,
         PersistFails, Ready, Busy, Move, Throw, durableVars, requestVars, historyVars
<1>8. ASSUME edits' = 0, NEW f \in Executions PROVE Held(f)'
  BY <1>8 DEF IInv, TypeOK, Alone, Held, Inside, Writing, Replaying, PersistFails,
         Ready, Busy, Move, Throw, durableVars, requestVars, historyVars
<1>9. ASSUME edits' = 0, undone' = {} PROVE Lagging'
  BY <1>9 DEF IInv, TypeOK, Lagging, Owing, Placed, Held, Inside, Writing, Replaying,
         PersistFails, Ready, Busy, Move, Throw, durableVars, requestVars, historyVars
<1>10. ASSUME edits' = 0, undone' = {}, NEW s \in Readers PROVE Current(s)'
  BY <1>10 DEF IInv, TypeOK, Current, Accepted, Held, Alone, Idle, Inside, Writing,
         Replaying, PersistFails, Ready, Busy, Move, Throw, durableVars,
         requestVars, historyVars
<1>11. ASSUME undone' = {}, NEW s \in Readers PROVE Preceded(s)'
  BY <1>11 DEF IInv, TypeOK, Preceded, Records, Files, NoRecord, Idle,
         PersistFails, Ready, Busy, Move, Throw, durableVars, requestVars, historyVars
<1> QED
  BY <1>1, <1>2, <1>3, <1>4, <1>5, <1>6, <1>7, <1>8, <1>9, <1>10,
     <1>11 DEF IInv

LEMMA CheckKeeps ==
  ASSUME IInv, NEW e \in Executions, Check(e) PROVE IInv'
<1>1. TypeOK'
  BY DocumentWriteAssumption DEF IInv, TypeOK, Reading, Records, Files, NoRecord,
         Idle, RowStates, Stages, Throws, Inside, Writing, Replaying, Check, Move,
         Conflicts, Drifted, durableVars, requestVars, historyVars
<1>2. Alone'
  BY DEF IInv, TypeOK, Alone, Inside, Writing, Replaying, Check, Move, Conflicts,
         Drifted, durableVars, requestVars, historyVars
<1>3. Accepted'
  BY DEF IInv, TypeOK, Accepted, Reading, Records, Files, Idle, Check, Move,
         Conflicts, Drifted, durableVars, requestVars, historyVars
<1>4. ASSUME NEW f \in Executions PROVE Placed(f)'
  BY DEF IInv, TypeOK, Placed, Inside, Writing, Replaying, Check, Move, Conflicts,
         Drifted, durableVars, requestVars, historyVars
<1>5. ASSUME NEW f \in Executions PROVE Accounted(f)'
  BY DEF IInv, TypeOK, Placed, Accounted, Inside, Writing, Replaying, Check, Move,
         Conflicts, Drifted, durableVars, requestVars, historyVars
<1>6. ASSUME NEW f \in Executions PROVE Checked(f)'
  BY DEF IInv, TypeOK, Alone, Checked, Inside, Writing, Replaying, Check, Move,
         Conflicts, Drifted, durableVars, requestVars, historyVars
<1>7. Versioned'
  BY DEF IInv, TypeOK, Versioned, Intact, Placed, Records, Files, NoRecord, Idle, Check,
         Move, Conflicts, Drifted, durableVars, requestVars, historyVars
<1>8. ASSUME edits' = 0, NEW f \in Executions PROVE Held(f)'
  BY <1>8 DEF IInv, TypeOK, Alone, Held, Inside, Writing, Replaying, Check, Move,
         Conflicts, Drifted, durableVars, requestVars, historyVars
<1>9. ASSUME edits' = 0, undone' = {} PROVE Lagging'
  BY <1>9 DEF IInv, TypeOK, Lagging, Owing, Placed, Held, Inside, Writing, Replaying,
         Check, Move, Conflicts, Drifted, durableVars, requestVars, historyVars
<1>10. ASSUME edits' = 0, undone' = {}, NEW s \in Readers PROVE Current(s)'
  BY <1>10 DEF IInv, TypeOK, Current, Accepted, Held, Alone, Idle, Inside, Writing,
         Replaying, Check, Move, Conflicts, Drifted, durableVars, requestVars,
         historyVars
<1>11. ASSUME undone' = {}, NEW s \in Readers PROVE Preceded(s)'
  BY <1>11 DEF IInv, TypeOK, Preceded, Records, Files, NoRecord, Idle, Check,
         Move, Conflicts, Drifted, durableVars, requestVars, historyVars
<1> QED
  BY <1>1, <1>2, <1>3, <1>4, <1>5, <1>6, <1>7, <1>8, <1>9, <1>10,
     <1>11 DEF IInv

LEMMA WriteFailsKeeps ==
  ASSUME IInv, NEW e \in Executions, WriteFails(e) PROVE IInv'
<1>1. TypeOK'
  BY DocumentWriteAssumption DEF IInv, TypeOK, Reading, Records, Files, NoRecord,
         Idle, RowStates, Stages, Throws, Inside, Writing, Replaying, WriteFails, Move,
         durableVars, requestVars, historyVars
<1>2. Alone'
  BY DEF IInv, TypeOK, Alone, Inside, Writing, Replaying, WriteFails, Move,
         durableVars, requestVars, historyVars
<1>3. Accepted'
  BY DEF IInv, TypeOK, Accepted, Reading, Records, Files, Idle, WriteFails, Move,
         durableVars, requestVars, historyVars
<1>4. ASSUME NEW f \in Executions PROVE Placed(f)'
  BY DEF IInv, TypeOK, Placed, Inside, Writing, Replaying, WriteFails, Move,
         durableVars, requestVars, historyVars
<1>5. ASSUME NEW f \in Executions PROVE Accounted(f)'
  BY DEF IInv, TypeOK, Placed, Accounted, Inside, Writing, Replaying, WriteFails,
         Move, durableVars, requestVars, historyVars
<1>6. ASSUME NEW f \in Executions PROVE Checked(f)'
  BY DEF IInv, TypeOK, Alone, Checked, Inside, Writing, Replaying, WriteFails, Move,
         durableVars, requestVars, historyVars
<1>7. Versioned'
  BY DEF IInv, TypeOK, Versioned, Intact, Placed, Records, Files, NoRecord, Idle,
         WriteFails, Move, durableVars, requestVars, historyVars
<1>8. ASSUME edits' = 0, NEW f \in Executions PROVE Held(f)'
  BY <1>8 DEF IInv, TypeOK, Alone, Held, Inside, Writing, Replaying, WriteFails, Move,
         durableVars, requestVars, historyVars
<1>9. ASSUME edits' = 0, undone' = {} PROVE Lagging'
  BY <1>9 DEF IInv, TypeOK, Lagging, Owing, Placed, Held, Inside, Writing, Replaying,
         WriteFails, Move, durableVars, requestVars, historyVars
<1>10. ASSUME edits' = 0, undone' = {}, NEW s \in Readers PROVE Current(s)'
  BY <1>10 DEF IInv, TypeOK, Current, Accepted, Held, Alone, Idle, Inside, Writing,
         Replaying, WriteFails, Move, durableVars, requestVars, historyVars
<1>11. ASSUME undone' = {}, NEW s \in Readers PROVE Preceded(s)'
  BY <1>11 DEF IInv, TypeOK, Preceded, Records, Files, NoRecord, Idle,
         WriteFails, Move, durableVars, requestVars, historyVars
<1> QED
  BY <1>1, <1>2, <1>3, <1>4, <1>5, <1>6, <1>7, <1>8, <1>9, <1>10,
     <1>11 DEF IInv

LEMMA RenameKeeps ==
  ASSUME IInv, NEW e \in Executions, Rename(e) PROVE IInv'
<1>1. TypeOK'
  BY DocumentWriteAssumption DEF IInv, TypeOK, Reading, Records, Files, NoRecord,
         Idle, RowStates, Stages, Throws, Inside, Writing, Replaying, Rename, Move,
         requestVars
<1>2. Alone'
  BY DEF IInv, TypeOK, Alone, Inside, Writing, Replaying, Rename, Move, requestVars
<1>3. Accepted'
  BY DEF IInv, TypeOK, Accepted, Reading, Records, Files, Idle, Rename, Move,
         requestVars
<1>4. ASSUME NEW f \in Executions PROVE Placed(f)'
  BY DEF IInv, TypeOK, Placed, Inside, Writing, Replaying, Rename, Move, requestVars
<1>5. ASSUME NEW f \in Executions PROVE Accounted(f)'
  BY DEF IInv, TypeOK, Placed, Accounted, Inside, Writing, Replaying, Rename, Move,
         requestVars
<1>6. ASSUME NEW f \in Executions PROVE Checked(f)'
  BY DEF IInv, TypeOK, Alone, Checked, Inside, Writing, Replaying, Rename, Move,
         requestVars
<1>7. Versioned'
  BY DEF IInv, TypeOK, Versioned, Intact, Placed, Records, Files, NoRecord, Idle, Rename,
         Move, requestVars
<1>8. ASSUME edits' = 0, NEW f \in Executions PROVE Held(f)'
  BY <1>8 DEF IInv, TypeOK, Alone, Held, Inside, Writing, Replaying, Rename, Move,
         requestVars
<1>9. ASSUME edits' = 0, undone' = {} PROVE Lagging'
  BY <1>9 DEF IInv, TypeOK, Lagging, Owing, Placed, Held, Inside, Writing, Replaying,
         Rename, Move, requestVars
<1>10. ASSUME edits' = 0, undone' = {}, NEW s \in Readers PROVE Current(s)'
  <2>1. /\ record' = record /\ reading' = reading /\ file' = wanted[e] /\ edits = 0 /\
         undone = {}
        /\ pc'[e] = "renamed" /\ wanted' = wanted /\ pc[e] = "checked"
    BY <1>10 DEF Rename, Move, requestVars, IInv, TypeOK
  <2>2. file \in {Missing, record.content} /\ record.content \notin Rejected /\
         Missing \notin Rejected
    BY <2>1, DocumentWriteAssumption DEF IInv, Held, Accepted
  <2>3. ~\E f \in Executions : pc[f] = "renamed"
    BY <2>1 DEF IInv, Alone, Inside, Writing
  <2>4. reading[s].at = "answered" => reading[s].content # Missing
    BY DocumentWriteAssumption DEF IInv, Accepted
  <2> QED
    BY <2>1, <2>2, <2>3, <2>4, <1>10 DEF IInv, Current
<1>11. ASSUME undone' = {}, NEW s \in Readers PROVE Preceded(s)'
  BY <1>11 DEF IInv, TypeOK, Preceded, Records, Files, NoRecord, Idle, Rename,
         Move, requestVars
<1> QED
  BY <1>1, <1>2, <1>3, <1>4, <1>5, <1>6, <1>7, <1>8, <1>9, <1>10,
     <1>11 DEF IInv

LEMMA ProjectKeeps ==
  ASSUME IInv, NEW e \in Executions, Project(e) PROVE IInv'
<1>1. TypeOK'
  BY DocumentWriteAssumption DEF IInv, TypeOK, Reading, Records, Files, NoRecord,
         Idle, RowStates, Stages, Throws, Inside, Writing, Replaying, Project, Move,
         CommitRecord, Projected, requestVars
<1>2. Alone'
  BY DEF IInv, TypeOK, Alone, Inside, Writing, Replaying, Project, Move, CommitRecord,
         Projected, requestVars
<1>3. Accepted'
  BY DEF IInv, TypeOK, Accepted, Reading, Records, Files, Idle, Project, Move,
         CommitRecord, Projected, requestVars
<1>4. ASSUME NEW f \in Executions PROVE Placed(f)'
  BY DEF IInv, TypeOK, Placed, Inside, Writing, Replaying, Project, Move,
         CommitRecord, Projected, requestVars
<1>5. ASSUME NEW f \in Executions PROVE Accounted(f)'
  BY DEF IInv, TypeOK, Placed, Accounted, Inside, Writing, Replaying, Project, Move,
         CommitRecord, Projected, requestVars
<1>6. ASSUME NEW f \in Executions PROVE Checked(f)'
  BY DEF IInv, TypeOK, Alone, Checked, Inside, Writing, Replaying, Project, Move,
         CommitRecord, Projected, requestVars
<1>7. Versioned'
  <2>1. TypeOK /\ Versioned /\ wanted[e] \in Files /\ expected[e] = record.version
    BY DEF IInv, TypeOK, Checked, Project
  <2>2. /\ CommitRecord(Projected(record, wanted[e])) /\ expected' = expected
        /\ undone' = undone
    BY DEF Project, requestVars
  <2>3. /\ replaced' \subseteq Executions
        /\ \A f \in replaced' : f \in replaced \/ (f = e /\ record.content # wanted[e])
    BY DEF Project, IInv, TypeOK
  <2> QED
    BY <2>1, <2>2, <2>3, Commits
<1>8. ASSUME edits' = 0, NEW f \in Executions PROVE Held(f)'
  BY <1>8 DEF IInv, TypeOK, Alone, Held, Inside, Writing, Replaying, Project, Move,
         CommitRecord, Projected, requestVars
<1>9. ASSUME edits' = 0, undone' = {} PROVE Lagging'
  BY <1>9 DEF IInv, TypeOK, Lagging, Owing, Placed, Held, Inside, Writing, Replaying,
         Project, Move, CommitRecord, Projected, requestVars
<1>10. ASSUME edits' = 0, undone' = {}, NEW s \in Readers PROVE Current(s)'
  <2>1. /\ file' = file /\ edits = 0 /\ undone = {} /\ record \in Records
        /\ record' = Projected(record, wanted[e]) /\ wanted[e] \in Files
    BY <1>10 DEF IInv, TypeOK, Project, CommitRecord
  <2>2. reading' = reading
    BY DEF Project
  <2>3. \A f \in Executions : pc[f] = "renamed" => wanted[f] = wanted[e]
    BY DEF Project, IInv, Alone, Inside, Writing
  <2>4. reading'[s].at = "answered" => reading[s].previous \in Records /\ reading'[s]
         = reading[s]
    BY <2>2 DEF IInv, TypeOK, Reading
  <2>5. CASE reading'[s].at = "answered" /\ reading'[s].previous = record'
    <3>1. reading[s].previous = record \/ reading[s].previous.version < record.version
      BY <2>1, <2>4, <2>5 DEF IInv, Preceded
    <3>2. record' = record /\ record.content = wanted[e]
      BY <2>1, <2>4, <2>5, <3>1, Follows DEF Records
    <3> QED
      BY <2>1, <2>3, <2>4, <2>5, <3>2, <1>10 DEF IInv, Current
  <2> QED
    BY <2>5 DEF Current
<1>11. ASSUME undone' = {}, NEW s \in Readers PROVE Preceded(s)'
  <2>1. /\ TypeOK /\ Preceded(s) /\ wanted[e] \in Files /\ reading' = reading
        /\ CommitRecord(Projected(record, wanted[e]))
    BY <1>11 DEF IInv, TypeOK, Project
  <2> QED
    BY <2>1, Precedes
<1> QED
  BY <1>1, <1>2, <1>3, <1>4, <1>5, <1>6, <1>7, <1>8, <1>9, <1>10,
     <1>11 DEF IInv

LEMMA ProjectFailsKeeps ==
  ASSUME IInv, NEW e \in Executions, ProjectFails(e) PROVE IInv'
<1>1. TypeOK'
  BY DocumentWriteAssumption DEF IInv, TypeOK, Reading, Records, Files, NoRecord,
         Idle, RowStates, Stages, Throws, Inside, Writing, Replaying, ProjectFails, Move,
         Throw, durableVars, requestVars
<1>2. Alone'
  BY DEF IInv, TypeOK, Alone, Inside, Writing, Replaying, ProjectFails, Move,
         Throw, durableVars, requestVars
<1>3. Accepted'
  BY DEF IInv, TypeOK, Accepted, Reading, Records, Files, Idle, ProjectFails, Move,
         Throw, durableVars, requestVars
<1>4. ASSUME NEW f \in Executions PROVE Placed(f)'
  BY DEF IInv, TypeOK, Placed, Inside, Writing, Replaying, ProjectFails, Move,
         Throw, durableVars, requestVars
<1>5. ASSUME NEW f \in Executions PROVE Accounted(f)'
  BY DEF IInv, TypeOK, Placed, Accounted, Inside, Writing, Replaying, ProjectFails,
         Move, Throw, durableVars, requestVars
<1>6. ASSUME NEW f \in Executions PROVE Checked(f)'
  BY DEF IInv, TypeOK, Alone, Checked, Inside, Writing, Replaying, ProjectFails, Move,
         Throw, durableVars, requestVars
<1>7. Versioned'
  BY DEF IInv, TypeOK, Versioned, Intact, Placed, Records, Files, NoRecord, Idle,
         ProjectFails, Move, Throw, durableVars, requestVars
<1>8. ASSUME edits' = 0, NEW f \in Executions PROVE Held(f)'
  BY <1>8 DEF IInv, TypeOK, Alone, Held, Inside, Writing, Replaying, ProjectFails,
         Move, Throw, durableVars, requestVars
<1>9. ASSUME edits' = 0, undone' = {} PROVE Lagging'
  <2>1. Owing(e)'
    BY <1>9 DEF IInv, TypeOK, Owing, Placed, Accounted, Held, Inside, Writing,
           ProjectFails, Move, Throw, durableVars, requestVars
  <2> QED
    BY <2>1 DEF Lagging
<1>10. ASSUME edits' = 0, undone' = {}, NEW s \in Readers PROVE Current(s)'
  BY <1>10 DEF IInv, Current, ProjectFails, durableVars
<1>11. ASSUME undone' = {}, NEW s \in Readers PROVE Preceded(s)'
  BY <1>11 DEF IInv, TypeOK, Preceded, Records, Files, NoRecord, Idle,
         ProjectFails, Move, Throw, durableVars, requestVars
<1> QED
  BY <1>1, <1>2, <1>3, <1>4, <1>5, <1>6, <1>7, <1>8, <1>9, <1>10,
     <1>11 DEF IInv

LEMMA AppendWrittenKeeps ==
  ASSUME IInv, NEW e \in Executions, AppendWritten(e) PROVE IInv'
<1>1. TypeOK'
  BY DocumentWriteAssumption DEF IInv, TypeOK, Reading, Records, Files, NoRecord,
         Idle, RowStates, Stages, Throws, Inside, Writing, Replaying, AppendWritten, Move,
         requestVars, historyVars
<1>2. Alone'
  BY DEF IInv, TypeOK, Alone, Inside, Writing, Replaying, AppendWritten, Move,
         requestVars, historyVars
<1>3. Accepted'
  BY DEF IInv, TypeOK, Accepted, Reading, Records, Files, Idle, AppendWritten, Move,
         requestVars, historyVars
<1>4. ASSUME NEW f \in Executions PROVE Placed(f)'
  BY DEF IInv, TypeOK, Placed, Inside, Writing, Replaying, AppendWritten, Move,
         requestVars, historyVars
<1>5. ASSUME NEW f \in Executions PROVE Accounted(f)'
  BY DEF IInv, TypeOK, Placed, Accounted, Inside, Writing, Replaying, AppendWritten,
         Move, requestVars, historyVars
<1>6. ASSUME NEW f \in Executions PROVE Checked(f)'
  BY DEF IInv, TypeOK, Alone, Checked, Inside, Writing, Replaying, AppendWritten,
         Move, requestVars, historyVars
<1>7. Versioned'
  BY DEF IInv, TypeOK, Versioned, Intact, Placed, Records, Files, NoRecord, Idle,
         AppendWritten, Move, requestVars, historyVars
<1>8. ASSUME edits' = 0, NEW f \in Executions PROVE Held(f)'
  BY <1>8 DEF IInv, TypeOK, Alone, Held, Inside, Writing, Replaying, AppendWritten,
         Move, requestVars, historyVars
<1>9. ASSUME edits' = 0, undone' = {} PROVE Lagging'
  BY <1>9 DEF IInv, TypeOK, Lagging, Owing, Placed, Held, Inside, Writing, Replaying,
         AppendWritten, Move, requestVars, historyVars
<1>10. ASSUME edits' = 0, undone' = {}, NEW s \in Readers PROVE Current(s)'
  BY <1>10 DEF IInv, TypeOK, Current, Accepted, Held, Alone, Idle, Inside, Writing,
         Replaying, AppendWritten, Move, requestVars, historyVars
<1>11. ASSUME undone' = {}, NEW s \in Readers PROVE Preceded(s)'
  BY <1>11 DEF IInv, TypeOK, Preceded, Records, Files, NoRecord, Idle,
         AppendWritten, Move, requestVars, historyVars
<1> QED
  BY <1>1, <1>2, <1>3, <1>4, <1>5, <1>6, <1>7, <1>8, <1>9, <1>10,
     <1>11 DEF IInv

LEMMA AppendFailsKeeps ==
  ASSUME IInv, NEW e \in Executions, AppendFails(e) PROVE IInv'
<1>1. TypeOK'
  BY DocumentWriteAssumption DEF IInv, TypeOK, Reading, Records, Files, NoRecord,
         Idle, RowStates, Stages, Throws, Inside, Writing, Replaying, AppendFails,
         Move, Throw, durableVars, requestVars, historyVars
<1>2. Alone'
  BY DEF IInv, TypeOK, Alone, Inside, Writing, Replaying, AppendFails, Move, Throw,
         durableVars, requestVars, historyVars
<1>3. Accepted'
  BY DEF IInv, TypeOK, Accepted, Reading, Records, Files, Idle, AppendFails, Move, Throw,
         durableVars, requestVars, historyVars
<1>4. ASSUME NEW f \in Executions PROVE Placed(f)'
  BY DEF IInv, TypeOK, Placed, Inside, Writing, Replaying, AppendFails, Move, Throw,
         durableVars, requestVars, historyVars
<1>5. ASSUME NEW f \in Executions PROVE Accounted(f)'
  BY DEF IInv, TypeOK, Placed, Accounted, Inside, Writing, Replaying, AppendFails,
         Move, Throw, durableVars, requestVars, historyVars
<1>6. ASSUME NEW f \in Executions PROVE Checked(f)'
  BY DEF IInv, TypeOK, Alone, Checked, Inside, Writing, Replaying, AppendFails, Move, Throw,
         durableVars, requestVars, historyVars
<1>7. Versioned'
  BY DEF IInv, TypeOK, Versioned, Intact, Placed, Records, Files, NoRecord, Idle,
         AppendFails, Move, Throw, durableVars, requestVars, historyVars
<1>8. ASSUME edits' = 0, NEW f \in Executions PROVE Held(f)'
  BY <1>8 DEF IInv, TypeOK, Alone, Held, Inside, Writing, Replaying, AppendFails,
         Move, Throw, durableVars, requestVars, historyVars
<1>9. ASSUME edits' = 0, undone' = {} PROVE Lagging'
  BY <1>9 DEF IInv, TypeOK, Lagging, Owing, Placed, Held, Inside, Writing, Replaying,
         AppendFails, Move, Throw, durableVars, requestVars, historyVars
<1>10. ASSUME edits' = 0, undone' = {}, NEW s \in Readers PROVE Current(s)'
  BY <1>10 DEF IInv, TypeOK, Current, Accepted, Held, Alone, Idle, Inside, Writing,
         Replaying, AppendFails, Move, Throw, durableVars, requestVars, historyVars
<1>11. ASSUME undone' = {}, NEW s \in Readers PROVE Preceded(s)'
  BY <1>11 DEF IInv, TypeOK, Preceded, Records, Files, NoRecord, Idle,
         AppendFails, Move, Throw, durableVars, requestVars, historyVars
<1> QED
  BY <1>1, <1>2, <1>3, <1>4, <1>5, <1>6, <1>7, <1>8, <1>9, <1>10,
     <1>11 DEF IInv

LEMMA BeginReadKeeps ==
  ASSUME IInv, NEW r \in Readers, BeginRead(r) PROVE IInv'
<1>1. TypeOK'
  BY DocumentWriteAssumption DEF IInv, TypeOK, Reading, Records, Files, NoRecord,
         Idle, RowStates, Stages, Throws, Inside, Writing, Replaying, BeginRead,
         Ready, Busy, durableVars, requestVars, historyVars
<1>2. Alone'
  BY DEF IInv, TypeOK, Alone, Inside, Writing, Replaying, BeginRead, Ready, Busy,
         durableVars, requestVars, historyVars
<1>3. Accepted'
  BY DEF IInv, TypeOK, Accepted, Reading, Records, Files, Idle, BeginRead, Ready,
         Busy, durableVars, requestVars, historyVars
<1>4. ASSUME NEW f \in Executions PROVE Placed(f)'
  BY DEF IInv, TypeOK, Placed, Inside, Writing, Replaying, BeginRead, Ready, Busy,
         durableVars, requestVars, historyVars
<1>5. ASSUME NEW f \in Executions PROVE Accounted(f)'
  BY DEF IInv, TypeOK, Placed, Accounted, Inside, Writing, Replaying, BeginRead,
         Ready, Busy, durableVars, requestVars, historyVars
<1>6. ASSUME NEW f \in Executions PROVE Checked(f)'
  BY DEF IInv, TypeOK, Alone, Checked, Inside, Writing, Replaying, BeginRead, Ready,
         Busy, durableVars, requestVars, historyVars
<1>7. Versioned'
  BY DEF IInv, TypeOK, Versioned, Intact, Placed, Records, Files, NoRecord, Idle,
         BeginRead, Ready, Busy, durableVars, requestVars, historyVars
<1>8. ASSUME edits' = 0, NEW f \in Executions PROVE Held(f)'
  BY <1>8 DEF IInv, TypeOK, Alone, Held, Inside, Writing, Replaying, BeginRead, Ready,
         Busy, durableVars, requestVars, historyVars
<1>9. ASSUME edits' = 0, undone' = {} PROVE Lagging'
  BY <1>9 DEF IInv, TypeOK, Lagging, Owing, Placed, Held, Inside, Writing, Replaying,
         BeginRead, Ready, Busy, durableVars, requestVars, historyVars
<1>10. ASSUME edits' = 0, undone' = {}, NEW s \in Readers PROVE Current(s)'
  BY <1>10 DEF IInv, TypeOK, Current, Accepted, Held, Alone, Idle, Inside, Writing,
         Replaying, BeginRead, Ready, Busy, durableVars, requestVars, historyVars
<1>11. ASSUME undone' = {}, NEW s \in Readers PROVE Preceded(s)'
  BY <1>11 DEF IInv, TypeOK, Preceded, Records, Files, NoRecord, Idle,
         BeginRead, Ready, Busy, durableVars, requestVars, historyVars
<1> QED
  BY <1>1, <1>2, <1>3, <1>4, <1>5, <1>6, <1>7, <1>8, <1>9, <1>10,
     <1>11 DEF IInv

LEMMA ProviderReadsKeeps ==
  ASSUME IInv, NEW r \in Readers, ProviderReads(r) PROVE IInv'
<1>1. TypeOK'
  <2>1. reading[r] \in Reading /\ file \in Files /\ Idle \in Reading
    BY DEF IInv, TypeOK, Idle, NoRecord, Reading, Records, Files
  <2>2. [reading[r] EXCEPT !.at = "answered", !.content = file] \in Reading
    BY <2>1 DEF Reading
  <2>3. reading'[r] \in Reading
    BY <2>1, <2>2 DEF IInv, TypeOK, ProviderReads
  <2> QED
    BY <2>3 DEF IInv, TypeOK, ProviderReads, vars, durableVars, requestVars, historyVars
<1>2. Alone'
  BY DEF IInv, TypeOK, Alone, Inside, Writing, Replaying, ProviderReads, Ready, Busy,
         durableVars, requestVars, historyVars
<1>3. Accepted'
  BY DEF IInv, TypeOK, Accepted, Reading, Records, Files, Idle, ProviderReads, Ready,
         Busy, durableVars, requestVars, historyVars
<1>4. ASSUME NEW f \in Executions PROVE Placed(f)'
  BY DEF IInv, TypeOK, Placed, Inside, Writing, Replaying, ProviderReads, Ready, Busy,
         durableVars, requestVars, historyVars
<1>5. ASSUME NEW f \in Executions PROVE Accounted(f)'
  BY DEF IInv, TypeOK, Placed, Accounted, Inside, Writing, Replaying, ProviderReads,
         Ready, Busy, durableVars, requestVars, historyVars
<1>6. ASSUME NEW f \in Executions PROVE Checked(f)'
  BY DEF IInv, TypeOK, Alone, Checked, Inside, Writing, Replaying, ProviderReads,
         Ready, Busy, durableVars, requestVars, historyVars
<1>7. Versioned'
  BY DEF IInv, TypeOK, Versioned, Intact, Placed, Records, Files, NoRecord, Idle,
         ProviderReads, Ready, Busy, durableVars, requestVars, historyVars
<1>8. ASSUME edits' = 0, NEW f \in Executions PROVE Held(f)'
  BY <1>8 DEF IInv, TypeOK, Alone, Held, Inside, Writing, Replaying, ProviderReads,
         Ready, Busy, durableVars, requestVars, historyVars
<1>9. ASSUME edits' = 0, undone' = {} PROVE Lagging'
  BY <1>9 DEF IInv, TypeOK, Lagging, Owing, Placed, Held, Inside, Writing, Replaying,
         ProviderReads, Ready, Busy, durableVars, requestVars, historyVars
<1>10. ASSUME edits' = 0, undone' = {}, NEW s \in Readers PROVE Current(s)'
  BY <1>10 DEF IInv, TypeOK, Current, Accepted, Held, Alone, Idle, Inside, Writing,
         Replaying, ProviderReads, Ready, Busy, durableVars, requestVars, historyVars
<1>11. ASSUME undone' = {}, NEW s \in Readers PROVE Preceded(s)'
  BY <1>11 DEF IInv, TypeOK, Preceded, Records, Files, NoRecord, Idle,
         ProviderReads, Ready, Busy, durableVars, requestVars, historyVars
<1> QED
  BY <1>1, <1>2, <1>3, <1>4, <1>5, <1>6, <1>7, <1>8, <1>9, <1>10,
     <1>11 DEF IInv

LEMMA CommitReadKeeps ==
  ASSUME IInv, NEW r \in Readers, CommitRead(r) PROVE IInv'
<1>0. undone' = {} =>
        /\ undone = {} /\ reading[r].previous = record
        /\ CommitRecord(Projected(record, reading[r].content)) /\ reading[r].content
               \in Files
  BY DEF CommitRead, IInv, TypeOK, Reading
<1>1. TypeOK'
  <2>1. reading[r].previous \in Records /\ reading[r].content \in Files
    BY DEF IInv, TypeOK, Reading, CommitRead
  <2>2. record' \in Records
    BY <2>1, Follows DEF CommitRead, CommitRecord
  <2>3. record'.version \in Nat
    BY <2>2 DEF Records
  <2>4. undone' \subseteq Nat
    BY <2>3 DEF CommitRead, IInv, TypeOK
  <2>5. published' \subseteq Nat \X Files
    BY <2>1, Follows DEF CommitRead, CommitRecord, IInv, TypeOK, Records
  <2>6. reading' \in [Readers -> Reading]
    BY DEF CommitRead, IInv, TypeOK, Reading, Idle, NoRecord, Records, Files
  <2> QED
    BY <2>2, <2>4, <2>5, <2>6 DEF CommitRead, IInv, TypeOK, requestVars
<1>2. Alone'
  BY DEF IInv, TypeOK, Alone, Inside, Writing, Replaying, CommitRead, Ready, Busy,
         CommitRecord, Projected, requestVars
<1>3. Accepted'
  BY DEF IInv, TypeOK, Accepted, Reading, Records, Files, Idle, CommitRead, Ready,
         Busy, CommitRecord, Projected, requestVars
<1>4. ASSUME NEW f \in Executions PROVE Placed(f)'
  BY DEF IInv, TypeOK, Placed, Inside, Writing, Replaying, CommitRead, Ready, Busy,
         CommitRecord, Projected, requestVars
<1>5. ASSUME NEW f \in Executions PROVE Accounted(f)'
  BY DEF IInv, TypeOK, Placed, Accounted, Inside, Writing, Replaying, CommitRead,
         Ready, Busy, CommitRecord, Projected, requestVars
<1>6. ASSUME NEW f \in Executions PROVE Checked(f)'
  BY DEF IInv, TypeOK, Alone, Checked, Inside, Writing, Replaying, CommitRead, Ready,
         Busy, CommitRecord, Projected, requestVars
<1>7. Versioned'
  <2>1. /\ TypeOK /\ Versioned /\ expected' = expected /\ replaced' = replaced
        /\ replaced \subseteq Executions
        /\ reading[r].previous \in Records /\ reading[r].content \in Files
        /\ CommitRecord(Projected(reading[r].previous, reading[r].content))
    BY DEF IInv, TypeOK, Reading, CommitRead, requestVars
  <2>2. CASE reading[r].previous = record
    BY <2>1, <2>2, Commits DEF CommitRead
  <2>3. CASE reading[r].previous # record
    <3>1. Projected(reading[r].previous, reading[r].content) \in Records
      BY <2>1, Follows
    <3>2. undone' = undone \union {Projected(reading[r].previous, reading[r].content).version}
      BY <2>3 DEF CommitRead, CommitRecord
    <3> QED
      BY <2>1, <3>1, <3>2, Undoes
  <2> QED
    BY <2>2, <2>3
<1>8. ASSUME edits' = 0, NEW f \in Executions PROVE Held(f)'
  BY <1>8 DEF IInv, TypeOK, Alone, Held, Inside, Writing, Replaying, CommitRead,
         Ready, Busy, CommitRecord, Projected, requestVars
<1>9. ASSUME edits' = 0, undone' = {} PROVE Lagging'
  <2>0. record \in Records /\ reading[r].content \in Files
    BY <1>0, <1>9 DEF IInv, TypeOK
  <2>1. record'.content = reading[r].content /\ file' = file
    BY <1>0, <1>9, <2>0, Follows DEF CommitRead, CommitRecord
  <2>2. CASE reading[r].content = file
    BY <2>1, <2>2 DEF Lagging
  <2>3. CASE reading[r].content = record.content
    <3>1. record' = record
      BY <1>0, <1>9, <2>3, Follows DEF CommitRecord, IInv, TypeOK
    <3>2. Lagging /\ UNCHANGED <<file, record, renames, wanted, journal, pc, thrown>>
      BY <1>0, <1>9, <3>1 DEF IInv, CommitRead, requestVars
    <3> QED
      BY <3>2 DEF Lagging, Owing
  <2> QED
    BY <1>0, <1>9, <2>2, <2>3 DEF IInv, Current, CommitRead
<1>10. ASSUME edits' = 0, undone' = {}, NEW s \in Readers PROVE Current(s)'
  <2>1. /\ file' = file /\ edits = 0 /\ undone = {} /\ record \in Records
        /\ record' = Projected(record, reading[r].content) /\ reading[r].content \in
               Files
    BY <1>10, <1>0 DEF IInv, TypeOK, CommitRead, CommitRecord
  <2>2. reading'[s].at # "idle" => reading'[s] = reading[s]
    BY DEF CommitRead, Idle, IInv, TypeOK
  <2>3. \A f \in Executions : pc[f] # "renamed"
    BY DEF CommitRead, Ready, Busy, Writing
  <2>4. reading'[s].at = "answered" => reading[s].previous \in Records /\ reading'[s]
         = reading[s]
    BY <2>2 DEF IInv, TypeOK, Reading
  <2>5. CASE reading'[s].at = "answered" /\ reading'[s].previous = record'
    <3>1. reading[s].previous = record \/ reading[s].previous.version < record.version
      BY <2>1, <2>4, <2>5 DEF IInv, Preceded
    <3>2. record' = record /\ record.content = reading[r].content
      BY <2>1, <2>4, <2>5, <3>1, Follows DEF Records
    <3> QED
      BY <2>1, <2>3, <2>4, <2>5, <3>2, <1>10 DEF IInv, Current
  <2> QED
    BY <2>5 DEF Current
<1>11. ASSUME undone' = {}, NEW s \in Readers PROVE Preceded(s)'
  <2>1. /\ TypeOK /\ Preceded(s) /\ reading[r].content \in Files
        /\ CommitRecord(Projected(record, reading[r].content))
    BY <1>0, <1>11 DEF IInv
  <2>2. reading'[s].at # "idle" => reading'[s] = reading[s]
    BY DEF CommitRead, Idle, IInv, TypeOK
  <2> QED
    BY <2>1, <2>2, Precedes
<1> QED
  BY <1>1, <1>2, <1>3, <1>4, <1>5, <1>6, <1>7, <1>8, <1>9, <1>10,
     <1>11 DEF IInv

LEMMA ReplayRecordKeeps ==
  ASSUME IInv, NEW e \in Executions, ReplayRecord(e) PROVE IInv'
<1>1. TypeOK'
  BY DocumentWriteAssumption DEF IInv, TypeOK, Reading, Records, Files, NoRecord,
         Idle, RowStates, Stages, Throws, Inside, Writing, Replaying, ReplayRecord, Busy,
         Recovering, Orphaned, Move, CommitRecord, Projected, requestVars
<1>2. Alone'
  BY DEF IInv, TypeOK, Alone, Inside, Writing, Replaying, ReplayRecord, Busy,
         Recovering, Orphaned, Move, CommitRecord, Projected, requestVars
<1>3. Accepted'
  BY DEF IInv, TypeOK, Accepted, Reading, Records, Files, Idle, ReplayRecord, Busy,
         Recovering, Orphaned, Move, CommitRecord, Projected, requestVars
<1>4. ASSUME NEW f \in Executions PROVE Placed(f)'
  BY DEF IInv, TypeOK, Placed, Inside, Writing, Replaying, ReplayRecord, Busy,
         Recovering, Orphaned, Move, CommitRecord, Projected, requestVars
<1>5. ASSUME NEW f \in Executions PROVE Accounted(f)'
  BY DEF IInv, TypeOK, Placed, Accounted, Inside, Writing, Replaying, ReplayRecord,
         Busy, Recovering, Orphaned, Move, CommitRecord, Projected, requestVars
<1>6. ASSUME NEW f \in Executions PROVE Checked(f)'
  BY DEF IInv, TypeOK, Alone, Checked, Inside, Writing, Replaying, ReplayRecord, Busy,
         Recovering, Orphaned, Move, CommitRecord, Projected, requestVars
<1>7. Versioned'
  <2>1. TypeOK /\ Versioned /\ wanted[e] \in Files /\ replaced \subseteq Executions
    BY DEF IInv, TypeOK, ReplayRecord
  <2>2. /\ CommitRecord(Projected(record, wanted[e])) /\ expected' = expected
        /\ undone' = undone /\ replaced' = replaced
    BY DEF ReplayRecord, requestVars
  <2> QED
    BY <2>1, <2>2, Commits
<1>8. ASSUME edits' = 0, NEW f \in Executions PROVE Held(f)'
  BY <1>8 DEF IInv, TypeOK, Alone, Held, Inside, Writing, Replaying, ReplayRecord,
         Busy, Recovering, Orphaned, Move, CommitRecord, Projected, requestVars
<1>9. ASSUME edits' = 0, undone' = {} PROVE Lagging'
  BY <1>9 DEF IInv, TypeOK, Lagging, Owing, Placed, Held, Inside, Writing, Replaying,
         ReplayRecord, Busy, Recovering, Orphaned, Move, CommitRecord, Projected,
         requestVars
<1>10. ASSUME edits' = 0, undone' = {}, NEW s \in Readers PROVE Current(s)'
  <2>1. /\ file' = file /\ edits = 0 /\ undone = {} /\ record \in Records
        /\ record' = Projected(record, wanted[e]) /\ wanted[e] \in Files
    BY <1>10 DEF IInv, TypeOK, ReplayRecord, CommitRecord
  <2>2. reading' = reading
    BY DEF ReplayRecord
  <2>3. \A f \in Executions : pc[f] # "renamed"
    BY DEF ReplayRecord, Recovering, Busy, Writing
  <2>4. reading'[s].at = "answered" => reading[s].previous \in Records /\ reading'[s]
         = reading[s]
    BY <2>2 DEF IInv, TypeOK, Reading
  <2>5. CASE reading'[s].at = "answered" /\ reading'[s].previous = record'
    <3>1. reading[s].previous = record \/ reading[s].previous.version < record.version
      BY <2>1, <2>4, <2>5 DEF IInv, Preceded
    <3>2. record' = record /\ record.content = wanted[e]
      BY <2>1, <2>4, <2>5, <3>1, Follows DEF Records
    <3> QED
      BY <2>1, <2>3, <2>4, <2>5, <3>2, <1>10 DEF IInv, Current
  <2> QED
    BY <2>5 DEF Current
<1>11. ASSUME undone' = {}, NEW s \in Readers PROVE Preceded(s)'
  <2>1. /\ TypeOK /\ Preceded(s) /\ wanted[e] \in Files /\ reading' = reading
        /\ CommitRecord(Projected(record, wanted[e]))
    BY <1>11 DEF IInv, TypeOK, ReplayRecord
  <2> QED
    BY <2>1, Precedes
<1> QED
  BY <1>1, <1>2, <1>3, <1>4, <1>5, <1>6, <1>7, <1>8, <1>9, <1>10,
     <1>11 DEF IInv

LEMMA ReplayRowKeeps ==
  ASSUME IInv, NEW e \in Executions, ReplayRow(e) PROVE IInv'
<1>1. TypeOK'
  BY DocumentWriteAssumption DEF IInv, TypeOK, Reading, Records, Files, NoRecord,
         Idle, RowStates, Stages, Throws, Inside, Writing, Replaying, ReplayRow, Move,
         Journal, requestVars, historyVars
<1>2. Alone'
  BY DEF IInv, TypeOK, Alone, Inside, Writing, Replaying, ReplayRow, Move, Journal,
         requestVars, historyVars
<1>3. Accepted'
  BY DEF IInv, TypeOK, Accepted, Reading, Records, Files, Idle, ReplayRow, Move,
         Journal, requestVars, historyVars
<1>4. ASSUME NEW f \in Executions PROVE Placed(f)'
  BY DEF IInv, TypeOK, Placed, Inside, Writing, Replaying, ReplayRow, Move, Journal,
         requestVars, historyVars
<1>5. ASSUME NEW f \in Executions PROVE Accounted(f)'
  BY DEF IInv, TypeOK, Placed, Accounted, Inside, Writing, Replaying, ReplayRow, Move,
         Journal, requestVars, historyVars
<1>6. ASSUME NEW f \in Executions PROVE Checked(f)'
  BY DEF IInv, TypeOK, Alone, Checked, Inside, Writing, Replaying, ReplayRow, Move,
         Journal, requestVars, historyVars
<1>7. Versioned'
  BY DEF IInv, TypeOK, Versioned, Intact, Placed, Records, Files, NoRecord, Idle,
         ReplayRow, Move, Journal, requestVars, historyVars
<1>8. ASSUME edits' = 0, NEW f \in Executions PROVE Held(f)'
  BY <1>8 DEF IInv, TypeOK, Alone, Held, Inside, Writing, Replaying, ReplayRow, Move,
         Journal, requestVars, historyVars
<1>9. ASSUME edits' = 0, undone' = {} PROVE Lagging'
  BY <1>9 DEF IInv, TypeOK, Lagging, Owing, Placed, Held, Inside, Writing, Replaying,
         ReplayRow, Move, Journal, requestVars, historyVars
<1>10. ASSUME edits' = 0, undone' = {}, NEW s \in Readers PROVE Current(s)'
  BY <1>10 DEF IInv, TypeOK, Current, Accepted, Held, Alone, Idle, Inside, Writing,
         Replaying, ReplayRow, Move, Journal, requestVars, historyVars
<1>11. ASSUME undone' = {}, NEW s \in Readers PROVE Preceded(s)'
  BY <1>11 DEF IInv, TypeOK, Preceded, Records, Files, NoRecord, Idle,
         ReplayRow, Move, Journal, requestVars, historyVars
<1> QED
  BY <1>1, <1>2, <1>3, <1>4, <1>5, <1>6, <1>7, <1>8, <1>9, <1>10,
     <1>11 DEF IInv

LEMMA ReplayEventKeeps ==
  ASSUME IInv, NEW e \in Executions, ReplayEvent(e) PROVE IInv'
<1>1. TypeOK'
  BY DocumentWriteAssumption DEF IInv, TypeOK, Reading, Records, Files, NoRecord,
         Idle, RowStates, Stages, Throws, Inside, Writing, Replaying, ReplayEvent, Move,
         requestVars, historyVars
<1>2. Alone'
  BY DEF IInv, TypeOK, Alone, Inside, Writing, Replaying, ReplayEvent, Move,
         requestVars, historyVars
<1>3. Accepted'
  BY DEF IInv, TypeOK, Accepted, Reading, Records, Files, Idle, ReplayEvent, Move,
         requestVars, historyVars
<1>4. ASSUME NEW f \in Executions PROVE Placed(f)'
  BY DEF IInv, TypeOK, Placed, Inside, Writing, Replaying, ReplayEvent, Move,
         requestVars, historyVars
<1>5. ASSUME NEW f \in Executions PROVE Accounted(f)'
  BY DEF IInv, TypeOK, Placed, Accounted, Inside, Writing, Replaying, ReplayEvent,
         Move, requestVars, historyVars
<1>6. ASSUME NEW f \in Executions PROVE Checked(f)'
  BY DEF IInv, TypeOK, Alone, Checked, Inside, Writing, Replaying, ReplayEvent, Move,
         requestVars, historyVars
<1>7. Versioned'
  BY DEF IInv, TypeOK, Versioned, Intact, Placed, Records, Files, NoRecord, Idle,
         ReplayEvent, Move, requestVars, historyVars
<1>8. ASSUME edits' = 0, NEW f \in Executions PROVE Held(f)'
  BY <1>8 DEF IInv, TypeOK, Alone, Held, Inside, Writing, Replaying, ReplayEvent,
         Move, requestVars, historyVars
<1>9. ASSUME edits' = 0, undone' = {} PROVE Lagging'
  BY <1>9 DEF IInv, TypeOK, Lagging, Owing, Placed, Held, Inside, Writing, Replaying,
         ReplayEvent, Move, requestVars, historyVars
<1>10. ASSUME edits' = 0, undone' = {}, NEW s \in Readers PROVE Current(s)'
  BY <1>10 DEF IInv, TypeOK, Current, Accepted, Held, Alone, Idle, Inside, Writing,
         Replaying, ReplayEvent, Move, requestVars, historyVars
<1>11. ASSUME undone' = {}, NEW s \in Readers PROVE Preceded(s)'
  BY <1>11 DEF IInv, TypeOK, Preceded, Records, Files, NoRecord, Idle,
         ReplayEvent, Move, requestVars, historyVars
<1> QED
  BY <1>1, <1>2, <1>3, <1>4, <1>5, <1>6, <1>7, <1>8, <1>9, <1>10,
     <1>11 DEF IInv

LEMMA ReplayStopsKeeps ==
  ASSUME IInv, NEW e \in Executions, ReplayStops(e) PROVE IInv'
<1>1. TypeOK'
  BY DocumentWriteAssumption DEF IInv, TypeOK, Reading, Records, Files, NoRecord,
         Idle, RowStates, Stages, Throws, Inside, Writing, Replaying, ReplayStops, Move,
         durableVars, requestVars, historyVars
<1>2. Alone'
  BY DEF IInv, TypeOK, Alone, Inside, Writing, Replaying, ReplayStops, Move,
         durableVars, requestVars, historyVars
<1>3. Accepted'
  BY DEF IInv, TypeOK, Accepted, Reading, Records, Files, Idle, ReplayStops, Move,
         durableVars, requestVars, historyVars
<1>4. ASSUME NEW f \in Executions PROVE Placed(f)'
  BY DEF IInv, TypeOK, Placed, Inside, Writing, Replaying, ReplayStops, Move,
         durableVars, requestVars, historyVars
<1>5. ASSUME NEW f \in Executions PROVE Accounted(f)'
  BY DEF IInv, TypeOK, Placed, Accounted, Inside, Writing, Replaying, ReplayStops,
         Move, durableVars, requestVars, historyVars
<1>6. ASSUME NEW f \in Executions PROVE Checked(f)'
  BY DEF IInv, TypeOK, Alone, Checked, Inside, Writing, Replaying, ReplayStops, Move,
         durableVars, requestVars, historyVars
<1>7. Versioned'
  BY DEF IInv, TypeOK, Versioned, Intact, Placed, Records, Files, NoRecord, Idle,
         ReplayStops, Move, durableVars, requestVars, historyVars
<1>8. ASSUME edits' = 0, NEW f \in Executions PROVE Held(f)'
  BY <1>8 DEF IInv, TypeOK, Alone, Held, Inside, Writing, Replaying, ReplayStops, Move,
         durableVars, requestVars, historyVars
<1>9. ASSUME edits' = 0, undone' = {} PROVE Lagging'
  BY <1>9 DEF IInv, TypeOK, Lagging, Owing, Placed, Held, Inside, Writing, Replaying,
         ReplayStops, Move, durableVars, requestVars, historyVars
<1>10. ASSUME edits' = 0, undone' = {}, NEW s \in Readers PROVE Current(s)'
  BY <1>10 DEF IInv, TypeOK, Current, Accepted, Held, Alone, Idle, Inside, Writing,
         Replaying, ReplayStops, Move, durableVars, requestVars, historyVars
<1>11. ASSUME undone' = {}, NEW s \in Readers PROVE Preceded(s)'
  BY <1>11 DEF IInv, TypeOK, Preceded, Records, Files, NoRecord, Idle,
         ReplayStops, Move, durableVars, requestVars, historyVars
<1> QED
  BY <1>1, <1>2, <1>3, <1>4, <1>5, <1>6, <1>7, <1>8, <1>9, <1>10,
     <1>11 DEF IInv

LEMMA RequireRecoveryKeeps ==
  ASSUME IInv, NEW e \in Executions, RequireRecovery(e) PROVE IInv'
<1>1. TypeOK'
  BY DocumentWriteAssumption DEF IInv, TypeOK, Reading, Records, Files, NoRecord,
         Idle, RowStates, Stages, Throws, Inside, Writing, Replaying, RequireRecovery, Busy,
         Recovering, Orphaned, Journal, requestVars, historyVars
<1>2. Alone'
  BY DEF IInv, TypeOK, Alone, Inside, Writing, Replaying, RequireRecovery, Busy,
         Recovering, Orphaned, Journal, requestVars, historyVars
<1>3. Accepted'
  BY DEF IInv, TypeOK, Accepted, Reading, Records, Files, Idle, RequireRecovery, Busy,
         Recovering, Orphaned, Journal, requestVars, historyVars
<1>4. ASSUME NEW f \in Executions PROVE Placed(f)'
  BY DEF IInv, TypeOK, Placed, Inside, Writing, Replaying, RequireRecovery, Busy,
         Recovering, Orphaned, Journal, requestVars, historyVars
<1>5. ASSUME NEW f \in Executions PROVE Accounted(f)'
  BY DEF IInv, TypeOK, Placed, Accounted, Inside, Writing, Replaying, RequireRecovery,
         Busy, Recovering, Orphaned, Journal, requestVars, historyVars
<1>6. ASSUME NEW f \in Executions PROVE Checked(f)'
  BY DEF IInv, TypeOK, Alone, Checked, Inside, Writing, Replaying, RequireRecovery,
         Busy, Recovering, Orphaned, Journal, requestVars, historyVars
<1>7. Versioned'
  BY DEF IInv, TypeOK, Versioned, Intact, Placed, Records, Files, NoRecord, Idle,
         RequireRecovery, Busy, Recovering, Orphaned, Journal, requestVars,
         historyVars
<1>8. ASSUME edits' = 0, NEW f \in Executions PROVE Held(f)'
  BY <1>8 DEF IInv, TypeOK, Alone, Held, Inside, Writing, Replaying, RequireRecovery,
         Busy, Recovering, Orphaned, Journal, requestVars, historyVars
<1>9. ASSUME edits' = 0, undone' = {} PROVE Lagging'
  BY <1>9 DEF IInv, TypeOK, Lagging, Owing, Placed, Held, Inside, Writing, Replaying,
         RequireRecovery, Busy, Recovering, Orphaned, Journal, requestVars,
         historyVars
<1>10. ASSUME edits' = 0, undone' = {}, NEW s \in Readers PROVE Current(s)'
  BY <1>10 DEF IInv, TypeOK, Current, Accepted, Held, Alone, Idle, Inside, Writing,
         Replaying, RequireRecovery, Busy, Recovering, Orphaned, Journal, requestVars,
         historyVars
<1>11. ASSUME undone' = {}, NEW s \in Readers PROVE Preceded(s)'
  BY <1>11 DEF IInv, TypeOK, Preceded, Records, Files, NoRecord, Idle,
         RequireRecovery, Busy, Recovering, Orphaned, Journal, requestVars,
         historyVars
<1> QED
  BY <1>1, <1>2, <1>3, <1>4, <1>5, <1>6, <1>7, <1>8, <1>9, <1>10,
     <1>11 DEF IInv

LEMMA RecoverOrphanedExecutionsKeeps ==
  ASSUME IInv, RecoverOrphanedExecutions PROVE IInv'
<1>1. TypeOK'
  BY DocumentWriteAssumption DEF IInv, TypeOK, Reading, Records, Files, NoRecord,
         Idle, RowStates, Stages, Throws, Inside, Writing, Replaying,
         RecoverOrphanedExecutions, Busy, Recovering, Orphaned, requestVars,
         historyVars
<1>2. Alone'
  BY DEF IInv, TypeOK, Alone, Inside, Writing, Replaying, RecoverOrphanedExecutions,
         Busy, Recovering, Orphaned, requestVars, historyVars
<1>3. Accepted'
  BY DEF IInv, TypeOK, Accepted, Reading, Records, Files, Idle,
         RecoverOrphanedExecutions, Busy, Recovering, Orphaned, requestVars,
         historyVars
<1>4. ASSUME NEW f \in Executions PROVE Placed(f)'
  BY DEF IInv, TypeOK, Placed, Inside, Writing, Replaying, RecoverOrphanedExecutions,
         Busy, Recovering, Orphaned, requestVars, historyVars
<1>5. ASSUME NEW f \in Executions PROVE Accounted(f)'
  BY DEF IInv, TypeOK, Placed, Accounted, Inside, Writing, Replaying,
         RecoverOrphanedExecutions, Busy, Recovering, Orphaned, requestVars,
         historyVars
<1>6. ASSUME NEW f \in Executions PROVE Checked(f)'
  BY DEF IInv, TypeOK, Alone, Checked, Inside, Writing, Replaying,
         RecoverOrphanedExecutions, Busy, Recovering, Orphaned, requestVars,
         historyVars
<1>7. Versioned'
  BY DEF IInv, TypeOK, Versioned, Intact, Placed, Records, Files, NoRecord, Idle,
         RecoverOrphanedExecutions, Busy, Recovering, Orphaned, requestVars,
         historyVars
<1>8. ASSUME edits' = 0, NEW f \in Executions PROVE Held(f)'
  BY <1>8 DEF IInv, TypeOK, Alone, Held, Inside, Writing, Replaying,
         RecoverOrphanedExecutions, Busy, Recovering, Orphaned, requestVars,
         historyVars
<1>9. ASSUME edits' = 0, undone' = {} PROVE Lagging'
  BY <1>9 DEF IInv, TypeOK, Lagging, Owing, Placed, Held, Inside, Writing, Replaying,
         RecoverOrphanedExecutions, Busy, Recovering, Orphaned, requestVars,
         historyVars
<1>10. ASSUME edits' = 0, undone' = {}, NEW s \in Readers PROVE Current(s)'
  BY <1>10 DEF IInv, TypeOK, Current, Accepted, Held, Alone, Idle, Inside, Writing,
         Replaying, RecoverOrphanedExecutions, Busy, Recovering, Orphaned,
         requestVars, historyVars
<1>11. ASSUME undone' = {}, NEW s \in Readers PROVE Preceded(s)'
  BY <1>11 DEF IInv, TypeOK, Preceded, Records, Files, NoRecord, Idle,
         RecoverOrphanedExecutions, Busy, Recovering, Orphaned, requestVars,
         historyVars
<1> QED
  BY <1>1, <1>2, <1>3, <1>4, <1>5, <1>6, <1>7, <1>8, <1>9, <1>10,
     <1>11 DEF IInv

LEMMA BootKeeps ==
  ASSUME IInv, Boot PROVE IInv'
<1>1. TypeOK'
  BY DocumentWriteAssumption DEF IInv, TypeOK, Reading, Records, Files, NoRecord,
         Idle, RowStates, Stages, Throws, Inside, Writing, Replaying, Boot, Busy,
         Recovering, durableVars, requestVars, historyVars
<1>2. Alone'
  BY DEF IInv, TypeOK, Alone, Inside, Writing, Replaying, Boot, Busy, Recovering,
         durableVars, requestVars, historyVars
<1>3. Accepted'
  BY DEF IInv, TypeOK, Accepted, Reading, Records, Files, Idle, Boot, Busy,
         Recovering, durableVars, requestVars, historyVars
<1>4. ASSUME NEW f \in Executions PROVE Placed(f)'
  BY DEF IInv, TypeOK, Placed, Inside, Writing, Replaying, Boot, Busy, Recovering,
         durableVars, requestVars, historyVars
<1>5. ASSUME NEW f \in Executions PROVE Accounted(f)'
  BY DEF IInv, TypeOK, Placed, Accounted, Inside, Writing, Replaying, Boot, Busy,
         Recovering, durableVars, requestVars, historyVars
<1>6. ASSUME NEW f \in Executions PROVE Checked(f)'
  BY DEF IInv, TypeOK, Alone, Checked, Inside, Writing, Replaying, Boot, Busy,
         Recovering, durableVars, requestVars, historyVars
<1>7. Versioned'
  BY DEF IInv, TypeOK, Versioned, Intact, Placed, Records, Files, NoRecord, Idle, Boot,
         Busy, Recovering, durableVars, requestVars, historyVars
<1>8. ASSUME edits' = 0, NEW f \in Executions PROVE Held(f)'
  BY <1>8 DEF IInv, TypeOK, Alone, Held, Inside, Writing, Replaying, Boot, Busy,
         Recovering, durableVars, requestVars, historyVars
<1>9. ASSUME edits' = 0, undone' = {} PROVE Lagging'
  BY <1>9 DEF IInv, TypeOK, Lagging, Owing, Placed, Held, Inside, Writing, Replaying,
         Boot, Busy, Recovering, durableVars, requestVars, historyVars
<1>10. ASSUME edits' = 0, undone' = {}, NEW s \in Readers PROVE Current(s)'
  BY <1>10 DEF IInv, TypeOK, Current, Accepted, Held, Alone, Idle, Inside, Writing,
         Replaying, Boot, Busy, Recovering, durableVars, requestVars, historyVars
<1>11. ASSUME undone' = {}, NEW s \in Readers PROVE Preceded(s)'
  BY <1>11 DEF IInv, TypeOK, Preceded, Records, Files, NoRecord, Idle, Boot,
         Busy, Recovering, durableVars, requestVars, historyVars
<1> QED
  BY <1>1, <1>2, <1>3, <1>4, <1>5, <1>6, <1>7, <1>8, <1>9, <1>10,
     <1>11 DEF IInv

LEMMA CrashKeeps ==
  ASSUME IInv, Crash PROVE IInv'
<1>1. TypeOK'
  BY DocumentWriteAssumption DEF IInv, TypeOK, Reading, Records, Files, NoRecord,
         Idle, RowStates, Stages, Throws, Inside, Writing, Replaying, Crash, durableVars,
         requestVars, historyVars
<1>2. Alone'
  BY DEF IInv, TypeOK, Alone, Inside, Writing, Replaying, Crash, durableVars,
         requestVars, historyVars
<1>3. Accepted'
  BY DEF IInv, TypeOK, Accepted, Reading, Records, Files, Idle, Crash, durableVars,
         requestVars, historyVars
<1>4. ASSUME NEW f \in Executions PROVE Placed(f)'
  BY DEF IInv, TypeOK, Placed, Inside, Writing, Replaying, Crash, durableVars,
         requestVars, historyVars
<1>5. ASSUME NEW f \in Executions PROVE Accounted(f)'
  BY DEF IInv, TypeOK, Placed, Accounted, Inside, Writing, Replaying, Crash,
         durableVars, requestVars, historyVars
<1>6. ASSUME NEW f \in Executions PROVE Checked(f)'
  BY DEF IInv, TypeOK, Alone, Checked, Inside, Writing, Replaying, Crash, durableVars,
         requestVars, historyVars
<1>7. Versioned'
  BY DEF IInv, TypeOK, Versioned, Intact, Placed, Records, Files, NoRecord, Idle, Crash,
         durableVars, requestVars, historyVars
<1>8. ASSUME edits' = 0, NEW f \in Executions PROVE Held(f)'
  BY <1>8 DEF IInv, TypeOK, Alone, Held, Inside, Writing, Replaying, Crash,
         durableVars, requestVars, historyVars
<1>9. ASSUME edits' = 0, undone' = {} PROVE Lagging'
  BY <1>9 DEF IInv, TypeOK, Lagging, Owing, Placed, Held, Inside, Writing, Replaying,
         Crash, durableVars, requestVars, historyVars
<1>10. ASSUME edits' = 0, undone' = {}, NEW s \in Readers PROVE Current(s)'
  BY <1>10 DEF IInv, TypeOK, Current, Accepted, Held, Alone, Idle, Inside, Writing,
         Replaying, Crash, durableVars, requestVars, historyVars
<1>11. ASSUME undone' = {}, NEW s \in Readers PROVE Preceded(s)'
  BY <1>11 DEF IInv, TypeOK, Preceded, Records, Files, NoRecord, Idle, Crash,
         durableVars, requestVars, historyVars
<1> QED
  BY <1>1, <1>2, <1>3, <1>4, <1>5, <1>6, <1>7, <1>8, <1>9, <1>10,
     <1>11 DEF IInv

LEMMA EditKeeps ==
  ASSUME IInv, Edit PROVE IInv'
<1>1. TypeOK'
  BY DocumentWriteAssumption DEF IInv, TypeOK, Reading, Records, Files, NoRecord,
         Idle, RowStates, Stages, Throws, Inside, Writing, Replaying, Edit, requestVars,
         historyVars
<1>2. Alone'
  BY DEF IInv, TypeOK, Alone, Inside, Writing, Replaying, Edit, requestVars, historyVars
<1>3. Accepted'
  BY DEF IInv, TypeOK, Accepted, Reading, Records, Files, Idle, Edit, requestVars,
         historyVars
<1>4. ASSUME NEW f \in Executions PROVE Placed(f)'
  BY DEF IInv, TypeOK, Placed, Inside, Writing, Replaying, Edit, requestVars,
         historyVars
<1>5. ASSUME NEW f \in Executions PROVE Accounted(f)'
  BY DEF IInv, TypeOK, Placed, Accounted, Inside, Writing, Replaying, Edit,
         requestVars, historyVars
<1>6. ASSUME NEW f \in Executions PROVE Checked(f)'
  BY DEF IInv, TypeOK, Alone, Checked, Inside, Writing, Replaying, Edit, requestVars,
         historyVars
<1>7. Versioned'
  BY DEF IInv, TypeOK, Versioned, Intact, Placed, Records, Files, NoRecord, Idle, Edit,
         requestVars, historyVars
<1>8. ASSUME edits' = 0, NEW f \in Executions PROVE Held(f)'
  BY <1>8 DEF IInv, TypeOK, Alone, Held, Inside, Writing, Replaying, Edit,
         requestVars, historyVars
<1>9. ASSUME edits' = 0, undone' = {} PROVE Lagging'
  BY <1>9 DEF IInv, TypeOK, Lagging, Owing, Placed, Held, Inside, Writing, Replaying,
         Edit, requestVars, historyVars
<1>10. ASSUME edits' = 0, undone' = {}, NEW s \in Readers PROVE Current(s)'
  BY <1>10 DEF IInv, TypeOK, Current, Accepted, Held, Alone, Idle, Inside, Writing,
         Replaying, Edit, requestVars, historyVars
<1>11. ASSUME undone' = {}, NEW s \in Readers PROVE Preceded(s)'
  BY <1>11 DEF IInv, TypeOK, Preceded, Records, Files, NoRecord, Idle, Edit,
         requestVars, historyVars
<1> QED
  BY <1>1, <1>2, <1>3, <1>4, <1>5, <1>6, <1>7, <1>8, <1>9, <1>10,
     <1>11 DEF IInv

LEMMA Initially == Init => IInv
<1> SUFFICES ASSUME Init PROVE IInv
  OBVIOUS
<1>1. TypeOK
  BY DocumentWriteAssumption
     DEF Init, TypeOK, Records, Reading, Files, NoRecord, Idle, RowStates, Stages, Throws
<1>2. Alone /\ Accepted /\ Versioned /\ Lagging
  BY DocumentWriteAssumption DEF Init, Alone, Accepted, Versioned, Lagging, Inside,
         Writing, Replaying, NoRecord, Idle
<1>3. ASSUME NEW e \in Executions PROVE Placed(e) /\ Accounted(e) /\ Checked(e) /\ Held(e)
  BY DEF Init, Placed, Accounted, Checked, Held, Writing, Replaying
<1>4. \A r \in Readers : Current(r) /\ Preceded(r)
  BY DEF Init, Current, Preceded, Idle
<1> QED
  BY <1>1, <1>2, <1>3, <1>4 DEF IInv

LEMMA StutterKeeps == ASSUME IInv, UNCHANGED vars PROVE IInv'
<1> USE DEF vars, durableVars, requestVars, historyVars
<1>1. TypeOK' /\ Alone' /\ Accepted'
  BY DEF IInv, TypeOK, Alone, Accepted
<1>2. ASSUME NEW f \in Executions PROVE Placed(f)' /\ Accounted(f)' /\ Checked(f)'
  BY DEF IInv, Placed, Accounted, Checked
<1>3. Versioned' /\ (undone' = {} => \A r \in Readers : Preceded(r)')
  BY DEF IInv, Versioned, Intact, Preceded
<1>4. ASSUME edits' = 0, NEW f \in Executions PROVE Held(f)'
  BY <1>4 DEF IInv, Held
<1>5. ASSUME edits' = 0, undone' = {} PROVE Lagging' /\ \A r \in Readers : Current(r)'
  BY <1>5 DEF IInv, Lagging, Owing, Current
<1> QED
  BY <1>1, <1>2, <1>3, <1>4, <1>5 DEF IInv

LEMMA Preserved == IInv /\ [Next]_vars => IInv'
<1> SUFFICES ASSUME IInv, [Next]_vars PROVE IInv'
  OBVIOUS
<1>1. ASSUME NEW e \in Executions, PipelineStep(e) PROVE IInv'
  BY <1>1, ProposeKeeps, SuspendKeeps, StartKeeps, PersistOutcomeKeeps, PersistFailsKeeps
     DEF PipelineStep
<1>2. ASSUME NEW e \in Executions, WriteStep(e) PROVE IInv'
  BY <1>2, CheckKeeps, WriteFailsKeeps, RenameKeeps, ProjectKeeps, ProjectFailsKeeps,
     AppendWrittenKeeps, AppendFailsKeeps DEF WriteStep
<1>3. ASSUME NEW e \in Executions, RecoverStep(e) PROVE IInv'
  BY <1>3, ReplayRecordKeeps, ReplayRowKeeps, ReplayEventKeeps, ReplayStopsKeeps,
     RequireRecoveryKeeps DEF RecoverStep
<1>4. ASSUME NEW r \in Readers, ReadStep(r) PROVE IInv'
  BY <1>4, BeginReadKeeps, ProviderReadsKeeps, CommitReadKeeps DEF ReadStep
<1> QED
  BY <1>1, <1>2, <1>3, <1>4, StutterKeeps, RecoverOrphanedExecutionsKeeps, BootKeeps,
     CrashKeeps, EditKeeps DEF Next

\* The strengthening holds in every reachable state.
THEOREM Invariance == Spec => []IInv
  BY Initially, Preserved, PTL DEF Spec

\* Every variable keeps its type.
THEOREM TypeCorrect == Spec => []TypeOK
<1>1. IInv => TypeOK
  BY DEF IInv
<1> QED BY Invariance, <1>1, PTL

\* writeDocumentAtomically and recoverDocumentWrites: the target is replaced at
\* most once for an execution, whatever fails, and a write that happened is never
\* journaled as failed unless something threw behind its rename, one that has
\* announced itself only when the journal refused its success.
THEOREM Accounting == Spec => []WriteIsAccounted
<1>1. IInv => WriteIsAccounted
  BY DEF IInv, Accounted, WriteIsAccounted
<1> QED BY Invariance, <1>1, PTL

\* The version check of writeDocumentAtomically: two executions that name one
\* version never both replace it, unless a read of DocumentsService that commits
\* a stale projection has taken the row back to that version or below.
THEOREM Optimistic == Spec => []OneWritePerVersion
<1>1. IInv => OneWritePerVersion
  BY DEF IInv, Versioned, OneWritePerVersion
<1> QED BY Invariance, <1>1, PTL

\* projectDocument and commitProjection: a version stands for one content, with
\* the same exception.
THEOREM Versions == Spec => []VersionNamesOneContent
<1>1. ASSUME IInv, NEW p \in published, NEW q \in published, p[1] = q[1], Intact(p[1])
      PROVE  p[2] = q[2]
  <2>1. PICK n \in Nat, c \in Files : p = <<n, c>>
    BY <1>1 DEF IInv, TypeOK
  <2>2. PICK k \in Nat, d \in Files : q = <<k, d>>
    BY <1>1 DEF IInv, TypeOK
  <2> QED
    BY <1>1, <2>1, <2>2 DEF IInv, Versioned
<1>2. IInv => VersionNamesOneContent
  BY <1>1 DEF VersionNamesOneContent
<1> QED BY Invariance, <1>2, PTL

\* writeDocumentAtomically between its rename and its projection, through crashes,
\* storage failures and recovery, without edits from outside or stale reads: the
\* row of the one write the projection lags by tells of it (an orphan, one to be
\* recovered, or a failure whose projection threw).
THEOREM Projection == Spec => []ProjectionLagsByOneWrite
<1>1. IInv => ProjectionLagsByOneWrite
  BY DEF IInv, Lagging, Owing, ProjectionLagsByOneWrite
<1> QED BY Invariance, <1>1, PTL
=============================================================================
