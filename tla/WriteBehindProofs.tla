------------------------- MODULE WriteBehindProofs --------------------------
(***************************************************************************)
(* Proofs about WriteBehind, for any number of events, callers and refused *)
(* writes.                                                                 *)
(***************************************************************************)
EXTENDS WriteBehind, SequenceTheorems, WellFoundedInduction, TLAPS

(***************************************************************************)
(* The strengthening.                                                      *)
(***************************************************************************)
Operation ==
  [batch : Seq(Nat), background : BOOLEAN, stage : {"writing", "settling", "continuing"},
   ok : BOOLEAN]

TypeOK ==
  /\ emitted \in Nat /\ seed \in Nat /\ acknowledged \in Nat
  /\ log \in Seq(Nat) /\ pending \in Seq(Nat)
  /\ init \in {"none", "running", "ready", "failed"}
  /\ timer \in BOOLEAN
  /\ active \in BOOLEAN
  /\ barrier \in {"none", "overlap", "draining"}
  /\ writes \subseteq Operation
  /\ caller \in [Callers -> {"idle", "waiting", "joined"}]
  /\ mark \in [Callers -> Nat]

\* One background write and one of the barrier at most, and the second starts
\* behind the first.
OneAtATime ==
  /\ \A v, w \in writes : v.background = w.background => v = w
  /\ \A v, w \in writes : v.background /\ ~w.background => v.stage = "continuing"
  /\ active <=> \E w \in writes : w.stage # "continuing"
  /\ barrier = "draining" <=> \E w \in writes : ~w.background
  /\ barrier = "overlap" => \E w \in writes : w.background

\* The events of s are numbered from k on.
Runs(s, k) == \A i \in 1..Len(s) : s[i] = k + i - 1

\* The first event that is in the queue, and in the queue or the batch of w.
Queued == emitted - Len(pending)
Outstanding(w) == emitted - Len(pending) - Len(w.batch)

\* What is queued and being written are the last events of the session.
InLine ==
  /\ Len(pending) <= emitted
  /\ Runs(pending, Queued)
  /\ \A w \in Writing :
       /\ Len(w.batch) + Len(pending) <= emitted
       /\ Runs(w.batch, Outstanding(w))

\* The events before it are stored, or will be with the seed.
Floor == CASE init = "none" -> emitted
           [] init \in {"running", "failed"} -> seed
           [] init = "ready" -> Len(log)

Covered ==
  /\ log = D!Events(0, Len(log))
  /\ Len(log) <= emitted
  /\ seed <= emitted
  /\ init = "running" => Len(log) <= seed
  /\ init = "none" => pending = <<>> /\ writes = {} /\ ~timer
  /\ barrier # "none" => init = "ready"
  /\ Writing = {} => Queued <= Floor
  /\ \A w \in Writing : Outstanding(w) <= Floor

Promised ==
  /\ acknowledged <= Len(log)
  /\ \A c \in Callers : mark[c] <= emitted

IInv == TypeOK /\ OneAtATime /\ InLine /\ Covered /\ Promised

(***************************************************************************)
(* Numbers and sequences.                                                  *)
(***************************************************************************)
\* A bounded set of numbers has the maximum that Max chooses.
LEMMA MaxIs ==
  ASSUME NEW S, S \subseteq Nat, S # {}, NEW b \in Nat, \A x \in S : x <= b
  PROVE  Max(S) \in S /\ \A y \in S : y <= Max(S)
<1> DEFINE R == {p \in Nat \X Nat : p[1] < p[2]}
           U == {n \in Nat : \A x \in S : x <= n}
<1>1. IsWellFoundedOn(R, Nat)
  BY NatLessThanWellFounded, Zenon DEF OpToRel
<1>2. PICK m \in U : \A n \in U : <<n, m>> \notin R
  <2>1. U \subseteq Nat /\ U # {}
    <3>1. b \in U
      OBVIOUS
    <3> QED BY <3>1
  <2> HIDE DEF R, U
  <2> QED BY <1>1, <2>1, WFMin
<1>3. ASSUME NEW n \in U PROVE m <= n
  <2>1. n \in Nat /\ m \in Nat
    OBVIOUS
  <2>2. <<n, m>> \notin R
    BY <1>2, <1>3
  <2>3. n < m => <<n, m>> \in {p \in Nat \X Nat : p[1] < p[2]}
    BY <2>1
  <2> QED BY <2>1, <2>2, <2>3
<1>4. m \in S
  <2> SUFFICES ASSUME m \notin S PROVE FALSE
    OBVIOUS
  <2>1. \A x \in S : x <= m - 1
    BY m \in Nat
  <2>2. m - 1 \in Nat
    <3>1. PICK x \in S : x <= m - 1
      BY <2>1
    <3> QED BY <3>1, m \in Nat, x \in Nat
  <2> QED BY <1>3, <2>1, <2>2
<1> QED BY <1>4 DEF Max

\* A log of the first events, and what it is with the next ones behind it.
LEMMA EventsAre ==
  ASSUME NEW n \in Nat
  PROVE  /\ D!Events(0, n) \in Seq(Nat)
         /\ Len(D!Events(0, n)) = n
         /\ \A i \in 1..n : D!Events(0, n)[i] = i - 1
BY DEF D!Events

LEMMA Extended ==
  ASSUME NEW l \in Seq(Nat), l = D!Events(0, Len(l)), NEW f \in Seq(Nat), Runs(f, Len(l))
  PROVE  /\ l \o f \in Seq(Nat)
         /\ Len(l \o f) = Len(l) + Len(f)
         /\ l \o f = D!Events(0, Len(l \o f))
<1>1. l \o f \in Seq(Nat) /\ Len(l \o f) = Len(l) + Len(f)
  OBVIOUS
<1>2. ASSUME NEW i \in 1..Len(l \o f)
      PROVE  (l \o f)[i] = i - 1
  <2>1. CASE i <= Len(l)
    <3>1. i \in 1..Len(l) /\ (l \o f)[i] = l[i]
      BY <1>1, <2>1
    <3>2. D!Events(0, Len(l))[i] = i - 1
      BY <3>1, EventsAre, LenProperties
    <3> QED BY <3>1, <3>2
  <2>2. CASE i > Len(l)
    <3>1. Len(l) \in Nat /\ Len(f) \in Nat /\ i \in Nat /\ i <= Len(l) + Len(f)
      BY <1>1, LenProperties
    <3>2. i - Len(l) \in 1..Len(f)
      BY <3>1, <2>2
    <3>3. (l \o f)[i] = f[i - Len(l)]
      BY <3>1, <2>2
    <3>4. f[i - Len(l)] = Len(l) + (i - Len(l)) - 1
      BY <3>2 DEF Runs
    <3> QED BY <3>1, <3>3, <3>4
  <2> QED BY <2>1, <2>2, <1>1, LenProperties
<1> DEFINE cat == l \o f
           n == Len(l \o f)
<1>3. n \in Nat /\ cat \in [1..n -> Nat]
  BY <1>1, LenProperties, Zenon
<1>4. \A i \in 1..n : cat[i] = i - 1
  BY <1>2
<1> HIDE DEF n, cat
<1>5. D!Events(0, n) = [i \in 1..n |-> i - 1]
  BY <1>3 DEF D!Events
<1>6. cat = D!Events(0, n)
  BY <1>3, <1>4, <1>5
<1> QED BY <1>1, <1>6 DEF n, cat

\* Of a batch that starts where the log ends, or before, what is not stored yet
\* continues the log, and nothing of it is left out.
LEMMA Freshened ==
  ASSUME log \in Seq(Nat), NEW b \in Seq(Nat), NEW k \in Nat, Runs(b, k), k <= Len(log)
  PROVE  /\ Fresh(b) \in Seq(Nat)
         /\ Runs(Fresh(b), Len(log))
         /\ Len(log) + Len(Fresh(b)) >= k + Len(b)
         /\ Len(Fresh(b)) = 0 \/ Len(log) + Len(Fresh(b)) = k + Len(b)
<1> DEFINE From(f) == \A i \in 1..Len(b) : i >= f <=> b[i] >= Len(log)
           first == CHOOSE f \in 1..(Len(b) + 1) : From(f)
           here == IF Len(log) - k <= Len(b) THEN Len(log) - k + 1 ELSE Len(b) + 1
<1>0. /\ Len(b) \in Nat /\ Len(log) \in Nat
      /\ \A i \in 1..Len(b) : b[i] = k + i - 1
  BY DEF Runs
<1>1. here \in 1..(Len(b) + 1) /\ From(here)
  BY <1>0
<1>2. first \in 1..(Len(b) + 1) /\ From(first)
  BY <1>1
<1>3. Fresh(b) = SubSeq(b, first, Len(b))
  BY DEF Fresh
<1> HIDE DEF first, here
<1>4. /\ Fresh(b) \in Seq(Nat)
      /\ Len(Fresh(b)) = Len(b) - first + 1
      /\ \A i \in 1..Len(Fresh(b)) : Fresh(b)[i] = b[first + i - 1]
  BY <1>2, <1>3
<1>5. \A i \in 1..Len(b) : i >= first <=> k + i - 1 >= Len(log)
  BY <1>0, <1>2
<1> HIDE DEF From
<1>6. CASE first = Len(b) + 1
  <2>1. Len(b) > 0 => k + Len(b) - 1 < Len(log)
    BY <1>0, <1>5, <1>6
  <2>2. Len(Fresh(b)) = 0
    BY <1>0, <1>4, <1>6
  <2> QED BY <1>0, <1>4, <2>1, <2>2 DEF Runs
<1>7. CASE first \in 1..Len(b)
  <2>1. k + first - 1 >= Len(log)
    BY <1>0, <1>5, <1>7
  <2>2. first > 1 => k + first - 2 < Len(log)
    <3> SUFFICES ASSUME first > 1 PROVE k + first - 2 < Len(log)
      OBVIOUS
    <3>1. first - 1 \in 1..Len(b) /\ ~(first - 1 >= first)
      BY <1>0, <1>7
    <3>2. ~(k + (first - 1) - 1 >= Len(log))
      BY <1>5, <3>1
    <3> QED BY <1>0, <1>7, <3>2
  <2>0. first \in Nat /\ first >= 1
    BY <1>0, <1>7
  <2>3. k + first - 1 = Len(log)
    <3>1. CASE first = 1
      BY <1>0, <2>1, <3>1
    <3>2. CASE first > 1
      BY <1>0, <2>0, <2>1, <2>2, <3>2
    <3> QED BY <2>0, <3>1, <3>2
  <2>4. ASSUME NEW i \in 1..Len(Fresh(b))
        PROVE  Fresh(b)[i] = Len(log) + i - 1
    <3>1. first + i - 1 \in 1..Len(b)
      BY <1>0, <1>4, <1>7
    <3>2. Fresh(b)[i] = k + (first + i - 1) - 1
      BY <1>0, <1>4, <3>1
    <3>3. i \in Nat
      BY <1>0, <1>4
    <3>4. k + (first + i - 1) - 1 = (k + first - 1) + i - 1
      BY <2>0, <3>3
    <3> QED BY <2>3, <3>2, <3>4
  <2>5. Runs(Fresh(b), Len(log))
    BY <2>4 DEF Runs
  <2>6. Len(log) + Len(Fresh(b)) = k + Len(b)
    <3>1. Len(Fresh(b)) = Len(b) - first + 1
      BY <1>4
    <3>2. Len(b) \in Nat /\ Len(log) \in Nat
      BY <1>0
    <3> HIDE DEF Fresh
    <3>3. ASSUME NEW l \in Nat, NEW n \in Nat, k + first - 1 = l
          PROVE  l + (n - first + 1) = k + n
      BY <2>0, <3>3
    <3>4. Len(log) + (Len(b) - first + 1) = k + Len(b)
      BY <2>3, <3>2, <3>3, Zenon
    <3> QED BY <3>1, <3>4
  <2> QED BY <1>0, <1>4, <2>5, <2>6
<1> QED BY <1>0, <1>2, <1>6, <1>7

(***************************************************************************)
(* The write operations.                                                   *)
(***************************************************************************)
LEMMA Initially == Init => IInv
<1> SUFFICES ASSUME Init PROVE IInv
  OBVIOUS
<1>1. emitted \in Nat
  BY WriteBehindAssumption DEF Init
<1>2. PICK k \in 0..emitted : log = D!Events(0, k)
  BY DEF Init
<1>3. log \in Seq(Nat) /\ Len(log) = k
  BY <1>1, <1>2, EventsAre
<1>4. TypeOK
  <2>1. caller \in [Callers -> {"idle", "waiting", "joined"}] /\ mark \in [Callers -> Nat]
    BY DEF Init
  <2>2. pending \in Seq(Nat) /\ writes \subseteq Operation
    BY DEF Init
  <2> QED BY <1>1, <1>3, <2>1, <2>2 DEF Init, TypeOK
<1>5. OneAtATime
  BY DEF Init, OneAtATime
<1>6. InLine
  BY <1>1 DEF Init, InLine, Runs, Writing
<1>7. Covered
  <2>1. Queued = emitted /\ Floor = emitted /\ Writing = {}
    BY <1>1 DEF Init, Queued, Floor, Writing
  <2>2. log = D!Events(0, Len(log)) /\ Len(log) <= emitted
    BY <1>1, <1>2, <1>3
  <2> QED BY <1>1, <2>1, <2>2 DEF Init, Covered
<1>8. Promised
  BY <1>1, <1>3 DEF Init, Promised
<1> QED BY <1>4, <1>5, <1>6, <1>7, <1>8 DEF IInv

\* An operation goes on to its next job.
LEMMA Advanced ==
  ASSUME TypeOK, OneAtATime, NEW w \in writes, w.stage # "continuing",
         NEW v \in Operation, v.batch = w.batch, v.background = w.background,
         writes' = (writes \ {w}) \union {v},
         active' <=> v.stage # "continuing",
         UNCHANGED barrier
  PROVE  writes' \subseteq Operation /\ OneAtATime'
<1>1. \A u \in writes : u.background \in BOOLEAN
  BY DEF TypeOK, Operation
<1>2. \A u \in writes \ {w} : u.stage = "continuing"
  BY <1>1 DEF OneAtATime
<1>3. \A u \in writes' : u = v \/ (u \in writes /\ u # w)
  OBVIOUS
<1>4. writes' \subseteq Operation
  BY DEF TypeOK
<1>5. \A t, u \in writes' : t.background = u.background => t = u
  BY <1>3 DEF OneAtATime
<1>6. \A t, u \in writes' : t.background /\ ~u.background => t.stage = "continuing"
  BY <1>1, <1>2, <1>3 DEF OneAtATime
<1>7. active' <=> \E u \in writes' : u.stage # "continuing"
  BY <1>2, <1>3
<1>8. (\E u \in writes' : ~u.background) <=> \E u \in writes : ~u.background
  BY <1>3
<1>9. (\E u \in writes : u.background) => \E u \in writes' : u.background
  BY <1>3
<1> QED BY <1>4, <1>5, <1>6, <1>7, <1>8, <1>9 DEF OneAtATime

\* startWrite: what was queued is being written.
LEMMA Taken ==
  ASSUME TypeOK, InLine, Covered, Writing = {}, init # "none",
         NEW others \in SUBSET writes, \A v \in others : v.stage = "continuing",
         NEW background \in BOOLEAN,
         StartWrite(others, background),
         UNCHANGED <<emitted, log, init, seed>>,
         barrier' # "none" => init = "ready"
  PROVE  /\ pending' \in Seq(Nat) /\ writes' \subseteq Operation
         /\ InLine' /\ Covered'
<1>0. PICK w : w = Write(pending, background, "writing", TRUE)
  OBVIOUS
<1>1. /\ w \in Operation
      /\ w.batch = pending /\ w.stage = "writing" /\ w.background = background
  BY <1>0 DEF TypeOK, Write, Operation
<1>2. writes' = others \union {w} /\ pending' = <<>> /\ timer' = FALSE
  BY <1>0 DEF StartWrite
<1>3. Writing' = {w}
  BY <1>1, <1>2 DEF Writing
<1>4. pending' \in Seq(Nat) /\ writes' \subseteq Operation /\ Len(pending') = 0
  BY <1>1, <1>2 DEF TypeOK
<1>5. emitted \in Nat /\ Len(pending) \in Nat /\ Len(log) \in Nat /\ seed \in Nat
  BY LenProperties DEF TypeOK
<1>6. Queued' = emitted /\ Outstanding(w)' = Queued
  BY <1>1, <1>4, <1>5 DEF Queued, Outstanding
<1>7. InLine'
  <2>1. Runs(pending, Queued) /\ Len(pending) <= emitted
    BY DEF InLine
  <2>2. Runs(w.batch, Outstanding(w))'
    BY <1>1, <1>6, <2>1 DEF Runs
  <2>3. Runs(pending, Queued)'
    BY <1>4 DEF Runs
  <2>4. (Len(w.batch) + Len(pending) <= emitted)'
    BY <1>1, <1>4, <1>5, <2>1
  <2>5. (Len(pending) <= emitted)'
    BY <1>4, <1>5
  <2> QED BY <1>3, <2>2, <2>3, <2>4, <2>5 DEF InLine
<1>8. Covered'
  <2>1. Floor' = Floor
    BY DEF Floor
  <2>2. Queued <= Floor
    BY DEF Covered
  <2>3. \A v \in Writing' : (Outstanding(v) <= Floor)'
    BY <1>3, <1>6, <2>1, <2>2
  <2>4. Writing' # {}
    BY <1>3
  <2> QED BY <2>3, <2>4 DEF Covered
<1> QED BY <1>4, <1>7, <1>8

LEMMA Released ==
  ASSUME TypeOK, Promised, NEW callers, Release(callers)
  PROVE  /\ caller' \in [Callers -> {"idle", "waiting", "joined"}]
         /\ mark' \in [Callers -> Nat]
         /\ \A c \in Callers : mark'[c] <= emitted
BY DEF TypeOK, Promised, Release

\* A flush promises nothing but what is stored.
LEMMA Fulfilled ==
  ASSUME TypeOK, Promised, emitted = Len(log), NEW callers \in SUBSET Callers, Fulfil(callers)
  PROVE  /\ acknowledged' \in acknowledged..Len(log)
         /\ caller' \in [Callers -> {"idle", "waiting", "joined"}]
         /\ mark' \in [Callers -> Nat]
         /\ \A c \in Callers : mark'[c] <= emitted
<1> DEFINE S == {acknowledged} \union {mark[c] : c \in callers}
<1>1. acknowledged \in Nat /\ emitted \in Nat
  BY DEF TypeOK
<1>2. \A c \in callers : mark[c] \in Nat /\ mark[c] <= emitted
  BY DEF TypeOK, Promised
<1>3. acknowledged \in S
  OBVIOUS
<1>4. S \subseteq Nat /\ \A x \in S : x <= emitted
  BY <1>1, <1>2 DEF Promised
<1>5. acknowledged' = Max(S)
  BY DEF Fulfil
<1> HIDE DEF S
<1>6. Max(S) \in S /\ \A y \in S : y <= Max(S)
  BY <1>1, <1>3, <1>4, MaxIs
<1>7. acknowledged' \in acknowledged..Len(log)
  <2>1. Max(S) \in Nat /\ Max(S) <= emitted /\ acknowledged <= Max(S)
    BY <1>3, <1>4, <1>6
  <2> QED BY <1>1, <1>5, <2>1
<1> QED BY <1>7, Released DEF Fulfil

\* When nothing is queued or being written, everything is stored.
LEMMA AllStored ==
  ASSUME TypeOK, Covered, init = "ready", Writing = {}, pending = <<>>
  PROVE  emitted = Len(log)
<1>1. Len(pending) = 0 /\ emitted \in Nat /\ Len(log) \in Nat
  BY LenProperties DEF TypeOK
<1>2. emitted - 0 <= Len(log)
  BY <1>1 DEF Covered, Queued, Floor
<1> QED BY <1>1, <1>2 DEF Covered

LEMMA DrainKeeps ==
  ASSUME IInv, init = "ready", NEW others \in SUBSET writes,
         \A v \in writes : v.stage = "continuing",
         \A v \in others : v.background,
         NEW callers \in SUBSET Callers, Drain(others, callers), timer' \in BOOLEAN,
         UNCHANGED <<emitted, log, init, seed>>
  PROVE  IInv'
<1>1. Writing = {} /\ ~active
  BY DEF Writing, IInv, OneAtATime
<1>2. CASE pending # <<>>
  <2>1. /\ StartWrite(others, FALSE) /\ barrier' = "draining"
        /\ caller' = [c \in Callers |-> IF c \in callers THEN "joined" ELSE caller[c]]
        /\ UNCHANGED <<mark, acknowledged>>
    BY <1>2 DEF Drain
  <2>2. /\ pending' \in Seq(Nat) /\ writes' \subseteq Operation
        /\ InLine' /\ Covered'
    BY <1>1, <2>1, Taken DEF IInv
  <2>3. active' = TRUE
    BY <2>1 DEF StartWrite
  <2>4. TypeOK'
    BY <2>1, <2>2, <2>3 DEF IInv, TypeOK
  <2>5. OneAtATime'
    <3>1. PICK w : /\ w.background = FALSE /\ w.stage = "writing"
                   /\ writes' = others \union {w}
      BY <2>1 DEF StartWrite, Write
    <3>2. \A u \in writes' : u = w \/ (u \in writes /\ u.background /\ u.stage = "continuing")
      BY <3>1
    <3>3. \A t, u \in writes' : t.background = u.background => t = u
      BY <3>1, <3>2 DEF IInv, OneAtATime
    <3>4. \A t, u \in writes' : t.background /\ ~u.background => t.stage = "continuing"
      BY <3>1, <3>2
    <3> QED BY <2>1, <2>3, <3>1, <3>2, <3>3, <3>4 DEF OneAtATime
  <2>6. Promised'
    BY <2>1 DEF IInv, Promised
  <2> QED BY <2>2, <2>4, <2>5, <2>6 DEF IInv
<1>3. CASE pending = <<>>
  <2>1. barrier' = "none" /\ writes' = others /\ Fulfil(callers) /\ UNCHANGED <<pending, active>>
    BY <1>3 DEF Drain
  <2>2. emitted = Len(log)
    BY <1>1, <1>3, AllStored DEF IInv
  <2>3. /\ acknowledged' \in acknowledged..Len(log)
        /\ caller' \in [Callers -> {"idle", "waiting", "joined"}]
        /\ mark' \in [Callers -> Nat]
        /\ \A c \in Callers : mark'[c] <= emitted
    BY <2>1, <2>2, Fulfilled DEF IInv
  <2>4. acknowledged' \in Nat /\ acknowledged' <= Len(log)
    BY <2>2, <2>3 DEF IInv, TypeOK
  <2>5. TypeOK'
    BY <2>1, <2>3, <2>4 DEF IInv, TypeOK
  <2>6. OneAtATime'
    BY <1>1, <2>1 DEF IInv, OneAtATime
  <2>7. Writing' = {}
    BY <2>1 DEF Writing
  <2>8. InLine'
    BY <2>1, <2>7 DEF IInv, InLine, Queued
  <2>9. Covered'
    <3>1. Floor' = Floor /\ Queued' = Queued
      BY <2>1 DEF Floor, Queued
    <3> QED BY <1>1, <2>1, <2>7, <3>1 DEF IInv, Covered
  <2>10. Promised'
    BY <2>3, <2>4 DEF Promised
  <2> QED BY <2>5, <2>6, <2>8, <2>9, <2>10 DEF IInv
<1> QED BY <1>2, <1>3

(***************************************************************************)
(* The steps.                                                              *)
(***************************************************************************)
LEMMA AttachKeeps ==
  ASSUME IInv, Attach
  PROVE  IInv'
<1> USE DEF IInv, Attach, InitFor, writerVars, callerVars
<1>1. init = "none" /\ init' = "running" /\ seed' = emitted
  OBVIOUS
<1>2. TypeOK'
  BY <1>1 DEF TypeOK
<1>3. OneAtATime'
  BY DEF OneAtATime
<1>4. Writing' = Writing /\ Queued' = Queued
  BY DEF Writing, Queued
<1>5. InLine'
  BY <1>4 DEF InLine, Outstanding
<1>6. Covered'
  <2>1. Writing = {} /\ barrier = "none" /\ Queued <= emitted
    BY <1>1 DEF Covered, Writing, Floor
  <2>2. Floor' = emitted
    BY <1>1 DEF Floor
  <2> QED BY <1>1, <1>4, <2>1, <2>2 DEF Covered, TypeOK
<1>7. Promised'
  BY DEF Promised
<1> QED BY <1>2, <1>3, <1>5, <1>6, <1>7

\* The new event is queued behind the others; if it is the first that the
\* coordinator sees, the seed holds it as well.
LEMMA EmitKeeps ==
  ASSUME IInv, Emit
  PROVE  IInv'
<1> USE DEF IInv
<1>1. emitted \in Nat /\ Len(pending) \in Nat /\ Len(log) \in Nat /\ seed \in Nat
  BY LenProperties DEF TypeOK
<1>2. /\ emitted' = emitted + 1
      /\ pending' = Append(pending, emitted)
      /\ UNCHANGED <<log, active, barrier, writes, caller, mark, acknowledged>>
  BY DEF Emit, Enqueue, callerVars
<1>3. \/ init = "none" /\ init' = "running" /\ seed' = emitted + 1
      \/ init # "none" /\ UNCHANGED <<init, seed>>
  BY DEF Emit, InitFor
<1>4. timer' \in BOOLEAN
  BY DEF Emit, Enqueue, TypeOK
<1>5. /\ pending' \in Seq(Nat)
      /\ Len(pending') = Len(pending) + 1
      /\ \A i \in 1..Len(pending) : pending'[i] = pending[i]
      /\ pending'[Len(pending) + 1] = emitted
  BY <1>1, <1>2 DEF TypeOK
<1>6. TypeOK'
  BY <1>1, <1>2, <1>3, <1>4, <1>5 DEF TypeOK
<1>7. OneAtATime'
  BY <1>2 DEF OneAtATime
<1>8. Writing' = Writing
  BY <1>2 DEF Writing
<1>9. Queued' = Queued /\ \A w \in Writing : Outstanding(w)' = Outstanding(w)
  <2>1. (emitted + 1) - (Len(pending) + 1) = emitted - Len(pending)
    BY <1>1
  <2> QED BY <1>2, <1>5, <2>1 DEF Queued, Outstanding
<1>10. InLine'
  <2>1. ASSUME NEW i \in 1..Len(pending')
        PROVE  pending'[i] = Queued + i - 1
    <3>1. CASE i \in 1..Len(pending)
      BY <1>5, <3>1 DEF InLine, Runs
    <3>2. CASE i = Len(pending) + 1
      BY <1>1, <1>5, <3>2 DEF Queued
    <3> QED BY <1>1, <1>5, <3>1, <3>2
  <2>2. ASSUME NEW w \in Writing
        PROVE  /\ (Len(w.batch) + Len(pending) <= emitted)'
               /\ Runs(w.batch, Outstanding(w))'
    <3>1. Len(w.batch) \in Nat
      BY LenProperties DEF TypeOK, Operation, Writing
    <3>2. Len(w.batch) + Len(pending) <= emitted
      BY DEF InLine
    <3>0. ASSUME NEW m \in Nat, NEW n \in Nat, m + n <= emitted
          PROVE  m + (n + 1) <= emitted + 1
      BY <1>1, <3>0
    <3>3. Len(w.batch) + (Len(pending) + 1) <= emitted + 1
      BY <1>1, <3>0, <3>1, <3>2, Zenon
    <3>4. (Len(w.batch) + Len(pending) <= emitted)'
      BY <1>2, <1>5, <3>3
    <3> QED BY <1>9, <3>4 DEF InLine, Runs
  <2>3. (Len(pending) <= emitted)'
    BY <1>1, <1>2, <1>5 DEF InLine
  <2> QED BY <1>8, <1>9, <2>1, <2>2, <2>3 DEF InLine, Runs
<1>11. Covered'
  <2>1. Len(log) <= emitted' /\ seed' <= emitted'
    BY <1>1, <1>2, <1>3 DEF Covered
  <2>2. CASE init # "none"
    <3>1. Floor' = Floor
      BY <1>2, <1>3, <2>2 DEF Floor, TypeOK
    <3> QED BY <1>2, <1>3, <1>8, <1>9, <2>1, <2>2, <3>1 DEF Covered
  <2>3. CASE init = "none"
    <3>1. Writing = {} /\ barrier = "none" /\ Queued <= emitted /\ init' = "running"
      BY <1>3, <2>3 DEF Covered, Writing, Floor
    <3>2. Floor' = emitted + 1 /\ Queued \in Int
      BY <1>1, <1>3, <2>3 DEF Floor, Queued
    <3>3. Queued <= emitted + 1 /\ Len(log) <= emitted + 1
      BY <1>1, <3>1, <3>2 DEF Covered
    <3> QED BY <1>2, <1>3, <1>8, <1>9, <2>1, <2>3, <3>1, <3>2, <3>3 DEF Covered
  <2> QED BY <2>2, <2>3
<1>12. Promised'
  <2>1. \A c \in Callers : mark[c] \in Nat /\ mark[c] <= emitted
    BY DEF Promised, TypeOK
  <2> QED BY <1>1, <1>2, <2>1 DEF Promised
<1> QED BY <1>6, <1>7, <1>10, <1>11, <1>12

LEMMA InitSucceedsKeeps ==
  ASSUME IInv, InitSucceeds
  PROVE  IInv'
<1> USE DEF IInv, InitSucceeds, writerVars, callerVars
<1>1. log' \in Seq(Nat) /\ Len(log') = seed /\ log' = D!Events(0, seed)
  BY EventsAre DEF TypeOK
<1>2. Writing' = Writing /\ Queued' = Queued /\ \A w \in Writing : Outstanding(w)' = Outstanding(w)
  BY DEF Writing, Queued, Outstanding
<1>3. Floor' = Floor
  BY <1>1 DEF Floor
<1>4. TypeOK'
  BY <1>1 DEF TypeOK
<1>5. OneAtATime'
  BY DEF OneAtATime
<1>6. InLine'
  BY <1>2 DEF InLine
<1>7. Covered'
  BY <1>1, <1>2, <1>3 DEF Covered
<1>8. Promised'
  BY <1>1 DEF Covered, Promised, TypeOK
<1> QED BY <1>4, <1>5, <1>6, <1>7, <1>8

LEMMA InitFailsKeeps ==
  ASSUME IInv, InitFails
  PROVE  IInv'
<1> USE DEF IInv, InitFails, writerVars, callerVars
<1>1. Writing' = Writing /\ Queued' = Queued /\ \A w \in Writing : Outstanding(w)' = Outstanding(w)
  BY DEF Writing, Queued, Outstanding
<1>2. Floor' = Floor
  BY DEF Floor
<1>3. TypeOK' /\ OneAtATime' /\ Promised'
  BY DEF TypeOK, OneAtATime, Promised
<1>4. InLine'
  BY <1>1 DEF InLine
<1>5. Covered'
  BY <1>1, <1>2 DEF Covered
<1> QED BY <1>3, <1>4, <1>5

\* What a write of the storage may rely on.
LEMMA InWriting ==
  ASSUME IInv, NEW w \in writes, w.stage = "writing"
  PROVE  /\ w \in Operation /\ Writing = {w} /\ active
         /\ Outstanding(w) \in Nat /\ Queued = Outstanding(w) + Len(w.batch)
         /\ Runs(w.batch, Outstanding(w)) /\ Runs(pending, Queued)
         /\ Outstanding(w) <= Floor
<1> USE DEF IInv
<1>1. w \in Operation /\ w \in Writing
  BY DEF TypeOK, Writing
<1>2. \A v \in writes : v.background \in BOOLEAN
  BY DEF TypeOK, Operation
<1>3. Writing = {w} /\ active
  BY <1>2 DEF OneAtATime, Writing
<1>4. Len(w.batch) \in Nat /\ Len(pending) \in Nat /\ emitted \in Nat
  BY <1>1, LenProperties DEF TypeOK, Operation
<1>5. Len(w.batch) + Len(pending) <= emitted
  BY <1>1 DEF InLine
<1>6. ASSUME NEW m \in Nat, NEW n \in Nat, m + n <= emitted
      PROVE  emitted - n - m \in Nat /\ emitted - n = (emitted - n - m) + m
  BY <1>4, <1>6
<1>7. Outstanding(w) \in Nat /\ Queued = Outstanding(w) + Len(w.batch)
  BY <1>4, <1>5, <1>6, Zenon DEF Outstanding, Queued
<1> QED BY <1>1, <1>3, <1>7 DEF InLine, Covered

LEMMA WriteSucceedsKeeps ==
  ASSUME IInv, NEW w \in writes, WriteSucceeds(w)
  PROVE  IInv'
<1> DEFINE k == Outstanding(w)
           fresh == Fresh(w.batch)
<1>1. /\ w \in Operation /\ Writing = {w} /\ active
      /\ k \in Nat /\ Queued = k + Len(w.batch)
      /\ Runs(w.batch, k) /\ Runs(pending, Queued)
      /\ k <= Floor
  BY InWriting DEF WriteSucceeds
<1>2. init = "ready" /\ w.batch \in Seq(Nat) /\ log \in Seq(Nat)
  BY <1>1 DEF IInv, TypeOK, WriteSucceeds, Operation
<1>3. k <= Len(log)
  BY <1>1, <1>2 DEF Floor
<1>4. /\ fresh \in Seq(Nat) /\ Runs(fresh, Len(log))
      /\ Len(log) + Len(fresh) >= k + Len(w.batch)
      /\ Len(fresh) = 0 \/ Len(log) + Len(fresh) = k + Len(w.batch)
  <2> HIDE DEF k
  <2> QED BY <1>1, <1>2, <1>3, Freshened
<1>5. /\ log' \in Seq(Nat) /\ Len(log') = Len(log) + Len(fresh)
      /\ log' = D!Events(0, Len(log'))
  <2>1. log = D!Events(0, Len(log)) /\ log' = log \o fresh
    BY DEF IInv, Covered, WriteSucceeds
  <2> HIDE DEF fresh
  <2> QED BY <1>2, <1>4, <2>1, Extended
<1> HIDE DEF k, fresh
<1>6. PICK v : v = [w EXCEPT !.stage = "settling"]
  OBVIOUS
<1>7. /\ v \in Operation /\ v.batch = w.batch /\ v.background = w.background
      /\ v.stage = "settling"
  BY <1>1, <1>6 DEF Operation
<1>8. writes' \subseteq Operation /\ OneAtATime'
  BY <1>1, <1>6, <1>7, Advanced DEF IInv, WriteSucceeds
<1>9. Writing' = {}
  BY <1>1, <1>6, <1>7 DEF WriteSucceeds, Writing
<1>10. Queued \in Nat /\ Queued <= emitted /\ Queued' = Queued
  BY <1>1, <1>2, LenProperties DEF WriteSucceeds, Queued, IInv, TypeOK
<1>11. Queued <= Len(log') /\ Len(log') <= emitted /\ Len(log) <= Len(log')
  <2>1. /\ Len(log) \in Nat /\ Len(fresh) \in Nat /\ Len(log) <= emitted
    BY <1>2, <1>4, LenProperties DEF IInv, Covered
  <2>2. Len(log) + Len(fresh) >= Queued
    BY <1>1, <1>4
  <2>3. Len(log) + Len(fresh) = Queued \/ Len(fresh) = 0
    BY <1>1, <1>4
  <2>4. emitted \in Nat
    BY DEF IInv, TypeOK
  <2> HIDE DEF Queued
  <2>5. ASSUME NEW m \in Nat, NEW n \in Nat, m <= emitted, m + n >= Queued,
               m + n = Queued \/ n = 0
        PROVE  Queued <= m + n /\ m + n <= emitted /\ m <= m + n
    BY <1>10, <2>4, <2>5
  <2> QED BY <1>5, <2>1, <2>2, <2>3, <2>5
<1>12. TypeOK'
  BY <1>5, <1>8 DEF IInv, TypeOK, WriteSucceeds, callerVars
<1>13. InLine'
  BY <1>9, <1>10 DEF IInv, InLine, WriteSucceeds
<1>14. Floor' = Len(log')
  BY <1>2 DEF Floor, WriteSucceeds
<1>15. Covered'
  BY <1>2, <1>5, <1>9, <1>10, <1>11, <1>14 DEF IInv, Covered, WriteSucceeds
<1>16. Promised'
  <2>1. acknowledged \in Nat /\ acknowledged <= Len(log) /\ Len(log) \in Nat /\ Len(log') \in Nat
    BY <1>2, <1>5, LenProperties DEF IInv, TypeOK, Promised
  <2> QED BY <1>11, <2>1 DEF IInv, Promised, WriteSucceeds, callerVars
<1> QED BY <1>8, <1>12, <1>13, <1>15, <1>16 DEF IInv

LEMMA Rejoined ==
  ASSUME NEW b \in Seq(Nat), NEW s \in Seq(Nat), NEW k \in Nat,
         Runs(b, k), Runs(s, k + Len(b))
  PROVE  /\ b \o s \in Seq(Nat) /\ Len(b \o s) = Len(b) + Len(s)
         /\ Runs(b \o s, k)
<1>1. /\ b \o s \in Seq(Nat) /\ Len(b \o s) = Len(b) + Len(s)
      /\ Len(b) \in Nat /\ Len(s) \in Nat
  BY ConcatProperties, LenProperties
<1>2. ASSUME NEW i \in 1..Len(b \o s)
      PROVE  (b \o s)[i] = k + i - 1
  <2>1. CASE i <= Len(b)
    <3>1. i \in 1..Len(b) /\ (b \o s)[i] = b[i]
      BY <1>1, <2>1
    <3> QED BY <3>1 DEF Runs
  <2>2. CASE i > Len(b)
    <3>1. i - Len(b) \in 1..Len(s) /\ (b \o s)[i] = s[i - Len(b)]
      BY <1>1, <2>2
    <3>2. s[i - Len(b)] = (k + Len(b)) + (i - Len(b)) - 1
      BY <3>1 DEF Runs
    <3>3. ASSUME NEW n \in Nat PROVE (k + n) + (i - n) - 1 = k + i - 1
      BY <1>1
    <3> QED BY <1>1, <3>1, <3>2, <3>3
  <2> QED BY <1>1, <2>1, <2>2
<1> QED BY <1>1, <1>2 DEF Runs

LEMMA WriteFailsKeeps ==
  ASSUME IInv, NEW w \in writes, WriteFails(w)
  PROVE  IInv'
<1> DEFINE k == Outstanding(w)
<1>1. /\ w \in Operation /\ Writing = {w} /\ active
      /\ k \in Nat /\ Queued = k + Len(w.batch)
      /\ Runs(w.batch, k) /\ Runs(pending, Queued)
      /\ k <= Floor
  BY InWriting DEF WriteFails
<1>2. /\ pending' = w.batch \o pending /\ w.batch \in Seq(Nat) /\ pending \in Seq(Nat)
      /\ timer' = FALSE /\ init # "none" /\ w.stage = "writing"
      /\ UNCHANGED <<emitted, log, init, seed, active, barrier, caller, mark, acknowledged>>
  BY <1>1 DEF IInv, TypeOK, WriteFails, Operation, callerVars
<1>3. /\ pending' \in Seq(Nat) /\ Len(pending') = Len(w.batch) + Len(pending)
      /\ Runs(pending', k)
  <2> HIDE DEF k
  <2> QED BY <1>1, <1>2, Rejoined
<1>4. PICK v : v = [w EXCEPT !.stage = "settling", !.ok = FALSE]
  OBVIOUS
<1>5. /\ v \in Operation /\ v.batch = w.batch /\ v.background = w.background
      /\ v.stage = "settling" /\ writes' = (writes \ {w}) \union {v}
  BY <1>1, <1>4 DEF Operation, WriteFails
<1>6. writes' \subseteq Operation /\ OneAtATime'
  BY <1>1, <1>2, <1>5, Advanced DEF IInv
<1>7. Writing' = {}
  BY <1>1, <1>5 DEF Writing
<1>8. Queued' = k /\ Len(pending') <= emitted
  <2>1. /\ Len(w.batch) \in Nat /\ Len(pending) \in Nat /\ emitted \in Nat
        /\ Len(w.batch) + Len(pending) <= emitted
    BY <1>1, <1>2, LenProperties DEF IInv, TypeOK, InLine
  <2>2. ASSUME NEW m \in Nat, NEW n \in Nat PROVE emitted - (m + n) = emitted - n - m
    BY <2>1
  <2> QED BY <1>2, <1>3, <2>1, <2>2 DEF Queued, Outstanding
<1> HIDE DEF k
<1>9. TypeOK'
  BY <1>2, <1>3, <1>6 DEF IInv, TypeOK
<1>10. InLine'
  BY <1>2, <1>3, <1>7, <1>8 DEF InLine
<1>11. Floor' = Floor
  BY <1>2 DEF Floor
<1>12. Covered'
  BY <1>1, <1>2, <1>7, <1>8, <1>11 DEF IInv, Covered
<1>13. Promised'
  BY <1>2 DEF IInv, Promised
<1> QED BY <1>6, <1>9, <1>10, <1>12, <1>13 DEF IInv

LEMMA ClearActiveKeeps ==
  ASSUME IInv, NEW w \in writes, ClearActive(w)
  PROVE  IInv'
<1>1. PICK v : v = [w EXCEPT !.stage = "continuing"]
  OBVIOUS
<1>2. /\ v \in Operation /\ v.batch = w.batch /\ v.background = w.background
      /\ v.stage = "continuing" /\ writes' = (writes \ {w}) \union {v} /\ active' = FALSE
      /\ w.stage = "settling"
      /\ UNCHANGED <<emitted, log, init, seed, pending, timer, barrier, caller, mark,
                     acknowledged>>
  BY <1>1 DEF IInv, TypeOK, Operation, ClearActive, callerVars
<1>3. writes' \subseteq Operation /\ OneAtATime'
  BY <1>2, Advanced DEF IInv
<1>4. /\ Writing' = Writing /\ Queued' = Queued /\ Floor' = Floor
      /\ \A x \in Writing : Outstanding(x)' = Outstanding(x)
  BY <1>2 DEF Writing, Queued, Floor, Outstanding
<1>5. TypeOK'
  BY <1>2, <1>3 DEF IInv, TypeOK
<1>6. InLine'
  BY <1>2, <1>4 DEF IInv, InLine
<1>7. Covered'
  BY <1>2, <1>4 DEF IInv, Covered
<1>8. Promised'
  BY <1>2 DEF IInv, Promised
<1> QED BY <1>3, <1>5, <1>6, <1>7, <1>8 DEF IInv

\* A background write starts when no other is left.
LEMMA BackgroundStarts ==
  ASSUME IInv, init # "none", barrier = "none", StartWrite({}, TRUE), Writing = {},
         UNCHANGED <<emitted, log, init, seed, barrier, caller, mark, acknowledged>>
  PROVE  IInv'
<1>1. /\ pending' \in Seq(Nat) /\ writes' \subseteq Operation
      /\ InLine' /\ Covered'
  BY Taken DEF IInv
<1>2. PICK w : w.background = TRUE /\ w.stage = "writing" /\ writes' = {w}
  BY DEF StartWrite, Write
<1>3. active' = TRUE /\ timer' = FALSE
  BY DEF StartWrite
<1>4. TypeOK'
  BY <1>1, <1>3 DEF IInv, TypeOK
<1>5. OneAtATime'
  BY <1>2, <1>3 DEF OneAtATime
<1>6. Promised'
  BY DEF IInv, Promised
<1> QED BY <1>1, <1>4, <1>5, <1>6 DEF IInv

\* What changes neither the writes nor the queue.
LEMMA QuietKeeps ==
  ASSUME IInv, UNCHANGED <<emitted, log, init, seed, pending, active, barrier, writes, acknowledged>>,
         timer' \in BOOLEAN, init = "none" => ~timer',
         caller' \in [Callers -> {"idle", "waiting", "joined"}],
         mark' \in [Callers -> Nat], \A c \in Callers : mark'[c] <= emitted
  PROVE  IInv'
<1>1. /\ Writing' = Writing /\ Queued' = Queued /\ Floor' = Floor
      /\ \A x \in Writing : Outstanding(x)' = Outstanding(x)
  BY DEF Writing, Queued, Floor, Outstanding
<1>2. TypeOK' /\ OneAtATime' /\ Promised'
  BY DEF IInv, TypeOK, OneAtATime, Promised
<1>3. InLine'
  BY <1>1 DEF IInv, InLine
<1>4. Covered'
  BY <1>1 DEF IInv, Covered
<1> QED BY <1>2, <1>3, <1>4 DEF IInv

LEMMA DeadlineKeeps ==
  ASSUME IInv, Deadline
  PROVE  IInv'
<1>1. CASE active
  BY <1>1, QuietKeeps DEF Deadline, StartWrite, callerVars, IInv, TypeOK, Promised
<1>2. CASE ~active
  <2>1. writes = {}
    BY <1>2 DEF Deadline, JobsQueued, IInv, OneAtATime
  <2>2. barrier = "none"
    BY <2>1 DEF IInv, TypeOK, OneAtATime
  <2>3. init # "none" /\ Writing = {}
    BY <2>1 DEF Deadline, IInv, Covered, Writing
  <2>4. /\ StartWrite({}, TRUE)
        /\ UNCHANGED <<emitted, log, init, seed, barrier, caller, mark, acknowledged>>
    BY <1>2, <2>1 DEF Deadline, callerVars
  <2> QED BY <2>2, <2>3, <2>4, BackgroundStarts
<1> QED BY <1>1, <1>2

\* An operation that is over leaves.
LEMMA LeavesKeeps ==
  ASSUME IInv, NEW w \in writes, w.stage = "continuing",
         writes' = writes \ {w}, init # "none",
         barrier' = "none" \/ (w.background /\ barrier = "draining" /\ barrier' = barrier),
         ~w.background \/ barrier' = barrier,
         UNCHANGED <<emitted, log, init, seed, pending, timer, active, acknowledged>>,
         caller' \in [Callers -> {"idle", "waiting", "joined"}],
         mark' \in [Callers -> Nat], \A c \in Callers : mark'[c] <= emitted
  PROVE  IInv'
<1>1. /\ Writing' = Writing /\ Queued' = Queued /\ Floor' = Floor
      /\ \A x \in Writing : Outstanding(x)' = Outstanding(x)
  BY DEF Writing, Queued, Floor, Outstanding
<1>2. TypeOK' /\ Promised'
  BY DEF IInv, TypeOK, Promised
<1>3. InLine'
  BY <1>1 DEF IInv, InLine
<1>4. Covered'
  BY <1>1 DEF IInv, Covered
<1>5. OneAtATime'
  <2>1. \A v \in writes : v.background \in BOOLEAN
    BY DEF IInv, TypeOK, Operation
  <2>2. active' <=> \E v \in writes' : v.stage # "continuing"
    BY DEF IInv, OneAtATime
  <2>3. /\ \A t, u \in writes' : t.background = u.background => t = u
        /\ \A t, u \in writes' : t.background /\ ~u.background => t.stage = "continuing"
    BY DEF IInv, OneAtATime
  <2>4. barrier' = "draining" <=> \E v \in writes' : ~v.background
    <3>1. CASE w.background
      <4>1. (\E v \in writes' : ~v.background) <=> \E v \in writes : ~v.background
        BY <3>1
      <4> QED BY <3>1, <4>1 DEF IInv, OneAtATime
    <3>2. CASE ~w.background
      <4>1. \A v \in writes' : v.background
        BY <2>1, <3>2 DEF IInv, OneAtATime
      <4> QED BY <3>2, <4>1
    <3> QED BY <3>1, <3>2
  <2>5. barrier' # "overlap"
    OBVIOUS
  <2> QED BY <2>2, <2>3, <2>4, <2>5 DEF OneAtATime
<1> QED BY <1>2, <1>3, <1>4, <1>5 DEF IInv

\* What a continuation finds beside itself.
LEMMA Continuing ==
  ASSUME IInv, NEW w \in writes, w.stage = "continuing"
  PROVE  /\ init # "none"
         /\ w.background /\ barrier # "draining" => writes = {w}
         /\ ~w.background =>
              /\ barrier = "draining"
              /\ \A v \in writes : v.stage = "continuing"
              /\ \A v \in writes \ {w} : v.background
<1>1. \A v \in writes : v.background \in BOOLEAN
  BY DEF IInv, TypeOK, Operation
<1>2. init # "none"
  BY DEF IInv, Covered
<1>3. ASSUME w.background, barrier # "draining" PROVE writes = {w}
  BY <1>1, <1>3 DEF IInv, OneAtATime
<1>4. ASSUME ~w.background
      PROVE  /\ barrier = "draining"
             /\ \A v \in writes : v.stage = "continuing"
             /\ \A v \in writes \ {w} : v.background
  BY <1>1, <1>4 DEF IInv, OneAtATime
<1> QED BY <1>2, <1>3, <1>4

LEMMA MarksTyped ==
  ASSUME IInv
  PROVE  /\ timer \in BOOLEAN
         /\ caller \in [Callers -> {"idle", "waiting", "joined"}]
         /\ mark \in [Callers -> Nat] /\ \A c \in Callers : mark[c] <= emitted
BY DEF IInv, TypeOK, Promised

LEMMA ContinueBackgroundKeeps ==
  ASSUME IInv, NEW w \in writes, ContinueBackground(w)
  PROVE  IInv'
<1>1. /\ w.stage = "continuing" /\ w.background
      /\ UNCHANGED <<emitted, log, init, seed, failures>>
  BY DEF ContinueBackground
<1>2. init # "none" /\ (barrier # "draining" => writes = {w})
  BY <1>1, Continuing
<1>3. ASSUME barrier = "overlap", Drain(writes \ {w}, Joined),
             pending = <<>> => UNCHANGED <<timer, deadlineExpired>>
      PROVE  IInv'
  <2>1. init = "ready" /\ writes = {w}
    BY <1>2, <1>3 DEF IInv, Covered
  <2>2. timer' \in BOOLEAN
    BY <1>3, MarksTyped DEF Drain, StartWrite
  <2>3. Joined \in SUBSET Callers
    BY DEF Joined
  <2> QED BY <1>1, <1>3, <2>1, <2>2, <2>3, DrainKeeps
<1>4. ASSUME barrier = "none", StartWrite(writes \ {w}, TRUE), UNCHANGED <<barrier, callerVars>>
      PROVE  IInv'
  <2>1. writes \ {w} = {} /\ Writing = {}
    BY <1>1, <1>2, <1>4 DEF Writing
  <2> QED BY <1>1, <1>2, <1>4, <2>1, BackgroundStarts DEF callerVars
<1>5. ASSUME barrier # "overlap", writes' = writes \ {w},
             UNCHANGED <<pending, timer, active, barrier, callerVars>>
      PROVE  IInv'
  <2>1. barrier \in {"none", "draining"}
    BY <1>5 DEF IInv, TypeOK
  <2> QED BY <1>1, <1>2, <1>5, <2>1, MarksTyped, LeavesKeeps DEF callerVars
<1> QED BY <1>3, <1>4, <1>5 DEF ContinueBackground

LEMMA ContinueBarrierKeeps ==
  ASSUME IInv, NEW w \in writes, ContinueBarrier(w)
  PROVE  IInv'
<1>1. /\ w.stage = "continuing" /\ ~w.background
      /\ UNCHANGED <<emitted, log, init, seed, failures>>
  BY DEF ContinueBarrier
<1>2. /\ init = "ready" /\ barrier = "draining"
      /\ \A v \in writes : v.stage = "continuing"
      /\ \A v \in writes \ {w} : v.background
  BY <1>1, Continuing DEF IInv, Covered
<1>3. ASSUME Drain(writes \ {w}, Joined), pending = <<>> => UNCHANGED <<timer, deadlineExpired>>
      PROVE  IInv'
  <2>1. timer' \in BOOLEAN
    BY <1>3, MarksTyped DEF Drain, StartWrite
  <2>2. Joined \in SUBSET Callers
    BY DEF Joined
  <2> QED BY <1>1, <1>2, <1>3, <2>1, <2>2, DrainKeeps
<1>4. ASSUME barrier' = "none", writes' = writes \ {w}, Release(Joined),
             UNCHANGED <<pending, timer, active, acknowledged>>
      PROVE  IInv'
  <2>1. /\ caller' \in [Callers -> {"idle", "waiting", "joined"}]
        /\ mark' \in [Callers -> Nat]
        /\ \A c \in Callers : mark'[c] <= emitted
    BY <1>4, Released DEF IInv
  <2> QED BY <1>1, <1>2, <1>4, <2>1, LeavesKeeps
<1> QED BY <1>3, <1>4 DEF ContinueBarrier

LEMMA CallFlushKeeps ==
  ASSUME IInv, NEW c \in Callers, CallFlush(c)
  PROVE  IInv'
<1>1. /\ caller' \in [Callers -> {"idle", "waiting", "joined"}]
      /\ mark' \in [Callers -> Nat] /\ \A b \in Callers : mark'[b] <= emitted
      /\ timer' = FALSE
      /\ UNCHANGED <<emitted, log, pending, active, barrier, writes, acknowledged>>
  BY DEF CallFlush, IInv, TypeOK, Promised
<1>2. CASE init # "none"
  BY <1>1, <1>2, QuietKeeps DEF CallFlush, InitFor
<1>3. CASE init = "none"
  <2>1. init' = "running" /\ seed' = emitted
    BY <1>3 DEF CallFlush, InitFor
  <2>2. TypeOK' /\ OneAtATime' /\ Promised'
    BY <1>1, <2>1 DEF IInv, TypeOK, OneAtATime, Promised
  <2>3. Writing' = {} /\ Queued' = Queued /\ Floor' = emitted /\ Floor = emitted /\ Writing = {}
    BY <1>1, <1>3, <2>1 DEF IInv, Covered, Writing, Queued, Floor
  <2>4. InLine'
    BY <1>1, <2>3 DEF IInv, InLine
  <2>5. Covered'
    BY <1>1, <1>3, <2>1, <2>3 DEF IInv, Covered, TypeOK
  <2> QED BY <2>2, <2>4, <2>5 DEF IInv
<1> QED BY <1>2, <1>3

LEMMA FlushRejectsKeeps ==
  ASSUME IInv, NEW c \in Callers, FlushRejects(c)
  PROVE  IInv'
<1>1. /\ caller' \in [Callers -> {"idle", "waiting", "joined"}]
      /\ mark' \in [Callers -> Nat]
      /\ \A b \in Callers : mark'[b] <= emitted
  BY Released DEF FlushRejects, IInv
<1> QED BY <1>1, QuietKeeps DEF FlushRejects

LEMMA JoinBarrierKeeps ==
  ASSUME IInv, NEW c \in Callers, JoinBarrier(c)
  PROVE  IInv'
<1>1. caller' \in [Callers -> {"idle", "waiting", "joined"}]
  BY DEF JoinBarrier, IInv, TypeOK
<1> QED BY <1>1, MarksTyped, QuietKeeps DEF JoinBarrier, writerVars

LEMMA RaiseBarrierKeeps ==
  ASSUME IInv, NEW c \in Callers, RaiseBarrier(c)
  PROVE  IInv'
<1>1. /\ init = "ready" /\ barrier = "none" /\ timer' = FALSE
      /\ UNCHANGED <<emitted, log, init, seed, failures>>
  BY DEF RaiseBarrier
<1>2. \A v \in writes : v.background
  BY <1>1 DEF IInv, OneAtATime
<1>3. ASSUME active, barrier' = "overlap", caller' = [caller EXCEPT ![c] = "joined"],
             UNCHANGED <<pending, active, writes, mark, acknowledged>>
      PROVE  IInv'
  <2>1. \E v \in writes : v.background
    BY <1>2, <1>3 DEF IInv, OneAtATime
  <2>2. TypeOK'
    BY <1>1, <1>3 DEF IInv, TypeOK
  <2>3. OneAtATime'
    BY <1>1, <1>3, <2>1 DEF IInv, OneAtATime
  <2>4. /\ Writing' = Writing /\ Queued' = Queued /\ Floor' = Floor
        /\ \A x \in Writing : Outstanding(x)' = Outstanding(x)
    BY <1>1, <1>3 DEF Writing, Queued, Floor, Outstanding
  <2>5. InLine'
    BY <1>1, <1>3, <2>4 DEF IInv, InLine
  <2>6. Covered'
    BY <1>1, <1>3, <2>4 DEF IInv, Covered
  <2>7. Promised'
    BY <1>1, <1>3 DEF IInv, Promised
  <2> QED BY <2>2, <2>3, <2>5, <2>6, <2>7 DEF IInv
<1>4. ASSUME ~active, Drain(writes, {c})
      PROVE  IInv'
  <2>1. \A v \in writes : v.stage = "continuing"
    BY <1>4 DEF IInv, OneAtATime
  <2> QED BY <1>1, <1>2, <1>4, <2>1, DrainKeeps
<1> QED BY <1>3, <1>4 DEF RaiseBarrier

LEMMA Preserved == IInv /\ [Next]_vars => IInv'
<1> SUFFICES ASSUME IInv, [Next]_vars PROVE IInv'
  OBVIOUS
<1>1. CASE Settle
  BY <1>1, WriteSucceedsKeeps, WriteFailsKeeps DEF Settle
<1>2. CASE Job
  BY <1>2, ClearActiveKeeps, ContinueBackgroundKeeps, ContinueBarrierKeeps DEF Job
<1>3. ASSUME NEW c \in Callers, CallFlush(c) \/ FlushStep(c) PROVE IInv'
  BY <1>3, CallFlushKeeps, FlushRejectsKeeps, JoinBarrierKeeps, RaiseBarrierKeeps DEF FlushStep
<1>4. CASE UNCHANGED vars
  BY <1>4, MarksTyped, QuietKeeps DEF vars, writerVars, callerVars, IInv, Covered
<1> QED
  BY <1>1, <1>2, <1>3, <1>4, AttachKeeps, EmitKeeps, InitSucceedsKeeps, InitFailsKeeps,
     DeadlineKeeps
  DEF Next

(***************************************************************************)
(* The invariants.                                                         *)
(***************************************************************************)
\* The strengthening holds in every reachable state.
THEOREM Invariance == Spec => []IInv
<1>1. Init => IInv
  BY Initially
<1>2. IInv /\ [Next]_vars => IInv'
  BY Preserved
<1> QED BY <1>1, <1>2, PTL DEF Spec

\* The queue, the writes, the barrier and its callers stay what the code takes
\* them for.
THEOREM TypeCorrect == Spec => []TypeOK
<1>1. IInv => TypeOK
  BY DEF IInv
<1> QED BY Invariance, <1>1, PTL

\* startWrite clears the queue while another write has jobs left: the storage
\* never has two batches at once, and a barrier's write is behind the automatic
\* one.
THEOREM OneWrite == Spec => []OneAtATime
<1>1. IInv => OneAtATime
  BY DEF IInv
<1> QED BY Invariance, <1>1, PTL

\* The batch that is written and the queue are the last events of the session in
\* order, so no event is lost between enqueue, startWrite and the catch that
\* puts a refused batch back.
THEOREM Kept == Spec => []NothingIsLost
<1>1. ASSUME IInv PROVE NothingIsLost
  <2> SUFFICES ASSUME NEW n \in 0..(emitted - 1)
               PROVE  \/ n < Len(log)
                      \/ init \in {"none", "running", "failed"} /\ (init = "none" \/ n < seed)
                      \/ \E i \in DOMAIN pending : pending[i] = n
                      \/ \E w \in Writing : \E i \in DOMAIN w.batch : w.batch[i] = n
    BY DEF NothingIsLost
  <2>1. /\ emitted \in Nat /\ pending \in Seq(Nat)
        /\ Len(pending) \in Nat /\ Len(pending) <= emitted
        /\ Runs(pending, Queued)
    BY <1>1, LenProperties DEF IInv, TypeOK, InLine
  <2>2. n \in Nat /\ n < emitted
    BY <2>1
  <2>3. CASE n >= Queued
    <3>1. n - Queued + 1 \in 1..Len(pending)
      BY <2>1, <2>2, <2>3 DEF Queued
    <3>2. Queued \in Nat
      BY <2>1 DEF Queued
    <3>3. Queued + (n - Queued + 1) - 1 = n
      BY <2>2, <3>2
    <3>4. pending[n - Queued + 1] = n
      BY <2>1, <3>1, <3>3, Zenon DEF Runs
    <3> QED BY <2>1, <3>1, <3>4
  <2>4. ASSUME n < Floor
        PROVE  n < Len(log) \/ init = "none" \/ (init \in {"running", "failed"} /\ n < seed)
    BY <1>1, <2>4 DEF IInv, TypeOK, Floor
  <2>5. ASSUME n < Queued, Writing = {}
        PROVE  n < Floor
    <3>1. Queued <= Floor /\ Queued \in Nat /\ Floor \in Nat
      BY <1>1, <2>1, <2>5, LenProperties DEF IInv, Covered, Queued, Floor, TypeOK
    <3> QED BY <2>2, <2>5, <3>1
  <2>6. ASSUME n < Queued, NEW w \in Writing
        PROVE  n < Floor \/ \E i \in DOMAIN w.batch : w.batch[i] = n
    <3>1. /\ w.batch \in Seq(Nat) /\ Outstanding(w) \in Nat
          /\ Queued = Outstanding(w) + Len(w.batch)
          /\ Runs(w.batch, Outstanding(w)) /\ Outstanding(w) <= Floor
      BY <1>1, InWriting DEF Writing, Operation
    <3>2. Floor \in Nat /\ Len(w.batch) \in Nat
      BY <1>1, <3>1, LenProperties DEF IInv, Floor, TypeOK
    <3>3. CASE n < Outstanding(w)
      BY <2>2, <3>1, <3>2, <3>3
    <3>4. CASE n >= Outstanding(w)
      <4>1. ASSUME NEW k \in Nat, NEW m \in Nat, n >= k, n < k + m
            PROVE  n - k + 1 \in 1..m /\ k + (n - k + 1) - 1 = n
        BY <2>2, <4>1
      <4>2. /\ n - Outstanding(w) + 1 \in 1..Len(w.batch)
            /\ Outstanding(w) + (n - Outstanding(w) + 1) - 1 = n
        BY <2>6, <3>1, <3>2, <3>4, <4>1
      <4>3. w.batch[n - Outstanding(w) + 1] = n
        BY <3>1, <4>2, Zenon DEF Runs
      <4> QED BY <3>1, <4>2, <4>3
    <3> QED BY <2>2, <3>1, <3>3, <3>4
  <2>7. n < Queued \/ n >= Queued
    BY <2>1, <2>2 DEF Queued
  <2> QED BY <2>3, <2>4, <2>5, <2>6, <2>7
<1> QED BY Invariance, <1>1, PTL

(***************************************************************************)
(* The refinement.                                                         *)
(***************************************************************************)
history == <<emitted, log, acknowledged>>

LEMMA StoringRefines ==
  ASSUME IInv, IInv', UNCHANGED <<emitted, acknowledged>>, Len(log') >= Len(log)
  PROVE  [D!DurableLogNext]_history
<1>1. /\ log = D!Events(0, Len(log)) /\ log' = D!Events(0, Len(log'))
      /\ Len(log') <= emitted
      /\ Len(log) \in Nat /\ Len(log') \in Nat /\ emitted \in Nat
  BY LenProperties DEF IInv, Covered, TypeOK
<1>2. CASE Len(log') = Len(log)
  BY <1>1, <1>2 DEF history
<1>3. CASE Len(log') > Len(log)
  <2>1. Len(log') \in (Len(log) + 1)..emitted
    BY <1>1, <1>3
  <2> QED BY <1>1, <2>1 DEF D!DurableLogNext, D!Store, history
<1> QED BY <1>1, <1>2, <1>3

LEMMA DrainRefines ==
  ASSUME IInv, init = "ready", \A v \in writes : v.stage = "continuing",
         NEW others, NEW callers \in SUBSET Callers, Drain(others, callers),
         UNCHANGED <<emitted, log>>
  PROVE  [D!DurableLogNext]_history
<1>1. CASE pending # <<>>
  BY <1>1 DEF Drain, history
<1>2. CASE pending = <<>>
  <2>1. emitted = Len(log)
    BY <1>2, AllStored DEF IInv, Writing
  <2>2. acknowledged' \in acknowledged..Len(log)
    BY <1>2, <2>1, Fulfilled DEF IInv, Drain
  <2> QED BY <2>2 DEF D!DurableLogNext, D!Acknowledge, history
<1> QED BY <1>1, <1>2

LEMMA InitRefines == Init => D!DurableLogInit
<1> SUFFICES ASSUME Init PROVE D!DurableLogInit
  OBVIOUS
<1>1. emitted \in Nat
  BY WriteBehindAssumption DEF Init
<1> QED BY <1>1 DEF Init, D!DurableLogInit

LEMMA StepRefines == IInv /\ IInv' /\ [Next]_vars => [D!DurableLogNext]_history
<1> SUFFICES ASSUME IInv, IInv', [Next]_vars PROVE [D!DurableLogNext]_history
  OBVIOUS
<1>1. CASE Emit
  BY <1>1 DEF Emit, callerVars, D!DurableLogNext, D!AppendEvent, history
<1>2. CASE InitSucceeds
  <2>1. Len(log') >= Len(log) /\ UNCHANGED <<emitted, acknowledged>>
    BY <1>2, EventsAre DEF InitSucceeds, IInv, Covered, TypeOK, callerVars
  <2> QED BY <2>1, StoringRefines
<1>3. ASSUME NEW w \in writes, WriteSucceeds(w)
      PROVE  [D!DurableLogNext]_history
  <2>1. w \in Operation /\ w.batch \in Seq(Nat) /\ log \in Seq(Nat) /\ init = "ready"
    BY <1>3 DEF IInv, TypeOK, Operation, WriteSucceeds
  <2>2. Outstanding(w) \in Nat /\ Runs(w.batch, Outstanding(w)) /\ Outstanding(w) <= Len(log)
    BY <1>3, <2>1, InWriting DEF WriteSucceeds, Floor
  <2>3. Fresh(w.batch) \in Seq(Nat)
    BY <2>1, <2>2, Freshened
  <2>4. /\ Len(log') = Len(log) + Len(Fresh(w.batch))
        /\ Len(log) \in Nat /\ Len(Fresh(w.batch)) \in Nat
        /\ UNCHANGED <<emitted, acknowledged>>
    BY <1>3, <2>1, <2>3, ConcatProperties, LenProperties DEF WriteSucceeds, callerVars
  <2>5. Len(log') >= Len(log)
    BY <2>4
  <2> QED BY <2>4, <2>5, StoringRefines
<1>4. ASSUME NEW w \in writes, ContinueBackground(w)
      PROVE  [D!DurableLogNext]_history
  <2>1. CASE barrier = "overlap" /\ Drain(writes \ {w}, Joined)
    <3>1. init = "ready" /\ writes = {w} /\ w.stage = "continuing" /\ UNCHANGED <<emitted, log>>
      BY <1>4, <2>1, Continuing DEF ContinueBackground, IInv, Covered
    <3> QED BY <2>1, <3>1, DrainRefines DEF Joined
  <2>2. CASE UNCHANGED callerVars
    BY <1>4, <2>2 DEF ContinueBackground, callerVars, history
  <2> QED BY <1>4, <2>1, <2>2 DEF ContinueBackground
<1>5. ASSUME NEW w \in writes, ContinueBarrier(w)
      PROVE  [D!DurableLogNext]_history
  <2>1. CASE Drain(writes \ {w}, Joined)
    <3>1. /\ init = "ready" /\ UNCHANGED <<emitted, log>>
          /\ \A v \in writes : v.stage = "continuing"
      BY <1>5, Continuing DEF ContinueBarrier, IInv, Covered
    <3> QED BY <2>1, <3>1, DrainRefines DEF Joined
  <2>2. CASE UNCHANGED acknowledged
    BY <1>5, <2>2 DEF ContinueBarrier, history
  <2> QED BY <1>5, <2>1, <2>2 DEF ContinueBarrier
<1>6. ASSUME NEW c \in Callers, RaiseBarrier(c)
      PROVE  [D!DurableLogNext]_history
  <2>1. CASE ~active /\ Drain(writes, {c})
    BY <1>6, <2>1, DrainRefines DEF RaiseBarrier, IInv, OneAtATime
  <2>2. CASE UNCHANGED acknowledged
    BY <1>6, <2>2 DEF RaiseBarrier, history
  <2> QED BY <1>6, <2>1, <2>2 DEF RaiseBarrier
<1>7. ASSUME NEW w \in writes, WriteFails(w) \/ ClearActive(w)
      PROVE  [D!DurableLogNext]_history
  BY <1>7 DEF WriteFails, ClearActive, callerVars, history
<1>8. ASSUME NEW c \in Callers, CallFlush(c) \/ FlushRejects(c) \/ JoinBarrier(c)
      PROVE  [D!DurableLogNext]_history
  BY <1>8 DEF CallFlush, FlushRejects, JoinBarrier, history
<1>9. CASE Attach \/ InitFails \/ Deadline \/ UNCHANGED vars
  BY <1>9 DEF Attach, InitFails, Deadline, vars, callerVars, history
<1> QED
  BY <1>1, <1>2, <1>3, <1>4, <1>5, <1>6, <1>7, <1>8, <1>9
  DEF Next, Settle, Job, FlushStep

\* SessionWriteBehind and the coordinator's path around it implement DurableLog:
\* the stored log is a prefix of the session's events and only grows, through
\* refused, retried and overlapping writes, and what a fulfilled flush promised
\* is stored.
THEOREM Refinement == Spec => ImplementsDurableLog
<1>1. Init => D!DurableLogInit
  BY InitRefines
<1>2. IInv /\ IInv' /\ [Next]_vars => [D!DurableLogNext]_<<emitted, log, acknowledged>>
  BY StepRefines DEF history
<1> QED
  BY Invariance, <1>1, <1>2, PTL DEF Spec, ImplementsDurableLog, D!DurableLogSpec
=============================================================================
