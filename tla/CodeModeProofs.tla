-------------------------- MODULE CodeModeProofs ---------------------------
(***************************************************************************)
(* Proofs about CodeMode, and so about the pipeline of ToolExecution under *)
(* it, for any number of calls and any size of the pool.                   *)
(***************************************************************************)
EXTENDS CodeMode, FiniteSetTheorems, SequenceTheorems, TLAPS

(***************************************************************************)
(* The strengthening.                                                      *)
(***************************************************************************)
Listed(s) == {s[i] : i \in DOMAIN s}
Distinct(s) == \A i, j \in DOMAIN s : s[i] = s[j] => i = j

Preparing == {"pre-execute", "asking", "answered", "ready"}
Dispatching == {"around", "body"}

\* Whether the body was invoked is a matter of the stage until a result says
\* it, and what was asked gets as far as it was granted.
Sound(x) ==
  /\ x.stage \in {"none", "around"} \union Preparing => ~x.invoked
  /\ x.stage = "body" => x.invoked
  /\ x.stage \in {"parked", "done"} =>
       /\ x.result = "aborted" => x.invoked
       /\ x.result = "aborted before dispatch" => ~x.invoked
  /\ x.asked =>
       /\ x.stage \notin {"none", "pre-execute"}
       /\ x.stage \notin {"asking", "answered"} => x.decided
       /\ x.stage \in {"ready"} \union Dispatching => x.outcome = "allowed-once"
       /\ x.invoked => x.outcome = "allowed-once"

Places == {"off", "asleep", "pass", "preparing", "committing", "holding"}

TypeOK ==
  /\ exec \in [Calls -> Execution]
  /\ signal \in BOOLEAN
  /\ run \in {"running", "draining", "done"}
  /\ promise \in [Calls -> {"none", "pending", "settled", "rejected"}]
  /\ pending \in Seq(Calls)
  /\ commits \in Seq(Calls)
  /\ inFlight \subseteq Calls
  /\ mode \in [Calls -> {"none", "parallel", "exclusive"}]
  /\ exclusive \in BOOLEAN
  /\ lane \in [at : Places, call : Nat]
  /\ logWork \subseteq Calls

At(where, c) == lane.at = where /\ lane.call = c

\* Where a call is: queued, then in the commit queue (being prepared first, in
\* the pool or parked), then at the head of the lane until its commit is over.
Placed(c) ==
  /\ c \in Listed(pending) => promise[c] = "pending" /\ mode[c] = "none" /\ c \notin inFlight
  /\ c \in Listed(commits) =>
       /\ promise[c] = "pending" /\ mode[c] # "none"
       /\ exec[c].stage \notin {"none", "done"}
       /\ ~At("committing", c) /\ ~At("holding", c)
  /\ At("preparing", c) => c \in Listed(commits) /\ c \notin inFlight
  /\ At("committing", c) =>
       promise[c] = "pending" /\ mode[c] # "none" /\ exec[c].stage = "parked"
  /\ At("holding", c) =>
       promise[c] = "settled" /\ mode[c] # "none" /\ exec[c].stage = "done"
  /\ promise[c] = "pending" =>
       c \in Listed(pending) \union Listed(commits) \/ At("committing", c)
  /\ mode[c] # "none" =>
       c \in Listed(commits) \/ At("committing", c) \/ At("holding", c)
  /\ exec[c].stage \notin {"none", "done"} => c \in Listed(commits) \/ At("committing", c)
  /\ exec[c].stage \in Preparing => At("preparing", c)
  /\ exec[c].stage \in Dispatching => c \in inFlight
  /\ c \in inFlight => promise[c] # "none"
  /\ c \in logWork => promise[c] = "settled"

\* A call that was logged as started is under way, or its end is logged or
\* about to be.
Accounted(c) ==
  [kind |-> "start", call |-> c] \in logged =>
    \/ mode[c] # "none" /\ ~At("holding", c)
    \/ c \in logWork
    \/ [kind |-> "settled", call |-> c] \in logged

\* An exclusive call is the only one under way.
Barred ==
  /\ exclusive <=> \E c \in Calls : mode[c] = "exclusive"
  /\ \A c, d \in Calls : mode[c] = "exclusive" /\ mode[d] # "none" => c = d

Pooled ==
  /\ Cardinality(inFlight) <= MaxParallel
  /\ lane.at = "preparing" => Cardinality(inFlight) < MaxParallel

Ended ==
  /\ lane.at = "off" => pending = <<>> /\ commits = <<>> /\ inFlight = {}
  /\ run = "done" => lane.at = "off" /\ logWork = {}
  /\ lane.at \in {"preparing", "committing", "holding"} => lane.call \in Calls

Lined == Distinct(pending) /\ Distinct(commits)

IInv ==
  /\ TypeOK
  /\ \A c \in Calls : Sound(exec[c]) /\ Placed(c) /\ Accounted(c)
  /\ Barred /\ Pooled /\ Ended /\ Lined
-----------------------------------------------------------------------------
(***************************************************************************)
(* Queues.                                                                 *)
(***************************************************************************)
LEMMA Appended ==
  ASSUME NEW S, NEW s \in Seq(S), NEW e \in S
  PROVE  /\ Append(s, e) \in Seq(S)
         /\ Listed(Append(s, e)) = Listed(s) \union {e}
         /\ Distinct(s) /\ e \notin Listed(s) => Distinct(Append(s, e))
<1> DEFINE t == Append(s, e)
<1>1. /\ t \in Seq(S) /\ Len(t) = Len(s) + 1 /\ Len(s) \in Nat
      /\ \A i \in 1..Len(s) : t[i] = s[i]
      /\ t[Len(s) + 1] = e
      /\ DOMAIN s = 1..Len(s) /\ DOMAIN t = 1..(Len(s) + 1)
  BY AppendProperties
<1>2. \A i \in 1..(Len(s) + 1) : i = Len(s) + 1 \/ i \in 1..Len(s)
  BY <1>1
<1> HIDE DEF t
<1>3. ASSUME Distinct(s), e \notin Listed(s) PROVE Distinct(t)
  BY <1>1, <1>2, <1>3 DEF Distinct, Listed
<1>4. Listed(t) = Listed(s) \union {e}
  BY <1>1, <1>2 DEF Listed
<1> QED
  BY <1>1, <1>3, <1>4 DEF t

LEMMA Headed ==
  ASSUME NEW S, NEW s \in Seq(S), s # <<>>
  PROVE  /\ Head(s) \in S /\ Tail(s) \in Seq(S)
         /\ Listed(s) = Listed(Tail(s)) \union {Head(s)}
         /\ Distinct(s) => Distinct(Tail(s)) /\ Head(s) \notin Listed(Tail(s))
<1> DEFINE t == Tail(s)
<1>1. /\ t \in Seq(S) /\ Len(s) \in Nat \ {0} /\ Len(t) = Len(s) - 1
      /\ \A i \in 1..(Len(s) - 1) : t[i] = s[i + 1]
      /\ Head(s) = s[1] /\ 1 \in 1..Len(s) /\ s[1] \in S
      /\ DOMAIN s = 1..Len(s) /\ DOMAIN t = 1..(Len(s) - 1)
  BY HeadTailProperties, EmptySeq
<1>2. \A i \in 1..Len(s) : i = 1 \/ (i - 1 \in 1..(Len(s) - 1) /\ (i - 1) + 1 = i)
  BY <1>1
<1>3. \A i \in 1..(Len(s) - 1) : i + 1 \in 1..Len(s) /\ i + 1 # 1
  BY <1>1
<1>4. \A i, j \in 1..(Len(s) - 1) : i + 1 = j + 1 => i = j
  OBVIOUS
<1> HIDE DEF t
<1>5. Listed(s) = Listed(t) \union {s[1]}
  <2>1. ASSUME NEW i \in 1..Len(s) PROVE s[i] \in Listed(t) \union {s[1]}
    <3>1. CASE i - 1 \in 1..(Len(s) - 1) /\ (i - 1) + 1 = i
      <4>1. t[i - 1] = s[i] /\ i - 1 \in DOMAIN t
        BY <1>1, <3>1
      <4> QED
        BY <4>1 DEF Listed
    <3> QED
      BY <1>2, <3>1
  <2>2. ASSUME NEW i \in 1..(Len(s) - 1) PROVE t[i] \in Listed(s)
    BY <1>1, <1>3 DEF Listed
  <2>3. Listed(s) \subseteq Listed(t) \union {s[1]}
    <3>1. ASSUME NEW e \in Listed(s) PROVE e \in Listed(t) \union {s[1]}
      <4>1. PICK i \in DOMAIN s : e = s[i]
        BY <3>1 DEF Listed
      <4> QED
        BY <1>1, <2>1, <4>1
    <3> QED
      BY <3>1
  <2>4. Listed(t) \subseteq Listed(s)
    BY <1>1, <2>2, Zenon DEF Listed
  <2>5. s[1] \in Listed(s)
    BY <1>1 DEF Listed
  <2> QED
    BY <2>3, <2>4, <2>5, Zenon
<1>6. ASSUME Distinct(s) PROVE Distinct(t) /\ s[1] \notin Listed(t)
  <2>1. ASSUME NEW i \in 1..(Len(s) - 1), NEW j \in 1..(Len(s) - 1), t[i] = t[j]
        PROVE  i = j
    <3>1. s[i + 1] = s[j + 1] /\ i + 1 \in DOMAIN s /\ j + 1 \in DOMAIN s
      BY <1>1, <1>3, <2>1
    <3> QED
      BY <1>4, <1>6, <3>1 DEF Distinct
  <2>2. ASSUME NEW i \in 1..(Len(s) - 1) PROVE t[i] # s[1]
    <3>1. t[i] = s[i + 1] /\ i + 1 \in DOMAIN s /\ 1 \in DOMAIN s /\ i + 1 # 1
      BY <1>1, <1>3
    <3> QED
      BY <1>6, <3>1 DEF Distinct
  <2> QED
    BY <1>1, <2>1, <2>2 DEF Distinct, Listed
<1> QED
  BY <1>1, <1>5, <1>6 DEF t

LEMMA EmptyListed == Listed(<<>>) = {} /\ Distinct(<<>>)
  BY DEF Listed, Distinct

-----------------------------------------------------------------------------
(***************************************************************************)
(* The pipeline of one call.                                               *)
(***************************************************************************)
\* What a call does between two awaits of its pipeline.
Moved(x, y) ==
  /\ y \in Execution
  /\ Sound(y)
  /\ \/ x.stage \in {"pre-execute", "asking", "answered"}
        /\ y.stage \in {"asking", "answered", "ready", "parked"}
     \/ x.stage \in Dispatching /\ y.stage \in {"body", "parked"}

LEMMA BlankSound == Blank \in Execution /\ Sound(Blank)
  BY DEF Blank, Execution, Sound, Stages, Results, Outcomes, Preparing, Dispatching

LEMMA ParkSound ==
  ASSUME NEW x \in Execution, NEW r \in Results, NEW post \in BOOLEAN,
         r = "aborted" => x.invoked,
         r = "aborted before dispatch" => ~x.invoked,
         x.asked => x.decided /\ (x.invoked => x.outcome = "allowed-once")
  PROVE  /\ Park(x, r, post) \in Execution
         /\ Sound(Park(x, r, post))
         /\ Park(x, r, post).stage = "parked"
  BY DEF Park, Execution, Sound, Stages, Preparing, Dispatching

LEMMA GuardedSound ==
  ASSUME NEW x \in Execution, ~x.invoked,
         x.asked => x.decided /\ x.outcome = "allowed-once",
         NEW y \in Guarded(x)
  PROVE  y \in Execution /\ Sound(y) /\ y.stage \in {"ready", "parked"}
<1>1. CASE y = [x EXCEPT !.stage = "ready"]
  BY <1>1 DEF Execution, Sound, Stages, Preparing, Dispatching
<1>2. CASE y = Park(x, "error", TRUE)
  BY <1>2, ParkSound DEF Results
<1>3. CASE y = Park(x, "aborted before dispatch", TRUE)
  BY <1>3, ParkSound DEF Results
<1> QED
  BY <1>1, <1>2, <1>3 DEF Guarded

LEMMA PreExecutedMoves ==
  ASSUME signal \in BOOLEAN, NEW x \in Execution, Sound(x), x.stage = "pre-execute",
         NEW y \in PreExecuted(x)
  PROVE  Moved(x, y)
<1>1. ~x.invoked /\ ~x.asked
  BY DEF Sound, Preparing, Execution
<1>2. CASE y \in Guarded(x)
  BY <1>1, <1>2, GuardedSound DEF Moved
<1>3. CASE y \in Asked(x)
  <2>1. y \in {[x EXCEPT !.asked = TRUE, !.stage = "answered", !.outcome = "cancelled"],
               [x EXCEPT !.asked = TRUE, !.stage = "answered", !.outcome = "rejected"],
               [x EXCEPT !.asked = TRUE, !.stage = "asking"]}
    BY <1>3 DEF Asked, Execution
  <2>2. y \in Execution
    BY <2>1 DEF Execution, Stages, Outcomes
  <2>3. Sound(y) /\ y.stage \in {"asking", "answered"}
    BY <1>1, <2>1 DEF Sound, Execution, Preparing, Dispatching
  <2> QED
    BY <2>2, <2>3 DEF Moved
<1>4. CASE \E post \in BOOLEAN : y = Park(x, "error", post)
  <2>0. PICK post \in BOOLEAN : y = Park(x, "error", post)
    BY <1>4
  <2>1. y \in Execution /\ Sound(y) /\ y.stage = "parked"
    BY <1>1, <2>0, ParkSound DEF Results
  <2> QED
    BY <2>1 DEF Moved
<1> QED
  BY <1>2, <1>3, <1>4 DEF PreExecuted

LEMMA ResolvedMoves ==
  ASSUME signal \in BOOLEAN, NEW x \in Execution, Sound(x), x.stage = "answered",
         NEW y \in Resolved([x EXCEPT !.decided = TRUE])
  PROVE  Moved(x, y)
<1> DEFINE z == [x EXCEPT !.decided = TRUE]
<1>1. z \in Execution /\ ~z.invoked /\ z.decided /\ z.outcome = x.outcome
  BY DEF Sound, Preparing, Execution
<1> HIDE DEF z
<1>2. CASE z.outcome = "allowed-once" /\ y \in Guarded(z)
  BY <1>1, <1>2, GuardedSound DEF Moved
<1>3. CASE y = Park(z, "error", TRUE) \/ y = Park(z, "aborted before dispatch", TRUE)
  <2>1. ASSUME NEW r \in {"error", "aborted before dispatch"}
        PROVE  LET p == Park(z, r, TRUE) IN p \in Execution /\ Sound(p) /\ p.stage = "parked"
    <3>1. r \in Results /\ r # "aborted"
      BY <2>1 DEF Results
    <3> QED
      BY <1>1, <3>1, ParkSound
  <2>2. y \in Execution /\ Sound(y) /\ y.stage = "parked"
    BY <1>3, <2>1
  <2> QED
    BY <2>2 DEF Moved
<1> QED
  BY <1>2, <1>3 DEF Resolved, z

LEMMA DispatchedMoves ==
  ASSUME signal \in BOOLEAN, NEW x \in Execution, NEW r \in Results,
         r = "aborted" => x.invoked,
         r = "aborted before dispatch" => ~x.invoked,
         x.asked => x.decided /\ x.outcome = "allowed-once",
         NEW y \in Dispatched(x, r)
  PROVE  y \in Execution /\ Sound(y) /\ y.stage = "parked"
<1>1. ASSUME NEW q \in {r, "success", "error"}
      PROVE  /\ Superseded(x, q) \in Results
             /\ Superseded(x, q) = "aborted" => x.invoked
             /\ Superseded(x, q) = "aborted before dispatch" => ~x.invoked
  BY <1>1 DEF Superseded, Cancellation, Results
<1>2. CASE \E q \in {r, "success", "error"} : y = Park(x, Superseded(x, q), TRUE)
  <2>1. PICK q \in {r, "success", "error"} : y = Park(x, Superseded(x, q), TRUE)
    BY <1>2
  <2> QED
    BY <1>1, <2>1, ParkSound
<1>3. CASE y = Park(x, "error", FALSE)
  BY <1>3, ParkSound DEF Results
<1> QED
  BY <1>2, <1>3 DEF Dispatched

LEMMA EnteredMoves ==
  ASSUME signal \in BOOLEAN, NEW x \in Execution, x.stage = "around", ~x.invoked,
         x.asked => x.decided /\ x.outcome = "allowed-once",
         NEW y \in Entered(x)
  PROVE  y \in Execution /\ Sound(y) /\ y.stage \in {"body", "parked"}
<1>1. CASE y = [x EXCEPT !.stage = "body", !.invoked = TRUE]
  BY <1>1 DEF Execution, Sound, Stages, Preparing, Dispatching
<1>2. CASE y \in Dispatched(x, "aborted before dispatch")
  BY <1>2, DispatchedMoves DEF Results
<1>3. CASE y \in Dispatched(x, "error")
  BY <1>3, DispatchedMoves DEF Results
<1> QED
  BY <1>1, <1>2, <1>3 DEF Entered

\* Every step of a pipeline is such a move.
LEMMA PipelineMoves ==
  ASSUME signal \in BOOLEAN, exec \in [Calls -> Execution], NEW c \in Calls, Sound(exec[c]),
         PreExecute(c) \/ Resolve(c) \/ Around(c) \/ BodySettles(c) \/ Answer(c) \/ Timeout(c)
  PROVE  /\ \E y : Moved(exec[c], y) /\ exec' = [exec EXCEPT ![c] = y]
         /\ UNCHANGED signal
<1> DEFINE x == exec[c]
<1>0. x \in Execution /\ Sound(x)
  OBVIOUS
<1> HIDE DEF x
<1>1. CASE PreExecute(c)
  <2>1. PICK y \in PreExecuted(x) : exec' = [exec EXCEPT ![c] = y]
    BY <1>1 DEF PreExecute, x
  <2>2. Moved(x, y)
    BY <1>0, <1>1, <2>1, PreExecutedMoves DEF PreExecute, x
  <2> QED
    BY <1>1, <2>1, <2>2 DEF PreExecute, x
<1>2. CASE Resolve(c)
  <2>1. PICK y \in Resolved([x EXCEPT !.decided = TRUE]) : exec' = [exec EXCEPT ![c] = y]
    BY <1>2 DEF Resolve, x
  <2>2. Moved(x, y)
    BY <1>0, <1>2, <2>1, ResolvedMoves DEF Resolve, x
  <2> QED
    BY <1>2, <2>1, <2>2 DEF Resolve, x
<1>3. CASE Around(c)
  <2> DEFINE z == [x EXCEPT !.timeout = TRUE]
  <2>1. PICK y \in Entered(x) \union Entered(z) : exec' = [exec EXCEPT ![c] = y]
    BY <1>3 DEF Around, x
  <2>2. x.stage = "around"
    BY <1>3 DEF Around, x
  <2>3. /\ ~x.invoked
        /\ x.asked => x.decided /\ x.outcome = "allowed-once"
    BY <1>0, <2>2 DEF Sound, Dispatching, Execution
  <2>4. /\ z \in Execution /\ z.stage = "around" /\ ~z.invoked
        /\ z.asked => z.decided /\ z.outcome = "allowed-once"
    BY <1>0, <2>2, <2>3 DEF Execution
  <2> HIDE DEF z
  <2>5. y \in Execution /\ Sound(y) /\ y.stage \in {"body", "parked"}
    BY <1>0, <2>1, <2>2, <2>3, <2>4, EnteredMoves
  <2>6. Moved(x, y)
    BY <2>2, <2>5 DEF Moved, Dispatching
  <2> QED
    BY <1>3, <2>1, <2>6 DEF Around, x
<1>4. CASE BodySettles(c)
  <2>0. PICK r \in {"error", IF signal \/ x.timeout THEN "aborted" ELSE "success"} :
          \E y \in Dispatched(x, r) : exec' = [exec EXCEPT ![c] = y]
    BY <1>4 DEF BodySettles, x
  <2>1. PICK y \in Dispatched(x, r) : exec' = [exec EXCEPT ![c] = y]
    BY <2>0
  <2>2. x.stage = "body" /\ UNCHANGED signal
    BY <1>4 DEF BodySettles, x
  <2>3. /\ x.invoked
        /\ x.asked => x.decided /\ x.outcome = "allowed-once"
    BY <1>0, <2>2 DEF Sound, Dispatching, Execution
  <2>4. r \in Results /\ r # "aborted before dispatch"
    BY <2>0 DEF Results
  <2>5. y \in Execution /\ Sound(y) /\ y.stage = "parked"
    BY <1>0, <2>1, <2>3, <2>4, DispatchedMoves
  <2>6. Moved(x, y)
    BY <2>2, <2>5 DEF Moved, Dispatching
  <2> QED
    BY <2>1, <2>2, <2>6 DEF x
<1>5. CASE Answer(c)
  <2>1. PICK o \in Outcomes \ {"none"} :
          exec' = [exec EXCEPT ![c] = [x EXCEPT !.stage = "answered", !.outcome = o]]
    BY <1>5 DEF Answer, x
  <2>2. x.stage = "asking" /\ UNCHANGED signal
    BY <1>5 DEF Answer, x
  <2>3. Moved(x, [x EXCEPT !.stage = "answered", !.outcome = o])
    BY <1>0, <2>1, <2>2 DEF Moved, Sound, Execution, Stages, Outcomes, Preparing, Dispatching
  <2> QED
    BY <2>1, <2>2, <2>3 DEF x
<1>6. CASE Timeout(c)
  <2>1. /\ x.stage = "body" /\ UNCHANGED signal
        /\ exec' = [exec EXCEPT ![c] = [x EXCEPT !.timeout = TRUE]]
    BY <1>6 DEF Timeout, x
  <2>2. Moved(x, [x EXCEPT !.timeout = TRUE])
    BY <1>0, <2>1 DEF Moved, Sound, Execution, Stages, Preparing, Dispatching
  <2> QED
    BY <2>1, <2>2 DEF x
<1> QED
  BY <1>1, <1>2, <1>3, <1>4, <1>5, <1>6

\* The result of a call is made of its parked execution.
LEMMA FinishedSound ==
  ASSUME signal \in BOOLEAN, NEW x \in Execution, Sound(x), x.stage = "parked",
         NEW y \in Finished(x)
  PROVE  y \in Execution /\ Sound(y) /\ y.stage = "done"
<1>1. PICK r \in Posted(x) \union {"error"} :
        y = [Blank EXCEPT !.stage = "done", !.result = r, !.invoked = x.invoked]
  BY DEF Finished
<1>2. /\ r \in Results
      /\ r = "aborted" => x.invoked
      /\ r = "aborted before dispatch" => ~x.invoked
  BY <1>1 DEF Posted, Superseded, Cancellation, Sound, Execution, Results
<1>3. x.invoked \in BOOLEAN
  BY DEF Execution
<1> QED
  BY <1>1, <1>2, <1>3 DEF Blank, Execution, Sound, Stages, Results, Outcomes, Preparing, Dispatching
-----------------------------------------------------------------------------
(***************************************************************************)
(* The run and its lane.                                                   *)
(***************************************************************************)
LEMMA Numbers ==
  /\ IsFiniteSet(Calls) /\ Calls \subseteq Nat /\ 0 \notin Calls
  /\ MaxParallel \in Nat /\ MaxParallel > 0
<1>1. Cardinality(Calls) \in Nat
  BY CodeModeAssumption, FS_CardinalityType
<1> QED
  BY <1>1, CodeModeAssumption

LEMMA PoolSize ==
  ASSUME NEW S \in SUBSET Calls
  PROVE  IsFiniteSet(S) /\ Cardinality(S) \in Nat
  BY Numbers, FS_Subset, FS_CardinalityType

LEMMA Initially == Init => IInv
<1> SUFFICES ASSUME Init PROVE IInv
  OBVIOUS
<1>1. TypeOK
  <2>1. /\ exec \in [Calls -> Execution]
        /\ promise \in [Calls -> {"none", "pending", "settled", "rejected"}]
        /\ mode \in [Calls -> {"none", "parallel", "exclusive"}]
    BY BlankSound DEF Init
  <2>2. pending \in Seq(Calls) /\ commits \in Seq(Calls)
    BY EmptySeq DEF Init
  <2>3. lane \in [at : Places, call : Nat]
    BY DEF Init, Places
  <2> QED
    BY <2>1, <2>2, <2>3 DEF Init, TypeOK
<1>2. \A c \in Calls : Sound(exec[c]) /\ Placed(c) /\ Accounted(c)
  <2>1. \A c \in Calls : exec[c] = Blank /\ Blank.stage = "none"
    BY DEF Init, Blank
  <2>2. Listed(pending) = {} /\ Listed(commits) = {}
    BY EmptyListed DEF Init
  <2> QED
    BY <2>1, <2>2, BlankSound DEF Init, Placed, Accounted, At, Preparing, Dispatching
<1>3. Barred /\ Ended
  BY DEF Init, Barred, Ended
<1>4. Pooled
  BY Numbers, FS_EmptySet DEF Init, Pooled
<1>5. Lined
  BY EmptyListed DEF Init, Lined
<1> QED
  BY <1>1, <1>2, <1>3, <1>4, <1>5 DEF IInv

\* A step of one call's pipeline.
LEMMA PipelineKeeps ==
  ASSUME IInv, NEW c \in Calls, NEW y, Moved(exec[c], y), exec' = [exec EXCEPT ![c] = y],
         UNCHANGED <<signal, runVars, queueVars, lane>>
  PROVE  IInv'
<1> USE DEF IInv, runVars, queueVars
<1>1. TypeOK'
  BY DEF TypeOK, Moved
<1>2. \A d \in Calls : exec'[d] = IF d = c THEN y ELSE exec[d]
  BY DEF TypeOK
<1>3. ASSUME NEW d \in Calls PROVE Sound(exec[d])'
  BY <1>2 DEF Moved
<1>4. ASSUME NEW d \in Calls PROVE Placed(d)'
  <2>1. Placed(d)
    OBVIOUS
  <2>2. CASE d = c
    BY <1>2, <2>1, <2>2 DEF Placed, At, Moved, Preparing, Dispatching
  <2>3. CASE d # c
    BY <1>2, <2>1, <2>3 DEF Placed, At
  <2> QED
    BY <2>2, <2>3
<1>5. \A d \in Calls : Accounted(d)'
  BY DEF Accounted, At
<1>6. (Barred /\ Pooled /\ Ended /\ Lined)'
  BY DEF Barred, Pooled, Ended, Lined
<1> QED
  BY <1>1, <1>3, <1>4, <1>5, <1>6

\* The abort withdraws the questions and leaves every call where it is.
LEMMA Withdrawal ==
  ASSUME IInv, AbortAll
  PROVE  /\ exec' \in [Calls -> Execution] /\ signal' = TRUE
         /\ \A c \in Calls :
              /\ Sound(exec'[c])
              /\ exec'[c].stage = exec[c].stage \/ (exec[c].stage = "asking" /\ exec'[c].stage = "answered")
<1>1. ASSUME NEW c \in Calls
      PROVE  LET y == Withdrawn(exec[c]) IN
               /\ y \in Execution /\ Sound(y)
               /\ y.stage = exec[c].stage \/ (exec[c].stage = "asking" /\ y.stage = "answered")
  <2>1. exec[c] \in Execution /\ Sound(exec[c])
    BY DEF IInv, TypeOK
  <2> QED
    BY <2>1 DEF Withdrawn, Execution, Sound, Stages, Outcomes, Preparing, Dispatching
<1> QED
  BY <1>1 DEF AbortAll

LEMMA OuterAbortKeeps == ASSUME IInv, OuterAbort PROVE IInv'
<1> USE DEF IInv, runVars, queueVars
<1>0. UNCHANGED <<runVars, queueVars, lane>> /\ AbortAll
  BY DEF OuterAbort
<1>1. TypeOK'
  BY <1>0, Withdrawal DEF TypeOK
<1>2. ASSUME NEW d \in Calls PROVE (Sound(exec[d]) /\ Placed(d) /\ Accounted(d))'
  BY <1>0, Withdrawal DEF Placed, Accounted, At, Preparing, Dispatching
<1>3. (Barred /\ Pooled /\ Ended /\ Lined)'
  BY <1>0 DEF Barred, Pooled, Ended, Lined
<1> QED
  BY <1>1, <1>2, <1>3

LEMMA ProgramSettlesKeeps == ASSUME IInv, ProgramSettles PROVE IInv'
<1> USE DEF IInv, runVars, queueVars
<1>0. /\ UNCHANGED <<promise, logWork, logged, queueVars>> /\ AbortAll
      /\ run = "running" /\ run' = "draining"
      /\ lane' = lane \/ (lane.at = "off" /\ lane' = Passing)
  BY DEF ProgramSettles
<1>1. Passing.at = "pass" /\ Passing \in [at : Places, call : Nat]
  BY DEF Passing, Standing, Places
<1>2. TypeOK'
  BY <1>0, <1>1, Withdrawal DEF TypeOK
<1>3. ASSUME NEW d \in Calls, NEW where \in {"preparing", "committing", "holding"}
      PROVE  At(where, d)' <=> At(where, d)
  BY <1>0, <1>1, <1>3 DEF At
<1>4. ASSUME NEW d \in Calls PROVE (Sound(exec[d]) /\ Placed(d) /\ Accounted(d))'
  BY <1>0, <1>3, Withdrawal DEF Placed, Accounted, Preparing, Dispatching
<1>5. (Barred /\ Pooled /\ Ended /\ Lined)'
  BY <1>0, <1>1 DEF Barred, Pooled, Ended, Lined
<1> QED
  BY <1>2, <1>4, <1>5

LEMMA SubmitKeeps == ASSUME IInv, NEW c \in Calls, Submit(c) PROVE IInv'
<1> USE DEF IInv
<1>0. /\ promise[c] = "none" /\ run = "running"
      /\ UNCHANGED <<exec, signal, run, logWork, logged, commits, inFlight, mode, exclusive>>
  BY DEF Submit
<1>1. /\ c \notin Listed(pending) /\ c \notin Listed(commits) /\ c \notin inFlight /\ c \notin logWork
      /\ mode[c] = "none" /\ exec[c].stage \in {"none", "done"}
      /\ \A where \in {"preparing", "committing", "holding"} : ~At(where, c)
  BY <1>0 DEF Placed
<1>2. /\ promise' \in [Calls -> {"none", "pending", "settled", "rejected"}]
      /\ \A d \in Calls : d # c => promise'[d] = promise[d]
  BY DEF Submit, TypeOK
<1>3. CASE signal
  <2>1. promise'[c] = "rejected" /\ UNCHANGED <<pending, lane>>
    BY <1>3 DEF Submit, TypeOK
  <2>2. TypeOK'
    BY <1>0, <1>2, <2>1 DEF TypeOK
  <2>3. ASSUME NEW d \in Calls PROVE (Sound(exec[d]) /\ Placed(d) /\ Accounted(d))'
    BY <1>0, <1>1, <1>2, <2>1 DEF Placed, Accounted, At, Preparing, Dispatching
  <2>4. (Barred /\ Pooled /\ Ended /\ Lined)'
    BY <1>0, <2>1 DEF Barred, Pooled, Ended, Lined
  <2> QED
    BY <2>2, <2>3, <2>4
<1>4. CASE ~signal
  <2>1. promise'[c] = "pending" /\ pending' = Append(pending, c)
    BY <1>4 DEF Submit, TypeOK
  <2>2. /\ lane' \in [at : Places, call : Nat] /\ lane'.at # "off"
        /\ lane' = lane \/ (lane.at \in {"off", "asleep"} /\ lane'.at = "pass")
    BY <1>4 DEF Submit, Driven, Passing, Standing, Places, TypeOK
  <2>3. /\ pending' \in Seq(Calls) /\ Distinct(pending')
        /\ Listed(pending') = Listed(pending) \union {c}
    BY <1>1, <2>1, Appended DEF TypeOK, Lined
  <2>4. TypeOK'
    BY <1>0, <1>2, <2>2, <2>3 DEF TypeOK
  <2>5. ASSUME NEW d \in Calls, NEW where \in {"preparing", "committing", "holding"}
        PROVE  At(where, d)' <=> At(where, d)
    BY <2>2, <2>5 DEF At
  <2>6. ASSUME NEW d \in Calls PROVE (Sound(exec[d]) /\ Placed(d) /\ Accounted(d))'
    BY <1>0, <1>1, <1>2, <2>1, <2>3, <2>5 DEF Placed, Accounted, Preparing, Dispatching
  <2>7. (Barred /\ Pooled /\ Ended /\ Lined)'
    BY <1>0, <2>2, <2>3 DEF Barred, Pooled, Ended, Lined
  <2> QED
    BY <2>4, <2>6, <2>7
<1> QED
  BY <1>3, <1>4 DEF TypeOK

LEMMA ReturnKeeps == ASSUME IInv, Return PROVE IInv'
<1> USE DEF IInv, queueVars
<1>0. /\ UNCHANGED <<exec, signal, promise, logWork, logged, queueVars, lane>>
      /\ run' = "done" /\ lane.at = "off" /\ logWork = {}
  BY DEF Return
<1>1. TypeOK'
  BY <1>0 DEF TypeOK
<1>2. ASSUME NEW d \in Calls PROVE (Sound(exec[d]) /\ Placed(d) /\ Accounted(d))'
  BY <1>0 DEF Placed, Accounted, At
<1>3. (Barred /\ Pooled /\ Ended /\ Lined)'
  BY <1>0 DEF Barred, Pooled, Ended, Lined
<1> QED
  BY <1>1, <1>2, <1>3

LEMMA BeginCommitKeeps == ASSUME IInv, BeginCommit PROVE IInv'
<1> USE DEF IInv, runVars
<1> DEFINE c == Head(commits)
<1>0. /\ lane.at = "pass" /\ commits # <<>> /\ exec[c].stage = "parked"
      /\ commits' = Tail(commits) /\ lane' = Standing("committing", c)
      /\ UNCHANGED <<exec, signal, runVars, pending, inFlight, mode, exclusive>>
  BY DEF BeginCommit, CommitReady
<1>1. /\ c \in Calls /\ commits' \in Seq(Calls) /\ Distinct(commits')
      /\ Listed(commits) = Listed(commits') \union {c} /\ c \notin Listed(commits')
  BY <1>0, Headed DEF TypeOK, Lined
<1> HIDE DEF c
<1>2. lane' \in [at : Places, call : Nat] /\ lane'.at = "committing" /\ lane'.call = c
  BY <1>0, <1>1, Numbers DEF Standing, Places
<1>3. TypeOK'
  BY <1>0, <1>1, <1>2 DEF TypeOK
<1>4. ASSUME NEW d \in Calls PROVE (Sound(exec[d]) /\ Placed(d) /\ Accounted(d))'
  BY <1>0, <1>1, <1>2 DEF Placed, Accounted, At, Preparing, Dispatching
<1>5. (Barred /\ Pooled /\ Ended /\ Lined)'
  BY <1>0, <1>1, <1>2 DEF Barred, Pooled, Ended, Lined
<1> QED
  BY <1>3, <1>4, <1>5

LEMMA AbandonKeeps == ASSUME IInv, Abandon PROVE IInv'
<1> USE DEF IInv
<1> DEFINE c == Head(pending)
<1>0. /\ lane.at = "pass" /\ pending # <<>>
      /\ promise' = [promise EXCEPT ![c] = "rejected"] /\ pending' = Tail(pending)
      /\ UNCHANGED <<exec, signal, run, logWork, logged, commits, inFlight, mode, exclusive, lane>>
  BY DEF Abandon
<1>1. /\ c \in Calls /\ pending' \in Seq(Calls) /\ Distinct(pending')
      /\ Listed(pending) = Listed(pending') \union {c} /\ c \notin Listed(pending')
  BY <1>0, Headed DEF TypeOK, Lined
<1> HIDE DEF c
<1>2. TypeOK'
  BY <1>0, <1>1 DEF TypeOK
<1>3. \A d \in Calls : promise'[d] = IF d = c THEN "rejected" ELSE promise[d]
  BY <1>0 DEF TypeOK
<1>4. ASSUME NEW d \in Calls PROVE (Sound(exec[d]) /\ Placed(d) /\ Accounted(d))'
  BY <1>0, <1>1, <1>3 DEF Placed, Accounted, At, Preparing, Dispatching
<1>5. (Barred /\ Pooled /\ Ended /\ Lined)'
  BY <1>0, <1>1 DEF Barred, Pooled, Ended, Lined
<1> QED
  BY <1>2, <1>4, <1>5

\* Where the lane finds nothing to do, it ends only when all queues are empty.
LEMMA RestKeeps ==
  ASSUME IInv, lane.at = "pass", Rest, UNCHANGED <<exec, signal, runVars, queueVars>>
  PROVE  IInv'
<1> USE DEF IInv, runVars, queueVars
<1>1. /\ lane' \in [at : Places, call : Nat]
      /\ lane'.at \in {"off", "asleep"}
      /\ lane'.at = "off" => pending = <<>> /\ commits = <<>> /\ inFlight = {}
  BY DEF Rest, Standing, Places
<1>2. TypeOK'
  BY <1>1 DEF TypeOK
<1>3. ASSUME NEW d \in Calls PROVE (Sound(exec[d]) /\ Placed(d) /\ Accounted(d))'
  BY <1>1 DEF Placed, Accounted, At
<1>4. (Barred /\ Pooled /\ Ended /\ Lined)'
  BY <1>1 DEF Barred, Pooled, Ended, Lined
<1> QED
  BY <1>2, <1>3, <1>4

LEMMA IdleKeeps == ASSUME IInv, Idle PROVE IInv'
  BY RestKeeps DEF Idle

\* An exclusive call starts when nothing is under way: the head of the commit
\* queue would be parked or in the pool.
LEMMA NothingUnderWay ==
  ASSUME IInv, lane.at = "pass", ~CommitReady, inFlight = {}
  PROVE  \A c \in Calls : mode[c] = "none"
<1>1. commits = <<>>
  <2> SUFFICES ASSUME commits # <<>> PROVE FALSE
    OBVIOUS
  <2> DEFINE c == Head(commits)
  <2>1. c \in Calls /\ c \in Listed(commits)
    BY Headed DEF IInv, TypeOK
  <2>2. exec[c].stage # "parked"
    BY DEF CommitReady
  <2> HIDE DEF c
  <2>3. Placed(c) /\ exec[c] \in Execution
    BY <2>1 DEF IInv, TypeOK
  <2>4. exec[c].stage \in Dispatching
    BY <2>1, <2>2, <2>3 DEF Placed, At, Execution, Stages, Preparing, Dispatching
  <2> QED
    BY <2>3, <2>4 DEF Placed
<1> QED
  BY <1>1, EmptyListed DEF IInv, Placed, At

LEMMA StartKeeps ==
  ASSUME IInv, lane.at = "pass", ~CommitReady, pending # <<>>,
         NEW m \in {"parallel", "exclusive"}, Capacity(m), Start(m)
  PROVE  IInv'
<1> USE DEF IInv
<1> DEFINE c == Head(pending)
<1>0. /\ exclusive' = (exclusive \/ m = "exclusive")
      /\ mode' = [mode EXCEPT ![c] = m]
      /\ pending' = Tail(pending) /\ commits' = Append(commits, c)
      /\ logged' = logged \cup {[kind |-> "start", call |-> c]}
      /\ exec' = [exec EXCEPT ![c] = Created]
      /\ lane' = Standing("preparing", c)
      /\ UNCHANGED <<signal, run, promise, logWork, inFlight>>
  BY DEF Start
<1>1. /\ c \in Calls /\ pending' \in Seq(Calls) /\ Distinct(pending')
      /\ Listed(pending) = Listed(pending') \union {c} /\ c \notin Listed(pending')
  BY <1>0, Headed DEF TypeOK, Lined
<1> HIDE DEF c
<1>2. /\ promise[c] = "pending" /\ mode[c] = "none" /\ c \notin inFlight
      /\ c \notin Listed(commits) /\ c \notin logWork
  BY <1>1 DEF Placed
<1>3. /\ commits' \in Seq(Calls) /\ Distinct(commits')
      /\ Listed(commits') = Listed(commits) \union {c}
  BY <1>0, <1>1, <1>2, Appended DEF TypeOK, Lined
<1>4. Created \in Execution /\ Sound(Created) /\ Created.stage \in {"pre-execute", "parked"}
  <2>1. Park(Blank, "aborted before dispatch", FALSE).stage = "parked"
        /\ Park(Blank, "aborted before dispatch", FALSE) \in Execution
        /\ Sound(Park(Blank, "aborted before dispatch", FALSE))
    BY BlankSound DEF Park, Blank, Execution, Sound, Stages, Results, Outcomes, Preparing, Dispatching
  <2>2. LET x == [Blank EXCEPT !.stage = "pre-execute"] IN
          x \in Execution /\ Sound(x) /\ x.stage = "pre-execute"
    BY DEF Blank, Execution, Sound, Stages, Results, Outcomes, Preparing, Dispatching
  <2> QED
    BY <2>1, <2>2 DEF Created
<1>5. lane' \in [at : Places, call : Nat] /\ lane'.at = "preparing" /\ lane'.call = c
  BY <1>0, <1>1, Numbers DEF Standing, Places
<1>6. TypeOK'
  BY <1>0, <1>1, <1>3, <1>4, <1>5 DEF TypeOK
<1>7. /\ \A d \in Calls : mode'[d] = IF d = c THEN m ELSE mode[d]
      /\ \A d \in Calls : exec'[d] = IF d = c THEN Created ELSE exec[d]
  BY <1>0 DEF TypeOK
<1>8. ASSUME NEW d \in Calls PROVE (Sound(exec[d]) /\ Placed(d))'
  <2>1. CASE d = c
    BY <1>0, <1>1, <1>2, <1>3, <1>4, <1>5, <1>7, <2>1 DEF Placed, At, Preparing, Dispatching
  <2>2. CASE d # c
    BY <1>0, <1>1, <1>3, <1>5, <1>7, <2>2 DEF Placed, At, Preparing, Dispatching
  <2> QED
    BY <2>1, <2>2
<1>9. ASSUME NEW d \in Calls PROVE Accounted(d)'
  <2>1. CASE d = c
    BY <1>5, <1>7, <2>1 DEF Accounted, At
  <2>2. CASE d # c
    <3>1. [kind |-> "start", call |-> d] \in logged' => [kind |-> "start", call |-> d] \in logged
      BY <1>0, <2>2
    <3> QED
      BY <1>0, <1>5, <1>7, <2>2, <3>1 DEF Accounted, At
  <2> QED
    BY <2>1, <2>2
<1>10. Barred'
  <2>1. \A d \in Calls : mode[d] # "exclusive"
    BY DEF Capacity, Barred, TypeOK
  <2>2. m = "exclusive" => \A d \in Calls : mode[d] = "none"
    BY NothingUnderWay DEF Capacity
  <2>3. ~exclusive
    BY DEF Capacity
  <2> QED
    BY <1>0, <1>1, <1>7, <2>1, <2>2, <2>3 DEF Barred
<1>11. Pooled'
  <2>1. Cardinality(inFlight) < MaxParallel
    BY FS_EmptySet, Numbers DEF Capacity
  <2> QED
    BY <1>0, <2>1 DEF Pooled
<1>12. (Ended /\ Lined)'
  BY <1>0, <1>1, <1>3, <1>5 DEF Ended, Lined
<1> QED
  BY <1>6, <1>8, <1>9, <1>10, <1>11, <1>12

LEMMA ClassifyKeeps == ASSUME IInv, Classify PROVE IInv'
<1>1. PICK m \in {"parallel", "exclusive"} :
        IF Capacity(m) THEN Start(m) ELSE Rest /\ UNCHANGED <<exec, signal, runVars, queueVars>>
  BY DEF Classify
<1>2. lane.at = "pass" /\ ~CommitReady /\ pending # <<>>
  BY DEF Classify
<1> QED
  BY <1>1, <1>2, StartKeeps, RestKeeps

LEMMA LaunchKeeps == ASSUME IInv, Launch PROVE IInv'
<1> USE DEF IInv, runVars
<1> DEFINE c == lane.call
           y == [exec[c] EXCEPT !.stage = IF @ = "ready" THEN "around" ELSE @]
<1>0. /\ lane.at = "preparing" /\ exec[c].stage \in {"ready", "parked"}
      /\ exec' = [exec EXCEPT ![c] = y]
      /\ inFlight' = inFlight \cup {c} /\ lane' = Passing
      /\ UNCHANGED <<signal, runVars, pending, commits, mode, exclusive>>
  BY DEF Launch
<1>1. c \in Calls /\ exec[c] \in Execution /\ Sound(exec[c])
  BY <1>0 DEF Ended, TypeOK
<1>2. y \in Execution /\ Sound(y) /\ y.stage \in {"around", "parked"}
  BY <1>0, <1>1 DEF Execution, Sound, Stages, Preparing, Dispatching
<1>3. c \in Listed(commits) /\ c \notin inFlight /\ promise[c] = "pending" /\ At("preparing", c)
      /\ c \notin Listed(pending)
  BY <1>0, <1>1 DEF Placed, At
<1> HIDE DEF y, c
<1>4. lane' \in [at : Places, call : Nat] /\ lane'.at = "pass"
  BY <1>0 DEF Passing, Standing, Places
<1>5. TypeOK'
  BY <1>0, <1>1, <1>2, <1>4 DEF TypeOK
<1>6. \A d \in Calls : exec'[d] = IF d = c THEN y ELSE exec[d]
  BY <1>0 DEF TypeOK
<1>7. ASSUME NEW d \in Calls PROVE (Sound(exec[d]) /\ Placed(d) /\ Accounted(d))'
  <2>1. CASE d = c
    BY <1>0, <1>1, <1>2, <1>3, <1>4, <1>6, <2>1 DEF Placed, Accounted, At, Preparing, Dispatching
  <2>2. CASE d # c
    <3>1. ~At("preparing", d) /\ ~At("committing", d) /\ ~At("holding", d)
      BY <1>0, <2>2 DEF At, c
    <3> QED
      BY <1>0, <1>4, <1>6, <2>2, <3>1 DEF Placed, Accounted, At, Preparing, Dispatching
  <2> QED
    BY <2>1, <2>2
<1>8. Pooled'
  <2>1. /\ IsFiniteSet(inFlight) /\ Cardinality(inFlight) \in Nat
        /\ Cardinality(inFlight) < MaxParallel
    BY <1>0, PoolSize DEF Pooled, TypeOK
  <2>2. Cardinality(inFlight \cup {c}) = Cardinality(inFlight) + 1
    BY <1>3, <2>1, FS_AddElement
  <2> QED
    BY <1>0, <1>4, <2>1, <2>2, Numbers DEF Pooled
<1>9. (Barred /\ Ended /\ Lined)'
  BY <1>0, <1>4 DEF Barred, Ended, Lined
<1> QED
  BY <1>5, <1>7, <1>8, <1>9

LEMMA LeaveKeeps == ASSUME IInv, NEW c \in Calls, Leave(c) PROVE IInv'
<1> USE DEF IInv, runVars
<1>0. /\ c \in inFlight /\ exec[c].stage \in {"parked", "done"}
      /\ inFlight' = inFlight \ {c}
      /\ UNCHANGED <<exec, signal, runVars, pending, commits, mode, exclusive>>
  BY DEF Leave
<1>1. /\ lane' \in [at : Places, call : Nat] /\ (lane'.at = "off" => lane.at = "off")
      /\ lane' = lane \/ (lane.at = "asleep" /\ lane'.at = "pass")
  BY DEF Leave, Woken, Passing, Standing, Places, TypeOK
<1>2. TypeOK'
  BY <1>0, <1>1 DEF TypeOK
<1>3. ASSUME NEW d \in Calls, NEW where \in {"preparing", "committing", "holding"}
      PROVE  At(where, d)' <=> At(where, d)
  BY <1>1, <1>3 DEF At
<1>4. ASSUME NEW d \in Calls PROVE (Sound(exec[d]) /\ Placed(d) /\ Accounted(d))'
  BY <1>0, <1>3 DEF Placed, Accounted, Preparing, Dispatching
<1>5. Pooled'
  <2>1. /\ Cardinality(inFlight) \in Nat /\ Cardinality(inFlight \ {c}) \in Nat
        /\ Cardinality(inFlight \ {c}) <= Cardinality(inFlight)
    BY PoolSize, FS_Subset DEF TypeOK
  <2> QED
    BY <1>0, <1>1, <2>1, Numbers DEF Pooled
<1>6. (Barred /\ Ended /\ Lined)'
  BY <1>0, <1>1 DEF Barred, Ended, Lined
<1> QED
  BY <1>2, <1>4, <1>5, <1>6

LEMMA CommitKeeps == ASSUME IInv, Commit PROVE IInv'
<1> USE DEF IInv, queueVars
<1> DEFINE c == lane.call
<1>0. /\ lane.at = "committing" /\ exec[c].stage = "parked"
      /\ promise' = [promise EXCEPT ![c] = "settled"]
      /\ logWork' = logWork \cup {c} /\ lane' = Standing("holding", c)
      /\ UNCHANGED <<signal, run, logged, queueVars>>
  BY DEF Commit
<1>1. PICK y \in Finished(exec[c]) : exec' = [exec EXCEPT ![c] = y]
  BY DEF Commit
<1>2. c \in Calls /\ exec[c] \in Execution /\ Sound(exec[c]) /\ At("committing", c)
  BY <1>0 DEF Ended, TypeOK, At
<1> HIDE DEF c
<1>3. y \in Execution /\ Sound(y) /\ y.stage = "done"
  BY <1>0, <1>1, <1>2, FinishedSound DEF TypeOK
<1>4. /\ promise[c] = "pending" /\ mode[c] # "none"
      /\ c \notin Listed(pending) /\ c \notin Listed(commits)
  BY <1>2 DEF Placed
<1>5. lane' \in [at : Places, call : Nat] /\ lane'.at = "holding" /\ lane'.call = c
  BY <1>0, <1>2, Numbers DEF Standing, Places
<1>6. TypeOK'
  BY <1>0, <1>1, <1>2, <1>3, <1>5 DEF TypeOK
<1>7. \A d \in Calls : /\ exec'[d] = IF d = c THEN y ELSE exec[d]
                       /\ promise'[d] = IF d = c THEN "settled" ELSE promise[d]
  BY <1>0, <1>1 DEF TypeOK
<1>8. ASSUME NEW d \in Calls PROVE (Sound(exec[d]) /\ Placed(d) /\ Accounted(d))'
  <2>1. CASE d = c
    BY <1>0, <1>2, <1>3, <1>4, <1>5, <1>7, <2>1 DEF Placed, Accounted, At, Preparing, Dispatching
  <2>2. CASE d # c
    <3>1. ~At("committing", d) /\ ~At("holding", d) /\ ~At("preparing", d)
      BY <1>2, <2>2 DEF At
    <3> QED
      BY <1>0, <1>5, <1>7, <2>2, <3>1 DEF Placed, Accounted, At, Preparing, Dispatching
  <2> QED
    BY <2>1, <2>2
<1>9. (Barred /\ Pooled /\ Ended /\ Lined)'
  BY <1>0, <1>2, <1>5 DEF Barred, Pooled, Ended, Lined
<1> QED
  BY <1>6, <1>8, <1>9

LEMMA ReleaseKeeps == ASSUME IInv, Release PROVE IInv'
<1> USE DEF IInv, runVars
<1> DEFINE c == lane.call
<1>0. /\ lane.at = "holding"
      /\ exclusive' = Barrier(c)
      /\ mode' = [mode EXCEPT ![c] = "none"] /\ lane' = Passing
      /\ UNCHANGED <<exec, signal, runVars, pending, commits, inFlight>>
  BY DEF Release
<1>2. c \in Calls /\ At("holding", c)
  BY <1>0 DEF Ended, At
<1> HIDE DEF c
<1>3. /\ promise[c] = "settled" /\ mode[c] # "none" /\ exec[c].stage = "done"
      /\ c \notin Listed(pending) /\ c \notin Listed(commits)
  BY <1>2 DEF Placed
<1>4. lane' \in [at : Places, call : Nat] /\ lane'.at = "pass"
  BY <1>0 DEF Passing, Standing, Places
<1>5. TypeOK'
  BY <1>0, <1>2, <1>4 DEF TypeOK, Barrier
<1>6. \A d \in Calls : mode'[d] = IF d = c THEN "none" ELSE mode[d]
  BY <1>0 DEF TypeOK
<1>7. ASSUME NEW d \in Calls PROVE (Sound(exec[d]) /\ Placed(d) /\ Accounted(d))'
  <2>1. CASE d = c
    BY <1>0, <1>2, <1>3, <1>4, <1>6, <2>1 DEF Placed, Accounted, At, Preparing, Dispatching
  <2>2. CASE d # c
    <3>1. ~At("committing", d) /\ ~At("holding", d) /\ ~At("preparing", d)
      BY <1>2, <2>2 DEF At
    <3> QED
      BY <1>0, <1>4, <1>6, <2>2, <3>1 DEF Placed, Accounted, At, Preparing, Dispatching
  <2> QED
    BY <2>1, <2>2
<1>8. Barred'
  <2>1. \A d \in Calls : mode'[d] # "exclusive"
    BY <1>2, <1>3, <1>6 DEF Barred
  <2>2. ~(exclusive /\ mode[c] # "exclusive")
    BY <1>2, <1>3 DEF Barred
  <2>3. exclusive' = FALSE
    BY <1>0, <2>2 DEF Barrier
  <2> QED
    BY <2>1, <2>3 DEF Barred
<1>9. (Pooled /\ Ended /\ Lined)'
  BY <1>0, <1>4 DEF Pooled, Ended, Lined
<1> QED
  BY <1>5, <1>7, <1>8, <1>9

LEMMA LogDispatchKeeps == ASSUME IInv, NEW c \in Calls, LogDispatch(c) PROVE IInv'
<1> USE DEF IInv, queueVars
<1> DEFINE y == [Blank EXCEPT !.stage = "done"]
<1>0. /\ c \in logWork /\ logWork' = logWork \ {c}
      /\ logged' = logged \cup {[kind |-> "settled", call |-> c]}
      /\ exec' = [exec EXCEPT ![c] = y]
      /\ UNCHANGED <<signal, run, promise, queueVars, lane>>
  BY DEF LogDispatch
<1>1. y \in Execution /\ Sound(y) /\ y.stage = "done"
  BY DEF Blank, Execution, Sound, Stages, Results, Outcomes, Preparing, Dispatching
<1> HIDE DEF y
<1>2. promise[c] = "settled" /\ c \notin Listed(commits) /\ ~At("committing", c)
      /\ ~At("preparing", c)
  BY <1>0 DEF Placed
<1>3. TypeOK'
  BY <1>0, <1>1 DEF TypeOK
<1>4. \A d \in Calls : exec'[d] = IF d = c THEN y ELSE exec[d]
  BY <1>0 DEF TypeOK
<1>5. ASSUME NEW d \in Calls PROVE (Sound(exec[d]) /\ Placed(d))'
  BY <1>0, <1>1, <1>2, <1>4 DEF Placed, At, Preparing, Dispatching
<1>6. ASSUME NEW d \in Calls PROVE Accounted(d)'
  <2>1. [kind |-> "start", call |-> d] \in logged' => [kind |-> "start", call |-> d] \in logged
    BY <1>0
  <2> QED
    BY <1>0, <2>1 DEF Accounted, At
<1>7. (Barred /\ Pooled /\ Ended /\ Lined)'
  BY <1>0 DEF Barred, Pooled, Ended, Lined
<1> QED
  BY <1>3, <1>5, <1>6, <1>7

-----------------------------------------------------------------------------
(***************************************************************************)
(* The theorems.                                                           *)
(***************************************************************************)
LEMMA Preserved == IInv /\ [Next]_vars => IInv'
<1> SUFFICES ASSUME IInv, [Next]_vars PROVE IInv'
  OBVIOUS
<1>1. CASE OuterAbort
  BY <1>1, OuterAbortKeeps
<1>2. CASE ProgramSettles
  BY <1>2, ProgramSettlesKeeps
<1>3. CASE Return
  BY <1>3, ReturnKeeps
<1>4. CASE Lane
  BY <1>4, BeginCommitKeeps, AbandonKeeps, ClassifyKeeps, IdleKeeps, LaunchKeeps, CommitKeeps,
     ReleaseKeeps DEF Lane
<1>5. ASSUME NEW c \in Calls, Submit(c) \/ Leave(c) \/ LogDispatch(c) PROVE IInv'
  BY <1>5, SubmitKeeps, LeaveKeeps, LogDispatchKeeps
<1>6. ASSUME NEW c \in Calls, Stage(c) \/ Plugin(c) PROVE IInv'
  <2>1. /\ PreExecute(c) \/ Resolve(c) \/ Around(c) \/ BodySettles(c) \/ Answer(c) \/ Timeout(c)
        /\ UNCHANGED <<runVars, queueVars, lane>>
    BY <1>6 DEF Stage, Plugin
  <2>2. signal \in BOOLEAN /\ exec \in [Calls -> Execution] /\ Sound(exec[c])
    BY <1>6 DEF IInv, TypeOK
  <2>3. UNCHANGED signal /\ \E y : Moved(exec[c], y) /\ exec' = [exec EXCEPT ![c] = y]
    BY <1>6, <2>1, <2>2, PipelineMoves
  <2>4. PICK y : Moved(exec[c], y) /\ exec' = [exec EXCEPT ![c] = y]
    BY <2>3
  <2>5. UNCHANGED <<signal, runVars, queueVars, lane>>
    BY <2>1, <2>3
  <2> QED
    BY <1>6, <2>4, <2>5, PipelineKeeps
<1>7. CASE UNCHANGED vars
  <2> USE <1>7 DEF IInv, vars, runVars, queueVars
  <2>1. TypeOK'
    BY DEF TypeOK
  <2>2. ASSUME NEW d \in Calls PROVE (Sound(exec[d]) /\ Placed(d) /\ Accounted(d))'
    BY DEF Placed, Accounted, At
  <2>3. (Barred /\ Pooled /\ Ended /\ Lined)'
    BY DEF Barred, Pooled, Ended, Lined
  <2> QED
    BY <2>1, <2>2, <2>3
<1> QED
  BY <1>1, <1>2, <1>3, <1>4, <1>5, <1>6, <1>7 DEF Next

\* The strengthening holds in every reachable state.
THEOREM Invariance == Spec => []IInv
  BY Initially, Preserved, PTL DEF Spec

\* What a result says of the body of its tool is true, whatever wrappers, aborts
\* and timeouts did to the call.
THEOREM Outcome == Spec => []OutcomeTellsTheBody
<1>1. IInv => OutcomeTellsTheBody
  BY DEF IInv, Sound, OutcomeTellsTheBody
<1> QED
  BY Invariance, <1>1, PTL

\* A call a user was asked about runs only when the user allowed it.
THEOREM Granted == Spec => []OnlyGrantedRuns
<1>1. IInv => OnlyGrantedRuns
  BY DEF IInv, Sound, OnlyGrantedRuns
<1> QED
  BY Invariance, <1>1, PTL

\* Every variable keeps its type.
THEOREM TypeCorrect == Spec => []TypeOK
<1>1. IInv => TypeOK
  BY DEF IInv
<1> QED
  BY Invariance, <1>1, PTL

\* An exclusive call has the run to itself, and the pool bounds the bodies.
THEOREM Exclusive == Spec => []ExclusiveRunsAlone
<1>1. ASSUME IInv PROVE ExclusiveRunsAlone
  <2>1. ASSUME NEW c \in UnderWay, mode[c] = "exclusive" PROVE UnderWay = {c}
    BY <1>1, <2>1 DEF IInv, Barred, UnderWay
  <2> DEFINE B == {c \in Calls : exec[c].stage \in {"around", "body"}}
  <2>2. B \subseteq inFlight
    BY <1>1 DEF IInv, Placed, Dispatching
  <2>3. Cardinality(B) <= MaxParallel
    <3>1. inFlight \subseteq Calls /\ Cardinality(inFlight) <= MaxParallel
      BY <1>1 DEF IInv, TypeOK, Pooled
    <3>2. /\ Cardinality(B) <= Cardinality(inFlight)
          /\ Cardinality(B) \in Nat /\ Cardinality(inFlight) \in Nat
      BY <2>2, <3>1, PoolSize, FS_Subset
    <3> QED
      BY <3>1, <3>2, Numbers
  <2> QED
    BY <2>1, <2>3 DEF ExclusiveRunsAlone
<1> QED
  BY Invariance, <1>1, PTL

\* When the run returns, nothing it started goes on or is left unlogged.
THEOREM Contained == Spec => []NothingOutlivesTheRun
<1>1. ASSUME IInv, run = "done", NEW c \in Calls
      PROVE  /\ exec[c].stage \in {"none", "done"} /\ promise[c] # "pending"
             /\ [kind |-> "start", call |-> c] \in logged
                   => [kind |-> "settled", call |-> c] \in logged
  <2>1. lane.at = "off" /\ logWork = {} /\ Listed(pending) = {} /\ Listed(commits) = {}
    BY <1>1, EmptyListed DEF IInv, Ended
  <2> QED
    BY <1>1, <2>1 DEF IInv, Placed, Accounted, At
<1>2. IInv => NothingOutlivesTheRun
  BY <1>1 DEF NothingOutlivesTheRun
<1> QED
  BY Invariance, <1>2, PTL
=============================================================================
