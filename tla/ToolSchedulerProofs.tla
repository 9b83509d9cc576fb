------------------------ MODULE ToolSchedulerProofs ------------------------
(***************************************************************************)
(* Proofs about ToolScheduler, for every number of calls and every size of *)
(* the pool.                                                               *)
(***************************************************************************)
EXTENDS ToolScheduler, FiniteSetTheorems, SequenceTheorems, TLAPS

(***************************************************************************)
(* The strengthening.                                                      *)
(***************************************************************************)
InGroup == {"preparing", "committing", "pool"}

\* The log holds a prefix of the calls and a shorter prefix of the results.
Numbered ==
  /\ calls = Ordered!UpTo(Len(calls))
  /\ results = Ordered!UpTo(Len(results))

\* How far the counters of the scheduler and the log are apart.
Counted ==
  /\ first <= Len(results)
  /\ Len(results) <= Len(calls)
  /\ Len(calls) <= N
  /\ pc # "aborted" => Len(calls) <= last
  /\ pc \in {"group", "done", "aborted"} => Len(results) = Len(calls)
  /\ pc = "group" => first = Len(calls)
  /\ pc \in {"preparing", "committing"} => first < Len(calls)

\* The pool holds started calls of this group, and what left it has a result.
Pooled ==
  /\ slots \subseteq 1..Len(calls)
  /\ inFlight \subseteq (first + 1)..Len(calls)
  /\ pc \in {"group", "done", "aborted"} => inFlight = {}
  /\ pc = "failed" => running = {}
  /\ \A c \in inFlight \ running : c \in slots \/ failure

Bounded ==
  /\ Cardinality(inFlight) <= MaxParallel
  /\ pc = "preparing" => Cardinality(inFlight) < MaxParallel

\* Every started call without a result is somewhere, and while the scheduler
\* races the next one to commit is in the pool.
Covered ==
  /\ pc \in InGroup => \A c \in (Len(results) + 1)..Len(calls) :
       c \in slots \union inFlight \/ (pc = "preparing" /\ c = Len(calls))
  /\ pc = "pool" /\ Len(results) < Len(calls) => Len(results) + 1 \in inFlight

\* A group of more than one call is parallel throughout.
Barrier ==
  pc \in InGroup \union {"drain", "failed"} =>
    last = first + 1 \/ \A c \in (first + 1)..Len(calls) : mode[c] = "parallel"

IInv ==
  /\ TypeOK
  /\ Numbered
  /\ Counted
  /\ Pooled
  /\ Bounded
  /\ Covered
  /\ Barrier

USE DEF Ends, Stops, Calls

-----------------------------------------------------------------------------
(***************************************************************************)
(* The log as a sequence.                                                  *)
(***************************************************************************)
LEMMA UpToIsASequence ==
  ASSUME NEW k \in Nat, NEW n \in Nat, k <= n
  PROVE  Ordered!UpTo(k) \in Seq(1..n) /\ Len(Ordered!UpTo(k)) = k
<1>1. Ordered!UpTo(k) \in [1..k -> 1..n]
  BY DEF Ordered!UpTo
<1> QED
  BY <1>1

LEMMA UpToExtends ==
  ASSUME NEW k \in Nat
  PROVE  Append(Ordered!UpTo(k), k + 1) = Ordered!UpTo(k + 1)
<1> DEFINE s == Append(Ordered!UpTo(k), k + 1)
           t == Ordered!UpTo(k + 1)
<1>1. /\ Ordered!UpTo(k) \in Seq(1..(k + 1)) /\ Len(Ordered!UpTo(k)) = k
      /\ t \in Seq(1..(k + 1)) /\ Len(t) = k + 1
  BY UpToIsASequence
<1>2. s \in Seq(1..(k + 1)) /\ Len(s) = k + 1
  BY <1>1, AppendProperties
<1>3. \A i \in 1..k : s[i] = i
  BY <1>1, AppendProperties DEF Ordered!UpTo
<1>4. s[k + 1] = k + 1
  BY <1>1, AppendProperties
<1>5. \A i \in 1..(k + 1) : t[i] = i
  BY DEF Ordered!UpTo
<1>6. \A i \in 1..Len(s) : s[i] = t[i]
  BY <1>2, <1>3, <1>4, <1>5
<1> HIDE DEF s, t
<1>7. s = t
  BY <1>1, <1>2, <1>6, SeqEqual
<1> QED
  BY <1>7 DEF s, t

LEMMA UpToCompletes ==
  ASSUME NEW n \in Nat, NEW k \in 0..n
  PROVE  Ordered!UpTo(k) \o [i \in 1..(n - k) |-> k + i] = Ordered!UpTo(n)
<1> DEFINE start == Ordered!UpTo(k)
           rest == [i \in 1..(n - k) |-> k + i]
           t == Ordered!UpTo(n)
<1>1. /\ start \in Seq(1..n) /\ Len(start) = k
      /\ t \in Seq(1..n) /\ Len(t) = n
  BY UpToIsASequence
<1>2. rest \in Seq(1..n) /\ Len(rest) = n - k
  <2>1. rest \in [1..(n - k) -> 1..n]
    OBVIOUS
  <2> QED
    BY <2>1
<1>3. \A i \in 1..k : start[i] = i
  BY DEF Ordered!UpTo
<1>4. \A i \in 1..(n - k) : rest[i] = k + i
  OBVIOUS
<1>5. \A i \in 1..n : t[i] = i
  BY DEF Ordered!UpTo
<1> HIDE DEF start, rest, t
<1>6. /\ start \o rest \in Seq(1..n) /\ Len(start \o rest) = k + (n - k)
      /\ \A i \in 1..(k + (n - k)) :
           (start \o rest)[i] = IF i <= k THEN start[i] ELSE rest[i - k]
  <2>1. /\ start \o rest \in Seq(1..n) /\ Len(start \o rest) = Len(start) + Len(rest)
        /\ \A i \in 1..Len(start) + Len(rest) :
             (start \o rest)[i] = IF i <= Len(start) THEN start[i] ELSE rest[i - Len(start)]
    BY <1>1, <1>2, ConcatProperties, Zenon
  <2> QED
    BY <1>1, <1>2, <2>1, Zenon
<1>7. k + (n - k) = n
  OBVIOUS
<1>8. \A i \in 1..n : (start \o rest)[i] = i
  <2> TAKE i \in 1..n
  <2>1. CASE i <= k
    BY <1>3, <1>6, <1>7, <2>1
  <2>2. CASE ~(i <= k)
    <3>1. i - k \in 1..(n - k) /\ k + (i - k) = i
      BY <2>2
    <3> QED
      BY <1>4, <1>6, <1>7, <2>2, <3>1
  <2> QED
    BY <2>1, <2>2
<1>9. start \o rest = t
  <2>1. Len(start \o rest) = Len(t) /\ \A i \in 1..Len(start \o rest) : (start \o rest)[i] = t[i]
    BY <1>1, <1>5, <1>6, <1>7, <1>8
  <2> QED
    BY <1>1, <1>6, <2>1, SeqEqual, Zenon
<1> QED
  BY <1>9 DEF start, rest, t

LEMMA Lengths ==
  ASSUME TypeOK
  PROVE  Len(calls) \in Nat /\ Len(results) \in Nat
  BY LenProperties DEF TypeOK, LogTypeOK

\* Logging the next call or the next result keeps the log numbered.
LEMMA CallLogged ==
  ASSUME TypeOK, Numbered, Len(calls) < N, calls' = Append(calls, Len(calls) + 1)
  PROVE  /\ calls' \in Seq(Calls)
         /\ calls' = Ordered!UpTo(Len(calls'))
         /\ Len(calls') = Len(calls) + 1
<1> DEFINE k == Len(calls) + 1
<1>1. Len(calls) \in Nat /\ N \in Nat /\ k \in Nat /\ k <= N
  BY Lengths, ToolSchedulerAssumption DEF ToolSchedulerAssumption
<1>2. calls' = Ordered!UpTo(k)
  BY <1>1, UpToExtends DEF Numbered
<1> HIDE DEF k
<1>3. Ordered!UpTo(k) \in Seq(1..N) /\ Len(Ordered!UpTo(k)) = k
  BY <1>1, UpToIsASequence
<1> QED
  BY <1>2, <1>3 DEF k

LEMMA ResultLogged ==
  ASSUME TypeOK, Numbered, Len(results) < N, results' = Append(results, Len(results) + 1)
  PROVE  /\ results' \in Seq(Calls)
         /\ results' = Ordered!UpTo(Len(results'))
         /\ Len(results') = Len(results) + 1
<1> DEFINE k == Len(results) + 1
<1>1. Len(results) \in Nat /\ N \in Nat /\ k \in Nat /\ k <= N
  BY Lengths, ToolSchedulerAssumption DEF ToolSchedulerAssumption
<1>2. results' = Ordered!UpTo(k)
  BY <1>1, UpToExtends DEF Numbered
<1> HIDE DEF k
<1>3. Ordered!UpTo(k) \in Seq(1..N) /\ Len(Ordered!UpTo(k)) = k
  BY <1>1, UpToIsASequence
<1> QED
  BY <1>2, <1>3 DEF k

\* The fill loop starts the next call of the group, or goes to race.
LEMMA Filling ==
  ASSUME TypeOK, Numbered, NEW before \in Nat, NEW end \in 0..N, NEW stop \in BOOLEAN,
         Fill(before, end, stop)
  PROVE  \/ /\ pc' = "preparing" /\ ~stop
            /\ Len(calls) + 1 <= end
            /\ Len(calls) = before \/ mode[Len(calls) + 1] = "parallel"
            /\ Cardinality(inFlight) < MaxParallel
            /\ calls' = Append(calls, Len(calls) + 1)
            /\ calls' \in Seq(Calls)
            /\ calls' = Ordered!UpTo(Len(calls'))
            /\ Len(calls') = Len(calls) + 1
         \/ pc' = "pool" /\ calls' = calls
<1> DEFINE c == Len(calls) + 1
           starts == ~stop /\ MayStart(c, before, end) /\ Cardinality(inFlight) < MaxParallel
<1>1. /\ starts => calls' = Append(calls, c) /\ pc' = "preparing"
      /\ ~starts => calls' = calls /\ pc' = "pool"
  BY DEF Fill
<1>2. CASE starts
  <2>1. Len(calls) \in Nat /\ c <= end /\ (c = before + 1 \/ mode[c] = "parallel")
    BY <1>2, Lengths DEF MayStart
  <2>2. Len(calls) < N /\ (Len(calls) = before \/ mode[c] = "parallel")
    BY <2>1, ToolSchedulerAssumption DEF ToolSchedulerAssumption
  <2> QED
    BY <1>1, <1>2, <2>1, <2>2, CallLogged
<1>3. CASE ~starts
  BY <1>1, <1>3
<1> QED
  BY <1>2, <1>3

-----------------------------------------------------------------------------
(***************************************************************************)
(* The invariant: one lemma per action.                                    *)
(***************************************************************************)
LEMMA InitIInv == Init => IInv
<1> SUFFICES ASSUME Init PROVE IInv
  OBVIOUS
<1>1. /\ Len(calls) = 0 /\ Len(results) = 0
      /\ calls \in Seq(Calls) /\ results \in Seq(Calls)
  BY EmptySeq DEF Init
<1>2. N \in Nat /\ MaxParallel \in Nat \ {0}
  BY ToolSchedulerAssumption DEF ToolSchedulerAssumption
<1>3. TypeOK
  <2>1. ProgressTypeOK
    BY <1>2 DEF Init, ProgressTypeOK
  <2>2. LogTypeOK /\ PoolTypeOK
    BY <1>1 DEF Init, LogTypeOK, PoolTypeOK
  <2>3. SignalTypeOK
    BY DEF Init, SignalTypeOK
  <2> QED
    BY <2>1, <2>2, <2>3 DEF TypeOK
<1>4. Numbered
  <2>1. Ordered!UpTo(0) \in Seq(1..0) /\ Len(Ordered!UpTo(0)) = 0
    BY UpToIsASequence
  <2>2. Ordered!UpTo(0) = <<>>
    BY <2>1, EmptySeq
  <2> QED
    BY <1>1, <2>2 DEF Init, Numbered
<1>5. Counted
  BY <1>1, <1>2 DEF Init, Counted
<1>6. Pooled
  BY DEF Init, Pooled
<1>7. Bounded
  BY <1>2, FS_EmptySet DEF Init, Bounded
<1>8. Covered /\ Barrier
  BY DEF Init, Covered, Barrier, InGroup
<1> QED
  BY <1>3, <1>4, <1>5, <1>6, <1>7, <1>8 DEF IInv

LEMMA PoolIsFinite ==
  ASSUME TypeOK
  PROVE  IsFiniteSet(inFlight) /\ Cardinality(inFlight) \in Nat
<1>1. IsFiniteSet(1..N)
  BY FS_Interval, ToolSchedulerAssumption DEF ToolSchedulerAssumption
<1>2. IsFiniteSet(inFlight)
  BY <1>1, FS_Subset DEF TypeOK, PoolTypeOK
<1> QED
  BY <1>2, FS_CardinalityType

LEMMA ReclassifyIInv ==
  ASSUME IInv, NEW c \in Calls, Reclassify(c)
  PROVE  IInv'
<1>1. Len(calls) \in Nat /\ Len(results) \in Nat /\ first \in Nat /\ last \in Nat /\ N \in Nat
  BY Lengths, ToolSchedulerAssumption DEF IInv, TypeOK, ProgressTypeOK, ToolSchedulerAssumption
<1>2. \A d \in (first + 1)..Len(calls) : mode'[d] = mode[d]
  BY <1>1 DEF Reclassify, Started, IInv, TypeOK, ProgressTypeOK, Counted
<1>3. TypeOK'
  <2>1. ProgressTypeOK'
    BY DEF Reclassify, groupVars, IInv, TypeOK, ProgressTypeOK
  <2>2. LogTypeOK' /\ PoolTypeOK' /\ SignalTypeOK'
    BY DEF Reclassify, poolVars, IInv, TypeOK, LogTypeOK, PoolTypeOK, SignalTypeOK
  <2> QED
    BY <2>1, <2>2 DEF TypeOK
<1>4. Numbered' /\ Counted' /\ Pooled' /\ Bounded' /\ Covered'
  BY DEF Reclassify, groupVars, poolVars, IInv, Numbered, Counted, Pooled, Bounded, Covered
<1>5. Barrier'
  BY <1>2 DEF Reclassify, groupVars, IInv, Barrier
<1> QED
  BY <1>3, <1>4, <1>5 DEF IInv

LEMMA AbortIInv ==
  ASSUME IInv, Abort
  PROVE  IInv'
<1>1. TypeOK'
  BY DEF Abort, groupVars, poolVars, IInv,
         TypeOK, ProgressTypeOK, LogTypeOK, PoolTypeOK, SignalTypeOK
<1>2. Numbered' /\ Counted' /\ Pooled' /\ Bounded' /\ Covered' /\ Barrier'
  BY DEF Abort, groupVars, poolVars,
         IInv, Numbered, Counted, Pooled, Bounded, Covered, Barrier
<1> QED
  BY <1>1, <1>2 DEF IInv

\* A step of the pool alone: the log and the progress of the scheduler stay.
LEMMA SettleIInv ==
  ASSUME IInv, NEW c \in Calls, Settle(c)
  PROVE  IInv'
<1>1. /\ c \in running /\ running' = running \ {c}
      /\ UNCHANGED <<mode, signal, pc, first, last, calls, results, inFlight, aborted>>
      /\ \/ slots' = slots \union {c} /\ failure' = failure
         \/ slots' = slots /\ failure' = TRUE
  BY DEF Settle, groupVars
<1>2. /\ c \in inFlight /\ c \in 1..Len(calls)
      /\ pc \notin {"group", "done", "aborted", "failed"}
  <2>1. first \in Nat /\ Len(calls) \in Nat /\ N \in Nat /\ c \in running /\ c \in inFlight
    BY <1>1, Lengths, ToolSchedulerAssumption
       DEF IInv, TypeOK, ProgressTypeOK, PoolTypeOK, ToolSchedulerAssumption
  <2> QED
    BY <2>1 DEF IInv, Pooled
<1>3. TypeOK'
  <2>1. ProgressTypeOK' /\ LogTypeOK'
    BY <1>1 DEF IInv, TypeOK, ProgressTypeOK, LogTypeOK
  <2>2. PoolTypeOK'
    BY <1>1 DEF IInv, TypeOK, PoolTypeOK
  <2>3. SignalTypeOK'
    BY <1>1 DEF IInv, TypeOK, SignalTypeOK
  <2> QED
    BY <2>1, <2>2, <2>3 DEF TypeOK
<1>4. Numbered' /\ Counted' /\ Bounded' /\ Barrier'
  BY <1>1 DEF IInv, Numbered, Counted, Bounded, Barrier
<1>5. Pooled'
  <2>1. \A d \in inFlight \ running : d \in slots' \/ failure'
    BY <1>1 DEF IInv, Pooled
  <2>2. c \in slots' \/ failure'
    BY <1>1
  <2>3. \A d \in inFlight' \ running' : d \in slots' \/ failure'
    BY <1>1, <2>1, <2>2
  <2> HIDE <2>1, <2>2
  <2>4. slots' \subseteq 1..Len(calls) /\ inFlight \subseteq (first + 1)..Len(calls)
    BY <1>1, <1>2 DEF IInv, Pooled
  <2> QED
    BY <1>1, <1>2, <2>3, <2>4 DEF Pooled
<1>6. Covered'
  BY <1>1 DEF IInv, Covered
<1> QED
  BY <1>3, <1>4, <1>5, <1>6 DEF IInv

\* The facts about numbers every action needs.
LEMMA Numbers ==
  ASSUME IInv
  PROVE  /\ N \in Nat /\ MaxParallel \in Nat \ {0}
         /\ first \in Nat /\ last \in 0..N
         /\ Len(calls) \in Nat /\ Len(results) \in Nat
         /\ first <= Len(results) /\ Len(results) <= Len(calls) /\ Len(calls) <= N
  BY Lengths, ToolSchedulerAssumption
     DEF IInv, TypeOK, ProgressTypeOK, Counted, ToolSchedulerAssumption

LEMMA StartGroupIInv ==
  ASSUME IInv, StartGroup
  PROVE  IInv'
<1>1. /\ pc = "group" /\ first = Len(calls) /\ Len(results) = Len(calls) /\ inFlight = {}
      /\ first < N
      /\ UNCHANGED <<mode, signal, first, results, slots, inFlight, running, failure>>
      /\ aborted' = signal /\ aborted' \in BOOLEAN
  BY DEF StartGroup, poolVars, IInv, Counted, Pooled, TypeOK, SignalTypeOK
<1>2. /\ last' \in 0..N /\ first + 1 <= last'
      /\ last' = first + 1 \/ mode[first + 1] = "parallel"
  BY <1>1, Numbers DEF StartGroup, IInv, TypeOK, ProgressTypeOK
<1>3. \/ /\ pc' = "preparing"
         /\ calls' \in Seq(Calls)
         /\ calls' = Ordered!UpTo(Len(calls'))
         /\ Len(calls') = Len(calls) + 1
      \/ pc' = "pool" /\ calls' = calls
  BY <1>1, <1>2, Numbers, Filling DEF StartGroup, IInv
<1>4. TypeOK'
  <2>1. ProgressTypeOK'
    BY <1>1, <1>2, <1>3 DEF IInv, TypeOK, ProgressTypeOK
  <2>2. LogTypeOK' /\ PoolTypeOK'
    BY <1>1, <1>3 DEF IInv, TypeOK, LogTypeOK, PoolTypeOK
  <2>3. SignalTypeOK'
    BY <1>1 DEF IInv, TypeOK, SignalTypeOK
  <2> QED
    BY <2>1, <2>2, <2>3 DEF TypeOK
<1>5. Numbered'
  BY <1>1, <1>3 DEF IInv, Numbered
<1>6. Counted'
  BY <1>1, <1>2, <1>3, Numbers DEF Counted
<1>7. Pooled'
  BY <1>1, <1>3, Numbers DEF IInv, TypeOK, PoolTypeOK, Pooled
<1>8. Bounded'
  BY <1>1, Numbers, FS_EmptySet DEF Bounded
<1>9. Covered'
  BY <1>1, <1>3, Numbers DEF Covered
<1>10. Barrier'
  BY <1>1, <1>2, <1>3, Numbers DEF Barrier
<1> QED
  BY <1>4, <1>5, <1>6, <1>7, <1>8, <1>9, <1>10 DEF IInv

LEMMA CompleteIInv ==
  ASSUME IInv, Complete
  PROVE  IInv'
<1>1. /\ pc = "group" /\ pc' = "done"
      /\ UNCHANGED <<mode, signal, first, last, calls, results,
                     slots, inFlight, running, aborted, failure>>
  BY DEF Complete, groupVars, poolVars
<1>2. TypeOK'
  BY <1>1 DEF IInv, TypeOK, ProgressTypeOK, LogTypeOK, PoolTypeOK, SignalTypeOK
<1>3. Numbered' /\ Counted' /\ Pooled'
  BY <1>1 DEF IInv, Numbered, Counted, Pooled
<1>4. Bounded' /\ Covered' /\ Barrier'
  BY <1>1 DEF IInv, Bounded, Covered, Barrier, InGroup
<1> QED
  BY <1>2, <1>3, <1>4 DEF IInv

LEMMA PreparedIInv ==
  ASSUME IInv, Prepared
  PROVE  IInv'
<1> DEFINE c == Len(calls)
<1>1. /\ pc = "preparing" /\ pc' = "committing" /\ ~failure
      /\ first < c /\ c <= N /\ c \in Nat
      /\ UNCHANGED <<mode, signal, first, last, calls, results, aborted, failure>>
      /\ \/ inFlight' = inFlight \union {c} /\ running' = running \union {c} /\ slots' = slots
         \/ slots' = slots \union {c} /\ inFlight' = inFlight /\ running' = running
  BY Numbers DEF Prepared, groupVars, IInv, Counted
<1> HIDE DEF c
<1>2. c \in 1..N /\ c \in (first + 1)..c /\ c \in 1..c
  BY <1>1, Numbers
<1>3. TypeOK'
  <2>1. ProgressTypeOK' /\ LogTypeOK'
    BY <1>1 DEF IInv, TypeOK, ProgressTypeOK, LogTypeOK
  <2>2. PoolTypeOK'
    BY <1>1, <1>2 DEF IInv, TypeOK, PoolTypeOK
  <2>3. SignalTypeOK'
    BY <1>1 DEF IInv, TypeOK, SignalTypeOK
  <2> QED
    BY <2>1, <2>2, <2>3 DEF TypeOK
<1>4. Numbered' /\ Counted'
  BY <1>1 DEF IInv, Numbered, Counted, c
<1>5. Pooled'
  BY <1>1, <1>2 DEF IInv, Pooled, c
<1>6. Bounded'
  <2>1. IsFiniteSet(inFlight) /\ Cardinality(inFlight) \in Nat
    BY PoolIsFinite DEF IInv
  <2>2. Cardinality(inFlight \union {c}) \in {Cardinality(inFlight), Cardinality(inFlight) + 1}
    BY <2>1, FS_AddElement
  <2>3. Cardinality(inFlight) < MaxParallel
    BY <1>1 DEF IInv, Bounded
  <2>4. inFlight' \in {inFlight, inFlight \union {c}}
    BY <1>1
  <2>5. Cardinality(inFlight') \in {Cardinality(inFlight), Cardinality(inFlight) + 1}
    BY <2>2, <2>4
  <2>6. Cardinality(inFlight') <= MaxParallel
    BY <2>1, <2>3, <2>5, Numbers
  <2> QED
    BY <1>1, <2>6 DEF Bounded
<1>7. Covered'
  BY <1>1, <1>2 DEF IInv, Covered, InGroup, c
<1>8. Barrier'
  BY <1>1 DEF IInv, Barrier, InGroup
<1> QED
  BY <1>3, <1>4, <1>5, <1>6, <1>7, <1>8 DEF IInv

\* The catch block, whatever led to it: nothing that runs is forgotten.
LEMMA DrainIInv ==
  ASSUME IInv, pc \in InGroup, Drain, UNCHANGED <<slots, running>>,
         inFlight' \in SUBSET inFlight, running \subseteq inFlight'
  PROVE  IInv'
<1>1. /\ pc' = "drain" /\ failure' = TRUE
      /\ UNCHANGED <<mode, signal, first, last, calls, results, aborted>>
  BY DEF Drain, groupVars
<1>2. TypeOK'
  BY <1>1 DEF IInv, TypeOK, ProgressTypeOK, LogTypeOK, PoolTypeOK, SignalTypeOK
<1>3. Numbered' /\ Counted'
  BY <1>1 DEF IInv, Numbered, Counted, InGroup
<1>4. Pooled'
  BY <1>1 DEF IInv, Pooled
<1>5. Bounded'
  <2>1. /\ IsFiniteSet(inFlight) /\ Cardinality(inFlight) \in Nat
        /\ Cardinality(inFlight) <= MaxParallel
    BY PoolIsFinite DEF IInv, Bounded
  <2>2. IsFiniteSet(inFlight') /\ Cardinality(inFlight') <= Cardinality(inFlight)
    BY <2>1, FS_Subset
  <2>3. Cardinality(inFlight') \in Nat
    BY <2>2, FS_CardinalityType
  <2>4. Cardinality(inFlight') <= MaxParallel
    BY <2>1, <2>2, <2>3, Numbers
  <2> QED
    BY <1>1, <2>4 DEF Bounded
<1>6. Covered'
  BY <1>1 DEF Covered, InGroup
<1>7. Barrier'
  BY <1>1 DEF IInv, Barrier
<1> QED
  BY <1>2, <1>3, <1>4, <1>5, <1>6, <1>7 DEF IInv

LEMMA FailsIInv ==
  ASSUME IInv, PrepareFails \/ CommitFails \/ CommittedFails
  PROVE  IInv'
<1>1. pc \in InGroup /\ Drain /\ UNCHANGED <<slots, running, inFlight>>
  BY DEF PrepareFails, CommitFails, CommittedFails, InGroup, poolVars
<1>2. running \subseteq inFlight' /\ inFlight' \in SUBSET inFlight
  BY <1>1 DEF IInv, TypeOK, PoolTypeOK
<1> QED
  BY <1>1, <1>2, DrainIInv

LEMMA CommitIInv ==
  ASSUME IInv, Commit
  PROVE  IInv'
<1>1. /\ pc = "committing"
      /\ Len(results) + 1 \in slots
      /\ results' = Append(results, Len(results) + 1)
      /\ UNCHANGED <<mode, signal, pc, first, last, calls,
                     slots, inFlight, running, aborted, failure>>
  BY DEF Commit, Committable, groupVars, poolVars
<1>2. Len(results) + 1 <= Len(calls) /\ Len(results) < N
  BY <1>1, Numbers DEF IInv, Pooled
<1>3. /\ results' \in Seq(Calls)
      /\ results' = Ordered!UpTo(Len(results'))
      /\ Len(results') = Len(results) + 1
  BY <1>1, <1>2, ResultLogged DEF IInv
<1>4. TypeOK'
  BY <1>1, <1>3 DEF IInv, TypeOK, ProgressTypeOK, LogTypeOK, PoolTypeOK, SignalTypeOK
<1>5. Numbered'
  BY <1>1, <1>3 DEF IInv, Numbered
<1>6. Counted'
  BY <1>1, <1>2, <1>3, Numbers DEF IInv, Counted
<1>7. Pooled' /\ Bounded' /\ Barrier'
  BY <1>1 DEF IInv, Pooled, Bounded, Barrier
<1>8. Covered'
  BY <1>1, <1>3, Numbers DEF IInv, Covered
<1> QED
  BY <1>4, <1>5, <1>6, <1>7, <1>8 DEF IInv

LEMMA CommittedIInv ==
  ASSUME IInv, Committed
  PROVE  IInv'
<1>1. /\ pc = "committing" /\ first < Len(calls) /\ Len(calls) <= last
      /\ UNCHANGED <<mode, signal, first, last, results, slots, inFlight, running, failure>>
  BY DEF Committed, groupVars, poolVars, IInv, Counted
<1>2. aborted' \in BOOLEAN
  BY DEF Committed, IInv, TypeOK, SignalTypeOK
<1>3. \/ /\ pc' = "preparing"
         /\ Len(calls) + 1 <= last
         /\ mode[Len(calls) + 1] = "parallel"
         /\ Cardinality(inFlight) < MaxParallel
         /\ calls' \in Seq(Calls)
         /\ calls' = Ordered!UpTo(Len(calls'))
         /\ Len(calls') = Len(calls) + 1
      \/ pc' = "pool" /\ calls' = calls
  <2>1. Fill(first, last, aborted')
    BY DEF Committed
  <2> QED
    BY <1>1, <1>2, <2>1, Numbers, Filling DEF IInv
<1>4. TypeOK'
  <2>1. ProgressTypeOK'
    BY <1>1, <1>3 DEF IInv, TypeOK, ProgressTypeOK
  <2>2. LogTypeOK' /\ PoolTypeOK'
    BY <1>1, <1>3 DEF IInv, TypeOK, LogTypeOK, PoolTypeOK
  <2>3. SignalTypeOK'
    BY <1>1, <1>2 DEF IInv, TypeOK, SignalTypeOK
  <2> QED
    BY <2>1, <2>2, <2>3 DEF TypeOK
<1>5. Numbered'
  BY <1>1, <1>3 DEF IInv, Numbered
<1>6. Counted'
  BY <1>1, <1>3, Numbers DEF Counted
<1>7. Pooled'
  <2>1. 1..Len(calls) \subseteq 1..Len(calls')
    BY <1>3, Numbers
  <2>2. (first + 1)..Len(calls) \subseteq (first + 1)..Len(calls')
    BY <1>3, Numbers
  <2> QED
    BY <1>1, <1>3, <2>1, <2>2 DEF IInv, Pooled
<1>8. Bounded'
  BY <1>1, <1>3 DEF IInv, Bounded
<1>9. Covered'
  <2>1. ~(Len(results) < last /\ Len(results) + 1 \in slots)
    BY DEF Committed, Committable
  <2>2. \A c \in (Len(results) + 1)..Len(calls) : c \in slots \union inFlight
    BY <1>1 DEF IInv, Covered, InGroup
  <2>3. Len(results) < Len(calls) => Len(results) + 1 \in inFlight
    BY <1>1, <2>1, <2>2, Numbers
  <2>4. CASE calls' = calls /\ pc' = "pool"
    BY <1>1, <2>2, <2>3, <2>4 DEF Covered
  <2>5. CASE pc' = "preparing" /\ Len(calls') = Len(calls) + 1
    <3>1. \A c \in (Len(results) + 1)..Len(calls') :
            c \in (Len(results) + 1)..Len(calls) \/ c = Len(calls')
      BY <2>5, Numbers
    <3> QED
      BY <1>1, <2>2, <2>5, <3>1 DEF Covered
  <2> QED
    BY <1>3, <2>4, <2>5
<1>10. Barrier'
  <2>1. last = first + 1 \/ \A c \in (first + 1)..Len(calls) : mode[c] = "parallel"
    BY <1>1 DEF IInv, Barrier, InGroup
  <2>2. \A c \in (first + 1)..Len(calls') :
          c \in (first + 1)..Len(calls) \/ (c = Len(calls) + 1 /\ pc' = "preparing")
    BY <1>3, Numbers
  <2> QED
    BY <1>1, <1>3, <2>1, <2>2 DEF Barrier
<1> QED
  BY <1>4, <1>5, <1>6, <1>7, <1>8, <1>9, <1>10 DEF IInv

LEMMA RaceResolvesIInv ==
  ASSUME IInv, RaceResolves
  PROVE  IInv'
<1>1. PICK c \in inFlight \ running : inFlight' = inFlight \ {c}
  BY DEF RaceResolves
<1>2. /\ pc = "pool" /\ UNCHANGED <<slots, running>>
      /\ inFlight' \in SUBSET inFlight /\ running \subseteq inFlight'
  BY <1>1 DEF RaceResolves, IInv, TypeOK, PoolTypeOK
<1>3. CASE failure
  <2>1. pc \in InGroup /\ Drain
    BY <1>2, <1>3 DEF RaceResolves, InGroup
  <2> QED
    BY <1>2, <2>1, DrainIInv
<1>4. CASE ~failure
  <2>1. /\ pc' = "committing"
        /\ UNCHANGED <<mode, signal, first, last, calls, results, aborted, failure>>
    BY <1>4 DEF RaceResolves, groupVars
  <2>2. c \in slots /\ c \in (first + 1)..Len(calls)
    BY <1>1, <1>4 DEF IInv, Pooled
  <2>3. TypeOK'
    BY <1>2, <2>1 DEF IInv, TypeOK, ProgressTypeOK, LogTypeOK, PoolTypeOK, SignalTypeOK
  <2>4. Numbered' /\ Counted'
    <3>1. first < Len(calls)
      BY <2>2, Numbers
    <3> QED
      BY <1>2, <2>1, <3>1 DEF IInv, Numbered, Counted
  <2>5. Pooled'
    BY <1>1, <1>2, <2>1, <2>2 DEF IInv, Pooled
  <2>6. Bounded'
    <3>1. /\ IsFiniteSet(inFlight) /\ Cardinality(inFlight) \in Nat
          /\ Cardinality(inFlight) <= MaxParallel
      BY PoolIsFinite DEF IInv, Bounded
    <3>2. Cardinality(inFlight') = Cardinality(inFlight) - 1
      BY <1>1, <3>1, FS_RemoveElement
    <3>3. Cardinality(inFlight') <= MaxParallel
      BY <3>1, <3>2, Numbers
    <3> QED
      BY <2>1, <3>3 DEF Bounded
  <2>7. Covered'
    BY <1>1, <1>2, <2>1, <2>2 DEF IInv, Covered, InGroup
  <2>8. Barrier'
    BY <1>2, <2>1 DEF IInv, Barrier, InGroup
  <2> QED
    BY <2>3, <2>4, <2>5, <2>6, <2>7, <2>8 DEF IInv
<1> QED
  BY <1>3, <1>4

LEMMA GroupEndsIInv ==
  ASSUME IInv, GroupEnds
  PROVE  IInv'
<1>1. /\ pc = "pool" /\ pc' = "group" /\ inFlight = {} /\ first' = Len(calls)
      /\ UNCHANGED <<mode, signal, last, calls, results,
                     slots, inFlight, running, aborted, failure>>
  BY DEF GroupEnds, poolVars
<1>2. Len(results) = Len(calls)
  BY <1>1, Numbers DEF IInv, Covered
<1>3. TypeOK'
  <2>1. ProgressTypeOK'
    BY <1>1, Numbers DEF IInv, TypeOK, ProgressTypeOK
  <2>2. LogTypeOK' /\ PoolTypeOK' /\ SignalTypeOK'
    BY <1>1 DEF IInv, TypeOK, LogTypeOK, PoolTypeOK, SignalTypeOK
  <2> QED
    BY <2>1, <2>2 DEF TypeOK
<1>4. Numbered' /\ Counted'
  BY <1>1, <1>2, Numbers DEF IInv, Numbered, Counted
<1>5. Pooled' /\ Bounded'
  BY <1>1 DEF IInv, Pooled, Bounded
<1>6. Covered' /\ Barrier'
  BY <1>1 DEF Covered, Barrier, InGroup
<1> QED
  BY <1>3, <1>4, <1>5, <1>6 DEF IInv

\* The log an aborted step leaves: every call, every result.
LEMMA AbortedLog ==
  ASSUME IInv, GroupAborts
  PROVE  /\ results = calls
         /\ Len(results) = Len(calls)
         /\ calls' = Ordered!UpTo(N) /\ results' = Ordered!UpTo(N)
         /\ calls' \in Seq(Calls) /\ results' \in Seq(Calls)
         /\ Len(calls') = N /\ Len(results') = N
<1> DEFINE k == Len(calls)
           skipped == [i \in 1..(N - k) |-> k + i]
<1>1. pc = "pool" /\ inFlight = {} /\ calls' = calls \o skipped /\ results' = results \o skipped
  BY DEF GroupAborts
<1>2. Len(results) = k
  BY <1>1, Numbers DEF IInv, Covered
<1>3. calls = Ordered!UpTo(k) /\ results = Ordered!UpTo(k)
  BY <1>2 DEF IInv, Numbered
<1>4. k \in 0..N /\ N \in Nat
  BY Numbers
<1> HIDE DEF k
<1>5. Ordered!UpTo(k) \o skipped = Ordered!UpTo(N)
  BY <1>4, UpToCompletes
<1>6. Ordered!UpTo(N) \in Seq(1..N) /\ Len(Ordered!UpTo(N)) = N
  BY <1>4, UpToIsASequence
<1> HIDE DEF skipped
<1>7. calls' = Ordered!UpTo(N) /\ results' = Ordered!UpTo(N)
  BY <1>1, <1>3, <1>5
<1> QED
  BY <1>2, <1>3, <1>6, <1>7 DEF k

LEMMA GroupAbortsIInv ==
  ASSUME IInv, GroupAborts
  PROVE  IInv'
<1>1. /\ pc = "pool" /\ pc' = "aborted" /\ inFlight = {}
      /\ UNCHANGED <<mode, signal, first, last, slots, inFlight, running, aborted, failure>>
  BY DEF GroupAborts, groupVars, poolVars
<1>2. /\ calls' = Ordered!UpTo(Len(calls')) /\ results' = Ordered!UpTo(Len(results'))
      /\ calls' \in Seq(Calls) /\ results' \in Seq(Calls)
      /\ Len(calls') = N /\ Len(results') = N
  BY AbortedLog
<1>3. TypeOK'
  BY <1>1, <1>2 DEF IInv, TypeOK, ProgressTypeOK, LogTypeOK, PoolTypeOK, SignalTypeOK
<1>4. Numbered'
  BY <1>2 DEF Numbered
<1>5. Counted'
  BY <1>1, <1>2, Numbers DEF Counted
<1>6. Pooled'
  BY <1>1, <1>2, Numbers DEF IInv, Pooled
<1>7. Bounded'
  BY <1>1 DEF IInv, Bounded
<1>8. Covered' /\ Barrier'
  BY <1>1 DEF Covered, Barrier, InGroup
<1> QED
  BY <1>3, <1>4, <1>5, <1>6, <1>7, <1>8 DEF IInv

LEMMA DrainedIInv ==
  ASSUME IInv, Drained
  PROVE  IInv'
<1>1. /\ pc = "drain" /\ pc' = "failed" /\ running = {}
      /\ UNCHANGED <<mode, signal, first, last, calls, results,
                     slots, inFlight, running, aborted, failure>>
  BY DEF Drained, groupVars, poolVars
<1>2. TypeOK'
  BY <1>1 DEF IInv, TypeOK, ProgressTypeOK, LogTypeOK, PoolTypeOK, SignalTypeOK
<1>3. Numbered' /\ Counted' /\ Pooled'
  BY <1>1 DEF IInv, Numbered, Counted, Pooled
<1>4. Bounded' /\ Covered' /\ Barrier'
  BY <1>1 DEF IInv, Bounded, Covered, Barrier, InGroup
<1> QED
  BY <1>2, <1>3, <1>4 DEF IInv

LEMMA StutterIInv ==
  ASSUME IInv, UNCHANGED vars
  PROVE  IInv'
<1>1. UNCHANGED <<mode, signal, pc, first, last, calls, results,
                  slots, inFlight, running, aborted, failure>>
  BY DEF vars, groupVars, poolVars
<1>2. TypeOK'
  BY <1>1 DEF IInv, TypeOK, ProgressTypeOK, LogTypeOK, PoolTypeOK, SignalTypeOK
<1>3. Numbered' /\ Counted' /\ Pooled'
  BY <1>1 DEF IInv, Numbered, Counted, Pooled
<1>4. Bounded' /\ Covered' /\ Barrier'
  BY <1>1 DEF IInv, Bounded, Covered, Barrier
<1> QED
  BY <1>2, <1>3, <1>4 DEF IInv

LEMMA NextIInv ==
  ASSUME IInv, [Next]_vars
  PROVE  IInv'
<1>1. CASE SchedulerStep
  <2>1. \/ StartGroup \/ Complete \/ Prepared \/ Commit \/ Committed
        \/ PrepareFails \/ CommitFails \/ CommittedFails
        \/ RaceResolves \/ GroupEnds \/ GroupAborts \/ Drained
    BY <1>1 DEF SchedulerStep
  <2> QED
    BY <2>1, StartGroupIInv, CompleteIInv, PreparedIInv, CommitIInv, CommittedIInv,
       FailsIInv, RaceResolvesIInv, GroupEndsIInv, GroupAbortsIInv, DrainedIInv
<1>2. CASE Abort
  BY <1>2, AbortIInv
<1>3. CASE \E c \in Calls : Reclassify(c) \/ Settle(c)
  BY <1>3, ReclassifyIInv, SettleIInv
<1>4. CASE UNCHANGED vars
  BY <1>4, StutterIInv
<1> QED
  BY <1>1, <1>2, <1>3, <1>4 DEF Next

\* The strengthening holds in every reachable state.
THEOREM Invariance == Spec => []IInv
<1>1. IInv /\ [Next]_vars => IInv'
  BY NextIInv
<1> QED
  BY InitIInv, <1>1, PTL DEF Spec

-----------------------------------------------------------------------------
(***************************************************************************)
(* The properties of the run, for every N and MaxParallel.                 *)
(***************************************************************************)
\* Every variable keeps its type.
THEOREM TypeCorrect == Spec => []TypeOK
<1>1. IInv => TypeOK
  BY DEF IInv
<1> QED
  BY Invariance, <1>1, PTL

\* While an exclusive call has no result, no other call is open (runGroup's
\* re-reading of executionMode before every start).
THEOREM Exclusive == Spec => []ExclusiveRunsAlone
<1>1. ASSUME IInv PROVE ExclusiveRunsAlone
  <2>1. SUFFICES ASSUME NEW c \in Calls, NEW d \in Calls,
                        Open(c), Open(d), mode[c] = "exclusive"
                 PROVE  c = d
    BY DEF ExclusiveRunsAlone
  <2>2. /\ c \in Nat /\ d \in Nat
        /\ Len(results) < c /\ c <= Len(calls)
        /\ Len(results) < d /\ d <= Len(calls)
    BY <2>1, Numbers DEF Open, Started
  <2>3. pc \in InGroup \union {"drain", "failed"} /\ Len(calls) <= last
    BY <1>1, <2>2, Numbers DEF IInv, Counted, TypeOK, ProgressTypeOK, InGroup
  <2>4. CASE last = first + 1
    BY <1>1, <2>2, <2>3, <2>4, Numbers
  <2>5. CASE \A b \in (first + 1)..Len(calls) : mode[b] = "parallel"
    <3>1. c \in (first + 1)..Len(calls)
      BY <1>1, <2>2, Numbers
    <3> QED
      BY <2>1, <2>5, <3>1
  <2> QED
    BY <1>1, <2>3, <2>4, <2>5 DEF IInv, Barrier
<1> QED
  BY Invariance, <1>1, PTL

\* The pool never runs more bodies than maxParallelToolCalls.
THEOREM Pool == Spec => []PoolIsBounded
<1>1. ASSUME IInv PROVE PoolIsBounded
  <2>1. /\ IsFiniteSet(inFlight) /\ Cardinality(inFlight) \in Nat
        /\ Cardinality(inFlight) <= MaxParallel
    BY <1>1, PoolIsFinite DEF IInv, Bounded
  <2>2. running \in SUBSET inFlight
    BY <1>1 DEF IInv, TypeOK, PoolTypeOK
  <2>3. IsFiniteSet(running) /\ Cardinality(running) <= Cardinality(inFlight)
    BY <2>1, <2>2, FS_Subset
  <2>4. Cardinality(running) \in Nat
    BY <2>3, FS_CardinalityType
  <2> QED
    BY <1>1, <2>1, <2>3, <2>4, Numbers DEF PoolIsBounded
<1> QED
  BY Invariance, <1>1, PTL

\* When the pool is empty no started call is uncommitted: the throw at the end
\* of runGroup is unreachable.
THEOREM Committing == Spec => []StartedCallsAreCommitted
<1>1. ASSUME IInv PROVE StartedCallsAreCommitted
  BY <1>1, Numbers DEF IInv, Covered, StartedCallsAreCommitted
<1> QED
  BY Invariance, <1>1, PTL

\* No tool body outlives the step.
THEOREM Contained == Spec => []NothingOutlivesTheStep
<1>1. IInv => NothingOutlivesTheStep
  BY DEF IInv, TypeOK, PoolTypeOK, Pooled, NothingOutlivesTheStep
<1> QED
  BY Invariance, <1>1, PTL

\* No call is started once the step is aborted, and no tool body is dispatched
\* once the scheduler has failed.
THEOREM NoStartAfterAbort == Spec => AbortStopsStarts
<1> DEFINE Stopped ==
      /\ signal /\ pc' = "preparing" => pc = "preparing"
      /\ failure => running' \subseteq running
<1>1. ASSUME NEW before, NEW end, Fill(before, end, TRUE) PROVE pc' = "pool"
  BY <1>1 DEF Fill
<1>2. ASSUME SchedulerStep PROVE Stopped
  <2>1. CASE StartGroup
    <3>1. signal => Fill(first, last', TRUE)
      BY <2>1, Zenon DEF StartGroup
    <3> QED
      BY <2>1, <3>1, <1>1 DEF StartGroup, poolVars
  <2>2. CASE Committed
    <3>1. signal => Fill(first, last, TRUE)
      BY <2>2, Zenon DEF Committed
    <3> QED
      BY <2>2, <3>1, <1>1 DEF Committed, poolVars
  <2>3. CASE Prepared
    BY <2>3 DEF Prepared
  <2>4. CASE Complete \/ Commit \/ GroupEnds \/ GroupAborts \/ Drained
    BY <2>4 DEF Complete, Commit, GroupEnds, GroupAborts, Drained, poolVars
  <2>5. CASE PrepareFails \/ CommitFails \/ CommittedFails \/ RaceResolves
    BY <2>5 DEF PrepareFails, CommitFails, CommittedFails, RaceResolves, Drain, poolVars
  <2> QED
    BY <1>2, <2>1, <2>2, <2>3, <2>4, <2>5 DEF SchedulerStep
<1>3. ASSUME Abort \/ UNCHANGED vars PROVE Stopped
  BY <1>3 DEF Abort, vars, poolVars
<1>4. ASSUME NEW c \in Calls, Reclassify(c) \/ Settle(c) PROVE Stopped
  BY <1>4 DEF Reclassify, Settle, poolVars
<1>5. [Next]_vars => [Stopped]_vars
  BY <1>2, <1>3, <1>4 DEF Next
<1> QED
  BY <1>5, PTL DEF Spec, AbortStopsStarts

(***************************************************************************)
(* The refinement: what the step promises about its log.                   *)
(***************************************************************************)
LEMMA AnswersStep ==
  ASSUME IInv, [Next]_vars
  PROVE  [Ordered!OrderedAnswersNext]_<<calls, results, IF pc \in Ends THEN pc ELSE "open">>
<1> DEFINE outcome == IF pc \in Ends THEN pc ELSE "open"
           Same == UNCHANGED <<calls, results>>
<1>1. CASE StartGroup \/ Committed
  <2>1. PICK before \in Nat, end \in 0..N, stop \in BOOLEAN : Fill(before, end, stop)
    <3>1. CASE StartGroup
      <4>1. last' \in 0..N /\ aborted' \in BOOLEAN /\ Fill(first, last', aborted')
        BY StartGroupIInv, <3>1 DEF StartGroup, IInv, TypeOK, ProgressTypeOK, SignalTypeOK
      <4> QED
        BY <4>1, Numbers
    <3>2. CASE Committed
      <4>1. aborted' \in BOOLEAN /\ Fill(first, last, aborted')
        BY <3>2 DEF Committed, IInv, TypeOK, SignalTypeOK
      <4> QED
        BY <4>1, Numbers
    <3> QED
      BY <1>1, <3>1, <3>2
  <2>2. /\ pc \in {"group", "committing"} /\ pc' \in {"preparing", "pool"}
        /\ UNCHANGED results
        /\ \/ calls' = Append(calls, Len(calls) + 1) /\ Len(calls) < N
           \/ calls' = calls
    BY <1>1, <2>1, Filling, Numbers DEF StartGroup, Committed, IInv
  <2> QED
    BY <2>2 DEF Ordered!OrderedAnswersNext, Ordered!Issue
<1>2. CASE Complete
  <2>1. Len(results) = N /\ pc = "group" /\ pc' = "done" /\ Same
    BY <1>2, Numbers DEF Complete, IInv, Counted
  <2> QED
    BY <2>1 DEF Ordered!OrderedAnswersNext, Ordered!Complete
<1>3. CASE Commit
  <2>1. /\ Len(results) < Len(calls) /\ pc = "committing" /\ UNCHANGED <<pc, calls>>
        /\ results' = Append(results, Len(results) + 1)
    BY <1>3, Numbers DEF Commit, Committable, IInv, Pooled
  <2> QED
    BY <2>1 DEF Ordered!OrderedAnswersNext, Ordered!Answer
<1>4. CASE GroupAborts
  <2>1. /\ pc = "pool" /\ pc' = "aborted" /\ results = calls
        /\ calls' = Ordered!UpTo(N) /\ results' = Ordered!UpTo(N)
    BY <1>4, AbortedLog DEF GroupAborts
  <2> QED
    BY <2>1 DEF Ordered!OrderedAnswersNext, Ordered!Abandon, Ordered!UpTo
<1>5. CASE Drained
  <2>1. pc = "drain" /\ pc' = "failed" /\ Same
    BY <1>5 DEF Drained
  <2> QED
    BY <2>1 DEF Ordered!OrderedAnswersNext, Ordered!Fail
<1>6. CASE Prepared \/ PrepareFails \/ CommitFails \/ CommittedFails \/ RaceResolves \/ GroupEnds
  <2>1. pc \notin Ends /\ pc' \notin Ends /\ Same
    BY <1>6 DEF Prepared, PrepareFails, CommitFails, CommittedFails, RaceResolves,
                GroupEnds, Drain
  <2> QED
    BY <2>1
<1>7. CASE Abort \/ UNCHANGED vars \/ \E c \in Calls : Reclassify(c) \/ Settle(c)
  <2>1. UNCHANGED pc /\ Same
    BY <1>7 DEF Abort, Reclassify, Settle, vars
  <2> QED
    BY <2>1
<1> QED
  BY <1>1, <1>2, <1>3, <1>4, <1>5, <1>6, <1>7 DEF Next, SchedulerStep

\* The scheduler implements OrderedAnswers: calls and results are logged in
\* model order, once each, an abort fabricates results only for calls that
\* were never started, and a step that completes has answered every call.
THEOREM Refinement == Spec => ImplementsOrderedAnswers
<1>1. Init => Ordered!OrderedAnswersInit
  BY DEF Init, Ordered!OrderedAnswersInit
<1>2. IInv /\ [Next]_vars
      => [Ordered!OrderedAnswersNext]_<<calls, results, IF pc \in Ends THEN pc ELSE "open">>
  BY AnswersStep
<1> QED
  BY Invariance, <1>1, <1>2, PTL
     DEF Spec, ImplementsOrderedAnswers, Ordered!OrderedAnswersSpec
=============================================================================
