------------------------- MODULE AgentDriverProofs -------------------------
(***************************************************************************)
(* Proofs about AgentDriver, for every set of messages.                    *)
(***************************************************************************)
EXTENDS AgentDriver, SequenceTheorems, TLAPS

(***************************************************************************)
(* The strengthening.                                                      *)
(***************************************************************************)
Held == {"quiet", "waiting", "latched"}

Distinct(list) == \A i, j \in DOMAIN list : list[i] = list[j] => i = j

Unique ==
  /\ Distinct(nextTurn)
  /\ Distinct(nextStep)
  /\ Listed(nextTurn) \intersect Listed(nextStep) = {}

\* The inbox holds what was sent and neither claimed nor discarded.
InboxMatchesHistory == \A m \in Messages : m \in Pending <=> parcel[m] \in Held

ListsOK ==
  /\ InboxTypeOK
  /\ Unique
  /\ InboxMatchesHistory

\* A driver runs exactly in its phase, and an idle agent has no latch.
Phased ==
  /\ phase = "running" <=> pc # "off"
  /\ phase = "idle" => latch = FALSE

\* What was latched has a latch, or a frame that is about to replay it.
LatchesStand ==
  Labelled("latched") # {} => latch = TRUE \/ (retiring = "latched" /\ phase # "running")

IInv ==
  /\ DriverTypeOK
  /\ FramesTypeOK
  /\ Phased
  /\ ListsOK
  /\ LatchesStand

-----------------------------------------------------------------------------
(***************************************************************************)
(* Lists without repetitions.                                              *)
(***************************************************************************)
LEMMA AppendedList ==
  ASSUME NEW s \in Seq(Messages), NEW m \in Messages, Distinct(s), m \notin Listed(s)
  PROVE  /\ Append(s, m) \in Seq(Messages)
         /\ Distinct(Append(s, m))
         /\ Listed(Append(s, m)) = Listed(s) \union {m}
<1> DEFINE t == Append(s, m)
<1>1. /\ t \in Seq(Messages) /\ Len(t) = Len(s) + 1 /\ Len(s) \in Nat
      /\ \A i \in 1..Len(s) : t[i] = s[i]
      /\ t[Len(s) + 1] = m
      /\ DOMAIN s = 1..Len(s) /\ DOMAIN t = 1..(Len(s) + 1)
  BY AppendProperties
<1>2. \A i \in 1..(Len(s) + 1) : i = Len(s) + 1 \/ i \in 1..Len(s)
  BY <1>1
<1> HIDE DEF t
<1>3. Distinct(t)
  BY <1>1, <1>2 DEF Distinct, Listed
<1>4. Listed(t) = Listed(s) \union {m}
  BY <1>1, <1>2 DEF Listed
<1> QED
  BY <1>1, <1>3, <1>4 DEF t

LEMMA RemovedList ==
  ASSUME NEW s \in Seq(Messages), NEW i \in DOMAIN s, Distinct(s)
  PROVE  /\ Removed(s, i) \in Seq(Messages)
         /\ Distinct(Removed(s, i))
         /\ Listed(Removed(s, i)) = Listed(s) \ {s[i]}
<1> DEFINE n == Len(s)
           a == SubSeq(s, 1, i - 1)
           b == SubSeq(s, i + 1, n)
           t == a \o b
           at(k) == IF k < i THEN k ELSE k + 1
<1>1. n \in Nat /\ DOMAIN s = 1..n /\ i \in 1..n /\ i \in Nat
  OBVIOUS
<1>2. a \in Seq(Messages) /\ Len(a) = i - 1 /\ \A k \in 1..(i - 1) : a[k] = s[k]
  BY <1>1
<1>3. b \in Seq(Messages) /\ Len(b) = n - i /\ \A k \in 1..(n - i) : b[k] = s[i + k]
  BY <1>1
<1> HIDE DEF a, b, n
<1>4. /\ t \in Seq(Messages)
      /\ Len(t) = Len(a) + Len(b)
      /\ \A k \in 1..(Len(a) + Len(b)) :
            t[k] = IF k <= Len(a) THEN a[k] ELSE b[k - Len(a)]
  BY <1>2, <1>3, ConcatProperties, Zenon
<1>5. Len(t) = n - 1 /\ DOMAIN t = 1..(n - 1)
  BY <1>1, <1>2, <1>3, <1>4
<1> HIDE DEF t
<1>6. ASSUME NEW k \in 1..(n - 1)
      PROVE  t[k] = s[at(k)] /\ at(k) \in 1..n /\ at(k) # i
  <2>1. CASE k < i
    <3>1. k \in 1..(i - 1) /\ k <= Len(a) /\ k \in 1..(Len(a) + Len(b))
      BY <1>1, <1>2, <1>3, <2>1
    <3> QED
      BY <1>1, <1>2, <1>4, <2>1, <3>1
  <2>2. CASE ~(k < i)
    <3>1. /\ k - (i - 1) \in 1..(n - i) /\ i + (k - (i - 1)) = k + 1
          /\ ~(k <= Len(a)) /\ k \in 1..(Len(a) + Len(b)) /\ k - Len(a) = k - (i - 1)
      BY <1>1, <1>2, <1>3, <2>2
    <3>2. t[k] = s[k + 1]
      BY <1>3, <1>4, <3>1
    <3> QED
      BY <1>1, <2>2, <3>2
  <2> QED
    BY <2>1, <2>2
<1>7. Distinct(t)
  <2>1. ASSUME NEW k \in 1..(n - 1), NEW l \in 1..(n - 1), t[k] = t[l] PROVE k = l
    <3>1. at(k) = at(l)
      BY <1>1, <1>6, <2>1 DEF Distinct
    <3> QED
      BY <1>1, <3>1
  <2> QED
    BY <1>5, <2>1 DEF Distinct
<1>8. Listed(t) \subseteq Listed(s) \ {s[i]}
  <2>1. ASSUME NEW k \in 1..(n - 1) PROVE t[k] \in Listed(s) /\ t[k] # s[i]
    <3>1. s[at(k)] \in Listed(s) /\ s[at(k)] # s[i]
      BY <1>1, <1>6 DEF Distinct, Listed
    <3> QED
      BY <1>6, <3>1
  <2> QED
    BY <1>5, <2>1 DEF Listed
<1>9. ASSUME NEW j \in 1..n, s[j] # s[i] PROVE s[j] \in Listed(t)
  <2>1. CASE j < i
    <3>1. j \in 1..(n - 1) /\ at(j) = j
      BY <1>1, <2>1
    <3> QED
      BY <1>5, <1>6, <3>1 DEF Listed
  <2>2. CASE j > i
    <3>1. j - 1 \in 1..(n - 1) /\ at(j - 1) = j
      BY <1>1, <2>2
    <3> QED
      BY <1>5, <1>6, <3>1 DEF Listed
  <2>3. j # i
    BY <1>9
  <2> QED
    BY <1>1, <2>1, <2>2, <2>3
<1>10. Listed(t) = Listed(s) \ {s[i]}
  BY <1>1, <1>8, <1>9 DEF Listed
<1>11. Removed(s, i) = t
  BY DEF Removed, t, a, b, n
<1> QED
  BY <1>4, <1>7, <1>10, <1>11

\* What a claim leaves of the ordinary messages.
LEMMA RestOfList ==
  ASSUME NEW s \in Seq(Messages), Distinct(s)
  PROVE  LET rest == SubSeq(s, Len(Oldest(s)) + 1, Len(s))
         IN  /\ rest \in Seq(Messages)
             /\ Distinct(rest)
             /\ Listed(Oldest(s)) \subseteq Listed(s)
             /\ Listed(rest) = Listed(s) \ Listed(Oldest(s))
<1>1. CASE s = <<>>
  <2>1. Oldest(s) = <<>> /\ SubSeq(s, Len(Oldest(s)) + 1, Len(s)) = <<>>
    BY <1>1, EmptySeq DEF Oldest
  <2> QED
    BY <1>1, <2>1 DEF Distinct, Listed
<1>2. CASE s # <<>>
  <2>1. /\ Oldest(s) = <<Head(s)>> /\ Head(s) = s[1] /\ 1 \in DOMAIN s
        /\ Len(Oldest(s)) = 1 /\ Listed(Oldest(s)) = {s[1]}
    BY <1>2, EmptySeq DEF Oldest, Listed
  <2>2. SubSeq(s, 1, 0) = <<>>
    OBVIOUS
  <2>3. Removed(s, 1) = SubSeq(s, 2, Len(s))
    <3>1. SubSeq(s, 2, Len(s)) \in Seq(Messages)
      BY <2>1
    <3> QED
      BY <2>2, <3>1, ConcatEmptySeq DEF Removed
  <2>4. s[1] \in Listed(s)
    BY <2>1 DEF Listed
  <2>5. SubSeq(s, Len(Oldest(s)) + 1, Len(s)) = Removed(s, 1)
    BY <2>1, <2>3
  <2>6. /\ Removed(s, 1) \in Seq(Messages)
        /\ Distinct(Removed(s, 1))
        /\ Listed(Removed(s, 1)) = Listed(s) \ {s[1]}
    BY <2>1, RemovedList
  <2> QED
    BY <2>1, <2>4, <2>5, <2>6, Zenon
<1> QED
  BY <1>1, <1>2

LEMMA WholeList ==
  ASSUME NEW s \in Seq(Messages)
  PROVE  SubSeq(s, Len(<<>>) + 1, Len(s)) = s
OBVIOUS

USE DEF Finished, Endings, Decided, InTurn, Sync, Stops, Parcels, Held

-----------------------------------------------------------------------------
(***************************************************************************)
(* Control: the driver and the frames.                                     *)
(***************************************************************************)
Control == DriverTypeOK /\ FramesTypeOK /\ Phased

LEMMA ClaimControl ==
  ASSUME NEW target, Claim(target)
  PROVE  pc' = "prestep"
BY DEF Claim

LEMMA CallerControl ==
  ASSUME Control, CallerStep
  PROVE  Control'
<1>1. ASSUME NEW m \in Messages, NEW target \in {"next-turn", "next-step"}, NEW wakeup \in BOOLEAN,
             Send(m, target, wakeup)
      PROVE  Control'
  <2>1. (phase # "idle" /\ signal # "none") \in BOOLEAN
    OBVIOUS
  <2>2. sending' \in {Nobody} \union [message : Messages, late : BOOLEAN]
    BY <1>1 DEF Send
  <2> QED
    BY <1>1, <2>2 DEF Send, driver, Control, DriverTypeOK, FramesTypeOK, Phased
<1>2. ASSUME NEW m \in Messages, Remove(m) PROVE Control'
  BY <1>2 DEF Remove, driver, frames, Control, DriverTypeOK, FramesTypeOK, Phased
<1>3. ASSUME NEW cause \in {"user", "disposed"}, NEW keepInbox \in BOOLEAN, Cancel(cause, keepInbox)
      PROVE  Control'
  <2>1. disposed' \in BOOLEAN
    BY <1>3, Zenon DEF Cancel
  <2>2. latch' \in BOOLEAN /\ (phase = "idle" => latch' = FALSE)
    BY <1>3, Zenon DEF Cancel, Control, DriverTypeOK, Phased
  <2>3. signal' \in {"none", "user", "disposed"} /\ UNCHANGED <<phase, pc, ends, stepped, sending, retiring>>
    BY <1>3 DEF Cancel, frames, Control, DriverTypeOK
  <2> QED
    BY <2>1, <2>2, <2>3 DEF Control, DriverTypeOK, FramesTypeOK, Phased
<1>4. CASE RunMaintenance
  BY <1>4 DEF RunMaintenance, frames, Control, DriverTypeOK, FramesTypeOK, Phased
<1> QED
  BY <1>1, <1>2, <1>3, <1>4 DEF CallerStep

LEMMA ReplayControl ==
  ASSUME Control, NEW wakeRequested, phase # "running", Replay(wakeRequested),
         UNCHANGED <<sending, disposed>>, retiring' \in {"nothing", "plain", "latched"}
  PROVE  Control'
BY DEF Replay, StartDriver, Control, DriverTypeOK, FramesTypeOK, Phased

LEMMA TurnControl ==
  ASSUME Control,
         \/ StartTurn \/ FirstClaim \/ PreStepReturns \/ Reject \/ EnterEmpty \/ Enter
         \/ StepReturns \/ StoppingReturns \/ TurnThrows \/ TurnReturns
  PROVE  Control'
<1>1. CASE StartTurn
  BY <1>1 DEF StartTurn, frames, Control, DriverTypeOK, FramesTypeOK, Phased
<1>2. CASE FirstClaim
  BY <1>2 DEF FirstClaim, Claim, frames, Control, DriverTypeOK, FramesTypeOK, Phased
<1>3. CASE PreStepReturns
  BY <1>3 DEF PreStepReturns, frames, Control, DriverTypeOK, FramesTypeOK, Phased
<1>4. CASE Reject \/ EnterEmpty \/ TurnThrows
  BY <1>4 DEF Reject, EnterEmpty, TurnThrows, EndTurn, frames, Control, DriverTypeOK, FramesTypeOK, Phased
<1>5. CASE Enter
  BY <1>5 DEF Enter, frames, Control, DriverTypeOK, FramesTypeOK, Phased
<1>6. CASE StepReturns
  BY <1>6 DEF StepReturns, Claim, frames, Control, DriverTypeOK, FramesTypeOK, Phased
<1>7. CASE StoppingReturns
  BY <1>7 DEF StoppingReturns, Claim, frames, Control, DriverTypeOK, FramesTypeOK, Phased
<1>8. CASE TurnReturns
  BY <1>8 DEF TurnReturns, frames, Control, DriverTypeOK, FramesTypeOK, Phased
<1> QED
  BY <1>1, <1>2, <1>3, <1>4, <1>5, <1>6, <1>7, <1>8

LEMMA ControlStep ==
  ASSUME Control, [Next]_vars
  PROVE  Control'
<1>1. CASE Wake
  <2>1. sending' = Nobody /\ UNCHANGED <<retiring, disposed>>
    BY <1>1 DEF Wake
  <2>2. CASE phase = "idle"
    <3>1. StartDriver
      BY <1>1, <2>2, Zenon DEF Wake
    <3> QED
      BY <2>1, <3>1 DEF StartDriver, Control, DriverTypeOK, FramesTypeOK, Phased
  <2>3. CASE phase # "idle"
    <3>1. UNCHANGED <<phase, signal, pc, ends, stepped>>
      BY <1>1, <2>3 DEF Wake
    <3>2. latch' = latch \/ latch' = TRUE
      BY <1>1, <2>3 DEF Wake
    <3>3. latch' \in BOOLEAN
      BY <3>2, Zenon DEF Control, DriverTypeOK
    <3> QED
      BY <2>1, <2>3, <3>1, <3>3 DEF Control, DriverTypeOK, FramesTypeOK, Phased
  <2> QED
    BY <2>2, <2>3
<1>2. CASE Retire
  <2>1. CASE phase = "idle"
    BY <1>2, <2>1, ReplayControl DEF Retire
  <2>2. CASE phase # "idle"
    BY <1>2, <2>2 DEF Retire, Control, DriverTypeOK, FramesTypeOK, Phased
  <2> QED
    BY <2>1, <2>2
<1>3. CASE MaintenanceEnds
  BY <1>3, ReplayControl DEF MaintenanceEnds, frames, Control, FramesTypeOK
<1>4. CASE Converge
  BY <1>4 DEF Converge, Control, DriverTypeOK, FramesTypeOK, Phased
<1>5. CASE UNCHANGED vars
  BY <1>5 DEF vars, driver, frames, Control, DriverTypeOK, FramesTypeOK, Phased
<1> QED
  BY <1>1, <1>2, <1>3, <1>4, <1>5, CallerControl, TurnControl DEF Next, DriverStep

-----------------------------------------------------------------------------
(***************************************************************************)
(* Data: the lists and what became of each message.                        *)
(***************************************************************************)
\* A label moves between messages that stay where they are.
LEMMA Relabelled ==
  ASSUME ListsOK, UNCHANGED inbox, NEW S, NEW fate \in Held,
         Mark(S, fate), \A m \in S \intersect Messages : parcel[m] \in Held
  PROVE  /\ ListsOK'
         /\ \A m \in Messages : parcel'[m] \in Held <=> parcel[m] \in Held
         /\ \A label \in {"unsent", "claimed", "discarded"} : Labelled(label)' = Labelled(label)
<1>1. /\ parcel' \in [Messages -> Parcels]
      /\ \A m \in Messages : parcel'[m] = IF m \in S THEN fate ELSE parcel[m]
  BY DEF ListsOK, InboxTypeOK, Mark
<1>2. \A m \in Messages : parcel'[m] \in Held <=> parcel[m] \in Held
  BY <1>1
<1>3. \A label \in {"unsent", "claimed", "discarded"} : Labelled(label)' = Labelled(label)
  BY <1>1 DEF Labelled
<1>4. InboxTypeOK' /\ Unique' /\ InboxMatchesHistory'
  BY <1>1, <1>2 DEF ListsOK, inbox, InboxTypeOK, Unique, InboxMatchesHistory, Pending
<1> QED
  BY <1>2, <1>3, <1>4 DEF ListsOK

\* Messages that leave the lists are labelled with what became of them.
LEMMA Departed ==
  ASSUME ListsOK, nextTurn' \in Seq(Messages), nextStep' \in Seq(Messages), Unique',
         NEW S, S \subseteq Pending, NEW fate \in {"claimed", "discarded"}, Mark(S, fate),
         Pending' = Pending \ S
  PROVE  /\ ListsOK'
         /\ Labelled(fate)' = Labelled(fate) \union S
         /\ \A label \in {"unsent", "claimed", "discarded"} :
              label # fate => Labelled(label)' = Labelled(label)
         /\ Labelled("latched")' \subseteq Labelled("latched")
<1>1. /\ parcel' \in [Messages -> Parcels]
      /\ \A m \in Messages : parcel'[m] = IF m \in S THEN fate ELSE parcel[m]
  BY DEF ListsOK, InboxTypeOK, Mark
<1>2. Pending \subseteq Messages
  BY DEF ListsOK, InboxTypeOK, Pending, Listed
<1>3. \A m \in S : m \in Messages /\ parcel[m] \in Held
  BY <1>2 DEF ListsOK, InboxMatchesHistory
<1>4. InboxMatchesHistory'
  BY <1>1, <1>3 DEF ListsOK, InboxMatchesHistory
<1>5. InboxTypeOK'
  BY <1>1 DEF InboxTypeOK
<1> QED
  BY <1>1, <1>3, <1>4, <1>5 DEF ListsOK, Labelled

LEMMA Inserted ==
  ASSUME ListsOK, NEW m \in Messages, parcel[m] = "unsent", Mark({m}, "quiet"),
         \/ nextTurn' = Append(nextTurn, m) /\ UNCHANGED nextStep
         \/ nextStep' = Append(nextStep, m) /\ UNCHANGED nextTurn
  PROVE  /\ ListsOK'
         /\ \A label \in {"claimed", "discarded", "latched"} : Labelled(label)' = Labelled(label)
<1>1. /\ parcel' \in [Messages -> Parcels]
      /\ \A n \in Messages : parcel'[n] = IF n = m THEN "quiet" ELSE parcel[n]
  BY DEF ListsOK, InboxTypeOK, Mark
<1>2. m \notin Listed(nextTurn) /\ m \notin Listed(nextStep)
  BY DEF ListsOK, InboxMatchesHistory, Pending
<1>3. /\ nextTurn \in Seq(Messages) /\ nextStep \in Seq(Messages)
      /\ Distinct(nextTurn) /\ Distinct(nextStep)
      /\ Listed(nextTurn) \intersect Listed(nextStep) = {}
  BY DEF ListsOK, InboxTypeOK, Unique
<1>4. /\ nextTurn' \in Seq(Messages) /\ nextStep' \in Seq(Messages)
      /\ Distinct(nextTurn)' /\ Distinct(nextStep)'
      /\ \/ Listed(nextTurn)' = Listed(nextTurn) \union {m} /\ Listed(nextStep)' = Listed(nextStep)
         \/ Listed(nextStep)' = Listed(nextStep) \union {m} /\ Listed(nextTurn)' = Listed(nextTurn)
  <2>1. CASE nextTurn' = Append(nextTurn, m) /\ UNCHANGED nextStep
    BY <1>2, <1>3, <2>1, AppendedList
  <2>2. CASE nextStep' = Append(nextStep, m) /\ UNCHANGED nextTurn
    BY <1>2, <1>3, <2>2, AppendedList
  <2> QED
    BY <2>1, <2>2
<1>5. Unique' /\ InboxTypeOK'
  BY <1>1, <1>2, <1>3, <1>4 DEF Unique, InboxTypeOK
<1>6. Pending' = Pending \union {m}
  BY <1>4 DEF Pending
<1>7. InboxMatchesHistory'
  BY <1>1, <1>6 DEF ListsOK, InboxMatchesHistory
<1> QED
  BY <1>1, <1>5, <1>7 DEF ListsOK, Labelled

LEMMA Claimed ==
  ASSUME ListsOK, NEW target, Claim(target)
  PROVE  LET ordinary == IF target = "next-turn" THEN Oldest(nextTurn) ELSE <<>>
         IN  /\ ListsOK'
             /\ Labelled("claimed")' = Labelled("claimed") \union Listed(nextStep) \union Listed(ordinary)
             /\ Labelled("discarded")' = Labelled("discarded")
             /\ Labelled("latched")' \subseteq Labelled("latched")
<1> DEFINE ordinary == IF target = "next-turn" THEN Oldest(nextTurn) ELSE <<>>
           S == Listed(nextStep) \union Listed(ordinary)
<1>1. /\ nextTurn \in Seq(Messages) /\ nextStep \in Seq(Messages)
      /\ Distinct(nextTurn) /\ Distinct(nextStep)
      /\ Listed(nextTurn) \intersect Listed(nextStep) = {}
  BY DEF ListsOK, InboxTypeOK, Unique
<1>2. /\ nextTurn' \in Seq(Messages) /\ Distinct(nextTurn)'
      /\ Listed(ordinary) \subseteq Listed(nextTurn)
      /\ Listed(nextTurn)' = Listed(nextTurn) \ Listed(ordinary)
  <2>1. CASE target = "next-turn"
    BY <1>1, <2>1, RestOfList DEF Claim
  <2>2. CASE target # "next-turn"
    <3>1. ordinary = <<>> /\ Listed(ordinary) = {}
      BY <2>2 DEF Listed
    <3>2. nextTurn' = nextTurn
      BY <1>1, <2>2, WholeList DEF Claim
    <3> QED
      BY <1>1, <3>1, <3>2
  <2> QED
    BY <2>1, <2>2
<1>3. /\ nextStep' = <<>> /\ nextStep' \in Seq(Messages) /\ Distinct(nextStep)'
      /\ Listed(nextStep)' = {}
  BY DEF Claim, Distinct, Listed
<1>4. Mark(S, "claimed")
  BY DEF Claim
<1> HIDE DEF ordinary
<1>5. S \subseteq Pending /\ Pending' = Pending \ S
  BY <1>1, <1>2, <1>3 DEF Pending
<1>6. Unique'
  BY <1>2, <1>3 DEF Unique
<1> HIDE DEF S
<1>7. /\ ListsOK'
      /\ Labelled("claimed")' = Labelled("claimed") \union S
      /\ Labelled("discarded")' = Labelled("discarded")
      /\ Labelled("latched")' \subseteq Labelled("latched")
  BY <1>2, <1>3, <1>4, <1>5, <1>6, Departed
<1> QED
  BY <1>7 DEF S, ordinary

LEMMA RemovedOne ==
  ASSUME ListsOK, NEW m \in Messages, Remove(m)
  PROVE  /\ ListsOK'
         /\ Labelled("discarded")' = Labelled("discarded") \union {m}
         /\ Labelled("claimed")' = Labelled("claimed")
         /\ Labelled("latched")' \subseteq Labelled("latched")
<1>1. /\ nextTurn \in Seq(Messages) /\ nextStep \in Seq(Messages)
      /\ Distinct(nextTurn) /\ Distinct(nextStep)
      /\ Listed(nextTurn) \intersect Listed(nextStep) = {}
  BY DEF ListsOK, InboxTypeOK, Unique
<1>2. /\ nextTurn' \in Seq(Messages) /\ nextStep' \in Seq(Messages)
      /\ Distinct(nextTurn)' /\ Distinct(nextStep)'
      /\ \/ /\ m \in Listed(nextTurn) /\ Listed(nextTurn)' = Listed(nextTurn) \ {m}
            /\ Listed(nextStep)' = Listed(nextStep)
         \/ /\ m \in Listed(nextStep) /\ Listed(nextStep)' = Listed(nextStep) \ {m}
            /\ Listed(nextTurn)' = Listed(nextTurn)
  <2>1. CASE \E i \in DOMAIN nextTurn :
               nextTurn[i] = m /\ nextTurn' = Removed(nextTurn, i) /\ UNCHANGED nextStep
    <3>1. PICK i \in DOMAIN nextTurn :
            nextTurn[i] = m /\ nextTurn' = Removed(nextTurn, i) /\ UNCHANGED nextStep
      BY <2>1
    <3>2. m \in Listed(nextTurn)
      BY <3>1 DEF Listed
    <3> QED
      BY <1>1, <3>1, <3>2, RemovedList
  <2>2. CASE \E i \in DOMAIN nextStep :
               nextStep[i] = m /\ nextStep' = Removed(nextStep, i) /\ UNCHANGED nextTurn
    <3>1. PICK i \in DOMAIN nextStep :
            nextStep[i] = m /\ nextStep' = Removed(nextStep, i) /\ UNCHANGED nextTurn
      BY <2>2
    <3>2. m \in Listed(nextStep)
      BY <3>1 DEF Listed
    <3> QED
      BY <1>1, <3>1, <3>2, RemovedList
  <2> QED
    BY <2>1, <2>2 DEF Remove
<1>3. {m} \subseteq Pending /\ Pending' = Pending \ {m} /\ Unique'
  BY <1>1, <1>2 DEF Pending, Unique
<1>4. Mark({m}, "discarded")
  BY DEF Remove
<1> QED
  BY <1>2, <1>3, <1>4, Departed

LEMMA Cleared ==
  ASSUME ListsOK, NEW cause, Cancel(cause, FALSE)
  PROVE  /\ ListsOK'
         /\ Labelled("discarded")' = Labelled("discarded") \union Pending
         /\ Labelled("claimed")' = Labelled("claimed")
         /\ Labelled("latched")' = {}
<1>1. /\ nextTurn' = <<>> /\ nextStep' = <<>> /\ Mark(Pending, "discarded")
  BY DEF Cancel
<1>2. /\ nextTurn' \in Seq(Messages) /\ nextStep' \in Seq(Messages)
      /\ Unique' /\ Pending' = {}
  BY <1>1 DEF Unique, Distinct, Listed, Pending
<1>3. /\ ListsOK'
      /\ Labelled("discarded")' = Labelled("discarded") \union Pending
      /\ Labelled("claimed")' = Labelled("claimed")
  BY <1>1, <1>2, Departed
<1>4. Labelled("latched")' = {}
  BY <1>2, <1>3 DEF ListsOK, InboxMatchesHistory, Labelled
<1> QED
  BY <1>3, <1>4

-----------------------------------------------------------------------------
(***************************************************************************)
(* Every step keeps the strengthening.                                     *)
(***************************************************************************)
LEMMA Started ==
  ASSUME ListsOK, UNCHANGED inbox, NEW S \in SUBSET Pending,
         Mark(S \union Labelled("latched"), "waiting")
  PROVE  /\ ListsOK'
         /\ Labelled("latched")' = {}
         /\ \A label \in {"claimed", "discarded"} : Labelled(label)' = Labelled(label)
<1>1. \A m \in (S \union Labelled("latched")) \intersect Messages : parcel[m] \in Held
  BY DEF ListsOK, InboxMatchesHistory, Labelled
<1>2. /\ ListsOK'
      /\ \A label \in {"unsent", "claimed", "discarded"} : Labelled(label)' = Labelled(label)
  BY <1>1, Relabelled
<1>3. Labelled("latched")' = {}
  BY DEF Mark, Labelled
<1> QED
  BY <1>2, <1>3

\* What a step may do to the data, and to the latches.
DataStep ==
  /\ ListsOK'
  /\ LatchesStand'

LEMMA WakeData == ASSUME IInv, Wake PROVE DataStep
<1> DEFINE S == {sending.message} \intersect Pending
<1>1. UNCHANGED inbox /\ retiring' = retiring
  BY DEF Wake
<1>2. S \in SUBSET Pending /\ \A m \in S \intersect Messages : parcel[m] \in Held
  BY DEF IInv, ListsOK, InboxMatchesHistory
<1>3. CASE phase = "idle"
  <2>1. Mark(S \union Labelled("latched"), "waiting")
    BY <1>3 DEF Wake
  <2> QED
    BY <1>1, <1>2, <2>1, Started DEF IInv, DataStep, LatchesStand
<1>4. CASE phase # "idle"
  <2>1. phase' = phase
    BY <1>4 DEF Wake
  <2>2. CASE signal = "disposed"
    <3>1. UNCHANGED <<latch, parcel>>
      BY <1>4, <2>2 DEF Wake
    <3> QED
      BY <1>1, <2>1, <3>1 DEF IInv, DataStep, ListsOK, InboxTypeOK, Unique, InboxMatchesHistory,
                              LatchesStand, Pending, Labelled, inbox
  <2>3. CASE signal # "disposed" /\ latch' = TRUE /\ Mark(S, "latched")
    BY <1>1, <1>2, <2>3, Relabelled DEF IInv, DataStep, LatchesStand
  <2>4. CASE signal # "disposed" /\ UNCHANGED latch /\ Mark(S, "waiting")
    <3>1. ListsOK'
      BY <1>1, <1>2, <2>4, Relabelled DEF IInv
    <3>2. Labelled("latched")' \subseteq Labelled("latched")
      BY <2>4 DEF Mark, Labelled
    <3> QED
      BY <1>1, <2>1, <2>4, <3>1, <3>2 DEF IInv, DataStep, LatchesStand
  <2> QED
    BY <1>4, <2>2, <2>3, <2>4 DEF Wake
<1> QED
  BY <1>3, <1>4

\* A replay with something latched finds it in the inbox.
LEMMA ReplayData ==
  ASSUME IInv, UNCHANGED inbox, NEW wakeRequested, Replay(wakeRequested),
         Labelled("latched") # {} => wakeRequested = TRUE
  PROVE  DataStep /\ Labelled("latched")' = {}
<1>1. CASE wakeRequested /\ HasPending
  <2>1. Mark({} \union Labelled("latched"), "waiting")
    BY <1>1 DEF Replay
  <2>2. {} \in SUBSET Pending
    OBVIOUS
  <2> QED
    BY <2>1, <2>2, Started DEF IInv, DataStep, LatchesStand
<1>2. CASE ~(wakeRequested /\ HasPending)
  <2>1. UNCHANGED parcel
    BY <1>2 DEF Replay
  <2>2. HasPending \/ Pending = {}
    BY DEF HasPending, Pending, Listed
  <2>3. Labelled("latched") = {}
    BY <1>2, <2>2 DEF IInv, ListsOK, InboxMatchesHistory, Labelled
  <2> QED
    BY <2>1, <2>3 DEF IInv, DataStep, ListsOK, InboxTypeOK, Unique, InboxMatchesHistory,
                      LatchesStand, Pending, Labelled, inbox
<1> QED
  BY <1>1, <1>2

LEMMA RetireData == ASSUME IInv, Retire PROVE DataStep
<1>1. UNCHANGED inbox
  BY DEF Retire
<1>2. CASE phase = "idle"
  <2>1. Replay(retiring = "latched")
    BY <1>2 DEF Retire
  <2>2. Labelled("latched") # {} => (retiring = "latched") = TRUE
    BY <1>2 DEF IInv, Phased, LatchesStand
  <2> QED
    BY <1>1, <2>1, <2>2, ReplayData
<1>3. CASE phase # "idle" /\ retiring = "latched" /\ HasPending /\ phase = "maintenance"
  <2>1. CASE signal = "disposed"
    <3>1. Mark(Labelled("latched"), "quiet")
      BY <1>3, <2>1 DEF Retire
    <3>2. ListsOK'
      BY <1>1, <3>1, Relabelled DEF IInv, Labelled
    <3>3. Labelled("latched")' = {}
      BY <3>1 DEF Mark, Labelled
    <3> QED
      BY <3>2, <3>3 DEF DataStep, LatchesStand
  <2>2. CASE signal # "disposed"
    <3>1. latch' = TRUE /\ UNCHANGED parcel
      BY <1>3, <2>2 DEF Retire
    <3> QED
      BY <1>1, <3>1 DEF IInv, DataStep, ListsOK, InboxTypeOK, Unique, InboxMatchesHistory,
                        LatchesStand, Pending, Labelled, inbox
  <2> QED
    BY <2>1, <2>2
<1>4. CASE phase # "idle" /\ ~(retiring = "latched" /\ HasPending /\ phase = "maintenance")
  <2>1. UNCHANGED <<latch, parcel, phase>>
    BY <1>4 DEF Retire
  <2>2. HasPending \/ Pending = {}
    BY DEF HasPending, Pending, Listed
  <2>3. Labelled("latched") # {} => latch = TRUE
    <3>1. CASE phase = "running"
      BY <3>1 DEF IInv, LatchesStand
    <3>2. CASE phase = "maintenance"
      BY <1>4, <2>2, <3>2 DEF IInv, LatchesStand, ListsOK, InboxMatchesHistory, Labelled
    <3> QED
      BY <1>4, <3>1, <3>2 DEF IInv, DriverTypeOK
  <2> QED
    BY <1>1, <2>1, <2>3 DEF IInv, DataStep, ListsOK, InboxTypeOK, Unique, InboxMatchesHistory,
                            LatchesStand, Pending, Labelled, inbox
<1> QED
  BY <1>2, <1>3, <1>4

\* What leaves the data alone, or only takes messages away, keeps the latches.
LEMMA SameData ==
  ASSUME IInv, UNCHANGED <<inbox, parcel, latch, retiring>>, phase = "running" <=> phase' = "running"
  PROVE  DataStep
BY DEF IInv, DataStep, ListsOK, InboxTypeOK, Unique, InboxMatchesHistory,
       LatchesStand, Pending, Labelled, inbox

LEMMA FewerLatched ==
  ASSUME IInv, ListsOK', Labelled("latched")' \subseteq Labelled("latched"),
         UNCHANGED <<phase, latch, retiring>>
  PROVE  DataStep
BY DEF IInv, DataStep, LatchesStand

LEMMA CallerData == ASSUME IInv, CallerStep PROVE DataStep
<1>1. ASSUME NEW m \in Messages, NEW target \in {"next-turn", "next-step"}, NEW wakeup \in BOOLEAN,
             Send(m, target, wakeup)
      PROVE  DataStep
  <2>1. /\ parcel[m] = "unsent" /\ Mark({m}, "quiet")
        /\ \/ nextTurn' = Append(nextTurn, m) /\ UNCHANGED nextStep
           \/ nextStep' = Append(nextStep, m) /\ UNCHANGED nextTurn
        /\ UNCHANGED <<phase, latch, retiring>>
    BY <1>1 DEF Send, driver
  <2>2. ListsOK' /\ Labelled("latched")' = Labelled("latched")
    BY <2>1, Inserted DEF IInv
  <2> QED
    BY <2>1, <2>2, FewerLatched
<1>2. ASSUME NEW m \in Messages, Remove(m) PROVE DataStep
  <2>1. UNCHANGED <<phase, latch, retiring>>
    BY <1>2 DEF Remove, driver, frames
  <2> QED
    BY <1>2, <2>1, RemovedOne, FewerLatched DEF IInv
<1>3. ASSUME NEW cause \in {"user", "disposed"}, NEW keepInbox \in BOOLEAN, Cancel(cause, keepInbox)
      PROVE  DataStep
  <2>1. CASE keepInbox = TRUE
    <3>1. UNCHANGED <<inbox, parcel, latch, retiring, phase>>
      BY <1>3, <2>1 DEF Cancel, frames
    <3> QED
      BY <3>1, SameData
  <2>2. CASE keepInbox = FALSE
    <3>1. ListsOK' /\ Labelled("latched")' = {}
      BY <1>3, <2>2, Cleared DEF IInv
    <3> QED
      BY <3>1 DEF DataStep, LatchesStand
  <2> QED
    BY <2>1, <2>2
<1>4. CASE RunMaintenance
  <2>1. /\ UNCHANGED <<inbox, parcel, retiring>> /\ phase = "idle" /\ phase' = "maintenance"
        /\ latch' = FALSE /\ latch = FALSE
    BY <1>4 DEF RunMaintenance, frames, IInv, Phased
  <2> QED
    BY <2>1, SameData
<1> QED
  BY <1>1, <1>2, <1>3, <1>4 DEF CallerStep

LEMMA ClaimData ==
  ASSUME IInv, NEW target, Claim(target), UNCHANGED <<phase, latch, retiring>>
  PROVE  DataStep
<1>1. ListsOK' /\ Labelled("latched")' \subseteq Labelled("latched")
  BY Claimed DEF IInv
<1> QED
  BY <1>1, FewerLatched

LEMMA TurnData ==
  ASSUME IInv,
         \/ StartTurn \/ FirstClaim \/ PreStepReturns \/ Reject \/ EnterEmpty \/ Enter
         \/ StepReturns \/ StoppingReturns \/ TurnThrows \/ TurnReturns
  PROVE  DataStep
<1>1. CASE StartTurn \/ PreStepReturns \/ Reject \/ EnterEmpty \/ Enter \/ TurnThrows
  <2>1. UNCHANGED <<inbox, parcel, latch, retiring, phase>>
    BY <1>1 DEF StartTurn, PreStepReturns, Reject, EnterEmpty, Enter, TurnThrows, EndTurn, frames
  <2> QED
    BY <2>1, SameData
<1>2. CASE FirstClaim \/ StepReturns \/ StoppingReturns
  <2>1. UNCHANGED <<latch, retiring, phase>>
    BY <1>2 DEF FirstClaim, StepReturns, StoppingReturns, frames
  <2>2. UNCHANGED <<inbox, parcel>> \/ Claim("next-turn") \/ Claim("next-step")
    BY <1>2, Zenon DEF FirstClaim, StepReturns, StoppingReturns
  <2> QED
    BY <2>1, <2>2, SameData, ClaimData
<1>3. CASE TurnReturns
  <2>1. UNCHANGED <<inbox, retiring, phase>>
    BY <1>3 DEF TurnReturns, frames
  <2>2. CASE UNCHANGED <<latch, parcel>>
    BY <2>1, <2>2, SameData
  <2>3. CASE Mark(Labelled("latched"), "waiting")
    <3>1. Mark({} \union Labelled("latched"), "waiting") /\ {} \in SUBSET Pending
      BY <2>3
    <3>2. ListsOK' /\ Labelled("latched")' = {}
      BY <2>1, <3>1, Started DEF IInv
    <3> QED
      BY <3>2 DEF DataStep, LatchesStand
  <2> QED
    BY <1>3, <2>2, <2>3 DEF TurnReturns
<1> QED
  BY <1>1, <1>2, <1>3

LEMMA ConvergeData == ASSUME IInv, Converge PROVE DataStep
<1>1. /\ UNCHANGED inbox /\ phase' = "idle"
      /\ retiring' = IF latch THEN "latched" ELSE "plain"
      /\ pc = "tail"
  BY DEF Converge
<1>2. /\ ListsOK'
      /\ Labelled("latched")' = Labelled("latched")
  <2>1. CASE Mark(Labelled("waiting"), "quiet")
    <3>1. ListsOK'
      BY <1>1, <2>1, Relabelled DEF IInv, Labelled
    <3>2. Labelled("latched")' = Labelled("latched")
      BY <2>1 DEF Mark, Labelled
    <3> QED
      BY <3>1, <3>2
  <2>2. CASE UNCHANGED parcel
    BY <1>1, <2>2 DEF IInv, ListsOK, InboxTypeOK, Unique, InboxMatchesHistory, Pending, Labelled, inbox
  <2> QED
    BY <2>1, <2>2 DEF Converge
<1>3. Labelled("latched") # {} => latch = TRUE
  BY <1>1 DEF IInv, Phased, LatchesStand
<1> QED
  BY <1>1, <1>2, <1>3 DEF DataStep, LatchesStand

LEMMA StepIInv == IInv /\ [Next]_vars => IInv'
<1> SUFFICES ASSUME IInv, [Next]_vars PROVE IInv'
  OBVIOUS
<1>1. Control'
  BY ControlStep DEF IInv, Control
<1>2. CASE MaintenanceEnds
  <2>1. UNCHANGED inbox /\ Replay(latch) /\ retiring = "nothing"
    BY <1>2 DEF MaintenanceEnds, Quiet
  <2>2. Labelled("latched") # {} => latch = TRUE
    BY <2>1 DEF IInv, LatchesStand
  <2> QED
    BY <1>1, <2>1, <2>2, ReplayData DEF IInv, Control, DataStep
<1>3. CASE UNCHANGED vars
  <2>1. UNCHANGED <<inbox, parcel, latch, retiring, phase>>
    BY <1>3 DEF vars, driver, frames
  <2> QED
    BY <1>1, <2>1, SameData DEF IInv, Control, DataStep
<1>4. CASE CallerStep \/ Wake \/ Retire \/ Converge
  BY <1>1, <1>4, CallerData, WakeData, RetireData, ConvergeData DEF IInv, Control, DataStep
<1>5. CASE \/ StartTurn \/ FirstClaim \/ PreStepReturns \/ Reject \/ EnterEmpty \/ Enter
           \/ StepReturns \/ StoppingReturns \/ TurnThrows \/ TurnReturns
  BY <1>1, <1>5, TurnData DEF IInv, Control, DataStep
<1> QED
  BY <1>2, <1>3, <1>4, <1>5 DEF Next, DriverStep

LEMMA InitIInv == Init => IInv
<1> SUFFICES ASSUME Init PROVE IInv
  OBVIOUS
<1>1. DriverTypeOK /\ FramesTypeOK /\ Phased
  BY DEF Init, DriverTypeOK, FramesTypeOK, Phased
<1>2. InboxTypeOK /\ Listed(nextTurn) = {} /\ Listed(nextStep) = {}
  BY DEF Init, InboxTypeOK, Listed
<1>3. \A m \in Messages : parcel[m] = "unsent"
  BY DEF Init
<1>4. Unique /\ InboxMatchesHistory /\ LatchesStand
  BY <1>2, <1>3 DEF Init, Unique, Distinct, InboxMatchesHistory, Pending, LatchesStand, Labelled
<1> QED
  BY <1>1, <1>2, <1>4 DEF IInv, ListsOK

\* The strengthening holds in every reachable state.
THEOREM Invariance == Spec => []IInv
BY InitIInv, StepIInv, PTL DEF Spec

\* Every variable keeps its type, and a driver runs exactly in its phase.
THEOREM TypeCorrect == Spec => []TypeOK
<1>1. IInv => TypeOK
  BY DEF IInv, Phased, ListsOK, TypeOK
<1> QED
  BY Invariance, <1>1, PTL

\* An agent at rest holds no latched message: every wake that maintenance or
\* an aborted activity kept back has started a turn (kick, runMaintenance).
THEOREM LatchedWakes == Spec => []LatchedWakesRun
<1>1. ASSUME IInv PROVE LatchedWakesRun
  BY <1>1 DEF IInv, Phased, LatchesStand, LatchedWakesRun, Resting, Quiet
<1> QED
  BY Invariance, <1>1, PTL

-----------------------------------------------------------------------------
(***************************************************************************)
(* What a step may do to the messages that have left their list.           *)
(***************************************************************************)
\* The steps that neither insert, drop nor claim.
LEMMA Kept ==
  ASSUME IInv, [Next]_vars,
         ~CallerStep, ~FirstClaim, ~StepReturns, ~StoppingReturns
  PROVE  /\ UNCHANGED inbox
         /\ Labelled("claimed")' = Labelled("claimed")
         /\ Labelled("discarded")' = Labelled("discarded")
<1> DEFINE Goal == /\ UNCHANGED inbox
                   /\ Labelled("claimed")' = Labelled("claimed")
                   /\ Labelled("discarded")' = Labelled("discarded")
<1>1. ASSUME UNCHANGED <<inbox, parcel>> PROVE Goal
  BY <1>1 DEF Labelled
<1>2. ASSUME UNCHANGED inbox, NEW S \in SUBSET Pending, NEW fate \in Held,
             Mark(S \union Labelled("latched"), fate) \/ Mark(S, fate)
      PROVE  Goal
  <2>1. \A m \in (S \union Labelled("latched")) \intersect Messages : parcel[m] \in Held
    BY DEF IInv, ListsOK, InboxMatchesHistory, Labelled
  <2> QED
    BY <1>2, <2>1, Relabelled DEF IInv
<1>3. {} \in SUBSET Pending
  OBVIOUS
<1>4. {sending.message} \intersect Pending \in SUBSET Pending
  OBVIOUS
<1>5. Labelled("latched") \in SUBSET Pending /\ Labelled("waiting") \in SUBSET Pending
  BY DEF IInv, ListsOK, InboxMatchesHistory, Labelled
<1>6. ASSUME NEW w, UNCHANGED inbox, Replay(w) PROVE Goal
  <2>1. UNCHANGED parcel \/ Mark(Labelled("latched"), "waiting")
    BY <1>6 DEF Replay
  <2> QED
    BY <1>1, <1>2, <1>5, <1>6, <2>1
<1>7. CASE Wake
  <2>1. UNCHANGED inbox
    BY <1>7 DEF Wake
  <2>2. \/ Mark(({sending.message} \intersect Pending) \union Labelled("latched"), "waiting")
        \/ UNCHANGED parcel
        \/ Mark({sending.message} \intersect Pending, "latched")
        \/ Mark({sending.message} \intersect Pending, "waiting")
    BY <1>7 DEF Wake
  <2> QED
    BY <1>1, <1>2, <1>4, <2>1, <2>2
<1>8. CASE Retire
  <2>1. UNCHANGED inbox
    BY <1>8 DEF Retire
  <2>2. \/ Replay(retiring = "latched")
        \/ Mark(Labelled("latched"), "quiet")
        \/ UNCHANGED parcel
    BY <1>8 DEF Retire
  <2> QED
    BY <1>1, <1>2, <1>5, <1>6, <2>1, <2>2
<1>9. CASE MaintenanceEnds
  BY <1>6, <1>9 DEF MaintenanceEnds
<1>10. CASE Converge \/ TurnReturns
  <2>1. UNCHANGED inbox
    BY <1>10 DEF Converge, TurnReturns
  <2>2. \/ Mark(Labelled("waiting"), "quiet")
        \/ Mark(Labelled("latched"), "waiting")
        \/ UNCHANGED parcel
    BY <1>10 DEF Converge, TurnReturns
  <2> QED
    BY <1>1, <1>2, <1>5, <2>1, <2>2
<1>11. CASE StartTurn \/ PreStepReturns \/ Reject \/ EnterEmpty \/ Enter \/ TurnThrows
  BY <1>1, <1>11 DEF StartTurn, PreStepReturns, Reject, EnterEmpty, Enter, TurnThrows, EndTurn
<1>12. CASE UNCHANGED vars
  BY <1>1, <1>12 DEF vars
<1> QED
  BY <1>7, <1>8, <1>9, <1>10, <1>11, <1>12 DEF Next, DriverStep

LEMMA CallerKeepsClaimed ==
  ASSUME IInv, CallerStep
  PROVE  Labelled("claimed")' = Labelled("claimed") /\ UNCHANGED pc
<1>1. ASSUME NEW m \in Messages, NEW target \in {"next-turn", "next-step"}, NEW wakeup \in BOOLEAN,
             Send(m, target, wakeup)
      PROVE  Labelled("claimed")' = Labelled("claimed") /\ UNCHANGED pc
  <2>1. /\ parcel[m] = "unsent" /\ Mark({m}, "quiet") /\ UNCHANGED pc
        /\ \/ nextTurn' = Append(nextTurn, m) /\ UNCHANGED nextStep
           \/ nextStep' = Append(nextStep, m) /\ UNCHANGED nextTurn
    BY <1>1 DEF Send, driver
  <2> QED
    BY <2>1, Inserted DEF IInv
<1>2. ASSUME NEW m \in Messages, Remove(m)
      PROVE  Labelled("claimed")' = Labelled("claimed") /\ UNCHANGED pc
  BY <1>2, RemovedOne DEF IInv, Remove, driver
<1>3. ASSUME NEW cause \in {"user", "disposed"}, NEW keepInbox \in BOOLEAN, Cancel(cause, keepInbox)
      PROVE  Labelled("claimed")' = Labelled("claimed") /\ UNCHANGED pc
  <2>1. UNCHANGED pc
    BY <1>3 DEF Cancel
  <2>2. CASE keepInbox = TRUE
    BY <1>3, <2>1, <2>2 DEF Cancel, Labelled
  <2>3. CASE keepInbox = FALSE
    BY <1>3, <2>1, <2>3, Cleared DEF IInv
  <2> QED
    BY <2>2, <2>3
<1>4. CASE RunMaintenance
  BY <1>4 DEF RunMaintenance, Labelled
<1> QED
  BY <1>1, <1>2, <1>3, <1>4 DEF CallerStep

\* A turn that was aborted claims no message and enters no step any more,
\* whoever aborted it and whenever (the throwIfAborted of turn and preStep).
THEOREM CancelStops == Spec => CancelStopsTheTurn
<1> DEFINE Stopped ==
      signal # "none" /\ signal' # "none" =>
        /\ Labelled("claimed")' = Labelled("claimed")
        /\ pc' = "stepping" => pc = "stepping"
<1>1. ASSUME IInv, [Next]_vars PROVE Stopped
  <2>1. CASE CallerStep
    BY <1>1, <2>1, CallerKeepsClaimed
  <2>2. CASE FirstClaim
    BY <2>2 DEF FirstClaim, Labelled
  <2>3. CASE StepReturns \/ StoppingReturns
    BY <2>3 DEF StepReturns, StoppingReturns
  <2>4. CASE ~CallerStep /\ ~FirstClaim /\ ~StepReturns /\ ~StoppingReturns
    <3>1. Labelled("claimed")' = Labelled("claimed")
      BY <1>1, <2>4, Kept
    <3>2. signal # "none" /\ signal' # "none" => (pc' = "stepping" => pc = "stepping")
      <4>1. CASE Enter
        BY <4>1 DEF Enter
      <4>2. CASE Wake \/ Retire \/ MaintenanceEnds
        BY <4>2 DEF Wake, Retire, MaintenanceEnds, Replay, StartDriver
      <4>3. CASE \/ StartTurn \/ PreStepReturns \/ Reject \/ EnterEmpty \/ TurnThrows
                 \/ TurnReturns \/ Converge
        BY <4>3 DEF StartTurn, PreStepReturns, Reject, EnterEmpty, TurnThrows, EndTurn,
                    TurnReturns, Converge
      <4>4. CASE UNCHANGED vars
        BY <4>4 DEF vars, driver
      <4> QED
        BY <1>1, <2>4, <4>1, <4>2, <4>3, <4>4 DEF Next, DriverStep
    <3> QED
      BY <3>1, <3>2
  <2> QED
    BY <2>1, <2>2, <2>3, <2>4
<1>2. IInv /\ [Next]_vars => [Stopped]_vars
  BY <1>1
<1> QED
  BY Invariance, <1>2, PTL DEF Spec, CancelStopsTheTurn

-----------------------------------------------------------------------------
(***************************************************************************)
(* The refinement: what the agent promises about its input.                *)
(***************************************************************************)
\* What a turn is to TurnLog.
open == IF pc = "opened" THEN "nothing" ELSE IF pc \in InTurn THEN "yes" ELSE "no"

LogStep ==
  [Log!TurnLogNext]_<<nextTurn, nextStep, open, Labelled("claimed"), Labelled("discarded")>>

LEMMA CallerLog == ASSUME IInv, CallerStep PROVE LogStep
<1>0. UNCHANGED open /\ Labelled("claimed")' = Labelled("claimed")
  BY CallerKeepsClaimed DEF open
<1>1. ASSUME NEW m \in Messages, NEW target \in {"next-turn", "next-step"}, NEW wakeup \in BOOLEAN,
             Send(m, target, wakeup)
      PROVE  LogStep
  <2>1. /\ parcel[m] = "unsent" /\ Mark({m}, "quiet")
        /\ \/ nextTurn' = Append(nextTurn, m) /\ UNCHANGED nextStep
           \/ nextStep' = Append(nextStep, m) /\ UNCHANGED nextTurn
    BY <1>1 DEF Send
  <2>2. Labelled("discarded")' = Labelled("discarded")
    BY <2>1, Inserted DEF IInv
  <2>3. m \notin Pending /\ m \notin Labelled("claimed") /\ m \notin Labelled("discarded")
    BY <2>1 DEF IInv, ListsOK, InboxMatchesHistory, Labelled
  <2>4. Log!Fresh(m)
    BY <2>3 DEF Log!Fresh, Log!Listed, Pending, Listed
  <2>5. Log!Insert(m)
    BY <1>0, <2>1, <2>2, <2>4 DEF Log!Insert, open
  <2> QED
    BY <2>5 DEF LogStep, Log!TurnLogNext
<1>2. ASSUME NEW m \in Messages, Remove(m) PROVE LogStep
  <2>1. Labelled("discarded")' = Labelled("discarded") \union {m}
    BY <1>2, RemovedOne DEF IInv
  <2>2. \/ \E i \in DOMAIN nextTurn :
             nextTurn[i] = m /\ nextTurn' = Log!Without(nextTurn, i) /\ UNCHANGED nextStep
        \/ \E i \in DOMAIN nextStep :
             nextStep[i] = m /\ nextStep' = Log!Without(nextStep, i) /\ UNCHANGED nextTurn
    BY <1>2 DEF Remove, Removed, Log!Without
  <2>3. Log!Drop(m)
    BY <1>0, <2>1, <2>2 DEF Log!Drop, open
  <2> QED
    BY <2>3 DEF LogStep, Log!TurnLogNext
<1>3. ASSUME NEW cause \in {"user", "disposed"}, NEW keepInbox \in BOOLEAN, Cancel(cause, keepInbox)
      PROVE  LogStep
  <2>1. CASE keepInbox = TRUE
    BY <1>0, <1>3, <2>1 DEF Cancel, inbox, Labelled, LogStep
  <2>2. CASE keepInbox = FALSE
    <3>1. Labelled("discarded")' = Labelled("discarded") \union Pending
      BY <1>3, <2>2, Cleared DEF IInv
    <3>2. nextTurn' = <<>> /\ nextStep' = <<>>
      BY <1>3, <2>2 DEF Cancel
    <3>3. Log!DropAll
      BY <1>0, <3>1, <3>2 DEF Log!DropAll, Log!Listed, Pending, Listed, open
    <3> QED
      BY <3>3 DEF LogStep, Log!TurnLogNext
  <2> QED
    BY <2>1, <2>2
<1>4. CASE RunMaintenance
  BY <1>0, <1>4 DEF RunMaintenance, inbox, Labelled, LogStep
<1> QED
  BY <1>1, <1>2, <1>3, <1>4 DEF CallerStep

LEMMA ClaimLog ==
  ASSUME IInv,
         \/ pc = "opened" /\ Claim("next-turn")
         \/ pc \in {"stepping", "stopping"} /\ Claim("next-step")
  PROVE  LogStep
<1>1. open' = "yes"
  BY DEF Claim, open
<1>2. CASE pc = "opened" /\ Claim("next-turn")
  <2>1. Log!Take(Oldest(nextTurn))
    BY <1>1, <1>2, Claimed DEF IInv, Claim, Log!Take, Log!Listed, Listed, open
  <2>2. Log!TakeFirst
    BY <1>2, <2>1 DEF Log!TakeFirst, Oldest, open
  <2> QED
    BY <2>2 DEF LogStep, Log!TurnLogNext
<1>3. CASE pc \in {"stepping", "stopping"} /\ Claim("next-step")
  <2>1. Log!Take(<<>>)
    BY <1>1, <1>3, Claimed DEF IInv, Claim, Log!Take, Log!Listed, Listed, open
  <2>2. Log!TakeLater
    BY <1>3, <2>1 DEF Log!TakeLater, open
  <2> QED
    BY <2>2 DEF LogStep, Log!TurnLogNext
<1> QED
  BY <1>2, <1>3

LEMMA DriverLog == ASSUME IInv, [Next]_vars PROVE LogStep
<1> DEFINE Same == /\ UNCHANGED inbox
                   /\ Labelled("claimed")' = Labelled("claimed")
                   /\ Labelled("discarded")' = Labelled("discarded")
<1>1. CASE CallerStep
  BY <1>1, CallerLog
<1>2. ASSUME Same, UNCHANGED open PROVE LogStep
  BY <1>2 DEF LogStep, inbox
<1>3. ASSUME Same, open # "no", open' = "no" PROVE LogStep
  <2>1. Log!CloseTurn
    BY <1>3 DEF Log!CloseTurn, inbox, open
  <2> QED
    BY <2>1 DEF LogStep, Log!TurnLogNext
<1>4. ASSUME Same, open = "no", open' = "nothing" PROVE LogStep
  <2>1. Log!OpenTurn
    BY <1>4 DEF Log!OpenTurn, inbox, open
  <2> QED
    BY <2>1 DEF LogStep, Log!TurnLogNext
<1>5. ASSUME UNCHANGED <<inbox, parcel>> PROVE Same
  BY <1>5 DEF Labelled
<1>6. CASE FirstClaim
  <2>1. CASE signal = "none"
    BY <1>6, <2>1, ClaimLog DEF FirstClaim
  <2>2. CASE signal # "none"
    <3>1. UNCHANGED <<inbox, parcel>> /\ open # "no" /\ open' = "no"
      BY <1>6, <2>2 DEF FirstClaim, open
    <3> QED
      BY <1>3, <1>5, <3>1
  <2> QED
    BY <2>1, <2>2
<1>7. CASE StepReturns \/ StoppingReturns
  <2>1. CASE Claim("next-step")
    BY <1>7, <2>1, ClaimLog DEF StepReturns, StoppingReturns
  <2>2. CASE UNCHANGED <<inbox, parcel>> /\ pc' \in {"stopping", "ended"}
    <3>1. open = "yes" /\ open' \in {"yes", "no"}
      BY <1>7, <2>2 DEF StepReturns, StoppingReturns, open
    <3>2. CASE open' = "yes"
      BY <1>2, <1>5, <2>2, <3>1, <3>2
    <3>3. CASE open' = "no"
      BY <1>3, <1>5, <2>2, <3>1, <3>3
    <3> QED
      BY <3>1, <3>2, <3>3
  <2> QED
    BY <1>7, <2>1, <2>2 DEF StepReturns, StoppingReturns
<1>8. CASE ~CallerStep /\ ~FirstClaim /\ ~StepReturns /\ ~StoppingReturns
  <2>1. Same
    BY <1>8, Kept
  <2>2. CASE StartTurn
    <3>1. open = "no" /\ open' \in {"nothing", "no"}
      BY <2>2 DEF StartTurn, open
    <3> QED
      BY <1>2, <1>4, <2>1, <3>1
  <2>3. CASE PreStepReturns \/ Enter
    <3>1. open = "yes" /\ open' = "yes"
      BY <2>3 DEF PreStepReturns, Enter, open
    <3> QED
      BY <1>2, <2>1, <3>1
  <2>4. CASE Reject \/ EnterEmpty \/ TurnThrows
    <3>1. open = "yes" /\ open' = "no"
      BY <2>4 DEF Reject, EnterEmpty, TurnThrows, EndTurn, open
    <3> QED
      BY <1>3, <2>1, <3>1
  <2>5. CASE TurnReturns \/ Converge
    <3>1. open = "no" /\ open' = "no"
      BY <2>5 DEF TurnReturns, Converge, open
    <3> QED
      BY <1>2, <2>1, <3>1
  <2>6. CASE Wake \/ Retire \/ MaintenanceEnds
    <3>1. pc' = pc \/ (phase # "running" /\ pc' = "entered")
      BY <2>6 DEF IInv, DriverTypeOK, Wake, Retire, MaintenanceEnds, Replay, StartDriver
    <3>2. open' = open
      BY <3>1 DEF IInv, Phased, open
    <3> QED
      BY <1>2, <2>1, <3>2
  <2>7. CASE UNCHANGED vars
    BY <1>2, <2>1, <2>7 DEF vars, driver, open
  <2> QED
    BY <1>8, <2>2, <2>3, <2>4, <2>5, <2>6, <2>7 DEF Next, DriverStep
<1> QED
  BY <1>1, <1>6, <1>7, <1>8

\* The driver and the inbox keep the promise of TurnLog: one turn at a time,
\* one ordinary message in it, every message claimed or dropped once.
THEOREM Refinement == Spec => ImplementsTurnLog
<1>1. Init => Log!TurnLogInit
  BY DEF Init, Log!TurnLogInit, Labelled
<1>2. IInv /\ [Next]_vars => LogStep
  BY DriverLog
<1> QED
  BY Invariance, <1>1, <1>2, PTL DEF Spec, ImplementsTurnLog, Log!TurnLogSpec, LogStep, open
=============================================================================
