---------------------------- MODULE AgentDriver ----------------------------
(***************************************************************************)
(* One agent: its driver (ReactLoopAgent in                                *)
(* packages/harness/agent-loop/src/agent.ts) and its inbox                 *)
(* (packages/harness/agent/src/inbox.ts).                                  *)
(*                                                                         *)
(* What the driver does between two awaits is one action, cut further      *)
(* where it publishes something whose listeners may call the agent back:   *)
(* its status, a session event (a listener may cancel but not append), or  *)
(* an inserted message.  Such a publication is a frame on the stack, and   *)
(* the driver's jobs wait until every frame has returned.  The content of  *)
(* messages, the model request and the tools of a step are left out.       *)
(***************************************************************************)
EXTENDS Naturals, Sequences

CONSTANTS
  Messages,  \* each is sent at most once
  Nobody     \* no send is on the stack

ASSUME AgentDriverAssumption == Nobody \notin Messages

VARIABLES
  phase,               \* this.phase.kind
  signal,              \* why this.phase.abort was aborted, "none" if it was not
  latch,               \* this.phase.wakeRequested
  pc,                  \* where the driver is, "off" without one
  ends,                \* turnEnds, or how the last turn ended
  stepped,             \* this.phase.step > 0
  nextTurn, nextStep,  \* the inbox
  sending,             \* the waking send that has published its insertion
  retiring,            \* the latch a driver that published idle has to replay
  \* history
  parcel,              \* what became of each message
  disposed             \* whether a disposal has cancelled an activity

inbox  == <<nextTurn, nextStep>>
frames == <<sending, retiring>>
driver == <<phase, signal, latch, pc, ends, stepped>>
vars == <<driver, inbox, frames, parcel, disposed>>

Finished == {"completed", "max-tokens"}
Endings  == Finished \union {"none", "emptied", "blocked", "aborted", "error"}
Decided  == {"rejected", "emptied", "admitted"}
InTurn   == {"opened", "prestep", "stepping", "stopping"} \union Decided
Sync     == {"entered", "opened", "ended"}
Stops    == {"off", "again", "tail"} \union InTurn \union Sync

\* A waking message is "waiting" while a live driver has to claim it and
\* "latched" while a replay has; nobody has to claim one that is "quiet".
Parcels == {"unsent", "quiet", "waiting", "latched", "claimed", "discarded"}

Init ==
  /\ phase = "idle"
  /\ signal = "none"
  /\ latch = FALSE
  /\ pc = "off"
  /\ ends = "none"
  /\ stepped = FALSE
  /\ nextTurn = <<>>
  /\ nextStep = <<>>
  /\ sending = Nobody
  /\ retiring = "nothing"
  /\ parcel = [m \in Messages |-> "unsent"]
  /\ disposed = FALSE

Quiet == sending = Nobody /\ retiring = "nothing"

\* No append reenters the publication of a session event.
Publishing == pc \in {"opened", "ended"}

HasPending == nextTurn # <<>> \/ nextStep # <<>>
Listed(list) == {list[i] : i \in DOMAIN list}
Oldest(list) == IF list = <<>> THEN <<>> ELSE <<Head(list)>>
Removed(list, i) == SubSeq(list, 1, i - 1) \o SubSeq(list, i + 1, Len(list))
Pending == Listed(nextTurn) \union Listed(nextStep)

Mark(S, fate) == parcel' = [m \in Messages |-> IF m \in S THEN fate ELSE parcel[m]]
Labelled(label) == {m \in Messages : parcel[m] = label}

(***************************************************************************)
(* Waking.                                                                 *)
(***************************************************************************)
\* wakeDriver on an idle agent: reserve a driver and publish running.
StartDriver ==
  /\ phase' = "running"
  /\ signal' = "none"
  /\ latch' = FALSE
  /\ pc' = "entered"
  /\ ends' = "none"
  /\ stepped' = FALSE

\* send: the insertion.  The classification of a wake precedes it.
Send(m, target, wakeup) ==
  LET late == wakeup /\ phase # "idle" /\ signal # "none"
  IN  /\ sending = Nobody
      /\ ~Publishing
      /\ parcel[m] = "unsent"
      /\ IF target = "next-turn" \/ late
         THEN nextTurn' = Append(nextTurn, m) /\ UNCHANGED nextStep
         ELSE nextStep' = Append(nextStep, m) /\ UNCHANGED nextTurn
      /\ Mark({m}, "quiet")
      /\ sending' = IF wakeup THEN [message |-> m, late |-> late] ELSE Nobody
      /\ UNCHANGED <<driver, retiring, disposed>>

\* send: wakeDriver, once the insertion is published.
Wake ==
  LET latches == phase = "maintenance" \/ sending.late
      S == {sending.message} \intersect Pending
  IN  /\ sending # Nobody
      /\ sending' = Nobody
      /\ IF phase = "idle"
         THEN StartDriver /\ Mark(S \union Labelled("latched"), "waiting")
         ELSE /\ UNCHANGED <<phase, signal, pc, ends, stepped>>
              /\ IF signal = "disposed" THEN UNCHANGED <<latch, parcel>>
                 ELSE IF latches THEN latch' = TRUE /\ Mark(S, "latched")
                 ELSE UNCHANGED latch /\ Mark(S, "waiting")
      /\ UNCHANGED <<inbox, retiring, disposed>>

\* The replay of a latch, when work is left.
Replay(wakeRequested) ==
  IF wakeRequested /\ HasPending
  THEN StartDriver /\ Mark(Labelled("latched"), "waiting")
  ELSE /\ phase' = "idle"
       /\ signal' = "none"
       /\ latch' = FALSE
       /\ UNCHANGED <<pc, ends, stepped, parcel>>

(***************************************************************************)
(* Callers and listeners.                                                  *)
(***************************************************************************)
Cancel(cause, keepInbox) ==
  /\ keepInbox \/ ~HasPending \/ ~Publishing
  /\ IF keepInbox
     THEN UNCHANGED <<inbox, latch, parcel>>
     ELSE /\ nextTurn' = <<>>
          /\ nextStep' = <<>>
          /\ latch' = FALSE
          /\ Mark(Pending, "discarded")
  /\ signal' = IF phase # "idle" /\ signal = "none" THEN cause ELSE signal
  /\ disposed' = (disposed \/ (cause = "disposed" /\ phase # "idle"))
  /\ UNCHANGED <<phase, pc, ends, stepped, frames>>

Remove(m) ==
  /\ ~Publishing
  /\ \/ \E i \in DOMAIN nextTurn :
          nextTurn[i] = m /\ nextTurn' = Removed(nextTurn, i) /\ UNCHANGED nextStep
     \/ \E i \in DOMAIN nextStep :
          nextStep[i] = m /\ nextStep' = Removed(nextStep, i) /\ UNCHANGED nextTurn
  /\ Mark({m}, "discarded")
  /\ UNCHANGED <<driver, frames, disposed>>

\* runMaintenance throws unless the agent is idle.
RunMaintenance ==
  /\ phase = "idle"
  /\ phase' = "maintenance"
  /\ signal' = "none"
  /\ latch' = FALSE
  /\ UNCHANGED <<pc, ends, stepped, inbox, frames, parcel, disposed>>

\* The job settles: idle to idle publishes nothing, so the replay follows.
MaintenanceEnds ==
  /\ phase = "maintenance"
  /\ Quiet
  /\ Replay(latch)
  /\ UNCHANGED <<inbox, frames, disposed>>

(***************************************************************************)
(* The driver.                                                             *)
(***************************************************************************)
\* Mutation: every boundary of a turn consumes one queued turn.
ClaimOrdinary(target) ==
  /\ nextStep' = <<>>
  /\ nextTurn' = SubSeq(nextTurn, 2, Len(nextTurn))
  /\ Mark(Listed(nextStep) \union Listed(Oldest(nextTurn)), "claimed")
  /\ pc' = "prestep"

\* Inbox.claim, and the await of preStep behind it.
Claim(target) ==
  LET ordinary == IF target = "next-turn" THEN Oldest(nextTurn) ELSE <<>>
  IN  /\ nextStep' = <<>>
      /\ nextTurn' = SubSeq(nextTurn, Len(ordinary) + 1, Len(nextTurn))
      /\ Mark(Listed(nextStep) \union Listed(ordinary), "claimed")
      /\ pc' = "prestep"

\* The head of turn(): an aborted driver throws before turn/start.
StartTurn ==
  /\ \/ pc = "entered" /\ sending = Nobody
     \/ pc = "again" /\ Quiet
  /\ IF signal = "none" THEN pc' = "opened" /\ UNCHANGED ends
     ELSE pc' = "tail" /\ ends' = "aborted"
  /\ UNCHANGED <<phase, signal, latch, stepped, inbox, frames, parcel, disposed>>

\* Behind turn/start: claim for the first step, unless a listener aborted.
FirstClaim ==
  /\ pc = "opened"
  /\ IF signal = "none" THEN Claim("next-turn") /\ UNCHANGED ends
     ELSE pc' = "ended" /\ ends' = "aborted" /\ UNCHANGED <<inbox, parcel>>
  /\ UNCHANGED <<phase, signal, latch, stepped, frames, disposed>>

\* turn/end is logged.
EndTurn(how) ==
  /\ Quiet
  /\ pc' = "ended"
  /\ ends' = how
  /\ UNCHANGED <<phase, signal, latch, stepped, inbox, frames, parcel, disposed>>

\* The prompt is assembled and the pre-step hooks answer: reject, or enter
\* with messages or with none.  The first step needs some, and so does one
\* behind a finished step.
PreStepReturns ==
  /\ pc = "prestep"
  /\ Quiet
  /\ signal = "none"
  /\ \/ pc' = "rejected"
     \/ pc' = "emptied" /\ (ends \in Finished \/ ~stepped)
     \/ pc' = "admitted"
  /\ UNCHANGED <<phase, signal, latch, ends, stepped, inbox, frames, parcel, disposed>>

\* A turn that learns it has nothing to do does not look at the signal again.
Reject == pc = "rejected" /\ EndTurn("blocked")
EnterEmpty == pc = "emptied" /\ EndTurn(IF ends \in Finished THEN ends ELSE "emptied")

\* step/start and the messages of the step are logged.
Enter ==
  /\ pc = "admitted"
  /\ Quiet
  /\ signal = "none"
  /\ pc' = "stepping"
  /\ stepped' = TRUE
  /\ UNCHANGED <<phase, signal, latch, ends, inbox, frames, parcel, disposed>>

\* Mutation: a step that is over is followed by the next one unseen.
StepReturnsUnseen ==
  /\ pc = "stepping"
  /\ Quiet
  /\ \E result \in Finished \union {"none"} :
       /\ ends' = IF ends = "max-tokens" THEN ends ELSE result
       /\ IF ends' \in Finished /\ nextStep = <<>>
          THEN pc' = "stopping" /\ UNCHANGED <<inbox, parcel>>
          ELSE Claim("next-step")
  /\ UNCHANGED <<phase, signal, latch, stepped, frames, disposed>>

\* The step returns and step/end is logged; max-tokens is sticky.
StepReturns ==
  /\ pc = "stepping"
  /\ Quiet
  /\ signal = "none"
  /\ \E result \in Finished \union {"none"} :
       /\ ends' = IF ends = "max-tokens" THEN ends ELSE result
       /\ IF ends' \in Finished /\ nextStep = <<>>
          THEN pc' = "stopping" /\ UNCHANGED <<inbox, parcel>>
          ELSE Claim("next-step")
  /\ UNCHANGED <<phase, signal, latch, stepped, frames, disposed>>

\* The listeners of turn-stopping answer; one may have steered.
StoppingReturns ==
  /\ pc = "stopping"
  /\ Quiet
  /\ signal = "none"
  /\ IF nextStep = <<>> THEN pc' = "ended" /\ UNCHANGED <<inbox, parcel>>
     ELSE Claim("next-step")
  /\ UNCHANGED <<phase, signal, latch, ends, stepped, frames, disposed>>

\* Whatever the turn awaits throws, or the signal is seen.
TurnThrows ==
  /\ \/ pc \in {"prestep", "stepping", "stopping"}
     \/ pc = "admitted" /\ signal # "none"
  /\ EndTurn(IF signal = "none" THEN "error" ELSE "aborted")

\* Behind turn/end: another turn under a fresh controller, or out of kick.
TurnReturns ==
  /\ pc = "ended"
  /\ IF ends \in Finished /\ HasPending
     THEN /\ pc' = "again"
          /\ signal' = "none"
          /\ latch' = FALSE
          /\ stepped' = FALSE
          /\ ends' = "none"
          /\ Mark(Labelled("latched"), "waiting")
     ELSE pc' = "tail" /\ UNCHANGED <<signal, latch, stepped, ends, parcel>>
  /\ UNCHANGED <<phase, inbox, frames, disposed>>

\* Mutation: the latch is read after the phase was replaced.
ConvergeUnlatched ==
  /\ pc = "tail"
  /\ Quiet
  /\ phase' = "idle"
  /\ signal' = "none"
  /\ latch' = FALSE
  /\ pc' = "off"
  /\ retiring' = "plain"
  /\ IF ends \in {"blocked", "aborted", "error"} THEN Mark(Labelled("waiting"), "quiet")
     ELSE UNCHANGED parcel
  /\ UNCHANGED <<ends, stepped, inbox, sending, disposed>>

\* kick's finally, one job after turn() has settled: publish idle.  What a
\* blocked, aborted or failed turn left in the inbox is parked.
Converge ==
  /\ pc = "tail"
  /\ Quiet
  /\ phase' = "idle"
  /\ signal' = "none"
  /\ latch' = FALSE
  /\ pc' = "off"
  /\ retiring' = IF latch THEN "latched" ELSE "plain"
  /\ IF ends \in {"blocked", "aborted", "error"} THEN Mark(Labelled("waiting"), "quiet")
     ELSE UNCHANGED parcel
  /\ UNCHANGED <<ends, stepped, inbox, sending, disposed>>

\* Behind the publication of idle: replay the latch.  A listener may have
\* started a driver, which makes it idle, or a maintenance job, which latches.
Retire ==
  /\ retiring # "nothing"
  /\ sending = Nobody
  /\ pc \notin Sync
  /\ retiring' = "nothing"
  /\ IF phase = "idle" THEN Replay(retiring = "latched")
     ELSE /\ IF retiring = "latched" /\ HasPending /\ phase = "maintenance"
             THEN IF signal = "disposed"
                  THEN Mark(Labelled("latched"), "quiet") /\ UNCHANGED latch
                  ELSE latch' = TRUE /\ UNCHANGED parcel
             ELSE UNCHANGED <<latch, parcel>>
          /\ UNCHANGED <<phase, signal, pc, ends, stepped>>
  /\ UNCHANGED <<inbox, sending, disposed>>

DriverStep ==
  \/ Wake \/ Retire \/ MaintenanceEnds
  \/ StartTurn \/ FirstClaim
  \/ PreStepReturns \/ Reject \/ EnterEmpty \/ Enter
  \/ StepReturns \/ StoppingReturns \/ TurnThrows
  \/ TurnReturns \/ Converge

CallerStep ==
  \/ \E m \in Messages, target \in {"next-turn", "next-step"}, wakeup \in BOOLEAN :
       Send(m, target, wakeup)
  \/ \E m \in Messages : Remove(m)
  \/ \E cause \in {"user", "disposed"}, keepInbox \in BOOLEAN : Cancel(cause, keepInbox)
  \/ RunMaintenance

Next == DriverStep \/ CallerStep

\* Promise jobs run, and what the driver or a maintenance job awaits settles.
Fairness == WF_vars(DriverStep)

Spec == Init /\ [][Next]_vars /\ Fairness
-----------------------------------------------------------------------------
DriverTypeOK ==
  /\ phase \in {"idle", "maintenance", "running"}
  /\ signal \in {"none", "user", "disposed"}
  /\ latch \in BOOLEAN
  /\ pc \in Stops
  /\ ends \in Endings
  /\ stepped \in BOOLEAN
  /\ disposed \in BOOLEAN

InboxTypeOK ==
  /\ nextTurn \in Seq(Messages)
  /\ nextStep \in Seq(Messages)
  /\ parcel \in [Messages -> Parcels]

FramesTypeOK ==
  /\ sending \in {Nobody} \union [message : Messages, late : BOOLEAN]
  /\ retiring \in {"nothing", "plain", "latched"}

\* Every variable keeps its type, and a driver runs exactly in its phase.
TypeOK ==
  /\ DriverTypeOK
  /\ InboxTypeOK
  /\ FramesTypeOK
  /\ phase = "running" <=> pc # "off"

Resting == phase = "idle" /\ Quiet

\* "Waking input submitted after active cancellation ... runs when the aborted
\* activity converges to idle", and so does what was sent behind maintenance:
\* an agent at rest holds no message that was latched.
LatchedWakesRun == Resting => Labelled("latched") = {}

\* A turn that was aborted claims no message and enters no step any more.
CancelStopsTheTurn ==
  [][signal # "none" /\ signal' # "none" =>
       /\ Labelled("claimed")' = Labelled("claimed")
       /\ pc' = "stepping" => pc = "stepping"]_vars

\* The driver and the inbox implement TurnLog.
Log == INSTANCE TurnLog
  WITH open <- IF pc = "opened" THEN "nothing" ELSE IF pc \in InTurn THEN "yes" ELSE "no",
       claimed <- Labelled("claimed"),
       dropped <- Labelled("discarded")

ImplementsTurnLog == Log!TurnLogSpec
=============================================================================
