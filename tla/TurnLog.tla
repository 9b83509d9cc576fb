------------------------------ MODULE TurnLog ------------------------------
(***************************************************************************)
(* What an agent promises about its input: messages wait in two lists; a   *)
(* turn opens only when none is open; while it is open, and only then,     *)
(* boundaries claim what is steered, the first of them also the oldest     *)
(* ordinary message, so that each is "the sole ordinary message of its own *)
(* turn"; a message leaves its list once, claimed or dropped.              *)
(***************************************************************************)
EXTENDS Naturals, Sequences

CONSTANT Messages

VARIABLES
  nextTurn, nextStep,   \* the lists
  open,                 \* "no" turn, one that has claimed "nothing" yet, or "yes"
  claimed, dropped      \* messages that left their list

Listed(list) == {list[i] : i \in DOMAIN list}
Without(list, i) == SubSeq(list, 1, i - 1) \o SubSeq(list, i + 1, Len(list))
Fresh(m) == m \notin Listed(nextTurn) \union Listed(nextStep) \union claimed \union dropped

TurnLogInit ==
  /\ nextTurn = <<>>
  /\ nextStep = <<>>
  /\ open = "no"
  /\ claimed = {}
  /\ dropped = {}

Insert(m) ==
  /\ Fresh(m)
  /\ \/ nextTurn' = Append(nextTurn, m) /\ UNCHANGED nextStep
     \/ nextStep' = Append(nextStep, m) /\ UNCHANGED nextTurn
  /\ UNCHANGED <<open, claimed, dropped>>

Drop(m) ==
  /\ \/ \E i \in DOMAIN nextTurn :
          nextTurn[i] = m /\ nextTurn' = Without(nextTurn, i) /\ UNCHANGED nextStep
     \/ \E i \in DOMAIN nextStep :
          nextStep[i] = m /\ nextStep' = Without(nextStep, i) /\ UNCHANGED nextTurn
  /\ dropped' = dropped \union {m}
  /\ UNCHANGED <<open, claimed>>

DropAll ==
  /\ nextTurn' = <<>>
  /\ nextStep' = <<>>
  /\ dropped' = dropped \union Listed(nextTurn) \union Listed(nextStep)
  /\ UNCHANGED <<open, claimed>>

OpenTurn ==
  /\ open = "no"
  /\ open' = "nothing"
  /\ UNCHANGED <<nextTurn, nextStep, claimed, dropped>>

Take(ordinary) ==
  /\ open' = "yes"
  /\ nextTurn' = SubSeq(nextTurn, Len(ordinary) + 1, Len(nextTurn))
  /\ nextStep' = <<>>
  /\ claimed' = claimed \union Listed(nextStep) \union Listed(ordinary)
  /\ UNCHANGED dropped

TakeFirst == open = "nothing" /\ Take(IF nextTurn = <<>> THEN <<>> ELSE <<Head(nextTurn)>>)
TakeLater == open = "yes" /\ Take(<<>>)

CloseTurn ==
  /\ open # "no"
  /\ open' = "no"
  /\ UNCHANGED <<nextTurn, nextStep, claimed, dropped>>

TurnLogNext ==
  \/ \E m \in Messages : Insert(m) \/ Drop(m)
  \/ DropAll \/ OpenTurn \/ TakeFirst \/ TakeLater \/ CloseTurn

TurnLogSpec ==
  TurnLogInit /\ [][TurnLogNext]_<<nextTurn, nextStep, open, claimed, dropped>>
=============================================================================
