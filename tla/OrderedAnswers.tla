--------------------------- MODULE OrderedAnswers ---------------------------
(***************************************************************************)
(* What a step promises about the tool calls of one assistant message: the *)
(* log receives the calls and their results in model order, each at most   *)
(* once and no result before its call; a step that completes or is aborted *)
(* has answered every call, and an abort fabricates results only for calls *)
(* that were never started.                                                *)
(***************************************************************************)
EXTENDS Naturals, Sequences

CONSTANT N   \* how many calls the message holds, numbered in model order

VARIABLES calls, results, outcome

UpTo(k) == [i \in 1..k |-> i]

OrderedAnswersInit ==
  /\ calls = <<>>
  /\ results = <<>>
  /\ outcome = "open"

Issue ==
  /\ outcome = "open"
  /\ Len(calls) < N
  /\ calls' = Append(calls, Len(calls) + 1)
  /\ UNCHANGED <<results, outcome>>

Answer ==
  /\ outcome = "open"
  /\ Len(results) < Len(calls)
  /\ results' = Append(results, Len(results) + 1)
  /\ UNCHANGED <<calls, outcome>>

Complete ==
  /\ outcome = "open"
  /\ Len(results) = N
  /\ outcome' = "done"
  /\ UNCHANGED <<calls, results>>

Abandon ==
  /\ outcome = "open"
  /\ results = calls
  /\ outcome' = "aborted"
  /\ calls' = UpTo(N)
  /\ results' = UpTo(N)

Fail ==
  /\ outcome = "open"
  /\ outcome' = "failed"
  /\ UNCHANGED <<calls, results>>

OrderedAnswersNext == Issue \/ Answer \/ Complete \/ Abandon \/ Fail

OrderedAnswersSpec ==
  OrderedAnswersInit /\ [][OrderedAnswersNext]_<<calls, results, outcome>>
=============================================================================
