----------------------------- MODULE DurableLog -----------------------------
(***************************************************************************)
(* What session persistence promises about one live session: the stored    *)
(* log is at every moment a prefix of the events the session appended, it  *)
(* only grows, and a flush that fulfilled is covered by it.                *)
(***************************************************************************)
EXTENDS Naturals, Sequences

VARIABLES
  appended,      \* how many events the session holds; an event is its seq
  stored,        \* the durable log
  acknowledged   \* how many events some fulfilled flush has promised

\* The events numbered a to b - 1.
Events(a, b) == [i \in 1..(b - a) |-> a + i - 1]

DurableLogInit ==
  /\ appended \in Nat
  /\ \E k \in 0..appended : stored = Events(0, k)
  /\ acknowledged = 0

AppendEvent ==
  /\ appended' = appended + 1
  /\ UNCHANGED <<stored, acknowledged>>

Store ==
  /\ \E k \in (Len(stored) + 1)..appended : stored' = Events(0, k)
  /\ UNCHANGED <<appended, acknowledged>>

Acknowledge ==
  /\ acknowledged' \in acknowledged..Len(stored)
  /\ UNCHANGED <<appended, stored>>

DurableLogNext == AppendEvent \/ Store \/ Acknowledge

DurableLogSpec ==
  DurableLogInit /\ [][DurableLogNext]_<<appended, stored, acknowledged>>
=============================================================================
