----------------------------- MODULE DurableLog -----------------------------
(***************************************************************************)
(* What a session file promises its one writer: the log only grows at its  *)
(* end, everything up to the newest acknowledged operation is there for    *)
(* good, and a crash loses no more than a suffix nobody was told of.       *)
(***************************************************************************)
EXTENDS Naturals, Sequences

CONSTANT Ops

VARIABLES
  log,     \* the operations a load would restore, oldest first
  acked    \* how many of them are covered by an acknowledgement

vars == <<log, acked>>

Init == log = <<>> /\ acked = 0

Write(op) == log' = Append(log, op) /\ UNCHANGED acked

\* Acknowledging an operation covers all that precede it in the log.
Acknowledge ==
  /\ acked' \in (acked + 1)..Len(log)
  /\ UNCHANGED log

\* A crash loses some of the operations past the acknowledged ones.
Lose ==
  /\ \E n \in acked..Len(log) : log' = SubSeq(log, 1, n)
  /\ UNCHANGED acked

Next == (\E op \in Ops : Write(op)) \/ Acknowledge \/ Lose

Spec == Init /\ [][Next]_vars
=============================================================================
