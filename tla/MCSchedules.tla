---------------------------- MODULE MCSchedules -----------------------------
(* The clock of replica n2 is one tick behind.                             *)
EXTENDS Schedules

CONSTANT n2

MCBehind == [n \in Replica |-> IF n = n2 THEN 1 ELSE 0]

=============================================================================
