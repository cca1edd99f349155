---------------------------- MODULE MCScheduler ----------------------------
(* Instances of Scheduler for TLC. *)
EXTENDS Scheduler, TLC

CONSTANTS j1, j2, c1, c2, c3

TwoRetries    == [j \in Jobs |-> 2]
FirstRetries  == [j \in Jobs |-> IF j = j1 THEN 1 ELSE 0]

\* Jobs and calls are interchangeable in Init, Next and the invariants.
Symmetry == Permutations(Jobs) \cup Permutations(Calls)

=============================================================================
