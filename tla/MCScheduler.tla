---------------------------- MODULE MCScheduler ----------------------------
(* Instances of Scheduler for TLC. *)
EXTENDS SchedulerProperties, TLC

CONSTANTS j1, r1, r2

MCInterval == [j \in Jobs |-> 2]

\* Runners are alike.
Alike == Permutations(Runners)

=============================================================================
