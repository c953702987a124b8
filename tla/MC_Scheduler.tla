---------------------------- MODULE MC_Scheduler ----------------------------
(* Instances of the scheduler for TLC. *)
EXTENDS Scheduler

=============================================================================
