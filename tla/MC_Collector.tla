---------------------------- MODULE MC_Collector ----------------------------
(* Instances of the collector for TLC. *)
EXTENDS Collector, TLC

\* Scheduler threads, HTTP threads and interface indexes are interchangeable.
Symmetric == Permutations(Ticks) \cup Permutations(Requests) \cup Permutations(IfIndexes)

=============================================================================
