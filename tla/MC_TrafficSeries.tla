-------------------------- MODULE MC_TrafficSeries --------------------------
(* Instances of the traffic samples for TLC. *)
EXTENDS TrafficSeries, TLC

\* The HC counter is cleared, the other one about to wrap.
Starts == [wide \in BOOLEAN |-> IF wide THEN {0} ELSE {Narrow - 2}]

Symmetric == Permutations(Pollers)

=============================================================================
