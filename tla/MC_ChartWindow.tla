--------------------------- MODULE MC_ChartWindow ---------------------------
(* Instances of the traffic chart for TLC. *)
EXTENDS ChartWindow

=============================================================================
