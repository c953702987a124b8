--------------------------- MODULE MC_DevicePages ---------------------------
(* Instances of the device pages for TLC. *)
EXTENDS DevicePages, TLC

Symmetric == Permutations(Pages) \cup Permutations(Slots)

=============================================================================
