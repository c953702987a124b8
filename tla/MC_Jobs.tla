------------------------------- MODULE MC_Jobs -------------------------------
(* Instances of the jobs for TLC. *)
EXTENDS Jobs, TLC

Symmetric == Permutations(Requests)

=============================================================================
