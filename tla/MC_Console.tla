---------------------------- MODULE MC_Console ----------------------------
(* Instances of the web page and the API keys for TLC. *)
EXTENDS Console

=============================================================================
