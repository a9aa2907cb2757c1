------------------------------- MODULE MCNpsh -------------------------------
(* Small instances of Npsh for TLC. *)
EXTENDS Npsh

=============================================================================
