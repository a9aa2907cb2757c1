------------------------------- MODULE MCNetFs -------------------------------
(* Small instances of NetFs for TLC. *)
EXTENDS NetFs

=============================================================================
