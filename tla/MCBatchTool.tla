----------------------------- MODULE MCBatchTool -----------------------------
(* Small instances of BatchTool for TLC. *)
EXTENDS BatchTool

=============================================================================
