---------------------------- MODULE MCFileService ----------------------------
(* Small instances of FileService for TLC. *)
EXTENDS FileService

=============================================================================
