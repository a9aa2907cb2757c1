----------------------------- MODULE MCConsole -----------------------------
(* A small instance of Console for TLC. *)
EXTENDS Console

\* The regular files: one by its name, one whose name has a blank in front, and
\* one whose name looks like a device.
SomeFiles == {<<"c">>, <<Blank, "c">>, <<"c", Colon>>}

=============================================================================
