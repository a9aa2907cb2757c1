------------------------------- MODULE FileRpc -------------------------------
(***************************************************************************)
(* What pksh promises ps2link about host: files, without the wire: while   *)
(* the link is up every call is carried out once, in one step, and its     *)
(* answer tells what was done.  When the link is lost the call in flight   *)
(* is forgotten; it may still be carried out once, unanswered and, if it   *)
(* was lost half-way, with the wrong arguments.                            *)
(***************************************************************************)
EXTENDS Integers, Sequences

CONSTANTS Handles,   \* file descriptors a host: file may get
          Dirs,      \* directory handles
          MaxBytes   \* the most a call reads or writes

VARIABLES call,      \* the call ps2link has made, or NoCall
          answer,    \* the answer on its way to ps2link, or NoAnswer
          open,      \* the files and directories open for it
          stored,    \* the data of the call that reached the file
          up,        \* the link is up
          owed       \* it is down, and the lost call may still be carried out

vars == <<call, answer, open, stored, up, owed>>

Ops == {"open", "close", "read", "write", "lseek", "dopen", "dread", "dclose"}

NoCall == [op |-> "none", h |-> -1, n |-> 0]
NoAnswer == [op |-> "none", r |-> -1]

Calls == [op : Ops, h : Handles \cup Dirs \cup {-1}, n : 0..MaxBytes]

\* The data of a write, in the order it was sent.
Units(n) == [k \in 1..n |-> k]

Init ==
    /\ call = NoCall /\ answer = NoAnswer
    /\ open = {} /\ stored = <<>> /\ up = TRUE /\ owed = FALSE

Make ==
    /\ up /\ call = NoCall
    /\ call' \in Calls
    /\ stored' = <<>>
    /\ UNCHANGED <<answer, open, up, owed>>

\* What a call may do to the open files and the data, with result r.
Effect(c, r) ==
    CASE c.op = "open" ->
            /\ r \in (Handles \ open) \cup {-1}
            /\ open' = open \cup ({r} \ {-1}) /\ stored' = stored
      [] c.op = "dopen" ->
            /\ r \in Dirs \ open
            /\ open' = open \cup {r} /\ stored' = stored
      [] c.op \in {"close", "dclose"} ->
            /\ r = 0 /\ open' = open \ {c.h} /\ stored' = stored
      [] c.op = "write" ->
            /\ r \in 0..c.n /\ stored' = Units(r) /\ open' = open
      [] c.op = "read" ->
            /\ r \in -1..c.n /\ UNCHANGED <<open, stored>>
      [] OTHER ->
            /\ r \in {-1, 0, 1} /\ UNCHANGED <<open, stored>>

Serve ==
    /\ up /\ call # NoCall /\ answer = NoAnswer
    /\ answer' \in [op : {call.op}, r : -1..MaxBytes \cup Handles \cup Dirs]
    /\ Effect(call, answer'.r)
    /\ UNCHANGED <<call, up, owed>>

Take ==
    /\ up /\ answer # NoAnswer
    /\ call' = NoCall /\ answer' = NoAnswer
    /\ UNCHANGED <<open, stored, up, owed>>

Lose ==
    /\ up /\ up' = FALSE
    /\ owed' \in IF call # NoCall /\ answer = NoAnswer THEN BOOLEAN ELSE {FALSE}
    /\ call' = NoCall /\ answer' = NoAnswer
    /\ UNCHANGED <<open, stored>>

\* The call that was in flight, carried out after the link was lost: it opens
\* or closes one handle, which need not be its own, or stores data.
Orphan ==
    /\ owed /\ owed' = FALSE
    /\ \/ \E h \in Handles \cup Dirs : open' \in {open \cup {h}, open \ {h}}
       \/ open' = open
    /\ stored' \in {Units(k) : k \in 0..MaxBytes}
    /\ UNCHANGED <<call, answer, up>>

Restore ==
    /\ ~up /\ ~owed /\ up' = TRUE
    /\ UNCHANGED <<call, answer, open, stored, owed>>

Next == Make \/ Serve \/ Take \/ Lose \/ Orphan \/ Restore

Spec == Init /\ [][Next]_vars

=============================================================================
