------------------------------- MODULE Console -------------------------------
(***************************************************************************)
(* The terminal of pksh: the line being typed, the log of the PS2 that is  *)
(* printed above it, and the prompt.                                       *)
(*                                                                         *)
(* pko_log_read() gathers datagrams in a static buffer until it holds a    *)
(* newline, then write_log_line() reinstalls readline's handler around the *)
(* text, which empties readline's line.  readline and the sockets are      *)
(* external.                                                               *)
(***************************************************************************)
EXTENDS CmdArgs

CONSTANTS
    N,             \* sizeof(buf) in pko_log_read: 1024 in the code
    LineBuf,       \* sizeof(line_buf) in rl_common.c: 256 in the code
    MaxArgv,       \* MAX_ARGV: 256 in the code
    MaxLine,       \* bound on the characters typed for a line
    MaxText,       \* bound on the characters of the log
    MaxBoth,       \* bound on the two together
    MaxGram,       \* bound on the characters of a datagram
    Failures       \* bound on the calls of pko_log_read() that fail

ASSUME ConsoleConstants ==
    /\ N \in Nat /\ N >= 2 /\ LineBuf \in Nat \ {0} /\ MaxArgv \in Nat \ {0}
    /\ MaxLine \in Nat /\ MaxText \in Nat /\ MaxBoth \in Nat /\ MaxGram \in Nat
    /\ Failures \in Nat

NL == 0            \* the newline; the text of the log is numbered 1, 2, ...
Percent == -1      \* '%' in it
Garbled == -2      \* what printf() makes of a conversion without an argument

VARIABLES
    pc,            \* "run", or "undefined"
    buf, loc,      \* of pko_log_read: the string in the buffer, and loc
    log_to_file,
    line,          \* rl_line_buffer
    typed,         \* what was typed since the last line ended
    cleared,       \* write_log_line() ran meanwhile
    done,          \* the line that was executed in this step
    got,           \* the log's text as recvfrom() stored it
    shown,         \* what was written of it, and where
    failed         \* recvfrom() and write() calls that have failed, or fallen
                   \* short

log  == <<buf, loc, log_to_file, got, shown, failed>>
edit == <<line, typed, cleared, done>>
vars == <<pc, log, edit>>

NotDone == [line |-> <<>>, typed |-> <<>>, cleared |-> FALSE]

Init ==
    /\ pc = "run" /\ buf = <<>> /\ loc = 0 /\ log_to_file \in BOOLEAN
    /\ line = <<>> /\ typed = <<>> /\ cleared = FALSE
    /\ done = NotDone /\ got = <<>> /\ shown = <<>> /\ failed = 0

-----------------------------------------------------------------------------
(* The line.                                                               *)

Characters == {"c", Blank, Tab, Colon}

Type(c) ==
    /\ pc = "run" /\ Len(typed) < MaxLine /\ Len(typed) + Len(got) < MaxBoth
    /\ line' = Append(line, c) /\ typed' = Append(typed, c)
    /\ done' = NotDone
    /\ UNCHANGED <<pc, log, cleared>>

\* Installing the handler empties rl_line_buffer.  Copying it to line_buf
\* first is undefined when it does not fit.  (The prompt is in PkshLoop.)
Fits == Len(line) < LineBuf

\* Mutant: the line is not put back.
M_PutBack(s) == <<>>

PutBack(s) == s             \* rl_insert_text(line_buf)

change_prompt ==
    /\ pc = "run" /\ done' = NotDone
    /\ IF Fits THEN pc' = pc /\ line' = PutBack(line)
       ELSE pc' = "undefined" /\ UNCHANGED line
    /\ UNCHANGED <<log, typed, cleared>>

\* cli_handler() executes a line that is not empty; it may be a log command.
Enter ==
    /\ pc = "run"
    /\ done' = [line |-> line, typed |-> typed, cleared |-> cleared]
    /\ line' = <<>> /\ typed' = <<>> /\ cleared' = FALSE
    /\ log_to_file' \in IF line = <<>> THEN {log_to_file} ELSE BOOLEAN
    /\ UNCHANGED <<pc, buf, loc, got, shown, failed>>

-----------------------------------------------------------------------------
(* The log.                                                                *)

Entries(s, to) == [k \in 1..Len(s) |-> [c |-> s[k], to |-> to]]

\* Mutant: loc is kept after the buffer was written to the file.
M_AfterFile(l) == l

AfterFile(l) == 0

\* Mutant: the test for a full buffer is off by one.
M_Full(l) == l > N - 1

Full(l) == l = N - 1        \* sizeof(buf) - loc - 1 is unsigned

\* A line that does not end in a newline gets one, over its last character.
Ended(s) == [s EXCEPT ![Len(s)] = NL]

\* The text is printf()'s format: nothing is sure from its first '%' on.
Printed(s) ==
    [k \in 1..Len(s) |-> IF \E j \in 1..k : s[j] = Percent THEN Garbled ELSE s[k]]

\* write_log_line() prints the text in place of the line being typed; a
\* conversion may make printf() read, or write, where nothing is.
write_log_line(s) ==
    /\ shown' = shown \o Entries(Printed(s), "tty")
    /\ IF Fits THEN /\ pc' = pc \/ (pc' = "undefined" /\ \E k \in 1..Len(s) : s[k] = Percent)
                    /\ line' = <<>> /\ cleared' = (cleared \/ line # <<>>)
       ELSE pc' = "undefined" /\ UNCHANGED <<line, cleared>>

\* The result of write() to the log file is ignored; it may take any part.
WriteLog(s, f) ==
    \/ shown' = shown \o Entries(s, "file") /\ failed' = f
    \/ /\ f < Failures /\ failed' = f + 1
       /\ \E n \in 0..Len(s) - 1 : shown' = shown \o Entries(SubSeq(s, 1, n), "file")

\* What pko_log_read() does once recvfrom() has returned: s is the string in
\* the buffer, l the new loc, f the calls that have failed.
Received(s, l, f) ==
    /\ buf' = s /\ done' = NotDone
    /\ IF log_to_file
       THEN /\ WriteLog(s, f) /\ loc' = AfterFile(l)
            /\ UNCHANGED <<pc, line, cleared>>
       ELSE /\ failed' = f
            /\ IF (\E k \in 1..Len(s) : s[k] = NL) \/ Full(l)
               THEN write_log_line(Ended(s)) /\ loc' = 0
               ELSE loc' = l /\ UNCHANGED <<shown, pc, line, cleared>>
    /\ UNCHANGED <<log_to_file, typed>>

Kept == IF loc = 0 THEN <<>> ELSE buf       \* memset() when loc is 0

Room == N - loc - 1

\* What is stored of a datagram of n characters after g: nls are the places of
\* its newlines, ps those of its '%'.
Gram(g, n, nls, ps) ==
    [k \in 1..n |-> IF k \in nls THEN NL ELSE IF k \in ps THEN Percent ELSE Len(g) + k]

\* recvfrom() stores as much of the datagram as there is room for.
pko_log_read ==
    /\ pc = "run" /\ loc >= 0
    /\ \E n \in 1..MaxGram :
       LET m == IF n < Room THEN n ELSE Room
       IN /\ Len(got) + n <= MaxText /\ Len(typed) + Len(got) + n <= MaxBoth
          /\ \E nls, ps \in SUBSET (1..m) :
             LET d == Gram(got, m, nls, ps \ nls)
             IN /\ got' = got \o d
                /\ Received(SubSeq(Kept, 1, loc) \o d \o From(Kept, loc + m + 1), loc + m, failed)

\* A call that fails takes one from loc, and does so again.
RecvError ==
    /\ pc = "run" /\ failed < Failures
    /\ Received(Kept, loc - 1, failed + 1) /\ UNCHANGED got

\* The next datagram is stored from the byte before the buffer.
StoreBefore ==
    /\ pc = "run" /\ loc < 0 /\ pc' = "undefined"
    /\ UNCHANGED <<log, edit>>

-----------------------------------------------------------------------------
Next ==
    \/ \E c \in Characters : Type(c)
    \/ change_prompt \/ Enter \/ pko_log_read \/ RecvError \/ StoreBefore

Spec == Init /\ [][Next]_vars

-----------------------------------------------------------------------------
(* Properties.                                                             *)

\* Every variable is in its range.  recvfrom() of pko_log_read() always has room
\* for a character (loc <= N-2), so that no datagram is taken and thrown away
\* whole; each call that failed may leave loc one further before the buffer.
TypeOK ==
    /\ pc \in {"run", "undefined"} /\ Len(buf) <= N - 1
    /\ failed \in Nat /\ loc \in -failed..N-2
    /\ log_to_file \in BOOLEAN /\ cleared \in BOOLEAN
    /\ \A s \in {line, typed, done.line, done.typed} :
         Len(s) <= MaxLine /\ \A k \in 1..Len(s) : s[k] \in Characters
    /\ got \in Seq(Percent..MaxText) /\ Len(got) <= MaxText
    /\ \A k \in 1..Len(shown) :
         shown[k] \in [c : Garbled..MaxText, to : {"tty", "file"}]

\* Until a call fails pko_log_read() writes what it received once and in order,
\* whatever datagrams it is split into and however often the log is switched
\* between file and terminal with a line unfinished.  On the terminal the last
\* character before a prompt may be replaced, by a newline, and what follows a
\* '%' up to the prompt be anything; the log file gets every character.
LogInOrder ==
    failed = 0 =>
        /\ Len(got) = Len(shown) + loc
        /\ \A k \in 1..Len(shown) :
             \/ shown[k].c = got[k]
             \/ shown[k] = [c |-> NL, to |-> "tty"]
             \/ \E j \in 1..k :
                   got[j] = Percent /\ \A i \in j..k : shown[i] = [c |-> Garbled, to |-> "tty"]
        /\ SubSeq(buf, 1, loc) = From(got, Len(shown) + 1)
        /\ shown # <<>> /\ shown[Len(shown)].to = "tty" => shown[Len(shown)].c \in {NL, Garbled}

\* What cli_handler() executes is the end of what was typed, and all of it
\* unless write_log_line() took the line away meanwhile; a change of the
\* prompt does not.
WholeLine ==
    /\ IsSuffix(done.line, done.typed)
    /\ ~done.cleared => done.line = done.typed

\* execute_line() gives a command its arguments without leading blanks, and
\* build_argv() and trim() find the words in them.  fix_cmd_arg() finds as many,
\* each with nothing but blanks in front of it, and none of those where no two
\* blanks follow each other; it prepends "host:" to what, with its blanks, is the
\* name of a file.
ArgsFound ==
    LET arg == split(done.line).arg
        words == Words(arg)
        argv == build_argv(arg, MaxArgv)
        fixed == fix_cmd_arg(arg)
    IN /\ Words(Blanked(done.line)) # <<>> =>
            Words(Blanked(done.line)) = <<split(done.line).word>> \o Words(Blanked(arg))
       /\ Len(words) <= MaxArgv =>
            argv.argv = words /\ argv.argc = Len(argv.argv)
       /\ Len(fixed) = Len(words)
       /\ \A k \in 1..Len(words) :
            \E n \in 0..Len(arg) :
               fixed[k] = Hosted(Behind(n, words[k])) /\ (n > 0 => DoubleBlank(arg))
       /\ ~EndsInBlank(trim(arg)) /\ Words(trim(arg)) = words
=============================================================================
