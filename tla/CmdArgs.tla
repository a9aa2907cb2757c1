------------------------------- MODULE CmdArgs -------------------------------
(***************************************************************************)
(* How a line becomes arguments: the string helpers of common.c and the    *)
(* split in execute_line().                                                *)
(*                                                                         *)
(* A string is a sequence of characters of which the code tells blanks,    *)
(* tabs and colons from others; positions count from 1.                    *)
(***************************************************************************)
EXTENDS Integers, Sequences, FiniteSets, SequencesExt

CONSTANT Files      \* the strings that is_file() finds to be regular files

Blank == " "
Tab   == "\t"
Colon == ":"
Host  == "host:"    \* the five characters, as one

\* The ends of the loops over blanks and over a word: the first position at
\* or after p that is not of the kind skipped, or the terminator.
Stop(s, p, Is(_)) ==
    CHOOSE q \in p..Len(s)+1 :
        /\ \A k \in p..q-1 : ~Is(s[k])
        /\ q <= Len(s) => Is(s[q])

EndOfWord(s, p) == Stop(s, p, LAMBDA c : c = Blank)
NextWord(s, p)  == Stop(s, p, LAMBDA c : c # Blank)

From(s, p) == SubSeq(s, p, Len(s))

-----------------------------------------------------------------------------
(* The code.                                                               *)

\* readline's whitespace() takes a tab for a blank; the helpers do not.
Blanked(s) == [k \in 1..Len(s) |-> IF s[k] = Tab THEN Blank ELSE s[k]]

\* execute_line(): the command's name, and what follows the blanks after it.
split(line) ==
    LET s == Blanked(line)
        b == NextWord(s, 1)
        e == EndOfWord(s, b)
    IN [word |-> SubSeq(line, b, e - 1), arg |-> From(line, NextWord(s, e))]

\* The loops over the words of a string: where turn n begins.  The first begins
\* at the start, every other after the blanks behind the word before.
Turn(s) ==
    LET at[n \in Nat] == IF n <= 1 THEN 1 ELSE NextWord(s, EndOfWord(s, at[n - 1]))
    IN at

\* How many of the first max turns find the string not at its end.
Turns(s, max) == Cardinality({n \in 1..max : Turn(s)[n] <= Len(s)})

\* Mutant: the blank itself starts the next argument.
M_NextStart(e) == e

\* The next argument starts right after the blank that ended this one (ai),
\* however many blanks are skipped (pi).
NextStart(e) == e + 1

arg_device_check(arg) == \E k \in 1..Len(arg) : arg[k] = Colon

\* A regular file is named to the PS2 as one of the host, unless the name has a
\* device.
Hosted(arg) ==
    IF arg \in Files /\ ~arg_device_check(arg) THEN <<Host>> \o arg ELSE arg

fix_cmd_arg(cmd) ==
    LET pi == Turn(cmd)
        end(n) == EndOfWord(cmd, pi[n])
        ai(n) == IF n = 1 THEN 1 ELSE NextStart(end(n - 1))
    IN [n \in 1..Turns(cmd, Len(cmd)) |-> Hosted(SubSeq(cmd, ai(n), end(n) - 1))]

\* With every one of the max entries used and words left, the count returned
\* is one more than the entries.
build_argv(arg, max) ==
    LET aptr == Turn(arg)
        i == Turns(arg, max)
    IN [argv |-> [n \in 1..i |-> SubSeq(arg, aptr[n], EndOfWord(arg, aptr[n]) - 1)],
        argc |-> IF aptr[i + 1] <= Len(arg) THEN i + 1 ELSE i]

\* What a caller sees that ignores the pointer returned: the terminator is put
\* where the last word ends, counted from the end of the leading blanks.
trim(s) ==
    LET lead == NextWord(s, 1) - 1
        last == Len(s) - (NextWord(Reverse(s), 1) - 1)
    IN SubSeq(s, 1, Min({lead + last, Len(s)}))

-----------------------------------------------------------------------------
(* What they are to compute.                                               *)

IsWord(s, i, j) ==
    /\ i <= j /\ \A k \in i..j : s[k] # Blank
    /\ (i > 1 => s[i-1] = Blank) /\ (j < Len(s) => s[j+1] = Blank)

\* Where the words of a string begin, and the one that begins at i.
Begins(s) == {i \in 1..Len(s) : \E j \in i..Len(s) : IsWord(s, i, j)}

WordFrom(s, i) == SubSeq(s, i, CHOOSE j \in i..Len(s) : IsWord(s, i, j))

\* The words of a string, its longest runs without a blank: the n-th is the one
\* with n words up to it.
Words(s) ==
    [n \in 1..Cardinality(Begins(s)) |->
        WordFrom(s, CHOOSE i \in Begins(s) : Cardinality({k \in Begins(s) : k <= i}) = n)]

\* The word w behind n blanks.
Behind(n, w) == [k \in 1..n + Len(w) |-> IF k <= n THEN Blank ELSE w[k - n]]

DoubleBlank(s) == \E k \in 1..Len(s)-1 : s[k] = Blank /\ s[k+1] = Blank

EndsInBlank(s) == s # <<>> /\ s[Len(s)] = Blank
=============================================================================
