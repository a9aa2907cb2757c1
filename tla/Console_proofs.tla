--------------------------- MODULE Console_proofs ---------------------------
(***************************************************************************)
(* Proofs about Console: the log is written once and in order, and a line  *)
(* that is executed was typed.  They hold for any size of the buffers, any *)
(* text and any way it is cut into datagrams.                              *)
(***************************************************************************)
EXTENDS Console, CmdArgs_proofs

Codes == Percent..MaxText
Text  == Seq(Codes)
Signs == Garbled..MaxText
Entry == [c : Signs, to : {"tty", "file"}]

\* s is the end of t, place by place.
EndOf(s, t) ==
    /\ Len(s) <= Len(t)
    /\ \A k \in 1..Len(s) : s[k] = t[Len(t) - Len(s) + k]

EditInv ==
    /\ line \in Seq(Characters) /\ typed \in Seq(Characters) /\ Len(typed) <= MaxLine
    /\ EndOf(line, typed) /\ (~cleared => line = typed)
    /\ done \in [line : Seq(Characters), typed : Seq(Characters), cleared : BOOLEAN]
    /\ Len(done.typed) <= MaxLine
    /\ EndOf(done.line, done.typed) /\ (~done.cleared => done.line = done.typed)

BoolInv == log_to_file \in BOOLEAN /\ cleared \in BOOLEAN

\* pko_log_read()'s buffer and its index.
LogInv ==
    /\ pc \in {"run", "undefined"}
    /\ buf \in Text /\ Len(buf) <= N - 1
    /\ failed \in Nat /\ loc \in -failed..N-2 /\ loc <= Len(buf)
    /\ got \in Text /\ Len(got) <= MaxText /\ shown \in Seq(Entry)

\* Where sh differs from the text g it is a newline on the terminal, or what a
\* '%' left of it there.
Faithful(sh, g) ==
    \A k \in 1..Len(sh) :
        \/ sh[k].c = g[k]
        \/ sh[k] = [c |-> NL, to |-> "tty"]
        \/ \E j \in 1..k :
              g[j] = Percent /\ \A i \in j..k : sh[i] = [c |-> Garbled, to |-> "tty"]

\* Until a call fails the buffer holds the text that was received and not yet
\* written, and nothing else.
OrderInv ==
    failed = 0 =>
        /\ Len(got) = Len(shown) + loc /\ (loc > 0 => Len(buf) = loc)
        /\ \A k \in 1..loc : buf[k] = got[Len(shown) + k]
        /\ Faithful(shown, got)
        /\ shown # <<>> /\ shown[Len(shown)].to = "tty" => shown[Len(shown)].c \in {NL, Garbled}

IndInv == BoolInv /\ EditInv /\ LogInv /\ OrderInv

-----------------------------------------------------------------------------
(* Sequences.                                                              *)

\* The library's suffix, place by place.
LEMMA SuffixFacts ==
    ASSUME NEW S, NEW s \in Seq(S), NEW t \in Seq(S), EndOf(s, t)
    PROVE  IsSuffix(s, t)
<1>1. /\ Reverse(s) = [k \in 1..Len(s) |-> s[(Len(s) - k) + 1]]
      /\ Reverse(t) = [k \in 1..Len(t) |-> t[(Len(t) - k) + 1]]
  BY DEF Reverse
<1>2. Len(Reverse(s)) = Len(s) /\ Len(Reverse(t)) = Len(t)
  BY <1>1
<1>3. \A k \in 1..Len(s) : Reverse(s)[k] = Reverse(t)[k]
  <2> TAKE k \in 1..Len(s)
  <2>1. (Len(s) - k) + 1 \in 1..Len(s)
    OBVIOUS
  <2>2. s[(Len(s) - k) + 1] = t[Len(t) - Len(s) + ((Len(s) - k) + 1)]
    BY <2>1 DEF EndOf
  <2>3. Len(t) - Len(s) + ((Len(s) - k) + 1) = (Len(t) - k) + 1 /\ k \in 1..Len(t)
    BY DEF EndOf
  <2> QED BY <1>1, <2>2, <2>3
<1> QED BY <1>1, <1>2, <1>3 DEF IsSuffix, IsPrefix, EndOf

LEMMA EntriesFacts ==
    ASSUME NEW s \in Seq(Signs), NEW to \in {"tty", "file"}
    PROVE  /\ Entries(s, to) \in Seq(Entry) /\ Len(Entries(s, to)) = Len(s)
           /\ \A k \in 1..Len(s) : Entries(s, to)[k] = [c |-> s[k], to |-> to]
<1>1. \A k \in 1..Len(s) : s[k] \in Signs
  BY ElementOfSeq
<1>2. \A k \in 1..Len(s) : [c |-> s[k], to |-> to] \in Entry
  BY <1>1 DEF Entry
<1>3. Len(s) \in Nat
  OBVIOUS
<1> QED BY <1>2, <1>3 DEF Entries

\* What is received can be shown.
LEMMA TextSigns ==
    ASSUME NEW s \in Text
    PROVE  s \in Seq(Signs)
<1>1. \A k \in 1..Len(s) : s[k] \in Signs
  <2>1. \A k \in 1..Len(s) : s[k] \in Codes
    BY ElementOfSeq DEF Text
  <2> QED BY <2>1, ConsoleConstants DEF Codes, Signs, Percent, Garbled
<1>2. Len(s) \in Nat /\ s = [k \in 1..Len(s) |-> s[k]]
  BY LenProperties DEF Text
<1> QED BY <1>1, <1>2, IsASeq

LEMMA EndedFacts ==
    ASSUME NEW s \in Text, s # <<>>
    PROVE  /\ Ended(s) \in Text /\ Len(Ended(s)) = Len(s)
           /\ \A k \in 1..Len(s) : Ended(s)[k] = IF k = Len(s) THEN NL ELSE s[k]
<1>1. NL \in Codes
  BY ConsoleConstants DEF NL, Codes, Percent
<1>2. Len(s) \in 1..Len(s)
  BY EmptySeq DEF Text
<1> QED BY <1>1, <1>2, ExceptSeq DEF Ended, Text

\* Whether printf() has come to a '%'.
Spoilt(s, k) == \E j \in 1..k : s[j] = Percent

LEMMA PrintedFacts ==
    ASSUME NEW s \in Text
    PROVE  /\ Printed(s) \in Seq(Signs) /\ Len(Printed(s)) = Len(s)
           /\ \A k \in 1..Len(s) : Printed(s)[k] = IF Spoilt(s, k) THEN Garbled ELSE s[k]
<1> DEFINE F(k) == IF Spoilt(s, k) THEN Garbled ELSE s[k]
<1>1. Printed(s) = [k \in 1..Len(s) |-> F(k)]
  BY DEF Printed, Spoilt
<1>2. \A k \in 1..Len(s) : F(k) \in Signs
  <2>1. Garbled \in Signs
    BY ConsoleConstants DEF Signs, Garbled
  <2>2. \A k \in 1..Len(s) : s[k] \in Signs
    BY TextSigns, ElementOfSeq
  <2> QED BY <2>1, <2>2
<1>3. Len(s) \in Nat
  BY LenProperties DEF Text
<1> HIDE DEF F
<1>4. /\ Printed(s) \in Seq(Signs) /\ Len(Printed(s)) = Len(s)
      /\ \A k \in 1..Len(s) : Printed(s)[k] = F(k)
  BY <1>1, <1>2, <1>3, IsASeq
<1> QED BY <1>4 DEF F

-----------------------------------------------------------------------------
LEMMA BoolStep ==
    ASSUME BoolInv, Next
    PROVE  BoolInv'
<1> USE DEF BoolInv, log
<1>1. ASSUME NEW c, Type(c) \/ change_prompt PROVE BoolInv'
  BY <1>1, Zenon DEF Type, change_prompt
<1>2. CASE Enter \/ StoreBefore
  BY <1>2, Zenon DEF Enter, StoreBefore, edit
<1>3. ASSUME NEW s, NEW l, NEW f, Received(s, l, f)
      PROVE  log_to_file' \in BOOLEAN /\ cleared' \in BOOLEAN
  BY <1>3, Zenon DEF Received, write_log_line
<1>4. CASE pko_log_read \/ RecvError
  BY <1>3, <1>4, Zenon DEF pko_log_read, RecvError
<1> QED BY <1>1, <1>2, <1>4 DEF Next

-----------------------------------------------------------------------------
(* The line.                                                               *)

\* What is typed goes to the end of both.
LEMMA TypeEnds ==
    ASSUME NEW s \in Seq(Characters), NEW t \in Seq(Characters), NEW c \in Characters, EndOf(s, t)
    PROVE  EndOf(Append(s, c), Append(t, c))
<1>1. /\ Len(Append(s, c)) = Len(s) + 1 /\ Len(Append(t, c)) = Len(t) + 1
      /\ \A k \in 1..Len(s) : Append(s, c)[k] = s[k]
      /\ \A k \in 1..Len(t) : Append(t, c)[k] = t[k]
      /\ Append(s, c)[Len(s) + 1] = c /\ Append(t, c)[Len(t) + 1] = c
  BY AppendProperties
<1>2. Len(s) \in Nat /\ Len(t) \in Nat
  OBVIOUS
<1>3. ASSUME NEW k \in 1..Len(s) + 1
      PROVE  Append(s, c)[k] = Append(t, c)[(Len(t) + 1) - (Len(s) + 1) + k]
  <2>1. CASE k = Len(s) + 1
    BY <1>1, <1>2, <2>1
  <2>2. CASE k \in 1..Len(s)
    <3>1. (Len(t) + 1) - (Len(s) + 1) + k = Len(t) - Len(s) + k
          /\ Len(t) - Len(s) + k \in 1..Len(t)
      BY <1>2, <2>2 DEF EndOf
    <3>2. s[k] = t[Len(t) - Len(s) + k]
      BY <2>2 DEF EndOf
    <3>3. Append(s, c)[k] = s[k]
      BY <1>1, <2>2
    <3> HIDE DEF EndOf
    <3> QED BY <1>1, <3>1, <3>2, <3>3
  <2>3. k = Len(s) + 1 \/ k \in 1..Len(s)
    BY <1>2
  <2> QED BY <2>1, <2>2, <2>3, Zenon
<1>4. Len(s) + 1 <= Len(t) + 1
  BY <1>2 DEF EndOf
<1> QED BY <1>1, <1>3, <1>4, Zenon DEF EndOf

LEMMA NothingEnds ==
    ASSUME NEW t \in Seq(Characters)
    PROVE  EndOf(<<>>, t)
BY DEF EndOf

\* A step that executes no line, and leaves it alone or empties it.
LEMMA EditKept ==
    ASSUME EditInv, BoolInv, typed' = typed, done' = NotDone,
           \/ line' = line /\ cleared' = cleared
           \/ line' = <<>> /\ cleared' = (cleared \/ line # <<>>)
    PROVE  EditInv'
<1>1. /\ done' \in [line : Seq(Characters), typed : Seq(Characters), cleared : BOOLEAN]
      /\ Len(done'.typed) <= MaxLine /\ EndOf(done'.line, done'.typed)
      /\ done'.line = done'.typed
  <2>1. <<>> \in Seq(Characters) /\ Len(<<>>) = 0 /\ EndOf(<<>>, <<>>)
    BY EmptySeq, NothingEnds
  <2> QED BY <2>1, ConsoleConstants DEF NotDone
<1>2. CASE line' = line /\ cleared' = cleared
  BY <1>1, <1>2 DEF EditInv, EndOf
<1>3. CASE line' = <<>> /\ cleared' = (cleared \/ line # <<>>)
  <2>1. ~cleared' => ~cleared /\ line = <<>>
    BY <1>3, Zenon
  <2>2. ~cleared' => line' = typed'
    BY <1>3, <2>1 DEF EditInv
  <2>3. line' \in Seq(Characters) /\ EndOf(line', typed')
    BY <1>3, NothingEnds, EmptySeq DEF EditInv
  <2> QED BY <1>1, <2>2, <2>3 DEF EditInv, EndOf
<1> QED BY <1>2, <1>3

LEMMA EditStep ==
    ASSUME EditInv, BoolInv, Next
    PROVE  EditInv'
<1>1. ASSUME NEW c \in Characters, Type(c) PROVE EditInv'
  <2>1. EndOf(line', typed')
    BY <1>1, TypeEnds DEF Type, EditInv
  <2>2. line' \in Seq(Characters) /\ typed' \in Seq(Characters) /\ Len(typed') = Len(typed) + 1
    BY <1>1, AppendProperties DEF Type, EditInv
  <2>3. /\ done' \in [line : Seq(Characters), typed : Seq(Characters), cleared : BOOLEAN]
        /\ Len(done'.typed) <= MaxLine /\ EndOf(done'.line, done'.typed)
        /\ done'.line = done'.typed
    <3>1. <<>> \in Seq(Characters) /\ Len(<<>>) = 0 /\ EndOf(<<>>, <<>>)
      BY EmptySeq, NothingEnds
    <3> QED BY <1>1, <3>1, ConsoleConstants DEF NotDone, Type
  <2>4. Len(typed') <= MaxLine
    BY <1>1, <2>2, ConsoleConstants DEF Type, EditInv
  <2>5. ~cleared' => line' = typed'
    BY <1>1 DEF Type, EditInv
  <2> QED BY <2>1, <2>2, <2>3, <2>4, <2>5 DEF EditInv, EndOf
<1>2. CASE change_prompt
  BY <1>2, EditKept DEF change_prompt, PutBack
<1>3. CASE Enter
  <2>1. /\ done' = [line |-> line, typed |-> typed, cleared |-> cleared]
        /\ line' = <<>> /\ typed' = <<>>
    BY <1>3 DEF Enter
  <2>2. <<>> \in Seq(Characters) /\ Len(<<>>) = 0 /\ EndOf(<<>>, <<>>)
    BY EmptySeq, NothingEnds
  <2> QED BY <2>1, <2>2, ConsoleConstants DEF EditInv, EndOf, BoolInv
<1>4. CASE pko_log_read \/ RecvError
  <2>1. ASSUME NEW s, NEW l, NEW f, Received(s, l, f) PROVE EditInv'
    <3>1. typed' = typed /\ done' = NotDone
      BY <2>1 DEF Received
    <3>2. \/ line' = line /\ cleared' = cleared
          \/ line' = <<>> /\ cleared' = (cleared \/ line # <<>>)
      BY <2>1, Zenon DEF Received, write_log_line
    <3> QED BY <3>1, <3>2, EditKept
  <2> QED BY <1>4, <2>1 DEF pko_log_read, RecvError
<1>5. CASE StoreBefore
  BY <1>5 DEF StoreBefore, edit, EditInv, EndOf
<1> QED BY <1>1, <1>2, <1>3, <1>4, <1>5 DEF Next, Characters

-----------------------------------------------------------------------------
(* The log.                                                                *)

LEMMA KeptFacts ==
    ASSUME LogInv
    PROVE  /\ Kept \in Text /\ Len(Kept) <= N - 1 /\ loc <= Len(Kept)
           /\ Len(Kept) \in Nat /\ loc \in Int /\ loc <= N - 2 /\ (loc >= 0 => loc \in Nat)
<1>1. CASE loc = 0
  BY <1>1, EmptySeq, ConsoleConstants DEF Kept, Text
<1>2. CASE loc # 0
  BY <1>2, LenProperties DEF Kept, LogInv, Text
<1> QED BY <1>1, <1>2

\* What recvfrom() leaves in the buffer: the text before loc, the datagram,
\* and what it did not reach.
Stored(d) == SubSeq(Kept, 1, loc) \o d \o From(Kept, loc + Len(d) + 1)

LEMMA StoredFacts ==
    ASSUME LogInv, loc >= 0, NEW d \in Text, Len(d) <= Room
    PROVE  /\ Stored(d) \in Text /\ Len(Stored(d)) <= N - 1
           /\ loc + Len(d) <= Len(Stored(d))
           /\ Len(Kept) = loc => Len(Stored(d)) = loc + Len(d)
           /\ \A k \in 1..loc : Stored(d)[k] = Kept[k]
           /\ \A k \in 1..Len(d) : Stored(d)[loc + k] = d[k]
<1> DEFINE a == SubSeq(Kept, 1, loc)
           b == SubSeq(Kept, loc + Len(d) + 1, Len(Kept))
           e == IF loc + Len(d) + 1 <= Len(Kept)
                THEN Len(Kept) - (loc + Len(d)) ELSE 0
<1>1. /\ Kept \in Seq(Codes) /\ Len(Kept) <= N - 1 /\ loc <= Len(Kept)
      /\ Len(Kept) \in Nat /\ loc \in Nat /\ Len(d) \in Nat /\ d \in Seq(Codes)
  BY KeptFacts, LenProperties DEF Text
<1>2. \A k \in 1..Len(Kept) : Kept[k] \in Codes
  BY <1>1, ElementOfSeq
<1>3. a \in Seq(Codes) /\ Len(a) = loc /\ \A k \in 1..loc : a[k] = Kept[k]
  <2>1. \A k \in 1..loc : Kept[k] \in Codes
    BY <1>1, <1>2
  <2>2. /\ a \in Seq(Codes) /\ Len(a) = IF 1 <= loc THEN loc - 1 + 1 ELSE 0
        /\ \A k \in 1..loc - 1 + 1 : a[k] = Kept[1 + k - 1]
    BY <1>1, <2>1, SubSeqProperties
  <2> QED BY <1>1, <2>2
<1>4. b \in Seq(Codes) /\ Len(b) = e
  <2>1. \A k \in loc + Len(d) + 1..Len(Kept) : Kept[k] \in Codes
    BY <1>1, <1>2
  <2>2. /\ b \in Seq(Codes)
        /\ Len(b) = IF loc + Len(d) + 1 <= Len(Kept)
                    THEN Len(Kept) - (loc + Len(d) + 1) + 1 ELSE 0
    BY <1>1, <2>1, SubSeqProperties
  <2> QED BY <1>1, <2>2
<1> HIDE DEF a, b
<1>5. /\ a \o d \in Seq(Codes) /\ Len(a \o d) = loc + Len(d)
      /\ \A k \in 1..loc + Len(d) : (a \o d)[k] = IF k <= loc THEN a[k] ELSE d[k - loc]
  <2>1. a \in Seq(Codes) /\ d \in Seq(Codes)
    BY <1>1, <1>3
  <2>2. /\ a \o d \in Seq(Codes) /\ Len(a \o d) = Len(a) + Len(d)
        /\ \A k \in 1..Len(a) + Len(d) : (a \o d)[k] =
              IF k <= Len(a) THEN a[k] ELSE d[k - Len(a)]
    BY <2>1, ConcatProperties
  <2>3. Len(a) = loc
    BY <1>3
  <2> QED BY <2>2, <2>3
<1>6. /\ (a \o d) \o b \in Seq(Codes) /\ Len((a \o d) \o b) = loc + Len(d) + e
      /\ \A k \in 1..loc + Len(d) : ((a \o d) \o b)[k] = (a \o d)[k]
  <2>1. /\ (a \o d) \o b \in Seq(Codes)
        /\ Len((a \o d) \o b) = Len(a \o d) + Len(b)
        /\ \A k \in 1..Len(a \o d) + Len(b) : ((a \o d) \o b)[k] =
              IF k <= Len(a \o d) THEN (a \o d)[k] ELSE b[k - Len(a \o d)]
    BY <1>4, <1>5, ConcatProperties
  <2>2. e \in Nat
    BY <1>1
  <2> HIDE DEF e
  <2> QED BY <1>1, <1>4, <1>5, <2>1, <2>2
<1>7. Stored(d) = (a \o d) \o b
  BY DEF Stored, From, a, b
<1>8. \A k \in 1..loc : Stored(d)[k] = Kept[k]
  <2> TAKE k \in 1..loc
  <2>1. k \in 1..loc + Len(d) /\ k <= loc
    BY <1>1
  <2> QED BY <1>3, <1>5, <1>6, <1>7, <2>1
<1>9. \A k \in 1..Len(d) : Stored(d)[loc + k] = d[k]
  <2> TAKE k \in 1..Len(d)
  <2>1. loc + k \in 1..loc + Len(d) /\ ~(loc + k <= loc) /\ (loc + k) - loc = k
    BY <1>1
  <2> QED BY <1>5, <1>6, <1>7, <2>1
<1>10. /\ loc + Len(d) + e <= N - 1 /\ loc + Len(d) <= loc + Len(d) + e
       /\ (Len(Kept) = loc => e = 0)
  <2>1. Len(d) <= N - loc - 1 /\ N \in Nat
    BY ConsoleConstants DEF Room
  <2>2. CASE loc + Len(d) + 1 <= Len(Kept)
    <3>1. e = Len(Kept) - (loc + Len(d))
      BY <2>2
    <3> HIDE DEF e
    <3> QED BY <1>1, <2>1, <2>2, <3>1
  <2>3. CASE ~(loc + Len(d) + 1 <= Len(Kept))
    <3>1. e = 0
      BY <2>3
    <3> HIDE DEF e
    <3> QED BY <1>1, <2>1, <3>1
  <2> QED BY <2>2, <2>3
<1> HIDE DEF e
<1>11. Stored(d) \in Text /\ Len(Stored(d)) = loc + Len(d) + e
  BY <1>6, <1>7 DEF Text
<1>12. /\ Len(Stored(d)) <= N - 1 /\ loc + Len(d) <= Len(Stored(d))
       /\ (Len(Kept) = loc => Len(Stored(d)) = loc + Len(d))
  <2>1. loc + Len(d) \in Nat
    BY <1>1
  <2> QED BY <1>10, <1>11, <2>1
<1> QED BY <1>8, <1>9, <1>11, <1>12

\* The three ways pko_log_read() ends once the text is in the buffer.
ToFile(s, f) ==
    /\ loc' = 0
    /\ \/ shown' = shown \o Entries(s, "file") /\ failed' = f
       \/ failed' = f + 1 /\ \E n \in 0..Len(s) - 1 :
             shown' = shown \o Entries(SubSeq(s, 1, n), "file")

ToTty(s, f) ==
    /\ s # <<>> /\ failed' = f
    /\ shown' = shown \o Entries(Printed(Ended(s)), "tty") /\ loc' = 0

StaysInBuffer(l, f) == shown' = shown /\ loc' = l /\ l # N - 1 /\ failed' = f

LEMMA ReceivedWays ==
    ASSUME NEW s \in Text, NEW l \in Int, l <= Len(s), NEW f \in Nat, Received(s, l, f)
    PROVE  /\ buf' = s
           /\ ToFile(s, f) \/ ToTty(s, f) \/ StaysInBuffer(l, f)
           /\ pc' \in {pc, "undefined"}
<1>1. CASE log_to_file
  <2>1. buf' = s /\ WriteLog(s, f) /\ loc' = AfterFile(l) /\ pc' = pc
    BY <1>1, Zenon DEF Received
  <2>2. ToFile(s, f)
    BY <2>1, Zenon DEF WriteLog, ToFile, AfterFile
  <2> QED BY <2>1, <2>2
<1>2. CASE ~log_to_file /\ ((\E k \in 1..Len(s) : s[k] = NL) \/ Full(l))
  <2>1. s # <<>>
    <3>1. CASE \E k \in 1..Len(s) : s[k] = NL
      BY <3>1
    <3>2. CASE Full(l)
      BY <3>2, ConsoleConstants DEF Full
    <3> QED BY <1>2, <3>1, <3>2
  <2>2. buf' = s /\ loc' = 0 /\ failed' = f /\ write_log_line(Ended(s))
    BY <1>2, Zenon DEF Received
  <2>3. /\ shown' = shown \o Entries(Printed(Ended(s)), "tty")
        /\ pc' \in {pc, "undefined"}
    BY <2>2, Zenon DEF write_log_line
  <2> QED BY <2>1, <2>2, <2>3 DEF ToTty
<1>3. CASE ~log_to_file /\ ~((\E k \in 1..Len(s) : s[k] = NL) \/ Full(l))
  <2>1. buf' = s /\ loc' = l /\ shown' = shown /\ pc' = pc /\ failed' = f
    BY <1>3, Zenon DEF Received
  <2> QED BY <1>3, <2>1 DEF StaysInBuffer, Full
<1> QED BY <1>1, <1>2, <1>3

\* The beginning of a text is a text.
LEMMA BeginningText ==
    ASSUME NEW s \in Text, NEW n \in 0..Len(s) - 1
    PROVE  SubSeq(s, 1, n) \in Text
<1>1. Len(s) \in Nat
  BY LenProperties DEF Text
<1>2. \A k \in 1..n : s[k] \in Codes
  BY <1>1, ElementOfSeq DEF Text
<1> QED BY <1>1, <1>2, SubSeqProperties DEF Text

LEMMA ReceivedLog ==
    ASSUME NEW s \in Text, Len(s) <= N - 1, NEW f \in Nat, NEW l \in -f..N-1, l <= Len(s),
           Received(s, l, f), LogInv
    PROVE  /\ pc' \in {"run", "undefined"} /\ buf' \in Text /\ Len(buf') <= N - 1
           /\ failed' \in Nat /\ loc' \in -failed'..N-2 /\ loc' <= Len(buf')
           /\ shown' \in Seq(Entry)
<1>1. /\ buf' = s /\ pc' \in {"run", "undefined"}
      /\ ToFile(s, f) \/ ToTty(s, f) \/ StaysInBuffer(l, f)
  BY ReceivedWays DEF LogInv
<1>2. shown' \in Seq(Entry)
  <2>0. shown \in Seq(Entry)
    BY DEF LogInv
  <2>1. CASE ToFile(s, f)
    <3>1. PICK t \in Text : shown' = shown \o Entries(t, "file")
      BY <2>1, BeginningText DEF ToFile
    <3>2. Entries(t, "file") \in Seq(Entry)
      BY TextSigns, EntriesFacts
    <3> QED BY <2>0, <3>1, <3>2, ConcatProperties
  <2>2. CASE ToTty(s, f)
    <3>1. Ended(s) \in Text
      BY <2>2, EndedFacts DEF ToTty
    <3>2. Entries(Printed(Ended(s)), "tty") \in Seq(Entry)
      BY <3>1, PrintedFacts, EntriesFacts
    <3> QED BY <2>0, <2>2, <3>2, ConcatProperties DEF ToTty
  <2>3. CASE StaysInBuffer(l, f)
    BY <2>0, <2>3 DEF StaysInBuffer
  <2> QED BY <1>1, <2>1, <2>2, <2>3
<1>3. /\ loc' = 0 \/ (loc' = l /\ l # N - 1)
      /\ failed' = f \/ failed' = f + 1
  BY <1>1 DEF ToFile, ToTty, StaysInBuffer
<1>4. failed' \in Nat /\ failed' >= f
  BY <1>3
<1>5. loc' \in -failed'..N-2
  BY <1>3, <1>4, ConsoleConstants
<1>6. loc' <= Len(s)
  <2>1. Len(s) \in Nat
    BY LenProperties DEF Text
  <2> QED BY <1>3, <2>1
<1> QED BY <1>1, <1>2, <1>4, <1>5, <1>6

\* What one call of recvfrom() stores: m characters of the log that are not in
\* got yet, in the place after loc, with newlines and '%' among them.
LEMMA DatagramFacts ==
    ASSUME LogInv, pko_log_read
    PROVE  \E d \in Text :
             /\ Len(d) \in 1..Room /\ Len(got) + Len(d) <= MaxText /\ got' = got \o d
             /\ Received(Stored(d), loc + Len(d), failed) /\ loc >= 0 /\ loc \in Nat
<1>1. PICK n \in 1..MaxGram :
       LET m == IF n < Room THEN n ELSE Room
       IN /\ Len(got) + n <= MaxText
          /\ \E nls, ps \in SUBSET (1..m) :
             LET d == Gram(got, m, nls, ps \ nls)
             IN /\ got' = got \o d
                /\ Received(SubSeq(Kept, 1, loc) \o d \o From(Kept, loc + m + 1), loc + m, failed)
  BY Zenon DEF pko_log_read
<1> DEFINE m == IF n < Room THEN n ELSE Room
<1>2. PICK nls \in SUBSET (1..m), ps \in SUBSET (1..m) :
       LET d == Gram(got, m, nls, ps \ nls)
       IN /\ got' = got \o d
          /\ Received(SubSeq(Kept, 1, loc) \o d \o From(Kept, loc + m + 1), loc + m, failed)
  BY <1>1, Zenon
<1>3. loc >= 0 /\ loc \in Nat
  BY KeptFacts DEF pko_log_read
<1>4. m \in 1..Room /\ m <= n /\ n \in Nat /\ m \in Nat /\ Len(got) + n <= MaxText
  <2>1. loc \in Nat /\ loc <= N - 2 /\ n \in 1..MaxGram /\ N \in Nat /\ MaxGram \in Nat
    BY <1>3, KeptFacts, ConsoleConstants
  <2>2. Room = N - loc - 1
    BY DEF Room
  <2> HIDE DEF m
  <2>3. m = IF n < Room THEN n ELSE Room
    BY DEF m
  <2> QED BY <1>1, <2>1, <2>2, <2>3
<1> HIDE DEF m
<1> DEFINE p == ps \ nls
           d == Gram(got, m, nls, p)
<1>5. /\ got' = got \o d
      /\ Received(SubSeq(Kept, 1, loc) \o d \o From(Kept, loc + m + 1), loc + m, failed)
  BY <1>2
<1> HIDE DEF p
<1>6. d \in Text /\ Len(d) = m
  <2>1. Len(got) \in Nat /\ MaxText \in Nat
    BY LenProperties, ConsoleConstants DEF LogInv, Text
  <2> DEFINE F(k) == IF k \in nls THEN NL ELSE IF k \in p THEN Percent ELSE Len(got) + k
  <2>2. \A k \in 1..m : F(k) \in Codes
    BY <1>4, <2>1 DEF Codes, NL, Percent
  <2>3. d = [k \in 1..m |-> F(k)]
    BY DEF Gram
  <2> HIDE DEF F, d
  <2> QED BY <1>4, <2>2, <2>3, IsASeq DEF Text
<1> HIDE DEF d
<1>7. Len(got) + Len(d) <= MaxText
  BY <1>4, <1>6, LenProperties, ConsoleConstants DEF LogInv, Text
<1>8. Received(Stored(d), loc + Len(d), failed)
  BY <1>5, <1>6 DEF Stored
<1> QED BY <1>3, <1>4, <1>5, <1>6, <1>7, <1>8

LEMMA LogStep ==
    ASSUME LogInv, BoolInv, Next
    PROVE  LogInv'
<1>1. ASSUME NEW c, Type(c) PROVE LogInv'
  BY <1>1 DEF Type, log, LogInv
<1>2. CASE change_prompt
  BY <1>2 DEF change_prompt, log, LogInv
<1>3. CASE Enter
  BY <1>3 DEF Enter, LogInv
<1>4. CASE pko_log_read
  <2>1. PICK d \in Text :
             /\ Len(d) \in 1..Room /\ Len(got) + Len(d) <= MaxText /\ got' = got \o d
             /\ Received(Stored(d), loc + Len(d), failed) /\ loc >= 0 /\ loc \in Nat
    BY <1>4, DatagramFacts
  <2>2. /\ Stored(d) \in Text /\ Len(Stored(d)) <= N - 1
        /\ loc + Len(d) <= Len(Stored(d))
    BY <2>1, StoredFacts
  <2>3. loc + Len(d) \in -failed..N-1 /\ failed \in Nat
    BY <2>1, LenProperties, ConsoleConstants DEF LogInv, Text, Room
  <2>4. /\ pc' \in {"run", "undefined"} /\ buf' \in Text /\ Len(buf') <= N - 1
        /\ failed' \in Nat /\ loc' \in -failed'..N-2 /\ loc' <= Len(buf')
        /\ shown' \in Seq(Entry)
    BY <2>1, <2>2, <2>3, ReceivedLog
  <2>5. got' \in Text /\ Len(got') <= MaxText
    BY <2>1, ConcatProperties DEF LogInv, Text
  <2> QED BY <2>4, <2>5 DEF LogInv
<1>5. CASE RecvError
  <2>1. Received(Kept, loc - 1, failed + 1) /\ got' = got
    BY <1>5, Zenon DEF RecvError
  <2>2. Kept \in Text /\ Len(Kept) <= N - 1 /\ loc - 1 <= Len(Kept)
    BY KeptFacts
  <2>3. failed + 1 \in Nat /\ loc - 1 \in -(failed + 1)..N-1
    BY ConsoleConstants DEF LogInv
  <2>4. /\ pc' \in {"run", "undefined"} /\ buf' \in Text /\ Len(buf') <= N - 1
        /\ failed' \in Nat /\ loc' \in -failed'..N-2 /\ loc' <= Len(buf')
        /\ shown' \in Seq(Entry)
    BY <2>1, <2>2, <2>3, ReceivedLog
  <2> QED BY <2>1, <2>4 DEF LogInv
<1>6. CASE StoreBefore
  BY <1>6 DEF StoreBefore, log, LogInv
<1> QED BY <1>1, <1>2, <1>3, <1>4, <1>5, <1>6 DEF Next

-----------------------------------------------------------------------------
(* The order of the log.                                                   *)

\* What is left of g after sh, in t, is written after sh.
LEMMA WrittenOut ==
    ASSUME NEW g \in Text, NEW sh \in Seq(Entry), NEW t \in Seq(Signs), t # <<>>,
           NEW to \in {"tty", "file"},
           Len(g) = Len(sh) + Len(t), Faithful(sh, g),
           \A k \in 1..Len(t) :
               \/ t[k] = g[Len(sh) + k]
               \/ to = "tty" /\ t[k] = NL
               \/ to = "tty" /\ \E j \in 1..k :
                    g[Len(sh) + j] = Percent /\ \A i \in j..k : t[i] = Garbled,
           to = "tty" => t[Len(t)] \in {NL, Garbled}
    PROVE  LET new == sh \o Entries(t, to)
           IN /\ Len(new) = Len(g) /\ Faithful(new, g)
              /\ new[Len(new)].to = "tty" => new[Len(new)].c \in {NL, Garbled}
<1> DEFINE e == Entries(t, to)  new == sh \o e
<1>1. /\ e \in Seq(Entry) /\ Len(e) = Len(t)
      /\ \A k \in 1..Len(t) : e[k] = [c |-> t[k], to |-> to]
  BY EntriesFacts
<1>2. Len(sh) \in Nat /\ Len(t) \in Nat /\ Len(t) # 0
  BY LenProperties, EmptySeq
<1> HIDE DEF e
<1>3. /\ Len(new) = Len(sh) + Len(t)
      /\ \A k \in 1..Len(sh) + Len(t) :
           new[k] = IF k <= Len(sh) THEN sh[k] ELSE e[k - Len(sh)]
  <2>1. /\ Len(sh \o e) = Len(sh) + Len(e)
        /\ \A k \in 1..Len(sh) + Len(e) :
             (sh \o e)[k] = IF k <= Len(sh) THEN sh[k] ELSE e[k - Len(sh)]
    BY <1>1, ConcatProperties
  <2> QED BY <1>1, <2>1, Zenon
<1> HIDE DEF new
<1>4. /\ \A k \in 1..Len(sh) : new[k] = sh[k]
      /\ \A k \in 1..Len(t) : new[Len(sh) + k] = [c |-> t[k], to |-> to]
  <2>1. ASSUME NEW k \in 1..Len(sh) PROVE new[k] = sh[k]
    BY <1>2, <1>3
  <2>2. ASSUME NEW k \in 1..Len(t) PROVE new[Len(sh) + k] = [c |-> t[k], to |-> to]
    <3>1. /\ Len(sh) + k \in 1..Len(sh) + Len(t) /\ ~(Len(sh) + k <= Len(sh))
          /\ (Len(sh) + k) - Len(sh) = k
      BY <1>2
    <3> QED BY <1>1, <1>3, <3>1
  <2> QED BY <2>1, <2>2
<1> DEFINE Right(k) ==
              \/ new[k].c = g[k]
              \/ new[k] = [c |-> NL, to |-> "tty"]
              \/ \E j \in 1..k :
                    g[j] = Percent /\ \A i \in j..k : new[i] = [c |-> Garbled, to |-> "tty"]
<1>5. ASSUME NEW k \in 1..Len(sh) PROVE Right(k)
  <2>1. \/ sh[k].c = g[k]
        \/ sh[k] = [c |-> NL, to |-> "tty"]
        \/ \E j \in 1..k :
              g[j] = Percent /\ \A i \in j..k : sh[i] = [c |-> Garbled, to |-> "tty"]
    BY DEF Faithful
  <2>2. \A j \in 1..k : \A i \in j..k : i \in 1..Len(sh)
    BY <1>2
  <2> QED BY <1>4, <2>1, <2>2
<1>6. ASSUME NEW k \in 1..Len(t) PROVE Right(Len(sh) + k)
  <2>1. new[Len(sh) + k] = [c |-> t[k], to |-> to]
    BY <1>4
  <2>2. CASE t[k] = g[Len(sh) + k]
    BY <2>1, <2>2
  <2>3. CASE to = "tty" /\ t[k] = NL
    BY <2>1, <2>3
  <2>4. CASE to = "tty" /\ \E j \in 1..k :
               g[Len(sh) + j] = Percent /\ \A i \in j..k : t[i] = Garbled
    <3>1. PICK j \in 1..k : g[Len(sh) + j] = Percent /\ \A i \in j..k : t[i] = Garbled
      BY <2>4
    <3>2. ASSUME NEW i \in Len(sh) + j..Len(sh) + k
          PROVE  new[i] = [c |-> Garbled, to |-> "tty"]
      <4>1. i - Len(sh) \in j..k /\ i - Len(sh) \in 1..Len(t) /\ Len(sh) + (i - Len(sh)) = i
        BY <1>2
      <4>2. new[i] = [c |-> t[i - Len(sh)], to |-> to]
        BY <1>4, <4>1
      <4> QED BY <2>4, <3>1, <4>1, <4>2
    <3>3. Len(sh) + j \in 1..Len(sh) + k
      BY <1>2
    <3> QED BY <3>1, <3>2, <3>3
  <2> QED BY <2>2, <2>3, <2>4
<1> HIDE DEF Right
<1>7. \A k \in 1..Len(new) : Right(k)
  <2> TAKE k \in 1..Len(new)
  <2>1. CASE k <= Len(sh)
    BY <1>2, <1>3, <1>5, <2>1
  <2>2. CASE ~(k <= Len(sh))
    <3>1. k - Len(sh) \in 1..Len(t) /\ Len(sh) + (k - Len(sh)) = k
      BY <1>2, <1>3, <2>2
    <3> QED BY <1>6, <3>1
  <2> QED BY <2>1, <2>2
<1>8. new[Len(new)].to = "tty" => new[Len(new)].c \in {NL, Garbled}
  <2>1. Len(t) \in 1..Len(t) /\ Len(new) = Len(sh) + Len(t)
    BY <1>2, <1>3
  <2>2. new[Len(new)] = [c |-> t[Len(t)], to |-> to]
    BY <1>4, <2>1
  <2> QED BY <2>2
<1>9. Len(new) = Len(g) /\ Faithful(new, g)
  BY <1>3, <1>7 DEF Faithful, Right
<1> QED BY <1>8, <1>9 DEF new, e

\* The text received in this step follows the text in the buffer.
LEMMA StoredNext ==
    ASSUME LogInv, OrderInv, failed = 0, loc >= 0, NEW d \in Text, Len(d) \in 1..Room
    PROVE  /\ Stored(d) \in Text /\ Len(Stored(d)) = loc + Len(d)
           /\ got \o d \in Text /\ Len(got \o d) = Len(shown) + Len(Stored(d))
           /\ \A k \in 1..Len(got) : (got \o d)[k] = got[k]
           /\ \A k \in 1..Len(Stored(d)) :
                Stored(d)[k] = (got \o d)[Len(shown) + k]
<1>1. /\ Len(got) = Len(shown) + loc /\ \A k \in 1..loc : buf[k] = got[Len(shown) + k]
      /\ (loc > 0 => Len(buf) = loc)
  BY DEF OrderInv
<1>2. /\ loc \in Nat /\ Len(d) \in Nat /\ Len(shown) \in Nat /\ Len(got) \in Nat
      /\ got \in Text
  BY KeptFacts, LenProperties DEF LogInv, Text
<1>3. Len(Kept) = loc /\ \A k \in 1..loc : Kept[k] = buf[k]
  <2>1. CASE loc = 0
    BY <2>1 DEF Kept
  <2>2. CASE loc # 0
    BY <1>1, <1>2, <2>2 DEF Kept
  <2> QED BY <2>1, <2>2
<1>4. /\ Stored(d) \in Text /\ Len(Stored(d)) = loc + Len(d)
      /\ \A k \in 1..loc : Stored(d)[k] = Kept[k]
      /\ \A k \in 1..Len(d) : Stored(d)[loc + k] = d[k]
  <2>1. Len(d) <= Room
    BY <1>2
  <2> QED BY <1>3, <2>1, StoredFacts
<1>5. /\ got \o d \in Text /\ Len(got \o d) = Len(got) + Len(d)
      /\ \A k \in 1..Len(got) + Len(d) :
           (got \o d)[k] = IF k <= Len(got) THEN got[k] ELSE d[k - Len(got)]
  BY <1>2, ConcatProperties DEF Text
<1>6. ASSUME NEW k \in 1..loc + Len(d)
      PROVE  Stored(d)[k] = (got \o d)[Len(shown) + k]
  <2>1. CASE k <= loc
    <3>1. k \in 1..loc /\ Len(shown) + k \in 1..Len(got) + Len(d)
          /\ Len(shown) + k <= Len(got)
      BY <1>1, <1>2, <2>1
    <3>2. Stored(d)[k] = got[Len(shown) + k]
      BY <1>1, <1>3, <1>4, <3>1
    <3> QED BY <1>5, <3>1, <3>2
  <2>2. CASE ~(k <= loc)
    <3>1. /\ k - loc \in 1..Len(d) /\ loc + (k - loc) = k
          /\ Len(shown) + k \in 1..Len(got) + Len(d)
          /\ ~(Len(shown) + k <= Len(got)) /\ (Len(shown) + k) - Len(got) = k - loc
      BY <1>1, <1>2, <2>2
    <3>2. Stored(d)[k] = d[k - loc]
      BY <1>4, <3>1
    <3> QED BY <1>5, <3>1, <3>2
  <2> QED BY <2>1, <2>2
<1>7. \A k \in 1..Len(got) : (got \o d)[k] = got[k]
  <2> TAKE k \in 1..Len(got)
  <2>1. k \in 1..Len(got) + Len(d) /\ k <= Len(got)
    BY <1>2
  <2> QED BY <1>5, <2>1
<1>8. Len(got \o d) = Len(shown) + Len(Stored(d))
  BY <1>1, <1>2, <1>4, <1>5
<1> QED BY <1>4, <1>5, <1>6, <1>7, <1>8

LEMMA OrderStep ==
    ASSUME LogInv, OrderInv, BoolInv, Next
    PROVE  OrderInv'
<1>1. ASSUME NEW c, Type(c) PROVE OrderInv'
  BY <1>1 DEF Type, log, OrderInv
<1>2. CASE change_prompt
  BY <1>2 DEF change_prompt, log, OrderInv
<1>3. CASE Enter
  BY <1>3 DEF Enter, OrderInv
<1>4. CASE RecvError
  <2>1. Received(Kept, loc - 1, failed + 1)
    BY <1>4, Zenon DEF RecvError
  <2>2. /\ Kept \in Text /\ loc - 1 \in Int /\ loc - 1 <= Len(Kept)
        /\ failed \in Nat /\ failed + 1 \in Nat
    BY KeptFacts DEF LogInv
  <2>3. ToFile(Kept, failed + 1) \/ ToTty(Kept, failed + 1) \/ StaysInBuffer(loc - 1, failed + 1)
    BY <2>1, <2>2, ReceivedWays
  <2>4. failed' = failed + 1 \/ failed' = (failed + 1) + 1
    BY <2>3 DEF ToFile, ToTty, StaysInBuffer
  <2>5. failed' # 0
    BY <2>2, <2>4
  <2> QED BY <2>5 DEF OrderInv
<1>5. CASE StoreBefore
  BY <1>5 DEF StoreBefore, log, OrderInv
<1>6. CASE pko_log_read
  <2>1. PICK d \in Text :
             /\ Len(d) \in 1..Room /\ Len(got) + Len(d) <= MaxText /\ got' = got \o d
             /\ Received(Stored(d), loc + Len(d), failed) /\ loc >= 0 /\ loc \in Nat
    BY <1>6, DatagramFacts
  <2> DEFINE s == Stored(d)  g == got \o d
  <2>1a. /\ s \in Text /\ loc + Len(d) <= Len(s) /\ loc + Len(d) \in Int /\ failed \in Nat
    <3>1. Len(d) \in Nat /\ Room \in Int
      BY <2>1, LenProperties, ConsoleConstants DEF Text, Room
    <3>2. Len(d) <= Room
      BY <2>1, <3>1
    <3> QED BY <2>1, <3>1, <3>2, StoredFacts DEF LogInv
  <2>1b. ToFile(s, failed) \/ ToTty(s, failed) \/ StaysInBuffer(loc + Len(d), failed)
    BY <2>1, <2>1a, ReceivedWays
  <2>1c. failed' = failed \/ failed' = failed + 1
    BY <2>1b DEF ToFile, ToTty, StaysInBuffer
  <2>1d. SUFFICES ASSUME failed' = 0 PROVE OrderInv'
    BY DEF OrderInv
  <2>1e. failed = 0
    BY <2>1a, <2>1c, <2>1d
  <2>2. /\ s \in Text /\ Len(s) = loc + Len(d)
        /\ g \in Text /\ Len(g) = Len(shown) + Len(s)
        /\ \A k \in 1..Len(got) : g[k] = got[k]
        /\ \A k \in 1..Len(s) : s[k] = g[Len(shown) + k]
    BY <2>1, <2>1e, StoredNext
  <2>3. Len(s) \in Nat /\ Len(s) > 0 /\ s # <<>>
    <3>1. loc \in Nat /\ N \in Nat /\ Len(d) \in 1..N-loc-1
      BY <2>1, ConsoleConstants DEF Room
    <3>2. loc + Len(d) \in 1..N-1
      BY <3>1
    <3> QED BY <2>2, <3>2
  <2>4. buf' = s /\ (ToFile(s, failed) \/ ToTty(s, failed) \/ StaysInBuffer(Len(s), failed))
    BY <2>1, <2>1a, <2>2, ReceivedWays
  <2>5. Faithful(shown, g)
    <3>1. Faithful(shown, got) /\ Len(got) = Len(shown) + loc
      BY <2>1e DEF OrderInv
    <3>2. Len(shown) \in Nat /\ Len(got) \in Nat
      BY LenProperties DEF LogInv, Text
    <3>3. \A k \in 1..Len(shown) : k \in 1..Len(got) /\ \A j \in 1..k : j \in 1..Len(got)
      BY <2>1, <3>1, <3>2
    <3> QED BY <2>2, <3>1, <3>3 DEF Faithful
  <2>6. got' = g /\ shown \in Seq(Entry) /\ Len(shown) \in Nat
    BY <2>1, LenProperties DEF LogInv
  <2> HIDE DEF s, g
  <2>7. CASE ToFile(s, failed)
    <3>1. /\ Len(shown') = Len(g) /\ Faithful(shown', g)
          /\ shown'[Len(shown')].to = "tty" => shown'[Len(shown')].c \in {NL, Garbled}
      <4>1. \A k \in 1..Len(s) :
               \/ s[k] = g[Len(shown) + k]
               \/ "file" = "tty" /\ s[k] = NL
               \/ "file" = "tty" /\ \E j \in 1..k :
                    g[Len(shown) + j] = Percent /\ \A i \in j..k : s[i] = Garbled
        BY <2>2
      <4>2. "file" = "tty" => s[Len(s)] \in {NL, Garbled}
        OBVIOUS
      <4>3. s \in Seq(Signs) /\ g \in Text /\ s # <<>> /\ Len(g) = Len(shown) + Len(s)
        BY <2>2, <2>3, TextSigns
      <4>4. LET new == shown \o Entries(s, "file")
            IN /\ Len(new) = Len(g) /\ Faithful(new, g)
               /\ new[Len(new)].to = "tty" => new[Len(new)].c \in {NL, Garbled}
        BY <2>5, <2>6, <4>1, <4>2, <4>3, WrittenOut, Zenon
      <4>5. shown' = shown \o Entries(s, "file")
        BY <2>1a, <2>1d, <2>7 DEF ToFile
      <4> QED BY <4>4, <4>5
    <3>2. loc' = 0
      BY <2>7 DEF ToFile
    <3> QED BY <2>2, <2>6, <3>1, <3>2 DEF OrderInv
  <2>8. CASE ToTty(s, failed)
    <3>1. /\ Len(shown') = Len(g) /\ Faithful(shown', g)
          /\ shown'[Len(shown')].to = "tty" => shown'[Len(shown')].c \in {NL, Garbled}
      <4> DEFINE u == Ended(s)  v == Printed(u)
      <4>1. /\ u \in Text /\ Len(u) = Len(s)
            /\ \A k \in 1..Len(s) : u[k] = IF k = Len(s) THEN NL ELSE s[k]
        BY <2>2, <2>3, EndedFacts
      <4>2. /\ v \in Seq(Signs) /\ Len(v) = Len(s)
            /\ \A k \in 1..Len(s) : v[k] = IF Spoilt(u, k) THEN Garbled ELSE u[k]
        BY <4>1, PrintedFacts
      <4>3. shown' = shown \o Entries(v, "tty")
        BY <2>8 DEF ToTty
      <4> HIDE DEF u, v
      <4>4. ASSUME NEW k \in 1..Len(v)
            PROVE  \/ v[k] = g[Len(shown) + k]
                   \/ "tty" = "tty" /\ v[k] = NL
                   \/ "tty" = "tty" /\ \E j \in 1..k :
                        g[Len(shown) + j] = Percent /\ \A i \in j..k : v[i] = Garbled
        <5>1. k \in 1..Len(s)
          BY <4>2
        <5>2. CASE ~Spoilt(u, k)
          <6>1. v[k] = u[k]
            BY <4>2, <5>1, <5>2
          <6>2. u[k] = NL \/ u[k] = s[k]
            BY <4>1, <5>1
          <6> QED BY <2>2, <5>1, <6>1, <6>2
        <5>3. CASE Spoilt(u, k)
          <6>1. PICK j \in 1..k : u[j] = Percent
            BY <5>3 DEF Spoilt
          <6>2. j \in 1..Len(s)
            BY <2>3, <5>1
          <6>3. g[Len(shown) + j] = Percent
            <7>1. u[j] = s[j]
              BY <4>1, <6>1, <6>2 DEF Percent, NL
            <7> QED BY <2>2, <6>1, <6>2, <7>1
          <6>4. ASSUME NEW i \in j..k PROVE v[i] = Garbled
            <7>1. i \in 1..Len(s) /\ j \in 1..i
              BY <2>3, <5>1
            <7>2. Spoilt(u, i)
              BY <6>1, <7>1 DEF Spoilt
            <7> QED BY <4>2, <7>1, <7>2
          <6> QED BY <6>3, <6>4
        <5> QED BY <5>2, <5>3
      <4>5. v[Len(v)] \in {NL, Garbled} /\ v # <<>>
        <5>1. Len(s) \in 1..Len(s)
          BY <2>3
        <5>2. u[Len(s)] = NL
          BY <4>1, <5>1
        <5>3. v # <<>>
          BY <2>3, <4>2
        <5> QED BY <4>2, <5>1, <5>2, <5>3
      <4>6. Len(g) = Len(shown) + Len(v) /\ g \in Text /\ "tty" \in {"tty", "file"}
        BY <2>2, <4>2
      <4>7. LET new == shown \o Entries(v, "tty")
            IN /\ Len(new) = Len(g) /\ Faithful(new, g)
               /\ new[Len(new)].to = "tty" => new[Len(new)].c \in {NL, Garbled}
        BY <2>5, <2>6, <4>2, <4>4, <4>5, <4>6, WrittenOut, Zenon
      <4> QED BY <4>3, <4>7
    <3>2. loc' = 0
      BY <2>8 DEF ToTty
    <3> QED BY <2>2, <2>6, <3>1, <3>2 DEF OrderInv
  <2>9. CASE StaysInBuffer(Len(s), failed)
    <3>1. shown' = shown /\ loc' = Len(s)
      BY <2>9 DEF StaysInBuffer
    <3>2. shown # <<>> /\ shown[Len(shown)].to = "tty" => shown[Len(shown)].c \in {NL, Garbled}
      BY <2>1e DEF OrderInv
    <3> QED BY <2>2, <2>4, <2>5, <2>6, <3>1, <3>2 DEF OrderInv
  <2> QED BY <2>4, <2>7, <2>8, <2>9
<1> QED BY <1>1, <1>2, <1>3, <1>4, <1>5, <1>6 DEF Next

-----------------------------------------------------------------------------
LEMMA InitInv == Init => IndInv
<1> SUFFICES ASSUME Init PROVE IndInv
  OBVIOUS
<1>1. BoolInv
  BY Zenon DEF Init, BoolInv
<1>2. EditInv
  <2>1. <<>> \in Seq(Characters) /\ Len(<<>>) = 0 /\ EndOf(<<>>, <<>>)
    BY EmptySeq, NothingEnds
  <2>2. done \in [line : Seq(Characters), typed : Seq(Characters), cleared : BOOLEAN]
        /\ done.line = <<>> /\ done.typed = <<>>
    BY <2>1 DEF Init, NotDone
  <2> QED BY <2>1, <2>2, ConsoleConstants DEF Init, EditInv
<1>3. LogInv
  <2>1. <<>> \in Text /\ <<>> \in Seq(Entry) /\ Len(<<>>) = 0
    BY EmptySeq DEF Text
  <2>2. pc \in {"run", "undefined"} /\ loc = 0
    BY DEF Init
  <2> QED BY <2>1, <2>2, ConsoleConstants DEF Init, LogInv
<1>4. OrderInv
  BY DEF Init, OrderInv, Faithful
<1> QED BY <1>1, <1>2, <1>3, <1>4 DEF IndInv

\* The inductive invariant of the terminal holds in every reachable state.
THEOREM ConsoleInvariant == Spec => []IndInv
<1>1. IndInv /\ [Next]_vars => IndInv'
  <2> SUFFICES ASSUME IndInv, [Next]_vars PROVE IndInv'
    OBVIOUS
  <2>1. CASE Next
    BY <2>1, BoolStep, EditStep, LogStep, OrderStep DEF IndInv
  <2>2. CASE UNCHANGED vars
    BY <2>2 DEF vars, log, edit, IndInv, BoolInv, EditInv, LogInv, OrderInv, EndOf
  <2> QED BY <2>1, <2>2
<1> QED BY <1>1, InitInv, PTL DEF Spec

\* For every size of the buffers: recvfrom() of pko_log_read() always has room
\* for a character and is never told to store past the buffer.
THEOREM ConsoleTypes == Spec => []TypeOK
<1>1. IndInv => TypeOK
  <2> SUFFICES ASSUME IndInv PROVE TypeOK
    OBVIOUS
  <2>1. \A s \in {line, typed, done.line, done.typed} :
           Len(s) <= MaxLine /\ \A k \in 1..Len(s) : s[k] \in Characters
    <3>1. \A s \in Seq(Characters) : \A k \in 1..Len(s) : s[k] \in Characters
      BY ElementOfSeq
    <3>2. \A s \in Seq(Characters) : Len(s) \in Nat
      BY LenProperties
    <3>3. /\ line \in Seq(Characters) /\ typed \in Seq(Characters) /\ Len(typed) <= MaxLine
          /\ done.line \in Seq(Characters) /\ done.typed \in Seq(Characters)
          /\ Len(done.typed) <= MaxLine
          /\ Len(line) <= Len(typed) /\ Len(done.line) <= Len(done.typed)
      BY DEF IndInv, EditInv, EndOf
    <3>4. Len(line) <= MaxLine /\ Len(done.line) <= MaxLine
      BY <3>2, <3>3, ConsoleConstants
    <3> QED BY <3>1, <3>3, <3>4
  <2>2. \A k \in 1..Len(shown) :
           shown[k] \in [c : Garbled..MaxText, to : {"tty", "file"}]
    BY ElementOfSeq DEF IndInv, LogInv, Entry, Signs
  <2>3. /\ pc \in {"run", "undefined"} /\ Len(buf) <= N - 1
        /\ got \in Seq(Percent..MaxText) /\ Len(got) <= MaxText
    BY DEF IndInv, LogInv, Text, Codes
  <2>4. failed \in Nat /\ loc \in -failed..N-2
    BY DEF IndInv, LogInv
  <2>5. log_to_file \in BOOLEAN /\ cleared \in BOOLEAN
    BY DEF IndInv, BoolInv
  <2> QED BY <2>1, <2>2, <2>3, <2>4, <2>5 DEF TypeOK
<1> QED BY <1>1, ConsoleInvariant, PTL

\* Until a call fails, pko_log_read() writes the log of the PS2 once and
\* in order, but for a newline put over the end of a line and what printf() makes
\* of a '%', for every buffer size and every way it is cut into datagrams.
THEOREM ConsoleLogInOrder == Spec => []LogInOrder
<1>1. IndInv => LogInOrder
  <2> SUFFICES ASSUME IndInv, failed = 0 PROVE LogInOrder
    BY DEF LogInOrder
  <2>1. /\ Len(got) = Len(shown) + loc /\ \A k \in 1..loc : buf[k] = got[Len(shown) + k]
        /\ loc \in -failed..N-2 /\ loc >= 0 /\ loc <= Len(buf)
        /\ buf \in Seq(Codes) /\ got \in Seq(Codes) /\ shown \in Seq(Entry)
    BY DEF IndInv, LogInv, OrderInv, Text
  <2>2. loc \in Nat /\ Len(shown) \in Nat /\ Len(buf) \in Nat /\ Len(got) \in Nat
    BY <2>1, LenProperties
  <2> DEFINE a == SubSeq(buf, 1, loc)
             b == SubSeq(got, Len(shown) + 1, Len(got))
  <2>3. a \in Seq(Codes) /\ Len(a) = loc /\ \A k \in 1..loc : a[k] = buf[k]
    <3>1. \A k \in 1..loc : buf[k] \in Codes
      BY <2>1, <2>2, ElementOfSeq
    <3>2. /\ a \in Seq(Codes) /\ Len(a) = IF 1 <= loc THEN loc - 1 + 1 ELSE 0
          /\ \A k \in 1..loc - 1 + 1 : a[k] = buf[1 + k - 1]
      BY <2>1, <2>2, <3>1, SubSeqProperties
    <3> QED BY <2>2, <3>2
  <2>4. /\ b \in Seq(Codes) /\ Len(b) = loc
        /\ \A k \in 1..loc : b[k] = got[Len(shown) + k]
    <3>1. \A k \in Len(shown) + 1..Len(got) : got[k] \in Codes
      BY <2>1, <2>2, ElementOfSeq
    <3>2. /\ b \in Seq(Codes)
          /\ Len(b) = IF Len(shown) + 1 <= Len(got)
                      THEN Len(got) - (Len(shown) + 1) + 1 ELSE 0
          /\ \A k \in 1..Len(got) - (Len(shown) + 1) + 1 :
               b[k] = got[(Len(shown) + 1) + k - 1]
      BY <2>1, <2>2, <3>1, SubSeqProperties
    <3>3. Len(got) - (Len(shown) + 1) + 1 = loc
      BY <2>1, <2>2
    <3>4. \A k \in 1..loc : (Len(shown) + 1) + k - 1 = Len(shown) + k
      BY <2>2
    <3>5. Len(b) = loc
      BY <2>1, <2>2, <3>2
    <3> QED BY <3>2, <3>3, <3>4, <3>5
  <2> HIDE DEF a, b
  <2>5. a = b
    BY <2>1, <2>3, <2>4, SeqEqual
  <2>6. SubSeq(buf, 1, loc) = From(got, Len(shown) + 1)
    BY <2>5 DEF a, b, From
  <2> QED BY <2>6 DEF IndInv, OrderInv, LogInOrder, Faithful
<1> QED BY <1>1, ConsoleInvariant, PTL

\* A line cli_handler() executes is the end of what was typed, and the whole
\* of it unless the log was printed over it: for every line and every log.
THEOREM ConsoleWholeLine == Spec => []WholeLine
<1>1. IndInv => WholeLine
  <2> SUFFICES ASSUME IndInv PROVE WholeLine
    OBVIOUS
  <2>1. /\ done.line \in Seq(Characters) /\ done.typed \in Seq(Characters)
        /\ EndOf(done.line, done.typed) /\ (~done.cleared => done.line = done.typed)
    BY DEF IndInv, EditInv
  <2>2. IsSuffix(done.line, done.typed)
    BY <2>1, SuffixFacts
  <2> QED BY <2>1, <2>2 DEF WholeLine
<1> QED BY <1>1, ConsoleInvariant, PTL

\* Whatever line is executed, execute_line(), build_argv(), fix_cmd_arg() and
\* trim() find the words in it: for every line and every MAX_ARGV.
THEOREM ConsoleArgsFound == Spec => []ArgsFound
<1>1. IndInv => ArgsFound
  <2> SUFFICES ASSUME IndInv PROVE ArgsFound
    OBVIOUS
  <2> DEFINE s == done.line
             arg == split(s).arg
             words == Words(arg)
             argv == build_argv(arg, MaxArgv)
             fixed == fix_cmd_arg(arg)
  <2>1. s \in Seq(Characters) /\ MaxArgv \in Nat
    BY ConsoleConstants DEF IndInv, EditInv
  <2>2. /\ arg \in Seq(Characters) /\ Solid(arg)
        /\ Words(Blanked(s)) # <<>> =>
             Words(Blanked(s)) = <<split(s).word>> \o Words(Blanked(arg))
    BY <2>1, SplitFindsWords
  <2> HIDE DEF arg
  <2>3. Len(words) <= MaxArgv => argv.argv = words /\ argv.argc = Len(words)
    BY <2>1, <2>2, BuildArgvFindsWords
  <2>4. /\ Len(fixed) = Len(words)
        /\ \A k \in 1..Len(words) :
             \E n \in 0..Len(arg) :
                fixed[k] = Hosted(Behind(n, words[k])) /\ (n > 0 => DoubleBlank(arg))
    BY <2>2, FixCmdArgFindsWords
  <2>5. ~EndsInBlank(trim(arg)) /\ Words(trim(arg)) = words
    BY <2>2, TrimKeepsWords
  <2> HIDE DEF words, argv, fixed
  <2>6. Len(words) <= MaxArgv => argv.argv = words /\ argv.argc = Len(argv.argv)
    BY <2>3
  <2> QED BY <2>2, <2>4, <2>5, <2>6 DEF ArgsFound, arg, words, argv, fixed
<1> QED BY <1>1, ConsoleInvariant, PTL
=============================================================================
