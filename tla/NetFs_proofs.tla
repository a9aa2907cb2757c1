---------------------------- MODULE NetFs_proofs ----------------------------
(***************************************************************************)
(* Proofs about NetFs: for any buffer and file size and any of the faults, *)
(* no reply is left over for the next request and a result read on an open *)
(* connection is the server's.  A cp to the PS2 that ends has copied the   *)
(* file if the server stays, a cp in either direction if besides none of   *)
(* its answers is too long, but for what a fetch does not look at.         *)
(***************************************************************************)
EXTENDS NetFs, SequenceTheorems, TLAPS

Results == -1..MaxSize \cup {1}
Item == [t : {"rly", "torn", "long", "data"}, op : Types, r : Results]

Copying == {"open", "end", "set", "read", "write", "close"}

AllData(s) == \A k \in 1..Len(s) : s[k].t = "data"

\* A reply comes first, or behind what is left of an earlier one, and only
\* data follows it.
Shape(s) ==
    /\ \A k \in 1..Len(s) : s[k].t = "data" => s[k].r \in 0..MaxSize
    /\ s # <<>> /\ s[1].t # "data" => \A k \in 2..Len(s) : s[k].t = "data"

\* What is known of cli_copy()'s and cli_list()'s variables at each request.
PointInv ==
    /\ at = "idle" => phase = "run"
    /\ phase # "run" => at \in Points
    /\ at = "one" => job \in Single
    /\ at \in {"dopen", "dread", "dclose"} => job = "ls"
    /\ at \in {"open", "close"} => job \in {"get", "put"}
    /\ at \in {"end", "set", "read"} => job = "get"
    /\ at = "write" => job = "put"
    /\ job = "put" /\ at \in Copying => size = len
    /\ at = "read" => size > 0
    /\ at = "write" => total < size
    /\ at = "open" => total = 0
    /\ off <= len /\ pos <= len

\* The connection: a request is answered or lost before the next one, and what
\* an open connection carries is whole.
WireInv ==
    /\ Shape(down) /\ Len(req.data) <= MaxSize
    /\ conn # "up" => req = NoReq
    /\ conn = "none" => down = <<>>
    /\ req # NoReq => AllData(down)
    /\ conn = "up" => \A k \in 1..Len(down) : down[k].t # "torn"
    /\ InStep /\ OwnResult

IndInv == TypeOK /\ PointInv /\ WireInv

(***************************************************************************)
(* An upload, on a server that stays but may refuse, fall short, or answer *)
(* with another packet or with one that is too long.                       *)
(***************************************************************************)

\* A cp to the PS2 that ends normally has written every unit once and in order.
UploadFaithful == outcome = "ok" /\ job = "put" => dst = Units(len)

\* The request under way is the command's, and a command that runs has not
\* ended.
TurnInv ==
    /\ conn \in {"none", "up"}
    /\ at # "idle" => outcome = "none"
    /\ req # NoReq => req.op = WireOp(at) /\ req.form = Form(at)

\* With n units counted of the o that were read: if they are all, they were
\* stored.  What the server did not take is counted nowhere, and is missing
\* from the count for ever.
Tallied(n, o) == n <= o /\ (n = o => dst = Units(o))

WriteInv ==
    LET o == off - Len(req.data) IN
    /\ total <= off
    /\ phase = "run" => Tallied(total, off)
    /\ phase = "wait" /\ req # NoReq =>
          Tallied(total, o) /\ o >= 0 /\ \A k \in 1..Len(req.data) : req.data[k] = o + k
    /\ phase = "wait" /\ down # <<>> /\ Head(down).t = "rly" /\ Head(down).op = "write" =>
          Tallied(total + Head(down).r, off)
    /\ phase = "ret" => Tallied(total + ret, off)

UploadInv ==
    /\ TurnInv
    /\ at = "open" => dst = <<>> /\ off = 0
    /\ at = "write" => WriteInv
    /\ at = "close" /\ job = "put" => dst = Units(len)
    /\ UploadFaithful

(***************************************************************************)
(* A fetch, on a server that does what it is asked to, refuses a read, or  *)
(* answers with another packet, which costs the connection.                *)
(***************************************************************************)
Answered == phase = "wait" /\ down # <<>>

\* The reply under way is the command's, or another packet.
ReplyInv ==
    /\ phase # "wait" \/ req # NoReq => down = <<>>
    /\ Answered => Head(down).t = "rly"
    /\ Answered /\ at \in Copying => Head(down).op \in {Op(at), "other"}

Told == Answered /\ Head(down).op # "other"

Here == len - size          \* how far a fetch has come
Want == Less(Chunk, size)   \* what the next read should bring

\* A refused read leaves the server where it was.
Astray == "short" \in Faults /\ spilt

\* A read brings the next piece of the file.
ReadInv ==
    /\ ~Answered /\ phase # "ret" => pos = Here
    /\ Told =>
          /\ Head(down).r = Want /\ Len(down) = Want + 1 /\ pos = Here + Want
          /\ \A k \in 1..Want : down[k + 1].r = Here + k
    /\ phase = "ret" => pos = Here + Want /\ \A k \in 1..Want : buffer[k] = Here + k

\* On a connection that is up.
GetInv ==
    /\ at = "end" => dst = <<>> /\ (Told => Head(down).r = len)
    /\ at = "end" /\ phase = "ret" => ret = len
    /\ at = "set" => dst = <<>> /\ size = len
    /\ at = "set" /\ (Told \/ phase = "ret") => pos = 0
    /\ at = "read" =>
          size <= len /\ (spilt \/ dst = Units(Here)) /\ (Astray \/ ReadInv)

\* cp has written every unit, once and in order, or spilt some.
Made == dst = Units(len) \/ (job = "get" /\ spilt)

CopyMade == outcome = "ok" /\ job \in {"get", "put"} => Made

\* A fetch that lost its connection comes to its close, and no further.
FetchInv ==
    /\ ReplyInv
    /\ at = "open" => pos = 0
    /\ conn = "up" => GetInv
    /\ at = "close" => Made \/ (conn = "none" /\ phase = "run")
    /\ CopyMade

(***************************************************************************)
(* A copy moves on, when nothing goes wrong at the server.                 *)
(***************************************************************************)

\* The connection is there, and who waits for an answer is waited for.
PlainInv ==
    at \in Copying =>
        /\ conn = "up" /\ (phase = "wait" => req # NoReq \/ Answered)
        /\ Answered => Head(down).op = Op(at)
        /\ req # NoReq => req.form = "whole"

\* An upload has counted what it read, but for the piece under way.
PaceInv ==
    at = "write" =>
        /\ phase = "run" => total = off
        /\ phase # "run" => total < off
        /\ phase = "wait" /\ req # NoReq => total + Len(req.data) = off
        /\ Answered => total + Head(down).r = off
        /\ phase = "ret" => total + ret = off

\* The reply, whole.
Arrived ==
    /\ down # <<>> /\ Head(down).op = Expected /\ Head(down).t = "rly"
    /\ at = "read" => Head(down).r < Len(down)

\* cli_copy() never waits in vain: a request it waits on is the server's to
\* answer, or its reply is there.
NeverInVain == at \in Copying => conn = "up" /\ (phase = "wait" => Served \/ Arrived)

\* A bound on the requests a copy has still to make, and on the steps of the one
\* it is in.
Left ==
    CASE at = "open" -> MaxSize + 4
      [] at = "end" -> MaxSize + 3
      [] at = "set" -> size + 2
      [] at = "read" -> size + 1
      [] at = "write" -> size - total + 1
      [] OTHER -> 1

Rank ==
    CASE phase = "run" -> 3
      [] phase = "wait" /\ req # NoReq -> 2
      [] phase = "wait" /\ req = NoReq -> 1
      [] OTHER -> 0

Variant == 4 * Left + Rank

\* Every step brings a copy nearer to its end.
Nearer ==
    at \in Copying =>
        \/ at' = "idle"
        \/ at' \in Copying /\ Variant \in Nat /\ Variant' \in Nat /\ Variant' < Variant

-----------------------------------------------------------------------------
(* Sequences.                                                              *)

LEMMA TailFacts ==
    ASSUME NEW S, NEW s \in Seq(S), s # <<>>
    PROVE  /\ Tail(s) \in Seq(S) /\ Len(Tail(s)) = Len(s) - 1 /\ Len(s) \in Nat \ {0}
           /\ \A k \in 1..Len(s) - 1 : Tail(s)[k] = s[k + 1]
           /\ Head(s) = s[1] /\ Head(s) \in S /\ \A k \in 1..Len(s) : s[k] \in S
BY HeadTailProperties, ElementOfSeq, LenProperties, EmptySeq

LEMMA PrefixFacts ==
    ASSUME NEW S, NEW s \in Seq(S), NEW k \in 0..Len(s)
    PROVE  /\ SubSeq(s, 1, k) \in Seq(S) /\ Len(SubSeq(s, 1, k)) = k
           /\ \A j \in 1..k : SubSeq(s, 1, k)[j] = s[j]
<1>1. Len(s) \in Nat /\ k \in Nat /\ k <= Len(s)
  BY LenProperties
<1>2. \A j \in 1..k : s[j] \in S
  BY <1>1, ElementOfSeq
<1>3. /\ SubSeq(s, 1, k) \in Seq(S)
      /\ Len(SubSeq(s, 1, k)) = IF 1 <= k THEN k - 1 + 1 ELSE 0
      /\ \A j \in 1..k - 1 + 1 : SubSeq(s, 1, k)[j] = s[1 + j - 1]
  BY <1>1, <1>2, SubSeqProperties
<1> QED BY <1>1, <1>3

LEMMA JoinFacts ==
    ASSUME NEW S, NEW s \in Seq(S), NEW x \in S, NEW e \in Seq(S)
    PROVE  LET d == s \o <<x>> \o e IN
           /\ d \in Seq(S) /\ Len(s) \in Nat /\ Len(e) \in Nat
           /\ Len(d) = Len(s) + 1 + Len(e) /\ d[Len(s) + 1] = x
           /\ \A k \in 1..Len(s) : d[k] = s[k]
           /\ \A k \in 1..Len(e) : d[Len(s) + 1 + k] = e[k]
<1> DEFINE a == s \o <<x>>  d == a \o e
<1>1. /\ <<x>> \in Seq(S) /\ Len(<<x>>) = 1 /\ <<x>>[1] = x
      /\ Len(s) \in Nat /\ Len(e) \in Nat
  <2>1. <<x>> \in Seq(S) /\ Len(<<x>>) = 1 /\ <<x>>[1] = x
    OBVIOUS
  <2> QED BY <2>1, LenProperties
<1>2. /\ a \in Seq(S) /\ Len(a) = Len(s) + 1
      /\ \A k \in 1..Len(s) + 1 : a[k] = IF k <= Len(s) THEN s[k] ELSE <<x>>[k - Len(s)]
  BY <1>1, ConcatProperties
<1> HIDE DEF a
<1>3. /\ d \in Seq(S) /\ Len(d) = Len(a) + Len(e)
      /\ \A k \in 1..Len(a) + Len(e) : d[k] = IF k <= Len(a) THEN a[k] ELSE e[k - Len(a)]
  <2>1. a \in Seq(S)
    BY <1>2
  <2> QED BY <2>1, ConcatProperties
<1> HIDE DEF d
<1>4. d[Len(s) + 1] = x
  <2>1. Len(s) + 1 \in 1..Len(a) + Len(e) /\ Len(s) + 1 \in 1..Len(s) + 1
    BY <1>1, <1>2
  <2> QED BY <1>1, <1>2, <1>3, <2>1
<1>5. \A k \in 1..Len(s) : d[k] = s[k]
  <2> TAKE k \in 1..Len(s)
  <2>1. k \in 1..Len(a) + Len(e) /\ k \in 1..Len(s) + 1
    BY <1>1, <1>2
  <2> QED BY <1>1, <1>2, <1>3, <2>1
<1>6. \A k \in 1..Len(e) : d[Len(s) + 1 + k] = e[k]
  <2> TAKE k \in 1..Len(e)
  <2> DEFINE m == Len(s) + 1 + k
  <2>1. m \in 1..Len(a) + Len(e) /\ m - Len(a) = k /\ ~(m <= Len(a))
    BY <1>1, <1>2
  <2> HIDE DEF m
  <2>2. d[m] = e[m - Len(a)]
    BY <1>3, <2>1
  <2> QED BY <2>1, <2>2 DEF m
<1> QED BY <1>1, <1>2, <1>3, <1>4, <1>5, <1>6 DEF d, a

LEMMA LessFacts ==
    ASSUME NEW a \in Int, NEW b \in Int
    PROVE  /\ Less(a, b) \in Int /\ Less(a, b) <= a /\ Less(a, b) <= b
           /\ Less(a, b) = a \/ Less(a, b) = b
BY DEF Less

\* What the server puts behind what is left of an earlier reply.
LEMMA ReplyFacts ==
    ASSUME MaxSize \in Nat, NEW s \in Seq(Item), AllData(s), Shape(s),
           NEW x \in Item, x.t \in {"rly", "long"},
           NEW e \in Seq(Item), AllData(e), \A k \in 1..Len(e) : e[k].r \in 0..MaxSize
    PROVE  LET d == s \o <<x>> \o e IN
           d \in Seq(Item) /\ Shape(d) /\ \A k \in 1..Len(d) : d[k].t # "torn"
<1> DEFINE d == s \o <<x>> \o e
<1>1. /\ d \in Seq(Item) /\ Len(s) \in Nat /\ Len(e) \in Nat
      /\ Len(d) = Len(s) + 1 + Len(e) /\ d[Len(s) + 1] = x
      /\ \A k \in 1..Len(s) : d[k] = s[k]
      /\ \A k \in 1..Len(e) : d[Len(s) + 1 + k] = e[k]
  BY JoinFacts
<1> HIDE DEF d
<1>2. ASSUME NEW k \in 1..Len(d)
      PROVE  \/ k \in 1..Len(s) /\ d[k] = s[k]
             \/ k = Len(s) + 1 /\ d[k] = x
             \/ \E j \in 1..Len(e) : k = Len(s) + 1 + j /\ d[k] = e[j]
  <2>1. CASE k <= Len(s)
    BY <1>1, <2>1
  <2>2. CASE k = Len(s) + 1
    BY <1>1, <2>2
  <2>3. CASE k > Len(s) + 1
    <3> DEFINE j == k - Len(s) - 1
    <3>1. j \in 1..Len(e) /\ k = Len(s) + 1 + j
      BY <1>1, <2>3
    <3> HIDE DEF j
    <3>2. d[k] = e[j]
      BY <1>1, <3>1
    <3> QED BY <3>1, <3>2, Zenon
  <2>4. k <= Len(s) \/ k = Len(s) + 1 \/ k > Len(s) + 1
    BY <1>1
  <2> QED BY <2>1, <2>2, <2>3, <2>4, Zenon
<1>3. \A k \in 1..Len(d) : d[k].t # "torn" /\ (d[k].t = "data" => d[k].r \in 0..MaxSize)
  BY <1>2 DEF AllData, Shape
<1>4. ASSUME d # <<>>, d[1].t # "data", NEW k \in 2..Len(d)
      PROVE  d[k].t = "data"
  <2>1. Len(s) = 0
    <3>1. CASE Len(s) # 0
      <4>1. 1 \in 1..Len(s)
        BY <1>1, <3>1
      <4> QED BY <1>1, <1>4, <4>1 DEF AllData
    <3> QED BY <3>1
  <2>2. k \in 1..Len(d) /\ k # Len(s) + 1 /\ k \notin 1..Len(s)
    BY <1>1, <2>1
  <2> QED BY <1>2, <2>2 DEF AllData
<1>5. Shape(d)
  BY <1>3, <1>4 DEF Shape
<1> QED BY <1>1, <1>3, <1>5 DEF d

-----------------------------------------------------------------------------
(* The server.                                                             *)

\* What every answer has in common.
Replied ==
    /\ conn = "up" /\ req # NoReq /\ req' = NoReq
    /\ \E x \in Item, e \in Seq(Item) :
          /\ x.t \in {"rly", "long"} /\ AllData(e)
          /\ \A k \in 1..Len(e) : e[k].r \in 0..MaxSize
          /\ down' = down \o <<x>> \o e
    /\ UNCHANGED <<conn, recv_packet, job, at, phase, ret, fresh, outcome, locs, len>>

LEMMA ReqFacts ==
    ASSUME TypeOK
    PROVE  /\ req.op \in Types /\ req.data \in Seq(1..MaxSize)
           /\ req.op \notin {"none"} => req # NoReq
BY DEF TypeOK, NoReq

LEMMA ItemFacts ==
    ASSUME NEW t \in {"rly", "torn", "long", "data"}, NEW op \in Types, NEW r \in Results
    PROVE  /\ [t |-> t, op |-> op, r |-> r] \in Item /\ Rly(op, r) \in Item
           /\ [Rly(op, r) EXCEPT !.t = t] = [t |-> t, op |-> op, r |-> r]
BY DEF Item, Rly

LEMMA DataFacts ==
    ASSUME NEW r \in Results
    PROVE  Data(r) \in Item /\ Data(r).t = "data" /\ Data(r).r = r
BY DEF Item, Data, Types

LEMMA RangeFacts == 0..MaxSize \subseteq Results /\ {-1, 0, 1} \subseteq Results /\ MaxSize \in Nat
BY NetFsConstants DEF Results

LEMMA AnswersReply ==
    ASSUME TypeOK, conn = "up", req # NoReq, NEW r \in Results,
           NEW data \in Seq(0..MaxSize), Answers(r, data)
    PROVE  Replied
<1> DEFINE e == [k \in 1..Len(data) |-> Data(data[k])]
           x == Rly(req.op, r)
<1>1. Len(data) \in Nat /\ \A k \in 1..Len(data) : data[k] \in 0..MaxSize
  BY ElementOfSeq, LenProperties
<1>2. \A k \in 1..Len(data) : Data(data[k]) \in Item
  <2> TAKE k \in 1..Len(data)
  <2>1. data[k] \in Results
    BY <1>1, RangeFacts
  <2> QED BY <2>1, DataFacts
<1>3. e \in Seq(Item) /\ Len(e) = Len(data) /\ \A k \in 1..Len(data) : e[k] = Data(data[k])
  BY <1>1, <1>2
<1>4. x \in Item /\ x.t = "rly"
  <2>1. x \in Item
    BY ItemFacts, ReqFacts
  <2> QED BY <2>1 DEF Rly
<1>5. down' = down \o <<x>> \o e
  BY DEF Answers
<1>6. AllData(e) /\ \A k \in 1..Len(e) : e[k].r \in 0..MaxSize
  <2> HIDE DEF e
  <2>1. ASSUME NEW k \in 1..Len(e) PROVE e[k].t = "data" /\ e[k].r \in 0..MaxSize
    <3>1. k \in 1..Len(data) /\ data[k] \in Results /\ data[k] \in 0..MaxSize
      BY <1>1, <1>3, RangeFacts
    <3> QED BY <1>3, <3>1, DataFacts
  <2> QED BY <2>1 DEF AllData
<1> HIDE DEF e, x
<1>7. \E y \in Item, f \in Seq(Item) :
          /\ y.t \in {"rly", "long"} /\ AllData(f)
          /\ \A k \in 1..Len(f) : f[k].r \in 0..MaxSize
          /\ down' = down \o <<y>> \o f
  <2>1. x.t \in {"rly", "long"}
    BY <1>4
  <2> QED BY <1>3, <1>4, <1>5, <1>6, <2>1, Zenon
<1> QED BY <1>7 DEF Answers, Replied

LEMMA EmptyData == <<>> \in Seq(0..MaxSize) /\ <<>> \in Seq(Item) /\ Len(<<>>) = 0
OBVIOUS

LEMMA ReadReplies ==
    ASSUME IndInv, ServeRead
    PROVE  Replied /\ pos' \in 0..MaxSize /\ pos' <= len /\ dst' = dst
<1>1. conn = "up" /\ req # NoReq /\ dst' = dst
  BY DEF ServeRead, Served
<1>2. Chunk \in Int /\ Chunk > 0 /\ len \in 0..MaxSize /\ pos \in 0..MaxSize /\ pos <= len /\ TypeOK
  BY NetFsConstants DEF IndInv, TypeOK, PointInv
<1>3. CASE Answers(-1, <<>>) /\ UNCHANGED pos
  <2>1. -1 \in Results /\ <<>> \in Seq(0..MaxSize)
    BY RangeFacts, EmptyData
  <2>2. Replied
    BY <1>1, <1>2, <1>3, <2>1, AnswersReply
  <2> QED BY <1>1, <1>2, <1>3, <2>2
<1> DEFINE n == Less(Chunk, len - pos)
           data == [k \in 1..n |-> pos + k]
<1>4. CASE Answers(n, data) /\ pos' = pos + n
  <2>1. n \in 0..MaxSize /\ pos + n <= len
    <3>1. n <= len - pos /\ (n = Chunk \/ n = len - pos) /\ n \in Int
      BY <1>2 DEF Less
    <3> HIDE DEF n
    <3> QED BY <1>2, <3>1, RangeFacts
  <2>2. n \in Results
    BY <2>1, RangeFacts
  <2>3. data \in Seq(0..MaxSize)
    <3> HIDE DEF n
    <3>1. \A k \in 1..n : pos + k \in 0..MaxSize
      BY <1>2, <2>1, RangeFacts
    <3> QED BY <2>1, <3>1
  <2>4. Replied
    <3> HIDE DEF n, data
    <3> QED BY <1>1, <1>2, <1>4, <2>2, <2>3, AnswersReply
  <2> HIDE DEF n, data
  <2> QED BY <1>1, <1>2, <1>4, <2>1, <2>4, RangeFacts
<1> QED BY <1>3, <1>4 DEF ServeRead

LEMMA WriteReplies ==
    ASSUME IndInv, ServeWrite
    PROVE  Replied /\ pos' = pos /\ dst' \in Seq(0..MaxSize)
<1>1. conn = "up" /\ req # NoReq /\ pos' = pos
  BY DEF ServeWrite, Served
<1>2. TypeOK /\ dst \in Seq(0..MaxSize)
  BY DEF IndInv, TypeOK
<1>3. req.data \in Seq(1..MaxSize) /\ Len(req.data) \in Nat
  BY <1>2, ReqFacts, LenProperties
<1>4. req.data \in Seq(0..MaxSize)
  BY <1>3, RangeFacts, ElementOfSeq

<1>5. CASE Answers(-1, <<>>) /\ UNCHANGED dst
  <2>1. -1 \in Results /\ <<>> \in Seq(0..MaxSize)
    BY RangeFacts, EmptyData
  <2>2. Replied
    BY <1>1, <1>2, <1>5, <2>1, AnswersReply
  <2> QED BY <1>1, <1>2, <1>5, <2>2
<1>6. CASE Answers(Len(req.data), <<>>) /\ dst' = dst \o req.data
  <2>1. Len(req.data) \in Results /\ <<>> \in Seq(0..MaxSize)
    BY <1>3, RangeFacts, EmptyData DEF IndInv, WireInv
  <2>2. Replied
    BY <1>1, <1>2, <1>6, <2>1, AnswersReply
  <2>3. dst' \in Seq(0..MaxSize)
    BY <1>2, <1>4, <1>6, ConcatProperties
  <2> QED BY <1>1, <2>2, <2>3
<1>7. CASE \E n \in 0..Len(req.data) - 1 :
                Answers(n, <<>>) /\ dst' = dst \o SubSeq(req.data, 1, n)
  <2>1. PICK n \in 0..Len(req.data) - 1 :
                Answers(n, <<>>) /\ dst' = dst \o SubSeq(req.data, 1, n)
    BY <1>7
  <2>2. n \in 0..Len(req.data)
    BY <1>3
  <2>3. n \in Results /\ <<>> \in Seq(0..MaxSize)
    BY <1>3, <2>2, RangeFacts, EmptyData DEF IndInv, WireInv
  <2>4. Replied
    BY <1>1, <1>2, <2>1, <2>3, AnswersReply
  <2>5. SubSeq(req.data, 1, n) \in Seq(0..MaxSize)
    BY <1>4, <2>2, PrefixFacts
  <2>6. dst' \in Seq(0..MaxSize)
    BY <1>2, <2>1, <2>5, ConcatProperties
  <2> QED BY <1>1, <2>4, <2>6
<1> QED BY <1>5, <1>6, <1>7 DEF ServeWrite

LEMMA OthersReply ==
    ASSUME IndInv, ServeSeek \/ ServeDread \/ ServeOther \/ ServeNoLength
    PROVE  Replied /\ pos' \in 0..MaxSize /\ pos' <= len /\ dst' = dst
<1>1. conn = "up" /\ req # NoReq /\ dst' = dst
  BY DEF ServeSeek, ServeDread, ServeOther, ServeNoLength, Served, NoReq
<1>2. TypeOK /\ len \in 0..MaxSize /\ pos \in 0..MaxSize /\ pos <= len /\ MaxSize \in Nat
  BY RangeFacts DEF IndInv, TypeOK, PointInv
<1>3. ASSUME NEW r \in Results, Answers(r, <<>>) PROVE Replied
  <2>1. <<>> \in Seq(0..MaxSize)
    BY EmptyData
  <2> QED BY <1>1, <1>2, <1>3, <2>1, AnswersReply
<1>4. {0, 1, -1} \subseteq Results /\ len \in Results
  BY <1>2, RangeFacts
<1>5. CASE ServeSeek
  <2>1. (IF at = "end" THEN len ELSE 0) \in Results
    BY <1>4
  <2>2. Replied
    BY <1>3, <1>5, <2>1 DEF ServeSeek
  <2> QED BY <1>1, <1>2, <1>5, <2>2 DEF ServeSeek
<1>6. CASE ServeDread
  <2>1. (IF pos < len THEN 1 ELSE 0) \in Results
    BY <1>4
  <2>2. Replied
    BY <1>3, <1>6, <2>1 DEF ServeDread
  <2> QED BY <1>1, <1>2, <1>6, <2>2 DEF ServeDread, Less
<1>7. CASE ServeOther \/ ServeNoLength
  <2>1. PICK r \in {-1, 0, 1} : Answers(r, <<>>)
    BY <1>7 DEF ServeOther, ServeNoLength
  <2>2. Replied
    BY <1>3, <1>4, <2>1
  <2>3. pos' = pos
    BY <1>7 DEF ServeOther, ServeNoLength
  <2> QED BY <1>1, <1>2, <2>2, <2>3
<1> QED BY <1>5, <1>6, <1>7

LEMMA FaultsReply ==
    ASSUME IndInv, ServeWrong \/ ServeLong
    PROVE  Replied /\ pos' = pos /\ dst' = dst
<1>1. TypeOK /\ down \in Seq(Item) /\ req.op \in Types /\ 0 \in Results
  BY RangeFacts, ReqFacts DEF IndInv, TypeOK, Item, Results
<1>2. conn = "up" /\ req # NoReq /\ req' = NoReq
  BY ReqFacts, <1>1 DEF ServeWrong, ServeLong, Served, NoReq
<1>3. UNCHANGED <<conn, recv_packet, job, at, phase, ret, fresh, outcome, locs, len, pos, dst>>
  BY DEF ServeWrong, ServeLong, file
<1>4. ASSUME NEW x \in Item, NEW e \in Seq(Item), x.t \in {"rly", "long"}, AllData(e),
             \A k \in 1..Len(e) : e[k].r \in 0..MaxSize, down' = down \o <<x>> \o e
      PROVE  Replied
  <2>1. \E y \in Item, f \in Seq(Item) :
          /\ y.t \in {"rly", "long"} /\ AllData(f)
          /\ \A k \in 1..Len(f) : f[k].r \in 0..MaxSize
          /\ down' = down \o <<y>> \o f
    BY <1>4, Zenon
  <2> QED BY <1>2, <1>3, <2>1 DEF Replied
<1>5. CASE ServeWrong
  <2> DEFINE x == Rly("other", 0)
  <2>1. x \in Item /\ x.t \in {"rly", "long"}
    BY <1>1, ItemFacts DEF Rly, Item, Types
  <2>2. down' = Append(down, x)
    BY <1>5 DEF ServeWrong
  <2> HIDE DEF x
  <2>3. down' = down \o <<x>> \o <<>>
    <3>1. Append(down, x) = down \o <<x>> /\ Append(down, x) \in Seq(Item)
      BY <1>1, <2>1, AppendIsConcat, AppendProperties
    <3>2. Append(down, x) \o <<>> = Append(down, x)
      BY <3>1, ConcatEmptySeq
    <3> QED BY <2>2, <3>1, <3>2, Zenon
  <2>4. AllData(<<>>) /\ \A k \in 1..Len(<<>>) : <<>>[k].r \in 0..MaxSize
    BY DEF AllData
  <2>5. Replied
    BY <1>4, <2>1, <2>3, <2>4, EmptyData, Zenon
  <2> QED BY <1>3, <2>5
<1>6. CASE ServeLong
  <2> DEFINE x == [Rly(req.op, 0) EXCEPT !.t = "long"]  e == <<Data(0)>>
  <2>1. x \in Item /\ x.t = "long"
    BY <1>1 DEF Rly, Item
  <2>2. Data(0) \in Item /\ Data(0).t = "data" /\ Data(0).r \in 0..MaxSize
    BY <1>1, DataFacts, RangeFacts
  <2>3. down' = down \o <<x, Data(0)>>
    BY <1>6 DEF ServeLong
  <2>4. AllData(e) /\ (\A k \in 1..Len(e) : e[k].r \in 0..MaxSize) /\ e \in Seq(Item)
    BY <2>2 DEF AllData
  <2> HIDE DEF x
  <2>5. down' = down \o <<x>> \o e
    BY <1>1, <2>1, <2>2, <2>3
  <2> HIDE DEF e
  <2>6. x.t \in {"rly", "long"}
    BY <2>1
  <2>7. Replied
    BY <1>4, <2>1, <2>4, <2>5, <2>6, Zenon
  <2> QED BY <1>3, <2>7
<1> QED BY <1>3, <1>5, <1>6

\* Whatever the server does is a reply.
LEMMA ServerReplies ==
    ASSUME IndInv, Server \/ ServeNoLength \/ ServeWrong \/ ServeLong
    PROVE  Replied /\ pos' \in 0..MaxSize /\ pos' <= len /\ dst' \in Seq(0..MaxSize)
<1>1. pos \in 0..MaxSize /\ pos <= len /\ dst \in Seq(0..MaxSize)
  BY DEF IndInv, TypeOK, PointInv
<1> QED BY <1>1, ReadReplies, WriteReplies, OthersReply, FaultsReply DEF Server

-----------------------------------------------------------------------------
(* The request.                                                            *)

Request0 == [op : Types, data : Seq(1..MaxSize), form : Forms]

\* The type invariant, in parts.
NetTypes ==
    /\ conn \in {"none", "up", "eof", "closing", "reset", "dead"}
    /\ req \in Request0 /\ down \in Seq(Item)
    /\ recv_packet \in [op : Types, r : Results]

ControlTypes ==
    /\ job \in {"get", "put", "ls"} \cup Single
    /\ at \in Points \cup {"idle", "hung", "killed"}
    /\ phase \in {"run", "wait", "ret"}
    /\ ret \in Results /\ outcome \in {"none", "ok", "failed"}

LocalTypes ==
    /\ size \in -Chunk..MaxSize \cup {1} /\ total \in -2..2 * MaxSize
    /\ off \in 0..MaxSize /\ buffer \in [1..Chunk -> 0..MaxSize]
    /\ fd \in Results
    /\ len \in 0..MaxSize /\ pos \in 0..MaxSize
    /\ dst \in Seq(0..MaxSize)

GhostTypes == fresh \in BOOLEAN /\ old \in 0..MaxSize /\ spilt \in BOOLEAN

LEMMA TypeParts == TypeOK <=> NetTypes /\ ControlTypes /\ LocalTypes /\ GhostTypes
BY DEF TypeOK, NetTypes, ControlTypes, LocalTypes, GhostTypes, Request0, Item, Results

LEMMA OpFacts ==
    ASSUME IndInv, at \in Points
    PROVE  Op(at) \in Types /\ WireOp(at) \in Types \ {"none", "other"} /\ Expected \in Types
<1>1. at = "one" => job \in Single
  BY DEF IndInv, PointInv
<1> QED BY <1>1 DEF Op, WireOp, Expected, Points, Types, Single

LEMMA PieceFacts ==
    ASSUME IndInv
    PROVE  /\ Piece \in 0..MaxSize /\ Piece <= Chunk
           /\ off + Piece <= len /\ off + Piece \in 0..MaxSize
<1>1. /\ Chunk \in Nat /\ Chunk > 0 /\ MaxSize \in Nat
      /\ len \in 0..MaxSize /\ off \in 0..MaxSize /\ off <= len
  BY NetFsConstants DEF IndInv, TypeOK, PointInv
<1> QED BY <1>1 DEF Piece, Less

LEMMA RequestFacts ==
    ASSUME IndInv, at \in Points
    PROVE  Request \in Request0 /\ Len(Request.data) <= MaxSize /\ Request # NoReq
<1> DEFINE piece == [k \in 1..Piece |-> off + k]
           data == IF at = "write" THEN piece ELSE <<>>
<1>1. Piece \in 0..MaxSize /\ off + Piece \in 0..MaxSize /\ off \in 0..MaxSize /\ MaxSize \in Nat
  BY PieceFacts, RangeFacts DEF IndInv, TypeOK
<1>2. data \in Seq(1..MaxSize) /\ Len(data) <= MaxSize
  <2>1. \A k \in 1..Piece : off + k \in 1..MaxSize
    BY <1>1
  <2>2. piece \in Seq(1..MaxSize) /\ Len(piece) = Piece /\ Piece <= MaxSize
    BY <1>1, <2>1
  <2>3. <<>> \in Seq(1..MaxSize) /\ Len(<<>>) <= MaxSize
    BY <1>1
  <2> HIDE DEF piece
  <2> QED BY <2>2, <2>3
<1>3. Form(at) \in Forms
  BY DEF Form, Forms
<1>4. WireOp(at) \in Types /\ WireOp(at) # "none"
  BY OpFacts
<1>5. Request = [op |-> WireOp(at), data |-> data, form |-> Form(at)]
  BY Zenon DEF Request
<1> HIDE DEF piece, data
<1>6. Request \in Request0
  BY <1>2, <1>3, <1>4, <1>5, Zenon DEF Request0
<1>7. Request.data = data /\ Request.op = WireOp(at)
  BY <1>5
<1>8. NoReq.op = "none"
  BY DEF NoReq
<1>9. Request # NoReq
  BY <1>4, <1>7, <1>8, Zenon
<1> QED BY <1>2, <1>6, <1>7, <1>9, Zenon

LEMMA NoReqFacts ==
    /\ NoReq \in Request0 /\ Len(NoReq.data) = 0
    /\ <<>> \in Seq(Item) /\ Shape(<<>>) /\ AllData(<<>>)
<1>1. "whole" \in Forms /\ <<>> \in Seq(1..MaxSize) /\ "none" \in Types
  BY DEF Types, Forms
<1>2. NoReq \in Request0
  BY <1>1, Zenon DEF NoReq, Request0
<1>3. Len(NoReq.data) = 0 /\ <<>> \in Seq(Item)
  BY DEF NoReq
<1>4. Shape(<<>>) /\ AllData(<<>>)
  BY DEF Shape, AllData
<1> QED BY <1>2, <1>3, <1>4

LEMMA GhostStep == TypeOK /\ [Next]_vars => GhostTypes'
<1> SUFFICES ASSUME TypeOK, [Next]_vars PROVE GhostTypes'
  OBVIOUS
<1>1. fresh \in BOOLEAN /\ old \in 0..MaxSize /\ spilt \in BOOLEAN
  BY Zenon DEF TypeOK
<1>2. CASE \E j \in Jobs, n, o \in 0..MaxSize : Start(j, n, o)
  BY <1>1, <1>2, Zenon DEF Start, GhostTypes
<1>3. CASE Ask \/ AcceptReply \/ AcceptLong
  BY <1>1, <1>3, Zenon DEF Ask, AcceptReply, AcceptLong, file, GhostTypes
<1>4. CASE \/ AcceptTorn \/ AcceptOther \/ AcceptEof \/ AcceptReset
           \/ OpenReturns \/ SeekReturns \/ WriteReturns
           \/ LastReturns \/ DopenReturns \/ DreadReturns
  <2>1. UNCHANGED <<fresh, old, spilt>>
    BY <1>4, Zenon DEF AcceptTorn, AcceptOther, AcceptEof, AcceptReset, OpenReturns,
       SeekReturns, WriteReturns, LastReturns, DopenReturns, DreadReturns, file
  <2> QED BY <1>1, <2>1, Zenon DEF GhostTypes
<1>5. CASE ReadReturns
  BY <1>1, <1>5, Zenon DEF ReadReturns, GhostTypes
<1>6. CASE Server \/ ServeNoLength \/ ServeWrong \/ ServeLong \/ OtherTraffic
  <2>1. fresh' = fresh /\ old' = old /\ (spilt' = spilt \/ spilt' = TRUE)
    BY <1>6, Zenon DEF Server, ServeRead, ServeWrite, ServeSeek, ServeDread, ServeOther,
       ServeNoLength, Answers, ServeWrong, ServeLong, OtherTraffic, file
  <2> QED BY <1>1, <2>1, Zenon DEF GhostTypes
<1>7. CASE \E how \in {"eof", "reset"}, keep \in 0..Len(down) : Die(how, keep)
  BY <1>1, <1>7, Zenon DEF Die, file, GhostTypes
<1>8. CASE UNCHANGED vars
  BY <1>1, <1>8, Zenon DEF vars, file, GhostTypes
<1> QED BY <1>2, <1>3, <1>4, <1>5, <1>6, <1>7, <1>8, Zenon DEF Next, Command

-----------------------------------------------------------------------------
(* The connection.                                                         *)

NetInv == NetTypes /\ WireInv

LEMMA KeptNet ==
    ASSUME IndInv, UNCHANGED net, phase' = phase \/ phase' # "ret",
           phase # "wait" \/ phase' = "wait", phase' = phase => fresh' = fresh
    PROVE  NetInv'
<1>1. NetTypes /\ WireInv
  BY TypeParts DEF IndInv
<1>2. UNCHANGED <<conn, req, down, recv_packet>>
  BY DEF net
<1>3. NetTypes'
  BY <1>1, <1>2 DEF NetTypes
<1>4. Shape(down') /\ (AllData(down) => AllData(down'))
  BY <1>1, <1>2, Zenon DEF WireInv
<1>5. InStep' /\ OwnResult'
  <2>1. InStep'
    BY <1>1, <1>2 DEF WireInv, InStep
  <2>2. OwnResult'
    <3> SUFFICES ASSUME phase' = "ret", conn' = "up" PROVE fresh'
      BY DEF OwnResult
    <3>1. phase = "ret" /\ fresh' = fresh /\ conn = "up"
      BY <1>2
    <3>2. fresh
      BY <1>1, <3>1 DEF WireInv, OwnResult
    <3> QED BY <3>1, <3>2, Zenon
  <2> QED BY <2>1, <2>2
<1>6. WireInv'
  BY <1>1, <1>2, <1>4, <1>5 DEF WireInv
<1> QED BY <1>3, <1>6 DEF NetInv

LEMMA StartWire ==
    ASSUME IndInv, NEW j \in Jobs, NEW n \in 0..MaxSize, NEW o \in 0..MaxSize, Start(j, n, o)
    PROVE  NetInv'
<1>1. NetTypes /\ WireInv /\ phase = "run" /\ phase' = "run"
  BY TypeParts DEF IndInv, PointInv, Start
<1>2. /\ UNCHANGED <<req, down, recv_packet>>
      /\ conn' = conn \/ (conn = "none" /\ conn' = "up")
  BY DEF Start
<1>3. NetTypes'
  BY <1>1, <1>2 DEF NetTypes
<1>4. Shape(down') /\ (AllData(down) => AllData(down'))
  BY <1>1, <1>2, Zenon DEF WireInv
<1>5. CASE conn = "none"
  <2>1. down = <<>> /\ req = NoReq /\ down' = <<>> /\ req' = NoReq
    BY <1>1, <1>2, <1>5 DEF WireInv
  <2>2. InStep' /\ OwnResult' /\ \A k \in 1..Len(down') : down'[k].t # "torn"
    BY <1>1, <2>1 DEF InStep, OwnResult
  <2>3. AllData(down') /\ Len(req'.data) <= MaxSize
    BY <2>1, NoReqFacts, RangeFacts
  <2> QED BY <1>3, <1>4, <2>1, <2>2, <2>3 DEF NetInv, WireInv
<1>6. CASE conn' = conn
  <2>1. InStep' /\ OwnResult'
    BY <1>1, <1>2, <1>6 DEF InStep, OwnResult, WireInv
  <2> QED BY <1>1, <1>2, <1>3, <1>4, <1>6, <2>1 DEF NetInv, WireInv
<1> QED BY <1>2, <1>5, <1>6

\* A request or a loss of the connection leaves the stream as it is.
LEMMA AskWire ==
    ASSUME IndInv, Ask
    PROVE  NetInv'
<1>1. NetTypes /\ WireInv /\ phase = "run" /\ at \in Points
  BY TypeParts DEF IndInv, Ask, ControlTypes
<1>2. UNCHANGED <<down, recv_packet>>
  BY DEF Ask
<1>3. Shape(down') /\ (AllData(down) => AllData(down'))
  BY <1>1, <1>2, Zenon DEF WireInv
<1>4. CASE conn = "up"
  <2>1. req' = Request /\ phase' = "wait" /\ conn' = "up"
    BY <1>4 DEF Ask
  <2>2. req' \in Request0 /\ Len(req'.data) <= MaxSize
    BY <1>1, <2>1, RequestFacts
  <2>3. AllData(down)
    BY <1>1, <1>4 DEF WireInv, InStep, AllData
  <2>4. NetTypes'
    BY <1>1, <1>2, <2>1, <2>2 DEF NetTypes
  <2>5. InStep' /\ OwnResult' /\ AllData(down')
    BY <1>3, <2>1, <2>3 DEF InStep, OwnResult
  <2>6. \A k \in 1..Len(down') : down'[k].t # "torn"
    BY <1>1, <1>2, <1>4 DEF WireInv
  <2> QED BY <1>3, <2>1, <2>2, <2>4, <2>5, <2>6 DEF NetInv, WireInv
<1>5. CASE conn # "up"
  <2>1. /\ req' = req /\ conn' \in {"none", "eof", "closing", "reset", "dead"}
        /\ conn' = "none" => conn = "none"
    BY <1>1, <1>5 DEF Ask, NetTypes
  <2>2. req' = NoReq /\ Len(req'.data) <= MaxSize
    BY <1>1, <1>5, <2>1 DEF WireInv
  <2>3. NetTypes'
    BY <1>1, <1>2, <2>1 DEF NetTypes
  <2>4. InStep' /\ OwnResult'
    BY <2>1 DEF InStep, OwnResult
  <2> QED BY <1>1, <1>2, <1>3, <2>1, <2>2, <2>3, <2>4 DEF NetInv, WireInv
<1> QED BY <1>4, <1>5

\* The reply that is taken is the only one, and the request is answered.
LEMMA TakenFacts ==
    ASSUME IndInv, down # <<>>, Head(down).t # "data"
    PROVE  /\ req = NoReq /\ Head(down) \in Item /\ Head(down) = down[1]
           /\ Tail(down) \in Seq(Item) /\ AllData(Tail(down)) /\ Shape(Tail(down))
           /\ \A k \in 2..Len(down) : down[k].t = "data" /\ down[k].r \in 0..MaxSize
<1>1. down \in Seq(Item) /\ WireInv
  BY TypeParts DEF IndInv, NetTypes
<1>2. /\ Tail(down) \in Seq(Item) /\ Len(Tail(down)) = Len(down) - 1 /\ Len(down) \in Nat \ {0}
      /\ \A k \in 1..Len(down) - 1 : Tail(down)[k] = down[k + 1]
      /\ Head(down) = down[1] /\ Head(down) \in Item
  BY <1>1, TailFacts
<1>3. req = NoReq
  BY <1>1, <1>2 DEF WireInv, AllData
<1>4. \A k \in 2..Len(down) : down[k].t = "data" /\ down[k].r \in 0..MaxSize
  BY <1>1, <1>2 DEF WireInv, Shape
<1>5. ASSUME NEW k \in 1..Len(Tail(down))
      PROVE  Tail(down)[k].t = "data" /\ Tail(down)[k].r \in 0..MaxSize
  <2>1. k \in 1..Len(down) - 1 /\ k + 1 \in 2..Len(down)
    BY <1>2
  <2> QED BY <1>2, <1>4, <2>1
<1>6. AllData(Tail(down))
  BY <1>5 DEF AllData
<1>7. Shape(Tail(down))
  <2>1. ASSUME Tail(down) # <<>> PROVE Tail(down)[1].t = "data"
    <3>1. 1 \in 1..Len(Tail(down))
      BY <1>2, <2>1, EmptySeq
    <3> QED BY <1>5, <3>1
  <2> QED BY <1>5, <2>1 DEF Shape
<1> QED BY <1>2, <1>3, <1>4, <1>6, <1>7

LEMMA ReplyWire ==
    ASSUME IndInv, Replied
    PROVE  NetInv'
<1>1. NetTypes /\ WireInv
  BY TypeParts DEF IndInv
<1>2. conn = "up" /\ req # NoReq /\ req' = NoReq /\ UNCHANGED <<conn, recv_packet, phase, fresh>>
  BY DEF Replied
<1>3. AllData(down) /\ Shape(down) /\ down \in Seq(Item) /\ phase = "wait"
  BY <1>1, <1>2 DEF WireInv, InStep, NetTypes
<1>4. PICK x \in Item, e \in Seq(Item) :
          /\ x.t \in {"rly", "long"} /\ AllData(e)
          /\ \A k \in 1..Len(e) : e[k].r \in 0..MaxSize
          /\ down' = down \o <<x>> \o e
  BY DEF Replied
<1>5. down' \in Seq(Item) /\ Shape(down') /\ \A k \in 1..Len(down') : down'[k].t # "torn"
  <2> DEFINE d == down \o <<x>> \o e
  <2>1. d \in Seq(Item) /\ Shape(d) /\ \A k \in 1..Len(d) : d[k].t # "torn"
    BY <1>3, <1>4, ReplyFacts, RangeFacts
  <2>2. down' = d
    BY <1>4
  <2> HIDE DEF d
  <2> QED BY <2>1, <2>2, Zenon
<1>6. NetTypes'
  BY <1>1, <1>2, <1>5, NoReqFacts DEF NetTypes
<1>7. InStep' /\ OwnResult'
  BY <1>2, <1>3 DEF InStep, OwnResult
<1>8. Len(req'.data) <= MaxSize /\ conn' = "up" /\ req' = NoReq
  BY <1>2, NoReqFacts, RangeFacts
<1> QED BY <1>5, <1>6, <1>7, <1>8 DEF NetInv, WireInv

\* The streams that are left when the connection has gone.
LEMMA GoneWire ==
    ASSUME IndInv, conn' \in {"none", "eof", "closing", "reset", "dead"}, req' = NoReq,
           down' \in Seq(Item), Shape(down'), conn' = "none" => down' = <<>>,
           recv_packet' \in [op : Types, r : Results]
    PROVE  NetInv'
<1>1. NetTypes'
  BY NoReqFacts DEF NetTypes
<1>2. InStep' /\ OwnResult' /\ Len(req'.data) <= MaxSize
  BY NoReqFacts, RangeFacts DEF InStep, OwnResult
<1> QED BY <1>1, <1>2 DEF NetInv, WireInv

\* The states of a connection that carries nothing.
LEMMA EmptyWire ==
    ASSUME conn' \in {"none", "up", "eof", "closing", "reset", "dead"}, req' = NoReq,
           down' = <<>>, recv_packet' \in [op : Types, r : Results],
           OwnResult'
    PROVE  NetInv'
<1>1. NetTypes'
  BY NoReqFacts DEF NetTypes
<1>2. InStep' /\ AllData(down') /\ Shape(down') /\ \A k \in 1..Len(down') : down'[k].t # "torn"
  BY NoReqFacts DEF InStep
<1>3. Len(req'.data) <= MaxSize
  BY NoReqFacts, RangeFacts
<1> QED BY <1>1, <1>2, <1>3 DEF NetInv, WireInv

LEMMA AcceptWire ==
    ASSUME IndInv, \/ AcceptReply \/ AcceptTorn \/ AcceptOther \/ AcceptLong
                   \/ AcceptEof \/ AcceptReset
    PROVE  NetInv'
<1>1. NetTypes /\ WireInv /\ phase = "wait" /\ at \in Points /\ down \in Seq(Item)
  BY TypeParts DEF IndInv, PointInv, NetTypes, AcceptReply, AcceptTorn, AcceptOther,
     AcceptLong, AcceptEof, AcceptReset
<1>2. Expected \in Types /\ recv_packet.r \in Results /\ recv_packet.op \in Types
  BY <1>1, OpFacts DEF NetTypes
<1>3. CASE AcceptReply
  <2>1. req = NoReq /\ Head(down) \in Item
    BY <1>3, TakenFacts DEF AcceptReply
  <2>2. /\ recv_packet' = [op |-> Expected, r |-> Head(down).r] /\ UNCHANGED <<conn, req>>
        /\ down' = <<>>
    BY <1>3 DEF AcceptReply
  <2>3. fresh'
    BY <1>3, Zenon DEF AcceptReply
  <2>4. OwnResult'
    BY <2>3 DEF OwnResult
  <2>5. Head(down).r \in Results
    BY <2>1 DEF Item
  <2>6. recv_packet' \in [op : Types, r : Results]
    BY <1>2, <2>2, <2>5
  <2>7. conn' \in {"none", "up", "eof", "closing", "reset", "dead"} /\ req' = NoReq
    BY <1>1, <2>1, <2>2 DEF NetTypes
  <2> QED BY <2>2, <2>4, <2>6, <2>7, EmptyWire
<1>4. CASE AcceptTorn
  <2>1. down # <<>> /\ Head(down).t = "torn"
    BY <1>4 DEF AcceptTorn
  <2>2. conn # "up" /\ req = NoReq
    <3>1. Head(down) = down[1] /\ Len(down) \in Nat \ {0}
      BY <1>1, <2>1, TailFacts
    <3>2. 1 \in 1..Len(down)
      BY <3>1
    <3> QED BY <1>1, <2>1, <3>1, <3>2 DEF WireInv
  <2>3. /\ req' = NoReq /\ down' = <<>> /\ recv_packet' = [op |-> Expected, r |-> recv_packet.r]
        /\ conn' = "dead" \/ conn' = conn
    BY <1>4, <2>2 DEF AcceptTorn
  <2>4. conn' \in {"none", "eof", "closing", "reset", "dead"}
    BY <1>1, <2>2, <2>3 DEF NetTypes
  <2>5. recv_packet' \in [op : Types, r : Results]
    BY <1>2, <2>3
  <2> QED BY <2>3, <2>4, <2>5, GoneWire, NoReqFacts
<1>5. CASE AcceptOther
  <2>1. conn' = "none" /\ req' = NoReq /\ down' = <<>>
    BY <1>5 DEF AcceptOther, Hangup
  <2>2. Head(down) \in Item
    BY <1>1, <1>5, TailFacts DEF AcceptOther
  <2>3. recv_packet' \in [op : Types, r : Results]
    BY <1>2, <1>5, <2>2 DEF AcceptOther, Item
  <2> QED BY <2>1, <2>3, GoneWire, NoReqFacts
<1>6. CASE AcceptLong
  <2>1. req = NoReq /\ Tail(down) \in Seq(Item) /\ AllData(Tail(down)) /\ Shape(Tail(down))
    BY <1>6, TakenFacts DEF AcceptLong
  <2>2. /\ recv_packet' = [op |-> Expected, r |-> recv_packet.r] /\ UNCHANGED <<conn, req>>
        /\ down' = Tail(down) /\ down # <<>>
    BY <1>6 DEF AcceptLong
  <2>3. fresh'
    BY <1>6, Zenon DEF AcceptLong
  <2>4. OwnResult'
    BY <2>3 DEF OwnResult
  <2>5. NetTypes'
    BY <1>1, <1>2, <2>1, <2>2 DEF NetTypes
  <2>6. AllData(down') /\ Shape(down')
    BY <2>1, <2>2, Zenon
  <2>7. InStep' /\ \A k \in 1..Len(down') : down'[k].t # "torn"
    BY <2>1, <2>2, <2>6 DEF InStep, AllData
  <2>8. conn # "none" /\ Len(req'.data) <= MaxSize
    BY <1>1, <2>2 DEF WireInv
  <2> QED BY <2>1, <2>2, <2>4, <2>5, <2>6, <2>7, <2>8 DEF NetInv, WireInv
<1>7. CASE AcceptEof
  <2>1. UNCHANGED <<conn, req, down, recv_packet>> /\ conn \in {"eof", "closing", "dead"}
    BY <1>7 DEF AcceptEof, net
  <2>2. /\ req' = NoReq /\ conn' \in {"none", "eof", "closing", "reset", "dead"}
        /\ down' \in Seq(Item) /\ Shape(down') /\ conn' # "none"
    BY <1>1, <2>1, Zenon DEF WireInv
  <2>3. recv_packet' \in [op : Types, r : Results]
    BY <1>1, <2>1 DEF NetTypes
  <2> QED BY <2>2, <2>3, GoneWire
<1>8. CASE AcceptReset
  <2>1. /\ UNCHANGED <<req, down, recv_packet>> /\ conn = "reset" /\ down = <<>>
        /\ conn' \in {"none", "dead"}
    BY <1>8 DEF AcceptReset
  <2>2. req' = NoReq /\ down' = <<>> /\ conn' \in {"none", "eof", "closing", "reset", "dead"}
    BY <1>1, <2>1 DEF WireInv
  <2>3. recv_packet' \in [op : Types, r : Results]
    BY <1>1, <2>1 DEF NetTypes
  <2> QED BY <2>2, <2>3, GoneWire, NoReqFacts
<1> QED BY <1>3, <1>4, <1>5, <1>6, <1>7, <1>8

LEMMA ReturnsWire ==
    ASSUME IndInv, \/ OpenReturns \/ SeekReturns \/ ReadReturns \/ WriteReturns
                   \/ LastReturns \/ DopenReturns \/ DreadReturns
    PROVE  NetInv'
<1>1. phase = "ret" /\ phase' = "run"
  BY DEF OpenReturns, SeekReturns, ReadReturns, WriteReturns, LastReturns, DopenReturns,
     DreadReturns, Returned, Goes, Ends
<1>2. CASE UNCHANGED net
  BY <1>1, <1>2, KeptNet
<1>3. CASE conn' = "none" /\ req' = NoReq /\ down' = <<>> /\ recv_packet' = recv_packet
  <2>1. recv_packet' \in [op : Types, r : Results]
    BY <1>3, TypeParts DEF IndInv, NetTypes
  <2> QED BY <1>3, <2>1, GoneWire, NoReqFacts
<1> QED BY <1>2, <1>3 DEF OpenReturns, SeekReturns, ReadReturns, WriteReturns, LastReturns,
     DopenReturns, DreadReturns, net

LEMMA TrafficWire ==
    ASSUME IndInv, OtherTraffic
    PROVE  NetInv'
<1>1. NetTypes /\ WireInv /\ UNCHANGED <<conn, req, down, phase, fresh>>
  BY TypeParts DEF IndInv, OtherTraffic
<1>2. recv_packet' \in [op : Types, r : Results]
  <2>1. PICK r \in {-1, 0, 1} : recv_packet' = [op |-> "none", r |-> r]
    BY DEF OtherTraffic
  <2> QED BY <2>1, RangeFacts DEF Types
<1>3. NetTypes'
  BY <1>1, <1>2 DEF NetTypes
<1>4. Shape(down') /\ (AllData(down) => AllData(down')) /\ InStep' /\ OwnResult'
  BY <1>1, Zenon DEF WireInv, InStep, OwnResult
<1> QED BY <1>1, <1>3, <1>4 DEF NetInv, WireInv

\* What arrives of a stream that is cut off.
LEMMA DieWire ==
    ASSUME IndInv, NEW how \in {"eof", "reset"}, NEW keep \in 0..Len(down), Die(how, keep)
    PROVE  NetInv'
<1>1. NetTypes /\ WireInv /\ down \in Seq(Item) /\ Len(down) \in Nat
  BY TypeParts, LenProperties DEF IndInv, NetTypes
<1>2. /\ conn' \in {"none", "eof", "closing", "reset", "dead"} /\ conn' # "none"
      /\ req' = NoReq /\ recv_packet' \in [op : Types, r : Results]
  BY <1>1 DEF Die, NetTypes
<1>3. CASE down' = SubSeq(down, 1, keep)
  <2> DEFINE p == SubSeq(down, 1, keep)
  <2>1. p \in Seq(Item) /\ Len(p) = keep /\ \A j \in 1..keep : p[j] = down[j]
    BY <1>1, PrefixFacts
  <2> HIDE DEF p
  <2>2. ASSUME NEW k \in 1..Len(p) PROVE k \in 1..Len(down) /\ p[k] = down[k]
    BY <1>1, <2>1
  <2>3. Shape(p)
    <3>1. \A k \in 1..Len(p) : p[k].t = "data" => p[k].r \in 0..MaxSize
      BY <1>1, <2>2 DEF WireInv, Shape
    <3>2. ASSUME p # <<>>, p[1].t # "data", NEW k \in 2..Len(p) PROVE p[k].t = "data"
      <4>1. 1 \in 1..Len(p) /\ k \in 1..Len(p) /\ k \in 2..Len(down) /\ down # <<>>
        BY <1>1, <2>1, <3>2, EmptySeq
      <4>2. down[1].t # "data" /\ p[k] = down[k]
        BY <2>2, <3>2, <4>1
      <4> QED BY <1>1, <4>1, <4>2 DEF WireInv, Shape
    <3> QED BY <3>1, <3>2 DEF Shape
  <2>4. down' \in Seq(Item) /\ Shape(down')
    BY <1>3, <2>1, <2>3, Zenon DEF p
  <2> QED BY <1>2, <2>4, GoneWire
<1>4. CASE keep = 1 /\ down' = <<[Head(down) EXCEPT !.t = "torn"]>>
  <2> DEFINE x == [Head(down) EXCEPT !.t = "torn"]
  <2>1. down # <<>>
    BY <1>1, <1>4, EmptySeq
  <2>2. Head(down) \in Item
    BY <1>1, <2>1, TailFacts
  <2>3. x \in Item /\ x.t = "torn"
    BY <2>2 DEF Item
  <2> HIDE DEF x
  <2>4. <<x>> \in Seq(Item) /\ Len(<<x>>) = 1 /\ <<x>>[1] = x
    BY <2>3
  <2>5. Shape(<<x>>)
    BY <2>3, <2>4 DEF Shape
  <2>6. down' \in Seq(Item) /\ Shape(down')
    BY <1>4, <2>4, <2>5, Zenon DEF x
  <2> QED BY <1>2, <2>6, GoneWire
<1> QED BY <1>3, <1>4 DEF Die

LEMMA NetStep == IndInv /\ [Next]_vars => NetInv'
<1> SUFFICES ASSUME IndInv, [Next]_vars PROVE NetInv'
  OBVIOUS
<1>1. CASE \E j \in Jobs, n, o \in 0..MaxSize : Start(j, n, o)
  BY <1>1, StartWire
<1>2. CASE Ask
  BY <1>2, AskWire
<1>3. CASE \/ AcceptReply \/ AcceptTorn \/ AcceptOther \/ AcceptLong
           \/ AcceptEof \/ AcceptReset
  BY <1>3, AcceptWire
<1>4. CASE \/ OpenReturns \/ SeekReturns \/ ReadReturns \/ WriteReturns
           \/ LastReturns \/ DopenReturns \/ DreadReturns
  BY <1>4, ReturnsWire
<1>5. CASE Server \/ ServeNoLength \/ ServeWrong \/ ServeLong
  BY <1>5, ServerReplies, ReplyWire
<1>6. CASE OtherTraffic
  BY <1>6, TrafficWire
<1>7. CASE \E how \in {"eof", "reset"}, keep \in 0..Len(down) : Die(how, keep)
  BY <1>7, DieWire
<1>8. CASE UNCHANGED vars
  BY <1>8, KeptNet DEF vars
<1> QED BY <1>1, <1>2, <1>3, <1>4, <1>5, <1>6, <1>7, <1>8, Zenon DEF Next, Command

-----------------------------------------------------------------------------
(* The command.                                                            *)

ControlInv == ControlTypes /\ LocalTypes /\ PointInv

LEMMA KeptControl ==
    ASSUME IndInv, UNCHANGED <<job, at, phase, ret, outcome, locs, len>>,
           pos' \in 0..MaxSize, pos' <= len, dst' \in Seq(0..MaxSize)
    PROVE  ControlInv'
<1>1. ControlTypes /\ LocalTypes /\ PointInv
  BY TypeParts DEF IndInv
<1>2. UNCHANGED <<job, at, phase, ret, outcome, size, total, off, buffer, fd, len>>
  BY DEF locs
<1>3. ControlTypes'
  BY <1>1, <1>2 DEF ControlTypes
<1>4. LocalTypes'
  BY <1>1, <1>2 DEF LocalTypes
<1>5. PointInv'
  BY <1>1, <1>2 DEF PointInv
<1> QED BY <1>3, <1>4, <1>5 DEF ControlInv

LEMMA ConstantFacts == Chunk \in Nat /\ Chunk > 0 /\ MaxSize \in Nat /\ Results \subseteq Int
BY NetFsConstants DEF Results

LEMMA StartControl ==
    ASSUME IndInv, NEW j \in Jobs, NEW n \in 0..MaxSize, NEW o \in 0..MaxSize, Start(j, n, o)
    PROVE  ControlInv'
<1>1. ControlTypes /\ LocalTypes /\ PointInv /\ j \in {"get", "put", "ls"} \cup Single
  BY TypeParts, NetFsConstants DEF IndInv
<1>2. /\ job' = j /\ len' = n /\ pos' = 0 /\ dst' = <<>> /\ total' = 0 /\ off' = 0 /\ fd' = 0
      /\ size' = (IF j = "put" THEN n ELSE 0) /\ UNCHANGED <<ret, buffer>>
      /\ phase' = "run" /\ (at' = First(j) \/ at' = "idle") /\ outcome' \in {"none", "failed"}
  BY <1>1 DEF Start, PointInv
<1>3. First(j) \in {"open", "dopen", "one"} /\ (First(j) = "one" => j \in Single)
      /\ (First(j) = "open" => j \in {"get", "put"}) /\ (First(j) = "dopen" => j = "ls")
  BY <1>1 DEF First, Single
<1>4. ControlTypes'
  BY <1>1, <1>2, <1>3 DEF ControlTypes, Points
<1>5. LocalTypes'
  <2>1. <<>> \in Seq(0..MaxSize)
    BY EmptyData
  <2>2. size' \in -Chunk..MaxSize /\ 0 \in Results
    BY <1>2, ConstantFacts, RangeFacts
  <2> QED BY <1>1, <1>2, <2>1, <2>2, ConstantFacts DEF LocalTypes
<1>6. PointInv'
  <2>1. n >= 0
    BY ConstantFacts
  <2> QED BY <1>2, <1>3, <2>1 DEF PointInv, Points, Copying
<1> QED BY <1>4, <1>5, <1>6 DEF ControlInv

LEMMA AskControl ==
    ASSUME IndInv, Ask
    PROVE  ControlInv'
<1>1. ControlTypes /\ LocalTypes /\ PointInv /\ phase = "run" /\ at \in Points
  BY TypeParts DEF IndInv, Ask, ControlTypes
<1>2. UNCHANGED <<job, outcome, size, total, buffer, fd, len, pos, dst>>
  BY DEF Ask, file
<1>3. /\ phase' \in {"run", "wait", "ret"} /\ ret' \in {ret, -1}
      /\ at' = at \/ (at' \in {"hung", "killed"} /\ phase' = "run")
  <2>1. CASE conn \in {"up", "eof"}
    BY <1>1, <2>1 DEF Ask
  <2>2. CASE conn \in {"closing", "reset"}
    BY <1>1, <2>2 DEF Ask
  <2>3. CASE conn \in {"dead", "none"}
    BY <1>1, <2>3 DEF Ask
  <2> QED BY <2>1, <2>2, <2>3 DEF Ask
<1>4. off' \in 0..MaxSize /\ off' <= len
  BY <1>1, PieceFacts DEF Ask, LocalTypes, PointInv
<1>5. ControlTypes'
  BY <1>1, <1>2, <1>3, RangeFacts DEF ControlTypes
<1>6. LocalTypes'
  BY <1>1, <1>2, <1>4 DEF LocalTypes
<1>7. PointInv'
  <2>1. "idle" \notin Points /\ "hung" \notin Copying /\ "killed" \notin Copying
    BY DEF Points, Copying
  <2> QED BY <1>1, <1>2, <1>3, <1>4, <2>1 DEF PointInv
<1> QED BY <1>5, <1>6, <1>7 DEF ControlInv

\* The data behind a reply is what a file may hold.
LEMMA FillFacts ==
    ASSUME IndInv, down # <<>>, Head(down).t # "data", NEW k \in Int, k <= Len(down) - 1
    PROVE  Fill(k) \in [1..Chunk -> 0..MaxSize]
<1>1. /\ \A i \in 2..Len(down) : down[i].r \in 0..MaxSize
      /\ buffer \in [1..Chunk -> 0..MaxSize] /\ Len(down) \in Nat
  BY TakenFacts, TypeParts, LenProperties DEF IndInv, LocalTypes, NetTypes
<1>2. ASSUME NEW j \in 1..Chunk
      PROVE  (IF j <= k THEN down[j + 1].r ELSE buffer[j]) \in 0..MaxSize
  <2>1. CASE j <= k
    <3>1. j + 1 \in 2..Len(down)
      BY <1>1, <2>1, ConstantFacts
    <3> QED BY <1>1, <2>1, <3>1
  <2>2. CASE ~(j <= k)
    BY <1>1, <2>2
  <2> QED BY <2>1, <2>2
<1> QED BY <1>2 DEF Fill

LEMMA AcceptControl ==
    ASSUME IndInv, \/ AcceptReply \/ AcceptTorn \/ AcceptOther \/ AcceptLong
                   \/ AcceptEof \/ AcceptReset
    PROVE  ControlInv'
<1>1. ControlTypes /\ LocalTypes /\ PointInv /\ NetTypes
  BY TypeParts DEF IndInv
<1>2. phase = "wait" /\ phase' = "ret" /\ at \in Points
  BY <1>1 DEF PointInv, AcceptReply, AcceptTorn, AcceptOther, AcceptLong, AcceptEof, AcceptReset
<1>3. UNCHANGED <<job, at, outcome, size, total, off, fd, len, pos, dst>>
  BY DEF locs, file, AcceptReply, AcceptTorn, AcceptOther, AcceptLong, AcceptEof, AcceptReset
<1>4. ret' \in Results
  <2>1. recv_packet.r \in Results /\ -1 \in Results
    BY <1>1, RangeFacts DEF NetTypes
  <2>2. CASE AcceptReply
    <3>1. Head(down) \in Item /\ ret' = Head(down).r
      BY <2>2, TakenFacts DEF AcceptReply
    <3> QED BY <3>1 DEF Item
  <2>3. CASE AcceptTorn \/ AcceptOther \/ AcceptLong \/ AcceptEof \/ AcceptReset
    BY <2>1, <2>3 DEF AcceptTorn, AcceptOther, AcceptLong, AcceptEof, AcceptReset
  <2> QED BY <2>2, <2>3
<1>5. buffer' \in [1..Chunk -> 0..MaxSize]
  <2>1. CASE AcceptReply
    <3> DEFINE n == IF at = "read" /\ Head(down).r > 0 THEN Head(down).r ELSE 0
               k == Less(n, Len(down) - 1)
    <3>1. down # <<>> /\ Head(down).t = "rly" /\ buffer' = Fill(k)
      BY <2>1 DEF AcceptReply
    <3>2. n \in Int /\ Len(down) - 1 \in Int
      <4>1. Head(down) \in Item /\ down \in Seq(Item)
        BY <1>1, <3>1, TakenFacts DEF NetTypes
      <4>2. Head(down).r \in Int /\ Len(down) \in Nat
        BY <4>1, LenProperties, ConstantFacts DEF Item
      <4> QED BY <4>2
    <3> HIDE DEF n
    <3>3. k \in Int /\ k <= Len(down) - 1
      BY <3>2, LessFacts
    <3> HIDE DEF k
    <3> QED BY <3>1, <3>3, FillFacts
  <2>2. CASE AcceptTorn \/ AcceptOther \/ AcceptLong \/ AcceptEof \/ AcceptReset
    <3>1. buffer' = buffer
      BY <2>2 DEF locs, AcceptTorn, AcceptOther, AcceptLong, AcceptEof, AcceptReset
    <3> QED BY <1>1, <3>1 DEF LocalTypes
  <2> QED BY <2>1, <2>2
<1>6. ControlTypes'
  BY <1>1, <1>2, <1>3, <1>4 DEF ControlTypes
<1>7. LocalTypes'
  BY <1>1, <1>3, <1>5 DEF LocalTypes
<1>8. PointInv'
  <2>1. "idle" \notin Points
    BY DEF Points
  <2> QED BY <1>1, <1>2, <1>3, <2>1 DEF PointInv
<1> QED BY <1>6, <1>7, <1>8 DEF ControlInv

\* A step that only moves the command on to its next request, or ends it.
LEMMA MovedControl ==
    ASSUME IndInv, phase = "ret", phase' = "run", UNCHANGED <<job, ret, locs, file>>,
           at' \in Points \cup {"idle"}, outcome' \in {"none", "ok", "failed"},
           at' = "one" => job \in Single, at' \in {"dopen", "dread", "dclose"} => job = "ls",
           at' \in {"open", "close"} => job \in {"get", "put"},
           at' \in {"end", "set", "read"} => job = "get", at' = "write" => job = "put",
           at' \in Copying => at \in Copying, at' = "read" => size > 0,
           at' = "write" => total < size, at' # "open"
    PROVE  ControlInv'
<1>1. ControlTypes /\ LocalTypes /\ PointInv
  BY TypeParts DEF IndInv
<1>2. UNCHANGED <<size, total, off, buffer, fd, len, pos, dst>>
  BY DEF locs, file
<1>3. ControlTypes'
  BY <1>1 DEF ControlTypes
<1>4. LocalTypes'
  BY <1>1, <1>2 DEF LocalTypes
<1>5. PointInv'
  BY <1>1, <1>2 DEF PointInv
<1> QED BY <1>3, <1>4, <1>5 DEF ControlInv

LEMMA ReturnsControl ==
    ASSUME IndInv, OpenReturns \/ LastReturns \/ DreadReturns
    PROVE  ControlInv'
<1>1. ControlTypes /\ LocalTypes /\ PointInv /\ phase = "ret"
  BY TypeParts DEF IndInv, OpenReturns, LastReturns, DreadReturns, Returned
<1>2. UNCHANGED <<job, ret, locs, file>> /\ phase' = "run"
  BY DEF OpenReturns, LastReturns, DreadReturns, Goes, Ends
<1>3. outcome' \in {"none", "ok", "failed"}
  BY <1>1 DEF OpenReturns, LastReturns, DreadReturns, Goes, Ends, ControlTypes
<1>4. CASE OpenReturns
  <2>1. at = "open" /\ \/ at' = "idle"
                       \/ at' = "end" /\ job = "get"
                       \/ job = "put" /\ at' = "write" /\ total < size
                       \/ job = "put" /\ at' = "close"
    <3>1. at = "open"
      BY <1>4 DEF OpenReturns, Returned
    <3>2. CASE ret < 0 /\ Ends("failed")
      BY <3>1, <3>2 DEF Ends
    <3>3. CASE ret >= 0 /\ job = "get" /\ Goes("end")
      BY <3>1, <3>3 DEF Goes
    <3>4. CASE ret >= 0 /\ job = "put" /\ Goes(IF total < size THEN "write" ELSE "close")
      BY <3>1, <3>4 DEF Goes
    <3> QED BY <1>4, <3>2, <3>3, <3>4, Zenon DEF OpenReturns
  <2> QED BY <1>1, <1>2, <1>3, <2>1, MovedControl DEF Points, Copying
<1>5. CASE LastReturns \/ DreadReturns
  <2>1. at' = "idle" \/ (at = "dread" /\ at' \in {"dread", "dclose"})
    BY <1>5 DEF LastReturns, DreadReturns, Returned, Goes, Ends
  <2>2. at' # "idle" => job = "ls"
    BY <1>1, <2>1 DEF PointInv
  <2> QED BY <1>1, <1>2, <1>3, <2>1, <2>2, MovedControl DEF Points, Copying
<1> QED BY <1>4, <1>5

LEMMA DopenControl ==
    ASSUME IndInv, DopenReturns
    PROVE  ControlInv'
<1>1. ControlTypes /\ LocalTypes /\ PointInv /\ job = "ls"
  BY TypeParts DEF IndInv, PointInv, DopenReturns, Returned
<1>2. /\ UNCHANGED <<job, ret, size, total, off, buffer, len, pos, dst>> /\ phase' = "run"
      /\ fd' = ret /\ at' \in {"idle", "dread"} /\ outcome' \in {outcome, "failed"}
  BY DEF DopenReturns, Goes, Ends, file
<1>3. ControlTypes'
  BY <1>1, <1>2 DEF ControlTypes, Points
<1>4. LocalTypes'
  BY <1>1, <1>2 DEF LocalTypes, ControlTypes
<1>5. PointInv'
  BY <1>1, <1>2 DEF PointInv, Copying
<1> QED BY <1>3, <1>4, <1>5 DEF ControlInv

LEMMA SeekControl ==
    ASSUME IndInv, SeekReturns
    PROVE  ControlInv'
<1>1. ControlTypes /\ LocalTypes /\ PointInv /\ at \in {"end", "set"} /\ job = "get"
  BY TypeParts DEF IndInv, SeekReturns, PointInv
<1>2. /\ UNCHANGED <<job, ret, outcome, total, off, buffer, fd, len, pos, dst>> /\ phase' = "run"
      /\ \/ at = "end" /\ size' = ret /\ at' = "set"
         \/ at = "set" /\ size' = size /\ ((size > 0 /\ at' = "read") \/ at' = "close")
  BY DEF SeekReturns, Goes, file
<1>3. ControlTypes'
  BY <1>1, <1>2 DEF ControlTypes, Points
<1>4. LocalTypes'
  <2>1. Results \subseteq -Chunk..MaxSize \cup {1}
    BY ConstantFacts DEF Results
  <2> QED BY <1>1, <1>2, <2>1 DEF LocalTypes, ControlTypes
<1>5. PointInv'
  BY <1>1, <1>2 DEF PointInv
<1> QED BY <1>3, <1>4, <1>5 DEF ControlInv

LEMMA FetchedFacts ==
    ASSUME IndInv, at = "read"
    PROVE  /\ Less(size, Chunk) \in 1..Chunk /\ Fetched \in Seq(0..MaxSize)
           /\ Len(Fetched) = Less(size, Chunk)
           /\ \A k \in 1..Less(size, Chunk) : Fetched[k] = buffer[k]
<1>1. size > 0 /\ size \in Int /\ buffer \in [1..Chunk -> 0..MaxSize]
  BY TypeParts, ConstantFacts DEF IndInv, PointInv, LocalTypes
<1>2. Less(size, Chunk) \in 1..Chunk
  BY <1>1, ConstantFacts DEF Less
<1>3. buffer \in Seq(0..MaxSize) /\ Len(buffer) = Chunk
  BY <1>1, ConstantFacts
<1>4. Less(size, Chunk) \in 0..Len(buffer)
  BY <1>2, <1>3, ConstantFacts
<1> QED BY <1>2, <1>3, <1>4, PrefixFacts DEF Fetched

LEMMA ReadControl ==
    ASSUME IndInv, ReadReturns
    PROVE  ControlInv'
<1>1. ControlTypes /\ LocalTypes /\ PointInv /\ at = "read" /\ job = "get" /\ size > 0
  BY TypeParts DEF IndInv, ReadReturns, Returned, PointInv
<1>2. /\ UNCHANGED <<job, ret, outcome, total, off, buffer, fd, len, pos>> /\ phase' = "run"
      /\ size' = size - Chunk
      /\ \E n \in 0..Len(Fetched) : dst' = dst \o SubSeq(Fetched, 1, n)
      /\ (size' > 0 /\ at' = "read") \/ at' = "close"
  BY DEF ReadReturns, Goes
<1>3. ControlTypes'
  BY <1>1, <1>2 DEF ControlTypes, Points
<1>4. dst' \in Seq(0..MaxSize)
  <2>1. PICK n \in 0..Len(Fetched) : dst' = dst \o SubSeq(Fetched, 1, n)
    BY <1>2
  <2>2. SubSeq(Fetched, 1, n) \in Seq(0..MaxSize)
    BY <1>1, FetchedFacts, PrefixFacts
  <2> QED BY <1>1, <2>1, <2>2, ConcatProperties DEF LocalTypes
<1>5. size' \in -Chunk..MaxSize \cup {1}
  BY <1>1, <1>2, ConstantFacts DEF LocalTypes
<1>6. LocalTypes'
  BY <1>1, <1>2, <1>4, <1>5 DEF LocalTypes
<1>7. PointInv'
  BY <1>1, <1>2 DEF PointInv
<1> QED BY <1>3, <1>6, <1>7 DEF ControlInv

LEMMA WriteControl ==
    ASSUME IndInv, WriteReturns
    PROVE  ControlInv'
<1>1. /\ ControlTypes /\ LocalTypes /\ PointInv /\ at = "write" /\ job = "put"
      /\ total < size /\ size = len
  BY TypeParts DEF IndInv, WriteReturns, Returned, PointInv, Copying
<1>2. /\ UNCHANGED <<job, ret, outcome, size, off, buffer, fd, len, pos, dst>> /\ phase' = "run"
      /\ total' = Counted /\ ((total' < size /\ at' = "write") \/ at' = "close")
  BY DEF WriteReturns, Goes, file
<1>3. ControlTypes'
  BY <1>1, <1>2 DEF ControlTypes, Points
<1>4. total' \in -2..2 * MaxSize
  <2>1. ret \in -1..MaxSize \cup {1} /\ total \in -2..2 * MaxSize /\ len \in 0..MaxSize
    BY <1>1 DEF ControlTypes, LocalTypes, Results
  <2>2. MaxSize \in Nat
    BY ConstantFacts
  <2> QED BY <1>1, <1>2, <2>1, <2>2 DEF Counted
<1>5. LocalTypes'
  BY <1>1, <1>2, <1>4 DEF LocalTypes
<1>6. PointInv'
  BY <1>1, <1>2 DEF PointInv
<1> QED BY <1>3, <1>5, <1>6 DEF ControlInv

LEMMA ControlStep == IndInv /\ [Next]_vars => ControlInv'
<1> SUFFICES ASSUME IndInv, [Next]_vars PROVE ControlInv'
  OBVIOUS
<1>1. CASE \E j \in Jobs, n, o \in 0..MaxSize : Start(j, n, o)
  BY <1>1, StartControl
<1>2. CASE Ask
  BY <1>2, AskControl
<1>3. CASE \/ AcceptReply \/ AcceptTorn \/ AcceptOther \/ AcceptLong
           \/ AcceptEof \/ AcceptReset
  BY <1>3, AcceptControl
<1>4. CASE \/ OpenReturns \/ SeekReturns \/ ReadReturns \/ WriteReturns
           \/ LastReturns \/ DopenReturns \/ DreadReturns
  BY <1>4, ReturnsControl, SeekControl, ReadControl, WriteControl, DopenControl
<1>5. CASE Server \/ ServeNoLength \/ ServeWrong \/ ServeLong
  BY <1>5, ServerReplies, KeptControl DEF Replied
<1>6. CASE \/ OtherTraffic \/ UNCHANGED vars
           \/ \E how \in {"eof", "reset"}, keep \in 0..Len(down) : Die(how, keep)
  <2>1. UNCHANGED <<job, at, phase, ret, outcome, locs, len, pos, dst>>
    BY <1>6 DEF OtherTraffic, vars, Die, file
  <2>2. pos \in 0..MaxSize /\ pos <= len /\ dst \in Seq(0..MaxSize)
    BY DEF IndInv, TypeOK, PointInv
  <2> QED BY <2>1, <2>2, KeptControl
<1> QED BY <1>1, <1>2, <1>3, <1>4, <1>5, <1>6, Zenon DEF Next, Command

-----------------------------------------------------------------------------
LEMMA InitInv == Init => IndInv
<1> SUFFICES ASSUME Init PROVE IndInv
  OBVIOUS
<1>1. NetTypes
  <2>1. 0 \in Results /\ "none" \in Types
    BY RangeFacts DEF Types
  <2>2. recv_packet \in [op : Types, r : Results]
    BY <2>1 DEF Init
  <2> QED BY <2>2, NoReqFacts DEF Init, NetTypes
<1>2. ControlTypes
  BY RangeFacts DEF Init, ControlTypes, Single
<1>3. LocalTypes
  BY RangeFacts, ConstantFacts, EmptyData DEF Init, LocalTypes
<1>4. GhostTypes
  <2>1. fresh \in BOOLEAN /\ spilt \in BOOLEAN
    BY Zenon DEF Init
  <2> QED BY <2>1, RangeFacts DEF Init, GhostTypes
<1>5. PointInv
  BY DEF Init, PointInv, Points, Copying
<1>6. InStep /\ OwnResult
  BY DEF Init, InStep, OwnResult
<1>7. Shape(down) /\ Len(req.data) <= MaxSize
  BY NoReqFacts, RangeFacts DEF Init
<1>8. WireInv
  BY <1>6, <1>7 DEF Init, WireInv
<1> QED BY <1>1, <1>2, <1>3, <1>4, <1>5, <1>8, TypeParts DEF IndInv

LEMMA IndStep == IndInv /\ [Next]_vars => IndInv'
<1> SUFFICES ASSUME IndInv, [Next]_vars PROVE IndInv'
  OBVIOUS
<1>1. NetTypes' /\ WireInv'
  BY NetStep DEF NetInv
<1>2. ControlTypes' /\ LocalTypes' /\ PointInv'
  BY ControlStep DEF ControlInv
<1>3. GhostTypes'
  BY GhostStep DEF IndInv
<1>4. TypeOK'
  BY <1>1, <1>2, <1>3
     DEF TypeOK, NetTypes, ControlTypes, LocalTypes, GhostTypes, Request0, Item, Results
<1> QED BY <1>1, <1>2, <1>4 DEF IndInv

\* The inductive invariant holds throughout.
THEOREM NetFsInvariant == Spec => []IndInv
<1>1. Init => IndInv
  BY InitInv
<1>2. IndInv /\ [Next]_vars => IndInv'
  BY IndStep
<1> QED BY <1>1, <1>2, PTL DEF Spec

\* Whatever the server does, cli_copy's counters stay within the bounds of
\* TypeOK: what it reads of the file within the file, what it counts as sent
\* within twice its length, and what it stores in its buffer within what a
\* file holds.
THEOREM NetFsTypes == Spec => []TypeOK
<1>1. IndInv => TypeOK
  BY DEF IndInv
<1> QED BY <1>1, NetFsInvariant, PTL

\* Outside a request an open connection carries no reply, so the next request
\* cannot be given the answer to an earlier one (ps2netfs_accept_pkt).
THEOREM NetFsInStep == Spec => []InStep
<1>1. IndInv => InStep
  BY DEF IndInv, WireInv
<1> QED BY <1>1, NetFsInvariant, PTL

\* A result that a caller takes out of recv_packet while the connection is up
\* came in the reply to its own request.
THEOREM NetFsOwnResult == Spec => []OwnResult
<1>1. IndInv => OwnResult
  BY DEF IndInv, WireInv
<1> QED BY <1>1, NetFsInvariant, PTL

-----------------------------------------------------------------------------
(* The file.                                                               *)

LEMMA UnitsFacts ==
    /\ Units(0) = <<>>
    /\ \A n \in 0..MaxSize : Units(n) \in Seq(0..MaxSize) /\ Len(Units(n)) = n
<1>1. Units(0) = <<>>
  BY DEF Units
<1>2. ASSUME NEW n \in 0..MaxSize
      PROVE  Units(n) \in Seq(0..MaxSize) /\ Len(Units(n)) = n
  BY ConstantFacts DEF Units
<1> QED BY <1>1, <1>2

\* A piece of the file behind what has been copied of it.
LEMMA UnitsGrow ==
    ASSUME NEW a \in Nat, NEW b \in Nat, a + b <= MaxSize, NEW s \in Seq(0..MaxSize),
           Len(s) = b, \A k \in 1..b : s[k] = a + k
    PROVE  Units(a) \o s = Units(a + b)
<1>1. a \in 0..MaxSize /\ a + b \in 0..MaxSize /\ MaxSize \in Nat
  BY ConstantFacts
<1>2. /\ Units(a) \in Seq(0..MaxSize) /\ Len(Units(a)) = a
      /\ Units(a + b) \in Seq(0..MaxSize) /\ Len(Units(a + b)) = a + b
  BY <1>1, UnitsFacts
<1>3. \A k \in 1..a + b : Units(a + b)[k] = k
  BY DEF Units
<1>4. \A k \in 1..a : Units(a)[k] = k
  BY DEF Units
<1>5. /\ Units(a) \o s \in Seq(0..MaxSize) /\ Len(Units(a) \o s) = a + b
      /\ \A k \in 1..a + b : (Units(a) \o s)[k] = IF k <= a THEN Units(a)[k] ELSE s[k - a]
  <2>1. /\ Units(a) \o s \in Seq(0..MaxSize)
        /\ Len(Units(a) \o s) = Len(Units(a)) + Len(s)
        /\ \A k \in 1..Len(Units(a)) + Len(s) :
             (Units(a) \o s)[k] =
                IF k <= Len(Units(a)) THEN Units(a)[k] ELSE s[k - Len(Units(a))]
    BY <1>2, ConcatProperties
  <2> QED BY <1>2, <2>1
<1>6. ASSUME NEW k \in 1..a + b PROVE (Units(a) \o s)[k] = k
  <2>1. CASE k <= a
    BY <1>4, <1>5, <2>1
  <2>2. CASE ~(k <= a)
    <3>1. k - a \in 1..b /\ a + (k - a) = k
      BY <2>2
    <3> QED BY <1>5, <2>2, <3>1
  <2> QED BY <2>1, <2>2
<1> QED BY <1>2, <1>3, <1>5, <1>6, SeqEqual

-----------------------------------------------------------------------------
(* An upload.                                                              *)

Staying == "die" \notin Faults /\ IndInv /\ UploadInv

\* What the steps below know of the state they start from.
LEMMA UploadFacts ==
    ASSUME Staying
    PROVE  /\ conn \in {"none", "up"} /\ down \in Seq(Item) /\ (conn = "none" => down = <<>>)
           /\ len \in 0..MaxSize /\ off \in 0..len /\ size \in Int /\ total \in Int /\ ret \in Int
           /\ MaxSize \in Nat /\ Chunk \in Nat \ {0} /\ dst \in Seq(0..MaxSize)
           /\ phase \in {"run", "wait", "ret"} /\ at \in Points \cup {"idle", "hung", "killed"}
           /\ (phase # "run" => at \in Points) /\ (at = "idle" => phase = "run")
           /\ (req # NoReq => phase = "wait" /\ conn = "up" /\ req.op = WireOp(at) /\ AllData(down))
           /\ (req # NoReq => req.form = Form(at))
           /\ (at # "idle" => outcome = "none")
           /\ (conn = "up" /\ phase # "wait" => AllData(down) /\ req = NoReq)
           /\ req.data \in Seq(1..MaxSize) /\ Len(req.data) \in Nat /\ Chunk \in Nat
<1>1. TypeOK /\ PointInv /\ WireInv /\ TurnInv
  BY DEF Staying, IndInv, UploadInv
<1>2. NetTypes /\ ControlTypes /\ LocalTypes
  BY <1>1, TypeParts
<1>3. /\ len \in 0..MaxSize /\ off \in 0..len /\ size \in Int /\ total \in Int
      /\ MaxSize \in Nat /\ Chunk \in Nat \ {0} /\ dst \in Seq(0..MaxSize)
  BY <1>1, <1>2, ConstantFacts DEF LocalTypes, PointInv
<1>4. /\ phase \in {"run", "wait", "ret"} /\ at \in Points \cup {"idle", "hung", "killed"}
      /\ (phase # "run" => at \in Points) /\ (at = "idle" => phase = "run")
  BY <1>1, <1>2 DEF ControlTypes, PointInv
<1>5. ret \in Int
  <2>1. ret \in Results
    BY <1>1 DEF TypeOK, Results
  <2> QED BY <2>1, ConstantFacts
<1>6. /\ (req # NoReq => phase = "wait" /\ conn = "up" /\ AllData(down))
      /\ (conn = "up" /\ phase # "wait" => AllData(down) /\ req = NoReq)
      /\ (conn = "none" => down = <<>>)
  BY <1>1 DEF WireInv, InStep, AllData
<1>7. req.data \in Seq(1..MaxSize) /\ Len(req.data) \in Nat
  <2>1. req.data \in Seq(1..MaxSize)
    BY <1>1, ReqFacts
  <2> QED BY <2>1, LenProperties
<1>8. conn \in {"none", "up"} /\ (at # "idle" => outcome = "none")
      /\ (req # NoReq => req.op = WireOp(at) /\ req.form = Form(at))
  BY <1>1 DEF TurnInv
<1>9. down \in Seq(Item) /\ Chunk \in Nat
  BY <1>2, <1>3 DEF NetTypes
<1> QED BY <1>3, <1>4, <1>5, <1>6, <1>7, <1>8, <1>9

LEMMA OpWays ==
    ASSUME IndInv, at \in Points
    PROVE  /\ WireOp(at) = "read" <=> at = "read"
           /\ WireOp(at) = "write" <=> at = "write"
           /\ WireOp(at) = "lseek" <=> at \in {"end", "set"}
           /\ WireOp(at) = "dread" <=> at = "dread"
           /\ Form(at) # "whole" => at = "one"
           /\ at \in Copying => WireOp(at) = Op(at)
<1>1. at = "one" => job \in Single
  BY DEF IndInv, PointInv
<1> QED BY <1>1 DEF Op, WireOp, Form, Points, Single, Copying

\* Away from cp there is nothing to show but that no upload is said to have
\* ended.
LEMMA OffUpload ==
    ASSUME at' \notin {"open", "write"}, at' = "close" => job' # "put", TurnInv', UploadFaithful'
    PROVE  UploadInv'
BY DEF UploadInv

LEMMA UploadStart ==
    ASSUME Staying, NEW j \in Jobs, NEW n \in 0..MaxSize, NEW o \in 0..MaxSize, Start(j, n, o)
    PROVE  UploadInv'
<1>1. conn \in {"none", "up"} /\ at = "idle" /\ req = NoReq
  BY UploadFacts DEF Start
<1>2. /\ dst' = <<>> /\ off' = 0 /\ req' = req /\ conn' \in {"none", "up"}
      /\ \/ at' = First(j) /\ outcome' = "none"
         \/ at' = "idle" /\ outcome' = "failed"
  BY <1>1 DEF Start
<1>3. First(j) \in {"open", "dopen", "one"}
  BY DEF First
<1>4. TurnInv' /\ UploadFaithful'
  BY <1>1, <1>2, <1>3 DEF TurnInv, UploadFaithful
<1> QED BY <1>2, <1>3, <1>4 DEF UploadInv

LEMMA UploadAsk ==
    ASSUME Staying, Ask
    PROVE  UploadInv'
<1>1. /\ conn \in {"none", "up"} /\ at \in Points /\ phase = "run" /\ outcome = "none"
      /\ at # "idle" /\ req = NoReq
  BY UploadFacts DEF Ask, Points
<1>2. /\ UNCHANGED <<down, job, outcome, total, len, dst, size>>
      /\ off' = IF at = "write" THEN off + Piece ELSE off
  BY DEF Ask, file
<1>3. UploadFaithful'
  BY <1>1, <1>2 DEF UploadFaithful
<1>4. at = "write" => total <= off /\ Tallied(total, off)
  BY <1>1 DEF Staying, UploadInv, WriteInv
<1>5. /\ off \in Nat /\ Piece \in Nat /\ total \in Int
  BY UploadFacts, PieceFacts DEF Staying
<1>6. CASE conn = "none"
  <2>1. /\ conn' = "none" /\ req' = NoReq
        /\ \/ at = "write" /\ at' = at /\ phase' = "ret" /\ ret' = -1
           \/ at # "write" /\ at' = "hung"
    BY <1>1, <1>6 DEF Ask
  <2>2. TurnInv'
    BY <1>1, <1>2, <2>1 DEF TurnInv
  <2>3. CASE at = "write"
    <3>1. /\ at' = "write" /\ phase' = "ret" /\ ret' = -1 /\ total' <= off'
          /\ total' + ret' < off'
      BY <1>2, <1>4, <1>5, <2>1, <2>3
    <3>2. Tallied(total + ret, off)'
      BY <1>2, <1>5, <3>1 DEF Tallied
    <3>3. WriteInv'
      BY <3>1, <3>2 DEF WriteInv
    <3> QED BY <1>3, <2>2, <3>1, <3>3 DEF UploadInv
  <2>4. CASE at # "write"
    BY <1>3, <2>1, <2>2, <2>4, OffUpload
  <2> QED BY <2>3, <2>4
<1>7. CASE conn = "up"
  <2>1. at' = at /\ conn' = "up" /\ phase' = "wait" /\ req' = Request
    BY <1>7 DEF Ask
  <2>2. /\ Request.op = WireOp(at) /\ WireOp(at)' = WireOp(at)
        /\ Request.form = Form(at) /\ Form(at)' = Form(at)
    BY <1>2, <2>1 DEF Request, WireOp, Form, Op
  <2>3. TurnInv'
    BY <1>1, <1>2, <2>1, <2>2 DEF TurnInv
  <2>4. CASE at = "write"
    <3> DEFINE data == Request.data
    <3>1. data = [k \in 1..Piece |-> off + k]
      BY <2>4 DEF Request
    <3>2. Len(data) = Piece /\ \A k \in 1..Len(data) : data[k] = off + k
      BY <1>5, <3>1
    <3>3. off' - Len(data) = off /\ off' = off + Piece
      BY <1>2, <1>5, <2>4, <3>2
    <3>4. req'.data = data
      BY <2>1
    <3> HIDE DEF data
    <3>5. total' <= off'
      BY <1>2, <1>4, <1>5, <2>4, <3>3
    <3>6. /\ Tallied(total, off - Len(req.data))' /\ off' - Len(req'.data) >= 0
          /\ \A k \in 1..Len(req'.data) : req'.data[k] = (off' - Len(req'.data)) + k
      BY <1>2, <1>4, <1>5, <2>4, <3>2, <3>3, <3>4 DEF Tallied
    <3>7. ~(down' # <<>> /\ Head(down').t = "rly")
      <4> SUFFICES ASSUME down # <<>> PROVE Head(down).t # "rly"
        BY <1>2
      <4>1. AllData(down) /\ down \in Seq(Item)
        BY <1>1, <1>7, UploadFacts
      <4>2. Head(down) = down[1] /\ Len(down) \in Nat \ {0}
        BY <4>1, TailFacts
      <4>3. 1 \in 1..Len(down)
        BY <4>2
      <4> QED BY <4>1, <4>2, <4>3 DEF AllData
    <3>8. WriteInv'
      BY <2>1, <3>5, <3>6, <3>7 DEF WriteInv
    <3> QED BY <1>3, <2>1, <2>3, <2>4, <3>8 DEF UploadInv
  <2>5. CASE at # "write"
    <3>1. at = "open" => dst = <<>> /\ off = 0
      BY DEF Staying, UploadInv
    <3>2. at = "close" /\ job = "put" => dst = Units(len)
      BY DEF Staying, UploadInv
    <3> QED BY <1>2, <1>3, <2>1, <2>3, <2>5, <3>1, <3>2 DEF UploadInv
  <2> QED BY <2>4, <2>5
<1> QED BY <1>1, <1>6, <1>7

\* The reply, or what is taken for one: the next step counts the result.
LEMMA UploadAccept ==
    ASSUME Staying,
           AcceptReply \/ AcceptTorn \/ AcceptOther \/ AcceptLong \/ AcceptEof \/ AcceptReset
    PROVE  UploadInv'
<1>1. /\ phase = "wait" /\ phase' = "ret" /\ at \in Points /\ outcome = "none" /\ at # "idle"
      /\ UNCHANGED <<job, at, outcome, total, off, len, dst>>
  BY UploadFacts DEF AcceptReply, AcceptTorn, AcceptOther, AcceptLong, AcceptEof, AcceptReset,
                     locs, file, net, Points
<1>2. /\ conn \in {"none", "up"} /\ down \in Seq(Item) /\ (conn = "none" => down = <<>>)
      /\ total \in Int /\ off \in Nat
  BY UploadFacts
<1>3. AcceptReply \/ AcceptOther \/ AcceptLong
  <2>1. ~AcceptEof /\ ~AcceptReset
    BY <1>2 DEF AcceptEof, AcceptReset
  <2>2. ~AcceptTorn
    <3> SUFFICES ASSUME AcceptTorn PROVE FALSE
      OBVIOUS
    <3>1. down # <<>> /\ Head(down).t = "torn" /\ conn = "up"
      BY <1>2 DEF AcceptTorn
    <3>2. Head(down) = down[1] /\ Len(down) \in Nat \ {0}
      BY <1>2, <3>1, TailFacts
    <3>3. 1 \in 1..Len(down)
      BY <3>2
    <3> QED BY <3>1, <3>2, <3>3 DEF Staying, IndInv, WireInv
  <2> QED BY <2>1, <2>2
<1>4. conn' \in {"none", "up"} /\ (req' = req \/ req' = NoReq)
  BY <1>2, <1>3 DEF AcceptReply, AcceptOther, AcceptLong, Hangup
<1>5. TurnInv'
  <2>1. WireOp(at)' = WireOp(at) /\ Form(at)' = Form(at)
    BY <1>1 DEF WireOp, Form, Op
  <2>2. req # NoReq => req.op = WireOp(at) /\ req.form = Form(at)
    BY UploadFacts
  <2> QED BY <1>1, <1>4, <2>1, <2>2 DEF TurnInv
<1>6. UploadFaithful'
  BY <1>1 DEF UploadFaithful
<1>7. ASSUME at = "write" PROVE WriteInv'
  <2>1. total <= off
    BY <1>7 DEF Staying, UploadInv, WriteInv
  <2>2. Tallied(total + ret, off)'
    <3>1. CASE AcceptReply
      <4>1. down # <<>> /\ Head(down).t = "rly" /\ Head(down).op = Expected /\ ret' = Head(down).r
        BY <3>1 DEF AcceptReply
      <4>2. Expected = "write"
        BY <1>7 DEF Expected, Op
      <4>3. Tallied(total + Head(down).r, off)
        BY <1>1, <1>7, <4>1, <4>2 DEF Staying, UploadInv, WriteInv
      <4> QED BY <1>1, <4>1, <4>3 DEF Tallied
    <3>2. CASE AcceptOther \/ AcceptLong
      <4>1. ret' = -1
        BY <3>2 DEF AcceptOther, AcceptLong
      <4>2. total' + ret' < off' /\ total' + ret' \in Int /\ off' \in Int
        BY <1>1, <1>2, <2>1, <4>1
      <4> QED BY <4>2 DEF Tallied
    <3> QED BY <1>3, <3>1, <3>2
  <2> QED BY <1>1, <2>1, <2>2 DEF WriteInv
<1>8. at = "open" => dst = <<>> /\ off = 0
  BY DEF Staying, UploadInv
<1>9. at = "close" /\ job = "put" => dst = Units(len)
  BY DEF Staying, UploadInv
<1> QED BY <1>1, <1>5, <1>6, <1>7, <1>8, <1>9 DEF UploadInv

\* The steps between two requests.
LEMMA TurnBetween ==
    ASSUME Staying, phase = "ret", UNCHANGED <<conn, req>>, at' # "idle" => outcome' = outcome
    PROVE  TurnInv' /\ outcome = "none"
<1>1. conn \in {"none", "up"} /\ req = NoReq /\ at # "idle" /\ outcome = "none"
  BY UploadFacts DEF Points
<1> QED BY <1>1 DEF TurnInv

LEMMA UploadOpen ==
    ASSUME Staying, OpenReturns
    PROVE  UploadInv'
<1>1. at = "open" /\ phase = "ret" /\ phase' = "run" /\ UNCHANGED <<net, job, locs, file>>
  BY DEF OpenReturns, Returned, Goes, Ends
<1>2. UNCHANGED <<conn, req, down, size, total, off, len, dst>>
  BY <1>1 DEF net, locs, file
<1>3. /\ dst = <<>> /\ off = 0 /\ total = 0 /\ (job = "put" => size = len) /\ len \in Nat
  BY <1>1, UploadFacts DEF Staying, IndInv, PointInv, UploadInv, Copying
<1>4. \/ at' = "idle" /\ outcome' = "failed"
      \/ at' = "end" /\ outcome' = outcome
      \/ job = "put" /\ at' = (IF total < size THEN "write" ELSE "close") /\ outcome' = outcome
  BY DEF OpenReturns, Goes, Ends
<1>5. TurnInv' /\ outcome = "none"
  BY <1>1, <1>2, <1>4, TurnBetween
<1>6. UploadFaithful'
  BY <1>4, <1>5 DEF UploadFaithful
<1>7. CASE at' = "idle" \/ at' = "end"
  BY <1>5, <1>6, <1>7, OffUpload
<1>8. CASE job = "put" /\ at' = (IF total < size THEN "write" ELSE "close")
  <2>1. Units(0) = <<>>
    BY UnitsFacts
  <2>2. Tallied(total, off)' /\ total' <= off'
    BY <1>2, <1>3, <2>1 DEF Tallied
  <2>3. WriteInv'
    BY <1>1, <2>2 DEF WriteInv
  <2>4. at' = "close" => dst' = Units(len')
    BY <1>2, <1>3, <1>8, <2>1
  <2> QED BY <1>5, <1>6, <1>8, <2>3, <2>4 DEF UploadInv
<1> QED BY <1>4, <1>7, <1>8

\* The count comes to the size of the file only if everything was stored.
LEMMA UploadWrite ==
    ASSUME Staying, WriteReturns
    PROVE  UploadInv'
<1>1. /\ at = "write" /\ phase = "ret" /\ phase' = "run" /\ outcome' = outcome
      /\ UNCHANGED <<net, job, size, off, file>>
      /\ total' = Counted /\ at' = (IF total' < size THEN "write" ELSE "close")
  BY DEF WriteReturns, Returned, Goes
<1>2. UNCHANGED <<conn, req, down, len, dst>>
  BY <1>1 DEF net, file
<1>3. /\ total + ret <= off /\ (total + ret = off => dst = Units(off))
      /\ job = "put" /\ size = len
      /\ total \in Int /\ ret \in Int /\ off \in Nat /\ off <= len /\ len \in Nat
  <2>1. Tallied(total + ret, off)
    BY <1>1 DEF Staying, UploadInv, WriteInv
  <2> QED BY <1>1, <2>1, UploadFacts DEF Staying, IndInv, PointInv, Copying, Tallied
<1>4. total' \in Int /\ total' <= off /\ (total' = off => dst = Units(off))
  BY <1>1, <1>3 DEF Counted
<1>5. TurnInv' /\ outcome = "none"
  BY <1>1, <1>2, TurnBetween
<1>6. UploadFaithful'
  BY <1>1, <1>5 DEF UploadFaithful
<1>7. Tallied(total, off)' /\ total' <= off'
  BY <1>1, <1>2, <1>4 DEF Tallied
<1>8. WriteInv'
  BY <1>1, <1>7 DEF WriteInv
<1>9. at' = "close" => dst' = Units(len')
  <2> SUFFICES ASSUME at' = "close" PROVE dst' = Units(len')
    OBVIOUS
  <2>1. ~(total' < len)
    BY <1>1, <1>3
  <2>2. total' = off /\ off = len
    BY <1>3, <1>4, <2>1
  <2> QED BY <1>2, <1>4, <2>2
<1> QED BY <1>1, <1>5, <1>6, <1>8, <1>9 DEF UploadInv

LEMMA UploadOthers ==
    ASSUME Staying, SeekReturns \/ ReadReturns \/ LastReturns \/ DopenReturns \/ DreadReturns
    PROVE  UploadInv'
<1>1. phase = "ret" /\ job' = job /\ len' = len /\ at \in Points
  BY UploadFacts DEF SeekReturns, ReadReturns, LastReturns, DopenReturns, DreadReturns, Returned,
                     file, Points
<1>2. at' \notin {"open", "write"} /\ (at' # "idle" => outcome' = outcome)
  BY DEF SeekReturns, ReadReturns, LastReturns, DopenReturns, DreadReturns, Goes, Ends
<1>3. at \in {"end", "set", "read"} => job = "get"
  BY DEF Staying, IndInv, PointInv
<1>4. at \in {"dclose", "one", "dopen", "dread"} => job # "put"
  BY DEF Staying, IndInv, PointInv, Single
<1>5. at' = "close" => job' # "put"
  BY <1>1, <1>3 DEF SeekReturns, ReadReturns, LastReturns, DopenReturns, DreadReturns, Goes, Ends,
                    Returned
<1>6. TurnInv' /\ outcome = "none"
  <2>1. CASE UNCHANGED <<conn, req>>
    BY <1>1, <1>2, <2>1, TurnBetween
  <2>2. CASE conn' = "none" /\ req' = NoReq
    <3>1. outcome = "none"
      BY <1>1, UploadFacts DEF Points
    <3> QED BY <1>2, <2>2, <3>1 DEF TurnInv
  <2> QED BY <2>1, <2>2 DEF SeekReturns, ReadReturns, LastReturns, DopenReturns, DreadReturns, net
<1>7. UploadFaithful'
  <2>1. at = "close" /\ job = "put" => dst = Units(len)
    BY DEF Staying, UploadInv
  <2>2. CASE LastReturns
    <3>1. at \in {"close", "dclose", "one"} /\ dst' = dst
      BY <2>2 DEF LastReturns, file
    <3> QED BY <1>1, <1>4, <2>1, <3>1 DEF UploadFaithful
  <2>3. CASE ~LastReturns
    <3>1. at \in {"end", "set", "read", "dopen", "dread"}
      BY <2>3 DEF SeekReturns, ReadReturns, DopenReturns, DreadReturns, Returned
    <3> QED BY <1>1, <1>3, <1>4, <3>1 DEF UploadFaithful
  <2> QED BY <2>2, <2>3
<1> QED BY <1>2, <1>5, <1>6, <1>7, OffUpload

\* What comes first once the server has answered: the answer, or what was left
\* of an earlier one.
LEMMA AnswerFirst ==
    ASSUME NEW d \in Seq(Item), AllData(d), NEW x \in Item, NEW e \in Seq(Item)
    PROVE  /\ d \o <<x>> \o e # <<>>
           /\ Head(d \o <<x>> \o e) = x \/ Head(d \o <<x>> \o e).t = "data"
<1> DEFINE z == d \o <<x>> \o e
<1>1. /\ z \in Seq(Item) /\ Len(d) \in Nat /\ Len(e) \in Nat
      /\ Len(z) = Len(d) + 1 + Len(e) /\ z[Len(d) + 1] = x
      /\ \A k \in 1..Len(d) : z[k] = d[k]
  BY JoinFacts
<1> HIDE DEF z
<1>2. z # <<>>
  <2>1. Len(z) # 0
    BY <1>1
  <2> QED BY <2>1
<1>3. Head(z) = z[1]
  BY <1>1, <1>2, TailFacts
<1>4. CASE Len(d) = 0
  <2>1. z[1] = x
    BY <1>1, <1>4
  <2> QED BY <1>2, <1>3, <2>1 DEF z
<1>5. CASE Len(d) # 0
  <2>1. 1 \in 1..Len(d)
    BY <1>1, <1>5
  <2>2. z[1].t = "data"
    BY <1>1, <2>1 DEF AllData
  <2> QED BY <1>2, <1>3, <2>2 DEF z
<1> QED BY <1>4, <1>5

LEMMA AnswersFirst ==
    ASSUME Staying, req # NoReq, NEW r \in Results, NEW data \in Seq(0..MaxSize),
           Answers(r, data)
    PROVE  /\ Head(down') = Rly(req.op, r) \/ Head(down').t = "data"
           /\ UNCHANGED <<conn, job, at, phase, outcome, total, off, len>> /\ req' = NoReq
<1> DEFINE e == [k \in 1..Len(data) |-> Data(data[k])]
           x == Rly(req.op, r)
<1>1. Len(data) \in Nat /\ \A k \in 1..Len(data) : data[k] \in 0..MaxSize
  BY ElementOfSeq, LenProperties
<1>2. \A k \in 1..Len(data) : Data(data[k]) \in Item
  <2> TAKE k \in 1..Len(data)
  <2>1. data[k] \in Results
    BY <1>1, RangeFacts
  <2> QED BY <2>1, DataFacts
<1>3. e \in Seq(Item)
  BY <1>1, <1>2
<1>4. x \in Item
  <2>1. TypeOK
    BY DEF Staying, IndInv
  <2> QED BY <2>1, ItemFacts, ReqFacts
<1>5. down' = down \o <<x>> \o e
  BY DEF Answers
<1>6. AllData(down) /\ down \in Seq(Item)
  BY UploadFacts
<1>7. UNCHANGED <<conn, job, at, phase, outcome, total, off, len>> /\ req' = NoReq
  BY DEF Answers, locs
<1> HIDE DEF e, x
<1>8. Head(down') = x \/ Head(down').t = "data"
  BY <1>3, <1>4, <1>5, <1>6, AnswerFirst
<1> QED BY <1>7, <1>8 DEF x

\* A step of the server that leaves the copy alone and does not answer a write.
LEMMA UploadReply ==
    ASSUME Staying, req # NoReq,
           ~(Head(down').t = "rly" /\ Head(down').op = "write"),
           UNCHANGED <<conn, job, at, phase, outcome, total, off, len, dst>>, req' = NoReq
    PROVE  UploadInv'
<1>1. phase = "wait" /\ conn \in {"none", "up"} /\ (at # "idle" => outcome = "none")
  BY UploadFacts
<1>2. TurnInv'
  BY <1>1 DEF TurnInv
<1>3. UploadFaithful'
  BY DEF Staying, UploadInv, UploadFaithful
<1>4. at = "write" => WriteInv'
  BY <1>1 DEF Staying, UploadInv, WriteInv
<1> QED BY <1>2, <1>3, <1>4 DEF Staying, UploadInv

LEMMA UploadServeWrite ==
    ASSUME Staying, ServeWrite
    PROVE  UploadInv'
<1>1. /\ conn = "up" /\ req # NoReq /\ req.op = "write" /\ phase = "wait" /\ at \in Points
      /\ req.op = WireOp(at) /\ outcome = "none" /\ at # "idle"
  BY UploadFacts DEF ServeWrite, Served, Points
<1>2. at = "write"
  BY <1>1, OpWays DEF Staying
<1> DEFINE d == req.data
           o == off - Len(d)
<1>3. /\ total <= off /\ Tallied(total, o) /\ o >= 0
      /\ \A k \in 1..Len(d) : d[k] = o + k
  BY <1>1, <1>2 DEF Staying, UploadInv, WriteInv
<1>4. /\ d \in Seq(1..MaxSize) /\ Len(d) \in Nat /\ off \in Nat /\ off <= MaxSize /\ MaxSize \in Nat
      /\ total \in Int /\ dst \in Seq(0..MaxSize)
  BY UploadFacts
<1> HIDE DEF d
<1>5. o \in Nat /\ o + Len(d) = off
  BY <1>3, <1>4
<1> HIDE DEF o
<1>6. ASSUME NEW r \in Results, Answers(r, <<>>), Tallied(total + r, off)'
      PROVE  UploadInv'
  <2>1. <<>> \in Seq(0..MaxSize)
    BY EmptyData
  <2>2. /\ Head(down') = Rly(req.op, r) \/ Head(down').t = "data"
        /\ UNCHANGED <<conn, job, at, phase, outcome, total, off, len>> /\ req' = NoReq
    BY <1>1, <1>6, <2>1, AnswersFirst
  <2>3. Rly(req.op, r).r = r
    BY DEF Rly
  <2>4. Head(down').t = "rly" => Head(down').r = r
    BY <2>2, <2>3
  <2>5. WriteInv'
    BY <1>1, <1>3, <1>6, <2>2, <2>4 DEF WriteInv
  <2>6. TurnInv' /\ UploadFaithful'
    BY <1>1, <2>2 DEF TurnInv, UploadFaithful
  <2> QED BY <1>2, <2>2, <2>5, <2>6 DEF UploadInv
\* What was taken, if it was all of it and nothing was missing before.
<1>7. ASSUME NEW n \in 0..Len(d), dst' = dst \o SubSeq(d, 1, n), off' = off, total' = total
      PROVE  Tallied(total + n, off)'
  <2>1. n \in Nat /\ n <= Len(d)
    BY <1>4
  <2>2. total + n <= off
    BY <1>3, <1>4, <1>5, <2>1 DEF Tallied
  <2>3. ASSUME total + n = off PROVE dst' = Units(off)
    <3>1. total = o /\ n = Len(d) /\ dst = Units(o)
      BY <1>3, <1>4, <1>5, <2>1, <2>3 DEF Tallied
    <3>2. SubSeq(d, 1, n) \in Seq(1..MaxSize) /\ Len(SubSeq(d, 1, n)) = n
          /\ \A k \in 1..n : SubSeq(d, 1, n)[k] = d[k]
      BY <1>4, PrefixFacts
    <3> DEFINE s == SubSeq(d, 1, n)
    <3>3. s \in Seq(0..MaxSize)
      <4>1. \A k \in 1..n : d[k] \in 1..MaxSize
        BY <1>4, <2>1, ElementOfSeq
      <4>2. \A k \in 1..n : d[k] \in 0..MaxSize
        BY <1>4, <4>1
      <4> QED BY <2>1, <4>2, SubSeqProperties
    <3>4. Len(s) = n /\ \A k \in 1..n : s[k] = o + k
      BY <1>3, <3>1, <3>2
    <3> HIDE DEF s
    <3>5. Units(o) \o s = Units(o + n)
      BY <1>4, <1>5, <2>1, <3>1, <3>3, <3>4, UnitsGrow
    <3> QED BY <1>5, <1>7, <3>1, <3>5 DEF s
  <2> QED BY <1>7, <2>2, <2>3 DEF Tallied
<1>8. ASSUME NEW r, Answers(r, <<>>) PROVE off' = off /\ total' = total
  BY <1>8 DEF Answers, locs
<1>9. CASE Answers(Len(req.data), <<>>) /\ dst' = dst \o req.data
  <2>1. SubSeq(d, 1, Len(d)) = d
    <3>1. Len(d) \in 0..Len(d)
      BY <1>4
    <3>2. /\ SubSeq(d, 1, Len(d)) \in Seq(1..MaxSize) /\ Len(SubSeq(d, 1, Len(d))) = Len(d)
          /\ \A k \in 1..Len(d) : SubSeq(d, 1, Len(d))[k] = d[k]
      BY <1>4, <3>1, PrefixFacts
    <3> QED BY <1>4, <3>2, SeqEqual
  <2>2. Len(d) \in 0..Len(d) /\ Len(d) \in Results
    <3>1. Len(d) \in 0..MaxSize
      BY <1>4, <1>5
    <3> QED BY <1>4, <3>1, RangeFacts
  <2>3. dst' = dst \o SubSeq(d, 1, Len(d)) /\ Answers(Len(d), <<>>)
    BY <1>9, <2>1 DEF d
  <2> QED BY <1>6, <1>7, <1>8, <2>2, <2>3
<1>10. ASSUME NEW n \in 0..Len(req.data) - 1, Answers(n, <<>>), dst' = dst \o SubSeq(req.data, 1, n)
       PROVE  UploadInv'
  <2>1. n \in 0..Len(d) /\ n \in Results
    <3>1. n \in 0..Len(d) - 1
      BY DEF d
    <3>2. n \in 0..MaxSize /\ n \in 0..Len(d)
      BY <1>4, <1>5, <3>1
    <3> QED BY <3>2, RangeFacts
  <2>2. dst' = dst \o SubSeq(d, 1, n)
    BY <1>10 DEF d
  <2> QED BY <1>6, <1>7, <1>8, <1>10, <2>1, <2>2
<1>11. CASE Answers(-1, <<>>) /\ UNCHANGED dst
  <2>1. -1 \in Results
    BY RangeFacts
  <2>2. off' = off /\ total' = total
    BY <1>8, <1>11
  <2>3. total' + (-1) < off' /\ total' + (-1) \in Int
    BY <1>3, <1>4, <2>2
  <2>4. Tallied(total + (-1), off)'
    BY <1>4, <2>2, <2>3 DEF Tallied
  <2> QED BY <1>6, <1>11, <2>1, <2>4
<1> QED BY <1>9, <1>10, <1>11 DEF ServeWrite

LEMMA UploadServe ==
    ASSUME Staying, ServeRead \/ ServeSeek \/ ServeDread \/ ServeOther \/ ServeNoLength
    PROVE  UploadInv'
<1>1. req # NoReq /\ req.op # "write" /\ dst' = dst
  <2>1. CASE ServeNoLength
    <3>1. req.form = "nolength" /\ NoReq.form = "whole" /\ dst' = dst
      BY <2>1 DEF ServeNoLength, NoReq
    <3>2. at = "one" /\ at \in Points /\ req.op = WireOp(at)
      BY <3>1, UploadFacts, OpWays DEF Staying
    <3> QED BY <3>1, <3>2, OpWays DEF Staying
  <2> QED BY <2>1 DEF ServeRead, ServeSeek, ServeDread, ServeOther, Served
<1>2. \E r \in Results, data \in Seq(0..MaxSize) : Answers(r, data)
  <2>1. /\ <<>> \in Seq(0..MaxSize) /\ {-1, 0, 1} \subseteq Results /\ 0..MaxSize \subseteq Results
        /\ len \in 0..MaxSize
    BY EmptyData, RangeFacts, UploadFacts
  <2>2. CASE ServeSeek \/ ServeDread \/ ServeOther \/ ServeNoLength
    BY <2>1, <2>2 DEF ServeSeek, ServeDread, ServeOther, ServeNoLength
  <2>3. CASE ServeRead
    <3> DEFINE n == Less(Chunk, len - pos)
               data == [k \in 1..n |-> pos + k]
    <3>1. pos \in Nat /\ pos <= len /\ len <= MaxSize /\ len \in Nat /\ MaxSize \in Nat
          /\ Chunk \in Nat
      BY UploadFacts DEF Staying, IndInv, PointInv, TypeOK
    <3>2. n \in Nat /\ pos + n <= MaxSize
      BY <3>1 DEF Less
    <3>3. Answers(n, data) \/ Answers(-1, <<>>)
      BY <2>3 DEF ServeRead
    <3> HIDE DEF n
    <3>4. \A k \in 1..n : pos + k \in 0..MaxSize
      BY <3>1, <3>2
    <3>5. data \in Seq(0..MaxSize) /\ n \in 0..MaxSize
      BY <3>1, <3>2, <3>4
    <3> HIDE DEF data
    <3> QED BY <2>1, <3>3, <3>5
  <2> QED BY <2>2, <2>3
<1>3. PICK r \in Results, data \in Seq(0..MaxSize) : Answers(r, data)
  BY <1>2
<1>4. /\ Head(down') = Rly(req.op, r) \/ Head(down').t = "data"
      /\ UNCHANGED <<conn, job, at, phase, outcome, total, off, len>> /\ req' = NoReq
  BY <1>1, <1>3, AnswersFirst
<1>5. Rly(req.op, r).op = req.op
  BY DEF Rly
<1>6. ~(Head(down').t = "rly" /\ Head(down').op = "write")
  BY <1>1, <1>4, <1>5
<1> QED BY <1>1, <1>4, <1>6, UploadReply

LEMMA UploadFaults ==
    ASSUME Staying, ServeWrong \/ ServeLong
    PROVE  UploadInv'
<1>1. TypeOK /\ down \in Seq(Item) /\ req.op \in Types /\ 0 \in Results
  BY RangeFacts, ReqFacts DEF Staying, IndInv, TypeOK, Item, Results
<1>2. req # NoReq /\ req' = NoReq
  BY ReqFacts, <1>1 DEF ServeWrong, ServeLong, Served, NoReq
<1>3. UNCHANGED <<conn, job, at, phase, outcome, total, off, len, dst>>
  BY DEF ServeWrong, ServeLong, locs, file
<1>4. AllData(down)
  BY <1>2, UploadFacts
<1>5. CASE ServeWrong
  <2> DEFINE x == Rly("other", 0)
  <2>1. x \in Item /\ x.op = "other"
    BY <1>1, ItemFacts DEF Rly, Item, Types
  <2>2. down' = Append(down, x)
    BY <1>5 DEF ServeWrong
  <2> HIDE DEF x
  <2>3. down' = down \o <<x>> \o <<>>
    <3>1. Append(down, x) = down \o <<x>> /\ Append(down, x) \in Seq(Item)
      BY <1>1, <2>1, AppendIsConcat, AppendProperties
    <3>2. Append(down, x) \o <<>> = Append(down, x)
      BY <3>1, ConcatEmptySeq
    <3> QED BY <2>2, <3>1, <3>2, Zenon
  <2>4. Head(down') = x \/ Head(down').t = "data"
    BY <1>1, <1>4, <2>1, <2>3, EmptyData, AnswerFirst
  <2> QED BY <1>2, <1>3, <2>1, <2>4, UploadReply
<1>6. CASE ServeLong
  <2> DEFINE x == [Rly(req.op, 0) EXCEPT !.t = "long"]  e == <<Data(0)>>
  <2>1. x \in Item /\ x.t = "long"
    BY <1>1 DEF Rly, Item
  <2>2. Data(0) \in Item
    BY <1>1, DataFacts
  <2>3. down' = down \o <<x, Data(0)>>
    BY <1>6 DEF ServeLong
  <2>4. e \in Seq(Item)
    BY <2>2
  <2> HIDE DEF x
  <2>5. down' = down \o <<x>> \o e
    BY <1>1, <2>1, <2>2, <2>3
  <2> HIDE DEF e
  <2>6. Head(down') = x \/ Head(down').t = "data"
    BY <1>1, <1>4, <2>1, <2>4, <2>5, AnswerFirst
  <2> QED BY <1>2, <1>3, <2>1, <2>6, UploadReply
<1> QED BY <1>5, <1>6

LEMMA UploadStep ==
    ASSUME Staying, [Next]_vars
    PROVE  UploadInv'
<1>1. CASE \E j \in Jobs, n, o \in 0..MaxSize : Start(j, n, o)
  BY <1>1, UploadStart
<1>2. CASE Ask
  BY <1>2, UploadAsk
<1>3. CASE AcceptReply \/ AcceptTorn \/ AcceptOther \/ AcceptLong \/ AcceptEof \/ AcceptReset
  BY <1>3, UploadAccept
<1>4. CASE OpenReturns \/ WriteReturns
  BY <1>4, UploadOpen, UploadWrite
<1>5. CASE SeekReturns \/ ReadReturns \/ LastReturns \/ DopenReturns \/ DreadReturns
  BY <1>5, UploadOthers
<1>6. CASE Server \/ ServeNoLength
  BY <1>6, UploadServeWrite, UploadServe DEF Server
<1>7. CASE ServeWrong \/ ServeLong
  BY <1>7, UploadFaults
<1>8. CASE \E how \in {"eof", "reset"}, keep \in 0..Len(down) : Die(how, keep)
  BY <1>8 DEF Die, Staying
<1>9. CASE OtherTraffic
  <2>1. UNCHANGED <<conn, req, job, at, outcome, len, dst>> /\ at = "idle"
    BY <1>9 DEF OtherTraffic, file
  <2>2. WireOp(at)' = WireOp(at) /\ Form(at)' = Form(at)
    BY <2>1 DEF WireOp, Form, Op
  <2>3. TurnInv' /\ UploadFaithful'
    BY <2>1, <2>2 DEF Staying, UploadInv, TurnInv, UploadFaithful
  <2> QED BY <2>1, <2>3, OffUpload
<1>10. CASE UNCHANGED vars
  <2>1. UNCHANGED <<conn, req, down, job, at, phase, ret, outcome, total, off, len, dst>>
    BY <1>10 DEF vars, net, locs, file
  <2>2. WireOp(at)' = WireOp(at) /\ Form(at)' = Form(at)
    BY <2>1 DEF WireOp, Form, Op
  <2> QED BY <2>1, <2>2 DEF Staying, UploadInv, TurnInv, WriteInv, Tallied, UploadFaithful
<1> QED BY <1>1, <1>2, <1>3, <1>4, <1>5, <1>6, <1>7, <1>8, <1>9, <1>10, Zenon
        DEF Next, Command

LEMMA UploadInit == Init => UploadInv
BY DEF Init, UploadInv, TurnInv, UploadFaithful

LEMMA UploadInvariant == "die" \notin Faults => (Spec => []UploadInv)
<1> SUFFICES ASSUME "die" \notin Faults PROVE Spec => []UploadInv
  OBVIOUS
<1>1. IndInv /\ UploadInv /\ [Next]_vars => UploadInv'
  BY UploadStep DEF Staying
<1> QED BY <1>1, UploadInit, NetFsInvariant, PTL DEF Spec

\* As long as the server stays, a cp to the PS2 that ends normally has copied
\* every unit of the file once and in order (cli_copy), whatever the server
\* refuses, takes only in part, or answers wrongly: the loop ends only when what
\* the server said it took comes to the size of the file.
THEOREM NetFsUploadFaithful == "die" \notin Faults => (Spec => []UploadFaithful)
<1>1. UploadInv => UploadFaithful
  BY DEF UploadInv
<1> QED BY <1>1, UploadInvariant, PTL

-----------------------------------------------------------------------------
(* A fetch.                                                                *)

Honest == Faults \subseteq {"wrong", "short"} /\ IndInv /\ UploadInv /\ FetchInv

LEMMA FetchFacts ==
    ASSUME Honest
    PROVE  /\ Staying /\ pos \in 0..len
           /\ phase # "wait" => down = <<>>
           /\ req # NoReq => down = <<>>
           /\ Answered => conn = "up" /\ Head(down).t = "rly"
           /\ Answered /\ at \in Copying => Head(down).op \in {Op(at), "other"}
<1>1. Staying
  BY DEF Honest, Staying
<1>2. pos \in 0..len
  BY DEF Honest, IndInv, PointInv, TypeOK
<1>3. conn \in {"none", "up"} /\ (conn = "none" => down = <<>>)
  BY <1>1, UploadFacts
<1>4. ReplyInv
  BY DEF Honest, FetchInv
<1> QED BY <1>1, <1>2, <1>3, <1>4 DEF ReplyInv, Answered

\* Away from cp there is nothing to show but that no copy is said to have ended.
LEMMA OffFetch ==
    ASSUME at' \notin Copying, ReplyInv', CopyMade'
    PROVE  FetchInv'
BY DEF FetchInv, GetInv, Copying

LEMMA FetchStart ==
    ASSUME Honest, NEW j \in Jobs, NEW n \in 0..MaxSize, NEW o \in 0..MaxSize, Start(j, n, o)
    PROVE  FetchInv'
<1>1. phase = "run" /\ down = <<>>
  BY FetchFacts, UploadFacts DEF Start
<1>2. /\ pos' = 0 /\ down' = <<>>
      /\ \/ at' = First(j) /\ outcome' = "none"
         \/ at' = "idle" /\ outcome' = "failed"
  BY <1>1 DEF Start
<1>3. First(j) \in {"open", "dopen", "one"}
  BY DEF First
<1>4. ReplyInv' /\ CopyMade'
  BY <1>2 DEF ReplyInv, Answered, CopyMade, Made
<1> QED BY <1>2, <1>3, <1>4 DEF FetchInv, GetInv

LEMMA FetchAsk ==
    ASSUME Honest, Ask
    PROVE  FetchInv'
<1>1. /\ conn \in {"none", "up"} /\ at \in Points /\ phase = "run" /\ down = <<>>
      /\ outcome = "none"
  BY FetchFacts, UploadFacts DEF Ask, Points
<1>2. UNCHANGED <<down, job, outcome, size, buffer, len, pos, dst, spilt>>
  BY DEF Ask, file
<1>3. ~Answered /\ ~Answered' /\ ReplyInv' /\ CopyMade'
  BY <1>1, <1>2 DEF ReplyInv, Answered, CopyMade, Made
<1>4. CASE conn = "none"
  <2>1. /\ conn' = "none"
        /\ \/ at = "write" /\ at' = at
           \/ at' = "hung"
    BY <1>1, <1>4 DEF Ask
  <2> QED BY <1>3, <2>1 DEF FetchInv
<1>5. CASE conn = "up"
  <2>1. at' = at /\ phase' = "wait"
    BY <1>5 DEF Ask
  <2>2. UNCHANGED <<Here, Want>> /\ ~Told /\ ~Told'
    BY <1>2, <1>3 DEF Here, Want, Told
  <2>3. GetInv'
    BY <1>1, <1>2, <1>3, <1>5, <2>1, <2>2 DEF Honest, FetchInv, GetInv, ReadInv, Astray
  <2>4. at = "close" => Made
    BY <1>5 DEF Honest, FetchInv
  <2>5. at = "open" => pos = 0
    BY DEF Honest, FetchInv
  <2> QED BY <1>2, <1>3, <2>1, <2>3, <2>4, <2>5 DEF FetchInv, Made
<1> QED BY <1>1, <1>4, <1>5

\* The reply of a read brings the next piece of the file into the buffer.
LEMMA FetchReply ==
    ASSUME Honest, AcceptReply
    PROVE  FetchInv'
<1>1. /\ phase = "wait" /\ phase' = "ret" /\ down # <<>> /\ down' = <<>> /\ at \in Points
      /\ ret' = Head(down).r /\ Answered /\ at # "idle" /\ outcome = "none"
      /\ Head(down).op = Op(at)
  BY FetchFacts, UploadFacts DEF AcceptReply, Answered, Points, Expected
<1>2. UNCHANGED <<conn, req, job, at, outcome, size, total, off, fd, len, pos, dst, spilt>>
  BY DEF AcceptReply, file
<1>3. UNCHANGED <<Here, Want>> /\ ~Answered' /\ ~Told'
  BY <1>1, <1>2 DEF Here, Want, Answered, Told
<1>4. ReplyInv' /\ CopyMade'
  BY <1>1, <1>2, <1>3 DEF ReplyInv, CopyMade, Made
<1>5. conn = "up" /\ (at \in Copying => Told)
  <2>1. at \in Copying => Op(at) # "other"
    BY DEF Copying, Op
  <2> QED BY <1>1, <2>1, FetchFacts DEF Told
<1>6. ASSUME at = "read", ~Astray PROVE pos = Here + Want /\ \A k \in 1..Want : buffer'[k] = Here + k
  <2>1. /\ Head(down).r = Want /\ Len(down) = Want + 1 /\ pos = Here + Want
        /\ \A k \in 1..Want : down[k + 1].r = Here + k
    BY <1>5, <1>6 DEF Honest, FetchInv, GetInv, ReadInv, Copying
  <2>2. size > 0 /\ size \in Int /\ Chunk \in Nat \ {0}
    BY <1>6, FetchFacts, UploadFacts DEF Honest, IndInv, PointInv
  <2>3. Want \in 1..Chunk
    BY <2>2 DEF Want, Less
  <2>4. buffer' = Fill(Want)
    <3> DEFINE n == IF at = "read" /\ Head(down).r > 0 THEN Head(down).r ELSE 0
    <3>1. buffer' = Fill(Less(n, Len(down) - 1))
      BY DEF AcceptReply
    <3>2. n = Want /\ Len(down) - 1 = Want
      BY <1>6, <2>1, <2>2, <2>3
    <3> HIDE DEF n
    <3>3. Less(n, Len(down) - 1) = Want
      BY <3>2 DEF Less
    <3> QED BY <3>1, <3>3
  <2>5. \A k \in 1..Want : buffer'[k] = down[k + 1].r
    <3> TAKE k \in 1..Want
    <3>1. k \in 1..Chunk /\ k <= Want
      BY <2>2, <2>3
    <3> QED BY <2>4, <3>1 DEF Fill
  <2> QED BY <2>1, <2>5
<1>7. GetInv'
  <2>1. GetInv
    BY <1>5 DEF Honest, FetchInv
  <2> QED BY <1>1, <1>2, <1>3, <1>5, <1>6, <2>1 DEF GetInv, ReadInv, Astray, Copying
<1>8. at' = "close" => Made'
  BY <1>2, <1>5 DEF Honest, FetchInv, Made
<1>9. at' = "open" => pos' = 0
  BY <1>2 DEF Honest, FetchInv
<1> QED BY <1>4, <1>7, <1>8, <1>9 DEF FetchInv

\* Another packet costs the connection.
LEMMA FetchOther ==
    ASSUME Honest, AcceptTorn \/ AcceptOther \/ AcceptLong \/ AcceptEof \/ AcceptReset
    PROVE  FetchInv'
<1>1. conn \in {"none", "up"} /\ phase = "wait" /\ outcome = "none"
  BY FetchFacts, UploadFacts DEF AcceptTorn, AcceptOther, AcceptLong, AcceptEof, AcceptReset, Points
<1>2. AcceptOther
  BY <1>1, FetchFacts DEF AcceptTorn, AcceptLong, AcceptEof, AcceptReset, Answered
<1>3. conn = "up"
  BY <1>1, <1>2, FetchFacts DEF AcceptOther, Answered
<1>4. /\ conn' = "none" /\ req' = NoReq /\ down' = <<>> /\ phase' = "ret"
      /\ UNCHANGED <<job, at, outcome, len, pos, dst, spilt>>
  BY <1>2 DEF AcceptOther, Hangup, file
<1>5. ReplyInv' /\ CopyMade'
  BY <1>1, <1>4 DEF ReplyInv, CopyMade, Made, Answered
<1>6. at' = "close" => Made'
  BY <1>3, <1>4 DEF Honest, FetchInv, Made
<1>7. at' = "open" => pos' = 0
  BY <1>4 DEF Honest, FetchInv
<1> QED BY <1>4, <1>5, <1>6, <1>7 DEF FetchInv

\* The steps between two requests keep the connection, with nothing on it.
LEMMA Between ==
    ASSUME Honest, phase = "ret", UNCHANGED down
    PROVE  ReplyInv' /\ ~Answered' /\ ~Told' /\ outcome = "none"
<1>1. down = <<>> /\ outcome = "none"
  BY FetchFacts, UploadFacts DEF Points
<1> QED BY <1>1 DEF ReplyInv, Answered, Told

LEMMA FetchOpen ==
    ASSUME Honest, UploadInv', OpenReturns
    PROVE  FetchInv'
<1>1. at = "open" /\ phase = "ret" /\ phase' = "run" /\ UNCHANGED <<net, job, locs, file>>
  BY DEF OpenReturns, Returned, Goes, Ends
<1>2. UNCHANGED <<down, len, pos, dst, spilt, job>>
  BY <1>1 DEF net, file
<1>3. dst = <<>>
  BY <1>1 DEF Honest, UploadInv
<1>4. \/ at' = "idle" /\ outcome' = "failed"
      \/ at' = "end" /\ outcome' = outcome
      \/ job = "put" /\ at' \in {"write", "close"} /\ outcome' = outcome
  BY DEF OpenReturns, Goes, Ends
<1>5. ReplyInv' /\ ~Answered' /\ ~Told' /\ outcome = "none"
  BY <1>1, <1>2, Between
<1>6. CopyMade'
  BY <1>4, <1>5 DEF CopyMade, Made
<1>7. at' = "close" => Made'
  BY <1>2, <1>4 DEF UploadInv, Made
<1>8. GetInv'
  BY <1>1, <1>2, <1>3, <1>4, <1>5 DEF GetInv
<1> QED BY <1>4, <1>5, <1>6, <1>7, <1>8 DEF FetchInv

LEMMA FetchSeek ==
    ASSUME Honest, SeekReturns
    PROVE  FetchInv'
<1>1. /\ at \in {"end", "set"} /\ phase = "ret" /\ phase' = "run" /\ outcome' = outcome
      /\ UNCHANGED <<net, job, total, off, file>>
      /\ size' = (IF at = "end" THEN ret ELSE size)
      /\ at' = (IF at = "end" THEN "set" ELSE IF size > 0 THEN "read" ELSE "close")
  BY DEF SeekReturns, Goes
<1>2. UNCHANGED <<conn, req, down, total, off, len, pos, dst, spilt>>
  BY <1>1 DEF net, file
<1>3. ReplyInv' /\ ~Answered' /\ ~Told' /\ outcome = "none"
  BY <1>1, <1>2, Between
<1>4. CopyMade'
  BY <1>1, <1>3 DEF CopyMade, Made
<1>5. CASE conn = "none"
  BY <1>1, <1>2, <1>3, <1>4, <1>5 DEF FetchInv
<1>6. CASE conn = "up"
  <2>1. /\ dst = <<>> /\ len \in Nat /\ (at = "end" => ret = len)
        /\ (at = "set" => size = len /\ pos = 0)
    BY <1>1, <1>6, FetchFacts, UploadFacts DEF Honest, FetchInv, GetInv
  <2>2. size' = len /\ dst' = Units(0) /\ dst' = <<>>
    BY <1>1, <1>2, <2>1, UnitsFacts
  <2>3. CASE at = "end"
    <3>1. at' = "set"
      BY <1>1, <2>3
    <3> QED BY <1>1, <1>2, <1>3, <1>4, <2>2, <3>1 DEF FetchInv, GetInv
  <2>4. CASE at = "set" /\ size > 0
    <3>1. at' = "read" /\ pos' = 0
      BY <1>1, <1>2, <2>1, <2>4
    <3>2. Here' = 0
      BY <1>2, <2>1, <2>2 DEF Here
    <3>3. size' <= len' /\ dst' = Units(Here')
      BY <1>2, <2>1, <2>2, <3>2
    <3>4. ReadInv'
      BY <1>1, <1>3, <3>1, <3>2 DEF ReadInv
    <3> QED BY <1>1, <1>2, <1>3, <1>4, <3>1, <3>3, <3>4 DEF FetchInv, GetInv
  <2>5. CASE at = "set" /\ ~(size > 0)
    <3>1. at' = "close" /\ len' = 0
      BY <1>1, <1>2, <2>1, <2>5
    <3> QED BY <1>1, <1>3, <1>4, <2>2, <3>1 DEF FetchInv, GetInv, Made
  <2> QED BY <1>1, <2>3, <2>4, <2>5
<1> QED BY <1>5, <1>6, FetchFacts, UploadFacts

LEMMA FetchRead ==
    ASSUME Honest, ReadReturns
    PROVE  FetchInv'
<1>1. /\ at = "read" /\ phase = "ret" /\ phase' = "run" /\ outcome' = outcome
      /\ UNCHANGED <<net, job, total, off, len, pos>>
      /\ size' = size - Chunk /\ job = "get"
      /\ at' = (IF size' > 0 THEN "read" ELSE "close")
  BY DEF ReadReturns, Returned, Goes, Honest, IndInv, PointInv
<1>2. UNCHANGED <<conn, req, down>>
  BY <1>1 DEF net
<1>3. ReplyInv' /\ ~Answered' /\ ~Told' /\ outcome = "none"
  BY <1>1, <1>2, Between
<1>4. CopyMade'
  BY <1>1, <1>3 DEF CopyMade
<1>5. CASE conn = "none"
  BY <1>1, <1>2, <1>3, <1>4, <1>5 DEF FetchInv
<1>6. CASE conn = "up"
  <2>1. /\ size <= len /\ (spilt \/ dst = Units(Here)) /\ (Astray \/ ReadInv)
        /\ (ReadInv => pos = Here + Want /\ \A k \in 1..Want : buffer[k] = Here + k)
    BY <1>1, <1>6 DEF Honest, FetchInv, GetInv, ReadInv
  <2>2. /\ size > 0 /\ size \in Int /\ len \in Nat /\ len <= MaxSize /\ MaxSize \in Nat
        /\ Chunk \in Nat \ {0} /\ spilt \in BOOLEAN
    BY <1>1, FetchFacts, UploadFacts DEF Honest, IndInv, PointInv, TypeOK
  <2>3. /\ Less(size, Chunk) = Want /\ Want \in Nat /\ Here \in Nat /\ Here + Want <= MaxSize
        /\ Here + Want <= len
    BY <2>1, <2>2 DEF Want, Less, Here
  <2>4. /\ Fetched \in Seq(0..MaxSize) /\ Len(Fetched) = Want
        /\ \A k \in 1..Want : Fetched[k] = buffer[k]
    BY <1>1, <2>3, FetchedFacts DEF Honest
  <2>5. PICK n \in 0..Len(Fetched) :
            /\ dst' = dst \o SubSeq(Fetched, 1, n)
            /\ spilt' = (spilt \/ n < Len(Fetched))
    BY DEF ReadReturns
  <2>6. spilt' \/ (~spilt /\ ReadInv /\ dst' = Units(Here + Want))
    <3> SUFFICES ASSUME ~spilt' PROVE ~spilt /\ ReadInv /\ dst' = Units(Here + Want)
      OBVIOUS
    <3>1. ~spilt /\ ~(n < Len(Fetched))
      BY <2>5
    <3>2. n = Want /\ Len(Fetched) = Want
      BY <2>3, <2>4, <3>1
    <3>3. ReadInv /\ dst = Units(Here) /\ \A k \in 1..Want : Fetched[k] = Here + k
      BY <2>1, <2>4, <3>1 DEF Astray
    <3> DEFINE piece == SubSeq(Fetched, 1, n)
    <3>4. /\ piece \in Seq(0..MaxSize) /\ Len(piece) = Want
          /\ \A k \in 1..Want : piece[k] = Here + k
      <4>1. /\ piece \in Seq(0..MaxSize) /\ Len(piece) = n
            /\ \A k \in 1..n : piece[k] = Fetched[k]
        BY <2>4, PrefixFacts
      <4> QED BY <3>2, <3>3, <4>1
    <3>5. dst' = Units(Here) \o piece
      BY <2>5, <3>3
    <3> HIDE DEF piece
    <3> QED BY <2>3, <3>1, <3>3, <3>4, <3>5, UnitsGrow
  <2>7. CASE size' > 0
    <3>1. Want = Chunk /\ at' = "read"
      BY <1>1, <2>2, <2>7 DEF Want, Less
    <3>2. Here' = Here + Want /\ size' <= len'
      BY <1>1, <2>1, <2>2, <3>1 DEF Here
    <3>3. spilt' \/ dst' = Units(Here')
      BY <2>6, <3>2
    <3>4. Astray' \/ ReadInv'
      <4>1. CASE ReadInv
        BY <1>1, <1>3, <2>1, <3>2, <4>1 DEF ReadInv
      <4>2. CASE Astray
        BY <2>5, <4>2 DEF Astray
      <4> QED BY <2>1, <4>1, <4>2
    <3> QED BY <1>1, <1>3, <1>4, <3>1, <3>2, <3>3, <3>4 DEF FetchInv, GetInv
  <2>8. CASE ~(size' > 0)
    <3>1. Here + Want = len /\ at' = "close"
      BY <1>1, <2>2, <2>8 DEF Want, Less, Here
    <3>2. Made'
      BY <1>1, <2>6, <3>1 DEF Made
    <3> QED BY <1>3, <1>4, <3>1, <3>2 DEF FetchInv, GetInv
  <2> QED BY <2>7, <2>8
<1> QED BY <1>5, <1>6, FetchFacts, UploadFacts

LEMMA FetchWrite ==
    ASSUME Honest, UploadInv', WriteReturns
    PROVE  FetchInv'
<1>1. /\ at = "write" /\ phase = "ret" /\ outcome' = outcome /\ UNCHANGED <<net, job, file>>
      /\ at' \in {"write", "close"}
  BY DEF WriteReturns, Returned, Goes
<1>2. UNCHANGED <<down, len, dst, spilt, job>>
  BY <1>1 DEF net, file
<1>3. ReplyInv' /\ outcome = "none"
  BY <1>1, <1>2, Between
<1>4. job = "put"
  BY <1>1 DEF Honest, IndInv, PointInv
<1>5. CopyMade'
  BY <1>1, <1>3 DEF CopyMade, Made
<1>6. at' = "close" => Made'
  BY <1>2, <1>4 DEF UploadInv, Made
<1> QED BY <1>1, <1>3, <1>5, <1>6 DEF FetchInv, GetInv

\* cp ends with the file copied, and no other command is a copy.
LEMMA FetchLast ==
    ASSUME Honest, LastReturns \/ DopenReturns \/ DreadReturns
    PROVE  FetchInv'
<1>1. phase = "ret" /\ phase' = "run" /\ UNCHANGED <<job, file>>
  BY DEF LastReturns, DopenReturns, DreadReturns, Returned, Goes, Ends
<1>2. at' \notin Copying /\ (at' = "idle" \/ outcome' = outcome)
  BY DEF LastReturns, DopenReturns, DreadReturns, Goes, Ends, Copying
<1>3. UNCHANGED <<len, dst, spilt>>
  BY <1>1 DEF file
<1>4. down = <<>> /\ outcome = "none"
  BY <1>1, FetchFacts, UploadFacts DEF Points
<1>5. CopyMade'
  <2>1. at = "close" => Made
    BY <1>1 DEF Honest, FetchInv
  <2>2. at \in {"dclose", "one", "dread"} => job \notin {"get", "put"}
    BY DEF Honest, IndInv, PointInv, Single
  <2>3. outcome' = "ok" => at \in {"close", "dclose", "one", "dread"}
    BY <1>4 DEF LastReturns, DopenReturns, DreadReturns, Returned, Goes, Ends
  <2> QED BY <1>1, <1>3, <2>1, <2>2, <2>3 DEF CopyMade, Made
<1>6. down' = <<>>
  BY <1>4 DEF LastReturns, DopenReturns, DreadReturns, net
<1>7. ReplyInv'
  BY <1>6 DEF ReplyInv, Answered
<1> QED BY <1>2, <1>5, <1>7, OffFetch

-----------------------------------------------------------------------------
(* The server of a copy.                                                   *)

\* An answer finds the stream empty and is about the request of the command.
LEMMA FetchAnswers ==
    ASSUME Honest, conn = "up", req # NoReq, NEW r \in Results,
           NEW data \in Seq(0..MaxSize), Answers(r, data)
    PROVE  /\ phase = "wait" /\ at \in Points /\ req.op = WireOp(at) /\ down = <<>>
           /\ Len(down') = Len(data) + 1
           /\ \A k \in 1..Len(data) : down'[k + 1].r = data[k]
           /\ ReplyInv' /\ CopyMade' /\ Answered' /\ Head(down').r = r /\ conn' = "up"
           /\ req' = NoReq /\ Head(down').op = req.op
           /\ UNCHANGED <<job, at, phase, outcome, size, total, off, buffer, len>>
<1>1. /\ phase = "wait" /\ at \in Points /\ down = <<>> /\ req.op = WireOp(at) /\ outcome = "none"
  BY FetchFacts, UploadFacts DEF Points
<1>2. UNCHANGED <<conn, job, at, phase, outcome, size, total, off, buffer, len>> /\ req' = NoReq
  BY DEF Answers, locs
<1> DEFINE e == [k \in 1..Len(data) |-> Data(data[k])]
           x == Rly(req.op, r)
<1>3. Len(data) \in Nat /\ \A k \in 1..Len(data) : data[k] \in 0..MaxSize
  BY ElementOfSeq, LenProperties
<1>4. \A k \in 1..Len(data) : Data(data[k]) \in Item
  <2> TAKE k \in 1..Len(data)
  <2>1. data[k] \in Results
    BY <1>3, RangeFacts
  <2> QED BY <2>1, DataFacts
<1>5. e \in Seq(Item) /\ Len(e) = Len(data) /\ \A k \in 1..Len(data) : e[k] = Data(data[k])
  BY <1>3, <1>4
<1>6. TypeOK
  BY DEF Honest, IndInv
<1>7. x \in Item
  BY <1>6, ItemFacts, ReqFacts
<1>8. x.t = "rly" /\ x.op = req.op /\ x.r = r
  BY DEF Rly
<1>9. down' = <<>> \o <<x>> \o e
  BY <1>1 DEF Answers
<1> HIDE DEF e, x
<1>10. /\ down' \in Seq(Item) /\ Len(down') = 0 + 1 + Len(e) /\ down'[0 + 1] = x
       /\ \A k \in 1..Len(e) : down'[0 + 1 + k] = e[k]
  <2> DEFINE z == <<>>
             d == z \o <<x>> \o e
  <2>1. z \in Seq(Item) /\ Len(z) = 0
    BY EmptyData
  <2>2. d = down'
    BY <1>9
  <2> HIDE DEF z
  <2>3. /\ d \in Seq(Item) /\ Len(d) = Len(z) + 1 + Len(e) /\ d[Len(z) + 1] = x
        /\ \A k \in 1..Len(e) : d[Len(z) + 1 + k] = e[k]
    BY <1>5, <1>7, <2>1, JoinFacts
  <2> HIDE DEF d
  <2> QED BY <2>1, <2>2, <2>3
<1>11. Len(down') = Len(data) + 1 /\ down'[1] = x
  BY <1>3, <1>5, <1>10
<1>12. down' # <<>> /\ Head(down') = x
  <2>1. down' # <<>>
    BY <1>3, <1>11
  <2>2. Head(down') = down'[1]
    BY <1>10, <2>1, TailFacts
  <2> QED BY <1>11, <2>1, <2>2
<1>13. \A k \in 1..Len(data) : down'[k + 1].r = data[k]
  <2> TAKE k \in 1..Len(data)
  <2>1. down'[k + 1] = e[k] /\ data[k] \in Results
    <3>1. 0 + 1 + k = k + 1 /\ k \in 1..Len(e)
      BY <1>3, <1>5
    <3> QED BY <1>3, <1>10, <3>1, RangeFacts
  <2>2. e[k] = Data(data[k])
    BY <1>5
  <2> QED BY <2>1, <2>2, DataFacts
<1>14. WireOp(at) = Op(at) \/ at \notin Copying
  BY <1>1, OpWays DEF Honest
<1>15. ReplyInv' /\ Answered'
  <2>1. Op(at)' = Op(at)
    BY <1>2 DEF Op
  <2>2. Answered' /\ Head(down').t = "rly" /\ Head(down').op = WireOp(at)
    BY <1>1, <1>2, <1>8, <1>12 DEF Answered
  <2> QED BY <1>1, <1>2, <1>14, <2>1, <2>2 DEF ReplyInv
<1>16. CopyMade'
  BY <1>1, <1>2 DEF CopyMade
<1> QED BY <1>1, <1>2, <1>8, <1>11, <1>12, <1>13, <1>15, <1>16

LEMMA FetchServeRead ==
    ASSUME Honest, ServeRead
    PROVE  FetchInv'
<1>1. /\ conn = "up" /\ req # NoReq /\ req.op = "read" /\ dst' = dst
      /\ phase = "wait" /\ at \in Points /\ req.op = WireOp(at) /\ ~Answered
  BY FetchFacts, UploadFacts DEF ServeRead, Served, Answered
<1>2. at = "read"
  BY <1>1, OpWays DEF Honest
<1>3. /\ size <= len /\ size > 0 /\ size \in Int /\ Chunk \in Nat \ {0}
      /\ len \in Nat /\ len <= MaxSize /\ MaxSize \in Nat /\ pos \in 0..len
      /\ (spilt \/ dst = Units(Here)) /\ (Astray \/ pos = Here)
  <2>1. GetInv
    BY <1>1 DEF Honest, FetchInv
  <2>2. size <= len /\ (spilt \/ dst = Units(Here)) /\ (Astray \/ ReadInv)
    BY <1>2, <2>1 DEF GetInv
  <2>3. ReadInv => pos = Here
    BY <1>1 DEF ReadInv
  <2> QED BY <1>2, <2>2, <2>3, FetchFacts, UploadFacts DEF Honest, IndInv, PointInv
<1> DEFINE n == Less(Chunk, len - pos)
           data == [k \in 1..n |-> pos + k]
<1>4. \/ Answers(n, data) /\ pos' = pos + n /\ spilt' = spilt
      \/ "short" \in Faults /\ Answers(-1, <<>>) /\ spilt' = TRUE
  BY DEF ServeRead
<1>5. /\ n \in Nat /\ pos + n <= MaxSize /\ pos \in Nat
      /\ pos = Here => n = Want
  BY <1>3 DEF Here, Want, Less
<1> HIDE DEF n
<1>6. data \in Seq(0..MaxSize) /\ Len(data) = n /\ \A k \in 1..n : data[k] = pos + k
  <2>1. \A k \in 1..n : pos + k \in 0..MaxSize
    BY <1>3, <1>5
  <2> QED BY <1>5, <2>1
<1> HIDE DEF data
<1>7. n \in Results
  BY <1>3, <1>5, RangeFacts
<1>8. CASE "short" \in Faults /\ Answers(-1, <<>>) /\ spilt' = TRUE
  <2>1. -1 \in Results /\ <<>> \in Seq(0..MaxSize)
    BY RangeFacts, EmptyData
  <2>2. ReplyInv' /\ CopyMade' /\ UNCHANGED <<at, size, len>>
    BY <1>1, <1>8, <2>1, FetchAnswers
  <2> QED BY <1>2, <1>3, <1>8, <2>2 DEF FetchInv, GetInv, Astray
<1>9. CASE Answers(n, data) /\ pos' = pos + n /\ spilt' = spilt
  <2>1. /\ Len(down') = Len(data) + 1 /\ \A k \in 1..Len(data) : down'[k + 1].r = data[k]
        /\ ReplyInv' /\ CopyMade' /\ Answered' /\ Head(down').r = n
        /\ UNCHANGED <<job, at, phase, outcome, size, total, off, buffer, len>>
    BY <1>1, <1>6, <1>7, <1>9, FetchAnswers
  <2>2. UNCHANGED <<Here, Want>> /\ phase' = "wait" /\ at' = "read"
    BY <1>1, <1>2, <2>1 DEF Here, Want
  <2>3. Astray' \/ ReadInv'
    <3>1. CASE Astray
      BY <1>9, <3>1 DEF Astray
    <3>2. CASE pos = Here
      <4>1. /\ Head(down').r = Want' /\ Len(down') = Want' + 1 /\ pos' = Here' + Want'
            /\ \A k \in 1..Want' : down'[k + 1].r = Here' + k
        BY <1>3, <1>5, <1>6, <1>9, <2>1, <2>2, <3>2
      <4> QED BY <2>1, <2>2, <4>1 DEF ReadInv
    <3> QED BY <1>3, <3>1, <3>2
  <2>4. (spilt' \/ dst' = Units(Here')) /\ size' <= len'
    BY <1>1, <1>3, <1>9, <2>1, <2>2
  <2> QED BY <2>1, <2>2, <2>3, <2>4 DEF FetchInv, GetInv
<1> QED BY <1>4, <1>8, <1>9

\* A write is no part of a fetch.
LEMMA FetchServeWrite ==
    ASSUME Honest, ServeWrite
    PROVE  FetchInv'
<1>1. /\ conn = "up" /\ req # NoReq /\ req.op = "write" /\ phase = "wait" /\ at \in Points
      /\ req.op = WireOp(at)
  BY FetchFacts, UploadFacts DEF ServeWrite, Served
<1>2. at = "write"
  BY <1>1, OpWays DEF Honest
<1>3. Len(req.data) \in Nat /\ Len(req.data) <= MaxSize /\ MaxSize \in Nat
  BY FetchFacts, UploadFacts DEF Honest, IndInv, WireInv
<1>4. PICK r \in Results : Answers(r, <<>>)
  <2>1. \A n \in 0..Len(req.data) : n \in 0..MaxSize
    BY <1>3
  <2>2. /\ -1 \in Results /\ Len(req.data) \in Results
        /\ \A n \in 0..Len(req.data) - 1 : n \in Results
    BY <1>3, <2>1, RangeFacts
  <2>3. \/ Answers(Len(req.data), <<>>) \/ Answers(-1, <<>>)
        \/ \E n \in 0..Len(req.data) - 1 : Answers(n, <<>>)
    BY DEF ServeWrite
  <2> QED BY <2>2, <2>3
<1>5. <<>> \in Seq(0..MaxSize)
  BY EmptyData
<1>6. ReplyInv' /\ CopyMade' /\ at' = at
  BY <1>1, <1>4, <1>5, FetchAnswers
<1> QED BY <1>2, <1>6 DEF FetchInv, GetInv

LEMMA FetchServeSeek ==
    ASSUME Honest, ServeSeek
    PROVE  FetchInv'
<1>1. /\ conn = "up" /\ req # NoReq /\ req.op = "lseek" /\ dst' = dst
      /\ phase = "wait" /\ at \in Points /\ req.op = WireOp(at)
  BY FetchFacts, UploadFacts DEF ServeSeek, Served
<1>2. at \in {"end", "set"}
  BY <1>1, OpWays DEF Honest
<1> DEFINE r == IF at = "end" THEN len ELSE 0
<1>3. Answers(r, <<>>) /\ pos' = r
  BY DEF ServeSeek
<1>4. r \in Results /\ <<>> \in Seq(0..MaxSize)
  BY FetchFacts, UploadFacts, RangeFacts, EmptyData
<1> HIDE DEF r
<1>5. /\ ReplyInv' /\ CopyMade' /\ Answered' /\ Head(down').r = r
      /\ UNCHANGED <<job, at, phase, outcome, size, total, off, buffer, len>>
  BY <1>1, <1>3, <1>4, FetchAnswers
<1>6. at = "end" => r = len
  BY DEF r
<1>7. at = "set" => r = 0
  BY DEF r
<1>8. dst = <<>> /\ (at = "set" => size = len)
  BY <1>1, <1>2 DEF Honest, FetchInv, GetInv
<1> QED BY <1>1, <1>2, <1>3, <1>5, <1>6, <1>7, <1>8 DEF FetchInv, GetInv

LEMMA FetchServeOther ==
    ASSUME Honest, ServeDread \/ ServeOther \/ ServeNoLength
    PROVE  FetchInv'
<1>1. /\ conn = "up" /\ req # NoReq /\ req.op \notin {"read", "write", "lseek"} /\ dst' = dst /\ spilt' = spilt
      /\ phase = "wait" /\ at \in Points /\ req.op = WireOp(at)
      /\ req.op = "dread" \/ pos' = pos
  <2>1. CASE ServeDread \/ ServeOther
    BY <2>1, FetchFacts, UploadFacts DEF ServeDread, ServeOther, Served
  <2>2. CASE ServeNoLength
    <3>1. conn = "up" /\ req # NoReq /\ Form(at) # "whole" /\ dst' = dst /\ spilt' = spilt
      BY <2>2, FetchFacts, UploadFacts DEF ServeNoLength, NoReq
    <3>2. at = "one" /\ req.op = WireOp(at) /\ phase = "wait" /\ job \in Single
      BY <3>1, FetchFacts, UploadFacts, OpWays DEF Honest, IndInv, PointInv
    <3>3. WireOp(at) \notin {"read", "write", "lseek"}
      BY <3>2 DEF WireOp, Op, Single
    <3> QED BY <2>2, <3>1, <3>2, <3>3 DEF ServeNoLength, Points
  <2> QED BY <2>1, <2>2
<1>2. at \notin {"read", "write", "end", "set"} /\ (at = "dread" \/ pos' = pos)
  BY <1>1, OpWays DEF Honest
<1>3. PICK r \in {-1, 0, 1} : Answers(r, <<>>)
  BY DEF ServeDread, ServeOther, ServeNoLength
<1>4. r \in Results /\ <<>> \in Seq(0..MaxSize)
  BY RangeFacts, EmptyData
<1>5. /\ ReplyInv' /\ CopyMade'
      /\ UNCHANGED <<job, at, phase, outcome, size, total, off, buffer, len>>
  BY <1>1, <1>3, <1>4, FetchAnswers
<1>6. at = "open" => pos' = 0
  BY <1>2 DEF Honest, FetchInv
<1>7. at = "close" => Made'
  BY <1>1, <1>5 DEF Honest, FetchInv, Made
<1> QED BY <1>2, <1>5, <1>6, <1>7 DEF FetchInv, GetInv

\* A packet of another type tells cp nothing.
LEMMA FetchServeWrong ==
    ASSUME Honest, ServeWrong
    PROVE  FetchInv'
<1>1. conn = "up" /\ req # NoReq
  BY DEF ServeWrong, Served, NoReq
<1>2. phase = "wait" /\ at \in Points /\ down = <<>> /\ outcome = "none"
  BY <1>1, FetchFacts, UploadFacts DEF Points
<1> DEFINE x == Rly("other", 0)
<1>3. /\ down' = Append(<<>>, x) /\ req' = NoReq
      /\ UNCHANGED <<conn, job, at, phase, outcome, size, len, pos, dst, spilt>>
  BY <1>2 DEF ServeWrong, locs, file
<1>4. x.t = "rly" /\ x.op = "other"
  BY DEF Rly
<1> HIDE DEF x
<1>5. down' # <<>> /\ Head(down') = x
  BY <1>3
<1>6. Answered' /\ ~Told'
  BY <1>2, <1>3, <1>4, <1>5 DEF Answered, Told
<1>7. ReplyInv' /\ CopyMade'
  BY <1>2, <1>3, <1>4, <1>5 DEF ReplyInv, CopyMade, Made, Answered
<1>8. GetInv'
  <2>1. GetInv
    BY <1>1 DEF Honest, FetchInv
  <2>2. ~Answered
    BY <1>2 DEF Answered
  <2>3. UNCHANGED <<Here, Astray>> /\ (at = "read" /\ ReadInv => ReadInv')
    BY <1>2, <1>3, <1>6, <2>2 DEF Here, Astray, ReadInv
  <2> QED BY <1>2, <1>3, <1>6, <2>1, <2>3 DEF GetInv
<1>9. at = "close" => Made'
  BY <1>1, <1>3 DEF Honest, FetchInv, Made
<1>10. at = "open" => pos = 0
  BY DEF Honest, FetchInv
<1> QED BY <1>3, <1>7, <1>8, <1>9, <1>10 DEF FetchInv

LEMMA FetchStep ==
    ASSUME Honest, UploadInv', [Next]_vars
    PROVE  FetchInv'
<1>1. CASE \E j \in Jobs, n, o \in 0..MaxSize : Start(j, n, o)
  BY <1>1, FetchStart
<1>2. CASE Ask \/ AcceptReply
  BY <1>2, FetchAsk, FetchReply
<1>3. CASE AcceptTorn \/ AcceptOther \/ AcceptLong \/ AcceptEof \/ AcceptReset
  BY <1>3, FetchOther
<1>4. CASE OpenReturns \/ SeekReturns \/ ReadReturns \/ WriteReturns
  BY <1>4, FetchOpen, FetchSeek, FetchRead, FetchWrite
<1>5. CASE LastReturns \/ DopenReturns \/ DreadReturns
  BY <1>5, FetchLast
<1>6. CASE Server \/ ServeNoLength
  BY <1>6, FetchServeRead, FetchServeWrite, FetchServeSeek, FetchServeOther DEF Server
<1>7. CASE ServeWrong
  BY <1>7, FetchServeWrong
<1>8. CASE ServeLong \/ \E how \in {"eof", "reset"}, keep \in 0..Len(down) : Die(how, keep)
  BY <1>8 DEF ServeLong, Die, Honest
<1>9. CASE OtherTraffic
  <2>1. UNCHANGED <<req, down, job, at, phase, outcome, len, dst, spilt>> /\ at = "idle"
    BY <1>9 DEF OtherTraffic, file
  <2>2. phase = "run" /\ down = <<>>
    BY <2>1, FetchFacts, UploadFacts
  <2>3. ReplyInv' /\ CopyMade'
    BY <2>1, <2>2 DEF Honest, FetchInv, ReplyInv, CopyMade, Made, Answered
  <2> QED BY <2>1, <2>3, OffFetch DEF Copying
<1>10. CASE UNCHANGED vars
  <2>1. UNCHANGED <<conn, req, down, job, at, phase, ret, outcome, size, buffer, len, pos, dst, spilt>>
    BY <1>10 DEF vars, net, locs, file
  <2>2. UNCHANGED <<Here, Want, Answered, Told, Op(at), Astray, Made>>
    BY <2>1 DEF Here, Want, Answered, Told, Op, Astray, Made
  <2>3. UNCHANGED <<ReadInv, ReplyInv, CopyMade>>
    BY <2>1, <2>2 DEF ReadInv, ReplyInv, CopyMade
  <2>4. UNCHANGED GetInv
    BY <2>1, <2>2, <2>3 DEF GetInv
  <2> QED BY <2>1, <2>2, <2>3, <2>4 DEF Honest, FetchInv
<1> QED BY <1>1, <1>2, <1>3, <1>4, <1>5, <1>6, <1>7, <1>8, <1>9, <1>10, Zenon
        DEF Next, Command

LEMMA FetchInit == Init => FetchInv
BY DEF Init, FetchInv, ReplyInv, GetInv, CopyMade, Answered, Told

\* Nothing is behind what was written of a file that the old one does not exceed.
LEMMA NoTail ==
    ASSUME TypeOK, CopyMade
    PROVE  CopyFaithful
<1> SUFFICES ASSUME outcome = "ok", job \in {"get", "put"}, old <= len, dst = Units(len)
             PROVE  Copied = Units(len)
  BY DEF CopyMade, Made, CopyFaithful
<1>1. old \in Nat /\ len \in 0..MaxSize /\ MaxSize \in Nat
  BY ConstantFacts DEF TypeOK
<1>2. dst \in Seq(0..MaxSize) /\ Len(dst) = len
  BY <1>1, UnitsFacts
<1>3. [k \in 1..old - Len(dst) |-> 0] = <<>>
  BY <1>1, <1>2
<1> QED BY <1>2, <1>3, ConcatEmptySeq DEF Copied

\* With a server that stays, and answers each request with what it asked for, in
\* part or not at all, or with another packet, a cp in either direction that ends
\* normally has copied every unit of the file once and in order (cli_copy), unless
\* in a fetch a read or a write to the disk fell short or the destination was
\* longer than the file; whatever the sizes of the file and of its buffer, and
\* whatever other commands came before it.
THEOREM NetFsCopyFaithful == Faults \subseteq {"wrong", "short"} => (Spec => []CopyFaithful)
<1> SUFFICES ASSUME Faults \subseteq {"wrong", "short"} PROVE Spec => []CopyFaithful
  OBVIOUS
<1>1. "die" \notin Faults
  OBVIOUS
<1>2. Spec => []UploadInv
  BY <1>1, UploadInvariant
<1>3. IndInv /\ UploadInv /\ FetchInv /\ [Next]_vars /\ UploadInv' => FetchInv'
  BY FetchStep DEF Honest
<1>4. IndInv /\ FetchInv => CopyFaithful
  BY NoTail DEF FetchInv, IndInv
<1> QED BY <1>2, <1>3, <1>4, FetchInit, NetFsInvariant, PTL DEF Spec

-----------------------------------------------------------------------------
(* Termination of a copy, step by step.                                    *)

Quiet == Faults = {} /\ Honest /\ PlainInv /\ PaceInv

LEMMA QuietFacts ==
    ASSUME Quiet
    PROVE  /\ Honest /\ Staying /\ IndInv
           /\ size \in Int /\ total \in Int /\ off \in Nat /\ len \in Nat /\ len <= MaxSize
           /\ MaxSize \in Nat /\ Chunk \in Nat /\ Chunk > 0 /\ ret \in Int
           /\ phase \in {"run", "wait", "ret"}
           /\ at \in Copying => conn = "up" /\ GetInv
           /\ at \in Copying => at \in Points
           /\ job = "put" /\ at \in Copying => size = len
           /\ at = "write" => total < size /\ job = "put"
           /\ at = "read" => size > 0
           /\ at = "set" => size = len
<1>1. Honest /\ Staying /\ IndInv
  BY FetchFacts DEF Quiet, Honest
<1>2. at \in Copying => conn = "up" /\ GetInv
  BY DEF Quiet, PlainInv, Honest, FetchInv
<1>3. at = "set" => size = len
  BY <1>2 DEF Copying, GetInv
<1>4. at \in Copying => at \in Points
  BY DEF Copying, Points
<1>5. /\ job = "put" /\ at \in Copying => size = len
      /\ at = "write" => total < size /\ job = "put"
      /\ at = "read" => size > 0
  BY <1>1 DEF IndInv, PointInv
<1>6. /\ size \in Int /\ total \in Int /\ off \in Nat /\ len \in Nat /\ len <= MaxSize
      /\ MaxSize \in Nat /\ Chunk \in Nat /\ Chunk > 0 /\ ret \in Int
      /\ phase \in {"run", "wait", "ret"}
  BY <1>1, UploadFacts
<1> QED BY <1>1, <1>2, <1>3, <1>4, <1>5, <1>6

LEMMA LeftFacts ==
    ASSUME Quiet, at \in Copying
    PROVE  /\ Left \in Nat /\ Left >= 1 /\ Rank \in 0..3 /\ Variant \in Nat
           /\ Left = 1 <=> at = "close"
<1>1. at \in Copying /\ at \in {"open", "end", "set", "read", "write", "close"}
  BY DEF Copying
<1>2. Left \in Nat /\ Left >= 1 /\ (Left = 1 <=> at = "close")
  BY <1>1, QuietFacts DEF Left
<1>3. Rank \in 0..3
  BY DEF Rank
<1> QED BY <1>2, <1>3 DEF Variant

LEMMA Descends ==
    ASSUME NEW l \in Nat, NEW k \in Nat, NEW m \in Nat, NEW n \in Nat,
           (m = l /\ n < k) \/ (m < l /\ n <= 3)
    PROVE  4 * m + n \in Nat /\ 4 * m + n < 4 * l + k
OBVIOUS

\* A step inside a request.
LEMMA WithinRequest ==
    ASSUME Quiet, UNCHANGED <<at, size, total>>, Rank' \in Nat, Rank' < Rank
    PROVE  Nearer
<1> SUFFICES ASSUME at \in Copying PROVE Nearer
  BY DEF Nearer
<1>1. Left' = Left
  BY DEF Left
<1>2. Left \in Nat /\ Rank \in 0..3 /\ Variant \in Nat
  BY LeftFacts
<1>3. Left' \in Nat /\ Rank \in Nat /\ Rank' \in Nat /\ (Left' = Left /\ Rank' < Rank)
  BY <1>1, <1>2
<1>4. 4 * Left' + Rank' \in Nat /\ 4 * Left' + Rank' < 4 * Left + Rank
  BY <1>2, <1>3, Descends
<1>5. Variant' \in Nat /\ Variant' < Variant
  BY <1>4, Zenon DEF Variant
<1> QED BY <1>2, <1>5 DEF Nearer

\* A step to the next request.
LEMMA NextRequest ==
    ASSUME Quiet, at' \in Copying, phase = "ret", phase' = "run", Left' \in Nat, Left' < Left
    PROVE  Nearer
<1> SUFFICES ASSUME at \in Copying PROVE Nearer
  BY DEF Nearer
<1>1. Rank = 0 /\ Rank' = 3
  BY DEF Rank
<1>2. Left \in Nat /\ Variant \in Nat
  BY LeftFacts
<1>3. Rank \in Nat /\ Rank' \in Nat /\ (Left' < Left /\ Rank' <= 3)
  BY <1>1
<1>4. 4 * Left' + Rank' \in Nat /\ 4 * Left' + Rank' < 4 * Left + Rank
  BY <1>2, <1>3, Descends
<1>5. Variant' \in Nat /\ Variant' < Variant
  BY <1>4, Zenon DEF Variant
<1> QED BY <1>2, <1>5 DEF Nearer

Advance == PlainInv' /\ PaceInv' /\ Nearer

\* Away from cp there is nothing to show.
LEMMA OffCopy ==
    ASSUME at \notin Copying, at' \notin Copying
    PROVE  Advance
BY DEF Advance, PlainInv, PaceInv, Nearer, Copying

LEMMA StartAdvance ==
    ASSUME Quiet, NEW j \in Jobs, NEW n \in 0..MaxSize, NEW o \in 0..MaxSize, Start(j, n, o)
    PROVE  Advance
<1>1. conn \in {"none", "up"} /\ at = "idle" /\ phase = "run"
  BY QuietFacts, UploadFacts DEF Start
<1>2. at' = "idle" \/ (at' = First(j) /\ phase' = "run" /\ conn' = "up")
  BY <1>1 DEF Start
<1>3. First(j) \in {"open", "dopen", "one"}
  BY DEF First
<1>4. req = NoReq /\ req' = req
  BY <1>1, QuietFacts, UploadFacts DEF Start
<1>5. PlainInv' /\ PaceInv'
  BY <1>2, <1>3, <1>4 DEF PlainInv, PaceInv, Answered, Copying
<1>6. Nearer
  BY <1>1 DEF Nearer, Copying
<1> QED BY <1>5, <1>6 DEF Advance

LEMMA AskAdvance ==
    ASSUME Quiet, Ask
    PROVE  Advance
<1>1. CASE at \notin Copying
  <2>1. at' = at \/ at' \in {"hung", "killed"}
    BY DEF Ask
  <2> QED BY <1>1, <2>1, OffCopy DEF Copying
<1>2. CASE at \in Copying
  <2>1. /\ conn = "up" /\ phase = "run" /\ req' = Request /\ phase' = "wait" /\ conn' = conn
        /\ at' = at /\ off' = (IF at = "write" THEN off + Piece ELSE off)
        /\ UNCHANGED <<down, size, total>>
    BY <1>2, QuietFacts DEF Ask
  <2>2. down = <<>>
    BY <2>1, QuietFacts, FetchFacts
  <2>3. Request # NoReq
    BY <1>2, QuietFacts, RequestFacts
  <2>4. PlainInv'
    <3>1. Request.form = Form(at)
      BY DEF Request
    <3>2. Form(at) = "whole"
      BY <1>2 DEF Form, Op, Copying
    <3>3. Request.form = "whole"
      BY <3>1, <3>2, Zenon
    <3> QED BY <2>1, <2>2, <2>3, <3>3 DEF PlainInv, Answered
  <2>5. PaceInv'
    <3> SUFFICES ASSUME at = "write" PROVE PaceInv'
      BY <2>1 DEF PaceInv
    <3>1. total = off /\ off < len
      BY <1>2, <2>1, QuietFacts DEF Quiet, PaceInv
    <3>2. Piece \in Nat /\ Piece > 0
      BY <3>1, QuietFacts DEF Piece, Less
    <3>3. Len(Request.data) = Piece
      <4>1. Request.data = [k \in 1..Piece |-> off + k]
        BY DEF Request
      <4> QED BY <3>2, <4>1
    <3> QED BY <2>1, <2>2, <3>1, <3>2, <3>3, QuietFacts DEF PaceInv, Answered
  <2>6. Rank = 3 /\ Rank' = 2
    BY <2>1, <2>3 DEF Rank
  <2>7. Nearer
    BY <2>1, <2>6, WithinRequest
  <2> QED BY <2>4, <2>5, <2>7 DEF Advance
<1> QED BY <1>1, <1>2

LEMMA AcceptAdvance ==
    ASSUME Quiet,
           \/ AcceptReply \/ AcceptTorn \/ AcceptOther \/ AcceptLong \/ AcceptEof
           \/ AcceptReset
    PROVE  Advance
<1>1. at' = at
  BY DEF AcceptReply, AcceptTorn, AcceptOther, AcceptLong, AcceptEof, AcceptReset
<1>2. CASE at \notin Copying
  BY <1>1, <1>2, OffCopy
<1>3. CASE at \in Copying
  <2>1. conn = "up" /\ (Answered => Head(down).t = "rly" /\ Head(down).op = Op(at))
    BY <1>3, QuietFacts, FetchFacts DEF Quiet, PlainInv
  <2>2. AcceptReply
    BY <2>1 DEF AcceptTorn, AcceptOther, AcceptLong, AcceptEof, AcceptReset, Answered, Expected
  <2>3. /\ phase = "wait" /\ phase' = "ret" /\ Answered /\ ret' = Head(down).r
        /\ UNCHANGED <<conn, req, size, total, off>>
    BY <2>2 DEF AcceptReply, Answered
  <2>4. req = NoReq
    BY <2>3, QuietFacts, FetchFacts DEF Answered
  <2>5. PlainInv'
    BY <2>1, <2>3, <2>4 DEF PlainInv, Answered
  <2>6. PaceInv'
    BY <1>1, <2>3 DEF Quiet, PaceInv, Answered
  <2>7. Rank = 1 /\ Rank' = 0
    BY <2>3, <2>4 DEF Rank
  <2>8. Nearer
    BY <1>1, <2>3, <2>7, WithinRequest
  <2> QED BY <2>5, <2>6, <2>8 DEF Advance
<1> QED BY <1>2, <1>3

\* Where a request has returned, the next one finds the connection as it was.
LEMMA PlainBetween ==
    ASSUME Quiet, at \in Copying, phase = "ret", phase' = "run", UNCHANGED net
    PROVE  PlainInv'
<1>1. conn' = conn /\ conn = "up" /\ req' = req
  BY QuietFacts DEF net
<1>2. req = NoReq
  BY QuietFacts, UploadFacts
<1> QED BY <1>1, <1>2 DEF PlainInv, Answered

LEMMA OpenAdvance ==
    ASSUME Quiet, OpenReturns
    PROVE  Advance
<1>1. /\ at = "open" /\ phase = "ret" /\ phase' = "run" /\ UNCHANGED <<net, size, total, off>>
      /\ \/ at' = "idle"
         \/ at' = "end"
         \/ job = "put" /\ at' = (IF total < size THEN "write" ELSE "close")
  BY DEF OpenReturns, Returned, Ends, Goes, locs
<1>2. at \in Copying
  BY <1>1 DEF Copying
<1>3. PlainInv'
  BY <1>1, <1>2, PlainBetween
<1>4. total = 0 /\ off = 0
  BY <1>1 DEF Quiet, Honest, IndInv, PointInv, UploadInv
<1>5. PaceInv'
  BY <1>1, <1>4 DEF PaceInv, Answered
<1>6. Nearer
  <2>1. CASE at' = "idle"
    BY <2>1 DEF Nearer
  <2>2. CASE at' # "idle"
    <3>1. at' \in {"end", "write", "close"} /\ (at' # "end" => size = len)
      BY <1>1, <1>2, <2>2, QuietFacts
    <3>2. Left = MaxSize + 4
      BY <1>1 DEF Left
    <3>3. Left' \in Nat /\ Left' < Left
      BY <1>1, <1>4, <3>1, <3>2, QuietFacts DEF Left
    <3> QED BY <1>1, <3>1, <3>3, NextRequest DEF Copying
  <2> QED BY <2>1, <2>2
<1> QED BY <1>3, <1>5, <1>6 DEF Advance

LEMMA SeekAdvance ==
    ASSUME Quiet, SeekReturns
    PROVE  Advance
<1>1. /\ at \in {"end", "set"} /\ phase = "ret" /\ phase' = "run" /\ UNCHANGED net
      /\ size' = (IF at = "end" THEN ret ELSE size)
      /\ at' = (IF at = "end" THEN "set" ELSE IF size > 0 THEN "read" ELSE "close")
  BY DEF SeekReturns, Goes
<1>2. at \in Copying
  BY <1>1 DEF Copying
<1>3. PlainInv'
  BY <1>1, <1>2, PlainBetween
<1>4. PaceInv'
  BY <1>1 DEF PaceInv
<1>5. /\ at = "end" => ret = len
      /\ at = "set" => size = len
  BY <1>1, <1>2, QuietFacts DEF GetInv
<1>6. Left' \in Nat /\ Left' < Left /\ at' \in Copying
  <2>1. CASE at = "end"
    <3>1. at' = "set" /\ size' = len
      BY <1>1, <1>5, <2>1
    <3>2. Left = MaxSize + 3 /\ Left' = len + 2
      BY <2>1, <3>1 DEF Left
    <3> QED BY <3>1, <3>2, QuietFacts DEF Copying
  <2>2. CASE at = "set"
    <3>1. size' = len /\ size = len /\ at' = IF size > 0 THEN "read" ELSE "close"
      BY <1>1, <1>5, <2>2
    <3>2. Left = len + 2 /\ Left' = IF size > 0 THEN len + 1 ELSE 1
      BY <2>2, <3>1 DEF Left
    <3> QED BY <3>1, <3>2, QuietFacts DEF Copying
  <2> QED BY <1>1, <2>1, <2>2
<1>7. Nearer
  BY <1>1, <1>6, NextRequest
<1> QED BY <1>3, <1>4, <1>7 DEF Advance

LEMMA ReadAdvance ==
    ASSUME Quiet, ReadReturns
    PROVE  Advance
<1>1. /\ at = "read" /\ phase = "ret" /\ phase' = "run" /\ UNCHANGED net
      /\ size' = size - Chunk
      /\ at' = (IF size' > 0 THEN "read" ELSE "close")
  BY DEF ReadReturns, Returned, Goes
<1>2. at \in Copying
  BY <1>1 DEF Copying
<1>3. PlainInv'
  BY <1>1, <1>2, PlainBetween
<1>4. PaceInv'
  BY <1>1 DEF PaceInv
<1>5. Left = size + 1 /\ Left' = IF size' > 0 THEN size' + 1 ELSE 1
  BY <1>1 DEF Left
<1>6. Left' \in Nat /\ Left' < Left /\ at' \in Copying
  BY <1>1, <1>5, QuietFacts DEF Copying
<1>7. Nearer
  BY <1>1, <1>6, NextRequest
<1> QED BY <1>3, <1>4, <1>7 DEF Advance

\* What is counted of an upload grows, since the server takes what it is given.
LEMMA WriteAdvance ==
    ASSUME Quiet, WriteReturns
    PROVE  Advance
<1>1. /\ at = "write" /\ phase = "ret" /\ phase' = "run" /\ UNCHANGED net
      /\ UNCHANGED <<size, off>> /\ total' = Counted
      /\ at' = (IF total' < size THEN "write" ELSE "close")
  BY DEF WriteReturns, Returned, Goes
<1>2. at \in Copying
  BY <1>1 DEF Copying
<1>3. PlainInv'
  BY <1>1, <1>2, PlainBetween
<1>4. total < off /\ total + ret = off
  BY <1>1 DEF Quiet, PaceInv
<1>5. total' = off
  BY <1>1, <1>4, QuietFacts DEF Counted
<1>6. PaceInv'
  BY <1>1, <1>5 DEF PaceInv, Answered
<1>7. Left = size - total + 1 /\ Left' = IF total' < size THEN size - total' + 1 ELSE 1
  BY <1>1 DEF Left
<1>8. Left' \in Nat /\ Left' < Left /\ at' \in Copying
  BY <1>1, <1>4, <1>5, <1>7, QuietFacts DEF Copying
<1>9. Nearer
  BY <1>1, <1>8, NextRequest
<1> QED BY <1>3, <1>6, <1>9 DEF Advance

LEMMA LastAdvance ==
    ASSUME Quiet, LastReturns \/ DopenReturns \/ DreadReturns
    PROVE  Advance
<1>1. at' \notin Copying /\ (at \in Copying => at' = "idle")
  BY DEF LastReturns, DopenReturns, DreadReturns, Returned, Goes, Ends, Copying
<1> QED BY <1>1 DEF Advance, PlainInv, PaceInv, Nearer, Copying

\* The server answers with the whole of what it was asked for.
LEMMA ServesInFull ==
    ASSUME Quiet, Server
    PROVE  /\ conn = "up" /\ req # NoReq
           /\ \E r \in Results, data \in Seq(0..MaxSize) :
                 Answers(r, data) /\ (at = "write" => r = Len(req.data))
<1>1. conn = "up" /\ req # NoReq
  BY DEF Server, ServeRead, ServeWrite, ServeSeek, ServeDread, ServeOther, Served
<1>2. at \in Points /\ req.op = WireOp(at) /\ IndInv
  BY <1>1, QuietFacts, UploadFacts
<1>3. at = "write" <=> req.op = "write"
  BY <1>2, OpWays
<1>4. <<>> \in Seq(0..MaxSize)
  BY EmptyData
<1>5. CASE ServeWrite
  <2>1. Answers(Len(req.data), <<>>)
    BY <1>5 DEF ServeWrite, Quiet
  <2>2. Len(req.data) \in Nat /\ Len(req.data) <= MaxSize /\ MaxSize \in Nat
    BY <1>2, QuietFacts, UploadFacts DEF IndInv, WireInv
  <2>3. Len(req.data) \in 0..MaxSize
    BY <2>2
  <2>4. Len(req.data) \in Results
    BY <2>3, RangeFacts
  <2> QED BY <1>1, <1>4, <2>1, <2>4, Zenon
<1>6. CASE ServeRead
  <2> DEFINE n == Less(Chunk, len - pos)
             data == [k \in 1..n |-> pos + k]
  <2>1. Answers(n, data) /\ req.op = "read"
    BY <1>6 DEF ServeRead, Quiet
  <2>2. pos \in Nat /\ pos <= len
    BY QuietFacts, FetchFacts
  <2>3. n \in Nat /\ n <= MaxSize /\ pos + n <= MaxSize
    BY <2>2, QuietFacts DEF Less
  <2> HIDE DEF n
  <2>4. data \in Seq(0..MaxSize)
    <3>1. \A k \in 1..n : pos + k \in 0..MaxSize
      BY <2>2, <2>3, QuietFacts
    <3> QED BY <2>3, <3>1
  <2>5. n \in Results
    BY <2>3, QuietFacts DEF Results
  <2> HIDE DEF data
  <2> QED BY <1>1, <1>3, <2>1, <2>4, <2>5
<1>7. CASE ServeSeek \/ ServeDread \/ ServeOther
  <2>1. req.op # "write"
    BY <1>7 DEF ServeSeek, ServeDread, ServeOther
  <2>2. len \in Results /\ {-1, 0, 1} \subseteq Results
    BY QuietFacts, RangeFacts DEF Results
  <2>3. \E r \in Results : Answers(r, <<>>)
    <3>1. CASE ServeSeek
      <4> DEFINE r == IF at = "end" THEN len ELSE 0
      <4>1. r \in Results
        BY <2>2
      <4>2. Answers(r, <<>>)
        BY <3>1 DEF ServeSeek
      <4> QED BY <4>1, <4>2
    <3>2. CASE ServeDread
      <4> DEFINE r == IF pos < len THEN 1 ELSE 0
      <4>1. r \in Results
        BY <2>2
      <4>2. Answers(r, <<>>)
        BY <3>2 DEF ServeDread
      <4> QED BY <4>1, <4>2
    <3>3. CASE ServeOther
      BY <2>2, <3>3 DEF ServeOther
    <3> QED BY <1>7, <3>1, <3>2, <3>3
  <2> QED BY <1>1, <1>3, <1>4, <2>1, <2>3
<1> QED BY <1>5, <1>6, <1>7 DEF Server

LEMMA ServeAdvance ==
    ASSUME Quiet, Server
    PROVE  Advance
<1>1. conn = "up" /\ req # NoReq
  BY ServesInFull
<1>2. PICK r \in Results, data \in Seq(0..MaxSize) :
          Answers(r, data) /\ (at = "write" => r = Len(req.data))
  BY ServesInFull
<1>3. /\ phase = "wait" /\ at \in Points /\ req.op = WireOp(at)
      /\ Answered' /\ Head(down').r = r /\ conn' = "up"
      /\ req' = NoReq /\ Head(down').op = req.op
      /\ UNCHANGED <<at, phase, size, total, off>>
  BY <1>1, <1>2, QuietFacts, FetchAnswers
<1>4. at \in Copying => WireOp(at) = Op(at)
  BY <1>3, QuietFacts, OpWays
<1>5. PlainInv'
  <2>1. at \in Copying => Op(at)' = Op(at)
    BY <1>3 DEF Op, Copying
  <2> QED BY <1>3, <1>4, <2>1 DEF PlainInv
<1>6. PaceInv'
  BY <1>1, <1>2, <1>3 DEF Quiet, PaceInv
<1>7. Rank = 2 /\ Rank' = 1
  BY <1>1, <1>3 DEF Rank
<1>8. Nearer
  BY <1>3, <1>7, WithinRequest
<1> QED BY <1>5, <1>6, <1>8 DEF Advance

LEMMA CopyAdvance ==
    ASSUME Quiet, Next
    PROVE  Advance
<1>1. CASE \E j \in Jobs, n, o \in 0..MaxSize : Start(j, n, o)
  BY <1>1, StartAdvance
<1>2. CASE Command
  BY <1>2, AskAdvance, AcceptAdvance, OpenAdvance, SeekAdvance, ReadAdvance, WriteAdvance,
     LastAdvance DEF Command
<1>3. CASE Server
  BY <1>3, ServeAdvance
<1>4. CASE ServeWrong \/ ServeNoLength
  <2>1. req.form # "whole" /\ at' = at
    BY <1>4 DEF ServeWrong, ServeNoLength, Answers, Quiet
  <2>2. req # NoReq
    BY <2>1 DEF NoReq
  <2>3. at \in Points /\ Form(at) # "whole"
    BY <2>1, <2>2, QuietFacts, UploadFacts
  <2>4. at \notin Copying
    BY <2>3, QuietFacts, OpWays DEF Copying
  <2> QED BY <2>1, <2>4, OffCopy
<1>5. CASE ServeLong \/ \E how \in {"eof", "reset"}, keep \in 0..Len(down) : Die(how, keep)
  BY <1>5 DEF ServeLong, Die, Quiet
<1>6. CASE OtherTraffic
  <2>1. at = "idle" /\ at' = at
    BY <1>6 DEF OtherTraffic
  <2> QED BY <2>1, OffCopy DEF Copying
<1> QED BY <1>1, <1>2, <1>3, <1>4, <1>5, <1>6, Zenon DEF Next

LEMMA QuietKept ==
    ASSUME Quiet, [Next]_vars
    PROVE  PlainInv' /\ PaceInv'
<1>1. CASE Next
  BY <1>1, CopyAdvance DEF Advance
<1>2. CASE UNCHANGED vars
  <2>1. UNCHANGED <<conn, req, down, job, at, phase, ret, total, off>>
    BY <1>2 DEF vars, net, locs
  <2>2. UNCHANGED <<Answered, Op(at)>>
    BY <2>1 DEF Answered, Op
  <2> QED BY <2>1, <2>2 DEF Quiet, PlainInv, PaceInv
<1> QED BY <1>1, <1>2

LEMMA QuietInvariant ==
    ASSUME Faults = {}
    PROVE  Spec => []Quiet
<1>1. "die" \notin Faults /\ Faults \subseteq {"wrong", "short"}
  OBVIOUS
<1>2. Spec => []UploadInv
  BY <1>1, UploadInvariant
<1>3. IndInv /\ UploadInv /\ FetchInv /\ [Next]_vars /\ UploadInv' => FetchInv'
  BY <1>1, FetchStep DEF Honest
<1>4. IndInv /\ UploadInv /\ FetchInv /\ PlainInv /\ PaceInv <=> Quiet
  BY <1>1 DEF Quiet, Honest
<1>5. Init => PlainInv /\ PaceInv
  BY DEF Init, PlainInv, PaceInv, Copying
<1>6. Quiet /\ [Next]_vars => PlainInv' /\ PaceInv'
  BY QuietKept
<1> QED BY <1>2, <1>3, <1>4, <1>5, <1>6, FetchInit, NetFsInvariant, PTL DEF Spec

\* With a server that stays and does what it is asked, cli_copy() never waits in
\* vain, however large the file: whenever it waits in ps2netfs_accept_pkt() the
\* server has a request that it can answer, or the whole reply is there.
THEOREM NetFsNeverInVain == Faults = {} => (Spec => []NeverInVain)
<1> SUFFICES ASSUME Faults = {} PROVE Spec => []NeverInVain
  OBVIOUS
<1>1. Quiet => NeverInVain
  <2> SUFFICES ASSUME Quiet, at \in Copying, phase = "wait" PROVE Served \/ Arrived
    BY QuietFacts DEF NeverInVain
  <2>1. conn = "up" /\ (req # NoReq \/ Answered) /\ at \in Points
    BY QuietFacts DEF Quiet, PlainInv
  <2>2. CASE req # NoReq
    <3>1. req.op = WireOp(at) /\ WireOp(at) = Op(at)
      BY <2>1, <2>2, QuietFacts, UploadFacts, OpWays
    <3>2. req.form = "whole"
      BY <2>2 DEF Quiet, PlainInv
    <3> QED BY <2>1, <2>2, <3>1, <3>2 DEF Served
  <2>3. CASE Answered
    <3>1. Head(down).t = "rly" /\ Head(down).op = Op(at) /\ down # <<>>
      BY <2>3, QuietFacts, FetchFacts DEF Quiet, PlainInv, Answered
    <3>2. at = "read" => Head(down).r = Want /\ Len(down) = Want + 1 /\ Want \in Nat
      <4> SUFFICES ASSUME at = "read"
                   PROVE  Head(down).r = Want /\ Len(down) = Want + 1 /\ Want \in Nat
        OBVIOUS
      <4>1. Told
        BY <2>3, <3>1 DEF Told, Op
      <4>2. GetInv
        BY QuietFacts
      <4>3. Want \in Nat
        BY QuietFacts DEF Want, Less
      <4>4. ReadInv
        BY <4>2 DEF GetInv, Astray, Quiet
      <4> QED BY <4>1, <4>3, <4>4 DEF ReadInv
    <3> QED BY <3>1, <3>2 DEF Arrived, Expected
  <2> QED BY <2>1, <2>2, <2>3
<1> QED BY <1>1, QuietInvariant, PTL

\* With such a server every step while cp runs, of the shell or of the server,
\* ends the command or lowers a number that is never below zero: cli_copy()'s
\* loops end, whatever the sizes of the file and of its buffer.
THEOREM NetFsCopyComesNearer == Faults = {} => (Spec => [][Nearer]_vars)
<1> SUFFICES ASSUME Faults = {} PROVE Spec => [][Nearer]_vars
  OBVIOUS
<1>1. Quiet /\ [Next]_vars => [Nearer]_vars
  <2> SUFFICES ASSUME Quiet, Next PROVE Nearer
    OBVIOUS
  <2> QED BY CopyAdvance DEF Advance
<1> QED BY <1>1, QuietInvariant, PTL DEF Spec
=============================================================================
