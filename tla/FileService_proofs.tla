------------------------- MODULE FileService_proofs -------------------------
(***************************************************************************)
(* Proofs about FileService: for any handles, any sizes and any place      *)
(* where the link is lost, the stream stays framed, a request gets at most *)
(* one reply, that reply is true, the service implements FileRpc, and      *)
(* every step on a request brings it nearer to its answer.                 *)
(***************************************************************************)
EXTENDS FileService, SequenceTheorems, TLAPS

(***************************************************************************)
(* What is left of a request in the stream when pko_srv_read() is about to *)
(* receive its header, its body, or, with d of them stored, the data of a  *)
(* write of n.  It may be cut off anywhere.                                *)
(***************************************************************************)
AtData(s, op, n, d) ==
    s # <<>> =>
        /\ op = "write" /\ Len(s) <= n - d
        /\ \A k \in 1..Len(s) : s[k].t = "data" /\ s[k].n = d + k

AtBody(s, op) ==
    s # <<>> =>
        /\ Head(s).t = "body" /\ (op = "write" => Head(s).h \in open \cap Handles)
        /\ AtData(Tail(s), op, Head(s).n, 0)

AtHeader(s) ==
    s # <<>> /\ Head(s).t = "hdr" =>
        Head(s).op \in Ops /\ AtBody(Tail(s), Head(s).op)

Leftover(s) == s = <<>> \/ Head(s).t = "data"

\* The stream and the locals, at each point of pko_srv_read(): whether the
\* link is up or not.
FrameInv ==
    /\ pc = "idle" => /\ AtHeader(stream)
                      /\ Leftover(stream) \/ (Head(stream).t = "hdr" /\ stored = <<>>)
    /\ pc = "body" => AtBody(stream, cmd) /\ stored = <<>> /\ cmd \in Ops
    /\ pc = "handle" => /\ AtData(stream, cmd, recv_packet.n, 0)
                        /\ stream # <<>> => recv_packet.h \in open \cap Handles
                        /\ stored = <<>> /\ cmd \in Ops
    /\ pc = "write" => /\ AtData(stream, cmd, nbytes, nbytes - bytes_left)
                       /\ stream # <<>> => fd \in open \cap Handles
    /\ pc \in {"write", "wrote"} => /\ cmd = "write" /\ bytes_left \in 0..nbytes
                                    /\ stored = Units(nbytes - bytes_left)
    /\ pc = "wrote" => Leftover(stream)
    /\ pc = "data" => cmd = "read" /\ stream = <<>>
    /\ pc = "away" => stream = <<>> /\ end \in {"eof", "dead"}

\* A write() that fails before the last segment is the only thing that leaves
\* data in the stream.
CleanInv ==
    WriteFails # "any" =>
        /\ pc # "lost" /\ (pc = "wrote" => stream = <<>>)
        /\ pc = "idle" /\ stream # <<>> => Head(stream).t = "hdr"

\* The buffer holds the arguments of the call ps2link waits on.
CallArgs == recv_packet = [h |-> call.h, n |-> call.n]

\* While the link is up pko_srv_read() is at work on the call of ps2link.
OpenInv ==
    end = "open" =>
        /\ pc \in {"idle", "body", "handle", "write", "wrote", "data", "lost"}
        /\ call = NoCall => pc \in {"idle", "lost"} /\ down = <<>>
        /\ pc \notin {"idle", "lost"} => cmd = call.op
        /\ pc \in {"body", "handle", "write", "wrote"} => down = <<>>
        /\ pc = "idle" /\ ~Leftover(stream) =>
              /\ call # NoCall /\ down = <<>> /\ Head(stream).op = call.op
              /\ Tail(stream) # <<>> => /\ Head(Tail(stream)).h = call.h
                                        /\ Head(Tail(stream)).n = call.n
        /\ pc = "body" /\ stream # <<>> =>
              Head(stream).h = call.h /\ Head(stream).n = call.n
        /\ pc = "handle" => CallArgs
        /\ pc \in {"handle", "write", "wrote", "data"} => own
        /\ pc \in {"write", "wrote"} => fd = call.h /\ nbytes = call.n
        /\ pc = "data" => down = <<Rly("read", bytes_left)>> /\ bytes_left > 0

\* What is known of an answer on its way.
DownInv ==
    down # <<>> =>
        /\ end = "open" /\ call # NoCall /\ pc \in {"idle", "data", "lost"}
        /\ Head(down).t = "rly" /\ Head(down).op = call.op
        /\ \A k \in 2..Len(down) : down[k].t = "data"
        /\ Len(down) = 1 \/ Len(down) = Head(down).r + 1
        /\ call.op = "write" => stored = Units(Head(down).r) /\ Head(down).r <= call.n
        /\ call.op \in {"open", "dopen"} /\ Head(down).r # NoFd => Head(down).r \in open

\* The handles: those ps2link may use are open, and one it closes is not among
\* them any more.
HandleInv ==
    /\ held \subseteq open
    /\ end # "open" => held = {} /\ call = NoCall
    /\ call.op \in {"read", "write", "lseek"} => call.h \in held \cap Handles
    /\ call.op = "dread" => call.h \in held \cap Dirs
    /\ call.op = "close" => call.h \in Handles \ held /\ (down = <<>> => call.h \in open)
    /\ call.op = "dclose" => call.h \in Dirs \ held /\ (down = <<>> => call.h \in open)

\* recv_packet holds the arguments of a request, or something else altogether.
BufferInv == recv_packet = Junk \/ recv_packet.n \in 0..MaxBytes

IndInv ==
    /\ TypeOK /\ BufferInv /\ FrameInv /\ CleanInv /\ OpenInv /\ DownInv /\ HandleInv

(***************************************************************************)
(* A call of ps2link comes nearer to its answer, if write() on the host    *)
(* fails in the last segment only.                                         *)
(***************************************************************************)

\* The units of data in ps2link's call.
Size == IF call.op = "write" THEN call.n ELSE 0

\* While the link is up the stream holds all that is left of the call.
WholeInv ==
    end = "open" =>
        /\ call = NoCall \/ down # <<>> => stream = <<>>
        /\ pc = "idle" /\ stream # <<>> => Len(stream) = Size + 2
        /\ pc = "body" => Len(stream) = Size + 1
        /\ pc = "handle" => Len(stream) = Size
        /\ pc = "write" => Len(stream) = bytes_left
        /\ pc = "idle" /\ stream = <<>> /\ call # NoCall =>
              down # <<>> \/ call.op \in Silent
        /\ pc = "idle" /\ down # <<>> /\ call.op = "read" /\ Head(down).r > 0 =>
              Len(down) = Head(down).r + 1

\* pksh has something to do, and what it receives next is there.
AtWork ==
    \/ pc \in {"idle", "body"} /\ stream # <<>>
    \/ pc \in {"handle", "wrote", "data"}
    \/ pc = "write" /\ Len(stream) >= read_bytes

\* The answer is there, whole.
Delivered ==
    /\ down # <<>>
    /\ Head(down).op = "read" /\ Head(down).r > 0 => Len(down) = Head(down).r + 1

\* pksh and ps2link never wait for each other, but for a handler that has left
\* without a reply.
NoMutualWait ==
    call # NoCall =>
        \/ AtWork \/ Delivered
        \/ call.op \in Silent /\ pc = "idle" /\ stream = <<>>

\* A bound on the steps that the call in hand has still to take.
Rank ==
    CASE pc \in {"body", "handle"} -> 3
      [] pc = "write" -> 2
      [] pc \in {"wrote", "data"} -> 1
      [] OTHER -> 0

Variant == 4 * Len(stream) + Rank

\* A step ends the call, or brings it nearer to its answer, or has nothing to
\* do with it.
Nearer ==
    call # NoCall =>
        \/ call' = NoCall
        \/ call' = call /\ Variant \in Nat /\ Variant' \in Nat /\ Variant' < Variant
        \/ UNCHANGED <<call, pc, stream, down>>

Any == Handles \cup Dirs
Ends == {"open", "eof", "reset", "dead"}

-----------------------------------------------------------------------------
(* The stream.                                                             *)

\* A function on 1..n is a sequence of length n.
LEMMA FunctionSeq ==
    ASSUME NEW S, NEW n \in Nat, NEW g \in [1..n -> S]
    PROVE  g \in Seq(S) /\ Len(g) = n
OBVIOUS

LEMMA TailFacts ==
    ASSUME NEW S, NEW s \in Seq(S), s # <<>>
    PROVE  /\ Tail(s) \in Seq(S) /\ Len(Tail(s)) = Len(s) - 1 /\ Len(s) \in Nat \ {0}
           /\ \A k \in 1..Len(s) - 1 : Tail(s)[k] = s[k + 1]
           /\ Head(s) = s[1] /\ Head(s) \in S /\ \A k \in 1..Len(s) : s[k] \in S
BY HeadTailProperties, ElementOfSeq, LenProperties, EmptySeq

LEMMA PrefixFacts ==
    ASSUME NEW S, NEW s \in Seq(S), NEW k \in 0..Len(s)
    PROVE  /\ SubSeq(s, 1, k) \in Seq(S) /\ Len(SubSeq(s, 1, k)) = k
           /\ \A j \in 1..k : SubSeq(s, 1, k)[j] = s[j]
<1>1. Len(s) \in Nat /\ k \in Nat /\ k <= Len(s)
  BY LenProperties
<1>2. \A j \in 1..k : s[j] \in S
  BY <1>1, ElementOfSeq
<1>3. /\ SubSeq(s, 1, k) \in Seq(S)
      /\ Len(SubSeq(s, 1, k)) = IF 1 <= k THEN k - 1 + 1 ELSE 0
      /\ \A j \in 1..k - 1 + 1 : SubSeq(s, 1, k)[j] = s[1 + j - 1]
  BY <1>1, <1>2, SubSeqProperties
<1> QED BY <1>1, <1>3

LEMMA SuffixFacts ==
    ASSUME NEW S, NEW s \in Seq(S), NEW k \in 0..Len(s)
    PROVE  /\ SubSeq(s, k + 1, Len(s)) \in Seq(S)
           /\ Len(SubSeq(s, k + 1, Len(s))) = Len(s) - k
           /\ \A j \in 1..Len(s) - k : SubSeq(s, k + 1, Len(s))[j] = s[k + j]
<1>1. Len(s) \in Nat /\ k \in Nat /\ k <= Len(s)
  BY LenProperties
<1>2. \A j \in k + 1..Len(s) : s[j] \in S
  BY <1>1, ElementOfSeq
<1>3. /\ SubSeq(s, k + 1, Len(s)) \in Seq(S)
      /\ Len(SubSeq(s, k + 1, Len(s))) =
           IF k + 1 <= Len(s) THEN Len(s) - (k + 1) + 1 ELSE 0
      /\ \A j \in 1..Len(s) - (k + 1) + 1 :
           SubSeq(s, k + 1, Len(s))[j] = s[(k + 1) + j - 1]
  BY <1>1, <1>2, SubSeqProperties
<1>4. Len(s) - (k + 1) + 1 = Len(s) - k
  BY <1>1
<1>5. \A j \in 1..Len(s) - k : (k + 1) + j - 1 = k + j
  BY <1>1
<1>6. Len(SubSeq(s, k + 1, Len(s))) = Len(s) - k
  BY <1>1, <1>3
<1> QED BY <1>3, <1>4, <1>5, <1>6

\* Less of the data is still the data.
LEMMA DataPrefix ==
    ASSUME NEW s \in Seq(Items), NEW op, NEW n \in Int, NEW d \in Int,
           AtData(s, op, n, d), NEW k \in 0..Len(s)
    PROVE  AtData(SubSeq(s, 1, k), op, n, d)
<1>1. /\ Len(SubSeq(s, 1, k)) = k /\ \A j \in 1..k : SubSeq(s, 1, k)[j] = s[j]
      /\ SubSeq(s, 1, k) \in Seq(Items)
  BY PrefixFacts
<1> SUFFICES ASSUME SubSeq(s, 1, k) # <<>> PROVE AtData(SubSeq(s, 1, k), op, n, d)
  BY DEF AtData
<1>2. k > 0 /\ k <= Len(s) /\ Len(s) \in Nat /\ s # <<>>
  BY <1>1, EmptySeq, LenProperties
<1>3. op = "write" /\ Len(s) <= n - d /\ \A j \in 1..Len(s) : s[j].t = "data" /\ s[j].n = d + j
  BY <1>2 DEF AtData
<1> QED BY <1>1, <1>2, <1>3 DEF AtData

\* The first item and the rest of a stream that was cut off behind them.
LEMMA PrefixTail ==
    ASSUME NEW s \in Seq(Items), NEW k \in 1..Len(s)
    PROVE  /\ s # <<>> /\ SubSeq(s, 1, k) # <<>> /\ k - 1 \in 0..Len(Tail(s))
           /\ Head(SubSeq(s, 1, k)) = Head(s)
           /\ Tail(SubSeq(s, 1, k)) = SubSeq(Tail(s), 1, k - 1)
<1> DEFINE p == SubSeq(s, 1, k)  q == SubSeq(Tail(s), 1, k - 1)
<1>1. k \in 0..Len(s) /\ Len(s) \in Nat /\ s # <<>> /\ k \in Nat \ {0}
  BY LenProperties, EmptySeq
<1>2. p \in Seq(Items) /\ Len(p) = k /\ \A j \in 1..k : p[j] = s[j]
  BY <1>1, PrefixFacts
<1> HIDE DEF p
<1>3. p # <<>>
  BY <1>1, <1>2
<1>4. /\ Tail(p) \in Seq(Items) /\ Len(Tail(p)) = k - 1 /\ Head(p) = p[1]
      /\ \A j \in 1..k - 1 : Tail(p)[j] = p[j + 1]
  BY <1>2, <1>3, TailFacts
<1>5. /\ Tail(s) \in Seq(Items) /\ Len(Tail(s)) = Len(s) - 1 /\ Head(s) = s[1]
      /\ \A j \in 1..Len(s) - 1 : Tail(s)[j] = s[j + 1]
  BY <1>1, TailFacts
<1>6. k - 1 \in 0..Len(Tail(s))
  BY <1>1, <1>5
<1>7. q \in Seq(Items) /\ Len(q) = k - 1 /\ \A j \in 1..k - 1 : q[j] = Tail(s)[j]
  BY <1>5, <1>6, PrefixFacts
<1> HIDE DEF q
<1>8. \A j \in 1..k - 1 : Tail(p)[j] = q[j]
  <2> TAKE j \in 1..k - 1
  <2>1. j \in 1..Len(s) - 1 /\ j + 1 \in 1..k
    BY <1>1
  <2> QED BY <1>2, <1>4, <1>5, <1>7, <2>1
<1>9. Tail(p) = q
  BY <1>4, <1>7, <1>8, SeqEqual
<1>10. Head(p) = Head(s)
  BY <1>1, <1>2, <1>4, <1>5
<1> QED BY <1>1, <1>3, <1>6, <1>9, <1>10 DEF p, q

\* A stream that is cut off stays one.
LEMMA CutOff ==
    ASSUME NEW s \in Seq(Items), NEW k \in 0..Len(s), NEW op, MaxBytes \in Nat
    PROVE  /\ AtBody(s, op) => AtBody(SubSeq(s, 1, k), op)
           /\ AtHeader(s) => AtHeader(SubSeq(s, 1, k))
           /\ Leftover(s) => Leftover(SubSeq(s, 1, k))
           /\ SubSeq(s, 1, k) # <<>> => s # <<>> /\ Head(SubSeq(s, 1, k)) = Head(s)
<1>1. ASSUME NEW u \in Seq(Items), NEW j \in 0..Len(u), NEW o, AtBody(u, o)
      PROVE  AtBody(SubSeq(u, 1, j), o)
  <2> SUFFICES ASSUME SubSeq(u, 1, j) # <<>> PROVE AtBody(SubSeq(u, 1, j), o)
    BY DEF AtBody
  <2>1. j \in 1..Len(u)
    BY PrefixFacts, EmptySeq, LenProperties
  <2>2. /\ u # <<>> /\ j - 1 \in 0..Len(Tail(u)) /\ Head(SubSeq(u, 1, j)) = Head(u)
        /\ Tail(SubSeq(u, 1, j)) = SubSeq(Tail(u), 1, j - 1)
    BY <2>1, PrefixTail
  <2>3. Tail(u) \in Seq(Items) /\ Head(u).n \in Int
    <3>1. Tail(u) \in Seq(Items) /\ Head(u) \in Items
      BY <2>2, TailFacts
    <3>2. Head(u).n \in 0..MaxBytes
      BY <3>1 DEF Items
    <3> QED BY <3>1, <3>2
  <2>4. AtData(SubSeq(Tail(u), 1, j - 1), o, Head(u).n, 0)
    <3>1. AtData(Tail(u), o, Head(u).n, 0)
      BY <1>1, <2>2 DEF AtBody
    <3>2. 0 \in Int /\ j - 1 \in 0..Len(Tail(u))
      BY <2>2
    <3> QED BY <2>3, <3>1, <3>2, DataPrefix, Zenon
  <2> QED BY <1>1, <2>2, <2>4 DEF AtBody
<1>2. CASE k = 0
  <2>1. SubSeq(s, 1, k) = <<>>
    BY <1>2, PrefixFacts, EmptySeq
  <2> QED BY <2>1 DEF AtBody, AtHeader, Leftover
<1>3. CASE k # 0
  <2>1. k \in 1..Len(s)
    BY <1>3, LenProperties
  <2>2. /\ s # <<>> /\ k - 1 \in 0..Len(Tail(s)) /\ Head(SubSeq(s, 1, k)) = Head(s)
        /\ Tail(SubSeq(s, 1, k)) = SubSeq(Tail(s), 1, k - 1)
    BY <2>1, PrefixTail
  <2>3. Tail(s) \in Seq(Items)
    BY <2>2, TailFacts
  <2>4. \A o : AtBody(Tail(s), o) => AtBody(SubSeq(Tail(s), 1, k - 1), o)
    BY <1>1, <2>2, <2>3
  <2>5. AtHeader(s) => AtHeader(SubSeq(s, 1, k))
    BY <2>2, <2>4 DEF AtHeader
  <2>6. Leftover(s) => Leftover(SubSeq(s, 1, k))
    BY <2>2 DEF Leftover
  <2> QED BY <1>1, <2>2, <2>5, <2>6
<1> QED BY <1>2, <1>3

LEMMA CallFacts ==
    ASSUME NEW c \in Calls
    PROVE  /\ c = [op |-> c.op, h |-> c.h, n |-> c.n]
           /\ c.op \in Ops /\ c.h \in Any \cup {NoFd} /\ c.n \in 0..MaxBytes
           /\ c # NoCall /\ c.op # "none"
BY ServiceConstants DEF Calls, Ops, FileOps, DirOps, Any, NoCall

\* A request on the wire: its header, its body and the data of a write.
LEMMA WireFacts ==
    ASSUME NEW c \in Calls
    PROVE  /\ Wire(c) \in Seq(Items) /\ Wire(c) # <<>> /\ Head(Wire(c)) = Hdr(c)
           /\ Tail(Wire(c)) # <<>> /\ Head(Tail(Wire(c))) = Body(c)
           /\ AtData(Tail(Tail(Wire(c))), c.op, c.n, 0)
           /\ Len(Wire(c)) = 2 + (IF c.op = "write" THEN c.n ELSE 0)
<1> DEFINE m == IF c.op = "write" THEN c.n ELSE 0
           D == IF c.op = "write" THEN [k \in 1..c.n |-> Data(k)] ELSE <<>>
           w == <<Hdr(c), Body(c)>> \o D
<1>1. /\ c.op \in Ops /\ c.h \in Any \cup {NoFd} /\ c.n \in 0..MaxBytes
      /\ MaxBytes \in Nat
  BY CallFacts, ServiceConstants
<1>2. Hdr(c) \in Items /\ Body(c) \in Items /\ \A k \in 1..MaxBytes : Data(k) \in Items
  BY <1>1 DEF Hdr, Body, Data, Items, Any
<1>3. m \in Nat /\ m <= MaxBytes
  BY <1>1
<1>4. D \in Seq(Items) /\ Len(D) = m /\ \A k \in 1..m : D[k] = Data(k)
  <2>1. CASE c.op = "write"
    <3>1. \A k \in 1..c.n : Data(k) \in Items
      BY <1>1, <1>2
    <3>2. D = [k \in 1..c.n |-> Data(k)] /\ m = c.n
      BY <2>1
    <3> QED BY <1>1, <3>1, <3>2
  <2>2. CASE c.op # "write"
    BY <2>2, EmptySeq
  <2> QED BY <2>1, <2>2
<1> HIDE DEF D
<1>5. <<Hdr(c), Body(c)>> \in Seq(Items) /\ Len(<<Hdr(c), Body(c)>>) = 2
  BY <1>2
<1>6. /\ w \in Seq(Items) /\ Len(w) = 2 + m
      /\ w[1] = Hdr(c) /\ w[2] = Body(c) /\ \A k \in 1..m : w[k + 2] = Data(k)
  <2>1. /\ w \in Seq(Items) /\ Len(w) = 2 + Len(D)
        /\ \A k \in 1..2 + Len(D) :
             w[k] = IF k <= 2 THEN <<Hdr(c), Body(c)>>[k] ELSE D[k - 2]
    BY <1>4, <1>5, ConcatProperties
  <2> HIDE DEF w
  <2>2. w[1] = Hdr(c) /\ w[2] = Body(c)
    BY <1>3, <1>4, <2>1
  <2>3. \A k \in 1..m : w[k + 2] = Data(k)
    <3> TAKE k \in 1..m
    <3>1. k + 2 \in 1..2 + m /\ ~(k + 2 <= 2) /\ (k + 2) - 2 = k
      BY <1>3
    <3> QED BY <1>4, <2>1, <3>1
  <2> QED BY <1>4, <2>1, <2>2, <2>3
<1>7. Wire(c) = w
  BY DEF Wire, D
<1> HIDE DEF w, m
<1>8. w # <<>>
  BY <1>3, <1>6
<1>9. /\ Tail(w) \in Seq(Items) /\ Len(Tail(w)) = 1 + m /\ Head(w) = Hdr(c)
      /\ \A k \in 1..1 + m : Tail(w)[k] = w[k + 1]
  BY <1>3, <1>6, <1>8, TailFacts
<1> DEFINE t == Tail(w)  u == Tail(t)
<1>10. t # <<>>
  <2> HIDE DEF t
  <2>1. t \in Seq(Items) /\ Len(t) = 1 + m
    BY <1>9 DEF t
  <2> QED BY <1>3, <2>1
<1>11. /\ u \in Seq(Items) /\ Len(u) = m /\ Head(t) = t[1]
       /\ \A k \in 1..m : u[k] = t[k + 1]
  <2>1. /\ u \in Seq(Items) /\ Len(u) = Len(t) - 1 /\ Head(t) = t[1]
        /\ \A k \in 1..Len(t) - 1 : u[k] = t[k + 1]
    BY <1>9, <1>10, TailFacts
  <2>2. Len(t) - 1 = m
    BY <1>3, <1>9
  <2> QED BY <2>1, <2>2
<1>12. Head(t) = Body(c)
  BY <1>3, <1>6, <1>9, <1>11
<1>13. \A k \in 1..m : u[k] = Data(k)
  <2> TAKE k \in 1..m
  <2>1. k + 1 \in 1..1 + m /\ (k + 1) + 1 = k + 2
    BY <1>3
  <2> QED BY <1>6, <1>9, <1>11, <2>1
<1> HIDE DEF u
<1>14. AtData(u, c.op, c.n, 0)
  <2> SUFFICES ASSUME u # <<>> PROVE AtData(u, c.op, c.n, 0)
    BY DEF AtData
  <2>1. m # 0
    BY <1>11, EmptySeq
  <2>2. c.op = "write" /\ m = c.n
    BY <2>1 DEF m
  <2>3. \A k \in 1..m : u[k].t = "data" /\ u[k].n = 0 + k
    <3> TAKE k \in 1..m
    <3>1. u[k] = Data(k) /\ 0 + k = k
      BY <1>3, <1>13
    <3> QED BY <3>1 DEF Data
  <2> QED BY <1>1, <1>11, <2>2, <2>3 DEF AtData
<1>15. Len(w) = 2 + (IF c.op = "write" THEN c.n ELSE 0)
  BY <1>6 DEF m
<1> QED BY <1>6, <1>7, <1>8, <1>9, <1>10, <1>12, <1>14, <1>15 DEF u

LEMMA UnitsFacts ==
    /\ Units(0) = <<>>
    /\ \A n \in 0..MaxBytes : Units(n) \in Seq(1..MaxBytes) /\ Len(Units(n)) = n
<1>1. Units(0) = <<>>
  BY DEF Units
<1>2. ASSUME NEW n \in 0..MaxBytes
      PROVE  Units(n) \in Seq(1..MaxBytes) /\ Len(Units(n)) = n
  BY ServiceConstants DEF Units
<1> QED BY <1>1, <1>2

\* What a write stores goes on where it had come to.
LEMMA UnitsGrow ==
    ASSUME NEW a \in Nat, NEW b \in Nat, a + b <= MaxBytes, NEW s \in Seq(1..MaxBytes),
           Len(s) = b, \A k \in 1..b : s[k] = a + k
    PROVE  Units(a) \o s = Units(a + b)
<1>1. a \in 0..MaxBytes /\ a + b \in 0..MaxBytes /\ MaxBytes \in Nat
  BY ServiceConstants
<1>2. /\ Units(a) \in Seq(1..MaxBytes) /\ Len(Units(a)) = a
      /\ Units(a + b) \in Seq(1..MaxBytes) /\ Len(Units(a + b)) = a + b
  BY <1>1, UnitsFacts
<1>3. \A k \in 1..a + b : Units(a + b)[k] = k
  BY DEF Units
<1>4. \A k \in 1..a : Units(a)[k] = k
  BY DEF Units
<1>5. /\ Units(a) \o s \in Seq(1..MaxBytes) /\ Len(Units(a) \o s) = a + b
      /\ \A k \in 1..a + b : (Units(a) \o s)[k] = IF k <= a THEN Units(a)[k] ELSE s[k - a]
  <2>1. /\ Units(a) \o s \in Seq(1..MaxBytes)
        /\ Len(Units(a) \o s) = Len(Units(a)) + Len(s)
        /\ \A k \in 1..Len(Units(a)) + Len(s) :
             (Units(a) \o s)[k] =
                IF k <= Len(Units(a)) THEN Units(a)[k] ELSE s[k - Len(Units(a))]
    BY <1>2, ConcatProperties
  <2> QED BY <1>2, <2>1
<1>6. ASSUME NEW k \in 1..a + b PROVE (Units(a) \o s)[k] = k
  <2>1. CASE k <= a
    BY <1>4, <1>5, <2>1
  <2>2. CASE ~(k <= a)
    <3>1. k - a \in 1..b /\ a + (k - a) = k
      BY <2>2
    <3> QED BY <1>5, <2>2, <3>1
  <2> QED BY <2>1, <2>2
<1> QED BY <1>2, <1>3, <1>5, <1>6, SeqEqual

-----------------------------------------------------------------------------
(* Sending, and the handlers.                                              *)

\* send() reaches ps2link, or the link is down before it and after it.
LEMMA SendWays ==
    ASSUME NEW items, NEW next, Send(items, next), end \in Ends
    PROVE  \/ end = "open" /\ end' = "open" /\ down' = down \o items /\ pc' = next
           \/ /\ end # "open" /\ end' \in {"eof", "reset", "dead"} /\ down' = down
              /\ pc' \in {next, "killed"}
BY DEF Send, Ends

\* A request was carried out with the link up and its reply sent: the result
\* r tells what was done.
Served(r) ==
    /\ end = "open" /\ end' = "open" /\ down' = <<Rly(cmd, r)>>
    /\ r \in Any \cup -1..MaxBytes
    /\ pc' = IF cmd = "read" /\ r > 0 THEN "data" ELSE "idle"
    /\ cmd = "open" => r \in (Handles \ open) \cup {NoFd} /\ open' = open \cup ({r} \ {NoFd})
    /\ cmd = "dopen" => r \in Dirs \ open /\ open' = open \cup {r}
    /\ cmd \in {"close", "dclose"} => r = 0 /\ open' = open \ {call.h}
    /\ cmd \in {"read", "dread", "lseek"} => open' = open
    /\ cmd = "read" => r \in -1..call.n /\ bytes_left' = r
    /\ cmd \in {"dread", "lseek"} => r \in {-1, 0, 1}

\* The handler returned without a reply.
LeftSilent ==
    /\ cmd \in Silent /\ end' = end /\ down' = down /\ pc' = "idle" /\ open' = open

\* The link is down: the handler ran on whatever arguments it had.
ServedOrphan ==
    /\ end # "open" /\ end' \in {"eof", "reset", "dead"} /\ down' = down
    /\ pc' \in {"idle", "data", "killed", "undefined"} /\ (pc' = "data" => cmd = "read")
    /\ open' = open \/ \E h \in Any : open' \in {open \cup {h}, open \ {h}}

\* What the handlers have in common, all but pko_write_file().
Handled ==
    /\ pc = "handle" /\ cmd \in Ops \ {"write"} /\ bytes_left' \in -1..MaxBytes
    /\ UNCHANGED <<stream, cmd, recv_packet, own, fd, nbytes, stored, ps2>>
    /\ (\E r : Served(r)) \/ LeftSilent \/ ServedOrphan

OpInv == TypeOK /\ BufferInv /\ OpenInv /\ HandleInv

\* With the link up the arguments are those of ps2link's call.
LEMMA UpArgs ==
    ASSUME OpInv, pc = "handle", end = "open"
    PROVE  /\ cmd = call.op /\ down = <<>> /\ call \in Calls
           /\ Args = {[h |-> call.h, n |-> call.n]}
<1>1. cmd = call.op /\ down = <<>> /\ CallArgs /\ call # NoCall
  BY DEF OpInv, OpenInv
<1>2. call \in Calls
  BY <1>1 DEF OpInv, TypeOK
<1>3. call.n \in 0..MaxBytes
  BY <1>2, CallFacts
<1>4. recv_packet # Junk
  <2>1. recv_packet.n # -1
    BY <1>1, <1>3, ServiceConstants DEF CallArgs
  <2> QED BY <2>1 DEF Junk
<1> QED BY <1>1, <1>2, <1>4 DEF Args, CallArgs

\* The arguments are in range, whatever was left in the buffer.
LEMMA ArgsFacts ==
    ASSUME TypeOK, BufferInv, NEW a \in Args
    PROVE  a.h \in Any \cup {NoFd, OwnFd} /\ a.n \in 0..MaxBytes
<1>1. CASE recv_packet = Junk
  BY <1>1 DEF Args, Any
<1>2. CASE recv_packet # Junk
  BY <1>2 DEF Args, TypeOK, BufferInv, Any
<1> QED BY <1>1, <1>2

\* Reply() of a handler that takes no data.
LEMMA ReplyWays ==
    ASSUME OpInv, pc = "handle", NEW r, Reply(r)
    PROVE  \/ /\ end = "open" /\ end' = "open" /\ down' = <<Rly(cmd, r)>>
              /\ pc' = "idle"
           \/ /\ end # "open" /\ end' \in {"eof", "reset", "dead"} /\ down' = down
              /\ pc' \in {"idle", "killed"}
<1>1. end \in Ends
  BY DEF OpInv, TypeOK, Ends
<1>2. \/ /\ end = "open" /\ end' = "open" /\ down' = down \o <<Rly(cmd, r)>>
         /\ pc' = "idle"
      \/ /\ end # "open" /\ end' \in {"eof", "reset", "dead"} /\ down' = down
         /\ pc' \in {"idle", "killed"}
  BY <1>1, SendWays DEF Reply
<1>3. end = "open" => down = <<>>
  BY UpArgs
<1>4. <<>> \o <<Rly(cmd, r)>> = <<Rly(cmd, r)>>
  OBVIOUS
<1> QED BY <1>2, <1>3, <1>4

LEMMA KeptWork ==
    ASSUME TypeOK, UNCHANGED <<stream, work, stored, ps2>>
    PROVE  /\ bytes_left' \in -1..MaxBytes
           /\ UNCHANGED <<stream, cmd, recv_packet, own, fd, nbytes, stored, ps2>>
BY DEF TypeOK, work

LEMMA OpenHandled ==
    ASSUME OpInv, pko_open_file \/ pko_open_dir
    PROVE  Handled
<1>1. CASE pko_open_file
  <2>1. PICK r \in (Handles \ open) \cup {NoFd} :
           open' = open \cup ({r} \ {NoFd}) /\ Reply(r)
    BY <1>1 DEF pko_open_file
  <2>2. /\ pc = "handle" /\ cmd = "open" /\ bytes_left' \in -1..MaxBytes
        /\ UNCHANGED <<stream, cmd, recv_packet, own, fd, nbytes, stored, ps2>>
    BY <1>1, KeptWork DEF pko_open_file, Handling, OpInv
  <2>3. CASE end = "open" /\ end' = "open" /\ down' = <<Rly(cmd, r)>> /\ pc' = "idle"
    <3>1. Served(r)
      BY <2>1, <2>2, <2>3, ServiceConstants DEF Served, NoFd, Any
    <3> QED BY <2>2, <3>1 DEF Handled, Ops, FileOps, DirOps
  <2>4. CASE /\ end # "open" /\ end' \in {"eof", "reset", "dead"} /\ down' = down
             /\ pc' \in {"idle", "killed"}
    <3>1. open' = open \/ \E h \in Any : open' \in {open \cup {h}, open \ {h}}
      <4>1. CASE r = NoFd
        BY <2>1, <4>1
      <4>2. CASE r # NoFd
        BY <2>1, <4>2 DEF Any
      <4> QED BY <4>1, <4>2
    <3>2. ServedOrphan
      BY <2>2, <2>4, <3>1 DEF ServedOrphan
    <3> QED BY <2>2, <3>2 DEF Handled, Ops, FileOps, DirOps
  <2> QED BY <2>1, <2>2, <2>3, <2>4, ReplyWays
<1>2. CASE pko_open_dir
  <2>2. /\ pc = "handle" /\ cmd = "dopen" /\ bytes_left' \in -1..MaxBytes
        /\ UNCHANGED <<stream, cmd, recv_packet, own, fd, nbytes, stored, ps2>>
    BY <1>2, KeptWork DEF pko_open_dir, Handling, OpInv
  <2>3. ASSUME NEW r \in Dirs \ open, open' = open \cup {r}, Reply(r)
        PROVE  Handled
    <3>1. CASE end = "open" /\ end' = "open" /\ down' = <<Rly(cmd, r)>> /\ pc' = "idle"
      <4>1. Served(r)
        BY <2>2, <2>3, <3>1 DEF Served, Any
      <4> QED BY <2>2, <4>1 DEF Handled, Ops, FileOps, DirOps
    <3>2. CASE /\ end # "open" /\ end' \in {"eof", "reset", "dead"} /\ down' = down
               /\ pc' \in {"idle", "killed"}
      <4>1. ServedOrphan
        BY <2>2, <2>3, <3>2 DEF ServedOrphan, Any
      <4> QED BY <2>2, <4>1 DEF Handled, Ops, FileOps, DirOps
    <3> QED BY <2>2, <2>3, <3>1, <3>2, ReplyWays
  <2>4. CASE "dopen" \in Silent /\ pc' = "idle" /\ UNCHANGED <<open, end, down>>
    BY <2>2, <2>4 DEF Handled, LeftSilent, Ops
  <2> QED BY <1>2, <2>3, <2>4 DEF pko_open_dir
<1> QED BY <1>1, <1>2

LEMMA CloseHandled ==
    ASSUME OpInv, pko_close_file \/ pko_close_dir
    PROVE  Handled
<1>1. CASE pko_close_file
  <2>1. PICK a \in Args :
         \/ a.h # OwnFd /\ open' = open \ ({a.h} \cap Handles)
            /\ Reply(IF a.h \in open \cap Handles THEN 0 ELSE -1)
         \/ a.h = OwnFd /\ pc' = "undefined" /\ UNCHANGED <<open, end, down>>
    BY <1>1 DEF pko_close_file
  <2>2. /\ pc = "handle" /\ cmd = "close" /\ bytes_left' \in -1..MaxBytes
        /\ UNCHANGED <<stream, cmd, recv_packet, own, fd, nbytes, stored, ps2>>
    BY <1>1, KeptWork DEF pko_close_file, Handling, OpInv
  <2>3. end = "open" => a.h = call.h /\ call.h \in open \cap Handles /\ a.h # OwnFd
    <3> SUFFICES ASSUME end = "open"
                 PROVE  a.h = call.h /\ call.h \in open \cap Handles /\ a.h # OwnFd
      OBVIOUS
    <3>1. a.h = call.h /\ call.op = "close" /\ down = <<>>
      BY <2>1, <2>2, UpArgs
    <3>2. call.h \in open \cap Handles
      BY <3>1 DEF OpInv, HandleInv
    <3> QED BY <3>1, <3>2, ServiceConstants DEF OwnFd
  <2>4. CASE end = "open"
    <3>1. Reply(0) /\ open' = open \ {call.h}
      BY <2>1, <2>3, <2>4
    <3>2. end' = "open" /\ down' = <<Rly(cmd, 0)>> /\ pc' = "idle"
      BY <2>2, <2>4, <3>1, ReplyWays
    <3>3. Served(0)
      BY <2>2, <2>4, <3>1, <3>2, ServiceConstants DEF Served
    <3> QED BY <2>2, <3>3 DEF Handled, Ops, FileOps, DirOps
  <2>5. CASE end # "open"
    <3>1. open' = open \/ \E h \in Any : open' \in {open \cup {h}, open \ {h}}
      <4>1. CASE a.h \in Handles /\ a.h # OwnFd
        BY <2>1, <4>1 DEF Any
      <4>2. CASE ~(a.h \in Handles /\ a.h # OwnFd)
        BY <2>1, <4>2
      <4> QED BY <4>1, <4>2
    <3>2. /\ end' \in {"eof", "reset", "dead"} /\ down' = down
          /\ pc' \in {"idle", "killed", "undefined"}
      <4>1. CASE a.h # OwnFd
        BY <2>1, <2>2, <2>5, <4>1, ReplyWays
      <4>2. CASE a.h = OwnFd
        BY <2>1, <2>5, <4>2 DEF OpInv, TypeOK
      <4> QED BY <4>1, <4>2
    <3>3. ServedOrphan
      BY <2>2, <2>5, <3>1, <3>2 DEF ServedOrphan
    <3> QED BY <2>2, <3>3 DEF Handled, Ops, FileOps, DirOps
  <2> QED BY <2>4, <2>5
<1>2. CASE pko_close_dir
  <2>1. PICK a \in Args :
         \/ a.h \in open \cap Dirs /\ open' = open \ {a.h} /\ Reply(0)
         \/ a.h \notin open \cap Dirs /\ pc' = "undefined"
            /\ UNCHANGED <<open, end, down>>
    BY <1>2 DEF pko_close_dir
  <2>2. /\ pc = "handle" /\ cmd = "dclose" /\ bytes_left' \in -1..MaxBytes
        /\ UNCHANGED <<stream, cmd, recv_packet, own, fd, nbytes, stored, ps2>>
    BY <1>2, KeptWork DEF pko_close_dir, Handling, OpInv
  <2>3. end = "open" => a.h = call.h /\ call.h \in open \cap Dirs
    <3> SUFFICES ASSUME end = "open" PROVE a.h = call.h /\ call.h \in open \cap Dirs
      OBVIOUS
    <3>1. a.h = call.h /\ call.op = "dclose" /\ down = <<>>
      BY <2>1, <2>2, UpArgs
    <3> QED BY <3>1 DEF OpInv, HandleInv
  <2>4. CASE end = "open"
    <3>1. Reply(0) /\ open' = open \ {call.h}
      BY <2>1, <2>3, <2>4
    <3>2. end' = "open" /\ down' = <<Rly(cmd, 0)>> /\ pc' = "idle"
      BY <2>2, <2>4, <3>1, ReplyWays
    <3>3. Served(0)
      BY <2>2, <2>4, <3>1, <3>2, ServiceConstants DEF Served
    <3> QED BY <2>2, <3>3 DEF Handled, Ops, FileOps, DirOps
  <2>5. CASE end # "open"
    <3>1. open' = open \/ \E h \in Any : open' \in {open \cup {h}, open \ {h}}
      BY <2>1 DEF Any
    <3>2. /\ end' \in {"eof", "reset", "dead"} /\ down' = down
          /\ pc' \in {"idle", "killed", "undefined"}
      <4>1. CASE a.h \in open \cap Dirs
        BY <2>1, <2>2, <2>5, <4>1, ReplyWays
      <4>2. CASE a.h \notin open \cap Dirs
        BY <2>1, <2>5, <4>2 DEF OpInv, TypeOK
      <4> QED BY <4>1, <4>2
    <3>3. ServedOrphan
      BY <2>2, <2>5, <3>1, <3>2 DEF ServedOrphan
    <3> QED BY <2>2, <3>3 DEF Handled, Ops, FileOps, DirOps
  <2> QED BY <2>4, <2>5
<1> QED BY <1>1, <1>2

LEMMA OthersHandled ==
    ASSUME OpInv, pko_read_dir \/ pko_lseek_file
    PROVE  Handled
<1>1. ASSUME NEW r \in {-1, 0, 1}, Reply(r), pc = "handle", cmd \in {"dread", "lseek"},
             UNCHANGED <<stream, work, open, stored, ps2>>
      PROVE  Handled
  <2>1. /\ bytes_left' \in -1..MaxBytes
        /\ UNCHANGED <<stream, cmd, recv_packet, own, fd, nbytes, stored, ps2>>
    BY <1>1, KeptWork DEF OpInv
  <2>2. CASE end = "open" /\ end' = "open" /\ down' = <<Rly(cmd, r)>> /\ pc' = "idle"
    <3>1. Served(r)
      BY <1>1, <2>2, ServiceConstants DEF Served
    <3> QED BY <1>1, <2>1, <3>1 DEF Handled, Ops, FileOps, DirOps
  <2>3. CASE /\ end # "open" /\ end' \in {"eof", "reset", "dead"} /\ down' = down
             /\ pc' \in {"idle", "killed"}
    <3>1. ServedOrphan
      BY <1>1, <2>3 DEF ServedOrphan
    <3> QED BY <1>1, <2>1, <3>1 DEF Handled, Ops, FileOps, DirOps
  <2> QED BY <1>1, <2>2, <2>3, ReplyWays
<1>2. CASE pko_lseek_file
  BY <1>1, <1>2 DEF pko_lseek_file, Handling
<1>3. CASE pko_read_dir
  <2>1. PICK a \in Args :
         \/ a.h \in open \cap Dirs /\ \E r \in {0, 1} : Reply(r)
         \/ a.h \notin open \cap Dirs /\ pc' = "undefined"
            /\ UNCHANGED <<end, down>>
    BY <1>3 DEF pko_read_dir
  <2>2. /\ pc = "handle" /\ cmd = "dread" /\ open' = open
        /\ UNCHANGED <<stream, work, open, stored, ps2>>
    BY <1>3 DEF pko_read_dir, Handling
  <2>3. CASE a.h \in open \cap Dirs
    BY <1>1, <2>1, <2>2, <2>3
  <2>4. CASE a.h \notin open \cap Dirs
    <3>1. end # "open"
      <4> SUFFICES ASSUME end = "open" PROVE FALSE
        OBVIOUS
      <4>1. a.h = call.h /\ call.op = "dread"
        BY <2>1, <2>2, UpArgs
      <4> QED BY <2>4, <4>1 DEF OpInv, HandleInv
    <3>2. /\ bytes_left' \in -1..MaxBytes
          /\ UNCHANGED <<stream, cmd, recv_packet, own, fd, nbytes, stored, ps2>>
      BY <2>2, KeptWork DEF OpInv
    <3>3. ServedOrphan
      BY <2>1, <2>2, <2>4, <3>1 DEF ServedOrphan, OpInv, TypeOK
    <3> QED BY <2>2, <3>2, <3>3 DEF Handled, Ops, FileOps, DirOps
  <2> QED BY <2>3, <2>4
<1> QED BY <1>2, <1>3

LEMMA ReadHandled ==
    ASSUME OpInv, pko_read_file
    PROVE  Handled
<1>1. /\ pc = "handle" /\ cmd = "read" /\ open' = open
      /\ UNCHANGED <<stream, cmd, recv_packet, own, fd, nbytes, stored, ps2>>
  BY DEF pko_read_file, Handling
<1>2. CASE "read" \in Silent /\ pc' = "idle" /\ UNCHANGED <<bytes_left, end, down>>
  BY <1>1, <1>2 DEF Handled, LeftSilent, Ops, FileOps, DirOps, OpInv, TypeOK
<1>3. ASSUME NEW a \in Args, NEW r \in -1..a.n, bytes_left' = ToSend(a.n, r),
             Send(<<Rly(cmd, r)>>, IF r > 0 THEN "data" ELSE "idle")
      PROVE  Handled
  <2> DEFINE next == IF r > 0 THEN "data" ELSE "idle"
  <2>1. a.n \in 0..MaxBytes /\ MaxBytes \in Nat
    BY ArgsFacts, ServiceConstants DEF OpInv
  <2>2. bytes_left' = r /\ r \in -1..MaxBytes
    BY <1>3, <2>1 DEF ToSend
  <2>3. next \in {"data", "idle"}
    OBVIOUS
  <2>4. Send(<<Rly(cmd, r)>>, next) /\ end \in Ends
    BY <1>3 DEF OpInv, TypeOK, Ends
  <2> HIDE DEF next
  <2>5. CASE end = "open" /\ end' = "open" /\ down' = down \o <<Rly(cmd, r)>> /\ pc' = next
    <3>1. down = <<>> /\ a.n = call.n
      BY <1>1, <2>5, UpArgs
    <3>2. down' = <<Rly(cmd, r)>>
      BY <2>5, <3>1
    <3>3. pc' = IF cmd = "read" /\ r > 0 THEN "data" ELSE "idle"
      BY <1>1, <2>5 DEF next
    <3>4. Served(r)
      BY <1>1, <1>3, <2>2, <2>5, <3>1, <3>2, <3>3 DEF Served
    <3> QED BY <1>1, <2>2, <3>4 DEF Handled, Ops, FileOps, DirOps
  <2>6. CASE /\ end # "open" /\ end' \in {"eof", "reset", "dead"} /\ down' = down
             /\ pc' \in {next, "killed"}
    <3>1. ServedOrphan
      BY <1>1, <2>3, <2>6 DEF ServedOrphan
    <3> QED BY <1>1, <2>2, <3>1 DEF Handled, Ops, FileOps, DirOps
  <2> QED BY <2>4, <2>5, <2>6, SendWays
<1> QED BY <1>2, <1>3 DEF pko_read_file

Handlers ==
    \/ pko_open_file \/ pko_open_dir \/ pko_close_file \/ pko_close_dir
    \/ pko_read_dir \/ pko_lseek_file \/ pko_read_file

LEMMA HandlersHandled ==
    ASSUME OpInv, Handlers
    PROVE  Handled
BY OpenHandled, CloseHandled, OthersHandled, ReadHandled DEF Handlers

\* The steps of the next-state relation, with the handlers taken together.
Steps ==
    \/ Handled \/ RecvHeader \/ RecvError \/ RecvEof \/ Reconnect \/ RecvBody
    \/ ToolTraffic \/ pko_send_bytes \/ pko_write_file \/ WriteSegment
    \/ WriteBreaks \/ WriteReply \/ (\E c \in Calls : Make(c)) \/ Take
    \/ \E how \in {"eof", "reset"}, keep \in 0..Len(stream) : Lose(how, keep)

LEMMA NextSteps ==
    ASSUME OpInv, Next
    PROVE  Steps
BY HandlersHandled DEF Next, Serve, Handlers, Steps

-----------------------------------------------------------------------------
(* The loop of pko_write_file().                                           *)

LEMMA SegmentFacts ==
    ASSUME TypeOK, FrameInv, WriteSegment
    PROVE  /\ stream' \in Seq(Items) /\ Leftover(stream') /\ bytes_left' \in 0..bytes_left
           /\ stored' = Units(nbytes - bytes_left') /\ stored' \in Seq(1..MaxBytes)
           /\ pc' \in {"write", "wrote"} /\ recv_packet' = Junk
           /\ pc' = "write" => AtData(stream', "write", nbytes, nbytes - bytes_left')
           /\ WriteFails # "any" /\ pc' = "wrote" => stream' = <<>>
           /\ cmd = "write" /\ pc = "write" /\ stream # <<>> /\ fd \in open \cap Handles
           /\ UNCHANGED <<end, down, cmd, own, fd, nbytes, open, ps2>>
<1> DEFINE n == read_bytes  d == nbytes - bytes_left
<1>1. PICK w \in Written(fd, n) :
          /\ stored' = stored \o Chunk(w)
          /\ bytes_left' = Account(w)
          /\ pc' = IF w = n /\ bytes_left' > 0 THEN "write" ELSE "wrote"
  BY DEF WriteSegment
<1>2. /\ pc = "write" /\ n > 0 /\ Len(stream) >= n
      /\ stream' = SubSeq(stream, n + 1, Len(stream)) /\ recv_packet' = Junk
      /\ UNCHANGED <<end, down, cmd, own, fd, nbytes, open, ps2>>
  BY DEF WriteSegment
<1>3. /\ bytes_left \in Nat /\ nbytes \in Nat /\ bytes_left <= nbytes /\ d \in Nat
      /\ nbytes <= MaxBytes /\ MaxBytes \in Nat /\ Segment \in Nat \ {0}
      /\ d + bytes_left = nbytes
  BY <1>2, ServiceConstants DEF FrameInv, TypeOK
<1>4. n \in Nat /\ n <= bytes_left
  BY <1>3 DEF read_bytes
<1>5. stream \in Seq(Items) /\ Len(stream) \in Nat /\ stream # <<>> /\ n \in 0..Len(stream)
  BY <1>2, <1>4, LenProperties, EmptySeq DEF TypeOK
<1>6. /\ cmd = "write" /\ Len(stream) <= bytes_left /\ fd \in open \cap Handles
      /\ \A k \in 1..Len(stream) : stream[k].t = "data" /\ stream[k].n = d + k
      /\ stored = Units(d)
  <2>1. AtData(stream, cmd, nbytes, d) /\ fd \in open \cap Handles /\ stored = Units(d)
    BY <1>2, <1>5 DEF FrameInv
  <2>2. /\ cmd = "write" /\ Len(stream) <= nbytes - d
        /\ \A k \in 1..Len(stream) : stream[k].t = "data" /\ stream[k].n = d + k
    BY <1>5, <2>1 DEF AtData
  <2>3. nbytes - d = bytes_left
    BY <1>3
  <2> HIDE DEF d
  <2> QED BY <2>1, <2>2, <2>3
<1> HIDE DEF n, d
<1>7. w \in -1..n /\ (WriteFails # "any" /\ w # n => n = bytes_left)
  BY <1>4, <1>6 DEF Written
<1> DEFINE b == IF w < 0 THEN 0 ELSE w
<1>8. b \in 0..n /\ bytes_left' = bytes_left - b /\ bytes_left' \in 0..bytes_left
  <2>1. CASE w < 0
    BY <1>1, <1>3, <1>4, <1>7, <2>1 DEF Account
  <2>2. CASE ~(w < 0)
    BY <1>1, <1>3, <1>4, <1>7, <2>2 DEF Account
  <2> QED BY <2>1, <2>2
<1>9. Chunk(w) \in Seq(1..MaxBytes) /\ Len(Chunk(w)) = b /\ \A k \in 1..b : Chunk(w)[k] = d + k
  <2>1. 1..w = 1..b /\ b \in Nat
    BY <1>4, <1>7
  <2>2. \A k \in 1..b : stream[k].n = d + k /\ d + k \in 1..MaxBytes
    <3> HIDE DEF b
    <3> TAKE k \in 1..b
    <3>1. k \in 1..Len(stream) /\ d + k \in 1..MaxBytes
      BY <1>3, <1>4, <1>5, <1>8
    <3> QED BY <1>6, <3>1
  <2>3. Chunk(w) = [k \in 1..b |-> stream[k].n]
    BY <2>1 DEF Chunk
  <2> HIDE DEF b
  <2>4. \A k \in 1..b : stream[k].n \in 1..MaxBytes
    BY <2>2
  <2>5. Chunk(w) \in Seq(1..MaxBytes) /\ Len(Chunk(w)) = b
    <3>1. Chunk(w) \in [1..b -> 1..MaxBytes]
      BY <2>3, <2>4
    <3> QED BY <2>1, <3>1, FunctionSeq
  <2>6. \A k \in 1..b : Chunk(w)[k] = stream[k].n
    BY <2>3
  <2> QED BY <2>2, <2>5, <2>6
<1> HIDE DEF b
<1>10. stored' = Units(nbytes - bytes_left')
  <2>1. d + b <= MaxBytes /\ b \in Nat /\ nbytes - bytes_left' = d + b
    BY <1>3, <1>4, <1>8
  <2>2. Units(d) \o Chunk(w) = Units(d + b)
    BY <1>3, <1>9, <2>1, UnitsGrow
  <2> QED BY <1>1, <1>6, <2>1, <2>2
<1>11. stored' \in Seq(1..MaxBytes)
  <2>1. nbytes - bytes_left' \in 0..MaxBytes
    BY <1>3, <1>8
  <2> QED BY <1>10, <2>1, UnitsFacts
<1>12. /\ stream' \in Seq(Items) /\ Len(stream') = Len(stream) - n
       /\ \A k \in 1..Len(stream) - n : stream'[k] = stream[n + k]
  BY <1>2, <1>5, SuffixFacts
<1>13. \A k \in 1..Len(stream') : stream'[k].t = "data" /\ stream'[k].n = (d + n) + k
  <2> TAKE k \in 1..Len(stream')
  <2>1. /\ n + k \in 1..Len(stream) /\ k \in 1..Len(stream) - n
        /\ d + (n + k) = (d + n) + k
    BY <1>3, <1>4, <1>5, <1>12
  <2> QED BY <1>6, <1>12, <2>1
<1>14. Leftover(stream')
  <2> SUFFICES ASSUME stream' # <<>> PROVE Head(stream').t = "data"
    BY DEF Leftover
  <2>1. Head(stream') = stream'[1] /\ Len(stream') \in Nat \ {0}
    BY <1>12, TailFacts
  <2> QED BY <1>13, <2>1
<1>15. pc' = "write" => AtData(stream', "write", nbytes, nbytes - bytes_left')
  <2> SUFFICES ASSUME pc' = "write"
               PROVE  AtData(stream', "write", nbytes, nbytes - bytes_left')
    OBVIOUS
  <2>1. w = n
    BY <1>1
  <2>2. nbytes - bytes_left' = d + n /\ Len(stream') <= nbytes - (d + n)
    BY <1>3, <1>4, <1>5, <1>6, <1>7, <1>8, <1>12, <2>1 DEF b
  <2> QED BY <1>13, <2>2 DEF AtData
<1>16. WriteFails # "any" /\ pc' = "wrote" => stream' = <<>>
  <2> SUFFICES ASSUME WriteFails # "any", pc' = "wrote" PROVE stream' = <<>>
    OBVIOUS
  <2>1. n = bytes_left
    <3>1. CASE w # n
      BY <1>7, <3>1
    <3>2. CASE w = n
      <4>1. ~(bytes_left' > 0)
        BY <1>1, <3>2
      <4> QED BY <1>3, <1>4, <1>7, <1>8, <3>2, <4>1 DEF b
    <3> QED BY <3>1, <3>2
  <2>2. Len(stream') = 0
    BY <1>3, <1>5, <1>6, <1>12, <2>1
  <2> QED BY <1>12, <2>2, EmptySeq
<1>17. pc' \in {"write", "wrote"}
  BY <1>1
<1> QED BY <1>2, <1>5, <1>6, <1>8, <1>10, <1>11, <1>12, <1>14, <1>15, <1>16, <1>17

\* The loop ends without a write(): nothing of the data is left.
LEMMA BreakFacts ==
    ASSUME TypeOK, FrameInv, WriteBreaks
    PROVE  /\ pc = "write" /\ pc' = "wrote" /\ stream' = <<>> /\ cmd = "write"
           /\ recv_packet' \in {recv_packet, Junk} /\ end' \in Ends
           /\ (end' = "open") = (end = "open")
           /\ UNCHANGED <<down, cmd, own, fd, nbytes, bytes_left, open, stored, ps2>>
<1>1. /\ pc = "write" /\ pc' = "wrote" /\ cmd = "write"
      /\ UNCHANGED <<down, cmd, own, fd, nbytes, bytes_left, open, stored, ps2>>
  BY DEF WriteBreaks, FrameInv
<1>2. CASE read_bytes = 0 /\ UNCHANGED <<stream, end, recv_packet>>
  <2>1. bytes_left = 0
    BY <1>1, <1>2, ServiceConstants DEF read_bytes, FrameInv, TypeOK
  <2>2. stream = <<>>
    <3> SUFFICES ASSUME stream # <<>> PROVE FALSE
      OBVIOUS
    <3>1. AtData(stream, cmd, nbytes, nbytes - bytes_left)
      BY <1>1 DEF FrameInv
    <3>2. Len(stream) <= nbytes - (nbytes - bytes_left)
      BY <3>1 DEF AtData
    <3>3. Len(stream) \in Nat \ {0}
      BY TailFacts DEF TypeOK
    <3> QED BY <2>1, <3>2, <3>3 DEF TypeOK
  <2> QED BY <1>1, <1>2, <2>2 DEF TypeOK, Ends
<1>3. CASE /\ Len(stream) < read_bytes /\ RecvEnds
           /\ stream' = <<>>
           /\ recv_packet' = IF stream = <<>> THEN recv_packet ELSE Junk
  BY <1>1, <1>3 DEF RecvEnds, TypeOK, Ends
<1> QED BY <1>2, <1>3 DEF WriteBreaks

-----------------------------------------------------------------------------
(* Each part of the invariant is kept by each step.                        *)

\* Where the body of a request is received, or is not.
LEMMA BodyFacts ==
    ASSUME TypeOK, FrameInv, RecvBody
    PROVE  /\ pc = "body" /\ pc' = "handle" /\ own' \in BOOLEAN
           /\ UNCHANGED <<down, cmd, fd, nbytes, bytes_left, open, stored, ps2>>
           /\ \/ /\ stream # <<>> /\ stream' = Tail(stream) /\ end' = end /\ own'
                 /\ recv_packet' = [h |-> Head(stream).h, n |-> Head(stream).n]
              \/ /\ stream = <<>> /\ stream' = <<>> /\ recv_packet' = recv_packet
                 /\ end # "open" /\ end' \in {"eof", "reset", "dead"}
<1>1. /\ pc = "body" /\ pc' = "handle" /\ own' \in BOOLEAN
      /\ UNCHANGED <<down, cmd, fd, nbytes, bytes_left, open, stored, ps2>>
  BY Zenon DEF RecvBody
<1>2. \/ /\ stream # <<>> /\ stream' = Tail(stream) /\ end' = end /\ own'
         /\ recv_packet' = [h |-> Head(stream).h, n |-> Head(stream).n]
      \/ /\ stream = <<>> /\ stream' = <<>> /\ recv_packet' = recv_packet /\ RecvEnds
  BY Zenon DEF RecvBody
<1>3. RecvEnds => end # "open" /\ end' \in {"eof", "reset", "dead"}
  BY DEF RecvEnds, TypeOK
<1> QED BY <1>1, <1>2, <1>3, Zenon

LEMMA RlyFacts ==
    ASSUME NEW op \in Ops, NEW r \in Any \cup -1..MaxBytes
    PROVE  Rly(op, r) \in Replies /\ <<Rly(op, r)>> \in Seq(Replies)
<1>1. Rly(op, r) \in Replies
  BY DEF Rly, Replies, Any
<1> QED BY <1>1

LEMMA SentFacts ==
    ASSUME NEW n \in 0..MaxBytes
    PROVE  /\ Sent(n) \in Seq(Replies) /\ Len(Sent(n)) = n
           /\ \A k \in 1..n : Sent(n)[k].t = "data"
<1>1. MaxBytes \in Nat /\ n \in Nat
  BY ServiceConstants
<1>2. \A k \in 1..n : [t |-> "data", op |-> "none", r |-> k] \in Replies
  BY <1>1 DEF Replies
<1>3. Sent(n) \in Seq(Replies) /\ Len(Sent(n)) = n
  BY <1>1, <1>2 DEF Sent
<1>4. \A k \in 1..n : Sent(n)[k].t = "data"
  BY DEF Sent
<1> QED BY <1>3, <1>4

\* The data of a read is sent.
LEMMA DataSent ==
    ASSUME TypeOK, FrameInv, OpenInv, DownInv, pko_send_bytes
    PROVE  /\ pc = "data" /\ stream = <<>> /\ UNCHANGED <<stream, work, open, stored, ps2>>
           /\ \/ /\ end = "open" /\ end' = "open" /\ pc' = "idle"
                 /\ down = <<Rly("read", bytes_left)>> /\ call.op = "read"
                 /\ bytes_left \in 1..MaxBytes /\ down' = down \o Sent(bytes_left)
                 /\ down' \in Seq(Replies) /\ down' # <<>> /\ Head(down') = Head(down)
                 /\ Len(down') = bytes_left + 1
                 /\ \A k \in 2..Len(down') : down'[k].t = "data"
              \/ /\ end # "open" /\ end' \in {"eof", "reset", "dead"} /\ down' = down
                 /\ pc' \in {"idle", "killed"}
<1>1. /\ pc = "data" /\ stream = <<>> /\ UNCHANGED <<stream, work, open, stored, ps2>>
      /\ cmd = "read" /\ end \in Ends
  BY DEF pko_send_bytes, FrameInv, TypeOK, Ends
<1>2. \/ end = "open" /\ end' = "open" /\ down' = down \o Sent(bytes_left) /\ pc' = "idle"
      \/ /\ end # "open" /\ end' \in {"eof", "reset", "dead"} /\ down' = down
         /\ pc' \in {"idle", "killed"}
  BY <1>1, SendWays DEF pko_send_bytes
<1>3. CASE end = "open" /\ end' = "open" /\ down' = down \o Sent(bytes_left) /\ pc' = "idle"
  <2>1. down = <<Rly("read", bytes_left)>> /\ bytes_left > 0 /\ call.op = "read"
    BY <1>1, <1>3 DEF OpenInv
  <2>2. bytes_left \in 1..MaxBytes /\ bytes_left \in 0..MaxBytes
    BY <2>1, ServiceConstants DEF TypeOK
  <2>3. /\ Sent(bytes_left) \in Seq(Replies) /\ Len(Sent(bytes_left)) = bytes_left
        /\ \A k \in 1..bytes_left : Sent(bytes_left)[k].t = "data"
    BY <2>2, SentFacts
  <2>4. down \in Seq(Replies) /\ Len(down) = 1
    BY <2>1 DEF TypeOK
  <2>5. /\ down' \in Seq(Replies) /\ Len(down') = 1 + bytes_left
        /\ \A k \in 1..1 + bytes_left :
             down'[k] = IF k <= 1 THEN down[k] ELSE Sent(bytes_left)[k - 1]
    <3> DEFINE u == Sent(bytes_left)
    <3>1. /\ down \o u \in Seq(Replies) /\ Len(down \o u) = Len(down) + Len(u)
          /\ \A k \in 1..Len(down) + Len(u) :
               (down \o u)[k] = IF k <= Len(down) THEN down[k] ELSE u[k - Len(down)]
      BY <2>3, <2>4, ConcatProperties
    <3>2. Len(u) = bytes_left /\ down' = down \o u
      BY <1>3, <2>3
    <3> HIDE DEF u
    <3>3. /\ down' \in Seq(Replies) /\ Len(down') = 1 + bytes_left
          /\ \A k \in 1..1 + bytes_left :
               down'[k] = IF k <= 1 THEN down[k] ELSE u[k - 1]
      BY <2>4, <3>1, <3>2, Zenon
    <3> QED BY <3>3 DEF u
  <2>6. down' # <<>> /\ down # <<>>
    <3>1. Len(down') # 0 /\ Len(down) # 0
      BY <2>2, <2>4, <2>5
    <3> QED BY <2>4, <2>5, <3>1, EmptySeq
  <2>7. Head(down') = down'[1] /\ Head(down) = down[1]
    BY <2>4, <2>5, <2>6, TailFacts
  <2>8. Head(down') = Head(down)
    BY <2>2, <2>5, <2>7
  <2>9. \A k \in 2..Len(down') : down'[k].t = "data"
    <3> TAKE k \in 2..Len(down')
    <3>1. k \in 1..1 + bytes_left /\ ~(k <= 1) /\ k - 1 \in 1..bytes_left
      BY <2>2, <2>5
    <3> QED BY <2>3, <2>5, <3>1
  <2>10. Len(down') = bytes_left + 1
    BY <2>2, <2>5
  <2> QED BY <1>1, <1>3, <2>1, <2>2, <2>5, <2>6, <2>8, <2>9, <2>10
<1> QED BY <1>1, <1>2, <1>3

\* WRITE_RLY.
LEMMA WriteReplied ==
    ASSUME TypeOK, FrameInv, OpenInv, WriteReply
    PROVE  /\ pc = "wrote" /\ cmd = "write" /\ UNCHANGED <<stream, work, open, stored, ps2>>
           /\ nbytes - bytes_left \in 0..MaxBytes /\ stored = Units(nbytes - bytes_left)
           /\ Leftover(stream)
           /\ \/ /\ end = "open" /\ end' = "open" /\ pc' = "idle" /\ down = <<>>
                 /\ down' = <<Rly("write", nbytes - bytes_left)>> /\ call.op = "write"
                 /\ nbytes = call.n
              \/ /\ end # "open" /\ end' \in {"eof", "reset", "dead"} /\ down' = down
                 /\ pc' \in {"idle", "killed"}
<1>1. /\ pc = "wrote" /\ cmd = "write" /\ UNCHANGED <<stream, work, open, stored, ps2>>
      /\ bytes_left \in 0..nbytes /\ stored = Units(nbytes - bytes_left) /\ end \in Ends
      /\ Leftover(stream)
  BY DEF WriteReply, FrameInv, TypeOK, Ends
<1>2. nbytes - bytes_left \in 0..MaxBytes
  BY <1>1, ServiceConstants DEF TypeOK
<1>3. \/ /\ end = "open" /\ end' = "open" /\ pc' = "idle"
         /\ down' = down \o <<Rly(cmd, nbytes - bytes_left)>>
      \/ /\ end # "open" /\ end' \in {"eof", "reset", "dead"} /\ down' = down
         /\ pc' \in {"idle", "killed"}
  BY <1>1, SendWays DEF WriteReply, Reply
<1>4. end = "open" => down = <<>> /\ call.op = "write" /\ nbytes = call.n
  BY <1>1 DEF OpenInv
<1>5. <<>> \o <<Rly(cmd, nbytes - bytes_left)>> = <<Rly(cmd, nbytes - bytes_left)>>
  OBVIOUS
<1> QED BY <1>1, <1>2, <1>3, <1>4, <1>5

LEMMA MakeFacts ==
    ASSUME IndInv, NEW c \in Calls, Make(c)
    PROVE  /\ stream' \in Seq(Items) /\ stream' # <<>>
           /\ IF stream = <<>> THEN stream' = Wire(c) ELSE Head(stream') = Head(stream)
<1>1. /\ Wire(c) \in Seq(Items) /\ Wire(c) # <<>> /\ stream \in Seq(Items)
      /\ stream' = stream \o Wire(c)
  BY WireFacts DEF Make, IndInv, TypeOK
<1>2. /\ stream' \in Seq(Items) /\ Len(stream') = Len(stream) + Len(Wire(c))
      /\ \A k \in 1..Len(stream) + Len(Wire(c)) :
           stream'[k] = IF k <= Len(stream) THEN stream[k] ELSE Wire(c)[k - Len(stream)]
  BY <1>1, ConcatProperties
<1>3. Len(Wire(c)) \in Nat \ {0} /\ Len(stream) \in Nat
  BY <1>1, TailFacts, LenProperties
<1>4. stream' # <<>>
  <2>1. Len(stream') # 0
    BY <1>2, <1>3
  <2> QED BY <2>1, EmptySeq
<1>5. CASE stream = <<>>
  BY <1>1, <1>2, <1>4, <1>5
<1>6. CASE stream # <<>>
  <2>1. Head(stream) = stream[1] /\ Len(stream) \in Nat \ {0}
    BY <1>1, <1>6, TailFacts
  <2>2. Head(stream') = stream'[1]
    BY <1>2, <1>4, TailFacts
  <2>3. stream'[1] = stream[1]
    BY <1>2, <1>3, <2>1
  <2> QED BY <1>2, <1>4, <1>6, <2>1, <2>2, <2>3
<1> QED BY <1>5, <1>6

LEMMA TypeStep ==
    ASSUME IndInv, Steps
    PROVE  TypeOK' /\ BufferInv'
<1> USE DEF IndInv
<1>1. CASE Handled
  <2>1. /\ UNCHANGED <<stream, cmd, recv_packet, own, fd, nbytes, stored, ps2>>
        /\ pc = "handle" /\ cmd \in Ops /\ bytes_left' \in -1..MaxBytes
    BY <1>1 DEF Handled
  <2>2. /\ down' \in Seq(Replies) /\ end' \in Ends /\ open' \subseteq Any
        /\ pc' \in {"idle", "data", "killed", "undefined"}
    <3>1. ASSUME NEW r, Served(r)
          PROVE  /\ down' \in Seq(Replies) /\ end' \in Ends /\ open' \subseteq Any
                 /\ pc' \in {"idle", "data", "killed", "undefined"}
      <4>1. down' \in Seq(Replies)
        BY <2>1, <3>1, RlyFacts DEF Served
      <4>2. open' \subseteq Any
        <5>1. open \subseteq Any
          BY DEF TypeOK, Any
        <5>2. cmd \in {"open", "dopen", "close", "dclose", "read", "dread", "lseek"}
          BY <1>1 DEF Handled, Ops, FileOps, DirOps
        <5> QED BY <3>1, <5>1, <5>2 DEF Served, Any
      <4> QED BY <3>1, <4>1, <4>2 DEF Served, Ends
    <3>2. CASE LeftSilent
      BY <3>2 DEF LeftSilent, TypeOK, Any, Ends
    <3>3. CASE ServedOrphan
      BY <3>3 DEF ServedOrphan, TypeOK, Any, Ends
    <3> QED BY <1>1, <3>1, <3>2, <3>3 DEF Handled
  <2> QED BY <2>1, <2>2 DEF TypeOK, BufferInv, Ends, Any, ps2
<1>2. CASE RecvHeader
  <2>1. Tail(stream) \in Seq(Items) /\ Head(stream) \in Items
    BY <1>2, TailFacts DEF RecvHeader, TypeOK
  <2>2. Head(stream).op \in Ops \cup {"none"}
    BY <2>1 DEF Items
  <2> QED BY <1>2, <2>1, <2>2 DEF RecvHeader, TypeOK, BufferInv, ps2
<1>3. CASE RecvError \/ RecvEof \/ Reconnect
  BY <1>3 DEF RecvError, RecvEof, Reconnect, RecvEnds, TypeOK, BufferInv, ps2, work
<1>4. CASE RecvBody
  <2>1. /\ pc' = "handle" /\ own' \in BOOLEAN
        /\ UNCHANGED <<down, cmd, fd, nbytes, bytes_left, open, stored, ps2>>
    BY <1>4, BodyFacts
  <2>2. stream' \in Seq(Items) /\ recv_packet' \in [h : Any \cup {NoFd}, n : -1..MaxBytes]
        /\ end' \in Ends /\ (recv_packet' = Junk \/ recv_packet'.n \in 0..MaxBytes)
    <3>1. CASE /\ stream # <<>> /\ stream' = Tail(stream) /\ end' = end
               /\ recv_packet' = [h |-> Head(stream).h, n |-> Head(stream).n]
      <4>1. Tail(stream) \in Seq(Items) /\ Head(stream) \in Items
        BY <3>1, TailFacts DEF TypeOK
      <4>2. Head(stream).h \in Any \cup {NoFd} /\ Head(stream).n \in 0..MaxBytes
        BY <4>1 DEF Items, Any
      <4> QED BY <3>1, <4>1, <4>2, ServiceConstants DEF TypeOK, Ends
    <3>2. CASE /\ stream' = <<>> /\ recv_packet' = recv_packet
               /\ end' \in {"eof", "reset", "dead"}
      BY <3>2, EmptySeq DEF TypeOK, BufferInv, Ends, Any
    <3> QED BY <1>4, <3>1, <3>2, BodyFacts
  <2> QED BY <2>1, <2>2 DEF TypeOK, BufferInv, Ends, Any, ps2
<1>5. CASE ToolTraffic
  BY <1>5, ServiceConstants DEF ToolTraffic, TypeOK, BufferInv, ps2, Junk
<1>6. CASE pko_send_bytes
  <2>1. down' \in Seq(Replies) /\ end' \in Ends /\ pc' \in {"idle", "killed"}
        /\ UNCHANGED <<stream, work, open, stored, ps2>>
    BY <1>6, DataSent DEF TypeOK, Ends
  <2> QED BY <2>1 DEF TypeOK, BufferInv, Ends, ps2, work
<1>7. CASE pko_write_file
  <2>1. PICK a \in Args : fd' = a.h /\ nbytes' = a.n /\ bytes_left' = a.n
    BY <1>7 DEF pko_write_file
  <2>2. a.h \in Any \cup {NoFd, OwnFd} /\ a.n \in 0..MaxBytes
    BY ArgsFacts
  <2>3. a.n \in -1..MaxBytes /\ a.n \in 0..a.n
    BY <2>2, ServiceConstants
  <2> QED BY <1>7, <2>1, <2>2, <2>3 DEF pko_write_file, TypeOK, BufferInv, ps2, Any
<1>8. CASE WriteSegment
  <2>1. bytes_left' \in 0..nbytes /\ bytes_left' \in -1..MaxBytes /\ pc' \in {"write", "wrote"}
    <3>1. bytes_left' \in 0..bytes_left /\ pc = "write" /\ pc' \in {"write", "wrote"}
      BY <1>8, SegmentFacts
    <3> QED BY <3>1, ServiceConstants DEF TypeOK
  <2>2. Junk \in [h : Handles \cup Dirs \cup {NoFd}, n : -1..MaxBytes]
    BY ServiceConstants DEF Junk
  <2> QED BY <1>8, <2>1, <2>2, SegmentFacts DEF TypeOK, BufferInv, ps2
<1>9. CASE WriteBreaks
  <2>2. Junk \in [h : Handles \cup Dirs \cup {NoFd}, n : -1..MaxBytes]
    BY ServiceConstants DEF Junk
  <2> QED BY <1>9, <2>2, BreakFacts, EmptySeq DEF TypeOK, BufferInv, ps2, Ends
<1>10. CASE WriteReply
  <2>1. /\ down' \in Seq(Replies) /\ end' \in Ends /\ pc' \in {"idle", "killed"}
        /\ UNCHANGED <<stream, work, open, stored, ps2>>
    <3>1. "write" \in Ops /\ nbytes - bytes_left \in Any \cup -1..MaxBytes
      BY <1>10, WriteReplied, ServiceConstants DEF Ops, FileOps
    <3>2. <<Rly("write", nbytes - bytes_left)>> \in Seq(Replies)
      BY <3>1, RlyFacts
    <3> QED BY <1>10, <3>2, WriteReplied DEF TypeOK, Ends
  <2> QED BY <2>1 DEF TypeOK, BufferInv, Ends, ps2, work
<1>11. ASSUME NEW c \in Calls, Make(c) PROVE TypeOK' /\ BufferInv'
  <2>1. stream' \in Seq(Items)
    BY <1>11, MakeFacts
  <2>2. held' \subseteq Handles \cup Dirs /\ stored' = <<>> /\ call' \in Calls
    BY <1>11 DEF Make, TypeOK
  <2> QED BY <1>11, <2>1, <2>2, EmptySeq DEF Make, TypeOK, BufferInv, work
<1>12. CASE Take
  <2>1. held' \subseteq Handles \cup Dirs
    <3>1. Head(down) \in Replies
      BY <1>12, TailFacts DEF Take, TypeOK
    <3>2. Head(down).op \in {"open", "dopen"} /\ Head(down).r # NoFd => Head(down).r \in open
      BY <1>12 DEF Take, DownInv
    <3> QED BY <1>12, <3>2 DEF Take, TypeOK
  <2> QED BY <1>12, <2>1, EmptySeq DEF Take, TypeOK, BufferInv, work
<1>13. ASSUME NEW how \in {"eof", "reset"}, NEW keep \in 0..Len(stream), Lose(how, keep)
       PROVE  TypeOK' /\ BufferInv'
  <2>1. stream' \in Seq(Items)
    BY <1>13, PrefixFacts DEF Lose, TypeOK
  <2> QED BY <1>13, <2>1, EmptySeq DEF Lose, TypeOK, BufferInv, work
<1> HIDE DEF IndInv
<1> QED BY <1>1, <1>2, <1>3, <1>4, <1>5, <1>6, <1>7, <1>8, <1>9, <1>10, <1>11, <1>12,
           <1>13 DEF Steps

\* A request that has no data left leaves nothing in the stream.
LEMMA NoDataLeft ==
    ASSUME FrameInv, pc = "handle", cmd # "write"
    PROVE  stream = <<>>
BY DEF FrameInv, AtData

LEMMA FrameStep ==
    ASSUME IndInv, Steps
    PROVE  FrameInv'
<1> USE DEF IndInv
<1>1. CASE Handled
  <2>1. /\ stream = <<>> /\ stream' = <<>> /\ cmd' = cmd
        /\ pc' \in {"idle", "data", "killed", "undefined"}
        /\ pc' = "data" => cmd = "read"
    <3>1. /\ stream = <<>> /\ stream' = stream /\ cmd' = cmd
      BY <1>1, NoDataLeft DEF Handled
    <3> QED BY <1>1, <3>1 DEF Handled, Served, LeftSilent, ServedOrphan
  <2> QED BY <2>1 DEF FrameInv, AtHeader, Leftover
<1>2. CASE RecvHeader
  <2>1. /\ pc = "idle" /\ stream # <<>> /\ stream' = Tail(stream) /\ open' = open
        /\ stored' = stored
        /\ \/ Head(stream).t = "hdr" /\ pc' = "body" /\ cmd' = Head(stream).op
           \/ pc' = "lost"
    BY <1>2 DEF RecvHeader
  <2>2. CASE Head(stream).t = "hdr" /\ pc' = "body" /\ cmd' = Head(stream).op
    <3>1. /\ Head(stream).op \in Ops /\ AtBody(Tail(stream), Head(stream).op)
          /\ stored = <<>>
      BY <2>1, <2>2 DEF FrameInv, AtHeader, Leftover
    <3>2. AtBody(stream, cmd)'
      BY <2>1, <2>2, <3>1 DEF AtBody
    <3> QED BY <2>1, <2>2, <3>1, <3>2 DEF FrameInv
  <2>3. CASE pc' = "lost"
    BY <2>3 DEF FrameInv
  <2> QED BY <2>1, <2>2, <2>3
<1>3. CASE RecvError
  BY <1>3 DEF RecvError, FrameInv, AtHeader, AtBody, Leftover, work
<1>4. CASE RecvEof
  BY <1>4 DEF RecvEof, FrameInv
<1>5. CASE Reconnect
  BY <1>5 DEF Reconnect, FrameInv, AtHeader, Leftover
<1>6. CASE RecvBody
  <2>1. /\ pc = "body" /\ pc' = "handle" /\ cmd' = cmd /\ stored' = stored /\ open' = open
        /\ AtBody(stream, cmd) /\ stored = <<>> /\ cmd \in Ops
    BY <1>6, BodyFacts DEF FrameInv
  <2>2. CASE /\ stream # <<>> /\ stream' = Tail(stream)
             /\ recv_packet' = [h |-> Head(stream).h, n |-> Head(stream).n]
    <3>1. AtData(stream', cmd, recv_packet'.n, 0)
      BY <2>1, <2>2 DEF AtBody
    <3>2. stream' # <<>> => cmd = "write"
      BY <3>1 DEF AtData
    <3>3. stream' # <<>> => recv_packet'.h \in open \cap Handles
      BY <2>1, <2>2, <3>2 DEF AtBody
    <3> QED BY <2>1, <3>1, <3>3 DEF FrameInv, AtData
  <2>3. CASE stream' = <<>>
    BY <2>1, <2>3 DEF FrameInv, AtData
  <2> QED BY <1>6, <2>2, <2>3, BodyFacts
<1>7. CASE ToolTraffic
  BY <1>7 DEF ToolTraffic, FrameInv, AtHeader, AtBody, Leftover, ps2
<1>8. CASE pko_send_bytes
  <2>1. stream' = <<>> /\ pc' \in {"idle", "killed"}
    BY <1>8, DataSent
  <2> QED BY <2>1 DEF FrameInv, AtHeader, Leftover
<1>9. CASE pko_write_file
  <2>1. /\ pc = "handle" /\ pc' = "write" /\ cmd = "write" /\ cmd' = cmd
        /\ stream' = stream /\ stored' = stored /\ open' = open
    BY <1>9 DEF pko_write_file, Handling
  <2>2. PICK a \in Args : fd' = a.h /\ nbytes' = a.n /\ bytes_left' = a.n
    BY <1>9 DEF pko_write_file
  <2>3. a.n \in 0..MaxBytes /\ nbytes' - bytes_left' = 0 /\ bytes_left' \in 0..nbytes'
    BY <2>2, ArgsFacts, ServiceConstants
  <2>4. stream # <<>> => a = recv_packet
    <3> SUFFICES ASSUME stream # <<>> PROVE a = recv_packet
      OBVIOUS
    <3>1. Len(stream) <= recv_packet.n - 0
      BY <2>1 DEF FrameInv, AtData
    <3>2. Len(stream) \in Nat \ {0}
      BY TailFacts DEF TypeOK
    <3>3. recv_packet # Junk
      BY <3>1, <3>2 DEF Junk
    <3> QED BY <2>2, <3>3 DEF Args
  <2>5. stream # <<>> => fd' \in open \cap Handles
    BY <2>1, <2>2, <2>4 DEF FrameInv
  <2>6. AtData(stream, "write", nbytes', 0)
    BY <2>1, <2>2, <2>4 DEF FrameInv, AtData
  <2>7. stored = <<>> /\ Units(0) = <<>>
    BY <2>1, UnitsFacts DEF FrameInv
  <2> QED BY <2>1, <2>3, <2>5, <2>6, <2>7 DEF FrameInv, AtData
<1>10. CASE WriteSegment
  <2>1. /\ cmd = "write" /\ cmd' = cmd /\ nbytes' = nbytes /\ fd' = fd /\ open' = open
        /\ fd \in open \cap Handles /\ pc' \in {"write", "wrote"} /\ Leftover(stream')
        /\ bytes_left' \in 0..bytes_left /\ stored' = Units(nbytes - bytes_left')
        /\ pc = "write"
    BY <1>10, SegmentFacts
  <2>2. pc' = "write" => AtData(stream', "write", nbytes, nbytes - bytes_left')
    BY <1>10, SegmentFacts
  <2>3. bytes_left' \in 0..nbytes
    BY <2>1 DEF TypeOK
  <2>4. Units(nbytes - bytes_left)' = Units(nbytes - bytes_left')
    BY <2>1 DEF Units
  <2> QED BY <2>1, <2>2, <2>3, <2>4 DEF FrameInv, AtData, Leftover
<1>11. CASE WriteBreaks
  <2>1. /\ cmd = "write" /\ cmd' = cmd /\ nbytes' = nbytes /\ bytes_left' = bytes_left
        /\ stream' = <<>> /\ pc = "write" /\ pc' = "wrote" /\ stored' = stored
    BY <1>11, BreakFacts
  <2> QED BY <2>1 DEF FrameInv, Leftover
<1>12. CASE WriteReply
  <2>1. pc' \in {"idle", "killed"} /\ Leftover(stream) /\ stream' = stream
    BY <1>12, WriteReplied
  <2> QED BY <2>1 DEF FrameInv, AtHeader, Leftover
<1>13. ASSUME NEW c \in Calls, Make(c) PROVE FrameInv'
  <2>1. /\ pc' = pc /\ stored' = <<>> /\ open' = open /\ end = "open" /\ call = NoCall
    BY <1>13 DEF Make
  <2>2. pc \in {"idle", "lost"}
    BY <2>1 DEF OpenInv
  <2>3. CASE pc = "lost"
    BY <2>1, <2>3 DEF FrameInv
  <2>4. CASE pc = "idle" /\ stream # <<>>
    <3>1. Leftover(stream) /\ Head(stream') = Head(stream) /\ stream' # <<>>
      BY <1>13, <2>1, <2>4, MakeFacts DEF OpenInv
    <3> QED BY <2>1, <2>4, <3>1 DEF FrameInv, AtHeader, Leftover
  <2>5. CASE pc = "idle" /\ stream = <<>>
    <3>1. /\ stream' = Wire(c) /\ stream' # <<>> /\ Head(stream') = Hdr(c)
          /\ Tail(stream') # <<>> /\ Head(Tail(stream')) = Body(c)
          /\ AtData(Tail(Tail(stream')), c.op, c.n, 0)
      BY <1>13, <2>5, MakeFacts, WireFacts
    <3>2. c.op = "write" => c.h \in open \cap Handles
      BY <1>13 DEF Make, FileOps, HandleInv
    <3>3. c.op \in Ops
      BY CallFacts
    <3>4. AtBody(Tail(stream'), c.op)
      BY <3>1, <3>2 DEF AtBody, Body
    <3>5. AtHeader(stream)'
      BY <2>1, <3>1, <3>3, <3>4 DEF AtHeader, AtBody, Hdr
    <3>6. Head(stream').t = "hdr"
      BY <3>1 DEF Hdr
    <3> QED BY <2>1, <2>5, <3>5, <3>6 DEF FrameInv
  <2> QED BY <2>2, <2>3, <2>4, <2>5
<1>14. CASE Take
  BY <1>14 DEF Take, FrameInv, AtHeader, AtBody, AtData, Leftover, work, Units
<1>15. ASSUME NEW how \in {"eof", "reset"}, NEW keep \in 0..Len(stream), Lose(how, keep)
       PROVE  FrameInv'
  <2>1. /\ stream' = SubSeq(stream, 1, keep) /\ pc' = pc /\ open' = open /\ stored' = stored
        /\ UNCHANGED work /\ pc # "away"
    BY <1>15 DEF Lose
  <2>2. /\ cmd' = cmd /\ recv_packet' = recv_packet /\ fd' = fd /\ nbytes' = nbytes
        /\ bytes_left' = bytes_left
    BY <2>1 DEF work
  <2>3. /\ \A op : AtBody(stream, op) => AtBody(stream', op)
        /\ AtHeader(stream) => AtHeader(stream')
        /\ Leftover(stream) => Leftover(stream')
        /\ stream' # <<>> => stream # <<>> /\ Head(stream') = Head(stream)
    BY <2>1, CutOff, ServiceConstants DEF TypeOK
  <2>4. CASE pc = "idle"
    <3>1. AtHeader(stream)'
      BY <2>1, <2>3, <2>4 DEF FrameInv, AtHeader, AtBody
    <3>2. Leftover(stream') \/ (Head(stream') = Head(stream) /\ ~Leftover(stream))
      BY <2>3 DEF Leftover
    <3> QED BY <2>1, <2>4, <3>1, <3>2 DEF FrameInv, Leftover
  <2>5. CASE pc = "body"
    <3>1. AtBody(stream, cmd)'
      BY <2>1, <2>2, <2>3, <2>5 DEF FrameInv, AtBody
    <3> QED BY <2>1, <2>2, <2>5, <3>1 DEF FrameInv
  <2>6. CASE pc = "handle"
    <3>1. AtData(stream', cmd, recv_packet.n, 0)
      <4>1. recv_packet.n \in Int /\ 0 \in Int /\ AtData(stream, cmd, recv_packet.n, 0)
        BY <2>6 DEF FrameInv, TypeOK
      <4> QED BY <2>1, <4>1, DataPrefix, Zenon DEF TypeOK
    <3> QED BY <2>1, <2>2, <2>3, <2>6, <3>1 DEF FrameInv, AtData
  <2>7. CASE pc = "write"
    <3>1. AtData(stream', cmd, nbytes, nbytes - bytes_left)
      <4>1. /\ nbytes \in Int /\ nbytes - bytes_left \in Int
            /\ AtData(stream, cmd, nbytes, nbytes - bytes_left)
        BY <2>7 DEF FrameInv, TypeOK
      <4> QED BY <2>1, <4>1, DataPrefix, Zenon DEF TypeOK
    <3>2. Units(nbytes - bytes_left)' = Units(nbytes - bytes_left)
      BY <2>2
    <3> QED BY <2>1, <2>2, <2>3, <2>7, <3>1, <3>2 DEF FrameInv, AtData
  <2>8. CASE pc = "wrote"
    <3>1. Leftover(stream)'
      BY <2>3, <2>8 DEF FrameInv, Leftover
    <3> QED BY <2>1, <2>2, <2>8, <3>1 DEF FrameInv
  <2>9. CASE pc = "data"
    BY <2>1, <2>2, <2>3, <2>9 DEF FrameInv
  <2>10. CASE pc \in {"lost", "killed", "undefined"}
    BY <2>1, <2>10 DEF FrameInv
  <2>11. pc \in {"idle", "body", "handle", "write", "wrote", "data",
                 "lost", "killed", "undefined"}
    BY <2>1 DEF TypeOK
  <2> QED BY <2>4, <2>5, <2>6, <2>7, <2>8, <2>9, <2>10, <2>11
<1> HIDE DEF IndInv
<1> QED BY <1>1, <1>2, <1>3, <1>4, <1>5, <1>6, <1>7, <1>8, <1>9, <1>10, <1>11, <1>12,
           <1>13, <1>14, <1>15 DEF Steps

LEMMA CleanStep ==
    ASSUME IndInv, Steps
    PROVE  CleanInv'
<1> SUFFICES ASSUME WriteFails # "any"
             PROVE  /\ pc' # "lost" /\ (pc' = "wrote" => stream' = <<>>)
                    /\ pc' = "idle" /\ stream' # <<>> => Head(stream').t = "hdr"
  BY DEF CleanInv
<1> USE DEF IndInv
<1>1. CASE Handled
  <2>1. stream' = <<>>
    BY <1>1, NoDataLeft DEF Handled
  <2> QED BY <1>1, <2>1 DEF Handled, Served, LeftSilent, ServedOrphan
<1>2. CASE RecvHeader
  BY <1>2 DEF RecvHeader, CleanInv
<1>3. CASE RecvError \/ RecvEof \/ Reconnect \/ ToolTraffic
  BY <1>3 DEF RecvError, RecvEof, Reconnect, ToolTraffic, CleanInv, FrameInv
<1>4. CASE RecvBody
  BY <1>4, BodyFacts
<1>5. CASE pko_send_bytes
  BY <1>5, DataSent
<1>6. CASE pko_write_file
  BY <1>6 DEF pko_write_file
<1>7. CASE WriteSegment
  BY <1>7, SegmentFacts
<1>8. CASE WriteBreaks
  BY <1>8, BreakFacts
<1>9. CASE WriteReply
  BY <1>9, WriteReplied DEF CleanInv
<1>10. ASSUME NEW c \in Calls, Make(c)
       PROVE  /\ pc' # "lost" /\ (pc' = "wrote" => stream' = <<>>)
              /\ pc' = "idle" /\ stream' # <<>> => Head(stream').t = "hdr"
  <2>1. pc' = pc /\ pc \in {"idle", "lost"}
    BY <1>10 DEF Make, OpenInv
  <2>2. CASE stream = <<>>
    BY <1>10, <2>1, <2>2, MakeFacts, WireFacts DEF Hdr, CleanInv
  <2>3. CASE stream # <<>>
    BY <1>10, <2>1, <2>3, MakeFacts DEF CleanInv
  <2> QED BY <2>2, <2>3
<1>11. CASE Take
  BY <1>11 DEF Take, CleanInv
<1>12. ASSUME NEW how \in {"eof", "reset"}, NEW keep \in 0..Len(stream), Lose(how, keep)
       PROVE  /\ pc' # "lost" /\ (pc' = "wrote" => stream' = <<>>)
              /\ pc' = "idle" /\ stream' # <<>> => Head(stream').t = "hdr"
  <2>1. stream' = SubSeq(stream, 1, keep) /\ pc' = pc
    BY <1>12 DEF Lose
  <2>2. stream' # <<>> => stream # <<>> /\ Head(stream') = Head(stream)
    BY <2>1, CutOff, ServiceConstants DEF TypeOK
  <2> QED BY <2>1, <2>2 DEF CleanInv
<1> HIDE DEF IndInv
<1> QED BY <1>1, <1>2, <1>3, <1>4, <1>5, <1>6, <1>7, <1>8, <1>9, <1>10, <1>11, <1>12
        DEF Steps

LEMMA OpenStep ==
    ASSUME IndInv, Steps
    PROVE  OpenInv'
<1> SUFFICES ASSUME end' = "open" PROVE OpenInv'
  BY DEF OpenInv
<1> USE DEF IndInv
<1>1. CASE Handled
  <2>1. /\ pc = "handle" /\ stream = <<>> /\ stream' = <<>> /\ cmd' = cmd /\ own' = own
        /\ call' = call
    BY <1>1, NoDataLeft DEF Handled, ps2
  <2>2. end = "open"
    BY <1>1 DEF Handled, Served, LeftSilent, ServedOrphan
  <2>3. own /\ cmd = call.op /\ down = <<>> /\ call # NoCall
    BY <2>1, <2>2 DEF OpenInv
  <2>4. CASE LeftSilent
    BY <2>1, <2>3, <2>4 DEF LeftSilent, OpenInv, Leftover
  <2>5. ASSUME NEW r, Served(r) PROVE OpenInv'
    <3>1. CASE pc' = "idle"
      BY <2>1, <2>3, <3>1 DEF OpenInv, Leftover
    <3>2. CASE pc' = "data"
      <4>1. cmd = "read" /\ r > 0 /\ bytes_left' = r /\ down' = <<Rly("read", r)>>
        BY <2>5, <3>2 DEF Served
      <4> QED BY <2>1, <2>3, <3>2, <4>1 DEF OpenInv, Leftover
    <3> QED BY <2>5, <3>1, <3>2 DEF Served
  <2> QED BY <1>1, <2>2, <2>4, <2>5 DEF Handled, ServedOrphan
<1>2. CASE RecvHeader
  <2>1. /\ pc = "idle" /\ stream # <<>> /\ stream' = Tail(stream) /\ end = "open"
        /\ down' = down /\ call' = call
        /\ \/ Head(stream).t = "hdr" /\ pc' = "body" /\ cmd' = Head(stream).op
           \/ pc' = "lost"
    BY <1>2 DEF RecvHeader, ps2
  <2>2. CASE Head(stream).t = "hdr" /\ pc' = "body" /\ cmd' = Head(stream).op
    BY <2>1, <2>2 DEF OpenInv, Leftover
  <2>3. CASE pc' = "lost"
    BY <2>1, <2>3 DEF OpenInv
  <2> QED BY <2>1, <2>2, <2>3
<1>3. CASE RecvError
  BY <1>3 DEF RecvError, RecvEnds
<1>4. CASE RecvEof
  BY <1>4 DEF RecvEof
<1>5. CASE Reconnect
  <2>1. pc' = "idle" /\ stream' = <<>> /\ down' = down /\ end # "open" /\ call' = call
    BY <1>5 DEF Reconnect, FrameInv, ps2
  <2>2. down = <<>> /\ call = NoCall
    BY <2>1 DEF DownInv, HandleInv
  <2> QED BY <2>1, <2>2 DEF OpenInv, Leftover
<1>6. CASE RecvBody
  <2>1. /\ pc = "body" /\ pc' = "handle" /\ end = "open" /\ call' = call /\ down' = down
        /\ cmd' = cmd /\ own' /\ stream # <<>>
        /\ recv_packet' = [h |-> Head(stream).h, n |-> Head(stream).n]
    BY <1>6, BodyFacts DEF ps2
  <2>2. Head(stream).h = call.h /\ Head(stream).n = call.n /\ down = <<>> /\ cmd = call.op
        /\ call # NoCall
    BY <2>1 DEF OpenInv
  <2> QED BY <2>1, <2>2 DEF OpenInv, CallArgs
<1>7. CASE ToolTraffic
  BY <1>7 DEF ToolTraffic, OpenInv, Leftover, ps2
<1>8. CASE pko_send_bytes
  <2>1. /\ pc' = "idle" /\ stream' = <<>> /\ call' = call /\ call.op = "read"
    BY <1>8, DataSent DEF ps2
  <2>2. call # NoCall
    BY <2>1 DEF NoCall
  <2> QED BY <2>1, <2>2 DEF OpenInv, Leftover
<1>9. CASE pko_write_file
  <2>1. /\ pc = "handle" /\ end = "open" /\ pc' = "write" /\ cmd' = cmd /\ own' = own
        /\ call' = call /\ down' = down
    BY <1>9 DEF pko_write_file, Handling, ps2
  <2>2. Args = {[h |-> call.h, n |-> call.n]} /\ cmd = call.op /\ down = <<>>
        /\ own /\ call # NoCall
    BY <2>1, UpArgs DEF OpInv, OpenInv
  <2>3. fd' = call.h /\ nbytes' = call.n
    BY <1>9, <2>2 DEF pko_write_file
  <2> QED BY <2>1, <2>2, <2>3 DEF OpenInv
<1>10. CASE WriteSegment
  BY <1>10, SegmentFacts DEF OpenInv, ps2
<1>11. CASE WriteBreaks
  BY <1>11, BreakFacts DEF OpenInv, ps2
<1>12. CASE WriteReply
  <2>1. pc' = "idle" /\ Leftover(stream) /\ stream' = stream /\ call' = call /\ call.op = "write"
    BY <1>12, WriteReplied DEF ps2
  <2>2. call # NoCall
    BY <2>1 DEF NoCall
  <2> QED BY <2>1, <2>2 DEF OpenInv, Leftover
<1>13. ASSUME NEW c \in Calls, Make(c) PROVE OpenInv'
  <2>1. /\ pc' = pc /\ down' = down /\ call' = c /\ end = "open" /\ call = NoCall
        /\ pc \in {"idle", "lost"} /\ down = <<>>
    BY <1>13 DEF Make, OpenInv
  <2>2. c # NoCall
    BY CallFacts
  <2>3. CASE stream # <<>>
    <3>1. pc = "idle" => Leftover(stream')
      BY <1>13, <2>1, <2>3, MakeFacts DEF OpenInv, Leftover
    <3> QED BY <2>1, <2>2, <3>1 DEF OpenInv, Leftover
  <2>4. CASE stream = <<>>
    <3>1. Head(stream') = Hdr(c) /\ Head(Tail(stream')) = Body(c)
      BY <1>13, <2>4, MakeFacts, WireFacts
    <3>2. Head(stream').op = c.op /\ Head(Tail(stream')).h = c.h /\ Head(Tail(stream')).n = c.n
      <4>1. Hdr(c).op = c.op /\ Body(c).h = c.h /\ Body(c).n = c.n
        BY DEF Hdr, Body
      <4> QED BY <3>1, <4>1, Zenon
    <3> QED BY <2>1, <2>2, <3>2 DEF OpenInv
  <2> QED BY <2>3, <2>4
<1>14. CASE Take
  <2>1. /\ pc' = pc /\ end = "open" /\ call' = NoCall /\ down' = <<>> /\ stream' = stream
        /\ down # <<>>
        /\ Head(down).op = "read" /\ Head(down).r > 0 => Len(down) = Head(down).r + 1
    BY <1>14 DEF Take
  <2>2. pc # "data"
    <3> SUFFICES ASSUME pc = "data" PROVE FALSE
      OBVIOUS
    <3>1. down = <<Rly("read", bytes_left)>> /\ bytes_left > 0
      BY <2>1 DEF OpenInv
    <3>2. Head(down) = Rly("read", bytes_left) /\ Len(down) = 1
      BY <3>1
    <3>3. Head(down).op = "read" /\ Head(down).r = bytes_left
      BY <3>2 DEF Rly
    <3> QED BY <2>1, <3>1, <3>2, <3>3 DEF TypeOK
  <2>3. pc \in {"idle", "lost"}
    BY <2>1, <2>2 DEF DownInv
  <2>4. pc = "idle" => Leftover(stream)
    BY <2>1 DEF OpenInv
  <2> QED BY <2>1, <2>3, <2>4 DEF OpenInv, Leftover
<1>15. ASSUME NEW how \in {"eof", "reset"}, NEW keep \in 0..Len(stream), Lose(how, keep)
       PROVE  OpenInv'
  BY <1>15 DEF Lose
<1> HIDE DEF IndInv
<1> QED BY <1>1, <1>2, <1>3, <1>4, <1>5, <1>6, <1>7, <1>8, <1>9, <1>10, <1>11, <1>12,
           <1>13, <1>14, <1>15 DEF Steps

LEMMA DownStep ==
    ASSUME IndInv, Steps
    PROVE  DownInv'
<1> USE DEF IndInv
<1>1. CASE Handled
  <2>1. pc = "handle" /\ call' = call /\ stored' = stored /\ down = <<>> /\ cmd # "write"
    BY <1>1 DEF Handled, DownInv, ps2
  <2>2. CASE LeftSilent \/ ServedOrphan
    BY <2>1, <2>2 DEF LeftSilent, ServedOrphan, DownInv
  <2>3. ASSUME NEW r, Served(r) PROVE DownInv'
    <3>1. /\ end = "open" /\ end' = "open" /\ down' = <<Rly(cmd, r)>>
          /\ pc' \in {"idle", "data"}
      BY <2>3 DEF Served
    <3>2. cmd = call.op /\ call # NoCall
      BY <2>1, <3>1 DEF OpenInv
    <3>3. Head(down') = Rly(cmd, r) /\ Len(down') = 1
      BY <3>1
    <3>4. Head(down').t = "rly" /\ Head(down').op = cmd /\ Head(down').r = r
      BY <3>3 DEF Rly
    <3>5. cmd \in {"open", "dopen"} /\ r # NoFd => r \in open'
      BY <2>3 DEF Served
    <3>6. \A k \in 2..Len(down') : FALSE
      BY <3>3
    <3> QED BY <2>1, <3>1, <3>2, <3>3, <3>4, <3>5, <3>6 DEF DownInv
  <2> QED BY <1>1, <2>2, <2>3 DEF Handled
<1>2. CASE RecvHeader
  <2>1. /\ UNCHANGED <<end, down, open, stored, call>> /\ pc = "idle"
        /\ \/ Head(stream).t = "hdr" /\ stream # <<>>
           \/ pc' = "lost"
    BY <1>2 DEF RecvHeader, ps2
  <2>2. CASE Head(stream).t = "hdr" /\ stream # <<>>
    <3>1. down = <<>>
      BY <2>1, <2>2 DEF OpenInv, DownInv, Leftover
    <3> QED BY <2>1, <3>1 DEF DownInv
  <2>3. CASE pc' = "lost"
    BY <2>1, <2>3 DEF DownInv
  <2> QED BY <2>1, <2>2, <2>3
<1>3. CASE RecvError \/ RecvEof \/ Reconnect
  <2>1. end # "open" /\ down' = down
    BY <1>3 DEF RecvError, RecvEof, Reconnect, FrameInv
  <2> QED BY <2>1 DEF DownInv
<1>4. CASE RecvBody
  BY <1>4, BodyFacts DEF DownInv
<1>5. CASE ToolTraffic
  BY <1>5 DEF ToolTraffic, DownInv, ps2
<1>6. CASE pko_send_bytes
  <2>1. /\ UNCHANGED <<stream, work, open, stored, ps2>>
    BY <1>6, DataSent
  <2>2. CASE /\ end = "open" /\ end' = "open" /\ pc' = "idle"
             /\ down = <<Rly("read", bytes_left)>> /\ call.op = "read"
             /\ bytes_left \in 1..MaxBytes
             /\ down' # <<>> /\ Head(down') = Head(down) /\ Len(down') = bytes_left + 1
             /\ \A k \in 2..Len(down') : down'[k].t = "data"
    <3>1. down # <<>> /\ Head(down) = Rly("read", bytes_left)
      BY <2>2
    <3>2. Head(down).r = bytes_left
      BY <3>1 DEF Rly
    <3> QED BY <2>1, <2>2, <3>1, <3>2 DEF DownInv, ps2
  <2>3. CASE end # "open" /\ down' = down
    BY <2>3 DEF DownInv
  <2> QED BY <1>6, <2>2, <2>3, DataSent
<1>7. CASE pko_write_file
  BY <1>7 DEF pko_write_file, Handling, DownInv
<1>8. CASE WriteSegment
  BY <1>8, SegmentFacts DEF DownInv
<1>9. CASE WriteBreaks
  BY <1>9, BreakFacts DEF DownInv
<1>10. CASE WriteReply
  <2>1. /\ UNCHANGED <<stream, work, open, stored, ps2>> /\ pc = "wrote"
        /\ nbytes - bytes_left \in 0..MaxBytes /\ stored = Units(nbytes - bytes_left)
    BY <1>10, WriteReplied
  <2>2. CASE /\ end = "open" /\ end' = "open" /\ pc' = "idle"
             /\ down' = <<Rly("write", nbytes - bytes_left)>> /\ call.op = "write"
             /\ nbytes = call.n
    <3>1. Head(down') = Rly("write", nbytes - bytes_left) /\ Len(down') = 1
      BY <2>2
    <3>2. /\ Head(down').t = "rly" /\ Head(down').op = "write"
          /\ Head(down').r = nbytes - bytes_left
      BY <3>1 DEF Rly
    <3>3. nbytes - bytes_left <= call.n
      BY <2>1, <2>2 DEF FrameInv, TypeOK
    <3>4. \A k \in 2..Len(down') : FALSE
      BY <3>1
    <3>5. call # NoCall
      BY <2>2 DEF NoCall
    <3> QED BY <2>1, <2>2, <3>1, <3>2, <3>3, <3>4, <3>5 DEF DownInv, ps2
  <2>3. CASE end # "open" /\ down' = down
    BY <2>3 DEF DownInv
  <2> QED BY <1>10, <2>2, <2>3, WriteReplied
<1>11. ASSUME NEW c \in Calls, Make(c) PROVE DownInv'
  BY <1>11 DEF Make, OpenInv, DownInv
<1>12. CASE Take
  BY <1>12 DEF Take, DownInv
<1>13. ASSUME NEW how \in {"eof", "reset"}, NEW keep \in 0..Len(stream), Lose(how, keep)
       PROVE  DownInv'
  BY <1>13 DEF Lose, DownInv
<1> HIDE DEF IndInv
<1> QED BY <1>1, <1>2, <1>3, <1>4, <1>5, <1>6, <1>7, <1>8, <1>9, <1>10, <1>11, <1>12,
           <1>13 DEF Steps

LEMMA HandleStep ==
    ASSUME IndInv, Steps
    PROVE  HandleInv'
<1> USE DEF IndInv
<1>1. CASE Handled
  <2>1. pc = "handle" /\ call' = call /\ held' = held
        /\ cmd \in {"open", "dopen", "close", "dclose", "read", "dread", "lseek"}
    BY <1>1 DEF Handled, ps2, Ops, FileOps, DirOps
  <2>2. CASE LeftSilent
    BY <2>1, <2>2 DEF LeftSilent, HandleInv
  <2>3. CASE ServedOrphan
    <3>1. end # "open" /\ end' # "open"
      BY <2>3 DEF ServedOrphan
    <3>2. held' = {} /\ call' = NoCall
      BY <2>1, <3>1 DEF HandleInv
    <3> QED BY <3>2 DEF HandleInv, NoCall
  <2>4. ASSUME NEW r, Served(r) PROVE HandleInv'
    <3>1. end = "open" /\ end' = "open" /\ down' = <<Rly(cmd, r)>>
      BY <2>4 DEF Served
    <3>2. cmd = call.op /\ down' # <<>>
      BY <2>1, <3>1 DEF OpenInv
    <3>3. held \subseteq open'
      BY <2>1, <2>4, <3>2 DEF Served, HandleInv
    <3> QED BY <2>1, <3>1, <3>2, <3>3 DEF HandleInv
  <2> QED BY <1>1, <2>2, <2>3, <2>4 DEF Handled
<1>2. CASE RecvHeader \/ RecvError \/ RecvEof \/ ToolTraffic
  BY <1>2 DEF RecvHeader, RecvError, RecvEof, ToolTraffic, RecvEnds, HandleInv, ps2
<1>3. CASE Reconnect
  BY <1>3 DEF Reconnect, FrameInv, HandleInv, ps2
<1>4. CASE RecvBody
  BY <1>4, BodyFacts DEF HandleInv, ps2
<1>5. CASE pko_send_bytes
  <2>1. /\ open' = open /\ call' = call /\ held' = held
        /\ end' = "open" \/ end # "open"
        /\ end # "open" => down' = down
        /\ end' = "open" => down' # <<>>
    BY <1>5, DataSent DEF ps2
  <2> QED BY <2>1 DEF HandleInv
<1>6. CASE pko_write_file
  BY <1>6 DEF pko_write_file, HandleInv, ps2
<1>7. CASE WriteSegment
  BY <1>7, SegmentFacts DEF HandleInv, ps2
<1>8. CASE WriteBreaks
  BY <1>8, BreakFacts DEF HandleInv, ps2
<1>9. CASE WriteReply
  <2>1. /\ open' = open /\ call' = call /\ held' = held
        /\ \/ end' = "open" /\ call.op = "write"
           \/ end # "open" /\ end' # "open"
    BY <1>9, WriteReplied DEF ps2
  <2> QED BY <2>1 DEF HandleInv, NoCall
<1>10. ASSUME NEW c \in Calls, Make(c) PROVE HandleInv'
  <2>1. /\ call' = c /\ open' = open /\ end = "open" /\ end' = "open" /\ c.op \in Ops
        /\ c.op \in FileOps => c.h \in held \cap Handles
        /\ c.op \in DirOps => c.h \in held \cap Dirs
        /\ held' = IF c.op \in {"close", "dclose"} THEN held \ {c.h} ELSE held
    BY <1>10, CallFacts DEF Make
  <2> QED BY <2>1 DEF HandleInv, FileOps, DirOps
<1>11. CASE Take
  <2>1. /\ call' = NoCall /\ open' = open /\ end = "open" /\ end' = "open" /\ down # <<>>
        /\ held' = IF Head(down).op \in {"open", "dopen"} /\ Head(down).r # NoFd
                   THEN held \cup {Head(down).r} ELSE held
    BY <1>11 DEF Take
  <2>2. Head(down).op \in {"open", "dopen"} /\ Head(down).r # NoFd => Head(down).r \in open
    BY <2>1 DEF DownInv
  <2> QED BY <2>1, <2>2 DEF HandleInv, NoCall
<1>12. ASSUME NEW how \in {"eof", "reset"}, NEW keep \in 0..Len(stream), Lose(how, keep)
       PROVE  HandleInv'
  BY <1>12 DEF Lose, HandleInv, NoCall
<1> HIDE DEF IndInv
<1> QED BY <1>1, <1>2, <1>3, <1>4, <1>5, <1>6, <1>7, <1>8, <1>9, <1>10, <1>11, <1>12
        DEF Steps

-----------------------------------------------------------------------------
LEMMA InitInv == Init => IndInv
<1> SUFFICES ASSUME Init PROVE IndInv
  OBVIOUS
<1>1. /\ stream = <<>> /\ end = "open" /\ down = <<>> /\ pc = "idle"
      /\ cmd = "none" /\ recv_packet = Junk /\ own \in BOOLEAN
      /\ fd = NoFd /\ nbytes = 0 /\ bytes_left = 0
      /\ open = {} /\ stored = <<>> /\ call = NoCall /\ held = {}
  BY Zenon DEF Init
<1>2. TypeOK
  <2>1. Junk \in [h : Handles \cup Dirs \cup {NoFd}, n : -1..MaxBytes]
    BY ServiceConstants DEF Junk
  <2> QED BY <1>1, <2>1, EmptySeq, ServiceConstants DEF TypeOK
<1>3. BufferInv /\ FrameInv /\ CleanInv
  BY <1>1 DEF BufferInv, FrameInv, CleanInv, AtHeader, Leftover
<1>4. OpenInv /\ DownInv /\ HandleInv
  BY <1>1 DEF OpenInv, DownInv, HandleInv, Leftover, NoCall
<1> QED BY <1>2, <1>3, <1>4 DEF IndInv

\* Every step of pksh, of ps2link and of the link keeps the invariant.
LEMMA StepInv == IndInv /\ [Next]_vars => IndInv'
<1> SUFFICES ASSUME IndInv, [Next]_vars PROVE IndInv'
  OBVIOUS
<1>1. CASE Next
  <2>1. Steps
    BY <1>1, NextSteps DEF IndInv, OpInv
  <2> QED BY <2>1, TypeStep, FrameStep, CleanStep, OpenStep, DownStep, HandleStep DEF IndInv
<1>2. CASE UNCHANGED vars
  <2>1. /\ UNCHANGED <<stream, end, down, pc, open, stored, call, held>>
        /\ UNCHANGED <<cmd, recv_packet, own, fd, nbytes, bytes_left>>
    BY <1>2 DEF vars, work, ps2
  <2>2. (TypeOK /\ BufferInv)'
    BY <2>1 DEF IndInv, TypeOK, BufferInv
  <2>3. (FrameInv /\ CleanInv)'
    BY <2>1 DEF IndInv, FrameInv, CleanInv, AtHeader, AtBody, AtData, Leftover, Units
  <2>4. (OpenInv /\ DownInv /\ HandleInv)'
    BY <2>1 DEF IndInv, OpenInv, DownInv, HandleInv, Leftover, CallArgs, Units
  <2> QED BY <2>2, <2>3, <2>4 DEF IndInv
<1> QED BY <1>1, <1>2

\* The inductive invariant of the file service holds in every reachable state.
THEOREM ServiceInvariant == Spec => []IndInv
BY InitInv, StepInv, PTL DEF Spec

\* For every handle, segment and request size: pko_write_file()'s count of what
\* is left stays between zero and what was asked for, and every packet,
\* argument and reply is in its range.
THEOREM ServiceTypes == Spec => []TypeOK
<1>1. IndInv => TypeOK
  BY DEF IndInv
<1> QED BY <1>1, ServiceInvariant, PTL

\* If write() on the host can only fail in the last segment, pko_srv_read()
\* never takes arguments or data for a header, wherever the link is lost.
THEOREM ServiceFrameKept == WriteFails # "any" => (Spec => []FrameKept)
<1> SUFFICES ASSUME WriteFails # "any" PROVE Spec => []FrameKept
  OBVIOUS
<1>1. IndInv => FrameKept
  BY DEF IndInv, CleanInv, FrameKept
<1> QED BY <1>1, ServiceInvariant, PTL

\* At most one reply is on its way, it is to the call ps2link waits on, and the
\* data behind a READ_RLY is what it announced: whatever write() does.
THEOREM ServiceOneReply == Spec => []OneReply
<1>1. IndInv => OneReply
  BY DEF IndInv, DownInv, OneReply
<1> QED BY <1>1, ServiceInvariant, PTL

\* WRITE_RLY tells how much of the data pko_write_file() has stored, and that
\* is the beginning of it, in order, over any number of segments.
THEOREM ServiceWriteAccounted == Spec => []WriteAccounted
<1>1. IndInv => WriteAccounted
  BY DEF IndInv, DownInv, WriteAccounted
<1> QED BY <1>1, ServiceInvariant, PTL

\* No handle ps2link was given is closed under it, by a request that broke off
\* or after a reconnect.
THEOREM ServiceHeldOpen == Spec => []HeldOpen
<1>1. IndInv => HeldOpen
  BY DEF IndInv, HandleInv, HeldOpen
<1> QED BY <1>1, ServiceInvariant, PTL

\* Handlers work on arguments that are not their own only when the link was
\* lost inside the request.
THEOREM ServiceOnlyOrphansGoAstray == Spec => []OnlyOrphansGoAstray
<1>1. IndInv => OnlyOrphansGoAstray
  BY DEF IndInv, OpenInv, OnlyOrphansGoAstray
<1> QED BY <1>1, ServiceInvariant, PTL

-----------------------------------------------------------------------------
(* The service implements FileRpc.                                         *)

LEMMA RpcInit == Init => Rpc!Init
<1> SUFFICES ASSUME Init PROVE Rpc!Init
  OBVIOUS
<1>1. /\ stream = <<>> /\ end = "open" /\ down = <<>> /\ pc = "idle"
      /\ open = {} /\ stored = <<>> /\ call = NoCall
  BY DEF Init
<1> QED BY <1>1, Zenon DEF Rpc!Init, Rpc!NoCall, Rpc!NoAnswer, NoCall, NoFd

LEMMA RpcMake ==
    ASSUME IndInv, NEW c \in Calls, Make(c)
    PROVE  Rpc!Make
<1>1. /\ end = "open" /\ end' = "open" /\ call = NoCall /\ call' = c /\ stored' = <<>>
      /\ down' = down /\ pc' = pc /\ open' = open
  BY DEF Make
<1>2. pc \notin {"write", "wrote"}
  BY <1>1 DEF IndInv, OpenInv
<1>3. c \in Rpc!Calls
  <2>1. c.op \in Rpc!Ops /\ c.h \in Handles \cup Dirs \cup {-1} /\ c.n \in 0..MaxBytes
        /\ c = [op |-> c.op, h |-> c.h, n |-> c.n]
    BY CallFacts DEF Rpc!Ops, Ops, FileOps, DirOps, Any, NoFd
  <2> QED BY <2>1 DEF Rpc!Calls
<1> QED BY <1>1, <1>2, <1>3, Zenon DEF Rpc!Make, Rpc!NoCall, NoCall, NoFd

\* The refinement mapping of FileService, by name.
AnswerMap == IF down = <<>> THEN [op |-> "none", r |-> -1]
             ELSE [op |-> Head(down).op, r |-> Head(down).r]
StoredMap == IF pc \in {"write", "wrote"} THEN <<>> ELSE stored
OwedMap == /\ end # "open"
           /\ \/ pc \in {"body", "handle", "write", "wrote"}
              \/ pc = "idle" /\ stream # <<>>

LEMMA RpcStutter ==
    ASSUME call' = call, open' = open, AnswerMap' = AnswerMap, StoredMap' = StoredMap,
           (end' = "open") <=> (end = "open"), OwedMap' <=> OwedMap
    PROVE  UNCHANGED Rpc!vars
BY Zenon DEF Rpc!vars, AnswerMap, StoredMap, OwedMap

LEMMA RpcServe ==
    ASSUME end = "open", end' = "open", call # NoCall, call' = call, down = <<>>,
           NEW r \in -1..MaxBytes \cup Handles \cup Dirs,
           down' = <<Rly(call.op, r)>>, Rpc!Effect(call, r)
    PROVE  Rpc!Serve
<1>1. AnswerMap = Rpc!NoAnswer
  BY DEF AnswerMap, Rpc!NoAnswer
<1>2. AnswerMap' = [op |-> call.op, r |-> r]
  <2>1. down' # <<>> /\ Head(down') = Rly(call.op, r)
    OBVIOUS
  <2> QED BY <2>1 DEF AnswerMap, Rly
<1>3. AnswerMap' \in [op : {call.op}, r : -1..MaxBytes \cup Handles \cup Dirs] /\ AnswerMap'.r = r
  BY <1>2
<1>4. call # Rpc!NoCall
  BY DEF Rpc!NoCall, NoCall, NoFd
<1>5. OwedMap' <=> OwedMap
  BY DEF OwedMap
<1> QED BY <1>1, <1>3, <1>4, <1>5, Zenon DEF Rpc!Serve, AnswerMap, OwedMap

LEMMA RpcOrphan ==
    ASSUME OwedMap, ~OwedMap', end # "open", end' # "open", call' = call, down' = down,
           open' = open \/ \E h \in Any : open' \in {open \cup {h}, open \ {h}},
           NEW k \in 0..MaxBytes, StoredMap' = Units(k)
    PROVE  Rpc!Orphan
<1>1. StoredMap' \in {Rpc!Units(j) : j \in 0..MaxBytes}
  BY DEF Units, Rpc!Units
<1>2. (\E h \in Handles \cup Dirs : open' \in {open \cup {h}, open \ {h}}) \/ open' = open
  BY DEF Any
<1>3. AnswerMap' = AnswerMap
  BY DEF AnswerMap
<1> QED BY <1>1, <1>2, <1>3, Zenon DEF Rpc!Orphan, AnswerMap, StoredMap, OwedMap

LEMMA RpcHandled ==
    ASSUME IndInv, WriteFails # "any", Handled
    PROVE  Rpc!Next \/ UNCHANGED Rpc!vars
<1> USE DEF IndInv
<1>1. /\ pc = "handle" /\ stream = <<>> /\ stream' = <<>> /\ call' = call
      /\ stored = <<>> /\ stored' = <<>> /\ cmd \in Ops \ {"write"}
  BY NoDataLeft DEF Handled, FrameInv, ps2
<1>2. CASE LeftSilent /\ end = "open"
  <2>1. AnswerMap' = AnswerMap /\ StoredMap' = StoredMap
    BY <1>1, <1>2 DEF LeftSilent, AnswerMap, StoredMap
  <2>2. ~OwedMap /\ ~OwedMap' /\ open' = open /\ end' = "open"
    BY <1>2 DEF LeftSilent, OwedMap
  <2> QED BY <1>1, <1>2, <2>1, <2>2, RpcStutter
<1>3. CASE (LeftSilent /\ end # "open") \/ ServedOrphan
  <2>1. /\ end # "open" /\ end' # "open" /\ down' = down
        /\ pc' \in {"idle", "data", "killed", "undefined"}
        /\ open' = open \/ \E h \in Any : open' \in {open \cup {h}, open \ {h}}
    BY <1>3 DEF LeftSilent, ServedOrphan
  <2>2. OwedMap /\ ~OwedMap'
    BY <1>1, <2>1 DEF OwedMap
  <2>3. StoredMap' = Units(0) /\ 0 \in 0..MaxBytes
    BY <1>1, <2>1, UnitsFacts, ServiceConstants DEF StoredMap
  <2>4. Rpc!Orphan
    BY <1>1, <2>1, <2>2, <2>3, RpcOrphan
  <2> QED BY <2>4 DEF Rpc!Next
<1>4. ASSUME NEW r, Served(r) PROVE Rpc!Next
  <2>1. /\ end = "open" /\ end' = "open" /\ down' = <<Rly(cmd, r)>> /\ pc' \in {"idle", "data"}
        /\ r \in -1..MaxBytes \cup Handles \cup Dirs
    BY <1>4 DEF Served, Any
  <2>2. cmd = call.op /\ call # NoCall /\ down = <<>>
    BY <1>1, <2>1 DEF OpenInv
  <2>3. StoredMap' = StoredMap
    BY <1>1, <2>1 DEF StoredMap
  <2>4. Rpc!Effect(call, r)
    <3>1. CASE cmd = "open"
      BY <1>4, <2>2, <2>3, <3>1 DEF Rpc!Effect, Served, NoFd, StoredMap
    <3>2. CASE cmd = "dopen"
      BY <1>4, <2>2, <2>3, <3>2 DEF Rpc!Effect, Served, StoredMap
    <3>3. CASE cmd \in {"close", "dclose"}
      BY <1>4, <2>2, <2>3, <3>3 DEF Rpc!Effect, Served, StoredMap
    <3>4. CASE cmd = "read"
      BY <1>4, <2>2, <2>3, <3>4 DEF Rpc!Effect, Served, StoredMap
    <3>5. CASE cmd \in {"dread", "lseek"}
      BY <1>4, <2>2, <2>3, <3>5 DEF Rpc!Effect, Served, StoredMap
    <3> QED BY <1>1, <3>1, <3>2, <3>3, <3>4, <3>5 DEF Ops, FileOps, DirOps
  <2>5. Rpc!Serve
    BY <1>1, <2>1, <2>2, <2>4, RpcServe
  <2> QED BY <2>5 DEF Rpc!Next
<1> QED BY <1>2, <1>3, <1>4 DEF Handled

\* Receiving a request, and the loop of pko_write_file(), change nothing that
\* FileRpc sees.
LEMMA RpcInner ==
    ASSUME IndInv,
           RecvHeader \/ RecvError \/ RecvEof \/ RecvBody \/ ToolTraffic \/ pko_write_file
              \/ WriteSegment \/ WriteBreaks \/ pko_send_bytes,
           WriteFails # "any"
    PROVE  UNCHANGED Rpc!vars
<1> USE DEF IndInv
<1>1. CASE RecvHeader
  <2>1. /\ call' = call /\ open' = open /\ down' = down /\ stored' = stored /\ end' = end
        /\ pc = "idle" /\ stream # <<>> /\ pc' = "body"
    BY <1>1 DEF RecvHeader, ps2, CleanInv
  <2> QED BY <2>1, RpcStutter DEF AnswerMap, StoredMap, OwedMap
<1>2. CASE RecvError \/ RecvEof
  <2>1. /\ call' = call /\ open' = open /\ down' = down /\ stored' = stored
        /\ end # "open" /\ end' # "open" /\ stream = <<>> /\ stream' = <<>>
        /\ pc = "idle" /\ pc' \in {"idle", "away"}
    BY <1>2 DEF RecvError, RecvEof, RecvEnds, ps2
  <2> QED BY <2>1, RpcStutter DEF AnswerMap, StoredMap, OwedMap
<1>3. CASE RecvBody
  <2>1. /\ call' = call /\ open' = open /\ down' = down /\ stored' = stored
        /\ pc = "body" /\ pc' = "handle" /\ (end' = "open" <=> end = "open")
    BY <1>3, BodyFacts DEF ps2
  <2> QED BY <2>1, RpcStutter DEF AnswerMap, StoredMap, OwedMap
<1>4. CASE ToolTraffic
  <2>1. UNCHANGED <<call, open, down, stored, end, pc, stream>>
    BY <1>4 DEF ToolTraffic, ps2
  <2> QED BY <2>1, RpcStutter DEF AnswerMap, StoredMap, OwedMap
<1>5. CASE pko_write_file
  <2>1. /\ UNCHANGED <<call, open, down, stored, end, stream>>
        /\ pc = "handle" /\ pc' = "write" /\ stored = <<>>
    BY <1>5 DEF pko_write_file, Handling, ps2, FrameInv
  <2> QED BY <2>1, RpcStutter DEF AnswerMap, StoredMap, OwedMap
<1>6. CASE WriteSegment
  <2>1. /\ UNCHANGED <<call, open, down, end>>
        /\ pc = "write" /\ pc' \in {"write", "wrote"}
    BY <1>6, SegmentFacts DEF ps2
  <2> QED BY <2>1, RpcStutter DEF AnswerMap, StoredMap, OwedMap
<1>7. CASE WriteBreaks
  <2>1. /\ UNCHANGED <<call, open, down>> /\ (end' = "open" <=> end = "open")
        /\ pc = "write" /\ pc' = "wrote"
    BY <1>7, BreakFacts DEF ps2
  <2> QED BY <2>1, RpcStutter DEF AnswerMap, StoredMap, OwedMap
<1>8. CASE pko_send_bytes
  <2>1. /\ call' = call /\ open' = open /\ stored' = stored /\ stream' = <<>>
        /\ pc = "data" /\ pc' \in {"idle", "killed"} /\ (end' = "open" <=> end = "open")
    BY <1>8, DataSent DEF ps2
  <2>2. AnswerMap' = AnswerMap
    <3>1. CASE down' = down
      BY <3>1 DEF AnswerMap
    <3>2. CASE down = <<Rly("read", bytes_left)>> /\ down' # <<>> /\ Head(down') = Head(down)
      <4>1. down # <<>>
        BY <3>2
      <4> QED BY <3>2, <4>1 DEF AnswerMap
    <3> QED BY <1>8, <3>1, <3>2, DataSent
  <2> QED BY <2>1, <2>2, RpcStutter DEF StoredMap, OwedMap
<1> HIDE DEF IndInv
<1> QED BY <1>1, <1>2, <1>3, <1>4, <1>5, <1>6, <1>7, <1>8

LEMMA RpcWrite ==
    ASSUME IndInv, WriteFails # "any", WriteReply
    PROVE  Rpc!Next
<1> USE DEF IndInv
<1> DEFINE r == nbytes - bytes_left
<1>1. /\ pc = "wrote" /\ call' = call /\ open' = open /\ r \in 0..MaxBytes
      /\ stored' = Units(r) /\ stream' = <<>>
  BY WriteReplied DEF ps2, CleanInv
<1>2. CASE /\ end = "open" /\ end' = "open" /\ pc' = "idle" /\ down = <<>>
           /\ down' = <<Rly("write", r)>> /\ call.op = "write" /\ nbytes = call.n
  <2>1. call # NoCall /\ r \in -1..MaxBytes \cup Handles \cup Dirs
    BY <1>1, <1>2, ServiceConstants DEF NoCall
  <2>2. StoredMap' = Rpc!Units(r) /\ open' = open
    BY <1>1, <1>2 DEF StoredMap, Units, Rpc!Units
  <2>3. r \in 0..call.n
    BY <1>1, <1>2 DEF FrameInv, TypeOK
  <2> HIDE DEF r
  <2>4. Rpc!Effect(call, r)
    BY <1>2, <2>2, <2>3 DEF Rpc!Effect, StoredMap
  <2>5. Rpc!Serve
    BY <1>1, <1>2, <2>1, <2>4, RpcServe
  <2> QED BY <2>5 DEF Rpc!Next
<1>3. CASE /\ end # "open" /\ end' \in {"eof", "reset", "dead"} /\ down' = down
           /\ pc' \in {"idle", "killed"}
  <2>1. OwedMap /\ ~OwedMap'
    BY <1>1, <1>3 DEF OwedMap
  <2>2. StoredMap' = Units(r)
    BY <1>1, <1>3 DEF StoredMap
  <2> HIDE DEF r
  <2>3. Rpc!Orphan
    BY <1>1, <1>3, <2>1, <2>2, RpcOrphan
  <2> QED BY <2>3 DEF Rpc!Next
<1> QED BY <1>2, <1>3, WriteReplied

LEMMA RpcLink ==
    ASSUME IndInv, WriteFails # "any"
    PROVE  /\ Take => Rpc!Take
           /\ Reconnect => Rpc!Restore
           /\ \A how \in {"eof", "reset"}, keep \in 0..Len(stream) :
                 Lose(how, keep) => Rpc!Lose
<1> USE DEF IndInv
<1>1. ASSUME Take PROVE Rpc!Take
  <2>1. /\ end = "open" /\ end' = "open" /\ call' = NoCall /\ down # <<>> /\ down' = <<>>
        /\ UNCHANGED <<open, stored, pc, stream>>
    BY <1>1 DEF Take
  <2>2. call # NoCall /\ Head(down).op = call.op
    BY <2>1 DEF DownInv
  <2>3. call.op # "none"
    BY <2>2, CallFacts DEF TypeOK
  <2>4. AnswerMap # Rpc!NoAnswer /\ AnswerMap' = Rpc!NoAnswer
    BY <2>1, <2>2, <2>3 DEF AnswerMap, Rpc!NoAnswer
  <2>5. StoredMap' = StoredMap /\ ~OwedMap /\ ~OwedMap' /\ NoCall = Rpc!NoCall
    BY <2>1 DEF StoredMap, OwedMap, NoCall, Rpc!NoCall, NoFd
  <2> QED BY <2>1, <2>4, <2>5, Zenon DEF Rpc!Take, AnswerMap, StoredMap, OwedMap
<1>2. ASSUME Reconnect PROVE Rpc!Restore
  <2>1. /\ pc = "away" /\ pc' = "idle" /\ end # "open" /\ end' = "open"
        /\ UNCHANGED <<call, open, stored, down>>
    BY <1>2 DEF Reconnect, FrameInv, ps2
  <2>2. ~OwedMap /\ ~OwedMap' /\ StoredMap' = StoredMap /\ AnswerMap' = AnswerMap
    BY <2>1 DEF OwedMap, StoredMap, AnswerMap
  <2> QED BY <2>1, <2>2, Zenon DEF Rpc!Restore, AnswerMap, StoredMap, OwedMap
<1>3. ASSUME NEW how \in {"eof", "reset"}, NEW keep \in 0..Len(stream), Lose(how, keep)
      PROVE  Rpc!Lose
  <2>1. /\ end = "open" /\ end' # "open" /\ call' = NoCall /\ down' = <<>>
        /\ UNCHANGED <<open, stored, pc>> /\ stream' = SubSeq(stream, 1, keep)
    BY <1>3 DEF Lose
  <2>2. StoredMap' = StoredMap /\ AnswerMap' = Rpc!NoAnswer /\ NoCall = Rpc!NoCall
    BY <2>1 DEF StoredMap, AnswerMap, Rpc!NoAnswer, NoCall, Rpc!NoCall, NoFd
  <2>3. call = NoCall \/ down # <<>> => ~OwedMap'
    <3> SUFFICES ASSUME call = NoCall \/ down # <<>> PROVE ~OwedMap'
      OBVIOUS
    <3>1. pc \in {"idle", "data"} /\ (pc = "idle" => stream = <<>>)
      BY <2>1 DEF OpenInv, DownInv, CleanInv, Leftover
    <3>2. pc = "idle" => stream' = <<>>
      BY <2>1, <3>1, CutOff, ServiceConstants DEF TypeOK
    <3> QED BY <2>1, <3>1, <3>2 DEF OwedMap
  <2>4. AnswerMap # Rpc!NoAnswer => down # <<>>
    BY DEF AnswerMap, Rpc!NoAnswer
  <2>5. OwedMap' \in IF call # Rpc!NoCall /\ AnswerMap = Rpc!NoAnswer
                     THEN BOOLEAN ELSE {FALSE}
    <3>1. CASE call # Rpc!NoCall /\ AnswerMap = Rpc!NoAnswer
      <4>1. OwedMap' \in BOOLEAN
        BY Zenon DEF OwedMap
      <4> QED BY <3>1, <4>1, Zenon
    <3>2. CASE ~(call # Rpc!NoCall /\ AnswerMap = Rpc!NoAnswer)
      <4>1. ~OwedMap'
        BY <2>2, <2>3, <2>4, <3>2
      <4>2. OwedMap' = FALSE
        BY <4>1, Zenon DEF OwedMap
      <4>3. OwedMap' \in {FALSE}
        BY <4>2, Zenon
      <4> QED BY <3>2, <4>3, Zenon
    <3> QED BY <3>1, <3>2, Zenon
  <2> QED BY <2>1, <2>2, <2>5, Zenon DEF Rpc!Lose, AnswerMap, StoredMap, OwedMap
<1> HIDE DEF IndInv
<1> QED BY <1>1, <1>2, <1>3

\* If write() on the host can only fail in the last segment: with the wire
\* hidden, pksh carries out a request of ps2link in one step, once, and the
\* reply tells what was done; the one that a lost link interrupts is carried
\* out at most once.
THEOREM ServiceImplementsRpc == WriteFails # "any" => (Spec => ImplementsRpc)
<1> SUFFICES ASSUME WriteFails # "any" PROVE Spec => Rpc!Spec
  BY DEF ImplementsRpc
<1>1. IndInv /\ [Next]_vars => [Rpc!Next]_(Rpc!vars)
  <2> SUFFICES ASSUME IndInv, [Next]_vars PROVE Rpc!Next \/ UNCHANGED Rpc!vars
    OBVIOUS
  <2>1. CASE Next
    <3>1. Steps
      BY <2>1, NextSteps DEF IndInv, OpInv
    <3>2. ASSUME NEW c \in Calls, Make(c) PROVE Rpc!Next
      BY <3>2, RpcMake DEF Rpc!Next
    <3>3. CASE Take \/ Reconnect
      BY <3>3, RpcLink DEF Rpc!Next
    <3>4. ASSUME NEW how \in {"eof", "reset"}, NEW keep \in 0..Len(stream), Lose(how, keep)
          PROVE  Rpc!Next
      BY <3>4, RpcLink DEF Rpc!Next
    <3> QED BY <3>1, <3>2, <3>3, <3>4, RpcHandled, RpcInner, RpcWrite DEF Steps
  <2>2. CASE UNCHANGED vars
    <3>1. UNCHANGED <<stream, end, down, pc, open, stored, call>>
      BY <2>2 DEF vars, ps2
    <3> QED BY <3>1, RpcStutter DEF AnswerMap, StoredMap, OwedMap
  <2> QED BY <2>1, <2>2
<1> QED BY <1>1, RpcInit, ServiceInvariant, PTL DEF Spec, Rpc!Spec

-----------------------------------------------------------------------------
(* A call is answered, step by step.                                       *)

Steady == WriteFails # "any" /\ IndInv /\ WholeInv

LEMMA SteadyFacts ==
    ASSUME Steady
    PROVE  /\ TypeOK /\ FrameInv /\ OpenInv /\ DownInv /\ HandleInv
           /\ stream \in Seq(Items) /\ Len(stream) \in Nat
           /\ (stream # <<>> => Len(stream) \in Nat \ {0} /\ Len(Tail(stream)) = Len(stream) - 1)
           /\ Rank \in 0..3
           /\ (call # NoCall => end = "open" /\ call \in Calls)
           /\ pc # "lost" /\ (pc = "wrote" => stream = <<>>)
           /\ pc = "idle" /\ stream # <<>> => Head(stream).t = "hdr"
           /\ Size \in Nat
<1>1. TypeOK /\ FrameInv /\ OpenInv /\ DownInv /\ HandleInv /\ CleanInv /\ WriteFails # "any"
  BY DEF Steady, IndInv
<1>2. stream \in Seq(Items) /\ Len(stream) \in Nat
  BY <1>1, LenProperties DEF TypeOK
<1>3. stream # <<>> => Len(stream) \in Nat \ {0} /\ Len(Tail(stream)) = Len(stream) - 1
  BY <1>2, TailFacts
<1>4. Rank \in 0..3
  BY DEF Rank
<1>5. call # NoCall => end = "open" /\ call \in Calls
  BY <1>1 DEF TypeOK, HandleInv
<1>6. /\ pc # "lost" /\ (pc = "wrote" => stream = <<>>)
      /\ pc = "idle" /\ stream # <<>> => Head(stream).t = "hdr"
  BY <1>1 DEF CleanInv
<1>7. Size \in Nat
  <2>1. call \in Calls => call.n \in Nat
    BY CallFacts, ServiceConstants
  <2>2. call = NoCall => call.op # "write"
    BY DEF NoCall
  <2> QED BY <1>5, <2>1, <2>2 DEF Size
<1> QED BY <1>1, <1>2, <1>3, <1>4, <1>5, <1>6, <1>7

LEMMA Descends ==
    ASSUME NEW l \in Nat, NEW k \in 0..3, NEW m \in Nat, NEW n \in 0..3,
           m < l \/ (m = l /\ n < k)
    PROVE  4 * l + k \in Nat /\ 4 * m + n \in Nat /\ 4 * m + n < 4 * l + k
OBVIOUS

\* Something was taken from the stream, or the next stage reached.
LEMMA Lowers ==
    ASSUME Steady, call' = call, Len(stream') \in Nat,
           Len(stream') < Len(stream) \/ (Len(stream') = Len(stream) /\ Rank' < Rank)
    PROVE  Nearer
<1>1. Len(stream) \in Nat /\ Rank \in 0..3
  BY SteadyFacts
<1>2. Rank' \in 0..3
  BY DEF Rank
<1>3. /\ 4 * Len(stream) + Rank \in Nat /\ 4 * Len(stream') + Rank' \in Nat
      /\ 4 * Len(stream') + Rank' < 4 * Len(stream) + Rank
  BY <1>1, <1>2, Descends
<1>4. Variant \in Nat /\ Variant' \in Nat /\ Variant' < Variant
  BY <1>3, Zenon DEF Variant
<1> QED BY <1>4 DEF Nearer

Advance == WholeInv' /\ Nearer

\* Where the link is down, or ps2link waits for nothing, there is little to show.
LEMMA OffLink ==
    ASSUME Steady, end # "open", end' # "open"
    PROVE  Advance
BY SteadyFacts DEF Advance, WholeInv, Nearer

LEMMA HeaderAdvance ==
    ASSUME Steady, RecvHeader
    PROVE  Advance
<1>1. /\ pc = "idle" /\ stream # <<>> /\ pc' = "body" /\ stream' = Tail(stream)
      /\ UNCHANGED <<end, down, call>>
  BY SteadyFacts DEF RecvHeader, ps2
<1>2. /\ Len(stream) \in Nat \ {0} /\ Len(stream') = Len(stream) - 1 /\ Size' = Size
      /\ Size \in Nat
  BY <1>1, SteadyFacts DEF Size
<1>3. Nearer
  <2>1. Len(stream') \in Nat /\ Len(stream') < Len(stream)
    BY <1>2
  <2> QED BY <1>1, <2>1, Lowers
<1>4. WholeInv'
  <2> SUFFICES ASSUME end = "open" PROVE WholeInv'
    BY <1>1 DEF WholeInv
  <2>1. Len(stream) = Size + 2 /\ call # NoCall /\ down = <<>>
    BY <1>1 DEF Steady, WholeInv
  <2>2. Len(stream') = Size' + 1
    BY <1>2, <2>1
  <2> QED BY <1>1, <2>1, <2>2 DEF WholeInv
<1> QED BY <1>3, <1>4 DEF Advance

LEMMA BodyAdvance ==
    ASSUME Steady, RecvBody
    PROVE  Advance
<1>1. /\ pc = "body" /\ pc' = "handle" /\ UNCHANGED <<down, call>>
      /\ \/ stream # <<>> /\ stream' = Tail(stream) /\ end' = end
         \/ end # "open" /\ end' # "open"
  BY SteadyFacts, BodyFacts DEF ps2
<1>2. CASE end # "open" /\ end' # "open"
  BY <1>2, OffLink
<1>3. CASE stream # <<>> /\ stream' = Tail(stream) /\ end' = end
  <2>1. /\ Len(stream) \in Nat \ {0} /\ Len(stream') = Len(stream) - 1 /\ Size' = Size
        /\ Size \in Nat
    BY <1>1, <1>3, SteadyFacts DEF Size
  <2>2. Nearer
    <3>1. Len(stream') \in Nat /\ Len(stream') < Len(stream)
      BY <2>1
    <3> QED BY <1>1, <3>1, Lowers
  <2>3. WholeInv'
    <3> SUFFICES ASSUME end = "open" PROVE WholeInv'
      BY <1>3 DEF WholeInv
    <3>1. Len(stream) = Size + 1 /\ call # NoCall /\ down = <<>>
      BY <1>1, <1>3 DEF Steady, WholeInv
    <3>2. Len(stream') = Size'
      BY <2>1, <3>1
    <3> QED BY <1>1, <3>1, <3>2 DEF WholeInv
  <2> QED BY <2>2, <2>3 DEF Advance
<1> QED BY <1>1, <1>2, <1>3

LEMMA HandledAdvance ==
    ASSUME Steady, Handled
    PROVE  Advance
<1>1. /\ pc = "handle" /\ cmd # "write" /\ UNCHANGED <<stream, call>>
      /\ (\E r : Served(r)) \/ LeftSilent \/ ServedOrphan
  BY DEF Handled, ps2
<1>2. stream = <<>> /\ stream' = <<>> /\ Len(stream') = Len(stream) /\ Len(stream') \in Nat
  BY <1>1, SteadyFacts, NoDataLeft
<1>3. CASE end # "open"
  <2>1. end' # "open"
    BY <1>1, <1>3 DEF Served, LeftSilent, ServedOrphan
  <2> QED BY <1>3, <2>1, OffLink
<1>4. CASE end = "open"
  <2>1. /\ pc' \in {"idle", "data"}
        /\ \/ cmd \in Silent /\ down' = down
           \/ \E r : Served(r)
    BY <1>1, <1>4 DEF Served, LeftSilent, ServedOrphan
  <2>2. Rank = 3 /\ Rank' < 3
    BY <1>1, <2>1 DEF Rank
  <2>3. Nearer
    BY <1>1, <1>2, <2>2, Lowers
  <2>4. cmd = call.op /\ down = <<>> /\ call # NoCall
    BY <1>1, <1>4, SteadyFacts DEF OpenInv
  <2>5. CASE cmd \in Silent /\ down' = down
    <3>1. /\ stream' = <<>> /\ call' = call /\ call # NoCall /\ down' = <<>>
          /\ call.op \in Silent /\ pc' \notin {"body", "handle", "write"}
      BY <1>1, <1>2, <2>1, <2>4, <2>5
    <3>2. WholeInv'
      BY <3>1 DEF WholeInv
    <3> QED BY <2>3, <3>2 DEF Advance
  <2>6. ASSUME NEW r, Served(r) PROVE WholeInv'
    <3>1. down' = <<Rly(cmd, r)>> /\ pc' = IF cmd = "read" /\ r > 0 THEN "data" ELSE "idle"
      BY <2>6 DEF Served
    <3>2. down' # <<>> /\ Head(down') = Rly(cmd, r)
      BY <3>1
    <3>3. Head(down').r = r
      BY <3>2 DEF Rly
    <3> QED BY <1>1, <1>2, <2>4, <3>1, <3>2, <3>3 DEF WholeInv
  <2> QED BY <2>1, <2>3, <2>5, <2>6 DEF Advance
<1> QED BY <1>3, <1>4

LEMMA DataAdvance ==
    ASSUME Steady, pko_send_bytes
    PROVE  Advance
<1>1. /\ pc = "data" /\ stream = <<>> /\ UNCHANGED <<stream, work, open, stored, ps2>>
      /\ \/ /\ end = "open" /\ end' = "open" /\ pc' = "idle"
            /\ down = <<Rly("read", bytes_left)>>
            /\ down' # <<>> /\ Head(down') = Head(down) /\ Len(down') = bytes_left + 1
         \/ end # "open" /\ end' # "open"
  BY SteadyFacts, DataSent
<1>2. CASE end # "open" /\ end' # "open"
  BY <1>2, OffLink
<1>3. CASE /\ end = "open" /\ end' = "open" /\ pc' = "idle"
           /\ down = <<Rly("read", bytes_left)>>
           /\ down' # <<>> /\ Head(down') = Head(down) /\ Len(down') = bytes_left + 1
  <2>1. Head(down).r = bytes_left
    <3>1. Head(down) = Rly("read", bytes_left)
      BY <1>3
    <3> QED BY <3>1 DEF Rly
  <2>2. Rank = 1 /\ Rank' = 0 /\ call' = call
    BY <1>1, <1>3 DEF Rank, ps2
  <2>3. Nearer
    BY <1>1, <2>2, SteadyFacts, Lowers
  <2>4. WholeInv'
    BY <1>1, <1>3, <2>1 DEF WholeInv
  <2> QED BY <2>3, <2>4 DEF Advance
<1> QED BY <1>1, <1>2, <1>3

LEMMA WriteAdvance ==
    ASSUME Steady, pko_write_file
    PROVE  Advance
<1>1. /\ pc = "handle" /\ cmd = "write" /\ pc' = "write" /\ UNCHANGED <<stream, end, down, call>>
  BY DEF pko_write_file, Handling, ps2
<1>2. CASE end # "open"
  BY <1>1, <1>2, OffLink
<1>3. CASE end = "open"
  <2>1. Rank = 3 /\ Rank' = 2
    BY <1>1 DEF Rank
  <2>2. Nearer
    BY <1>1, <2>1, SteadyFacts, Lowers
  <2>3. OpInv
    BY DEF Steady, IndInv, OpInv
  <2>4. bytes_left' = call.n /\ call.op = "write" /\ down = <<>> /\ call # NoCall
    <3>1. /\ cmd = call.op /\ down = <<>> /\ call \in Calls
          /\ Args = {[h |-> call.h, n |-> call.n]}
      BY <1>1, <1>3, <2>3, UpArgs
    <3>2. \E a \in Args : bytes_left' = a.n
      BY DEF pko_write_file
    <3> QED BY <1>1, <3>1, <3>2, CallFacts
  <2>5. Len(stream) = call.n
    BY <1>1, <1>3, <2>4 DEF Steady, WholeInv, Size
  <2>6. WholeInv'
    BY <1>1, <2>4, <2>5 DEF WholeInv
  <2> QED BY <2>2, <2>6 DEF Advance
<1> QED BY <1>2, <1>3

LEMMA SegmentAdvance ==
    ASSUME Steady, WriteSegment
    PROVE  Advance
<1> DEFINE n == read_bytes
<1>1. /\ pc = "write" /\ n > 0 /\ Len(stream) >= n
      /\ stream' = SubSeq(stream, n + 1, Len(stream)) /\ UNCHANGED <<end, down, call>>
  BY DEF WriteSegment, ps2
<1>2. /\ pc' \in {"write", "wrote"} /\ (pc' = "wrote" => stream' = <<>>)
      /\ stream' \in Seq(Items)
  BY SteadyFacts, SegmentFacts DEF Steady
<1>3. /\ bytes_left \in Nat /\ n \in Nat /\ n <= bytes_left
  BY <1>1, SteadyFacts, ServiceConstants DEF TypeOK, read_bytes
<1>4. pc' = "write" => bytes_left' = bytes_left - n
  <2>1. PICK w \in Written(fd, n) :
            /\ bytes_left' = Account(w)
            /\ pc' = IF w = n /\ bytes_left' > 0 THEN "write" ELSE "wrote"
    BY DEF WriteSegment
  <2>2. pc' = "write" => w = n
    BY <2>1
  <2> HIDE DEF n
  <2> QED BY <1>3, <2>1, <2>2 DEF Account
<1> HIDE DEF n
<1>5. Len(stream') = Len(stream) - n /\ Len(stream) \in Nat
  <2>1. stream \in Seq(Items) /\ n \in 0..Len(stream) /\ Len(stream) \in Nat
    BY <1>1, <1>3, SteadyFacts
  <2> QED BY <1>1, <2>1, SuffixFacts
<1>6. Nearer
  <2>1. Len(stream') \in Nat /\ Len(stream') < Len(stream)
    BY <1>1, <1>3, <1>5
  <2> QED BY <1>1, <2>1, Lowers
<1>7. WholeInv'
  <2> SUFFICES ASSUME end = "open" PROVE WholeInv'
    BY <1>1 DEF WholeInv
  <2>1. Len(stream) = bytes_left
    BY <1>1 DEF Steady, WholeInv
  <2>2. pc' = "write" => Len(stream') = bytes_left'
    BY <1>4, <1>5, <2>1
  <2>3. call # NoCall /\ down = <<>>
    BY <1>1, SteadyFacts DEF OpenInv
  <2> QED BY <1>1, <1>2, <2>2, <2>3 DEF WholeInv
<1> QED BY <1>6, <1>7 DEF Advance

LEMMA ReplyAdvance ==
    ASSUME Steady, WriteBreaks \/ WriteReply
    PROVE  Advance
<1>1. CASE WriteBreaks
  <2>1. /\ pc = "write" /\ pc' = "wrote" /\ stream' = <<>> /\ UNCHANGED <<down, call>>
        /\ (end' = "open") = (end = "open")
    BY <1>1, SteadyFacts, BreakFacts DEF ps2
  <2>2. CASE end # "open"
    BY <2>1, <2>2, OffLink
  <2>3. CASE end = "open"
    <3>1. call # NoCall /\ down = <<>>
      BY <2>1, <2>3, SteadyFacts DEF OpenInv
    <3>2. WholeInv'
      BY <2>1, <3>1 DEF WholeInv
    <3>3. Rank = 2 /\ Rank' = 1
      BY <2>1 DEF Rank
    <3>4. Len(stream') = 0 /\ Len(stream) \in Nat
      BY <2>1, SteadyFacts
    <3>5. Nearer
      BY <2>1, <3>3, <3>4, Lowers
    <3> QED BY <3>2, <3>5 DEF Advance
  <2> QED BY <2>2, <2>3
<1>2. CASE WriteReply
  <2>1. /\ pc = "wrote" /\ UNCHANGED <<stream, call>> /\ stream = <<>>
        /\ \/ /\ end = "open" /\ end' = "open" /\ pc' = "idle"
              /\ down' = <<Rly("write", nbytes - bytes_left)>> /\ call.op = "write"
           \/ end # "open" /\ end' # "open"
    BY <1>2, SteadyFacts, WriteReplied DEF ps2
  <2>2. CASE end # "open" /\ end' # "open"
    BY <2>2, OffLink
  <2>3. CASE /\ end = "open" /\ end' = "open" /\ pc' = "idle"
             /\ down' = <<Rly("write", nbytes - bytes_left)>> /\ call.op = "write"
    <3>1. down' # <<>>
      BY <2>3
    <3>2. WholeInv'
      BY <2>1, <2>3, <3>1 DEF WholeInv
    <3>3. Rank = 1 /\ Rank' = 0
      BY <2>1, <2>3 DEF Rank
    <3>4. Nearer
      BY <2>1, <3>3, SteadyFacts, Lowers
    <3> QED BY <3>2, <3>4 DEF Advance
  <2> QED BY <2>1, <2>2, <2>3
<1> QED BY <1>1, <1>2

LEMMA LinkAdvance ==
    ASSUME Steady, RecvError \/ RecvEof \/ Reconnect \/ ToolTraffic \/ Take
    PROVE  Advance
<1>1. CASE RecvError \/ RecvEof
  <2>1. end # "open" /\ end' # "open"
    BY <1>1 DEF RecvError, RecvEof, RecvEnds
  <2> QED BY <2>1, OffLink
<1>2. CASE Reconnect
  <2>1. end # "open" /\ stream = <<>> /\ down = <<>> /\ call = NoCall
    BY <1>2, SteadyFacts DEF Reconnect, FrameInv, DownInv
  <2>2. UNCHANGED <<stream, down, call>> /\ pc' = "idle"
    BY <1>2 DEF Reconnect, ps2
  <2> QED BY <2>1, <2>2 DEF Advance, WholeInv, Nearer
<1>3. CASE ToolTraffic
  <2>1. UNCHANGED <<stream, end, down, pc, bytes_left, call>>
    BY <1>3 DEF ToolTraffic, ps2
  <2> QED BY <2>1 DEF Steady, Advance, WholeInv, Nearer, Size
<1>4. CASE Take
  <2>1. /\ down # <<>> /\ end = "open" /\ call' = NoCall /\ down' = <<>>
        /\ UNCHANGED <<stream, pc>>
    BY <1>4 DEF Take
  <2>2. stream = <<>> /\ pc \in {"idle", "data"}
    BY <2>1, SteadyFacts DEF Steady, WholeInv, DownInv
  <2> QED BY <2>1, <2>2 DEF Advance, WholeInv, Nearer
<1> QED BY <1>1, <1>2, <1>3, <1>4

LEMMA CallAdvance ==
    ASSUME Steady,
           \/ \E c \in Calls : Make(c)
           \/ \E how \in {"eof", "reset"}, keep \in 0..Len(stream) : Lose(how, keep)
    PROVE  Advance
<1>1. ASSUME NEW c \in Calls, Make(c) PROVE Advance
  <2>1. /\ end = "open" /\ call = NoCall /\ call' = c /\ stream' = stream \o Wire(c)
        /\ UNCHANGED <<end, down, pc>>
    BY <1>1 DEF Make
  <2>2. stream = <<>> /\ down = <<>> /\ pc = "idle"
    BY <2>1, SteadyFacts DEF Steady, WholeInv, OpenInv
  <2>3. stream' = Wire(c) /\ stream' # <<>>
    BY <1>1, <2>2, MakeFacts DEF Steady
  <2>4. Len(stream') = 2 + Size'
    BY <2>1, <2>3, WireFacts DEF Size
  <2>5. Size' \in Nat /\ c # NoCall
    BY <2>1, CallFacts, ServiceConstants DEF Size
  <2>6. Len(stream') = Size' + 2
    BY <2>4, <2>5
  <2> QED BY <2>1, <2>2, <2>3, <2>5, <2>6 DEF Advance, WholeInv, Nearer
<1>2. ASSUME NEW how \in {"eof", "reset"}, NEW keep \in 0..Len(stream), Lose(how, keep)
      PROVE  Advance
  BY <1>2 DEF Lose, Advance, WholeInv, Nearer
<1> QED BY <1>1, <1>2

LEMMA ServiceAdvance ==
    ASSUME Steady, Next
    PROVE  Advance
<1>1. Steps
  BY NextSteps DEF Steady, IndInv, OpInv
<1> QED BY <1>1, HeaderAdvance, BodyAdvance, HandledAdvance, DataAdvance, WriteAdvance,
           SegmentAdvance, ReplyAdvance, LinkAdvance, CallAdvance DEF Steps

LEMMA SteadyInvariant ==
    ASSUME WriteFails # "any"
    PROVE  Spec => []Steady
<1>1. Init => WholeInv
  BY DEF Init, WholeInv
<1>2. Steady /\ [Next]_vars => WholeInv'
  <2> SUFFICES ASSUME Steady, [Next]_vars PROVE WholeInv'
    OBVIOUS
  <2>1. CASE Next
    BY <2>1, ServiceAdvance DEF Advance
  <2>2. CASE UNCHANGED vars
    <3>1. UNCHANGED <<stream, end, down, pc, bytes_left, call>>
      BY <2>2 DEF vars, work, ps2
    <3> QED BY <3>1 DEF Steady, WholeInv, Size
  <2> QED BY <2>1, <2>2
<1>3. IndInv /\ WholeInv <=> Steady
  BY DEF Steady
<1> QED BY <1>1, <1>2, <1>3, ServiceInvariant, PTL DEF Spec

\* If write() on the host fails in the last segment only, pksh and ps2link never
\* wait for each other: while ps2link waits for an answer, pko_srv_read() and its
\* handlers are not in a receive for which the stream has too little, and an
\* answer that was sent is whole; but for the handlers that return without one.
THEOREM ServiceNoMutualWait == WriteFails # "any" => (Spec => []NoMutualWait)
<1> SUFFICES ASSUME WriteFails # "any" PROVE Spec => []NoMutualWait
  OBVIOUS
<1>1. Steady => NoMutualWait
  <2> SUFFICES ASSUME Steady, call # NoCall PROVE NoMutualWait
    BY DEF NoMutualWait
  <2>1. /\ end = "open" /\ pc \in {"idle", "body", "handle", "write", "wrote", "data"}
    BY SteadyFacts DEF OpenInv
  <2>2. CASE pc \in {"handle", "wrote", "data"}
    BY <2>2 DEF NoMutualWait, AtWork
  <2>3. CASE pc = "body"
    <3>1. Len(stream) = Size + 1 /\ Size \in Nat
      BY <2>1, <2>3, SteadyFacts DEF Steady, WholeInv
    <3>2. stream # <<>>
      BY <3>1
    <3> QED BY <2>3, <3>2 DEF NoMutualWait, AtWork
  <2>4. CASE pc = "write"
    <3>1. Len(stream) = bytes_left
      BY <2>1, <2>4 DEF Steady, WholeInv
    <3>2. Len(stream) >= read_bytes
      BY <2>4, <3>1, SteadyFacts, ServiceConstants DEF TypeOK, read_bytes
    <3> QED BY <2>4, <3>2 DEF NoMutualWait, AtWork
  <2>5. CASE pc = "idle"
    <3>1. CASE stream # <<>>
      BY <2>5, <3>1 DEF NoMutualWait, AtWork
    <3>2. CASE stream = <<>>
      <4>1. /\ down # <<>> \/ call.op \in Silent
            /\ down # <<>> /\ call.op = "read" /\ Head(down).r > 0 =>
                  Len(down) = Head(down).r + 1
        BY <2>1, <2>5, <3>2 DEF Steady, WholeInv
      <4>2. down # <<>> => Head(down).op = call.op
        BY SteadyFacts DEF DownInv
      <4> QED BY <2>5, <3>2, <4>1, <4>2 DEF NoMutualWait, Delivered
    <3> QED BY <3>1, <3>2
  <2> QED BY <2>1, <2>2, <2>3, <2>4, <2>5
<1> QED BY <1>1, SteadyInvariant, PTL

\* Then, too, every step while ps2link waits, of pksh or of anyone, ends the wait,
\* lowers a number that is never below zero, or leaves the request alone: the
\* loops of pko_srv_read() and pko_write_file() come to a reply, for every number
\* and size of segments.
THEOREM ServiceComesNearer == WriteFails # "any" => (Spec => [][Nearer]_vars)
<1> SUFFICES ASSUME WriteFails # "any" PROVE Spec => [][Nearer]_vars
  OBVIOUS
<1>1. Steady /\ [Next]_vars => [Nearer]_vars
  <2> SUFFICES ASSUME Steady, Next PROVE Nearer
    OBVIOUS
  <2> QED BY ServiceAdvance DEF Advance
<1> QED BY <1>1, SteadyInvariant, PTL DEF Spec
=============================================================================
