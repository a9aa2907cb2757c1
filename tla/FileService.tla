----------------------------- MODULE FileService -----------------------------
(***************************************************************************)
(* The file service of pksh: what pko_srv_read() does with one fileio      *)
(* request of ps2link, over the TCP stream that carries it.                *)
(*                                                                         *)
(* A request is a header, a body with its arguments and, for a write, the  *)
(* data.  The stream has no record boundaries: what pksh takes for a       *)
(* header is whatever comes next, and what it takes for the arguments is   *)
(* whatever recv_packet holds, since the result of the receive that should *)
(* fill it is not looked at.  The link may be lost at any point of this.   *)
(*                                                                         *)
(* ps2link and the kernel's sockets are external.  ps2link makes one       *)
(* request at a time, uses handles it was given, and is reset when the     *)
(* link is lost; it then holds no handle.                                  *)
(***************************************************************************)
EXTENDS Integers, Sequences

CONSTANTS
    Handles,       \* descriptors open() may return for host: files
    Dirs,          \* DIR pointers opendir() may return
    Segment,       \* PACKET_MAXSIZE: the data one receive of a write takes
    MaxBytes,      \* the largest read or write ps2link asks for
    WriteFails,    \* where write() on the host may fail or store less than
                   \* asked: "never", in the "last" segment, in "any"
    Silent         \* handlers whose failure without a reply is exercised:
                   \* opendir() in "dopen", malloc() in "read"

NoFd == -1
OwnFd == -2        \* any descriptor that is pksh's own: a socket, the log

ASSUME ServiceConstants ==
    /\ Handles \subseteq Nat /\ Dirs \subseteq Nat /\ Handles \cap Dirs = {}
    /\ Segment \in Nat \ {0} /\ MaxBytes \in Nat \ {0}
    /\ WriteFails \in {"never", "last", "any"}
    /\ Silent \subseteq {"dopen", "read"}

FileOps == {"close", "read", "write", "lseek"}
DirOps == {"dread", "dclose"}
Ops == {"open", "dopen"} \cup FileOps \cup DirOps

VARIABLES
    stream,        \* what is on its way from ps2link and not yet received
    end,           \* of the stream: "open", "eof" (closed by the peer),
                   \* "reset" (by TCP, not yet noticed), "dead" (noticed)
    down,          \* replies and file data on their way to ps2link
    pc,            \* where pko_srv_read is: "idle", "body", "handle",
                   \* "write", "wrote", "data", "away"; or "lost" (data taken for a
                   \* header), "killed" (SIGPIPE), "undefined"
    cmd,           \* the command of the header it has received
    recv_packet,   \* the arguments in the buffer, or Junk
    own,           \* they came with that header
    fd, nbytes, bytes_left,   \* locals of pko_write_file and pko_read_file
    open,          \* files and directories open for ps2link
    stored,        \* the data of the current request that reached the file
    call, held     \* ps2link: its request, and the handles it may use

ps2  == <<call, held>>
work == <<cmd, recv_packet, own, fd, nbytes, bytes_left>>
vars == <<stream, end, down, pc, work, open, stored, ps2>>

NoCall == [op |-> "none", h |-> NoFd, n |-> 0]
Junk == [h |-> NoFd, n |-> -1]

Calls ==
    [op : {"open", "dopen"}, h : {NoFd}, n : {0}]
      \cup [op : {"close", "lseek", "dread", "dclose"}, h : Handles \cup Dirs, n : {0}]
      \cup [op : {"read", "write"}, h : Handles, n : 0..MaxBytes]

Units(n) == [k \in 1..n |-> k]

Hdr(c) == [t |-> "hdr", op |-> c.op, h |-> NoFd, n |-> 0]
Body(c) == [t |-> "body", op |-> "none", h |-> c.h, n |-> c.n]
Data(k) == [t |-> "data", op |-> "none", h |-> NoFd, n |-> k]
Rly(op, r) == [t |-> "rly", op |-> op, r |-> r]
Sent(n) == [k \in 1..n |-> [t |-> "data", op |-> "none", r |-> k]]

Wire(c) ==
    <<Hdr(c), Body(c)>>
      \o (IF c.op = "write" THEN [k \in 1..c.n |-> Data(k)] ELSE <<>>)

Init ==
    /\ stream = <<>> /\ end = "open" /\ down = <<>> /\ pc = "idle"
    /\ cmd = "none" /\ recv_packet = Junk /\ own = TRUE
    /\ fd = NoFd /\ nbytes = 0 /\ bytes_left = 0
    /\ open = {} /\ stored = <<>> /\ call = NoCall /\ held = {}

-----------------------------------------------------------------------------
(* ps2link and the link.                                                   *)

\* A close gives the handle up before it is answered.  The instance's bound
\* on DIR pointers is not a failure of opendir().
Make(c) ==
    /\ end = "open" /\ call = NoCall
    /\ c.op \in FileOps => c.h \in held \cap Handles
    /\ c.op \in DirOps => c.h \in held \cap Dirs
    /\ c.op = "dopen" => Dirs \ open # {}
    /\ call' = c
    /\ held' = IF c.op \in {"close", "dclose"} THEN held \ {c.h} ELSE held
    /\ stream' = stream \o Wire(c) /\ stored' = <<>>
    /\ UNCHANGED <<end, down, pc, work, open>>

\* ps2link has the whole answer: a reply and, for a read, its data.
Take ==
    /\ end = "open" /\ down # <<>>
    /\ LET r == Head(down).r IN
       /\ Head(down).op = "read" /\ r > 0 => Len(down) = r + 1
       /\ held' = IF Head(down).op \in {"open", "dopen"} /\ r # NoFd
                  THEN held \cup {r} ELSE held
    /\ call' = NoCall /\ down' = <<>>
    /\ UNCHANGED <<stream, end, pc, work, open, stored>>

\* The PS2 is reset or the network fails: only the first keep items of what
\* it has sent will arrive.
Lose(how, keep) ==
    /\ end = "open" /\ pc # "away"
    /\ end' = how
    /\ stream' = SubSeq(stream, 1, keep) /\ down' = <<>>
    /\ call' = NoCall /\ held' = {}
    /\ UNCHANGED <<pc, work, open, stored>>

-----------------------------------------------------------------------------
(* Receiving and sending.                                                  *)

\* pko_recv_bytes returned 0, or a negative number for the reset it noticed.
RecvEnds == end # "open" /\ end' = (IF end = "reset" THEN "dead" ELSE end)

\* send() of a reply: delivered; lost; refused, noticing a reset; or, once
\* the reset was noticed, the death of the process by SIGPIPE.
Send(items, next) ==
    \/ end = "open" /\ down' = down \o items /\ pc' = next /\ UNCHANGED end
    \/ end = "eof" /\ end' \in {"eof", "reset"} /\ pc' = next /\ UNCHANGED down
    \/ end = "reset" /\ end' = "dead" /\ pc' = next /\ UNCHANGED down
    \/ end = "dead" /\ pc' = "killed" /\ UNCHANGED <<end, down>>

Reply(r) == Send(<<Rly(cmd, r)>>, "idle")

\* The header: the next thing in the stream, whatever it is.
RecvHeader ==
    /\ pc = "idle" /\ stream # <<>>
    /\ LET x == Head(stream) IN
       \/ x.t = "hdr" /\ pc' = "body" /\ cmd' = x.op
       \/ x.t # "hdr" /\ pc' = "lost" /\ UNCHANGED cmd
    /\ stream' = Tail(stream)
    /\ UNCHANGED <<end, down, recv_packet, own, fd, nbytes, bytes_left, open,
                   stored, ps2>>

\* A negative result is ignored; the next receive returns 0.
RecvError ==
    /\ pc = "idle" /\ stream = <<>> /\ end = "reset"
    /\ RecvEnds
    /\ UNCHANGED <<stream, down, pc, work, open, stored, ps2>>

RecvEof ==
    /\ pc = "idle" /\ stream = <<>> /\ end \in {"eof", "dead"}
    /\ pc' = "away"
    /\ UNCHANGED <<stream, end, down, work, open, stored, ps2>>

\* The reconnect loop of pko_srv_read has a new connection.
Reconnect ==
    /\ pc = "away"
    /\ pc' = "idle" /\ end' = "open"
    /\ UNCHANGED <<stream, down, work, open, stored, ps2>>

\* Mutant: the buffer keeps the arguments of the request before.
M_RecvBody ==
    /\ pc = "body"
    /\ \/ /\ stream # <<>>
          /\ own' = TRUE /\ stream' = Tail(stream)
          /\ UNCHANGED end
       \/ /\ stream = <<>> /\ RecvEnds
          /\ own' = FALSE /\ UNCHANGED stream
    /\ pc' = "handle"
    /\ UNCHANGED <<down, cmd, recv_packet, fd, nbytes, bytes_left, open, stored,
                   ps2>>

\* The arguments.  If the link is lost here the handler runs all the same, on
\* what an earlier packet left in recv_packet.
RecvBody ==
    /\ pc = "body"
    /\ \/ /\ stream # <<>>
          /\ recv_packet' = [h |-> Head(stream).h, n |-> Head(stream).n]
          /\ own' = TRUE /\ stream' = Tail(stream)
          /\ UNCHANGED end
       \/ /\ stream = <<>> /\ RecvEnds
          /\ own' = FALSE /\ UNCHANGED <<stream, recv_packet>>
    /\ pc' = "handle"
    /\ UNCHANGED <<down, cmd, fd, nbytes, bytes_left, open, stored, ps2>>

\* A request of a batch tool goes through the same buffer.
ToolTraffic ==
    /\ pc = "idle" /\ recv_packet # Junk
    /\ recv_packet' = Junk
    /\ UNCHANGED <<stream, end, down, pc, cmd, own, fd, nbytes, bytes_left, open,
                   stored, ps2>>

-----------------------------------------------------------------------------
(* The handlers.  Junk in the buffer may read as any argument.             *)

Args == IF recv_packet # Junk THEN {recv_packet}
        ELSE [h : Handles \cup Dirs \cup {NoFd, OwnFd}, n : 0..MaxBytes]

Handling(op) == pc = "handle" /\ cmd = op

\* The file itself, or one found along the search path, or none.
pko_open_file ==
    /\ Handling("open")
    /\ \E r \in (Handles \ open) \cup {NoFd} :
          open' = open \cup ({r} \ {NoFd}) /\ Reply(r)
    /\ UNCHANGED <<stream, work, stored, ps2>>

\* opendir() that fails returns from the handler without a reply.
pko_open_dir ==
    /\ Handling("dopen")
    /\ \/ \E r \in Dirs \ open : open' = open \cup {r} /\ Reply(r)
       \/ /\ "dopen" \in Silent
          /\ pc' = "idle" /\ UNCHANGED <<open, end, down>>
    /\ UNCHANGED <<stream, work, stored, ps2>>

\* close() of one of pksh's own descriptors takes the event loop down.
pko_close_file ==
    /\ Handling("close")
    /\ \E a \in Args :
         \/ a.h # OwnFd /\ open' = open \ ({a.h} \cap Handles)
            /\ Reply(IF a.h \in open \cap Handles THEN 0 ELSE -1)
         \/ a.h = OwnFd /\ pc' = "undefined" /\ UNCHANGED <<open, end, down>>
    /\ UNCHANGED <<stream, work, stored, ps2>>

\* closedir() and readdir() of something that is not an open directory.
pko_close_dir ==
    /\ Handling("dclose")
    /\ \E a \in Args :
         \/ a.h \in open \cap Dirs /\ open' = open \ {a.h} /\ Reply(0)
         \/ a.h \notin open \cap Dirs /\ pc' = "undefined"
            /\ UNCHANGED <<open, end, down>>
    /\ UNCHANGED <<stream, work, stored, ps2>>

\* An entry (1), or 0 at the end of the directory.
pko_read_dir ==
    /\ Handling("dread")
    /\ \E a \in Args :
         \/ a.h \in open \cap Dirs /\ \E r \in {0, 1} : Reply(r)
         \/ a.h \notin open \cap Dirs /\ pc' = "undefined"
            /\ UNCHANGED <<end, down>>
    /\ UNCHANGED <<stream, work, open, stored, ps2>>

pko_lseek_file ==
    /\ Handling("lseek")
    /\ \E r \in {-1, 0} : Reply(r)
    /\ UNCHANGED <<stream, work, open, stored, ps2>>

\* Mutant: as much is sent as was asked for, not as was read.
M_ToSend(n, readbytes) == n

ToSend(n, readbytes) == readbytes

\* The reply tells how much was read; the data is sent apart.
pko_read_file ==
    /\ Handling("read")
    /\ \/ \E a \in Args : \E r \in -1..a.n :
             /\ a.h \notin open => r = -1
             /\ Send(<<Rly(cmd, r)>>, IF r > 0 THEN "data" ELSE "idle")
             /\ bytes_left' = ToSend(a.n, r)
       \/ /\ "read" \in Silent
          /\ pc' = "idle" /\ UNCHANGED <<bytes_left, end, down>>
    /\ UNCHANGED <<stream, cmd, recv_packet, own, fd, nbytes, open, stored, ps2>>

pko_send_bytes ==
    /\ pc = "data"
    /\ Send(Sent(bytes_left), "idle")
    /\ UNCHANGED <<stream, work, open, stored, ps2>>

\* pko_write_file up to its loop.
pko_write_file ==
    /\ Handling("write")
    /\ \E a \in Args : fd' = a.h /\ nbytes' = a.n /\ bytes_left' = a.n
    /\ pc' = "write"
    /\ UNCHANGED <<stream, end, down, cmd, recv_packet, own, open, stored, ps2>>

\* Mutant: an off-by-one in the last segment.
M_read_bytes == IF bytes_left > Segment THEN Segment ELSE bytes_left - 1

read_bytes == IF bytes_left > Segment THEN Segment ELSE bytes_left

\* What write() may return for a segment.
Written(f, n) ==
    IF f \notin open \cap Handles THEN {-1}
    ELSE IF WriteFails = "any" \/ (WriteFails = "last" /\ n = bytes_left)
         THEN -1..n ELSE {n}

\* Mutants: what the host did not take is counted as written; the -1 of a
\* failed write() is.
M_AccountAll(w) == bytes_left - read_bytes

M_AccountFailed(w) == bytes_left - w

Account(w) == IF w < 0 THEN bytes_left ELSE bytes_left - w

\* Mutant: every segment is written from the start of the data.
M_Chunk(w) == Units(w)

Chunk(w) == [k \in 1..w |-> stream[k].n]

\* One turn of the loop: receive a segment, into recv_packet, and write it.
\* The loop ends when write() fails or falls short, with the rest of the data
\* still in the stream.
WriteSegment ==
    /\ pc = "write" /\ read_bytes > 0 /\ Len(stream) >= read_bytes
    /\ stream' = SubSeq(stream, read_bytes + 1, Len(stream))
    /\ recv_packet' = Junk
    /\ \E w \in Written(fd, read_bytes) :
          /\ stored' = stored \o Chunk(w)
          /\ bytes_left' = Account(w)
          /\ pc' = IF w = read_bytes /\ bytes_left' > 0 THEN "write" ELSE "wrote"
    /\ UNCHANGED <<end, down, cmd, own, fd, nbytes, open, ps2>>

\* The receive returns 0, for want of anything to receive, or the link ends
\* inside the segment: what arrived of it is dropped.
WriteBreaks ==
    /\ pc = "write"
    /\ \/ read_bytes = 0 /\ UNCHANGED <<stream, end, recv_packet>>
       \/ /\ Len(stream) < read_bytes /\ RecvEnds
          /\ stream' = <<>>
          /\ recv_packet' = IF stream = <<>> THEN recv_packet ELSE Junk
    /\ pc' = "wrote"
    /\ UNCHANGED <<down, cmd, own, fd, nbytes, bytes_left, open, stored, ps2>>

\* Mutant: a write that stored nothing returns without a reply.
M_WriteReply ==
    /\ pc = "wrote"
    /\ IF bytes_left = nbytes THEN pc' = "idle" /\ UNCHANGED <<end, down>>
                              ELSE Reply(nbytes - bytes_left)
    /\ UNCHANGED <<stream, work, open, stored, ps2>>

WriteReply ==
    /\ pc = "wrote"
    /\ Reply(nbytes - bytes_left)
    /\ UNCHANGED <<stream, work, open, stored, ps2>>

-----------------------------------------------------------------------------
Serve ==
    \/ RecvHeader \/ RecvError \/ RecvEof \/ RecvBody
    \/ pko_open_file \/ pko_open_dir \/ pko_close_file \/ pko_close_dir
    \/ pko_read_dir \/ pko_lseek_file \/ pko_read_file \/ pko_send_bytes
    \/ pko_write_file \/ WriteSegment \/ WriteBreaks \/ WriteReply

Next ==
    \/ Serve \/ Reconnect \/ ToolTraffic
    \/ \E c \in Calls : Make(c)
    \/ Take
    \/ \E how \in {"eof", "reset"}, keep \in 0..Len(stream) : Lose(how, keep)

Spec == Init /\ [][Next]_vars

\* pksh runs, and ps2link takes the answer it waits for.
FairSpec == Spec /\ WF_vars(Serve) /\ WF_vars(Take)

-----------------------------------------------------------------------------
(* Properties.                                                             *)

Items == [t : {"hdr", "body", "data"}, op : Ops \cup {"none"},
          h : Handles \cup Dirs \cup {NoFd}, n : 0..MaxBytes]

Replies == [t : {"rly", "data"}, op : Ops \cup {"none"},
            r : Handles \cup Dirs \cup -1..MaxBytes]

\* Every variable stays in its range: pko_write_file's count of what is left
\* never exceeds what was asked for, nor falls below zero.
TypeOK ==
    /\ stream \in Seq(Items) /\ down \in Seq(Replies)
    /\ end \in {"open", "eof", "reset", "dead"}
    /\ pc \in {"idle", "body", "handle", "write", "wrote", "data", "away",
               "lost", "killed", "undefined"}
    /\ cmd \in Ops \cup {"none"}
    /\ recv_packet \in [h : Handles \cup Dirs \cup {NoFd}, n : -1..MaxBytes]
    /\ own \in BOOLEAN
    /\ fd \in Handles \cup Dirs \cup {NoFd, OwnFd}
    /\ nbytes \in 0..MaxBytes /\ bytes_left \in -1..MaxBytes
    /\ pc \in {"write", "wrote"} => bytes_left \in 0..nbytes
    /\ open \subseteq Handles \cup Dirs /\ held \subseteq Handles \cup Dirs
    /\ stored \in Seq(1..MaxBytes)
    /\ call \in Calls \cup {NoCall}

\* pko_srv_read never takes write data or arguments for a header: between two
\* requests the stream is empty or starts with one, wherever the link was
\* lost.  It holds as long as a write() on the host only fails in the last
\* segment of the data: in an earlier one pko_write_file leaves the rest of
\* the data in the stream.
FrameKept ==
    /\ pc # "lost"
    /\ pc = "idle" /\ stream # <<>> => Head(stream).t = "hdr"

\* At most one reply is on its way, it answers the request ps2link waits on,
\* and no file data is sent but what the reply announced.
OneReply ==
    down # <<>> =>
      /\ Head(down).t = "rly" /\ Head(down).op = call.op
      /\ \A k \in 2..Len(down) : down[k].t = "data"
      /\ Len(down) = 1 \/ Len(down) = Head(down).r + 1

\* WRITE_RLY tells how much of the data is in the file, and what is in the
\* file is the beginning of what was sent, in order, over all segments.
WriteAccounted ==
    down # <<>> /\ Head(down).op = "write" =>
      stored = Units(Head(down).r) /\ Head(down).r <= call.n

\* A handle ps2link was given stays open until it closes it: no request that
\* broke off earlier, here or before a reconnect, closes it under it.
HeldOpen == held \subseteq open

\* While the link is up a handler works on its own request's arguments, and
\* no close(), readdir() or closedir() goes astray; after the loss of the link
\* inside a request it may (pko_srv_read ignores the result of the receive).
OnlyOrphansGoAstray ==
    end = "open" => /\ pc # "undefined"
                    /\ pc \in {"handle", "write", "wrote", "data"} => own

\* Every request of ps2link is answered or the link is lost, unless the handler
\* left before its reply (a directory that cannot be opened, a buffer that
\* cannot be allocated): then it has taken the whole request and pksh waits
\* for the next.
Answered ==
    call # NoCall ~>
        (call = NoCall \/ (call.op \in Silent /\ pc = "idle" /\ stream = <<>>))

-----------------------------------------------------------------------------
(* The service implements FileRpc.                                         *)

Rpc == INSTANCE FileRpc WITH
    answer <- IF down = <<>> THEN [op |-> "none", r |-> -1]
              ELSE [op |-> Head(down).op, r |-> Head(down).r],
    stored <- IF pc \in {"write", "wrote"} THEN <<>> ELSE stored,
    up     <- end = "open",
    owed   <- /\ end # "open"
              /\ \/ pc \in {"body", "handle", "write", "wrote"}
                 \/ pc = "idle" /\ stream # <<>>

\* With the wire hidden, a request is one step: carried out once, and its
\* reply tells what was done; the one a lost link interrupts at most once.
ImplementsRpc == Rpc!Spec

=============================================================================
