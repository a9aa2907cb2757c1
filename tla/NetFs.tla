-------------------------------- MODULE NetFs --------------------------------
(***************************************************************************)
(* The PS2NetFS commands of the shell: cp, ls and the commands of a single *)
(* request (pksh.c), over the requests of netfsproto_core.c.               *)
(*                                                                         *)
(* A request is sent and its reply awaited by ps2netfs_accept_pkt, which   *)
(* returns 1, 0 for a packet it does not accept and -1 for the end of the  *)
(* stream; its callers take everything but 0 for success and then read the *)
(* result out of recv_packet, whatever that holds.  The server on the PS2  *)
(* and the kernel's sockets are external: the server may go away, refuse,  *)
(* take less than it was offered, or answer with another packet or one     *)
(* that is too long.                                                       *)
(***************************************************************************)
EXTENDS Integers, Sequences

CONSTANTS
    Chunk,      \* sizeof(buffer) of cli_copy
    MaxSize,    \* the largest file copied, and the longest directory
    Faults,     \* subset of {"die", "short", "wrong", "long"}: what the server
                \* does
    Jobs        \* the commands the user types

\* The commands of one request: "one" stands for those that are sent as they
\* should be (devlist, mkdir, rmdir, ps2mount), "remove" is rm.
Single == {"one", "remove", "format", "sync", "umount"}

ASSUME NetFsConstants ==
    /\ Chunk \in Nat \ {0} /\ MaxSize \in Nat
    /\ Faults \subseteq {"die", "short", "wrong", "long"}
    /\ Jobs \subseteq {"get", "put", "ls"} \cup Single

VARIABLES
    conn,       \* ps2_netfs_fd: "none" (-1), "up", "eof", "closing" (written
                \* to since), "reset" (not yet noticed), "dead" (noticed)
    req,        \* the request the server has, or NoReq
    down,       \* the reply, and file data, on their way back
    recv_packet, \* type and result of the packet last left in the buffer
    job, at,    \* the command and the request it has come to, or "idle",
                \* "hung" (a receive on descriptor -1), "killed" (SIGPIPE)
    phase,      \* of that request: "run", "wait", "ret"
    ret,        \* its result, as the caller sees it
    fresh,      \* ret came in this request's own reply
    outcome,    \* of the command: "none", "ok", "failed"
    size, total, off, buffer,   \* cli_copy's locals; off: read of fd0
    fd,         \* cli_list's: the directory
    len,        \* the length of the file, or directory, the command is on
    pos,        \* the server's position in it
    dst,        \* what was written to the destination, in order
    old,        \* the length the destination had: it is not truncated
    spilt       \* in this cp the server, or the local disk, gave or took less
                \* than the piece it was asked for

net   == <<conn, req, down, recv_packet>>
locs  == <<size, total, off, buffer, fd>>
file  == <<len, pos, dst, old, spilt>>
vars  == <<net, job, at, phase, ret, fresh, outcome, locs, file>>

NoReq == [op |-> "none", data |-> <<>>, form |-> "whole"]
Rly(op, r) == [t |-> "rly", op |-> op, r |-> r]
Data(k) == [t |-> "data", op |-> "none", r |-> k]

Units(n) == [k \in 1..n |-> k]
Less(a, b) == IF a < b THEN a ELSE b

Init ==
    /\ conn = "none" /\ req = NoReq /\ down = <<>>
    /\ recv_packet = [op |-> "none", r |-> 0]
    /\ job = "one" /\ at = "idle" /\ phase = "run" /\ ret = 0 /\ fresh = TRUE
    /\ outcome = "none"
    /\ size = 0 /\ total = 0 /\ off = 0 /\ buffer = [k \in 1..Chunk |-> 0]
    /\ fd = 0
    /\ len = 0 /\ pos = 0 /\ dst = <<>> /\ old = 0 /\ spilt = FALSE

-----------------------------------------------------------------------------
(* A command: from the request in hand to the next.                        *)

First(j) == CASE j \in {"get", "put"} -> "open"
              [] j = "ls" -> "dopen"
              [] OTHER -> "one"

\* The connection is opened if there is none; that may fail, and so may the
\* open() of cp's local file.  Neither side truncates cp's destination, which
\* keeps what it has of o units until it is written over.
Start(j, n, o) ==
    /\ at = "idle"
    /\ (n > 0 => j \in {"get", "put", "ls"}) /\ (o > 0 => j \in {"get", "put"})
    /\ job' = j /\ len' = n /\ pos' = 0 /\ dst' = <<>>
    /\ old' = o /\ spilt' = FALSE
    /\ total' = 0 /\ off' = 0 /\ fd' = 0
    /\ size' = IF j = "put" THEN n ELSE 0
    /\ \/ /\ conn' = IF conn = "none" THEN "up" ELSE conn
          /\ at' = First(j) /\ phase' = "run" /\ outcome' = "none"
       \/ /\ conn = "none" /\ UNCHANGED <<conn, at, phase>>
          /\ outcome' = "failed"
       \/ /\ j \in {"get", "put"}
          /\ conn' = IF conn = "none" THEN "up" ELSE conn
          /\ outcome' = "failed" /\ UNCHANGED <<at, phase>>
    /\ UNCHANGED <<req, down, recv_packet, ret, fresh, buffer>>

Ends(o) == at' = "idle" /\ phase' = "run" /\ outcome' = o

Goes(next) == at' = next /\ phase' = "run" /\ UNCHANGED outcome

Returned(p) == phase = "ret" /\ at = p

\* cp, once the file on the PS2 is open: a refusal ends it.
OpenReturns ==
    /\ Returned("open")
    /\ \/ ret < 0 /\ Ends("failed")
       \/ ret >= 0 /\ job = "get" /\ Goes("end")
       \/ ret >= 0 /\ job = "put" /\ Goes(IF total < size THEN "write" ELSE "close")
    /\ UNCHANGED <<net, job, ret, fresh, locs, file>>

\* The two lseek()s that find the size of the file to fetch.
SeekReturns ==
    /\ at \in {"end", "set"} /\ phase = "ret"
    /\ size' = IF at = "end" THEN ret ELSE size
    /\ Goes(IF at = "end" THEN "set" ELSE IF size > 0 THEN "read" ELSE "close")
    /\ UNCHANGED <<net, job, ret, fresh, total, off, buffer, fd, file>>

\* Mutant: whole buffers are written, the last one too.
M_Fetched == buffer

Fetched == SubSeq(buffer, 1, Less(size, Chunk))

\* The result of the read is not looked at: the buffer is written out.  Nor is
\* that of the write: the disk may have taken any first part of it.
ReadReturns ==
    /\ Returned("read")
    /\ \E n \in 0..Len(Fetched) :
          /\ dst' = dst \o SubSeq(Fetched, 1, n)
          /\ spilt' = (spilt \/ n < Len(Fetched))
    /\ size' = size - Chunk
    /\ Goes(IF size' > 0 THEN "read" ELSE "close")
    /\ UNCHANGED <<net, job, ret, fresh, total, off, buffer, fd, len,
                   pos, old>>

\* Mutant: what was sent is not counted.
M_Counted == total

\* total counts what the server says it took, -1 for a refusal; only
\* total < size is ever asked of it, so it may stop falling at -2.
Counted == IF total + ret < -2 THEN -2 ELSE total + ret

WriteReturns ==
    /\ Returned("write")
    /\ total' = Counted
    /\ Goes(IF total' < size THEN "write" ELSE "close")
    /\ UNCHANGED <<net, job, ret, fresh, size, off, buffer, fd, file>>

\* The last request of a command: its result is ignored.
LastReturns ==
    /\ at \in {"close", "dclose", "one"} /\ phase = "ret"
    /\ Ends("ok")
    /\ UNCHANGED <<net, job, ret, fresh, locs, file>>

\* ls: a directory that cannot be opened costs the connection.
DopenReturns ==
    /\ Returned("dopen")
    /\ \/ /\ ret < 0 /\ Ends("failed")
          /\ conn' = "none" /\ req' = NoReq /\ down' = <<>>
       \/ ret >= 0 /\ Goes("dread") /\ UNCHANGED <<conn, req, down>>
    /\ fd' = ret
    /\ UNCHANGED <<recv_packet, job, ret, fresh, size, total, off, buffer, file>>

DreadReturns ==
    /\ Returned("dread")
    /\ \/ ret > 0 /\ Goes("dread")
       \/ ret <= 0 /\ fd > 0 /\ Goes("dclose")
       \/ ret <= 0 /\ fd <= 0 /\ Ends("ok")
    /\ UNCHANGED <<net, job, ret, fresh, locs, file>>

-----------------------------------------------------------------------------
(* A request.                                                              *)

Op(p) == CASE p \in {"end", "set"} -> "lseek"
           [] p = "one" -> job
           [] OTHER -> p

\* ps2netfs_req_format builds a REMOVE request.
WireOp(p) == IF Op(p) = "format" THEN "remove" ELSE Op(p)

\* How much of the request goes out: the REMOVE requests with a length of 0
\* (htonl() into 16 bits), a SYNC without its last bytes, and of an UMOUNT the
\* pointer to it, with what follows that on the stack.
Form(p) == CASE Op(p) \in {"remove", "format"} -> "nolength"
             [] Op(p) = "sync" -> "short"
             [] Op(p) = "umount" -> "garbage"
             [] OTHER -> "whole"

\* Mutant: a whole buffer is sent, whatever read() returned.
M_Piece == Chunk

\* cli_copy reads the next chunk of the local file, then sends it.
Piece == Less(Chunk, len - off)

Request ==
    [op |-> WireOp(at),
     data |-> IF at = "write" THEN [k \in 1..Piece |-> off + k] ELSE <<>>,
     form |-> Form(at)]

\* send() of the request, by the state of the connection.  The write checks
\* the result of its two sends; the others go on to wait for a reply, for
\* ever on descriptor -1, where recv fails and pko_recv_bytes retries it.
Ask ==
    /\ phase = "run" /\ at \notin {"idle", "hung", "killed"}
    /\ off' = IF at = "write" THEN off + Piece ELSE off
    /\ \/ /\ conn = "up"
          /\ req' = Request /\ phase' = "wait" /\ UNCHANGED <<conn, at, ret>>
       \/ /\ conn = "eof"
          /\ \/ /\ conn' \in {"closing", "reset"}
                /\ phase' = "wait" /\ UNCHANGED ret
             \/ /\ at = "write" /\ conn' = "dead"
                /\ phase' = "ret" /\ ret' = -1
          /\ UNCHANGED <<req, at>>
       \/ /\ conn \in {"closing", "reset"}
          /\ conn' = "dead"
          /\ IF at = "write" THEN phase' = "ret" /\ ret' = -1
                             ELSE phase' = "wait" /\ UNCHANGED ret
          /\ UNCHANGED <<req, at>>
       \/ /\ conn = "dead" /\ at' = "killed"
          /\ UNCHANGED <<conn, req, phase, ret>>
       \/ /\ conn = "none"
          /\ IF at = "write" THEN phase' = "ret" /\ ret' = -1 /\ UNCHANGED at
                             ELSE at' = "hung" /\ UNCHANGED <<phase, ret>>
          /\ UNCHANGED <<conn, req>>
    /\ fresh' = FALSE
    /\ UNCHANGED <<down, recv_packet, job, outcome, size, total, buffer, fd, file>>

\* The packet ps2netfs_accept_pkt is told to expect.
Expected == Op(at)

\* The data of a read goes to the buffer, as much of it as arrives.
Fill(k) == [j \in 1..Chunk |-> IF j <= k THEN down[j + 1].r ELSE buffer[j]]

\* The reply to the request.
AcceptReply ==
    /\ phase = "wait" /\ down # <<>>
    /\ Head(down).op = Expected /\ Head(down).t = "rly"
    /\ LET r == Head(down).r
           n == IF at = "read" /\ r > 0 THEN r ELSE 0
           k == Less(n, Len(down) - 1)
       IN  /\ k = n \/ conn # "up"
           /\ buffer' = Fill(k)
           /\ recv_packet' = [op |-> Expected, r |-> r] /\ ret' = r
    /\ down' = <<>> /\ fresh' = TRUE /\ phase' = "ret"
    /\ UNCHANGED <<conn, req, job, at, outcome, size, total, off, fd,
                   file>>

\* The header of the reply, and then the end of the stream, which is an
\* error, or a reset, which is not (length is unsigned): the result is then
\* what an earlier packet left in the buffer.
AcceptTorn ==
    /\ phase = "wait" /\ down # <<>>
    /\ Head(down).op = Expected /\ Head(down).t = "torn"
    /\ recv_packet' = [op |-> Expected, r |-> recv_packet.r]
    /\ \/ conn = "reset" /\ conn' = "dead" /\ ret' = recv_packet.r
       \/ conn # "reset" /\ UNCHANGED conn /\ ret' = -1
    /\ down' = <<>> /\ phase' = "ret"
    /\ UNCHANGED <<req, job, at, fresh, outcome, locs, file>>

\* Mutant: a packet that is not accepted leaves the connection as it is.
M_Hangup == UNCHANGED <<conn, req, down>>

Hangup == conn' = "none" /\ req' = NoReq /\ down' = <<>>

\* Another packet: the connection is given up.
AcceptOther ==
    /\ phase = "wait" /\ down # <<>> /\ Head(down).op # Expected
    /\ recv_packet' = [op |-> Head(down).op, r |-> recv_packet.r]
    /\ Hangup
    /\ ret' = -1 /\ phase' = "ret"
    /\ UNCHANGED <<job, at, fresh, outcome, locs, file>>

\* The reply, with a length it cannot have: it is refused, but its body is
\* left in the stream.
AcceptLong ==
    /\ phase = "wait" /\ down # <<>>
    /\ Head(down).op = Expected /\ Head(down).t = "long"
    /\ recv_packet' = [op |-> Expected, r |-> recv_packet.r]
    /\ down' = Tail(down)
    /\ fresh' = TRUE /\ ret' = -1 /\ phase' = "ret"
    /\ UNCHANGED <<conn, req, job, at, outcome, locs, file>>

\* The stream has ended: -1 is not 0, so the caller takes the result from
\* what is in recv_packet.
AcceptEof ==
    /\ phase = "wait" /\ down = <<>> /\ conn \in {"eof", "closing", "dead"}
    /\ ret' = recv_packet.r /\ phase' = "ret"
    /\ UNCHANGED <<net, job, at, fresh, outcome, locs, file>>

\* A reset: length is unsigned, so -1 passes for a header, the one already in
\* the buffer; the next receive returns 0.
AcceptReset ==
    /\ phase = "wait" /\ down = <<>> /\ conn = "reset"
    /\ conn' = IF recv_packet.op = Expected THEN "dead" ELSE "none"
    /\ ret' = -1 /\ phase' = "ret"
    /\ UNCHANGED <<req, down, recv_packet, job, at, fresh, outcome, locs, file>>

\* The fileio link and the tools receive into the same buffer.
OtherTraffic ==
    /\ at = "idle" /\ recv_packet.op # "none"
    /\ recv_packet' \in [op : {"none"}, r : {-1, 0, 1}]
    /\ UNCHANGED <<conn, req, down, job, at, phase, ret, fresh, outcome, locs,
                   file>>

-----------------------------------------------------------------------------
(* The server.                                                             *)

Answers(r, data) ==
    /\ req' = NoReq
    /\ down' = down \o <<Rly(req.op, r)>> \o [k \in 1..Len(data) |-> Data(data[k])]
    /\ UNCHANGED <<conn, recv_packet, job, at, phase, ret, fresh, outcome,
                   locs, len, old>>

Served == conn = "up" /\ req # NoReq /\ req.form = "whole"

ServeRead ==
    /\ Served /\ req.op = "read"
    /\ \/ LET n == Less(Chunk, len - pos) IN
          /\ Answers(n, [k \in 1..n |-> pos + k]) /\ pos' = pos + n /\ UNCHANGED spilt
       \/ "short" \in Faults /\ Answers(-1, <<>>) /\ spilt' = TRUE /\ UNCHANGED pos
    /\ UNCHANGED dst

ServeWrite ==
    /\ Served /\ req.op = "write"
    /\ \/ Answers(Len(req.data), <<>>) /\ dst' = dst \o req.data /\ UNCHANGED spilt
       \/ /\ "short" \in Faults /\ spilt' = TRUE
          /\ \/ \E n \in 0..Len(req.data) - 1 :
                   Answers(n, <<>>) /\ dst' = dst \o SubSeq(req.data, 1, n)
             \/ Answers(-1, <<>>) /\ UNCHANGED dst
    /\ UNCHANGED pos

\* Its position after an lseek is known by which of the two this is.
ServeSeek ==
    /\ Served /\ req.op = "lseek"
    /\ Answers(IF at = "end" THEN len ELSE 0, <<>>)
    /\ pos' = (IF at = "end" THEN len ELSE 0) /\ UNCHANGED <<dst, spilt>>

ServeDread ==
    /\ Served /\ req.op = "dread"
    /\ Answers(IF pos < len THEN 1 ELSE 0, <<>>)
    /\ pos' = Less(pos + 1, len) /\ UNCHANGED <<dst, spilt>>

ServeOther ==
    /\ Served /\ req.op \notin {"read", "write", "lseek", "dread"}
    /\ \E r \in {-1, 0, 1} : Answers(r, <<>>)
    /\ UNCHANGED <<pos, dst, spilt>>

\* A request that gives no length may be carried out all the same.
ServeNoLength ==
    /\ conn = "up" /\ req.form = "nolength"
    /\ \E r \in {-1, 0, 1} : Answers(r, <<>>)
    /\ UNCHANGED <<pos, dst, spilt>>

\* A packet of another type, left over or out of order; it is also what a
\* request that is none may be answered with, if it is.
ServeWrong ==
    /\ \/ Served /\ "wrong" \in Faults
       \/ conn = "up" /\ req.form \in {"nolength", "garbage"}
    /\ req' = NoReq /\ down' = Append(down, Rly("other", 0))
    /\ UNCHANGED <<conn, recv_packet, job, at, phase, ret, fresh, outcome,
                   locs, file>>

ServeLong ==
    /\ Served /\ "long" \in Faults
    /\ req' = NoReq
    /\ down' = down \o <<[Rly(req.op, 0) EXCEPT !.t = "long"], Data(0)>>
    /\ UNCHANGED <<conn, recv_packet, job, at, phase, ret, fresh, outcome,
                   locs, file>>

\* The PS2 goes away; of what is under way only the first keep items arrive,
\* or the header of the reply without the rest.
Die(how, keep) ==
    /\ "die" \in Faults /\ conn = "up"
    /\ conn' = how /\ req' = NoReq
    /\ \/ down' = SubSeq(down, 1, keep)
       \/ keep = 1 /\ down' = <<[Head(down) EXCEPT !.t = "torn"]>>
    /\ UNCHANGED <<recv_packet, job, at, phase, ret, fresh, outcome, locs,
                   file>>

-----------------------------------------------------------------------------
Command ==
    \/ Ask \/ AcceptReply \/ AcceptTorn \/ AcceptOther \/ AcceptLong
    \/ AcceptEof \/ AcceptReset
    \/ OpenReturns \/ SeekReturns \/ ReadReturns \/ WriteReturns
    \/ LastReturns \/ DopenReturns \/ DreadReturns

Server ==
    ServeRead \/ ServeWrite \/ ServeSeek \/ ServeDread \/ ServeOther

Next ==
    \/ \E j \in Jobs, n, o \in 0..MaxSize : Start(j, n, o)
    \/ Command \/ Server
    \/ ServeNoLength \/ ServeWrong \/ ServeLong \/ OtherTraffic
    \/ \E how \in {"eof", "reset"}, keep \in 0..Len(down) : Die(how, keep)

Spec == Init /\ [][Next]_vars

\* The shell runs, and a server that is there answers what was sent whole.
FairSpec == Spec /\ WF_vars(Command) /\ WF_vars(Server)

-----------------------------------------------------------------------------
(* Properties.                                                             *)

Points == {"open", "end", "set", "read", "write", "close", "dopen", "dread",
           "dclose", "one"}

Types == Points \cup {"lseek", "other", "none"} \cup Single

Forms == {"whole", "nolength", "short", "garbage"}

\* Every variable stays in its range: what cli_copy reads stays within the
\* file, what it counts as written within twice its length (the last result
\* added may be that of an earlier reply), and what it takes from a reply is
\* what a server may send.
TypeOK ==
    /\ conn \in {"none", "up", "eof", "closing", "reset", "dead"}
    /\ req \in [op : Types, data : Seq(1..MaxSize), form : Forms]
    /\ down \in Seq([t : {"rly", "torn", "long", "data"}, op : Types, r : -1..MaxSize \cup {1}])
    /\ recv_packet \in [op : Types, r : -1..MaxSize \cup {1}]
    /\ job \in {"get", "put", "ls"} \cup Single
    /\ at \in Points \cup {"idle", "hung", "killed"}
    /\ phase \in {"run", "wait", "ret"} /\ fresh \in BOOLEAN
    /\ ret \in -1..MaxSize \cup {1}
    /\ outcome \in {"none", "ok", "failed"}
    /\ size \in -Chunk..MaxSize \cup {1} /\ total \in -2..2 * MaxSize
    /\ off \in 0..MaxSize /\ buffer \in [1..Chunk -> 0..MaxSize]
    /\ fd \in -1..MaxSize \cup {1}
    /\ len \in 0..MaxSize /\ pos \in 0..MaxSize
    /\ dst \in Seq(0..MaxSize) /\ old \in 0..MaxSize /\ spilt \in BOOLEAN

\* No reply is left over: outside a request an open connection carries none,
\* so the next request cannot be given the answer to this one.  All that may
\* be there is the body of a reply that was refused for its length.
InStep ==
    conn = "up" /\ phase # "wait" =>
        req = NoReq /\ \A k \in 1..Len(down) : down[k].t = "data"

\* A result that did not come in the request's own reply, but was left in
\* recv_packet by an earlier one, is used only when the connection is gone;
\* on a connection that is up the caller's result is the server's.
OwnResult == phase = "ret" /\ conn = "up" => fresh

\* The destination: what was written, and what it had beyond that.
Copied == dst \o [k \in 1..old - Len(dst) |-> 0]

\* cp that ends normally has copied the file: every unit, once, in order.  What
\* it does not look at is excepted: a fetch that got, or stored, less than it
\* should, and a destination longer than the file.
CopyFaithful ==
    outcome = "ok" /\ job \in {"get", "put"} /\ old <= len =>
        (job = "get" /\ spilt) \/ Copied = Units(len)

\* A command ends, and the shell reads the next one, unless the process does.
\* It may never end when the server took less of a cp than it was offered, for
\* total then never comes to size, and when the request is not one that the
\* server must answer.
CommandEnds ==
    at # "idle" ~>
        \/ at \in {"idle", "killed"}
        \/ job = "put" /\ spilt
        \/ req.form # "whole"
=============================================================================
