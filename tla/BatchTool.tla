------------------------------ MODULE BatchTool ------------------------------
(***************************************************************************)
(* The batch tools: eeexec, iopexec, dumpmem, dumpreg, viewmem, gsexec and *)
(* reset, one run of one of them.                                          *)
(*                                                                         *)
(* A tool tries pksh on the local host first, and hands its request over   *)
(* that connection.  Without pksh it connects to ps2link itself, sends the *)
(* request as a datagram, opens the fileio connection and serves it in     *)
(* batch_io_loop() until a CLOSE has been served.  The mains differ in     *)
(* which variable each call stores its descriptor in, closes and sends on: *)
(* one record per tool says so, and the steps are shared.                  *)
(*                                                                         *)
(* ps2link and the descriptor table of the kernel are external.  What a    *)
(* request does to its file byte by byte is FileService's matter.          *)
(***************************************************************************)
EXTENDS Integers, Sequences

CONSTANTS
    Used,          \* the tools that are run
    MaxFd,         \* the descriptor table is 0..MaxFd
    JunkBits,      \* bits of the uninitialised master_set that may be set
    Strays,        \* descriptors that a torn CLOSE may name
    MaxLog,        \* bound on log datagrams in one run
    Writes         \* data requests ps2link makes for a file

ASSUME BatchConstants ==
    /\ MaxFd \in Nat /\ MaxFd >= 7 /\ JunkBits \subseteq 0..MaxFd
    /\ Strays \subseteq 0..MaxFd
    /\ MaxLog \in Nat /\ Writes \in Nat

-----------------------------------------------------------------------------
(* The mains.  "opens", "second": where ps2link_open() stores the socket   *)
(* for pksh and for ps2link; "result", "result2": sock is then overwritten *)
(* with what the call returned; "drops": what is closed when pksh is not   *)
(* there; "sends": what the request for pksh is sent on; "frees": what is  *)
(* closed before pko_cmd_con(); "port": where the request for ps2link goes;*)
(* "nservice": the argument of batch_io_loop(), -1 if it is not called.    *)

eeexec ==
    [opens |-> "cmd_fd", result |-> FALSE, drops |-> "cmd_fd", second |-> "cmd_fd",
     result2 |-> FALSE, sends |-> "cmd_fd", frees |-> "cmd_fd", port |-> "command",
     nservice |-> 1, checks |-> FALSE]

iopexec ==
    [opens |-> "sock", result |-> FALSE, drops |-> "sock", second |-> "sock",
     result2 |-> FALSE, sends |-> "cmd_fd", frees |-> "sock", port |-> "command",
     nservice |-> 0, checks |-> FALSE]

dumpmem ==
    [opens |-> "sock", result |-> TRUE, drops |-> "none", second |-> "cmd_fd",
     result2 |-> TRUE, sends |-> "sock", frees |-> "sock", port |-> "command",
     nservice |-> 0, checks |-> TRUE]

dumpreg ==
    [opens |-> "sock", result |-> TRUE, drops |-> "none", second |-> "sock",
     result2 |-> FALSE, sends |-> "sock", frees |-> "sock", port |-> "command",
     nservice |-> 0, checks |-> FALSE]

viewmem ==
    [opens |-> "sock", result |-> FALSE, drops |-> "cmd_fd", second |-> "cmd_fd",
     result2 |-> FALSE, sends |-> "cmd_fd", frees |-> "sock", port |-> "command",
     nservice |-> 0, checks |-> FALSE]

gsexec ==
    [opens |-> "sock", result |-> TRUE, drops |-> "none", second |-> "sock",
     result2 |-> FALSE, sends |-> "sock", frees |-> "none", port |-> "fileio",
     nservice |-> -1, checks |-> TRUE]

reset ==
    [opens |-> "sock", result |-> FALSE, drops |-> "sock", second |-> "sock",
     result2 |-> FALSE, sends |-> "sock", frees |-> "none", port |-> "command",
     nservice |-> -1, checks |-> FALSE]

Main(n) ==
    CASE n = "eeexec" -> eeexec [] n = "iopexec" -> iopexec [] n = "dumpmem" -> dumpmem
      [] n = "dumpreg" -> dumpreg [] n = "viewmem" -> viewmem [] n = "gsexec" -> gsexec
      [] n = "reset" -> reset

-----------------------------------------------------------------------------
VARIABLES
    tool, pc,
    table,         \* the descriptors: "free", "tty", "pksh", "refused",
                   \* "ps2" (the first connection), "udp", "srv", "log"
    sock, cmd_fd, pko_srv_fd, log_fd, master_set, service_close,
    reached,       \* where the request went: "none", "pksh", "command",
                   \* "fileio", "nowhere"
    pksh,          \* pksh listens on the local host
    plan,          \* the requests ps2link has left to make
    started,       \* ps2link has taken the command
    link,          \* the fileio connection: "none", "up", "down"
    asked,         \* its next request is in the stream
    torn,          \* but not the whole of it: the connection was lost inside
    logs,          \* log datagrams queued
    logged,        \* log datagrams so far
    open, stored,  \* files open for ps2link, data they got
    amiss          \* what went wrong with them: the requests that failed on
                   \* the host, and "torn"

fds  == <<table, sock, cmd_fd>>
svc  == <<pko_srv_fd, log_fd, master_set, service_close>>
ps2  == <<plan, started, link, asked, torn, logs, logged>>
disk == <<open, stored, amiss>>
vars == <<tool, pc, fds, svc, reached, pksh, ps2, disk>>

m == Main(tool)

Init ==
    /\ tool \in Used /\ pc = "local" /\ pksh \in BOOLEAN
    /\ table = [f \in 0..MaxFd |-> IF f < 3 THEN "tty" ELSE "free"]
    /\ sock = -1 /\ cmd_fd = 0 /\ pko_srv_fd = 0 /\ log_fd = 0
    /\ master_set = {} /\ service_close = 1 /\ reached = "none"
    /\ plan = <<>> /\ started = FALSE /\ link = "none"
    /\ asked = FALSE /\ torn = FALSE /\ logs = 0 /\ logged = 0
    /\ open = 0 /\ stored = 0 /\ amiss = {}

Lowest(tab) ==
    CHOOSE f \in 0..MaxFd :
        tab[f] = "free" /\ \A g \in 0..MaxFd : tab[g] = "free" => f <= g

Fd(v) == IF v = "sock" THEN sock ELSE cmd_fd

Close(tab, v) ==
    IF v = "none" THEN tab ELSE [f \in 0..MaxFd |-> IF f = Fd(v) THEN "free" ELSE tab[f]]

\* ps2link_open(&v, ...), and sock = its result where the tool says so.
Store(v, fd, result, ret) ==
    /\ cmd_fd' = IF v = "cmd_fd" THEN fd ELSE cmd_fd
    /\ sock' = IF result THEN ret ELSE IF v = "sock" THEN fd ELSE sock

-----------------------------------------------------------------------------
(* From main() to the request.                                             *)

OpenLocal ==
    /\ pc = "local"
    /\ LET fd == Lowest(table) IN
       /\ Store(m.opens, fd, m.result, IF pksh THEN 0 ELSE -1)
       /\ table' = [table EXCEPT ![fd] = IF pksh THEN "pksh" ELSE "refused"]
    /\ pc' = IF pksh THEN "args" ELSE "drop"
    /\ UNCHANGED <<tool, svc, reached, pksh, ps2, disk>>

Drop ==
    /\ pc = "drop" /\ table' = Close(table, m.drops) /\ pc' = "ps2"
    /\ UNCHANGED <<tool, sock, cmd_fd, svc, reached, pksh, ps2, disk>>

OpenPs2 ==
    /\ pc = "ps2"
    /\ \E ok \in BOOLEAN :
       LET fd == Lowest(table) IN
       /\ Store(m.second, fd, m.result2, IF ok THEN 0 ELSE -1)
       /\ table' = [table EXCEPT ![fd] = IF ok THEN "ps2" ELSE "refused"]
       /\ pc' = IF ok THEN "args" ELSE "ended"
    /\ UNCHANGED <<tool, svc, reached, pksh, ps2, disk>>

\* Numbers among the arguments are only looked at once connected.
Arguments ==
    /\ pc = "args"
    /\ pc' \in {IF pksh THEN "hand" ELSE "send"} \cup (IF m.checks THEN {"ended"} ELSE {})
    /\ UNCHANGED <<tool, fds, svc, reached, pksh, ps2, disk>>

\* The request to pksh: whether it gets there depends on the descriptor.
Delivered(fd) == IF fd >= 0 /\ table[fd] = "pksh" THEN "pksh" ELSE "nowhere"

HandOver ==
    /\ pc = "hand" /\ reached' = Delivered(Fd(m.sends))
    /\ pc' = IF tool = "viewmem" THEN "stat" ELSE "ended"
    /\ UNCHANGED <<tool, fds, svc, pksh, ps2, disk>>

\* pko_cmd_con() and the request on cmd_fd; gsexec sends on its connection.
SendDirect ==
    /\ pc = "send"
    /\ IF m.port = "command"
       THEN LET tab == Close(table, m.frees)
                fd == Lowest(tab) IN
            /\ table' = [tab EXCEPT ![fd] = "udp"] /\ cmd_fd' = fd
            /\ reached' = "command"
       ELSE reached' = "fileio" /\ UNCHANGED <<table, cmd_fd>>
    /\ pc' = IF m.nservice = -1 THEN "ended" ELSE "listen"
    /\ UNCHANGED <<tool, sock, svc, pksh, ps2, disk>>

-----------------------------------------------------------------------------
(* The service: cmd_listener(), log_listener(), batch_io_loop().           *)

\* A failed cmd_listener() gives -1, which FD_SET() cannot take.
ListenFails ==
    /\ pc = "listen" /\ pc' = "undefined" /\ pko_srv_fd' = -1
    /\ UNCHANGED <<tool, fds, log_fd, master_set, service_close, reached, pksh, ps2, disk>>

Listen ==
    /\ pc = "listen" /\ pc' = "loop"
    /\ LET srv == Lowest(table)
           tab == [table EXCEPT ![srv] = "srv"]
           log == Lowest(tab) IN
       /\ table' = [tab EXCEPT ![log] = "log"]
       /\ pko_srv_fd' = srv /\ log_fd' = log
       /\ \E junk \in SUBSET JunkBits : master_set' = junk \cup {srv, log}
    /\ link' = "up"
    /\ UNCHANGED <<tool, sock, cmd_fd, service_close, reached, pksh,
                   plan, started, asked, torn, logs, logged, disk>>

\* Mutant: select() is given maxfd and not maxfd+1.
M_Watched == {f \in master_set : f < log_fd}

\* select() looks at the descriptors up to maxfd, the argument log_fd.
Watched == {f \in master_set : f <= log_fd}

LogReady == logs > 0 /\ log_fd \in Watched
SrvReady == (asked \/ link = "down") /\ pko_srv_fd \in Watched

\* Mutant: the test of service_close is missing.
M_Leaves(closed) == m.nservice = 0

\* Whichever case the turn took, it ends with the test of both counts.
Leaves(closed) == m.nservice = 0 /\ closed = 0

TurnOver(closed) == pc' = IF Leaves(closed) THEN "after" ELSE "loop"

NotASocket == \E f \in Watched : table[f] = "free"

\* select() fails on a descriptor that is closed, and the loop is left.
SelectFails ==
    /\ pc = "loop" /\ NotASocket
    /\ pc' = IF tool = "viewmem" THEN "stat" ELSE "ended"
    /\ UNCHANGED <<tool, fds, svc, reached, pksh, ps2, disk>>

Turn == pc = "loop" /\ ~NotASocket

\* The log comes first; the stream is only looked at when it is quiet.
LogRead ==
    /\ Turn /\ LogReady
    /\ logs' = logs - 1 /\ TurnOver(service_close)
    /\ UNCHANGED <<tool, fds, svc, reached, pksh, plan, started, link, asked, torn, logged, disk>>

\* Mutants: service_close counts down; a CLOSE does not set it.
M_AfterRequestCount(req) == IF req = "close" THEN service_close - 1 ELSE service_close
M_AfterRequestKept(req) == service_close

\* Only a CLOSE sets service_close, whichever file it closes and whatever comes
\* of it.
AfterRequest(req) == IF req = "close" THEN 0 ELSE service_close

Serve(req) ==
    /\ \/ req = "open" /\ open' = open + 1 /\ stored' = stored
       \/ req = "data" /\ open > 0 /\ open' = open /\ stored' = stored + 1
       \/ req = "close" /\ open > 0 /\ open' = open - 1 /\ stored' = stored
    /\ amiss' = amiss

\* The host cannot open the file, or does not take all of the data; a file that
\* was not opened cannot be closed.
Fail(req) ==
    /\ req = "close" => "open" \in amiss
    /\ amiss' = amiss \cup {req} /\ UNCHANGED <<open, stored>>

IoTurn == Turn /\ ~LogReady /\ SrvReady

\* One whole request.  When it fails ps2link goes on or gives up.
IoRead ==
    /\ IoTurn /\ asked /\ ~torn
    /\ LET req == Head(plan) IN
       /\ service_close' = AfterRequest(req) /\ TurnOver(service_close')
       /\ \/ Serve(req) /\ plan' = Tail(plan)
          \/ Fail(req) /\ plan' \in {Tail(plan), <<>>}
    /\ asked' = FALSE
    /\ UNCHANGED <<tool, fds, pko_srv_fd, log_fd, master_set, reached, pksh,
                   started, link, torn, logs, logged>>

\* A handler on what an earlier packet left in recv_packet: an OPEN of some
\* file, perhaps the dump itself, emptied; no data, or a READ through any number,
\* which is not followed further; a CLOSE of any number.
TornHandler(req) ==
    \/ /\ req = "open" /\ open' \in {open, open + 1} /\ stored' \in {stored, 0}
       /\ TurnOver(service_close') /\ UNCHANGED table
    \/ /\ req = "data"
       /\ TurnOver(service_close') \/ pc' = "undefined"
       /\ UNCHANGED <<open, stored, table>>
    \/ /\ req = "close" /\ TurnOver(service_close')
       /\ \/ open' = open /\ \E f \in Strays : table' = [table EXCEPT ![f] = "free"]
          \/ open' \in {open, open - 1} \cap Nat /\ UNCHANGED table
       /\ stored' = stored

\* The failure to receive the rest of a request is ignored.
IoReadTorn ==
    /\ IoTurn /\ torn
    /\ service_close' = AfterRequest(Head(plan)) /\ TornHandler(Head(plan))
    /\ amiss' = amiss \cup {"torn"} /\ plan' = <<>> /\ asked' = FALSE /\ torn' = FALSE
    /\ UNCHANGED <<tool, sock, cmd_fd, pko_srv_fd, log_fd, master_set, reached, pksh,
                   started, link, logs, logged>>

\* The reply to a request whose connection was reset kills the tool by SIGPIPE.
Killed ==
    /\ IoTurn /\ asked /\ link = "down" /\ pc' = "ended"
    /\ UNCHANGED <<tool, fds, svc, reached, pksh, ps2, disk>>

\* The end of the stream is ignored, and select() reports it again.
IoReadEnd ==
    /\ IoTurn /\ ~asked
    /\ TurnOver(service_close)
    /\ UNCHANGED <<tool, fds, svc, reached, pksh, ps2, disk>>

AfterLoop ==
    /\ pc = "after" /\ pc' = IF tool = "viewmem" THEN "stat" ELSE "ended"
    /\ UNCHANGED <<tool, fds, svc, reached, pksh, ps2, disk>>

\* viewmem turns until its file has the size it asked for.
Stat ==
    /\ pc = "stat" /\ stored = Writes /\ pc' = "ended"
    /\ UNCHANGED <<tool, fds, svc, reached, pksh, ps2, disk>>

-----------------------------------------------------------------------------
(* ps2link.                                                                *)

Data == [k \in 1..Writes |-> "data"]

\* An irx or elf may open a second file before it closes the first.
Plans(n) ==
    {<<"open">> \o Data \o <<"close">>}
      \cup IF n \in {"iopexec", "eeexec"}
           THEN {<<"open", "open">> \o Data \o <<"close", "close">>} ELSE {}

\* Until the tool has connected a host: file cannot be opened, and the command
\* is over.
TakeCommand ==
    /\ reached = "command" /\ ~started /\ started' = TRUE
    /\ plan' \in IF link = "up" /\ m.nservice # -1 THEN Plans(tool) ELSE {<<>>}
    /\ UNCHANGED <<tool, pc, fds, svc, reached, pksh, link, asked, torn, logs, logged, disk>>

AskFile ==
    /\ link = "up" /\ ~asked /\ plan # <<>> /\ asked' = TRUE
    /\ UNCHANGED <<tool, pc, fds, svc, reached, pksh, plan, started, link, torn, logs, logged, disk>>

\* log_fd is bound to the loopback address.
LogArrives ==
    /\ table[log_fd] = "log" /\ logged < MaxLog
    /\ logs' = logs + 1 /\ logged' = logged + 1
    /\ UNCHANGED <<tool, pc, fds, svc, reached, pksh, plan, started, link, asked, torn, disk>>

\* The connection is lost, with the last request in the stream or a part of it.
Reboot ==
    /\ link = "up" /\ link' = "down"
    /\ \/ torn' = FALSE /\ asked' = asked
       \/ ~asked /\ plan # <<>> /\ torn' = TRUE /\ asked' = TRUE
    /\ plan' = IF asked' THEN <<Head(plan)>> ELSE <<>>
    /\ UNCHANGED <<tool, pc, fds, svc, reached, pksh, started, logs, logged, disk>>

-----------------------------------------------------------------------------
Step ==
    \/ OpenLocal \/ Drop \/ OpenPs2 \/ Arguments \/ HandOver \/ SendDirect
    \/ ListenFails \/ Listen \/ SelectFails \/ LogRead
    \/ IoRead \/ IoReadTorn \/ Killed \/ IoReadEnd
    \/ AfterLoop \/ Stat

Next == Step \/ TakeCommand \/ AskFile \/ LogArrives \/ Reboot

Spec == Init /\ [][Next]_vars

\* The tool runs; ps2link goes on with a request it has begun.
FairSpec == Spec /\ WF_vars(Step) /\ WF_vars(AskFile)

-----------------------------------------------------------------------------
(* Properties.                                                             *)

Fds == -1..MaxFd

TypeOK ==
    /\ tool \in Used /\ pksh \in BOOLEAN
    /\ pc \in {"local", "drop", "ps2", "args", "hand", "send", "listen", "loop",
               "after", "stat", "ended", "undefined"}
    /\ table \in [0..MaxFd ->
                   {"free", "tty", "pksh", "refused", "ps2", "udp", "srv", "log"}]
    /\ sock \in Fds /\ cmd_fd \in Fds /\ pko_srv_fd \in Fds /\ log_fd \in Fds
    /\ master_set \subseteq 0..MaxFd /\ service_close \in 0..1
    /\ reached \in {"none", "pksh", "command", "fileio", "nowhere"}
    /\ link \in {"none", "up", "down"} /\ started \in BOOLEAN /\ asked \in BOOLEAN
    /\ torn \in BOOLEAN /\ (asked => plan # <<>>) /\ (torn => asked)
    /\ logs \in 0..MaxLog /\ logged \in 0..MaxLog
    /\ open \in 0..2 /\ stored \in 0..Writes
    /\ amiss \subseteq {"open", "data", "close", "torn"}

\* Whatever a tool has leaked or closed by mistake before (dumpmem and viewmem
\* close their stdin), batch_io_loop() watches the fileio connection and the
\* log: pko_srv_fd and log_fd stand for them, and maxfd = log_fd covers both.
\* No bit of the uninitialised master_set below maxfd stands for a closed
\* descriptor, so select() does not fail and the loop is not left that way.
\* The CLOSE of a torn request may close any of them.
LoopReady ==
    pc = "loop" /\ "torn" \notin amiss =>
        /\ table[pko_srv_fd] = "srv" /\ table[log_fd] = "log"
        /\ {pko_srv_fd, log_fd} \subseteq Watched /\ ~NotASocket

\* A tool leaves batch_io_loop() on a CLOSE and looks at nothing else, so its
\* dump may be short or missing then; but only if the host failed a request, or
\* the request was torn.  Otherwise all data is stored and no file is left open.
\* (A module run by iopexec may have a second file open when the first is
\* closed.)
DumpWhole ==
    pc = "after" /\ tool # "iopexec" /\ amiss = {} => stored = Writes /\ open = 0

\* A tool that serves one file ends once ps2link has asked to close it; what
\* is left in the log does not keep it.  Only viewmem waits for its file to
\* become as long as it should, for ever if the host failed a request.
EndsAfterClose ==
    (asked /\ plan = <<"close">> /\ m.nservice = 0) ~>
        (pc = "ended" \/ link = "down" \/ (pc = "stat" /\ amiss # {}))

\* With pksh running every tool hands its request to pksh (README.pksh: "pksh
\* must be running since the batch utilities connects to it").
HandedToPksh == pc \in {"stat", "ended"} /\ pksh /\ reached # "none" => reached = "pksh"
=============================================================================
