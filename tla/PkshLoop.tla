------------------------------ MODULE PkshLoop ------------------------------
(***************************************************************************)
(* The event loop of pksh: main() and pko_srv_read() of pksh.c, the        *)
(* commands of the shell that open, close or replace a descriptor, and the *)
(* socket helpers of linkproto_core.c they call.                           *)
(*                                                                         *)
(* pksh is one thread.  It watches standard input, the TCP link to ps2link *)
(* on the PS2, the UDP log socket, the listening socket of the batch tools *)
(* and every tool that has connected, through a table of slots (client)    *)
(* and an fd_set (master_set) that both hold descriptor NUMBERS.  The      *)
(* kernel hands out the lowest free number, so what a number in a slot     *)
(* means depends on the whole history of opens and closes; that history is *)
(* the variable tab, the descriptor table of the process.                  *)
(*                                                                         *)
(* Around the thread are the kernel, the PS2, the user and the tools: they *)
(* make descriptors readable, drop the link and connect at any time.       *)
(***************************************************************************)
EXTENDS Integers

CONSTANTS
    NStd,          \* descriptors open before main() opens any: 0..NStd-1
                   \* (3, or 4 when read_config leaves .pkshrc open)
    MaxFd,         \* the descriptor limit of the process: numbers 0..MaxFd
    MaxClients,    \* MAX_CLIENTS, the slots of client[]
    Tools,         \* the batch tools that may connect to pksh
    LogInConfig,   \* .pkshrc has a log = <file> line
    NetfsAtStart,  \* PS2NetFS answered the check main() makes
    Failures,      \* how connect() may fail: subset of {"late", "immediate"}
    CliUsed,       \* the shell commands the user types
    ReqUsed,       \* the requests the tools send
    Strays,        \* the numbers a CLOSE request cut short may name
    AnyTime        \* FALSE: input arrives only while pksh waits for it

Kinds == {"free", "std", "logfile", "srv", "netfs", "cmd", "log",
          "listen", "file", "copy", "dead"}

UdpCli == {"dumpmem", "dumpregs", "exception", "vustart", "vustop", 
           "poweroff", "writemem"}

Cli == UdpCli \cup {"execee", "execiop", "reset", "gsexec", "netfs",
                    "cp", "logfile", "logstdout", "quit", "local"}

Reqs == {"dumpmem", "dumpregs", "gsexec", "stopvu", "startvu", "execee",
         "execiop", "reset", "unknown"}

ASSUME LoopConstants ==
    /\ NStd \in Nat /\ NStd >= 1
    /\ LogInConfig \in BOOLEAN /\ NetfsAtStart \in BOOLEAN
    /\ AnyTime \in BOOLEAN /\ Strays \subseteq Nat
    /\ MaxFd \in Nat /\ MaxClients \in Nat /\ MaxClients >= 5
    /\ Tools \cap Kinds = {}
    /\ Failures \subseteq {"late", "immediate"}
    /\ CliUsed \subseteq Cli /\ ReqUsed \subseteq Reqs

-----------------------------------------------------------------------------
(* Where main() leaves the descriptors it opens, in the order it opens    *)
(* them: the log file of .pkshrc, the link, the PS2NetFS check, the socket *)
(* of the exception-dump request, the log socket, the listening socket.    *)

SrvFd0 == NStd + (IF LogInConfig THEN 1 ELSE 0)

CmdFd0 == SrvFd0 + (IF NetfsAtStart THEN 2 ELSE 1)

log_fd == CmdFd0 + 1

pksh_srv_fd == CmdFd0 + 2

ASSUME SetupFits == pksh_srv_fd <= MaxFd

Fd == 0..MaxFd
Slot == 0..MaxClients-1
NoFd == -1

VARIABLES
    tab,           \* the descriptor table: what each number stands for
    client,        \* client[]: the number watched in each slot, or NoFd
    maxi, maxfd, master_set, readset, doloop,   \* main()'s locals
    i,             \* the slot the scan continues from
    pc,            \* "select", "scan", "away" (in a reconnect loop),
                   \* "spin" (select fails for ever), "wedged" (a receive
                   \* that can neither fail nor end), "undefined", "exited"
    resume,        \* which reconnect loop: "srv" (pko_srv_read) or "exec"
    pko_srv_fd, ps2_netfs_fd, log_to_file, log_f_fd, state, cprompt,
    ask,           \* what the running, or last, handler was asked to do
    out,           \* the commands it has sent to ps2link
    ps2,           \* "loaded": a program was sent to it and no RESET tried
                   \* since; "missed": the RESET tried did not leave pksh;
                   \* "clean" otherwise
    renewed,       \* the link was replaced since the last select()
    astray,        \* numbers closed by a handler that took them for another
    conn,          \* per tool: "off", "queued" in the backlog, "accepted"
    pend, fin,     \* per tool: the request, then the close, not yet read
    srvIn,         \* what the PS2 has sent on the link and is not yet read
    cin, logIn     \* a command line and log text not yet read

watch  == <<client, maxi, maxfd, master_set>>
links  == <<pko_srv_fd, ps2_netfs_fd, state, cprompt>>
logs   == <<log_to_file, log_f_fd>>
ghosts == <<ask, out, ps2>>
tools  == <<conn, pend, fin>>
inputs == <<srvIn, cin, logIn>>
vars   == <<tab, watch, readset, doloop, i, pc, resume, links, logs, ghosts,
            renewed, astray, tools, inputs>>

-----------------------------------------------------------------------------
(* The kernel's descriptor table.                                          *)

IsLowest(t, f) == t[f] = "free" /\ \A g \in Fd : g < f => t[g] # "free"

HasFree(t) == \E f \in Fd : IsLowest(t, f)

Lowest(t) == CHOOSE f \in Fd : IsLowest(t, f)

Alloc(t, k) == IF HasFree(t) THEN [t EXCEPT ![Lowest(t)] = k] ELSE t

\* close(f): fails and changes nothing when f is not an open descriptor.
Close(t, f) == IF f \in Fd THEN [t EXCEPT ![f] = "free"] ELSE t

Opened(t) == IF HasFree(t) THEN Lowest(t) ELSE NoFd

\* pko_cmd_con: a new UDP socket for every command, never closed, not even
\* when connect() fails.
CmdCon(t) == Alloc(t, "cmd")

\* What may leave pksh of a command: nothing without a socket for it, and
\* nothing either when connect() or send() fails, which no caller looks at.
Sent(t, c) == IF HasFree(t) THEN {{}, {c}} ELSE {{}}

-----------------------------------------------------------------------------
Init ==
    /\ tab = [f \in Fd |->
                CASE f < NStd -> "std"
                  [] f = NStd /\ LogInConfig -> "logfile"
                  [] f = SrvFd0 -> "srv"
                  [] f = SrvFd0 + 1 /\ NetfsAtStart -> "netfs"
                  [] f = CmdFd0 -> "cmd"
                  [] f = log_fd -> "log"
                  [] f = pksh_srv_fd -> "listen"
                  [] OTHER -> "free"]
    /\ client = [s \in Slot |->
                CASE s = 0 -> 0
                  [] s = 1 -> SrvFd0
                  [] s = 2 -> log_fd
                  [] s = 3 -> pksh_srv_fd
                  [] OTHER -> NoFd]
    /\ master_set = {0, SrvFd0, log_fd, pksh_srv_fd}
    /\ maxfd = pksh_srv_fd /\ maxi = 3
    /\ readset = {} /\ i = 0 /\ pc = "select" /\ resume = "srv"
    /\ doloop = TRUE /\ state = 0 /\ cprompt = TRUE
    /\ pko_srv_fd = SrvFd0
    /\ ps2_netfs_fd = IF NetfsAtStart THEN SrvFd0 + 1 ELSE NoFd
    /\ log_to_file = LogInConfig
    /\ log_f_fd = IF LogInConfig THEN NStd ELSE NoFd
    /\ ask = "none" /\ out = {} /\ ps2 = "clean"
    /\ renewed = FALSE /\ astray = {}
    /\ conn = [t \in Tools |-> "off"]
    /\ pend = [t \in Tools |-> "none"]
    /\ fin = [t \in Tools |-> FALSE]
    /\ srvIn = "none" /\ cin = "none" /\ logIn = FALSE

-----------------------------------------------------------------------------
(* The loop: select() and the scan of the slots.                           *)

Backlog == {t \in Tools : conn[t] = "queued"}

\* Whether a read of descriptor f would return at once.  A socket left over
\* from a failed connect() is always readable (recv fails with ENOTCONN), and
\* so is a regular file.
Ready(f) ==
    LET k == tab[f] IN
    \/ k = "std" /\ f = 0 /\ cin # "none"
    \/ k = "srv" /\ srvIn # "none"
    \/ k = "log" /\ logIn
    \/ k = "listen" /\ Backlog # {}
    \/ k \in {"dead", "file", "copy", "logfile"}
    \/ k \in Tools /\ (pend[k] # "none" \/ fin[k])

Watched == {f \in master_set : f <= maxfd}

\* Mutant: the scan goes by what is watched, not by what select() reported.
M_Reported(S) == S

Reported(S) == {f \in S : Ready(f)}

\* readset = master_set; select(maxfd+1, &readset, ...) with something ready.
Select ==
    /\ pc = "select" /\ doloop
    /\ \A f \in Watched : tab[f] # "free"
    /\ readset' = Reported(Watched)
    /\ readset' # {}
    /\ pc' = "scan"
    /\ UNCHANGED <<tab, watch, doloop, i, resume, links, logs, ghosts,
                   renewed, astray, tools, inputs>>

\* select() fails with EBADF and leaves readset as it was, so descriptor 0
\* is in it and the loop continues: it retries the same call for ever.
SelectFails ==
    /\ pc = "select" /\ doloop
    /\ \E f \in Watched : tab[f] = "free"
    /\ pc' = "spin"
    /\ UNCHANGED <<tab, watch, readset, doloop, i, resume, links, logs,
                   ghosts, renewed, astray, tools, inputs>>

\* The end of main(): the descriptors it closes by hand.
Exit ==
    /\ pc = "select" /\ ~doloop
    /\ pc' = "exited"
    /\ tab' = LET t1 == Close(Close(tab, pko_srv_fd), log_fd)
                  t2 == IF log_to_file THEN Close(t1, log_f_fd) ELSE t1
              IN  IF ps2_netfs_fd > 0 THEN Close(t2, ps2_netfs_fd) ELSE t2
    /\ UNCHANGED <<watch, readset, doloop, i, resume, links, logs, ghosts,
                   renewed, astray, tools, inputs>>

\* The scan stops at slot s: the first from i on whose descriptor is in
\* readset.  maxi is read again at every slot.
Hit(s) ==
    /\ pc = "scan" /\ i <= s /\ s <= maxi
    /\ client[s] \in readset
    /\ \A k \in Slot : i <= k /\ k < s => client[k] \notin readset

ScanDone ==
    /\ pc = "scan" /\ \A s \in Slot : ~Hit(s)
    /\ pc' = "select" /\ i' = 0 /\ readset' = {} /\ renewed' = FALSE
    /\ ask' = "none" /\ out' = {}
    /\ UNCHANGED <<tab, watch, doloop, resume, links, logs, ps2, astray,
                   tools, inputs>>

\* pko_log_read consumes one datagram.
ScanLog(s) ==
    /\ Hit(s) /\ client[s] = log_fd /\ tab[log_fd] = "log"
    /\ logIn' = FALSE /\ i' = s + 1
    /\ UNCHANGED <<tab, watch, readset, doloop, pc, resume, links, logs,
                   ghosts, renewed, astray, tools, srvIn, cin>>

-----------------------------------------------------------------------------
(* What the commands do to the descriptors and to ps2link.  The same       *)
(* functions serve the shell (execute_line) and the tools (pko_srv_read).  *)

Continue == pc' = "scan" /\ resume' = "srv"

\* Mutant: the prompt is not touched.
M_change_prompt == UNCHANGED cprompt

change_prompt == cprompt' = ~cprompt

NoEffect ==
    /\ out' = {}
    /\ Continue
    /\ UNCHANGED <<tab, links, logs, doloop, ps2, srvIn>>

\* pko_cmd_con, then a command that is sent only if its argument is accepted.
SendCmd(c, accepted) ==
    /\ tab' = CmdCon(tab)
    /\ out' \in (IF accepted THEN Sent(tab, c) ELSE {{}})
    /\ Continue
    /\ UNCHANGED <<links, logs, doloop, ps2, srvIn>>

\* state is set whether the program went out or not.
ProgramSent(c) ==
    /\ state' = 1
    /\ tab' = CmdCon(tab)
    /\ out' \in Sent(tab, c)
    /\ ps2' = IF c \in out' THEN "loaded" ELSE ps2
    /\ Continue
    /\ UNCHANGED <<pko_srv_fd, ps2_netfs_fd, cprompt, logs, doloop, srvIn>>

cli_execeiop == ProgramSent("execiop")

\* The effect of cli_reset on the descriptors: its UDP socket is opened
\* before the PS2NetFS connection is closed.
ResetTab(t) == Close(CmdCon(t), ps2_netfs_fd)

\* Mutant: the number of a closed connection is kept.
M_ForgetNetfs == UNCHANGED ps2_netfs_fd

ForgetNetfs == ps2_netfs_fd' = NoFd

\* state is cleared whether the RESET went out or not.
ResetSent ==
    /\ out' \in Sent(tab, "reset")
    /\ ps2' = CASE "reset" \in out' -> "clean"
                [] "reset" \notin out' /\ ps2 = "loaded" -> "missed"
                [] OTHER -> ps2
    /\ ForgetNetfs
    /\ state' = 0

cli_reset ==
    /\ ResetSent
    /\ tab' = ResetTab(tab)
    /\ Continue
    /\ UNCHANGED <<pko_srv_fd, cprompt, logs, doloop, srvIn>>

\* Mutant: a program is sent whatever was sent before.
M_MustReset == FALSE

MustReset == state = 1

\* Mutant: the old link is left open.
M_DropLink(t) == t

DropLink(t) == Close(t, pko_srv_fd)

\* cli_execee when no program was started since the last reset.
ExecNow == ~MustReset /\ ProgramSent("execee")

\* cli_execee when one was: reset, drop the link and enter the reconnect
\* loop; the program is sent once it ends (ReconnectOk).
ExecAfterReset ==
    /\ MustReset
    /\ ResetSent
    /\ tab' = DropLink(ResetTab(tab))
    /\ change_prompt
    /\ pc' = "away" /\ resume' = "exec"
    /\ srvIn' = "none"
    /\ UNCHANGED <<pko_srv_fd, logs, doloop>>

cli_execee == ExecNow \/ ExecAfterReset

\* ls, cp, mkdir, ... on a PS2 device, by what they leave behind: the PS2NetFS
\* connection is opened if there is none, and a failed exchange closes it.
\* Commands that do not come back from their exchange are in module NetFs.
NetfsOpened ==
    /\ ps2_netfs_fd = NoFd /\ HasFree(tab)
    /\ tab' = Alloc(tab, "netfs") /\ ps2_netfs_fd' = Lowest(tab)

NetfsRefused ==
    /\ ps2_netfs_fd = NoFd /\ "immediate" \in Failures
    /\ tab' = Alloc(tab, "dead") /\ UNCHANGED ps2_netfs_fd

NetfsDropped ==
    /\ ps2_netfs_fd # NoFd
    /\ tab' = Close(tab, ps2_netfs_fd) /\ ForgetNetfs

\* cp returns without closing the local file when the PS2 refuses its own.
CopyLeaks ==
    LET n == IF ps2_netfs_fd = NoFd THEN Opened(tab) ELSE ps2_netfs_fd
        t == IF ps2_netfs_fd = NoFd THEN Alloc(tab, "netfs") ELSE tab
    IN  /\ n # NoFd /\ HasFree(t)
        /\ \/ tab' = Alloc(t, "copy") /\ ps2_netfs_fd' = n
           \/ tab' = Close(Alloc(t, "copy"), n) /\ ForgetNetfs

NetfsCommand(c) ==
    /\ NetfsOpened \/ NetfsRefused \/ NetfsDropped \/ (c = "cp" /\ CopyLeaks)
    /\ out' = {}
    /\ Continue
    /\ UNCHANGED <<pko_srv_fd, state, cprompt, logs, doloop, ps2,
                   srvIn>>

\* log <file>: a log file already open is not closed, and open() may fail.
LogToFile ==
    /\ log_to_file' = TRUE
    /\ \/ tab' = Alloc(tab, "logfile") /\ log_f_fd' = Opened(tab)
       \/ tab' = tab /\ log_f_fd' = NoFd
    /\ out' = {}
    /\ Continue
    /\ UNCHANGED <<links, doloop, ps2, srvIn>>

LogToStdout ==
    /\ log_to_file' = FALSE
    /\ tab' = IF log_to_file THEN Close(tab, log_f_fd) ELSE tab
    /\ out' = {}
    /\ Continue
    /\ UNCHANGED <<log_f_fd, links, doloop, ps2, srvIn>>

cli_quit ==
    /\ doloop' = FALSE
    /\ out' = {}
    /\ Continue
    /\ UNCHANGED <<tab, links, logs, ps2, srvIn>>

\* Commands whose argument is checked before, and after, pko_cmd_con.
RejectEarly == {"dumpmem", "dumpregs", "writemem", "gsexec", "netfs", "cp",
                "local"}
RejectLate == {"exception", "vustart", "vustop"}

Execute(c) ==
    \/ c = "execee" /\ cli_execee
    \/ c = "execiop" /\ cli_execeiop
    \/ c = "reset" /\ cli_reset
    \/ c \in UdpCli \cup {"gsexec"} /\ SendCmd(c, TRUE)
    \/ c \in RejectLate /\ SendCmd(c, FALSE)
    \/ c \in RejectEarly /\ NoEffect
    \/ c \in {"netfs", "cp"} /\ NetfsCommand(c)
    \/ c = "logfile" /\ LogToFile
    \/ c = "logstdout" /\ LogToStdout
    \/ c = "quit" /\ cli_quit

ScanStdin(s) ==
    /\ Hit(s) /\ client[s] # log_fd /\ client[s] = 0 /\ tab[0] = "std"
    /\ cin # "none"
    /\ i' = s + 1 /\ ask' = cin /\ cin' = "none"
    /\ Execute(cin)
    /\ UNCHANGED <<watch, readset, renewed, astray, tools, logIn>>

\* The GSEXEC case of pko_srv_read has no break: whatever cli_gsexec did,
\* the STOPVU case follows.
RelayGsexec ==
    /\ \/ /\ tab' = CmdCon(CmdCon(tab))
          /\ \E a \in Sent(tab, "gsexec"), b \in Sent(CmdCon(tab), "stopvu") :
                out' = a \cup b
       \/ /\ tab' = CmdCon(tab)
          /\ out' \in Sent(tab, "stopvu")
    /\ Continue
    /\ UNCHANGED <<links, logs, doloop, ps2, srvIn>>

\* Mutant: an EXECIOP request is carried out by the RESET case.
M_Relay(q) ==
    \/ q = "execee" /\ cli_execee
    \/ q \in {"execiop", "reset"} /\ cli_reset

Relay(q) ==
    \/ q \in {"dumpmem", "dumpregs", "stopvu", "startvu"} /\ SendCmd(q, TRUE)
    \/ q = "gsexec" /\ RelayGsexec
    \/ q = "execee" /\ cli_execee
    \/ q = "execiop" /\ cli_execeiop
    \/ q = "reset" /\ cli_reset
    \/ q = "unknown" /\ NoEffect

-----------------------------------------------------------------------------
(* A hit on the link: pko_srv_read(pko_srv_fd).  With nothing to read, the *)
(* receive blocks, and the whole shell with it.                            *)

SrvHit(s) ==
    /\ Hit(s) /\ client[s] \notin {log_fd, 0} /\ client[s] = pko_srv_fd
    /\ tab[pko_srv_fd] = "srv"

\* A file the PS2 has open, or takes for open because it was not the PS2 that
\* closed it.
PS2Handle(f) == tab[f] = "file" \/ f \in astray

\* One fileio request of the PS2: an open, a close of a file the PS2 has
\* opened, or a request that leaves the descriptors alone.
ScanSrvRequest(s) ==
    /\ SrvHit(s) /\ srvIn = "request"
    /\ \/ tab' = Alloc(tab, "file")
       \/ \E f \in Fd : PS2Handle(f) /\ tab' = Close(tab, f)
       \/ tab' = tab
    /\ srvIn' = "none" /\ i' = s + 1
    /\ UNCHANGED <<watch, readset, doloop, pc, resume, links, logs, ghosts,
                   renewed, astray, tools, cin, logIn>>

\* A CLOSE of number f that nobody asked for.
CloseAstray(f) ==
    /\ tab[f] # "free"
    /\ tab' = Close(tab, f) /\ astray' = astray \cup {f}

\* A handler on what an earlier packet left in recv_packet: an OPEN of some
\* file, a CLOSE of any number, or a request that leaves the descriptors
\* alone.  A READ or WRITE through a number that stands for something else,
\* and a DREAD or DCLOSE of a wild pointer, are not followed further.
TornHandler ==
    \/ tab' \in {tab, Alloc(tab, "file")} /\ UNCHANGED <<astray, pc>>
    \/ \E f \in Fd \cap Strays : CloseAstray(f) /\ UNCHANGED pc
    \/ pc' = "undefined" /\ UNCHANGED <<tab, astray>>

\* The link is lost inside a request: the failure to receive the rest of it
\* is ignored, and its handler runs.  The link ends after it or, if the loss
\* was a reset, the reply kills pksh by SIGPIPE.
ScanSrvTorn(s) ==
    /\ SrvHit(s) /\ srvIn = "torn"
    /\ i' = s + 1
    /\ \/ TornHandler /\ srvIn' \in {"eof", "reset"}
       \/ pc' = "exited" /\ UNCHANGED <<tab, astray, srvIn>>
    /\ UNCHANGED <<watch, readset, doloop, resume, links, logs, ghosts,
                   renewed, tools, cin, logIn>>

\* The result of a receive that failed with ECONNRESET is ignored; the next
\* one returns 0.
ScanSrvError(s) ==
    /\ SrvHit(s) /\ srvIn = "reset"
    /\ srvIn' = "eof" /\ i' = s + 1
    /\ UNCHANGED <<tab, watch, readset, doloop, pc, resume, links, logs,
                   ghosts, renewed, astray, tools, cin, logIn>>

ScanSrvEof(s) ==
    /\ SrvHit(s) /\ srvIn = "eof"
    /\ tab' = DropLink(tab)
    /\ change_prompt
    /\ pc' = "away" /\ resume' = "srv"
    /\ srvIn' = "none" /\ i' = s + 1
    /\ UNCHANGED <<watch, readset, doloop, pko_srv_fd, ps2_netfs_fd,
                   state, logs, ghosts, renewed, astray, tools, cin, logIn>>

\* Mutant: cmd_listener leaks its socket whenever it fails.
M_FailedTab(how) == Alloc(tab, "dead")

\* cmd_listener closes its socket when the connection is refused late or
\* times out, and leaks it when connect() fails at once.
FailedTab(how) == IF how = "immediate" THEN Alloc(tab, "dead") ELSE tab

\* One failed turn of a reconnect loop.
ReconnectFail(how) ==
    /\ pc = "away"
    /\ pko_srv_fd' = NoFd
    /\ tab' = FailedTab(how)
    /\ UNCHANGED <<watch, readset, doloop, i, pc, resume, ps2_netfs_fd,
                   state, cprompt, logs, ghosts, renewed, astray, tools, inputs>>

\* The turn that ends it, with the rest of the handler it was called from.
ReconnectOk ==
    /\ pc = "away" /\ HasFree(tab)
    /\ pko_srv_fd' = Lowest(tab)
    /\ change_prompt
    /\ LET t == Alloc(tab, "srv") IN
       \/ /\ resume = "srv"
          /\ tab' = Close(t, ps2_netfs_fd) /\ ForgetNetfs
          /\ UNCHANGED <<state, ghosts>>
       \/ /\ resume = "exec"
          /\ tab' = CmdCon(t) /\ state' = 1
          /\ \E sent \in Sent(t, "execee") :
                /\ out' = out \cup sent
                /\ ps2' = IF sent # {} THEN "loaded" ELSE ps2
          /\ UNCHANGED <<ps2_netfs_fd, ask>>
    /\ Continue
    /\ renewed' = TRUE
    /\ UNCHANGED <<astray, watch, readset, doloop, i, logs, tools, inputs>>

-----------------------------------------------------------------------------
(* A hit on the listening socket, and on a tool.                           *)

ListenHit(s) ==
    /\ Hit(s) /\ client[s] \notin {log_fd, 0, pko_srv_fd}
    /\ client[s] = pksh_srv_fd /\ tab[pksh_srv_fd] = "listen"

\* The loop that looks for a free slot does not stop at the end of client[].
FreeSlot(j) == client[j] = NoFd /\ \A k \in Slot : k < j => client[k] # NoFd

SlotsFull == \A k \in Slot : client[k] # NoFd

Larger(a, b) == IF a > b THEN a ELSE b

\* Mutants: maxi is taken for a count; maxfd is not raised.
M_AddClientCount(j, connfd) ==
    /\ client' = [client EXCEPT ![j] = connfd]
    /\ master_set' = master_set \cup {connfd}
    /\ maxfd' = Larger(connfd, maxfd)
    /\ maxi' = Larger(j + 1, maxi)

M_AddClientMaxfd(j, connfd) ==
    /\ client' = [client EXCEPT ![j] = connfd]
    /\ master_set' = master_set \cup {connfd}
    /\ maxi' = Larger(j, maxi)
    /\ UNCHANGED maxfd

AddClient(j, connfd) ==
    /\ client' = [client EXCEPT ![j] = connfd]
    /\ master_set' = master_set \cup {connfd}
    /\ maxfd' = Larger(connfd, maxfd)
    /\ maxi' = Larger(j, maxi)

Accept(s, t, j) ==
    /\ ListenHit(s) /\ t \in Backlog /\ HasFree(tab) /\ FreeSlot(j)
    /\ tab' = Alloc(tab, t)
    /\ AddClient(j, Lowest(tab))
    /\ conn' = [conn EXCEPT ![t] = "accepted"]
    /\ i' = s + 1
    /\ UNCHANGED <<readset, doloop, pc, resume, links, logs, ghosts, renewed, astray,
                   pend, fin, inputs>>

\* accept() fails for want of a descriptor: -1 is stored in the slot, and the
\* bit FD_SET(-1) sets is that of no descriptor in use.
AcceptFails(s, j) ==
    /\ ListenHit(s) /\ ~HasFree(tab) /\ FreeSlot(j)
    /\ maxi' = Larger(j, maxi)
    /\ i' = s + 1
    /\ UNCHANGED <<tab, client, maxfd, master_set, readset, doloop, pc,
                   resume, links, logs, ghosts, renewed, astray, tools, inputs>>

\* client[] is overrun, or FD_SET(-1) is trapped: nothing is promised after.
AcceptUndefined(s) ==
    /\ ListenHit(s)
    /\ SlotsFull \/ ~HasFree(tab)
    /\ pc' = "undefined"
    /\ UNCHANGED <<tab, watch, readset, doloop, i, resume, links, logs,
                   ghosts, renewed, astray, tools, inputs>>

ClientHit(s) == Hit(s) /\ client[s] \notin {log_fd, 0, pko_srv_fd, pksh_srv_fd}

ScanToolRequest(s, t) ==
    /\ ClientHit(s) /\ tab[client[s]] = t /\ pend[t] # "none"
    /\ i' = s + 1 /\ ask' = pend[t]
    /\ pend' = [pend EXCEPT ![t] = "none"]
    /\ Relay(pend[t])
    /\ UNCHANGED <<watch, readset, renewed, astray, conn, fin, cin, logIn>>

\* Mutant: the closed descriptor is still watched.
M_DropClientWatched(s) ==
    /\ client' = [client EXCEPT ![s] = NoFd]
    /\ maxi' = maxi - 1
    /\ UNCHANGED <<maxfd, master_set>>

\* The tool has closed: free its slot, and scan one slot less from now on.
DropClient(s) ==
    /\ master_set' = master_set \ {client[s]}
    /\ client' = [client EXCEPT ![s] = NoFd]
    /\ maxi' = maxi - 1
    /\ UNCHANGED maxfd

ScanToolEof(s, t) ==
    /\ ClientHit(s) /\ tab[client[s]] = t /\ pend[t] = "none" /\ fin[t]
    /\ tab' = Close(tab, client[s])
    /\ DropClient(s)
    /\ conn' = [conn EXCEPT ![t] = "off"]
    /\ fin' = [fin EXCEPT ![t] = FALSE]
    /\ i' = s + 1
    /\ UNCHANGED <<readset, doloop, pc, resume, links, logs, ghosts,
                   renewed, astray, pend, inputs>>

\* A slot whose number no longer stands for what was put in it: the receive
\* fails with ENOTCONN, ENOTSOCK or EBADF, and pko_recv_bytes retries it.
ScanStale(s) ==
    /\ ClientHit(s) /\ tab[client[s]] \notin Tools
    /\ pc' = "wedged"
    /\ UNCHANGED <<tab, watch, readset, doloop, i, resume, links, logs,
                   ghosts, renewed, astray, tools, inputs>>

\* One of the four fixed numbers, closed and perhaps in use again for
\* something else: what its handler makes of that is not followed further.
ScanLost(s) ==
    /\ Hit(s)
    /\ \/ client[s] = 0 /\ tab[0] # "std"
       \/ client[s] = log_fd /\ tab[log_fd] # "log"
       \/ client[s] = pko_srv_fd /\ tab[pko_srv_fd] # "srv"
       \/ client[s] = pksh_srv_fd /\ tab[pksh_srv_fd] # "listen"
    /\ pc' = "undefined"
    /\ UNCHANGED <<tab, watch, readset, doloop, i, resume, links, logs,
                   ghosts, renewed, astray, tools, inputs>>

-----------------------------------------------------------------------------
(* The environment: each step makes something readable.                    *)

\* pksh is in select(), or in a receive that has nothing to return.  What
\* arrives while it is in neither is not looked at before the next of these,
\* so an instance may leave it out.
Waiting == \/ pc = "select"
           \/ \E s \in Slot : Hit(s) /\ ~Ready(client[s])

Arrives ==
    /\ AnyTime \/ Waiting
    /\ UNCHANGED <<tab, watch, readset, doloop, i, pc, resume, links, logs,
                   ghosts, renewed, astray>>

ToolConnect(t) ==
    /\ conn[t] = "off" /\ pc # "exited"
    /\ conn' = [conn EXCEPT ![t] = "queued"]
    /\ UNCHANGED <<pend, fin, inputs>> /\ Arrives

ToolSend(t, q) ==
    /\ conn[t] # "off" /\ pend[t] = "none" /\ ~fin[t]
    /\ pend' = [pend EXCEPT ![t] = q]
    /\ UNCHANGED <<conn, fin, inputs>> /\ Arrives

ToolClose(t) ==
    /\ conn[t] # "off" /\ ~fin[t]
    /\ fin' = [fin EXCEPT ![t] = TRUE]
    /\ UNCHANGED <<conn, pend, inputs>> /\ Arrives

LinkUp == pc # "away" /\ pc # "exited"

\* ps2link waits for the reply to one request before it sends the next.
PS2Request ==
    /\ LinkUp /\ srvIn = "none"
    /\ srvIn' = "request"
    /\ UNCHANGED <<tools, cin, logIn>> /\ Arrives

\* The PS2 is reset or switched off: an orderly close or a TCP reset, or
\* either of them inside a request.
PS2Drop(how) ==
    /\ LinkUp /\ srvIn = "none"
    /\ srvIn' = how
    /\ UNCHANGED <<tools, cin, logIn>> /\ Arrives

PS2Log ==
    /\ ~logIn /\ logIn' = TRUE
    /\ UNCHANGED <<tools, srvIn, cin>> /\ Arrives

UserType(c) ==
    /\ cin = "none" /\ cin' = c
    /\ UNCHANGED <<tools, srvIn, logIn>> /\ Arrives

-----------------------------------------------------------------------------
Handle(s) ==
    \/ ScanLog(s) \/ ScanStdin(s)
    \/ ScanSrvRequest(s) \/ ScanSrvTorn(s) \/ ScanSrvError(s) \/ ScanSrvEof(s)
    \/ \E t \in Tools, j \in Slot : Accept(s, t, j)
    \/ \E j \in Slot : AcceptFails(s, j)
    \/ AcceptUndefined(s)
    \/ \E t \in Tools : ScanToolRequest(s, t) \/ ScanToolEof(s, t)
    \/ ScanStale(s) \/ ScanLost(s)

Pksh ==
    \/ Select \/ SelectFails \/ Exit \/ ScanDone
    \/ \E s \in Slot : Handle(s)

Environment ==
    \/ \E t \in Tools : ToolConnect(t) \/ ToolClose(t)
    \/ \E t \in Tools, q \in ReqUsed : ToolSend(t, q)
    \/ PS2Request
    \/ \E how \in {"eof", "reset", "torn"} : PS2Drop(how)
    \/ PS2Log
    \/ \E c \in CliUsed : UserType(c)

Next ==
    \/ Pksh
    \/ ReconnectOk
    \/ \E how \in Failures : ReconnectFail(how)
    \/ Environment

Spec == Init /\ [][Next]_vars

-----------------------------------------------------------------------------
(* Fairness: the PS2 comes back when it went away; pksh runs when it can.  *)

ReturnSpec == Spec /\ WF_vars(ReconnectOk)

FairSpec == ReturnSpec /\ WF_vars(Pksh)

-----------------------------------------------------------------------------
(* Properties.                                                             *)

Running == pc \in {"select", "scan"}

\* Every variable stays in its range: the descriptors the loop remembers are
\* numbers a descriptor can have, and maxi stays a slot of client[].
TypeOK ==
    /\ tab \in [Fd -> Kinds \cup Tools]
    /\ client \in [Slot -> Fd \cup {NoFd}]
    /\ maxi \in Slot /\ maxfd \in Fd
    /\ master_set \subseteq Fd /\ readset \subseteq Fd
    /\ doloop \in BOOLEAN /\ i \in 0..MaxClients
    /\ pc \in {"select", "scan", "away", "spin", "wedged", "undefined",
               "exited"}
    /\ resume \in {"srv", "exec"}
    /\ pko_srv_fd \in Fd \cup {NoFd} /\ ps2_netfs_fd \in Fd \cup {NoFd}
    /\ log_to_file \in BOOLEAN /\ log_f_fd \in Fd \cup {NoFd}
    /\ state \in {0, 1} /\ cprompt \in BOOLEAN
    /\ ask \in Cli \cup Reqs \cup {"none"}
    /\ out \subseteq Cli \cup Reqs
    /\ ps2 \in {"clean", "loaded", "missed"}
    /\ renewed \in BOOLEAN /\ astray \subseteq Fd
    /\ conn \in [Tools -> {"off", "queued", "accepted"}]
    /\ pend \in [Tools -> Reqs \cup {"none"}]
    /\ fin \in [Tools -> BOOLEAN]
    /\ srvIn \in {"none", "request", "torn", "eof", "reset"}
    /\ cin \in Cli \cup {"none"} /\ logIn \in BOOLEAN

\* main() never updates client[1] or master_set when the link is replaced, so
\* the PS2 is heard only if every reconnect got the number of the first
\* connection.  Whenever the loop runs, slot 1 and master_set hold the
\* descriptor of the live link.  The exception here and in the next four:
\* pko_srv_read ran a CLOSE on stale bytes when the link was lost inside it.
LinkWatched ==
    Running /\ astray = {} =>
        /\ client[1] = pko_srv_fd
        /\ pko_srv_fd \in Watched
        /\ tab[pko_srv_fd] = "srv"

\* In any environment the link moves to another number only in three ways:
\* cmd_listener left a socket behind under the old one, the log file that
\* .pkshrc made pksh open below it was closed, or the old number or one below
\* it was closed by a handler that took it for something else.
LinkMovesOnlyIf ==
    Running /\ client[1] # pko_srv_fd =>
        \/ tab[SrvFd0] = "dead"
        \/ LogInConfig /\ tab[NStd] # "logfile"
        \/ \E f \in astray : f <= SrvFd0

\* select() is never handed a closed descriptor (it would fail with EBADF for
\* ever), and no slot ever leads pko_recv_bytes to a descriptor on which it
\* retries for ever: unless a descriptor was closed astray, the shell does
\* not hang.
NeverStuck == astray = {} => pc \notin {"spin", "wedged"}

\* The slots and the descriptor table agree on the tools: each accepted tool
\* is in exactly one slot above the four fixed ones, under a number that
\* stands for it alone and that select() watches; a free slot holds none,
\* unless a descriptor was closed astray.
SlotsOwned ==
    pc \notin {"undefined", "exited"} /\ astray = {} =>
      /\ \A t \in Tools : conn[t] = "accepted" <=>
            \E s \in Slot : s >= 4 /\ client[s] \in Watched /\ tab[client[s]] = t
      /\ \A s1, s2 \in Slot :
            client[s1] # NoFd /\ client[s1] = client[s2] => s1 = s2

\* A handler is entered only for a descriptor that has something to read, so
\* the single thread does not block in recv; the exceptions are the link when
\* it was replaced after the select() whose result is being scanned, and a
\* descriptor closed astray.
NoBlindRead ==
    astray = {} =>
        \A s \in Slot : Hit(s) => \/ Ready(client[s])
                                  \/ client[s] = pko_srv_fd /\ renewed

\* The prompt says "peer away" exactly while a reconnect loop runs, although
\* change_prompt() only toggles it and two loops call it.
PromptHonest == cprompt = (pc # "away")

\* The number in ps2_netfs_fd, and in log_f_fd while logging to a file, never
\* comes to stand for something else: a later close() through it cannot take
\* down the link, a tool or a file of the PS2.  A number that was itself
\* closed astray is the exception, whatever else was.
OwnedNumbers ==
    pc # "exited" =>
      /\ ps2_netfs_fd \notin astray \cup {NoFd} =>
            tab[ps2_netfs_fd] = "netfs"
      /\ log_to_file /\ log_f_fd \notin astray \cup {NoFd} =>
            tab[log_f_fd] = "logfile"

\* cli_execee sends a program only to a PS2 that has been sent a RESET since
\* the last program, whichever of the shell and the tools started that one
\* and however long the reconnect took; unless pksh did try that RESET and
\* lost it, for want of a descriptor or because connect() or send() failed.
ExecAfterResetOnly ==
    [][ "execee" \in out' /\ "execee" \notin out => ps2 # "loaded" ]_vars

\* A request makes pksh send ps2link that command and no other; execee may
\* send the RESET it needs, and the GSEXEC case of pko_srv_read, which has no
\* break, goes on to send STOPVU.
NothingUnasked ==
    out \subseteq {ask} \cup (CASE ask = "execee" -> {"reset"}
                              [] ask = "gsexec" -> {"stopvu"}
                              [] OTHER -> {})

\* A lost link is replaced, and the loop runs again.
Reconnects == pc = "away" ~> pc # "away"

\* A request that reached pksh on a connection is read and carried out,
\* whatever other tools come and go, unless pksh ends or runs out of
\* descriptors.  main() breaks it: it lowers maxi whichever tool closes.
ToolServed ==
    \A t \in Tools :
        (conn[t] = "accepted" /\ pend[t] # "none")
            ~> (pend[t] = "none" \/ pc \in {"undefined", "exited"})
=============================================================================
