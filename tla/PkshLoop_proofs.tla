--------------------------- MODULE PkshLoop_proofs ---------------------------
(***************************************************************************)
(* Proofs about PkshLoop.  In a benign environment (connect() never fails  *)
(* at once, and the log file .pkshrc may name is not closed by hand) the   *)
(* loop keeps hearing the PS2 and the tools, for any descriptor limit, any *)
(* number of slots, any set of tools, any commands and requests otherwise, *)
(* and input arriving at any time; and it does so for as long as no CLOSE  *)
(* that lost its link has run on stale bytes (astray is empty).            *)
(***************************************************************************)
EXTENDS PkshLoop, TLAPS

Benign ==
    /\ "immediate" \notin Failures
    /\ LogInConfig => "logstdout" \notin CliUsed

\* What stands under a watched number must not change under the loop's feet.
Protected == {"std", "srv", "log", "listen"} \cup Tools

\* A change of the descriptor table that neither takes away nor creates a
\* protected entry.
Gentle(t, u) ==
    \A f \in Fd : t[f] \in Protected \/ u[f] \in Protected => u[f] = t[f]

FixedInv ==
    /\ client[0] = 0 /\ client[1] = SrvFd0
    /\ client[2] = log_fd /\ client[3] = pksh_srv_fd
    /\ maxi >= 3
    /\ pc # "exited" =>
         /\ \A f \in Fd : f < NStd => tab[f] = "std"
         /\ tab[log_fd] = "log" /\ tab[pksh_srv_fd] = "listen"

\* While the link is away its old number is free, and everything below is
\* taken: the next socket() gets it back.
LinkInv ==
    /\ pc \in {"select", "scan", "undefined"} =>
         pko_srv_fd = SrvFd0 /\ tab[SrvFd0] = "srv"
    /\ pc = "away" =>
         pko_srv_fd \in {SrvFd0, NoFd} /\ tab[SrvFd0] = "free"
    /\ pc \notin {"spin", "wedged"}

SlotInv ==
    /\ \A s1, s2 \in Slot :
         client[s1] # NoFd /\ client[s1] = client[s2] => s1 = s2
    /\ \A f \in Fd : f \in master_set <=> \E s \in Slot : client[s] = f
    /\ \A f \in master_set : f <= maxfd

ToolInv ==
    pc # "exited" =>
      /\ \A s \in Slot : s >= 4 /\ client[s] # NoFd => tab[client[s]] \in Tools
      /\ \A f \in Fd : tab[f] \in Tools =>
           /\ conn[tab[f]] = "accepted"
           /\ \E s \in Slot : s >= 4 /\ client[s] = f
      /\ \A t \in Tools : conn[t] = "accepted" =>
           \E s \in Slot : s >= 4 /\ client[s] # NoFd /\ tab[client[s]] = t
      /\ \A f, g \in Fd : tab[f] \in Tools /\ tab[f] = tab[g] => f = g

\* A log file that .pkshrc made pksh open is just below the link, and only
\* a command can close it.
BelowInv ==
    /\ cin \in CliUsed \cup {"none"}
    /\ LogInConfig /\ pc # "exited" => tab[NStd] = "logfile"

\* The remembered numbers stand for what they were opened as.
OwnInv ==
    pc # "exited" =>
      /\ ps2_netfs_fd # NoFd => tab[ps2_netfs_fd] = "netfs"
      /\ log_to_file /\ log_f_fd # NoFd => tab[log_f_fd] = "logfile"

IndInv ==
    TypeOK /\ FixedInv /\ LinkInv /\ SlotInv /\ ToolInv /\ OwnInv
           /\ PromptHonest /\ BelowInv

-----------------------------------------------------------------------------
(* Numbers, and the kernel's table.                                        *)

Numbers ==
    /\ SrvFd0 \in Fd /\ log_fd \in Fd /\ pksh_srv_fd \in Fd /\ 0 \in Fd
    /\ 0 < SrvFd0 /\ SrvFd0 < log_fd /\ log_fd < pksh_srv_fd
    /\ NStd <= SrvFd0 /\ NStd \in Nat /\ NStd \in Fd
    /\ \A f \in Fd : f < SrvFd0 => f < NStd \/ (LogInConfig /\ f = NStd)
    /\ 0 \in Slot /\ 1 \in Slot /\ 2 \in Slot /\ 3 \in Slot /\ 4 \in Slot
    /\ NoFd \notin Fd

\* The numbers main() hands out at start are distinct and in range.
LEMMA NumbersHold == Numbers
BY LoopConstants, SetupFits
   DEF Numbers, SrvFd0, CmdFd0, log_fd, pksh_srv_fd, Fd, Slot, NoFd

Table == [Fd -> Kinds \cup Tools]

\* socket(), accept(), open(): only one free entry changes.
LEMMA AllocFacts ==
    ASSUME NEW t \in Table, NEW k \in Kinds \cup Tools
    PROVE  /\ Alloc(t, k) \in Table
           /\ \A f \in Fd : t[f] # "free" => Alloc(t, k)[f] = t[f]
           /\ \A f \in Fd : Alloc(t, k)[f] \in {t[f], k}
           /\ HasFree(t) => /\ Lowest(t) \in Fd
                            /\ t[Lowest(t)] = "free"
                            /\ Alloc(t, k) = [t EXCEPT ![Lowest(t)] = k]
           /\ ~HasFree(t) => Alloc(t, k) = t
           /\ Opened(t) \in Fd \cup {NoFd}
           /\ Opened(t) # NoFd => Alloc(t, k)[Opened(t)] = k
<1>1. HasFree(t) => Lowest(t) \in Fd /\ IsLowest(t, Lowest(t))
  BY DEF HasFree, Lowest
<1>2. HasFree(t) => t[Lowest(t)] = "free"
  BY <1>1 DEF IsLowest
<1>3. CASE HasFree(t)
  BY <1>1, <1>2, <1>3 DEF Alloc, Opened, Table
<1>4. CASE ~HasFree(t)
  BY <1>4 DEF Alloc, Opened, Table
<1> QED BY <1>3, <1>4

\* If everything below a free number is taken, that number comes next.
LEMMA LowestIs ==
    ASSUME NEW t \in Table, NEW f \in Fd, IsLowest(t, f)
    PROVE  HasFree(t) /\ Lowest(t) = f
<1>1. HasFree(t) /\ Lowest(t) \in Fd /\ IsLowest(t, Lowest(t))
  BY DEF HasFree, Lowest
<1>2. ~(Lowest(t) < f) /\ ~(f < Lowest(t))
  BY <1>1 DEF IsLowest
<1> QED BY <1>1, <1>2 DEF Fd

\* close(): one entry becomes free, or none.
LEMMA CloseFacts ==
    ASSUME NEW t \in Table, NEW n \in Fd \cup {NoFd}
    PROVE  /\ Close(t, n) \in Table
           /\ \A f \in Fd : f # n => Close(t, n)[f] = t[f]
           /\ n \in Fd => Close(t, n)[n] = "free"
BY DEF Close, Table, Kinds

\* pko_cmd_con disturbs nothing that is open.
LEMMA CmdConFacts ==
    ASSUME NEW t \in Table
    PROVE  /\ CmdCon(t) \in Table
           /\ \A f \in Fd : t[f] # "free" => CmdCon(t)[f] = t[f]
           /\ \A f \in Fd : CmdCon(t)[f] \in {t[f], "cmd"}
BY AllocFacts, "cmd" \in Kinds DEF CmdCon, Kinds
-----------------------------------------------------------------------------
(* What every handler guarantees, called from the shell or from a tool.    *)

HandlerTypes ==
    /\ tab' \in Table
    /\ ps2_netfs_fd' \in Fd \cup {NoFd} /\ log_f_fd' \in Fd \cup {NoFd}
    /\ log_to_file' \in BOOLEAN /\ doloop' \in BOOLEAN
    /\ ps2' \in {"clean", "loaded", "missed"} /\ state' \in {0, 1}
    /\ resume' \in {"srv", "exec"} /\ out' \subseteq Cli \cup Reqs
    /\ srvIn' \in {"none", "request", "torn", "eof", "reset"}

Returns == pc' = "scan" /\ cprompt' = cprompt /\ Gentle(tab, tab')

LosesLink ==
    /\ pc' = "away" /\ cprompt' = ~cprompt
    /\ tab'[SrvFd0] = "free"
    /\ \A f \in Fd : f # SrvFd0 /\ (tab[f] \in Protected \/ tab'[f] \in Protected)
                   => tab'[f] = tab[f]

KeepsLog == LogInConfig /\ tab[NStd] = "logfile" => tab'[NStd] = "logfile"

HandlerOK ==
    /\ HandlerTypes /\ OwnInv' /\ pko_srv_fd' = pko_srv_fd /\ KeepsLog
    /\ Returns \/ LosesLink

\* A handler that only opens one descriptor, of a kind nobody watches.
LEMMA OpensOne ==
    ASSUME IndInv, pc = "scan", NEW k \in {"cmd", "netfs", "logfile", "file",
                                           "copy", "dead"}
    PROVE  /\ Gentle(tab, Alloc(tab, k))
           /\ Alloc(tab, k) \in Table
           /\ \A n \in Fd : tab[n] # "free" => Alloc(tab, k)[n] = tab[n]
<1>1. tab \in Table /\ k \in Kinds \cup Tools
  BY DEF IndInv, TypeOK, Table, Kinds
<1>2. "free" \notin Protected /\ k \notin Protected
  BY LoopConstants DEF Protected, Kinds
<1> QED BY <1>1, <1>2, AllocFacts DEF Gentle

LEMMA SendCmdOK ==
    ASSUME IndInv, pc = "scan", NEW c \in Cli \cup Reqs, NEW b \in BOOLEAN,
           SendCmd(c, b)
    PROVE  HandlerOK
<1>1. /\ Gentle(tab, tab') /\ tab' \in Table
      /\ \A n \in Fd : tab[n] # "free" => tab'[n] = tab[n]
  BY OpensOne DEF SendCmd, CmdCon
<1>2. OwnInv'
  BY <1>1 DEF SendCmd, OwnInv, IndInv, TypeOK, links, logs, Continue
<1>3. HandlerTypes
  BY <1>1 DEF SendCmd, HandlerTypes, IndInv, TypeOK, links, logs, Continue,
              Sent
<1> QED BY <1>1, <1>2, <1>3, NumbersHold
        DEF SendCmd, HandlerOK, KeepsLog, Numbers, Returns, links, Continue

\* Every handler that neither opens nor closes.
LEMMA NoEffectOK ==
    ASSUME IndInv, pc = "scan", NoEffect \/ cli_quit
    PROVE  HandlerOK
<1>1. tab' = tab /\ tab \in Table
  BY DEF NoEffect, cli_quit, IndInv, TypeOK, Table
<1>2. OwnInv'
  BY <1>1 DEF NoEffect, cli_quit, OwnInv, IndInv, links, logs, Continue
<1>3. HandlerTypes
  BY <1>1 DEF NoEffect, cli_quit, HandlerTypes, IndInv, TypeOK, links, logs,
              Continue
<1> QED BY <1>1, <1>2, <1>3
        DEF NoEffect, cli_quit, HandlerOK, KeepsLog, Returns, Gentle, links,
            Continue

LEMMA ExecIopOK ==
    ASSUME IndInv, pc = "scan", cli_execeiop \/ ExecNow
    PROVE  HandlerOK
<1>1. /\ Gentle(tab, tab') /\ tab' \in Table
      /\ \A n \in Fd : tab[n] # "free" => tab'[n] = tab[n]
  BY OpensOne DEF cli_execeiop, ExecNow, ProgramSent, CmdCon
<1>2. OwnInv'
  BY <1>1 DEF cli_execeiop, ExecNow, ProgramSent, OwnInv, IndInv, TypeOK, logs,
              Continue
<1>3. ps2' \in {"clean", "loaded", "missed"}
  BY DEF cli_execeiop, ExecNow, ProgramSent, IndInv, TypeOK
<1>4. HandlerTypes
  BY <1>1, <1>3 DEF cli_execeiop, ExecNow, ProgramSent, HandlerTypes, IndInv, TypeOK,
                    logs, Continue, Sent, Cli, Reqs
<1> QED BY <1>1, <1>2, <1>4, NumbersHold
        DEF cli_execeiop, ExecNow, ProgramSent, HandlerOK, KeepsLog, Numbers, Returns, Continue

\* The table after cli_reset: the PS2NetFS connection is gone, and the
\* watched descriptors and the log file are not.
LEMMA ResetTabFacts ==
    ASSUME IndInv, pc = "scan"
    PROVE  /\ ResetTab(tab) \in Table
           /\ Gentle(tab, ResetTab(tab))
           /\ \A n \in Fd : tab[n] = "logfile" => ResetTab(tab)[n] = "logfile"
<1> DEFINE t == CmdCon(tab)
<1>1. /\ t \in Table /\ Gentle(tab, t)
      /\ \A n \in Fd : tab[n] # "free" => t[n] = tab[n]
  BY OpensOne DEF CmdCon
<1>2. /\ ps2_netfs_fd \in Fd \cup {NoFd}
      /\ ps2_netfs_fd \in Fd => tab[ps2_netfs_fd] = "netfs"
  BY NumbersHold DEF IndInv, TypeOK, OwnInv, Numbers
<1>3. ps2_netfs_fd \in Fd => t[ps2_netfs_fd] = "netfs"
  BY <1>1, <1>2
<1>4. {"netfs", "free"} \cap Protected = {}
  BY LoopConstants DEF Protected, Kinds
<1>5. /\ Close(t, ps2_netfs_fd) \in Table
      /\ \A f \in Fd : f # ps2_netfs_fd => Close(t, ps2_netfs_fd)[f] = t[f]
      /\ ps2_netfs_fd \in Fd => Close(t, ps2_netfs_fd)[ps2_netfs_fd] = "free"
  BY <1>1, <1>2, CloseFacts
<1> QED BY <1>1, <1>2, <1>3, <1>4, <1>5 DEF ResetTab, Gentle

LEMMA ResetOK ==
    ASSUME IndInv, pc = "scan", cli_reset
    PROVE  HandlerOK
<1>1. /\ Gentle(tab, tab') /\ tab' \in Table
      /\ \A n \in Fd : tab[n] = "logfile" => tab'[n] = "logfile"
  BY ResetTabFacts DEF cli_reset
<1>2. OwnInv'
  BY <1>1 DEF cli_reset, ResetSent, ForgetNetfs, OwnInv, IndInv, TypeOK,
              logs, Continue
<1>3. ps2' \in {"clean", "loaded", "missed"}
  BY DEF cli_reset, ResetSent, IndInv, TypeOK
<1>4. HandlerTypes
  BY <1>1, <1>3 DEF cli_reset, ResetSent, ForgetNetfs, HandlerTypes, IndInv,
                    TypeOK, logs, Continue, Sent, Cli, Reqs
<1> QED BY <1>1, <1>2, <1>4, NumbersHold
        DEF cli_reset, HandlerOK, KeepsLog, Numbers, Returns, Continue

LEMMA ExecAfterResetOK ==
    ASSUME IndInv, pc = "scan", ExecAfterReset
    PROVE  HandlerOK
<1> DEFINE t == ResetTab(tab)
<1>1. /\ t \in Table /\ Gentle(tab, t)
      /\ \A n \in Fd : tab[n] = "logfile" => t[n] = "logfile"
  BY ResetTabFacts
<1>2. pko_srv_fd = SrvFd0 /\ tab[SrvFd0] = "srv" /\ SrvFd0 \in Fd
  BY NumbersHold DEF IndInv, LinkInv, Numbers
<1>3. /\ tab' \in Table
      /\ \A f \in Fd : f # SrvFd0 => tab'[f] = t[f]
      /\ tab'[SrvFd0] = "free"
  BY <1>1, <1>2, CloseFacts DEF ExecAfterReset, DropLink
<1>4. t[SrvFd0] = "srv"
  BY <1>1, <1>2 DEF Gentle, Protected
<1>5. OwnInv'
  BY <1>1, <1>2, <1>3, <1>4
     DEF ExecAfterReset, ResetSent, ForgetNetfs, OwnInv, IndInv,
         TypeOK, logs
<1>6. ps2' \in {"clean", "loaded", "missed"}
  BY DEF ExecAfterReset, ResetSent, IndInv, TypeOK
<1>7. HandlerTypes
  BY <1>3, <1>6 DEF ExecAfterReset, ResetSent, ForgetNetfs, HandlerTypes,
                    IndInv, TypeOK, logs, Sent, Cli, Reqs
<1>8. LosesLink
  BY <1>1, <1>3 DEF ExecAfterReset, change_prompt, LosesLink, Gentle
<1>9. KeepsLog
  BY <1>1, <1>3, <1>4, NumbersHold DEF KeepsLog, Numbers
<1> QED BY <1>5, <1>7, <1>8, <1>9 DEF ExecAfterReset, HandlerOK

LEMMA LogOK ==
    ASSUME IndInv, pc = "scan", LogToFile \/ (~LogInConfig /\ LogToStdout)
    PROVE  HandlerOK
<1>0. /\ tab \in Table /\ log_f_fd \in Fd \cup {NoFd}
      /\ log_to_file /\ log_f_fd \in Fd => tab[log_f_fd] = "logfile"
      /\ ps2_netfs_fd \in Fd \cup {NoFd}
      /\ ps2_netfs_fd \in Fd => tab[ps2_netfs_fd] = "netfs"
  BY NumbersHold DEF IndInv, TypeOK, OwnInv, Table, Numbers
<1>1. CASE LogToFile /\ tab' = tab /\ log_f_fd' = NoFd
  <2>1. OwnInv'
    BY <1>1 DEF LogToFile, OwnInv, IndInv, links, Continue
  <2>2. HandlerTypes
    BY <1>0, <1>1 DEF LogToFile, HandlerTypes, IndInv, TypeOK, links, Continue
  <2> QED BY <1>1, <2>1, <2>2
          DEF LogToFile, HandlerOK, KeepsLog, Returns, Gentle, links, Continue
<1>2. CASE LogToFile /\ tab' = Alloc(tab, "logfile") /\ log_f_fd' = Opened(tab)
  <2>1. /\ Gentle(tab, tab') /\ tab' \in Table
        /\ \A n \in Fd : tab[n] # "free" => tab'[n] = tab[n]
    BY <1>2, OpensOne
  <2>2. /\ log_f_fd' \in Fd \cup {NoFd}
        /\ log_f_fd' # NoFd => tab'[log_f_fd'] = "logfile"
    BY <1>0, <1>2, AllocFacts DEF Kinds
  <2>3. OwnInv'
    BY <1>0, <1>2, <2>1, <2>2 DEF LogToFile, OwnInv, links, Continue
  <2>4. HandlerTypes
    BY <1>2, <2>1, <2>2
       DEF LogToFile, HandlerTypes, IndInv, TypeOK, links, Continue
  <2> QED BY <1>2, <2>1, <2>3, <2>4, NumbersHold
          DEF LogToFile, HandlerOK, KeepsLog, Numbers, Returns, links, Continue
<1>3. CASE ~LogInConfig /\ LogToStdout
  <2>1. /\ tab' \in Table
        /\ \A f \in Fd : \/ tab'[f] = tab[f]
                         \/ tab[f] = "logfile" /\ tab'[f] = "free"
    BY <1>0, <1>3, CloseFacts DEF LogToStdout
  <2>2. {"logfile", "free"} \cap Protected = {}
    BY LoopConstants DEF Protected, Kinds
  <2>3. OwnInv'
    BY <1>0, <1>3, <2>1 DEF LogToStdout, OwnInv, links, Continue
  <2>4. HandlerTypes
    BY <1>3, <2>1 DEF LogToStdout, HandlerTypes, IndInv, TypeOK, links,
                      Continue
  <2> QED BY <1>3, <2>1, <2>2, <2>3, <2>4
          DEF LogToStdout, HandlerOK, KeepsLog, Returns, Gentle, links, Continue
<1> QED BY <1>1, <1>2, <1>3 DEF LogToFile

\* The netfs commands: connected, refused, dropped, or a copy that leaks.
LEMMA NetfsOK ==
    ASSUME Benign, IndInv, pc = "scan", NEW c \in Cli, NetfsCommand(c)
    PROVE  HandlerOK
<1>0. /\ tab \in Table /\ ps2_netfs_fd \in Fd \cup {NoFd}
      /\ ps2_netfs_fd \in Fd => tab[ps2_netfs_fd] = "netfs"
      /\ NoFd \notin Fd
  BY NumbersHold DEF IndInv, TypeOK, OwnInv, Table, Numbers
<1>1. {"netfs", "free", "copy"} \cap Protected = {}
  BY LoopConstants DEF Protected, Kinds
<1>2. {"netfs", "copy"} \subseteq Kinds \cup Tools
  BY DEF Kinds
<1>3. /\ tab' \in Table /\ Gentle(tab, tab')
      /\ ps2_netfs_fd' \in Fd \cup {NoFd}
      /\ ps2_netfs_fd' # NoFd => tab'[ps2_netfs_fd'] = "netfs"
      /\ \A n \in Fd : tab[n] = "logfile" => tab'[n] = "logfile"
  <2>1. CASE NetfsOpened
    <3>1. tab' = Alloc(tab, "netfs") /\ ps2_netfs_fd' = Opened(tab)
      BY <2>1 DEF NetfsOpened, Opened
    <3>2. /\ tab' \in Table
          /\ \A f \in Fd : tab[f] # "free" => tab'[f] = tab[f]
          /\ \A f \in Fd : tab'[f] \in {tab[f], "netfs"}
      BY <3>1, <1>0, <1>2, AllocFacts
    <3>3. /\ ps2_netfs_fd' \in Fd \cup {NoFd}
          /\ ps2_netfs_fd' # NoFd => tab'[ps2_netfs_fd'] = "netfs"
      BY <3>1, <1>0, <1>2, AllocFacts
    <3> QED BY <3>2, <3>3, <1>1 DEF Gentle
  <2>2. CASE NetfsRefused
    BY <2>2 DEF NetfsRefused, Benign
  <2>3. CASE NetfsDropped
    BY <2>3, <1>0, <1>1, CloseFacts DEF NetfsDropped, ForgetNetfs, Gentle
  <2>4. CASE CopyLeaks
    <3> DEFINE n == IF ps2_netfs_fd = NoFd THEN Opened(tab) ELSE ps2_netfs_fd
               t == IF ps2_netfs_fd = NoFd THEN Alloc(tab, "netfs") ELSE tab
               u == Alloc(t, "copy")
    <3>1. /\ t \in Table /\ n \in Fd /\ t[n] = "netfs"
          /\ \A f \in Fd : tab[f] # "free" => t[f] = tab[f]
          /\ \A f \in Fd : t[f] \in {tab[f], "netfs"}
      <4>1. CASE ps2_netfs_fd = NoFd
        BY <4>1, <2>4, <1>0, <1>2, AllocFacts DEF CopyLeaks
      <4>2. CASE ps2_netfs_fd # NoFd
        BY <4>2, <1>0
      <4> QED BY <4>1, <4>2
    <3>2. /\ u \in Table
          /\ \A f \in Fd : t[f] # "free" => u[f] = t[f]
          /\ \A f \in Fd : u[f] \in {t[f], "copy"}
      BY <3>1, <1>2, AllocFacts
    <3>3. /\ u[n] = "netfs"
          /\ \A f \in Fd : tab[f] # "free" => u[f] = tab[f]
          /\ \A f \in Fd : u[f] \in {tab[f], "netfs", "copy"}
      BY <3>1, <3>2
    <3>4. CASE tab' = u /\ ps2_netfs_fd' = n
      BY <3>4, <3>1, <3>2, <3>3, <1>1 DEF Gentle
    <3>5. CASE tab' = Close(u, n) /\ ps2_netfs_fd' = NoFd
      <4>1. /\ Close(u, n) \in Table
            /\ \A f \in Fd : f # n => Close(u, n)[f] = u[f]
            /\ Close(u, n)[n] = "free"
        BY <3>1, <3>2, CloseFacts
      <4>2. tab[n] \in {"free", "netfs"}
        BY <3>1
      <4> QED BY <3>5, <4>1, <4>2, <3>1, <3>3, <1>1 DEF Gentle
    <3> QED BY <2>4, <3>4, <3>5 DEF CopyLeaks, ForgetNetfs
  <2> QED BY <2>1, <2>2, <2>3, <2>4 DEF NetfsCommand
<1>4. OwnInv'
  BY <1>3 DEF NetfsCommand, OwnInv, IndInv, TypeOK, logs, Continue
<1>5. HandlerTypes
  BY <1>3 DEF NetfsCommand, HandlerTypes, IndInv, TypeOK, logs, Continue
<1> QED BY <1>3, <1>4, <1>5, NumbersHold
        DEF NetfsCommand, HandlerOK, KeepsLog, Numbers, Returns, Continue

\* A relayed GSEXEC opens one descriptor or two.
LEMMA RelayGsexecOK ==
    ASSUME IndInv, pc = "scan", RelayGsexec
    PROVE  HandlerOK
<1>0. tab \in Table /\ {"cmd", "free"} \cap Protected = {}
  BY LoopConstants DEF IndInv, TypeOK, Table, Protected, Kinds
<1>1. /\ CmdCon(tab) \in Table
      /\ \A f \in Fd : tab[f] # "free" => CmdCon(tab)[f] = tab[f]
      /\ \A f \in Fd : CmdCon(tab)[f] \in {tab[f], "cmd"}
  BY <1>0, CmdConFacts
<1>2. /\ CmdCon(CmdCon(tab)) \in Table
      /\ \A f \in Fd : CmdCon(tab)[f] # "free" =>
                        CmdCon(CmdCon(tab))[f] = CmdCon(tab)[f]
      /\ \A f \in Fd : CmdCon(CmdCon(tab))[f] \in {CmdCon(tab)[f], "cmd"}
  BY <1>1, CmdConFacts
<1>3. /\ tab' \in Table /\ Gentle(tab, tab')
      /\ \A f \in Fd : tab[f] # "free" => tab'[f] = tab[f]
  BY <1>0, <1>1, <1>2 DEF RelayGsexec, Gentle
<1>4. OwnInv'
  BY <1>3 DEF RelayGsexec, OwnInv, IndInv, TypeOK, links, logs, Continue
<1>5. HandlerTypes
  BY <1>3 DEF RelayGsexec, HandlerTypes, IndInv, TypeOK, links, logs,
              Continue, Sent, Cli, Reqs, UdpCli
<1> QED BY <1>3, <1>4, <1>5, NumbersHold
        DEF RelayGsexec, HandlerOK, KeepsLog, Numbers, Returns, links, Continue

\* Every command of the shell and every request of a tool.
LEMMA ExecuteOK ==
    ASSUME Benign, IndInv, pc = "scan", NEW c \in CliUsed, Execute(c)
    PROVE  HandlerOK
<1>1. c \in Cli /\ (c = "logstdout" => ~LogInConfig)
  BY LoopConstants DEF Benign
<1> QED BY <1>1, SendCmdOK, NoEffectOK, ExecIopOK, ResetOK, ExecAfterResetOK,
           LogOK, NetfsOK
        DEF Execute, cli_execee

LEMMA RelayOK ==
    ASSUME Benign, IndInv, pc = "scan", NEW q \in Reqs, Relay(q)
    PROVE  HandlerOK
BY SendCmdOK, NoEffectOK, ExecIopOK, ResetOK, ExecAfterResetOK, RelayGsexecOK
   DEF Relay, cli_execee
-----------------------------------------------------------------------------
(* The watched descriptors, step by step.                                  *)

WatchInv == FixedInv /\ LinkInv /\ SlotInv /\ ToolInv

\* A step that leaves the slots alone and changes the table gently.
LEMMA GentleStep ==
    ASSUME IndInv, pc \in {"select", "scan"}, pc' \in {"select", "scan", "undefined"},
           Gentle(tab, tab'), UNCHANGED <<watch, conn, pko_srv_fd>>
    PROVE  WatchInv'
<1>1. FixedInv'
  BY NumbersHold DEF IndInv, FixedInv, Gentle, Protected, Numbers, watch
<1>2. LinkInv'
  BY NumbersHold DEF IndInv, LinkInv, Gentle, Protected, Numbers
<1>3. SlotInv'
  BY DEF IndInv, SlotInv, watch
<1>4. ToolInv'
  <2>1. \A f \in Fd : tab[f] \in Tools \/ tab'[f] \in Tools => tab'[f] = tab[f]
    BY DEF Gentle, Protected
  <2>2. client \in [Slot -> Fd \cup {NoFd}] /\ pc # "exited"
    BY DEF IndInv, TypeOK
  <2> QED BY <2>1, <2>2 DEF IndInv, ToolInv, watch
<1> QED BY <1>1, <1>2, <1>3, <1>4 DEF WatchInv

\* The step that loses the link.
LEMMA LosesLinkStep ==
    ASSUME IndInv, pc = "scan", LosesLink, UNCHANGED <<watch, conn, pko_srv_fd>>
    PROVE  WatchInv'
<1>0. tab[SrvFd0] = "srv" /\ pko_srv_fd = SrvFd0 /\ "srv" \notin Tools
      /\ "free" \notin Tools
  BY LoopConstants DEF IndInv, LinkInv, Kinds
<1>1. FixedInv'
  BY NumbersHold DEF IndInv, FixedInv, LosesLink, Protected, Numbers, watch, Fd
<1>2. LinkInv'
  BY <1>0 DEF LinkInv, LosesLink
<1>3. SlotInv'
  BY DEF IndInv, SlotInv, watch
<1>4. ToolInv'
  <2>1. \A f \in Fd : tab[f] \in Tools \/ tab'[f] \in Tools => tab'[f] = tab[f]
    BY <1>0 DEF LosesLink, Protected
  <2>2. client \in [Slot -> Fd \cup {NoFd}] /\ pc # "exited"
    BY DEF IndInv, TypeOK
  <2> QED BY <2>1, <2>2 DEF IndInv, ToolInv, watch
<1> QED BY <1>1, <1>2, <1>3, <1>4 DEF WatchInv

\* A handler called from the scan preserves the whole invariant.
LEMMA HandlerStep ==
    ASSUME IndInv, pc = "scan", HandlerOK, i' \in 0..MaxClients,
           ask' \in Cli \cup Reqs \cup {"none"}, cin' \in CliUsed \cup {"none"},
           pend' \in [Tools -> Reqs \cup {"none"}],
           UNCHANGED <<watch, readset, renewed, astray, conn, fin, logIn>>
    PROVE  IndInv'
<1>1. WatchInv'
  BY GentleStep, LosesLinkStep DEF HandlerOK, Returns
<1>2. pc' \in {"scan", "away"} /\ PromptHonest' /\ cprompt' \in BOOLEAN
  BY DEF HandlerOK, Returns, LosesLink, IndInv, PromptHonest
<1>3. TypeOK'
  BY <1>2, LoopConstants
     DEF HandlerOK, HandlerTypes, IndInv, TypeOK, Table, watch
<1>4. BelowInv'
  BY DEF HandlerOK, KeepsLog, IndInv, BelowInv
<1> QED BY <1>1, <1>2, <1>3, <1>4 DEF IndInv, WatchInv, HandlerOK

LEMMA BelowKept ==
    ASSUME IndInv, cin' = cin, pc' # "exited" => pc # "exited" /\ KeepsLog
    PROVE  BelowInv'
BY DEF IndInv, BelowInv, KeepsLog

\* Which of the fixed descriptors, or a tool, a slot holds.
LEMMA SlotHolds ==
    ASSUME IndInv, pc # "exited", NEW s \in Slot, client[s] \in Fd,
           client[s] \notin {log_fd, 0, SrvFd0, pksh_srv_fd}
    PROVE  s >= 4 /\ tab[client[s]] \in Tools
<1>1. s \notin {0, 1, 2, 3}
  BY DEF IndInv, FixedInv
<1> QED BY <1>1, NumbersHold DEF IndInv, ToolInv, Slot, Numbers
-----------------------------------------------------------------------------
(* The actions of the thread.                                              *)

\* Where the log file of .pkshrc and the link are at the start.
LEMMA Places ==
    /\ NStd \in Fd /\ SrvFd0 \in Fd /\ NoFd \notin Fd /\ 1 \in Slot
    /\ LogInConfig => SrvFd0 = NStd + 1
    /\ ~LogInConfig => SrvFd0 = NStd
BY NumbersHold, LoopConstants DEF Numbers, SrvFd0, Fd

\* What main() has opened when the loop begins.
LEMMA InitTable ==
    ASSUME Init
    PROVE  /\ tab \in Table /\ OwnInv
           /\ ps2_netfs_fd \in Fd \cup {NoFd} /\ log_f_fd \in Fd \cup {NoFd}
           /\ tab[SrvFd0] = "srv" /\ (LogInConfig => tab[NStd] = "logfile")
           /\ \A f \in Fd : f < NStd => tab[f] = "std"
<1>1. tab \in Table
  BY DEF Init, Table, Kinds
<1>2. ps2_netfs_fd \in Fd \cup {NoFd} /\ log_f_fd \in Fd \cup {NoFd}
  BY Places, LoopConstants, SetupFits
     DEF Init, CmdFd0, log_fd, pksh_srv_fd, Fd
<1>3. tab[SrvFd0] = "srv"
  <2>1. /\ SrvFd0 \in Fd /\ ~(SrvFd0 < NStd) /\ ~(SrvFd0 = NStd /\ LogInConfig)
        /\ SrvFd0 # SrvFd0 + 1 /\ SrvFd0 # CmdFd0
        /\ SrvFd0 # log_fd /\ SrvFd0 # pksh_srv_fd
    BY NumbersHold, Places, LoopConstants DEF Numbers, CmdFd0
  <2> QED BY <2>1 DEF Init
<1>4. ASSUME NEW f \in Fd, f < NStd
      PROVE  tab[f] = "std"
  <2>1. /\ f # NStd /\ f # SrvFd0 /\ f # SrvFd0 + 1 /\ f # CmdFd0
        /\ f # log_fd /\ f # pksh_srv_fd
    BY <1>4, Places, LoopConstants DEF CmdFd0, log_fd, pksh_srv_fd, Fd
  <2> QED BY <1>4, <2>1 DEF Init
<1>5. NetfsAtStart => tab[SrvFd0 + 1] = "netfs"
  <2>1. NetfsAtStart =>
          /\ SrvFd0 + 1 \in Fd /\ ~(SrvFd0 + 1 < NStd) /\ SrvFd0 + 1 # NStd
          /\ SrvFd0 + 1 # SrvFd0 /\ SrvFd0 + 1 # CmdFd0
          /\ SrvFd0 + 1 # log_fd /\ SrvFd0 + 1 # pksh_srv_fd
    BY Places, LoopConstants, SetupFits DEF CmdFd0, log_fd, pksh_srv_fd, Fd
  <2> QED BY <2>1 DEF Init
<1>6. LogInConfig => tab[NStd] = "logfile"
  <2>1. LogInConfig =>
          /\ NStd \in Fd /\ ~(NStd < NStd) /\ NStd # SrvFd0
          /\ NStd # SrvFd0 + 1 /\ NStd # CmdFd0
          /\ NStd # log_fd /\ NStd # pksh_srv_fd
    BY Places, LoopConstants DEF CmdFd0, log_fd, pksh_srv_fd, Fd
  <2> QED BY <2>1 DEF Init
<1>7. OwnInv
  BY <1>5, <1>6 DEF Init, OwnInv
<1> QED BY <1>1, <1>2, <1>3, <1>4, <1>6, <1>7

LEMMA InitOK ==
    ASSUME Init
    PROVE  IndInv
<1>0. Numbers
  BY NumbersHold
<1>1. TypeOK
  <2>1. client \in [Slot -> Fd \cup {NoFd}] /\ maxi \in Slot /\ maxfd \in Fd
        /\ master_set \subseteq Fd
    BY <1>0 DEF Init, Numbers
  <2>2. conn \in [Tools -> {"off", "queued", "accepted"}]
        /\ pend \in [Tools -> Reqs \cup {"none"}] /\ fin \in [Tools -> BOOLEAN]
    BY DEF Init
  <2>3. i \in 0..MaxClients /\ readset \subseteq Fd /\ out \subseteq Cli \cup Reqs
    BY LoopConstants DEF Init
  <2>4. log_to_file \in BOOLEAN
    BY LoopConstants DEF Init
  <2> QED BY <1>0, <2>1, <2>2, <2>3, <2>4, InitTable
          DEF Init, TypeOK, Table, Numbers
<1>2. FixedInv
  <2>1. tab[log_fd] = "log" /\ tab[pksh_srv_fd] = "listen"
    <3>1. /\ log_fd \in Fd /\ ~(log_fd < NStd) /\ log_fd # NStd
          /\ log_fd # SrvFd0 /\ ~(log_fd = SrvFd0 + 1 /\ NetfsAtStart)
          /\ log_fd # CmdFd0 /\ log_fd # pksh_srv_fd
      BY <1>0, Places, LoopConstants DEF Numbers, CmdFd0, log_fd, pksh_srv_fd, Fd
    <3>2. /\ pksh_srv_fd \in Fd /\ ~(pksh_srv_fd < NStd) /\ pksh_srv_fd # NStd
          /\ pksh_srv_fd # SrvFd0 /\ ~(pksh_srv_fd = SrvFd0 + 1 /\ NetfsAtStart)
          /\ pksh_srv_fd # CmdFd0 /\ pksh_srv_fd # log_fd
      BY <1>0, Places, LoopConstants DEF Numbers, CmdFd0, log_fd, pksh_srv_fd, Fd
    <3>3. tab[log_fd] = "log"
      BY <3>1 DEF Init
    <3>4. tab[pksh_srv_fd] = "listen"
      BY <3>2 DEF Init
    <3> QED BY <3>3, <3>4
  <2>2. /\ client[0] = 0 /\ client[1] = SrvFd0
        /\ client[2] = log_fd /\ client[3] = pksh_srv_fd /\ maxi >= 3
    BY <1>0 DEF Init, Numbers
  <2>3. \A f \in Fd : f < NStd => tab[f] = "std"
    BY InitTable
  <2> QED BY <2>1, <2>2, <2>3 DEF FixedInv
<1>3. LinkInv
  BY InitTable DEF Init, LinkInv
<1>4. SlotInv
  BY <1>0 DEF Init, SlotInv, Numbers, Fd, Slot, NoFd
<1>5. ToolInv
  <2>1. \A f \in Fd : tab[f] \in Kinds
    BY <1>0 DEF Init, Kinds
  <2>2. \A f \in Fd : tab[f] \notin Tools
    BY <2>1, LoopConstants
  <2>3. \A s \in Slot : s >= 4 => client[s] = NoFd
    BY DEF Init, Slot
  <2>4. \A t \in Tools : conn[t] = "off"
    BY DEF Init
  <2> QED BY <2>2, <2>3, <2>4 DEF ToolInv
<1>6. OwnInv /\ BelowInv
  BY InitTable DEF Init, BelowInv
<1>7. PromptHonest
  BY DEF Init, PromptHonest
<1> QED BY <1>1, <1>2, <1>3, <1>4, <1>5, <1>6, <1>7 DEF IndInv

LEMMA SelectOK ==
    ASSUME IndInv, Select \/ ScanDone
    PROVE  IndInv'
<1>0. /\ pc \in {"select", "scan"} /\ pc' \in {"select", "scan"}
      /\ UNCHANGED <<tab, watch, conn, links, logs>>
  BY DEF Select, ScanDone, tools
<1>1. Gentle(tab, tab') /\ UNCHANGED <<watch, conn, pko_srv_fd>>
  BY <1>0 DEF Gentle, links
<1>2. WatchInv'
  BY <1>0, <1>1, GentleStep
<1>3. TypeOK'
  <2>1. readset' \subseteq Fd /\ i' \in 0..MaxClients
    BY LoopConstants DEF IndInv, TypeOK, Select, ScanDone, Reported, Watched
  <2>2. CASE Select
    BY <2>1, <2>2
       DEF IndInv, TypeOK, Select, watch, links, logs, ghosts, tools, inputs
  <2>3. CASE ScanDone
    <3>1. renewed' \in BOOLEAN
      BY <2>3 DEF ScanDone
    <3> QED BY <2>1, <2>3, <3>1
       DEF IndInv, TypeOK, ScanDone, watch, links, logs, tools, inputs
  <2> QED BY <2>2, <2>3
<1>4. OwnInv' /\ PromptHonest'
  BY <1>0 DEF IndInv, OwnInv, PromptHonest, links, logs
<1>5. BelowInv'
  BY <1>0, BelowKept DEF Select, ScanDone, KeepsLog, inputs
<1> QED BY <1>2, <1>3, <1>4, <1>5 DEF IndInv, WatchInv

\* select() is never handed a closed descriptor.
LEMMA SelectFailsOK ==
    ASSUME IndInv
    PROVE  ~SelectFails
<1> SUFFICES ASSUME SelectFails PROVE FALSE
  OBVIOUS
<1>1. PICK f \in Fd : f \in master_set /\ tab[f] = "free" /\ pc = "select"
  BY DEF SelectFails, Watched, IndInv, TypeOK
<1>2. PICK s \in Slot : client[s] = f
  BY <1>1 DEF IndInv, SlotInv
<1>3. f \notin {log_fd, 0, SrvFd0, pksh_srv_fd}
  BY <1>1, NumbersHold, LoopConstants
     DEF IndInv, FixedInv, LinkInv, Numbers
<1>4. tab[f] \in Tools
  BY <1>1, <1>2, <1>3, SlotHolds
<1> QED BY <1>1, <1>4, LoopConstants DEF Kinds

LEMMA ExitOK ==
    ASSUME IndInv, Exit
    PROVE  IndInv'
<1> DEFINE t1 == Close(Close(tab, pko_srv_fd), log_fd)
           t2 == IF log_to_file THEN Close(t1, log_f_fd) ELSE t1
<1>1. /\ tab \in Table /\ pko_srv_fd \in Fd \cup {NoFd}
      /\ log_f_fd \in Fd \cup {NoFd} /\ ps2_netfs_fd \in Fd \cup {NoFd}
      /\ log_fd \in Fd
  BY NumbersHold DEF IndInv, TypeOK, Table, Numbers
<1>2. t1 \in Table
  BY <1>1, CloseFacts
<1>3. t2 \in Table
  BY <1>1, <1>2, CloseFacts
<1>4. tab' \in Table
  BY <1>1, <1>3, CloseFacts DEF Exit
<1>5. TypeOK'
  BY <1>4 DEF IndInv, TypeOK, Table, Exit, watch, links, logs, ghosts, tools,
              inputs
<1>6. WatchInv'
  BY DEF IndInv, WatchInv, FixedInv, LinkInv, SlotInv, ToolInv, Exit, watch,
         links
<1>7. OwnInv' /\ PromptHonest'
  BY DEF IndInv, OwnInv, PromptHonest, Exit, links
<1>8. BelowInv'
  BY BelowKept DEF Exit, IndInv, BelowInv, inputs
<1> QED BY <1>5, <1>6, <1>7, <1>8 DEF IndInv, WatchInv

LEMMA LogOrErrorOK ==
    ASSUME IndInv, NEW s \in Slot, ScanLog(s) \/ ScanSrvError(s)
    PROVE  IndInv'
<1>1. /\ pc = "scan" /\ pc' = "scan" /\ i' \in 0..MaxClients
      /\ UNCHANGED <<tab, watch, conn, pko_srv_fd, links, logs>>
  BY LoopConstants DEF ScanLog, ScanSrvError, SrvHit, Hit, links, tools, Slot
<1>2. WatchInv'
  BY <1>1, GentleStep DEF Gentle
<1>3. TypeOK'
  <2>1. CASE ScanLog(s)
    <3>1. logIn' \in BOOLEAN
      BY <2>1 DEF ScanLog
    <3> QED BY <1>1, <2>1, <3>1
       DEF IndInv, TypeOK, ScanLog, watch, links, logs, ghosts, tools
  <2>2. CASE ScanSrvError(s)
    BY <1>1, <2>2
       DEF IndInv, TypeOK, ScanSrvError, watch, links, logs, ghosts, tools
  <2> QED BY <2>1, <2>2
<1>4. OwnInv' /\ PromptHonest'
  BY <1>1 DEF IndInv, OwnInv, PromptHonest, links, logs
<1>5. BelowInv'
  BY <1>1, BelowKept DEF ScanLog, ScanSrvError, KeepsLog
<1> QED BY <1>2, <1>3, <1>4, <1>5 DEF IndInv, WatchInv

LEMMA StdinOK ==
    ASSUME Benign, IndInv, NEW s \in Slot, ScanStdin(s)
    PROVE  IndInv'
<1>1. pc = "scan" /\ cin \in CliUsed /\ i' \in 0..MaxClients
  BY LoopConstants DEF ScanStdin, Hit, IndInv, BelowInv, Slot
<1>2. HandlerOK
  BY <1>1, ExecuteOK DEF ScanStdin
<1>3. ask' \in Cli /\ cin' = "none"
  BY <1>1, LoopConstants DEF ScanStdin
<1> QED BY <1>1, <1>2, <1>3, HandlerStep DEF ScanStdin, IndInv, TypeOK, tools

LEMMA ToolRequestOK ==
    ASSUME Benign, IndInv, NEW s \in Slot, NEW t \in Tools,
           ScanToolRequest(s, t)
    PROVE  IndInv'
<1>1. pc = "scan" /\ pend[t] \in Reqs /\ i' \in 0..MaxClients
  BY LoopConstants
     DEF ScanToolRequest, ClientHit, Hit, IndInv, TypeOK, Slot
<1>2. HandlerOK
  BY <1>1, RelayOK DEF ScanToolRequest
<1>3. pend' \in [Tools -> Reqs \cup {"none"}]
  BY DEF ScanToolRequest, IndInv, TypeOK
<1>4. ask' \in Reqs /\ cin' \in CliUsed \cup {"none"}
  BY <1>1 DEF ScanToolRequest, IndInv, BelowInv
<1> QED BY <1>1, <1>2, <1>3, <1>4, HandlerStep DEF ScanToolRequest

LEMMA SrvRequestOK ==
    ASSUME IndInv, astray = {}, NEW s \in Slot, ScanSrvRequest(s)
    PROVE  IndInv'
<1>1. /\ pc = "scan" /\ pc' = "scan" /\ i' \in 0..MaxClients
      /\ UNCHANGED <<watch, conn, pko_srv_fd, links, logs>>
  BY LoopConstants DEF ScanSrvRequest, SrvHit, Hit, links, tools, Slot
<1>2. tab \in Table /\ {"file", "free"} \cap Protected = {}
  BY LoopConstants DEF IndInv, TypeOK, Table, Protected, Kinds
<1>3. /\ tab' \in Table /\ Gentle(tab, tab')
      /\ \A n \in Fd : tab[n] \notin {"free", "file"} => tab'[n] = tab[n]
  <2>1. CASE tab' = Alloc(tab, "file")
    BY <2>1, <1>1, OpensOne
  <2>2. CASE \E f \in Fd : tab[f] = "file" /\ tab' = Close(tab, f)
    <3>1. PICK f \in Fd : tab[f] = "file" /\ tab' = Close(tab, f)
      BY <2>2
    <3>2. /\ tab' \in Table /\ tab'[f] = "free"
          /\ \A g \in Fd : g # f => tab'[g] = tab[g]
      BY <3>1, <1>2, CloseFacts
    <3> QED BY <3>1, <3>2, <1>2 DEF Gentle
  <2>3. CASE tab' = tab
    BY <2>3, <1>2 DEF Gentle
  <2> QED BY <2>1, <2>2, <2>3 DEF ScanSrvRequest, PS2Handle
<1>4. WatchInv'
  BY <1>1, <1>3, GentleStep
<1>5. TypeOK'
  BY <1>1, <1>3 DEF IndInv, TypeOK, Table, ScanSrvRequest, watch, links, logs,
                    ghosts, tools
<1>6. OwnInv' /\ PromptHonest'
  BY <1>1, <1>3 DEF IndInv, TypeOK, OwnInv, PromptHonest, links, logs
<1>7. BelowInv'
  BY <1>1, <1>3, BelowKept, NumbersHold DEF ScanSrvRequest, KeepsLog, Numbers
<1> QED BY <1>4, <1>5, <1>6, <1>7 DEF IndInv, WatchInv

\* The handler of a request cut short: as long as it closes nothing that is
\* not its own, it is a request like another or the end of pksh.
LEMMA SrvTornOK ==
    ASSUME IndInv, astray' = {}, NEW s \in Slot, ScanSrvTorn(s)
    PROVE  IndInv'
<1>1. /\ pc = "scan" /\ pc' \in {"scan", "undefined", "exited"} /\ i' \in 0..MaxClients
      /\ tab' \in {tab, Alloc(tab, "file")} /\ (pc' # "scan" => tab' = tab)
      /\ srvIn' \in {"torn", "eof", "reset"}
      /\ UNCHANGED <<watch, conn, pko_srv_fd, links, logs, cin>>
  BY LoopConstants DEF ScanSrvTorn, TornHandler, CloseAstray, SrvHit, Hit, links, tools, Slot
<1>2. /\ tab' \in Table /\ Gentle(tab, tab')
      /\ \A n \in Fd : tab[n] # "free" => tab'[n] = tab[n]
  BY <1>1, OpensOne DEF IndInv, TypeOK, Table, Gentle
<1>3. WatchInv'
  <2>1. CASE pc' # "exited"
    BY <2>1, <1>1, <1>2, GentleStep
  <2>2. CASE pc' = "exited"
    BY <2>2, <1>1 DEF IndInv, WatchInv, FixedInv, LinkInv, SlotInv, ToolInv, watch
  <2> QED BY <2>1, <2>2
<1>4. TypeOK'
  BY <1>1, <1>2 DEF IndInv, TypeOK, Table, ScanSrvTorn, watch, links, logs, ghosts, tools
<1>5. OwnInv' /\ PromptHonest'
  BY <1>1, <1>2 DEF IndInv, TypeOK, OwnInv, PromptHonest, links, logs
<1>6. BelowInv'
  BY <1>1, <1>2, BelowKept, NumbersHold DEF KeepsLog, Numbers
<1> QED BY <1>3, <1>4, <1>5, <1>6 DEF IndInv, WatchInv

LEMMA SrvEofOK ==
    ASSUME IndInv, NEW s \in Slot, ScanSrvEof(s)
    PROVE  IndInv'
<1>1. /\ pc = "scan" /\ pc' = "away" /\ i' \in 0..MaxClients
      /\ UNCHANGED <<watch, conn, pko_srv_fd>>
  BY LoopConstants DEF ScanSrvEof, SrvHit, Hit, tools, Slot
<1>2. /\ tab \in Table /\ pko_srv_fd = SrvFd0 /\ SrvFd0 \in Fd
      /\ tab[SrvFd0] = "srv"
  BY <1>1, NumbersHold DEF IndInv, TypeOK, Table, LinkInv, Numbers
<1>3. /\ tab' \in Table /\ tab'[SrvFd0] = "free"
      /\ \A f \in Fd : f # SrvFd0 => tab'[f] = tab[f]
  BY <1>2, CloseFacts DEF ScanSrvEof, DropLink
<1>4. LosesLink
  BY <1>1, <1>3 DEF LosesLink, ScanSrvEof, change_prompt
<1>5. WatchInv'
  BY <1>1, <1>4, LosesLinkStep
<1>6. OwnInv'
  BY <1>1, <1>2, <1>3 DEF IndInv, TypeOK, OwnInv, ScanSrvEof, logs
<1>7. PromptHonest' /\ cprompt' \in BOOLEAN
  BY <1>1 DEF IndInv, PromptHonest, ScanSrvEof, change_prompt
<1>8. TypeOK'
  BY <1>1, <1>3, <1>7
     DEF IndInv, TypeOK, Table, ScanSrvEof, watch, logs, ghosts, tools
<1>9. BelowInv'
  BY <1>1, <1>2, <1>3, BelowKept, NumbersHold DEF ScanSrvEof, KeepsLog, Numbers
<1> QED BY <1>5, <1>6, <1>7, <1>8, <1>9 DEF IndInv, WatchInv
\* The new link gets the number of the old one back.
LEMMA ReconnectOkOK ==
    ASSUME Benign, IndInv, ReconnectOk
    PROVE  IndInv'
<1> DEFINE t == Alloc(tab, "srv")
<1>0. /\ tab \in Table /\ SrvFd0 \in Fd /\ pc = "away"
      /\ tab[SrvFd0] = "free" /\ "srv" \in Kinds \cup Tools
      /\ \A f \in Fd : f < SrvFd0 => tab[f] # "free"
  BY NumbersHold
     DEF IndInv, TypeOK, Table, LinkInv, FixedInv, BelowInv, Numbers,
         ReconnectOk, Kinds
<1>1. IsLowest(tab, SrvFd0)
  BY <1>0 DEF IsLowest
<1>2. Lowest(tab) = SrvFd0 /\ HasFree(tab)
  BY <1>0, <1>1, LowestIs
<1>3. t \in Table /\ t = [tab EXCEPT ![SrvFd0] = "srv"]
  BY <1>0, <1>2, AllocFacts
<1>4. /\ ps2_netfs_fd \in Fd \cup {NoFd} /\ NoFd \notin Fd
      /\ ps2_netfs_fd \in Fd => tab[ps2_netfs_fd] = "netfs" /\ t[ps2_netfs_fd] = "netfs"
      /\ log_f_fd \in Fd \cup {NoFd}
      /\ log_to_file /\ log_f_fd \in Fd => tab[log_f_fd] = "logfile"
  BY <1>0, <1>3, NumbersHold
     DEF IndInv, TypeOK, OwnInv, Numbers, Table
<1>5. {"free", "cmd", "netfs", "logfile"} \cap Protected = {}
  BY LoopConstants DEF Protected, Kinds
<1>6. /\ tab' \in Table /\ tab'[SrvFd0] = "srv"
      /\ \A f \in Fd : f # SrvFd0 /\ (tab[f] \in Protected \/ tab'[f] \in Protected)
                      => tab'[f] = tab[f]
      /\ \A f \in Fd : tab[f] = "logfile" => tab'[f] = "logfile"
      /\ ps2_netfs_fd' \in Fd \cup {NoFd}
      /\ ps2_netfs_fd' \in Fd => tab'[ps2_netfs_fd'] = "netfs"
      /\ state' \in {0, 1} /\ ps2' \in {"clean", "loaded", "missed"}
      /\ ask' = ask /\ out' \subseteq Cli \cup Reqs
  <2>1. CASE resume = "srv"
    <3>1. /\ tab' = Close(t, ps2_netfs_fd) /\ ps2_netfs_fd' = NoFd
          /\ UNCHANGED <<state, ghosts>>
      BY <2>1 DEF ReconnectOk, ForgetNetfs
    <3>2. /\ tab' \in Table
          /\ \A f \in Fd : f # ps2_netfs_fd => tab'[f] = t[f]
          /\ ps2_netfs_fd \in Fd => tab'[ps2_netfs_fd] = "free"
      BY <3>1, <1>3, <1>4, CloseFacts
    <3>3. SrvFd0 # ps2_netfs_fd
      BY <1>0, <1>4
    <3>4. state' \in {0, 1} /\ ps2' \in {"clean", "loaded", "missed"}
          /\ ask' = ask /\ out' \subseteq Cli \cup Reqs
      BY <3>1 DEF IndInv, TypeOK, ghosts
    <3> QED BY <3>1, <3>2, <3>3, <3>4, <1>0, <1>3, <1>4, <1>5 DEF Table
  <2>2. CASE resume = "exec"
    <3>1. /\ tab' = CmdCon(t) /\ state' = 1
          /\ \E sent \in Sent(t, "execee") : out' = out \cup sent
          /\ UNCHANGED <<ps2_netfs_fd, ask>>
      BY <2>2 DEF ReconnectOk
    <3>2. /\ tab' \in Table
          /\ \A f \in Fd : t[f] # "free" => tab'[f] = t[f]
          /\ \A f \in Fd : tab'[f] \in {t[f], "cmd"}
      BY <3>1, <1>3, CmdConFacts
    <3>3. ps2' \in {"clean", "loaded", "missed"}
      BY <2>2 DEF ReconnectOk, IndInv, TypeOK
    <3>4. out' \subseteq Cli \cup Reqs
      BY <3>1 DEF IndInv, TypeOK, Sent, Cli, Reqs
    <3> QED BY <3>1, <3>2, <3>3, <3>4, <1>0, <1>3, <1>4, <1>5 DEF Table
  <2> QED BY <2>1, <2>2 DEF ReconnectOk
<1>7. /\ pc' = "scan" /\ resume' = "srv" /\ pko_srv_fd' = SrvFd0
      /\ UNCHANGED <<watch, readset, doloop, i, logs, astray, tools, inputs>>
  BY <1>2 DEF ReconnectOk, Continue
<1>8. cprompt' \in BOOLEAN /\ renewed' \in BOOLEAN /\ PromptHonest'
  BY <1>0, <1>7 DEF ReconnectOk, change_prompt, IndInv, PromptHonest
<1>9. TypeOK'
  BY <1>0, <1>6, <1>7, <1>8
     DEF IndInv, TypeOK, Table, watch, logs, tools, inputs
<1>10. FixedInv'
  BY <1>0, <1>6, <1>7, NumbersHold
     DEF IndInv, FixedInv, watch, Numbers, Protected
<1>11. LinkInv'
  BY <1>6, <1>7 DEF LinkInv
<1>12. SlotInv'
  BY <1>7 DEF IndInv, SlotInv, watch
<1>13. ToolInv'
  <2>1. \A f \in Fd : tab[f] \in Tools \/ tab'[f] \in Tools => tab'[f] = tab[f]
    BY <1>0, <1>6, LoopConstants DEF Protected, Kinds
  <2>2. client \in [Slot -> Fd \cup {NoFd}]
    BY DEF IndInv, TypeOK
  <2> QED BY <2>1, <2>2, <1>0, <1>7 DEF IndInv, ToolInv, watch, tools
<1>14. OwnInv'
  BY <1>4, <1>6, <1>7 DEF OwnInv, logs
<1>15. BelowInv'
  BY <1>0, <1>6, <1>7, BelowKept, NumbersHold DEF KeepsLog, Numbers, inputs
<1> QED BY <1>8, <1>9, <1>10, <1>11, <1>12, <1>13, <1>14, <1>15 DEF IndInv

LEMMA ReconnectFailOK ==
    ASSUME Benign, IndInv, NEW how \in Failures, ReconnectFail(how)
    PROVE  IndInv'
<1>1. /\ pc = "away" /\ pc' = "away" /\ tab' = tab /\ pko_srv_fd' = NoFd
  BY DEF ReconnectFail, FailedTab, Benign
<1>2. TypeOK'
  BY <1>1 DEF ReconnectFail, IndInv, TypeOK, watch, logs, ghosts, tools,
              inputs
<1>3. FixedInv' /\ LinkInv' /\ SlotInv'
  BY <1>1 DEF ReconnectFail, IndInv, FixedInv, LinkInv, SlotInv, watch
<1>4. ToolInv' /\ OwnInv' /\ PromptHonest'
  BY <1>1 DEF ReconnectFail, IndInv, ToolInv, OwnInv, PromptHonest,
              watch, logs, tools
<1>5. BelowInv'
  BY <1>1, BelowKept DEF ReconnectFail, KeepsLog, inputs
<1> QED BY <1>2, <1>3, <1>4, <1>5 DEF IndInv

LEMMA AcceptOK ==
    ASSUME IndInv, NEW s \in Slot, NEW t \in Tools, NEW j \in Slot,
           Accept(s, t, j)
    PROVE  IndInv'
<1> DEFINE c == Lowest(tab)
<1>1. /\ pc = "scan" /\ pc' = "scan" /\ HasFree(tab) /\ tab \in Table
      /\ i' \in 0..MaxClients /\ conn[t] = "queued"
      /\ client[j] = NoFd /\ t \in Kinds \cup Tools
  BY LoopConstants
     DEF Accept, ListenHit, Hit, IndInv, TypeOK, Table, Slot, Backlog, FreeSlot
<1>2. c \in Fd /\ tab[c] = "free" /\ tab' = [tab EXCEPT ![c] = t]
      /\ tab' \in Table
  BY <1>1, AllocFacts DEF Accept
<1>3. j >= 4
  BY <1>1, NumbersHold DEF IndInv, FixedInv, Numbers, Slot
<1>4. /\ client' = [client EXCEPT ![j] = c]
      /\ master_set' = master_set \cup {c}
      /\ maxfd' = Larger(c, maxfd) /\ maxi' = Larger(j, maxi)
      /\ conn' = [conn EXCEPT ![t] = "accepted"]
      /\ UNCHANGED <<links, logs>>
  BY DEF Accept, AddClient
<1>5. /\ maxfd' \in Fd /\ maxfd' >= c /\ maxfd' >= maxfd
      /\ maxi' \in Slot /\ maxi' >= 3
  BY <1>2, <1>4 DEF IndInv, TypeOK, FixedInv, Larger, Fd, Slot
<1>6. /\ client \in [Slot -> Fd \cup {NoFd}]
      /\ conn \in [Tools -> {"off", "queued", "accepted"}]
      /\ master_set \subseteq Fd /\ maxfd \in Fd
  BY DEF IndInv, TypeOK
<1>7. "free" \notin Tools
  BY LoopConstants DEF Kinds
<1>8. \A k \in Slot : client[k] # c
  <2> SUFFICES ASSUME NEW k \in Slot, client[k] = c PROVE FALSE
    OBVIOUS
  <2>1. c \notin {log_fd, 0, SrvFd0, pksh_srv_fd}
    BY <1>1, <1>2, NumbersHold, LoopConstants
       DEF IndInv, FixedInv, LinkInv, Numbers
  <2>2. tab[c] \in Tools
    BY <1>1, <1>2, <2>1, SlotHolds
  <2> QED BY <1>2, <1>7, <2>2
<1>9. TypeOK'
  BY <1>1, <1>2, <1>4, <1>5, <1>6
     DEF Accept, IndInv, TypeOK, Table, links, logs, ghosts, inputs
<1>10. FixedInv'
  BY <1>1, <1>2, <1>3, <1>4, <1>5, <1>6, NumbersHold
     DEF IndInv, FixedInv, Numbers, Table
<1>11. LinkInv'
  BY <1>1, <1>2, <1>4, NumbersHold DEF IndInv, LinkInv, Numbers, links, Table
<1>12. SlotInv'
  <2>1. \A s1, s2 \in Slot :
          client'[s1] # NoFd /\ client'[s1] = client'[s2] => s1 = s2
    BY <1>4, <1>6, <1>8 DEF IndInv, SlotInv
  <2>2. \A f \in Fd : f \in master_set' <=> \E k \in Slot : client'[k] = f
    <3> SUFFICES ASSUME NEW f \in Fd
                 PROVE  f \in master_set' <=> \E k \in Slot : client'[k] = f
      OBVIOUS
    <3>1. CASE f = c
      BY <3>1, <1>4, <1>6
    <3>2. CASE f # c
      <4>1. f \in master_set' <=> f \in master_set
        BY <3>2, <1>4
      <4>2. (\E k \in Slot : client'[k] = f) <=> (\E k \in Slot : client[k] = f)
        BY <3>2, <1>1, <1>4, <1>6, NumbersHold DEF Numbers
      <4> QED BY <4>1, <4>2 DEF IndInv, SlotInv
    <3> QED BY <3>1, <3>2
  <2>3. \A f \in master_set' : f <= maxfd'
    BY <1>2, <1>4, <1>5, <1>6 DEF IndInv, SlotInv, Fd
  <2> QED BY <2>1, <2>2, <2>3 DEF SlotInv
<1>13. ToolInv'
  <2>0. \A f \in Fd : tab[f] # t
    BY <1>1 DEF IndInv, ToolInv
  <2>1. \A k \in Slot : k >= 4 /\ client'[k] # NoFd => tab'[client'[k]] \in Tools
    BY <1>1, <1>2, <1>4, <1>6, <1>8 DEF IndInv, ToolInv, Table
  <2>2. \A f \in Fd : tab'[f] \in Tools =>
          conn'[tab'[f]] = "accepted" /\ \E k \in Slot : k >= 4 /\ client'[k] = f
    <3> SUFFICES ASSUME NEW f \in Fd, tab'[f] \in Tools
                 PROVE  /\ conn'[tab'[f]] = "accepted"
                        /\ \E k \in Slot : k >= 4 /\ client'[k] = f
      OBVIOUS
    <3>1. CASE f = c
      BY <3>1, <1>2, <1>3, <1>4, <1>6 DEF Table
    <3>2. CASE f # c
      <4>1. tab'[f] = tab[f] /\ tab[f] # t
        BY <3>2, <1>2, <2>0 DEF Table
      <4>2. PICK k \in Slot : k >= 4 /\ client[k] = f
        BY <4>1, <1>1 DEF IndInv, ToolInv
      <4>3. client'[k] = f
        BY <4>2, <1>1, <1>4, <1>6, NumbersHold DEF Numbers
      <4> QED BY <4>1, <4>2, <4>3, <1>1, <1>4, <1>6 DEF IndInv, ToolInv
    <3> QED BY <3>1, <3>2
  <2>3. \A u \in Tools : conn'[u] = "accepted" =>
          \E k \in Slot : k >= 4 /\ client'[k] # NoFd /\ tab'[client'[k]] = u
    <3> SUFFICES ASSUME NEW u \in Tools, conn'[u] = "accepted"
                 PROVE  \E k \in Slot : /\ k >= 4 /\ client'[k] # NoFd
                                        /\ tab'[client'[k]] = u
      OBVIOUS
    <3>1. CASE u = t
      BY <3>1, <1>2, <1>3, <1>4, <1>6, NumbersHold DEF Table, Numbers
    <3>2. CASE u # t
      <4>1. conn[u] = "accepted"
        BY <3>2, <1>4, <1>6
      <4>2. PICK k \in Slot : k >= 4 /\ client[k] # NoFd /\ tab[client[k]] = u
        BY <4>1, <1>1 DEF IndInv, ToolInv
      <4>3. client'[k] = client[k] /\ client[k] # c /\ client[k] \in Fd
        BY <4>2, <1>1, <1>4, <1>6, <1>8
      <4> QED BY <4>2, <4>3, <1>2 DEF Table
    <3> QED BY <3>1, <3>2
  <2>4. \A f, g \in Fd : tab'[f] \in Tools /\ tab'[f] = tab'[g] => f = g
    BY <2>0, <1>1, <1>2 DEF IndInv, ToolInv, Table
  <2> QED BY <2>1, <2>2, <2>3, <2>4 DEF ToolInv
<1>14. OwnInv'
  BY <1>1, <1>2, <1>4 DEF IndInv, TypeOK, OwnInv, Table, links, logs
<1>15. PromptHonest'
  BY <1>1, <1>4 DEF IndInv, PromptHonest, links
<1>16. BelowInv'
  BY <1>1, <1>2, BelowKept, NumbersHold DEF Accept, KeepsLog, Numbers, Table, inputs
<1> QED BY <1>9, <1>10, <1>11, <1>12, <1>13, <1>14, <1>15, <1>16 DEF IndInv
LEMMA AcceptFailsOK ==
    ASSUME IndInv, NEW s \in Slot, NEW j \in Slot, AcceptFails(s, j)
    PROVE  IndInv'
<1>1. /\ pc = "scan" /\ pc' = "scan" /\ i' \in 0..MaxClients
      /\ maxi' \in Slot /\ maxi' >= 3
      /\ UNCHANGED <<tab, client, maxfd, master_set, tools, links, logs>>
  BY LoopConstants
     DEF AcceptFails, ListenHit, Hit, IndInv, TypeOK, FixedInv, Larger, Slot
<1>2. TypeOK'
  BY <1>1 DEF AcceptFails, IndInv, TypeOK, links, logs, ghosts, tools, inputs
<1>3. FixedInv' /\ LinkInv' /\ SlotInv'
  BY <1>1 DEF IndInv, FixedInv, LinkInv, SlotInv, links
<1>4. ToolInv' /\ OwnInv' /\ PromptHonest'
  BY <1>1 DEF IndInv, ToolInv, OwnInv, PromptHonest, links, logs, tools
<1>5. BelowInv'
  BY <1>1, BelowKept DEF AcceptFails, KeepsLog, inputs
<1> QED BY <1>2, <1>3, <1>4, <1>5 DEF IndInv

LEMMA AcceptUndefinedOK ==
    ASSUME IndInv, NEW s \in Slot, AcceptUndefined(s)
    PROVE  IndInv'
<1>1. /\ pc = "scan" /\ pc' = "undefined"
      /\ UNCHANGED <<tab, watch, tools, links, logs>>
  BY DEF AcceptUndefined, ListenHit, Hit
<1>2. TypeOK'
  BY <1>1 DEF AcceptUndefined, IndInv, TypeOK, watch, links, logs, ghosts,
              tools, inputs
<1>3. FixedInv' /\ LinkInv' /\ SlotInv'
  BY <1>1 DEF IndInv, FixedInv, LinkInv, SlotInv, links, watch
<1>4. ToolInv' /\ OwnInv' /\ PromptHonest'
  BY <1>1 DEF IndInv, ToolInv, OwnInv, PromptHonest, links, logs, tools,
              watch
<1>5. BelowInv'
  BY <1>1, BelowKept DEF AcceptUndefined, KeepsLog, inputs
<1> QED BY <1>2, <1>3, <1>4, <1>5 DEF IndInv

\* A slot that is neither fixed nor free always holds a tool.
LEMMA ScanStaleOK ==
    ASSUME IndInv, NEW s \in Slot
    PROVE  ~ScanStale(s)
<1> SUFFICES ASSUME ScanStale(s) PROVE FALSE
  OBVIOUS
<1>1. /\ pc = "scan" /\ client[s] \in Fd
      /\ client[s] \notin {log_fd, 0, SrvFd0, pksh_srv_fd}
      /\ tab[client[s]] \notin Tools
  BY DEF ScanStale, ClientHit, Hit, IndInv, TypeOK, LinkInv
<1> QED BY <1>1, SlotHolds

\* The fixed numbers always stand for what main() opened them as.
LEMMA ScanLostOK ==
    ASSUME IndInv, NEW s \in Slot
    PROVE  ~ScanLost(s)
BY NumbersHold, LoopConstants DEF ScanLost, Hit, IndInv, FixedInv, LinkInv, Numbers

LEMMA ToolEofOK ==
    ASSUME IndInv, NEW s \in Slot, NEW t \in Tools, ScanToolEof(s, t)
    PROVE  IndInv'
<1> DEFINE c == client[s]
<1>1. /\ pc = "scan" /\ pc' = "scan" /\ tab \in Table /\ c \in Fd
      /\ i' \in 0..MaxClients /\ s <= maxi /\ tab[c] = t
      /\ c \notin {log_fd, 0, SrvFd0, pksh_srv_fd}
  BY LoopConstants
     DEF ScanToolEof, ClientHit, Hit, IndInv, TypeOK, LinkInv, Table, Slot
<1>2. s >= 4
  BY <1>1, SlotHolds
<1>3. /\ tab' = [tab EXCEPT ![c] = "free"] /\ tab' \in Table
      /\ client' = [client EXCEPT ![s] = NoFd]
      /\ master_set' = master_set \ {c}
      /\ maxi' = maxi - 1 /\ maxfd' = maxfd
      /\ conn' = [conn EXCEPT ![t] = "off"]
      /\ UNCHANGED <<links, logs>>
  BY <1>1, CloseFacts DEF ScanToolEof, DropClient, Close
<1>4. maxi' \in Slot /\ maxi' >= 3
  <2>1. maxi \in Slot
    BY DEF IndInv, TypeOK
  <2>2. s \in Nat /\ maxi \in Nat /\ maxi <= MaxClients - 1
    BY <2>1, LoopConstants DEF Slot
  <2> QED BY <1>1, <1>2, <1>3, <2>2, LoopConstants DEF Slot
<1>5. /\ client \in [Slot -> Fd \cup {NoFd}] /\ NoFd \notin Fd
      /\ conn \in [Tools -> {"off", "queued", "accepted"}]
      /\ master_set \subseteq Fd /\ maxfd \in Fd
  BY NumbersHold DEF IndInv, TypeOK, Numbers
<1>6. "free" \notin Tools
  BY LoopConstants DEF Kinds
<1>7. \A k \in Slot : k # s => client[k] # c
  BY <1>1, <1>5 DEF IndInv, SlotInv
<1>8. fin' \in [Tools -> BOOLEAN]
  BY DEF ScanToolEof, IndInv, TypeOK
<1>9. TypeOK'
  BY <1>1, <1>3, <1>4, <1>5, <1>8
     DEF ScanToolEof, IndInv, TypeOK, Table, links, logs, ghosts, inputs
<1>10. FixedInv'
  BY <1>1, <1>2, <1>3, <1>4, <1>5, NumbersHold, LoopConstants
     DEF IndInv, FixedInv, Numbers, Table, Kinds
<1>11. LinkInv'
  BY <1>1, <1>3, NumbersHold DEF IndInv, LinkInv, Numbers, links, Table
<1>12. SlotInv'
  <2>1. \A s1, s2 \in Slot :
          client'[s1] # NoFd /\ client'[s1] = client'[s2] => s1 = s2
    BY <1>3, <1>5 DEF IndInv, SlotInv
  <2>2. \A f \in Fd : f \in master_set' <=> \E k \in Slot : client'[k] = f
    <3> SUFFICES ASSUME NEW f \in Fd
                 PROVE  f \in master_set' <=> \E k \in Slot : client'[k] = f
      OBVIOUS
    <3>1. CASE f = c
      BY <3>1, <1>3, <1>5, <1>7
    <3>2. CASE f # c
      <4>1. f \in master_set' <=> f \in master_set
        BY <3>2, <1>3
      <4>2. (\E k \in Slot : client'[k] = f) <=> (\E k \in Slot : client[k] = f)
        BY <3>2, <1>3, <1>5
      <4> QED BY <4>1, <4>2 DEF IndInv, SlotInv
    <3> QED BY <3>1, <3>2
  <2>3. \A f \in master_set' : f <= maxfd'
    BY <1>3 DEF IndInv, SlotInv
  <2> QED BY <2>1, <2>2, <2>3 DEF SlotInv
<1>13. ToolInv'
  <2>0. \A f \in Fd : f # c => tab[f] # t
    BY <1>1 DEF IndInv, ToolInv
  <2>1. \A k \in Slot : k >= 4 /\ client'[k] # NoFd => tab'[client'[k]] \in Tools
    BY <1>1, <1>3, <1>5, <1>7 DEF IndInv, ToolInv, Table
  <2>2. \A f \in Fd : tab'[f] \in Tools =>
          conn'[tab'[f]] = "accepted" /\ \E k \in Slot : k >= 4 /\ client'[k] = f
    <3> SUFFICES ASSUME NEW f \in Fd, tab'[f] \in Tools
                 PROVE  /\ conn'[tab'[f]] = "accepted"
                        /\ \E k \in Slot : k >= 4 /\ client'[k] = f
      OBVIOUS
    <3>1. f # c /\ tab'[f] = tab[f] /\ tab[f] # t
      BY <1>1, <1>3, <1>6, <2>0 DEF Table
    <3>2. PICK k \in Slot : k >= 4 /\ client[k] = f
      BY <3>1, <1>1 DEF IndInv, ToolInv
    <3>3. client'[k] = f
      BY <3>1, <3>2, <1>3, <1>5
    <3> QED BY <3>1, <3>2, <3>3, <1>1, <1>3, <1>5 DEF IndInv, ToolInv
  <2>3. \A u \in Tools : conn'[u] = "accepted" =>
          \E k \in Slot : k >= 4 /\ client'[k] # NoFd /\ tab'[client'[k]] = u
    <3> SUFFICES ASSUME NEW u \in Tools, conn'[u] = "accepted"
                 PROVE  \E k \in Slot : /\ k >= 4 /\ client'[k] # NoFd
                                        /\ tab'[client'[k]] = u
      OBVIOUS
    <3>1. u # t /\ conn[u] = "accepted"
      BY <1>3, <1>5
    <3>2. PICK k \in Slot : k >= 4 /\ client[k] # NoFd /\ tab[client[k]] = u
      BY <3>1, <1>1 DEF IndInv, ToolInv
    <3>3. k # s /\ client'[k] = client[k] /\ client[k] # c /\ client[k] \in Fd
      BY <3>1, <3>2, <1>1, <1>3, <1>5
    <3> QED BY <3>2, <3>3, <1>3 DEF Table
  <2>4. \A f, g \in Fd : tab'[f] \in Tools /\ tab'[f] = tab'[g] => f = g
    BY <1>1, <1>3, <1>6 DEF IndInv, ToolInv, Table
  <2> QED BY <2>1, <2>2, <2>3, <2>4 DEF ToolInv
<1>14. OwnInv'
  <2>1. t \notin {"netfs", "logfile"}
    BY LoopConstants DEF Kinds
  <2> QED BY <2>1, <1>1, <1>3
          DEF IndInv, TypeOK, OwnInv, Table, links, logs
<1>15. PromptHonest'
  BY <1>1, <1>3 DEF IndInv, PromptHonest, links
<1>16. BelowInv'
  <2>1. t # "logfile"
    BY LoopConstants DEF Kinds
  <2> QED BY <2>1, <1>1, <1>3, BelowKept, NumbersHold
          DEF ScanToolEof, KeepsLog, Numbers, Table, inputs
<1> QED BY <1>9, <1>10, <1>11, <1>12, <1>13, <1>14, <1>15, <1>16 DEF IndInv

\* Whatever arrives, nothing the thread holds changes.
LEMMA EnvironmentOK ==
    ASSUME IndInv, Environment
    PROVE  IndInv'
<1>1. Arrives
  BY DEF Environment, ToolConnect, ToolClose, ToolSend, PS2Request, PS2Drop,
         PS2Log, UserType
<1>2. /\ conn' \in [Tools -> {"off", "queued", "accepted"}]
      /\ \A t \in Tools : conn'[t] = "accepted" <=> conn[t] = "accepted"
  <2>1. CASE \E t \in Tools : ToolConnect(t)
    BY <2>1 DEF ToolConnect, IndInv, TypeOK
  <2>2. CASE UNCHANGED conn
    BY <2>2 DEF IndInv, TypeOK
  <2> QED BY <2>1, <2>2
          DEF Environment, ToolClose, ToolSend, PS2Request, PS2Drop, PS2Log,
              UserType, tools
<1>3. pend' \in [Tools -> Reqs \cup {"none"}]
  <2>1. CASE \E t \in Tools, q \in ReqUsed : ToolSend(t, q)
    BY <2>1, LoopConstants DEF ToolSend, IndInv, TypeOK
  <2>2. CASE UNCHANGED pend
    BY <2>2 DEF IndInv, TypeOK
  <2> QED BY <2>1, <2>2
          DEF Environment, ToolConnect, ToolClose, PS2Request, PS2Drop,
              PS2Log, UserType, tools
<1>4. fin' \in [Tools -> BOOLEAN]
  <2>1. CASE \E t \in Tools : ToolClose(t)
    BY <2>1 DEF ToolClose, IndInv, TypeOK
  <2>2. CASE UNCHANGED fin
    BY <2>2 DEF IndInv, TypeOK
  <2> QED BY <2>1, <2>2
          DEF Environment, ToolConnect, ToolSend, PS2Request, PS2Drop,
              PS2Log, UserType, tools
<1>5. srvIn' \in {"none", "request", "torn", "eof", "reset"} /\ cin' \in Cli \cup {"none"}
  BY LoopConstants
     DEF Environment, ToolConnect, ToolClose, ToolSend, PS2Request, PS2Drop,
         PS2Log, UserType, IndInv, TypeOK, inputs
<1>6. logIn' \in BOOLEAN
  BY DEF Environment, ToolConnect, ToolClose, ToolSend, PS2Request, PS2Drop,
         PS2Log, UserType, IndInv, TypeOK, inputs
<1>7. TypeOK'
  BY <1>1, <1>2, <1>3, <1>4, <1>5, <1>6
     DEF Arrives, IndInv, TypeOK, watch, links, logs, ghosts
<1>8. FixedInv' /\ LinkInv' /\ SlotInv'
  BY <1>1 DEF Arrives, IndInv, FixedInv, LinkInv, SlotInv, watch, links
<1>9. ToolInv'
  BY <1>1, <1>2 DEF Arrives, IndInv, ToolInv, watch
<1>10. OwnInv' /\ PromptHonest'
  BY <1>1 DEF Arrives, IndInv, OwnInv, PromptHonest, links, logs
<1>11. BelowInv'
  BY <1>1
     DEF Environment, ToolConnect, ToolClose, ToolSend, PS2Request, PS2Drop,
         PS2Log, UserType, Arrives, IndInv, BelowInv, inputs
<1> QED BY <1>7, <1>8, <1>9, <1>10, <1>11 DEF IndInv

-----------------------------------------------------------------------------
(* The theorems.                                                           *)

LEMMA StepOK ==
    ASSUME Benign, IndInv, astray = {}, astray' = {}, [Next]_vars
    PROVE  IndInv'
<1>1. CASE Select \/ SelectFails \/ Exit \/ ScanDone
  BY <1>1, SelectOK, SelectFailsOK, ExitOK
<1>2. ASSUME NEW s \in Slot, Handle(s)
      PROVE  IndInv'
  <2>1. CASE ScanLog(s) \/ ScanStdin(s) \/ ScanSrvRequest(s)
             \/ ScanSrvTorn(s) \/ ScanSrvError(s) \/ ScanSrvEof(s)
    BY <2>1, LogOrErrorOK, StdinOK, SrvRequestOK, SrvTornOK, SrvEofOK
  <2>2. CASE \E t \in Tools, j \in Slot : Accept(s, t, j)
    BY <2>2, AcceptOK
  <2>3. CASE \/ \E j \in Slot : AcceptFails(s, j)
             \/ AcceptUndefined(s)
    BY <2>3, AcceptFailsOK, AcceptUndefinedOK
  <2>4. CASE \E t \in Tools : ScanToolRequest(s, t) \/ ScanToolEof(s, t)
    BY <2>4, ToolRequestOK, ToolEofOK
  <2>5. CASE ScanStale(s) \/ ScanLost(s)
    BY <2>5, ScanStaleOK, ScanLostOK
  <2> QED BY <1>2, <2>1, <2>2, <2>3, <2>4, <2>5 DEF Handle
<1>3. CASE ReconnectOk \/ \E how \in Failures : ReconnectFail(how)
  BY <1>3, ReconnectOkOK, ReconnectFailOK
<1>4. CASE Environment
  BY <1>4, EnvironmentOK
<1>5. CASE UNCHANGED vars
  <2>1. TypeOK'
    BY <1>5 DEF vars, IndInv, TypeOK, watch, links, logs, ghosts, tools,
                inputs
  <2>2. FixedInv' /\ LinkInv' /\ SlotInv'
    BY <1>5 DEF vars, IndInv, FixedInv, LinkInv, SlotInv, watch, links
  <2>3. ToolInv' /\ OwnInv' /\ PromptHonest'
    BY <1>5 DEF vars, IndInv, ToolInv, OwnInv, PromptHonest, watch,
                links, logs, tools
  <2>4. BelowInv'
    BY <1>5, BelowKept DEF vars, inputs, KeepsLog
  <2> QED BY <2>1, <2>2, <2>3, <2>4 DEF IndInv
<1> QED BY <1>1, <1>2, <1>3, <1>4, <1>5 DEF Next, Pksh

\* A number closed astray stays one.
LEMMA AstrayGrows ==
    ASSUME [Next]_vars
    PROVE  astray \subseteq astray'
<1>1. CASE \E s \in Slot : ScanSrvTorn(s)
  BY <1>1 DEF ScanSrvTorn, TornHandler, CloseAstray
<1>2. CASE astray' = astray
  BY <1>2
<1> QED BY <1>1, <1>2
   DEF Next, Pksh, Handle, Select, SelectFails, Exit, ScanDone, ScanLog, ScanStdin,
       ScanSrvRequest, ScanSrvError, ScanSrvEof, Accept, AcceptFails, AcceptUndefined,
       ScanToolRequest, ScanToolEof, ScanStale, ScanLost, ReconnectOk, ReconnectFail,
       Environment, ToolConnect, ToolClose, ToolSend, PS2Request, PS2Drop, PS2Log, UserType,
       Arrives, vars

\* In a benign environment the invariant holds until a CLOSE goes astray.
THEOREM Invariance ==
    ASSUME Benign
    PROVE  Spec => [](astray = {} => IndInv)
<1> DEFINE Good == astray = {} => IndInv
<1>1. Init => Good
  BY InitOK
<1>2. Good /\ [Next]_vars => Good'
  BY StepOK, AstrayGrows
<1> HIDE DEF Good
<1>3. Spec => []Good
  BY <1>1, <1>2, PTL DEF Spec
<1> QED BY <1>3 DEF Good

\* However often the link is lost and replaced, slot 1 and master_set hold
\* the descriptor of the live link whenever main()'s loop runs, until a CLOSE
\* on stale bytes takes a descriptor away.
THEOREM LinkStaysWatched ==
    ASSUME Benign
    PROVE  Spec => []LinkWatched
<1>1. (astray = {} => IndInv) => LinkWatched
  BY NumbersHold
     DEF IndInv, FixedInv, LinkInv, SlotInv, LinkWatched, Running, Watched,
         Numbers
<1> QED BY <1>1, Invariance, PTL

\* main() never spins on EBADF in select() nor hangs in pko_recv_bytes on a
\* descriptor that changed its meaning, until such a CLOSE.
THEOREM NotStuck ==
    ASSUME Benign
    PROVE  Spec => []NeverStuck
<1>1. (astray = {} => IndInv) => NeverStuck
  BY DEF IndInv, LinkInv, NeverStuck
<1> QED BY <1>1, Invariance, PTL

\* Until such a CLOSE the slots of client[] and the descriptor table agree on
\* the tools.
THEOREM ToolsOwnTheirSlots ==
    ASSUME Benign
    PROVE  Spec => []SlotsOwned
<1>1. ASSUME astray = {} => IndInv PROVE SlotsOwned
  <2> SUFFICES ASSUME pc \notin {"undefined", "exited"}, astray = {}
               PROVE  \A t \in Tools : conn[t] = "accepted" <=>
                        \E s \in Slot : /\ s >= 4 /\ client[s] \in Watched
                                        /\ tab[client[s]] = t
    BY <1>1 DEF IndInv, SlotInv, SlotsOwned
  <2>1. /\ client \in [Slot -> Fd \cup {NoFd}] /\ NoFd \notin Fd
        /\ master_set \subseteq Fd
    BY <1>1, NumbersHold DEF IndInv, TypeOK, Numbers
  <2>2. \A s \in Slot : client[s] # NoFd => client[s] \in Watched
    BY <1>1, <2>1 DEF IndInv, SlotInv, Watched
  <2>3. \A s \in Slot : client[s] \in Watched => client[s] \in Fd
    BY <2>1 DEF Watched
  <2> QED BY <1>1, <2>1, <2>2, <2>3 DEF IndInv, ToolInv
<1> QED BY <1>1, Invariance, PTL

-----------------------------------------------------------------------------
(* What select() reported is still true when the scan gets there.          *)

\* What makes each slot worth reading, whatever number it holds.
SlotReady(s) ==
    \/ s = 0 /\ cin # "none"
    \/ s = 1 /\ srvIn # "none"
    \/ s = 2 /\ logIn
    \/ s = 3 /\ Backlog # {}
    \/ s >= 4 /\ (pend[tab[client[s]]] # "none" \/ fin[tab[client[s]]])

\* The rest of the scan.  Tools are accepted in slot 3 and dropped above it,
\* so up to there readset holds only numbers that are watched, and a new
\* tool's is not among them.
ScanInv ==
    pc \in {"scan", "away"} =>
      /\ i <= 3 => readset \subseteq master_set
      /\ \A s \in Slot : s >= i /\ client[s] \in readset =>
            SlotReady(s) \/ (s = 1 /\ (renewed \/ pc = "away"))

LEMMA ReadyIs ==
    ASSUME IndInv, pc \in {"select", "scan"}, NEW s \in Slot, client[s] \in Fd
    PROVE  Ready(client[s]) <=> SlotReady(s)
<1>1. /\ client[0] = 0 /\ client[1] = SrvFd0 /\ client[2] = log_fd /\ client[3] = pksh_srv_fd
      /\ tab[0] = "std" /\ tab[SrvFd0] = "srv" /\ tab[log_fd] = "log"
      /\ tab[pksh_srv_fd] = "listen"
  BY NumbersHold, LoopConstants DEF IndInv, FixedInv, LinkInv, Numbers
<1>2. Kinds \cap Tools = {} /\ SrvFd0 # 0 /\ log_fd # 0 /\ pksh_srv_fd # 0
  BY LoopConstants, NumbersHold DEF Numbers, Fd
<1>3. {"std", "srv", "log", "listen", "dead", "file", "copy", "logfile"} \cap Tools = {}
  BY <1>2 DEF Kinds
<1>4. CASE s \in {0, 1, 2, 3}
  BY <1>1, <1>2, <1>3, <1>4 DEF Ready, SlotReady
<1>5. CASE s \notin {0, 1, 2, 3}
  <2>1. s >= 4
    BY <1>5, LoopConstants DEF Slot
  <2>2. /\ client[s] # 0 /\ tab[client[s]] \in Tools
    BY <2>1, <1>1, NumbersHold DEF IndInv, ToolInv, SlotInv, Numbers
  <2> QED BY <1>3, <1>5, <2>1, <2>2 DEF Ready, SlotReady
<1> QED BY <1>4, <1>5

\* A step that leaves the slots alone.
LEMMA StaysReady ==
    ASSUME IndInv, ScanInv, pc \in {"scan", "away"}, pc' \in {"scan", "away"},
           UNCHANGED <<readset, client, master_set>>, i' \in Nat, i' >= i,
           \A f \in Fd : tab[f] \in Tools => tab'[f] = tab[f],
           i' <= 0 /\ cin # "none" => cin' # "none",
           i' <= 1 /\ srvIn # "none" => srvIn' # "none" \/ pc' = "away",
           i' <= 2 /\ logIn => logIn',
           i' <= 3 /\ Backlog # {} => Backlog' # {},
           \A k \in Slot : k >= i' /\ k >= 4 /\ client[k] \in Fd =>
               ((pend[tab[client[k]]] # "none" \/ fin[tab[client[k]]])
                  => (pend'[tab[client[k]]] # "none" \/ fin'[tab[client[k]]])),
           renewed \/ pc = "away" => renewed' \/ pc' = "away"
    PROVE  ScanInv'
<1>1. i \in Nat /\ readset \subseteq Fd /\ NoFd \notin Fd
  BY NumbersHold DEF IndInv, TypeOK, Numbers
<1>2. i' <= 3 => readset' \subseteq master_set'
  BY <1>1 DEF ScanInv
<1>3. ASSUME NEW k \in Slot, k >= i', client'[k] \in readset'
      PROVE  SlotReady(k)' \/ (k = 1 /\ (renewed' \/ pc' = "away"))
  <2>1. k \in Nat /\ k >= i /\ client[k] \in readset /\ client[k] \in Fd
    BY <1>1, <1>3 DEF Slot
  <2>2. SlotReady(k) \/ (k = 1 /\ (renewed \/ pc = "away"))
    BY <2>1 DEF ScanInv
  <2>3. CASE k < 4
    BY <1>3, <2>1, <2>2, <2>3 DEF SlotReady
  <2>4. CASE k >= 4
    <3>1. tab'[client'[k]] = tab[client[k]]
      BY <2>1, <2>4, <1>1 DEF IndInv, ToolInv
    <3> QED BY <1>3, <2>1, <2>2, <2>4, <3>1 DEF SlotReady
  <2> QED BY <2>1, <2>3, <2>4
<1> QED BY <1>2, <1>3 DEF ScanInv

\* The slot of each fixed descriptor.
LEMMA SlotOf ==
    ASSUME IndInv, NEW s \in Slot
    PROVE  /\ client[s] = 0 => s = 0
           /\ client[s] = SrvFd0 => s = 1
           /\ client[s] = log_fd => s = 2
           /\ client[s] = pksh_srv_fd => s = 3
BY NumbersHold DEF IndInv, FixedInv, SlotInv, Numbers

\* A handler takes nothing from the link but with the link.
LEMMA HandlerKeeps ==
    ASSUME IndInv, pc = "scan", HandlerOK, (\E c \in Cli : Execute(c)) \/ (\E q \in Reqs : Relay(q))
    PROVE  /\ pc' \in {"scan", "away"} /\ (srvIn' = srvIn \/ pc' = "away")
           /\ \A f \in Fd : tab[f] \in Tools => tab'[f] = tab[f]
<1>1. srvIn' = srvIn \/ pc' = "away"
  BY DEF Execute, Relay, cli_execee, ExecNow, ExecAfterReset, cli_execeiop, ProgramSent, cli_reset, SendCmd,
         NoEffect, NetfsCommand, LogToFile, LogToStdout, cli_quit, RelayGsexec
<1>2. pc' \in {"scan", "away"}
  BY DEF HandlerOK, Returns, LosesLink
<1>3. tab[SrvFd0] = "srv" /\ "srv" \notin Tools
  BY LoopConstants DEF IndInv, LinkInv, Kinds
<1>4. \A f \in Fd : tab[f] \in Tools => tab'[f] = tab[f]
  BY <1>3 DEF HandlerOK, Returns, LosesLink, Gentle, Protected
<1> QED BY <1>1, <1>2, <1>4

LEMMA StdinScan ==
    ASSUME Benign, IndInv, ScanInv, NEW s \in Slot, ScanStdin(s)
    PROVE  ScanInv'
<1>1. /\ pc = "scan" /\ cin \in CliUsed /\ Execute(cin) /\ s = 0 /\ i <= s /\ i' = 1
      /\ UNCHANGED <<client, master_set, readset, renewed, conn, pend, fin, logIn>>
  BY SlotOf DEF ScanStdin, Hit, IndInv, BelowInv, watch, tools
<1>2. HandlerOK
  BY <1>1, ExecuteOK
<1>3. /\ pc' \in {"scan", "away"} /\ (srvIn' = srvIn \/ pc' = "away")
      /\ \A f \in Fd : tab[f] \in Tools => tab'[f] = tab[f]
  BY <1>1, <1>2, LoopConstants, HandlerKeeps
<1>4. Backlog' = Backlog
  BY <1>1 DEF Backlog
<1>5. i' \in Nat /\ i' >= i
  BY <1>1 DEF IndInv, TypeOK
<1> QED BY <1>1, <1>3, <1>4, <1>5, StaysReady

LEMMA ToolRequestScan ==
    ASSUME Benign, IndInv, ScanInv, NEW s \in Slot, NEW t \in Tools, ScanToolRequest(s, t)
    PROVE  ScanInv'
<1>1. /\ pc = "scan" /\ pend[t] \in Reqs /\ Relay(pend[t]) /\ i <= s /\ i' = s + 1
      /\ client[s] \in Fd /\ client[s] \notin {log_fd, 0, SrvFd0, pksh_srv_fd}
      /\ tab[client[s]] = t /\ pend' = [pend EXCEPT ![t] = "none"]
      /\ UNCHANGED <<client, master_set, readset, renewed, conn, fin, cin, logIn>>
  BY DEF ScanToolRequest, ClientHit, Hit, IndInv, TypeOK, LinkInv, watch
<1>2. HandlerOK
  BY <1>1, RelayOK
<1>3. /\ pc' \in {"scan", "away"}
      /\ \A f \in Fd : tab[f] \in Tools => tab'[f] = tab[f]
  BY <1>1, <1>2, HandlerKeeps
<1>4. s >= 4
  BY <1>1, SlotHolds
<1>5. i' \in Nat /\ i' >= i /\ i' >= 5
  BY <1>1, <1>4, LoopConstants DEF IndInv, TypeOK, Slot
<1>6. ASSUME NEW k \in Slot, k >= i', k >= 4, client[k] \in Fd
      PROVE  tab[client[k]] \in Tools /\ tab[client[k]] # t
  <2>1. k # s /\ tab[client[k]] \in Tools
    BY <1>1, <1>6, NumbersHold DEF IndInv, ToolInv, Numbers, Slot
  <2>2. client[k] # client[s]
    BY <2>1, <1>1, NumbersHold DEF IndInv, SlotInv, Numbers
  <2> QED BY <2>1, <2>2, <1>1, <1>6 DEF IndInv, ToolInv
<1>7. \A k \in Slot : k >= i' /\ k >= 4 /\ client[k] \in Fd =>
        pend'[tab[client[k]]] = pend[tab[client[k]]] /\ fin' = fin
  BY <1>1, <1>6 DEF IndInv, TypeOK
<1> QED BY <1>1, <1>3, <1>5, <1>7, StaysReady

\* The log and the link: what they clear belongs to their own slot.
LEMMA OwnSlotScan ==
    ASSUME IndInv, ScanInv, astray = {}, NEW s \in Slot,
           \/ ScanLog(s) \/ ScanSrvRequest(s) \/ ScanSrvError(s) \/ ScanSrvEof(s)
           \/ \E j \in Slot : AcceptFails(s, j)
    PROVE  ScanInv'
<1>1. /\ pc = "scan" /\ pc' \in {"scan", "away"} /\ i <= s /\ i' = s + 1
      /\ UNCHANGED <<client, master_set, readset, renewed, conn, pend, fin, cin>>
  BY DEF ScanLog, ScanSrvRequest, ScanSrvError, ScanSrvEof, AcceptFails, SrvHit, ListenHit, Hit,
         watch, tools, inputs
<1>2. i \in Nat /\ i' \in Nat /\ i' >= i /\ i' >= 1
  BY <1>1, LoopConstants DEF IndInv, TypeOK, Slot
<1>3. Backlog' = Backlog
  BY <1>1 DEF Backlog
<1>4. pko_srv_fd = SrvFd0 /\ tab[SrvFd0] = "srv" /\ SrvFd0 \in Fd /\ tab \in Table
  BY <1>1, NumbersHold DEF IndInv, LinkInv, TypeOK, Table, Numbers
<1>5. \A f \in Fd : tab[f] \in Tools => tab'[f] = tab[f]
  <2>0. {"free", "file", "srv"} \cap Tools = {} /\ "file" \in Kinds \cup Tools
    BY LoopConstants DEF Kinds
  <2>1. CASE ScanSrvRequest(s)
    <3>1. CASE tab' = Alloc(tab, "file")
      BY <3>1, <2>0, <1>4, AllocFacts
    <3>2. CASE \E f \in Fd : tab[f] = "file" /\ tab' = Close(tab, f)
      BY <3>2, <2>0, <1>4, CloseFacts
    <3> QED BY <2>1, <3>1, <3>2 DEF ScanSrvRequest, PS2Handle
  <2>2. CASE ScanSrvEof(s)
    BY <2>2, <2>0, <1>4, CloseFacts DEF ScanSrvEof, DropLink
  <2> QED BY <2>1, <2>2 DEF ScanLog, ScanSrvError, AcceptFails
<1>6. (i' <= 1 /\ srvIn # "none" => srvIn' # "none" \/ pc' = "away") /\ (i' <= 2 /\ logIn => logIn')
  <2>1. CASE ScanLog(s)
    <3>1. s = 2 /\ srvIn' = srvIn
      BY <2>1, SlotOf DEF ScanLog
    <3> QED BY <3>1, <1>1
  <2>2. CASE ScanSrvRequest(s) \/ ScanSrvError(s) \/ ScanSrvEof(s)
    <3>1. s = 1 /\ logIn' = logIn
      BY <2>2, <1>4, SlotOf DEF ScanSrvRequest, ScanSrvError, ScanSrvEof, SrvHit
    <3> QED BY <3>1, <1>1
  <2>3. CASE \E j \in Slot : AcceptFails(s, j)
    BY <2>3 DEF AcceptFails, inputs
  <2> QED BY <2>1, <2>2, <2>3
<1> QED BY <1>1, <1>2, <1>3, <1>5, <1>6, StaysReady

\* A request cut short leaves the end of the link to be read, and the tools
\* as they were.
LEMMA TornScan ==
    ASSUME IndInv, ScanInv, astray' = {}, NEW s \in Slot, ScanSrvTorn(s)
    PROVE  ScanInv'
<1>1. /\ pc = "scan" /\ pc' \in {"scan", "undefined", "exited"} /\ i <= s /\ i' = s + 1
      /\ tab' \in {tab, Alloc(tab, "file")} /\ srvIn' \in {"torn", "eof", "reset"}
      /\ UNCHANGED <<client, master_set, readset, renewed, conn, pend, fin, cin, logIn>>
  BY DEF ScanSrvTorn, TornHandler, CloseAstray, SrvHit, Hit, watch, tools
<1>2. i \in Nat /\ i' \in Nat /\ i' >= i /\ i' >= 1
  BY <1>1, LoopConstants DEF IndInv, TypeOK, Slot
<1>3. Backlog' = Backlog
  BY <1>1 DEF Backlog
<1>4. \A f \in Fd : tab[f] \in Tools => tab'[f] = tab[f]
  <2>1. tab \in Table /\ "free" \notin Tools /\ "file" \in Kinds \cup Tools
    BY LoopConstants DEF Kinds, IndInv, TypeOK, Table
  <2> QED BY <1>1, <2>1, AllocFacts
<1>5. srvIn' # "none"
  BY <1>1
<1>6. CASE pc' = "scan"
  BY <1>1, <1>2, <1>3, <1>4, <1>5, <1>6, StaysReady
<1>7. CASE pc' # "scan"
  BY <1>1, <1>7 DEF ScanInv
<1> QED BY <1>6, <1>7

\* The link comes back, or does not yet.
LEMMA ReconnectScan ==
    ASSUME Benign, IndInv, ScanInv, ReconnectOk \/ \E how \in Failures : ReconnectFail(how)
    PROVE  ScanInv'
<1>1. /\ pc = "away" /\ pc' \in {"scan", "away"} /\ i' = i /\ i \in Nat
      /\ UNCHANGED <<client, master_set, readset, conn, pend, fin, cin, srvIn, logIn>>
  BY DEF ReconnectOk, ReconnectFail, Continue, IndInv, TypeOK, watch, tools, inputs
<1>2. renewed' \/ pc' = "away"
  BY DEF ReconnectOk, ReconnectFail
<1>3. Backlog' = Backlog
  BY <1>1 DEF Backlog
<1>4. \A f \in Fd : tab[f] \in Tools => tab'[f] = tab[f]
  <2>0. /\ {"free", "netfs"} \cap Tools = {} /\ {"srv", "netfs"} \subseteq Kinds \cup Tools
        /\ tab \in Table /\ ps2_netfs_fd \in Fd \cup {NoFd}
        /\ ps2_netfs_fd \in Fd => tab[ps2_netfs_fd] = "netfs"
    BY <1>1, LoopConstants, NumbersHold DEF Kinds, IndInv, TypeOK, Table, OwnInv, Numbers
  <2>1. /\ Alloc(tab, "srv") \in Table
        /\ \A f \in Fd : tab[f] # "free" => Alloc(tab, "srv")[f] = tab[f]
    BY <2>0, AllocFacts
  <2>2. CASE tab' = Close(Alloc(tab, "srv"), ps2_netfs_fd)
    <3>1. \A f \in Fd : f # ps2_netfs_fd => tab'[f] = Alloc(tab, "srv")[f]
      BY <2>0, <2>1, <2>2, CloseFacts
    <3> QED BY <3>1, <2>0, <2>1
  <2>3. CASE tab' = CmdCon(Alloc(tab, "srv"))
    <3>1. \A f \in Fd : Alloc(tab, "srv")[f] # "free" => tab'[f] = Alloc(tab, "srv")[f]
      BY <2>1, <2>3, CmdConFacts
    <3> QED BY <3>1, <2>0, <2>1
  <2>4. CASE tab' = tab
    BY <2>4
  <2> QED BY <2>2, <2>3, <2>4, LoopConstants DEF ReconnectOk, ReconnectFail, FailedTab, Benign
<1> QED BY <1>1, <1>2, <1>3, <1>4, StaysReady

\* Arrivals only make more readable.
LEMMA ArrivalScan ==
    ASSUME IndInv, ScanInv, Environment \/ UNCHANGED vars
    PROVE  ScanInv'
<1>1. UNCHANGED <<tab, client, master_set, readset, i, pc, renewed>>
  BY DEF Environment, ToolConnect, ToolClose, ToolSend, PS2Request, PS2Drop, PS2Log, UserType,
         Arrives, vars, watch
<1>2. i \in Nat /\ i' >= i
  BY <1>1 DEF IndInv, TypeOK
<1>3. (cin # "none" => cin' # "none") /\ (srvIn # "none" => srvIn' # "none")
  BY DEF Environment, ToolConnect, ToolClose, ToolSend, PS2Request, PS2Drop, PS2Log, UserType,
         vars, inputs
<1>4. logIn => logIn'
  BY DEF Environment, ToolConnect, ToolClose, ToolSend, PS2Request, PS2Drop, PS2Log, UserType,
         vars, inputs
<1>5. \A t \in Tools : conn[t] = "queued" => conn'[t] = "queued"
  <2>1. CASE \E t \in Tools : ToolConnect(t)
    BY <2>1 DEF ToolConnect, IndInv, TypeOK
  <2>2. CASE UNCHANGED conn
    BY <2>2
  <2> QED BY <2>1, <2>2
          DEF Environment, ToolClose, ToolSend, PS2Request, PS2Drop, PS2Log, UserType, vars, tools
<1>6. Backlog # {} => Backlog' # {}
  BY <1>5 DEF Backlog
<1>7. \A t \in Tools : (pend[t] # "none" => pend'[t] # "none") /\ (fin[t] => fin'[t])
  <2>1. CASE \E t \in Tools, q \in ReqUsed : ToolSend(t, q)
    BY <2>1 DEF ToolSend, IndInv, TypeOK
  <2>2. CASE \E t \in Tools : ToolClose(t)
    BY <2>2 DEF ToolClose, IndInv, TypeOK
  <2>3. CASE UNCHANGED <<pend, fin>>
    BY <2>3
  <2> QED BY <2>1, <2>2, <2>3
          DEF Environment, ToolConnect, PS2Request, PS2Drop, PS2Log, UserType, vars, tools
<1>8. \A k \in Slot : k >= 4 /\ client[k] \in Fd /\ pc # "exited" => tab[client[k]] \in Tools
  BY NumbersHold DEF IndInv, ToolInv, Numbers
<1>9. CASE pc \in {"scan", "away"}
  BY <1>9, <1>1, <1>2, <1>3, <1>4, <1>6, <1>7, <1>8, StaysReady
<1>10. CASE pc \notin {"scan", "away"}
  BY <1>10, <1>1 DEF ScanInv
<1> QED BY <1>9, <1>10

LEMMA SelectScan ==
    ASSUME IndInv, Select
    PROVE  ScanInv'
<1>1. /\ pc = "select" /\ readset' = {f \in Watched : Ready(f)} /\ Watched \subseteq master_set
      /\ master_set \subseteq Fd
      /\ UNCHANGED <<tab, client, master_set, cin, srvIn, logIn, conn, pend, fin>>
  BY DEF Select, Reported, Watched, IndInv, TypeOK, watch, tools, inputs
<1>2. \A s \in Slot : SlotReady(s)' <=> SlotReady(s)
  BY <1>1 DEF SlotReady, Backlog
<1>3. \A s \in Slot : client'[s] \in readset' => SlotReady(s)'
  BY <1>1, <1>2, ReadyIs
<1> QED BY <1>1, <1>3 DEF ScanInv

\* The number of a new tool was free, so select() cannot have reported it.
LEMMA AcceptScan ==
    ASSUME IndInv, ScanInv, NEW s \in Slot, NEW t \in Tools, NEW j \in Slot, Accept(s, t, j)
    PROVE  ScanInv'
<1> DEFINE n == Lowest(tab)
<1>1. /\ pc = "scan" /\ pc' = "scan" /\ i <= s /\ i' = s + 1 /\ client[j] = NoFd
      /\ client' = [client EXCEPT ![j] = n] /\ tab' = Alloc(tab, t) /\ HasFree(tab)
      /\ UNCHANGED <<readset, renewed, pend, fin, cin, srvIn, logIn>>
      /\ s = 3
  BY SlotOf DEF Accept, ListenHit, Hit, AddClient, FreeSlot, inputs
<1>2. /\ tab \in Table /\ client \in [Slot -> Fd \cup {NoFd}] /\ NoFd \notin Fd
      /\ readset \subseteq Fd /\ i \in Nat
  BY NumbersHold DEF IndInv, TypeOK, Table, Numbers
<1>3. /\ n \in Fd /\ tab[n] = "free" /\ \A f \in Fd : tab[f] # "free" => tab'[f] = tab[f]
  BY <1>1, <1>2, AllocFacts
<1> HIDE DEF n
<1>4. n \notin readset
  <2>1. SUFFICES ASSUME n \in master_set PROVE FALSE
    BY <1>1, <1>2 DEF ScanInv
  <2>2. PICK k \in Slot : client[k] = n
    BY <2>1, <1>3 DEF IndInv, SlotInv
  <2>3. n \notin {log_fd, 0, SrvFd0, pksh_srv_fd}
    BY <1>1, <1>3, NumbersHold, LoopConstants DEF IndInv, FixedInv, LinkInv, Numbers
  <2>4. tab[n] \in Tools
    BY <1>1, <1>3, <2>2, <2>3, SlotHolds
  <2> QED BY <1>3, <2>4, LoopConstants DEF Kinds
<1>5. ASSUME NEW k \in Slot, k >= i', client'[k] \in readset'
      PROVE  SlotReady(k)'
  <2>1. k # j /\ client'[k] = client[k] /\ client[k] \in Fd /\ k >= 4 /\ k >= i /\ k \in Nat
    BY <1>1, <1>2, <1>4, <1>5 DEF Slot
  <2>2. SlotReady(k)
    BY <1>1, <1>5, <2>1 DEF ScanInv
  <2>3. tab[client[k]] \in Tools
    BY <1>1, <1>2, <2>1 DEF IndInv, ToolInv
  <2>4. tab'[client'[k]] = tab[client[k]]
    BY <1>3, <2>1, <2>3, LoopConstants DEF Kinds
  <2> QED BY <1>1, <2>1, <2>2, <2>4 DEF SlotReady
<1>6. ~(i' <= 3)
  BY <1>1
<1> QED BY <1>1, <1>5, <1>6 DEF ScanInv

LEMMA ToolEofScan ==
    ASSUME IndInv, ScanInv, NEW s \in Slot, NEW t \in Tools, ScanToolEof(s, t)
    PROVE  ScanInv'
<1> DEFINE c == client[s]
<1>1. /\ pc = "scan" /\ pc' = "scan" /\ i <= s /\ i' = s + 1
      /\ c \in Fd /\ c \notin {log_fd, 0, SrvFd0, pksh_srv_fd} /\ tab[c] = t
      /\ client' = [client EXCEPT ![s] = NoFd] /\ tab' = Close(tab, c)
      /\ fin' = [fin EXCEPT ![t] = FALSE]
      /\ UNCHANGED <<readset, renewed, pend, cin, srvIn, logIn>>
  BY DEF ScanToolEof, ClientHit, Hit, DropClient, IndInv, TypeOK, LinkInv, inputs
<1>2. /\ tab \in Table /\ client \in [Slot -> Fd \cup {NoFd}] /\ NoFd \notin Fd
      /\ readset \subseteq Fd /\ i \in Nat /\ fin \in [Tools -> BOOLEAN]
  BY NumbersHold DEF IndInv, TypeOK, Table, Numbers
<1>3. s >= 4
  BY <1>1, SlotHolds
<1>4. \A f \in Fd : f # c => tab'[f] = tab[f]
  BY <1>1, <1>2, CloseFacts
<1>5. ASSUME NEW k \in Slot, k >= i', client'[k] \in readset'
      PROVE  SlotReady(k)'
  <2>1. k # s /\ client'[k] = client[k] /\ client[k] \in Fd /\ k >= 5 /\ k >= i /\ k \in Nat
    BY <1>1, <1>2, <1>3, <1>5 DEF Slot
  <2>2. SlotReady(k)
    BY <1>1, <1>5, <2>1 DEF ScanInv
  <2>3. client[k] # c /\ tab[client[k]] \in Tools
    BY <1>1, <1>2, <2>1 DEF IndInv, ToolInv, SlotInv
  <2>4. tab[client[k]] # t
    BY <1>1, <2>1, <2>3 DEF IndInv, ToolInv
  <2>5. tab'[client'[k]] = tab[client[k]] /\ fin'[tab[client[k]]] = fin[tab[client[k]]]
    BY <1>1, <1>2, <1>4, <2>1, <2>3, <2>4
  <2>6. pend[tab[client[k]]] # "none" \/ fin[tab[client[k]]]
    BY <2>1, <2>2 DEF SlotReady
  <2>7. pend'[tab'[client'[k]]] # "none" \/ fin'[tab'[client'[k]]]
    <3>1. pend' = pend
      BY <1>1
    <3> QED BY <3>1, <2>5, <2>6, Zenon
  <2>8. k >= 4
    BY <2>1
  <2> QED BY <2>7, <2>8 DEF SlotReady
<1>6. ~(i' <= 3)
  BY <1>1, <1>3 DEF Slot
<1> QED BY <1>1, <1>5, <1>6 DEF ScanInv

LEMMA StepScan ==
    ASSUME Benign, IndInv, ScanInv, astray = {}, astray' = {}, [Next]_vars
    PROVE  ScanInv'
<1>1. CASE SelectFails \/ Exit \/ ScanDone
  BY <1>1 DEF SelectFails, Exit, ScanDone, ScanInv
<1>2. CASE Select
  BY <1>2, SelectScan
<1>3. ASSUME NEW s \in Slot, Handle(s)
      PROVE  ScanInv'
  <2>1. CASE AcceptUndefined(s) \/ ScanStale(s) \/ ScanLost(s)
    BY <2>1 DEF AcceptUndefined, ScanStale, ScanLost, ScanInv
  <2>2. CASE \/ ScanLog(s) \/ ScanSrvRequest(s) \/ ScanSrvError(s) \/ ScanSrvEof(s)
             \/ \E j \in Slot : AcceptFails(s, j)
    BY <2>2, OwnSlotScan
  <2>3. CASE \E t \in Tools, j \in Slot : Accept(s, t, j)
    BY <2>3, AcceptScan
  <2>4. CASE ScanStdin(s) \/ \E t \in Tools : ScanToolRequest(s, t) \/ ScanToolEof(s, t)
    BY <2>4, StdinScan, ToolRequestScan, ToolEofScan
  <2>5. CASE ScanSrvTorn(s)
    BY <2>5, TornScan
  <2> QED BY <1>3, <2>1, <2>2, <2>3, <2>4, <2>5 DEF Handle
<1>4. CASE ReconnectOk \/ \E how \in Failures : ReconnectFail(how)
  BY <1>4, ReconnectScan
<1>5. CASE Environment \/ UNCHANGED vars
  BY <1>5, ArrivalScan
<1> QED BY <1>1, <1>2, <1>3, <1>4, <1>5 DEF Next, Pksh

\* main() enters a handler only for a descriptor that has something to read,
\* so the one thread does not block in recv(), whatever the handlers before
\* it in the same scan have opened, closed or consumed; only a link replaced
\* since select(), and a CLOSE on stale bytes, are exceptions.
THEOREM NeverReadsBlind ==
    ASSUME Benign
    PROVE  Spec => []NoBlindRead
<1> DEFINE Good == astray = {} => IndInv
           Reading == astray = {} => ScanInv
<1>1. Init => Reading
  BY DEF Init, ScanInv
<1>2. Good /\ Reading /\ [Next]_vars => Reading'
  BY StepScan, AstrayGrows
<1>3. ASSUME Good, Reading
      PROVE  NoBlindRead
  <2> SUFFICES ASSUME astray = {}, NEW s \in Slot, Hit(s)
               PROVE  Ready(client[s]) \/ (client[s] = pko_srv_fd /\ renewed)
    BY DEF NoBlindRead
  <2>0. IndInv /\ ScanInv
    BY <1>3
  <2>1. /\ pc = "scan" /\ s >= i /\ client[s] \in readset /\ client[s] \in Fd
        /\ client[1] = pko_srv_fd
    BY <2>0 DEF Hit, IndInv, TypeOK, FixedInv, LinkInv
  <2>2. SlotReady(s) \/ (s = 1 /\ renewed)
    BY <2>0, <2>1 DEF ScanInv
  <2> QED BY <2>0, <2>1, <2>2, ReadyIs
<1>4. Spec => []Good
  BY Invariance
<1> HIDE DEF Good, Reading
<1> QED BY <1>1, <1>2, <1>3, <1>4, PTL DEF Spec
=============================================================================
