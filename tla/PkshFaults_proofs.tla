-------------------------- MODULE PkshFaults_proofs --------------------------
(***************************************************************************)
(* Proofs about PkshLoop in any environment: connect() may fail at once,   *)
(* .pkshrc may open a log file, a CLOSE on stale bytes may take away any   *)
(* descriptor.  The loop may then lose sight of the PS2, but only in the   *)
(* three ways LinkMovesOnlyIf names, and the commands, the prompt and the  *)
(* remembered numbers that were not themselves taken away stay right.      *)
(***************************************************************************)
EXTENDS PkshLoop_proofs

AnyTypes ==
    /\ tab \in Table /\ client \in [Slot -> Fd \cup {NoFd}]
    /\ pko_srv_fd \in Fd \cup {NoFd} /\ ps2_netfs_fd \in Fd \cup {NoFd}
    /\ log_f_fd \in Fd \cup {NoFd}
    /\ pc \in {"select", "scan", "away", "spin", "wedged", "undefined", "exited"}
    /\ cin \in Cli \cup {"none"} /\ pend \in [Tools -> Reqs \cup {"none"}]
    /\ astray \subseteq Fd

\* The numbers that nobody has closed by taking them for another.
Trusted == Fd \ astray

\* The link may have moved because of a number that is not.
Low == \E f \in astray : f <= SrvFd0

StdInv == pc # "exited" => \A f \in Trusted : f < NStd => tab[f] = "std"

\* Where the link is, or will be.  Once it has left the number in client[1],
\* a socket left behind keeps it away from there, or it stays where .pkshrc's
\* log file was; unless a number down there was closed astray.
HomeInv ==
    /\ pc \notin {"away", "exited"} =>
          /\ pko_srv_fd \in Fd /\ (pko_srv_fd \in Trusted => tab[pko_srv_fd] = "srv")
          /\ \/ Low
             \/ pko_srv_fd = SrvFd0 /\ client[1] = SrvFd0
             \/ tab[SrvFd0] = "dead"
             \/ LogInConfig /\ (pko_srv_fd = NStd \/ tab[NStd] = "dead")
    /\ pc = "away" =>
          \/ Low
          \/ tab[SrvFd0] = "free" /\ client[1] = SrvFd0
          \/ tab[SrvFd0] = "dead"
          \/ LogInConfig /\ tab[NStd] \in {"free", "dead"}

\* state, as cli_execee reads it, tells that no program was started since the
\* last RESET, and it still does when the reconnect loop it enters ends.
CommandInv ==
    /\ NothingUnasked
    /\ state \in {0, 1} /\ (state = 0 => ps2 # "loaded")
    /\ pc = "away" /\ resume = "exec" => ask = "execee" /\ ps2 # "loaded"

AnyInv ==
    AnyTypes /\ StdInv /\ HomeInv /\ OwnedNumbers /\ PromptHonest /\ CommandInv

-----------------------------------------------------------------------------
(* What the handlers do to the numbers.                                    *)

\* Nobody closes these but whoever drops the link.
Steady == {"std", "dead", "srv"}

Kept ==
    /\ pc' = "scan" /\ cprompt' = cprompt
    /\ \A f \in Trusted : tab[f] \in Steady => tab'[f] = tab[f]

Dropped ==
    /\ pc' = "away" /\ cprompt' = ~cprompt /\ tab'[pko_srv_fd] = "free"
    /\ \A f \in Trusted : f # pko_srv_fd /\ tab[f] \in Steady => tab'[f] = tab[f]

NumbersOK ==
    /\ tab' \in Table /\ pko_srv_fd' = pko_srv_fd
    /\ ps2_netfs_fd' \in Fd \cup {NoFd} /\ log_f_fd' \in Fd \cup {NoFd}
    /\ OwnedNumbers' /\ (Kept \/ Dropped)

LEMMA AnyFacts ==
    ASSUME AnyInv, pc = "scan"
    PROVE  /\ tab \in Table /\ NoFd \notin Fd /\ pko_srv_fd \in Fd
           /\ pko_srv_fd \in Trusted => tab[pko_srv_fd] = "srv"
           /\ ps2_netfs_fd \in Fd \cup {NoFd}
           /\ ps2_netfs_fd \in Trusted => tab[ps2_netfs_fd] = "netfs"
           /\ log_f_fd \in Fd \cup {NoFd}
           /\ log_to_file /\ log_f_fd \in Trusted => tab[log_f_fd] = "logfile"
           /\ Trusted \subseteq Fd
BY NumbersHold DEF AnyInv, AnyTypes, HomeInv, OwnedNumbers, Numbers, Trusted

\* What follows from no number down there having been closed astray.
LEMMA TrustedFacts ==
    /\ Trusted \subseteq Fd /\ NoFd \notin Trusted
    /\ \A f \in Fd : f \in Trusted <=> f \notin astray
    /\ \A S : ~(\E f \in S : f <= SrvFd0) => SrvFd0 \notin S /\ NStd \notin S
    /\ ~Low => \A f \in Fd : f <= SrvFd0 => f \in Trusted
    /\ ~Low => SrvFd0 \in Trusted /\ NStd \in Trusted
    /\ NStd \notin Trusted => Low
<1> DEFINE m == NStd
           n == SrvFd0
<1>1. m \in Fd /\ n \in Fd /\ m <= n /\ n <= n /\ NoFd \notin Fd
  BY NumbersHold DEF Numbers, Fd
<1> HIDE DEF m, n
<1>2. /\ Trusted \subseteq Fd /\ NoFd \notin Trusted
      /\ \A f \in Fd : f \in Trusted <=> f \notin astray
      /\ \A S : ~(\E f \in S : f <= n) => n \notin S /\ m \notin S
      /\ ~(\E f \in astray : f <= n) => \A f \in Fd : f <= n => f \in Trusted
  BY <1>1 DEF Trusted
<1> QED BY <1>1, <1>2 DEF Low, m, n

\* A handler that only opens descriptors.
LEMMA OpensKept ==
    ASSUME AnyInv, pc = "scan", astray' = astray, tab' \in Table,
           \A f \in Fd : tab[f] # "free" => tab'[f] = tab[f],
           pc' = "scan", UNCHANGED <<pko_srv_fd, ps2_netfs_fd, cprompt, log_to_file, log_f_fd>>
    PROVE  NumbersOK
<1>1. OwnedNumbers'
  BY AnyFacts DEF OwnedNumbers, Trusted
<1>2. Kept
  BY AnyFacts DEF Kept, Steady
<1> QED BY <1>1, <1>2, AnyFacts DEF NumbersOK

LEMMA SendNumbers ==
    ASSUME AnyInv, pc = "scan", astray' = astray,
           \/ \E c \in Cli \cup Reqs, b \in BOOLEAN : SendCmd(c, b)
           \/ NoEffect \/ cli_quit \/ cli_execeiop \/ ExecNow \/ RelayGsexec
    PROVE  NumbersOK
<1>1. tab \in Table
  BY AnyFacts
<1>2. /\ CmdCon(tab) \in Table
      /\ \A f \in Fd : tab[f] # "free" => CmdCon(tab)[f] = tab[f]
  BY <1>1, CmdConFacts
<1>3. /\ CmdCon(CmdCon(tab)) \in Table
      /\ \A f \in Fd : CmdCon(tab)[f] # "free" => CmdCon(CmdCon(tab))[f] = CmdCon(tab)[f]
  BY <1>2, CmdConFacts
<1>4. tab' \in {tab, CmdCon(tab), CmdCon(CmdCon(tab))} /\ pc' = "scan"
      /\ UNCHANGED <<pko_srv_fd, ps2_netfs_fd, cprompt, log_to_file, log_f_fd>>
  BY DEF SendCmd, NoEffect, cli_quit, cli_execeiop, ExecNow, ProgramSent, RelayGsexec, Continue, links, logs
<1>5. tab' \in Table /\ \A f \in Fd : tab[f] # "free" => tab'[f] = tab[f]
  BY <1>1, <1>2, <1>3, <1>4
<1> QED BY <1>4, <1>5, OpensKept

LEMMA ResetTabSteady ==
    ASSUME AnyInv, pc = "scan"
    PROVE  /\ ResetTab(tab) \in Table
           /\ \A f \in Trusted : tab[f] \in Steady \cup {"logfile"} => ResetTab(tab)[f] = tab[f]
<1> DEFINE t == CmdCon(tab)
<1>1. t \in Table /\ \A f \in Fd : tab[f] # "free" => t[f] = tab[f]
  BY AnyFacts, CmdConFacts
<1>2. /\ Close(t, ps2_netfs_fd) \in Table
      /\ \A f \in Fd : f # ps2_netfs_fd => Close(t, ps2_netfs_fd)[f] = t[f]
  BY <1>1, AnyFacts, CloseFacts
<1> QED BY <1>1, <1>2, AnyFacts DEF ResetTab, Steady

LEMMA ResetNumbers ==
    ASSUME AnyInv, pc = "scan", astray' = astray, cli_reset
    PROVE  NumbersOK
<1>1. /\ tab' \in Table
      /\ \A f \in Trusted : tab[f] \in Steady \cup {"logfile"} => tab'[f] = tab[f]
  BY ResetTabSteady DEF cli_reset
<1>2. /\ pc' = "scan" /\ ps2_netfs_fd' = NoFd
      /\ UNCHANGED <<pko_srv_fd, cprompt, log_to_file, log_f_fd>>
  BY DEF cli_reset, ResetSent, ForgetNetfs, Continue, logs
<1>3. OwnedNumbers'
  BY <1>1, <1>2, AnyFacts DEF OwnedNumbers, Trusted
<1> QED BY <1>1, <1>2, <1>3, AnyFacts DEF NumbersOK, Kept

LEMMA ExecNumbers ==
    ASSUME AnyInv, pc = "scan", astray' = astray, ExecAfterReset
    PROVE  NumbersOK
<1> DEFINE t == ResetTab(tab)
<1>1. /\ t \in Table /\ \A f \in Trusted : tab[f] \in Steady \cup {"logfile"} => t[f] = tab[f]
  BY ResetTabSteady
<1>2. tab' = Close(t, pko_srv_fd) /\ pc' = "away" /\ ps2_netfs_fd' = NoFd
      /\ UNCHANGED <<pko_srv_fd, log_to_file, log_f_fd>>
  BY DEF ExecAfterReset, ResetSent, ForgetNetfs, DropLink, logs
<1>3. cprompt' = ~cprompt
  BY Zenon DEF ExecAfterReset, change_prompt
<1> HIDE DEF t
<1>4. /\ tab' \in Table /\ tab'[pko_srv_fd] = "free"
      /\ \A f \in Fd : f # pko_srv_fd => tab'[f] = t[f]
  BY <1>1, <1>2, AnyFacts, CloseFacts
<1>5. OwnedNumbers'
  BY <1>1, <1>2, <1>4, AnyFacts DEF OwnedNumbers, Trusted
<1>6. \A f \in Trusted : f # pko_srv_fd /\ tab[f] \in Steady => tab'[f] = tab[f]
  BY <1>1, <1>4, AnyFacts
<1>7. Dropped
  BY <1>2, <1>3, <1>4, <1>6, Zenon DEF Dropped
<1> QED BY <1>2, <1>4, <1>5, <1>7, AnyFacts DEF NumbersOK

LEMMA LogNumbers ==
    ASSUME AnyInv, pc = "scan", astray' = astray, LogToFile \/ LogToStdout
    PROVE  NumbersOK
<1>1. CASE LogToFile /\ tab' = tab /\ log_f_fd' = NoFd
  <2>1. /\ pc' = "scan" /\ UNCHANGED <<pko_srv_fd, ps2_netfs_fd, cprompt>>
    BY <1>1 DEF LogToFile, Continue, links
  <2>2. OwnedNumbers'
    BY <1>1, <2>1, AnyFacts DEF OwnedNumbers, Trusted
  <2> QED BY <1>1, <2>1, <2>2, AnyFacts DEF NumbersOK, Kept
<1>2. CASE LogToFile /\ tab' = Alloc(tab, "logfile") /\ log_f_fd' = Opened(tab)
  <2>1. /\ pc' = "scan" /\ UNCHANGED <<pko_srv_fd, ps2_netfs_fd, cprompt>>
    BY <1>2 DEF LogToFile, Continue, links
  <2>2. /\ tab' \in Table /\ \A f \in Fd : tab[f] # "free" => tab'[f] = tab[f]
        /\ log_f_fd' \in Fd \cup {NoFd}
        /\ log_f_fd' # NoFd => tab'[log_f_fd'] = "logfile"
    BY <1>2, AnyFacts, AllocFacts DEF Kinds
  <2>3. OwnedNumbers'
    BY <2>1, <2>2, AnyFacts DEF OwnedNumbers, Trusted
  <2> QED BY <2>1, <2>2, <2>3, AnyFacts DEF NumbersOK, Kept, Steady
<1>3. CASE LogToStdout
  <2>1. /\ pc' = "scan" /\ UNCHANGED <<pko_srv_fd, ps2_netfs_fd, cprompt, log_f_fd>>
    BY <1>3 DEF LogToStdout, Continue, links
  <2>2. /\ tab' \in Table
        /\ \A f \in Trusted : tab'[f] = tab[f] \/ tab[f] = "logfile"
    BY <1>3, AnyFacts, CloseFacts DEF LogToStdout
  <2>3. ~log_to_file'
    BY <1>3, Zenon DEF LogToStdout
  <2>4. OwnedNumbers'
    BY <2>1, <2>2, <2>3, AnyFacts DEF OwnedNumbers, Trusted
  <2> QED BY <2>1, <2>2, <2>4, AnyFacts DEF NumbersOK, Kept, Steady
<1> QED BY <1>1, <1>2, <1>3 DEF LogToFile

LEMMA NetfsNumbers ==
    ASSUME AnyInv, pc = "scan", astray' = astray, NEW c \in Cli, NetfsCommand(c)
    PROVE  NumbersOK
<1>1. /\ tab \in Table /\ NoFd \notin Fd /\ ps2_netfs_fd \in Fd \cup {NoFd}
      /\ ps2_netfs_fd \in Trusted => tab[ps2_netfs_fd] = "netfs"
      /\ Trusted \subseteq Fd /\ \A f \in Fd : f \in Trusted <=> f \notin astray
  BY AnyFacts DEF Trusted
<1>2. {"netfs", "copy", "dead"} \subseteq Kinds \cup Tools
  BY DEF Kinds
<1>3. /\ tab' \in Table /\ ps2_netfs_fd' \in Fd \cup {NoFd}
      /\ ps2_netfs_fd' \in Trusted => tab'[ps2_netfs_fd'] = "netfs"
      /\ \A f \in Trusted : tab[f] \in Steady \cup {"logfile"} => tab'[f] = tab[f]
  <2>1. CASE NetfsOpened
    <3>1. tab' = Alloc(tab, "netfs") /\ ps2_netfs_fd' = Opened(tab)
      BY <2>1 DEF NetfsOpened, Opened
    <3>2. /\ tab' \in Table /\ \A f \in Fd : tab[f] # "free" => tab'[f] = tab[f]
          /\ ps2_netfs_fd' \in Fd \cup {NoFd}
          /\ ps2_netfs_fd' # NoFd => tab'[ps2_netfs_fd'] = "netfs"
      BY <3>1, <1>1, <1>2, AllocFacts
    <3> QED BY <3>2, <1>1 DEF Steady
  <2>2. CASE NetfsRefused
    <3>1. tab' = Alloc(tab, "dead") /\ ps2_netfs_fd' = NoFd
      BY <2>2 DEF NetfsRefused
    <3>2. tab' \in Table /\ \A f \in Fd : tab[f] # "free" => tab'[f] = tab[f]
      BY <3>1, <1>1, <1>2, AllocFacts
    <3> QED BY <3>1, <3>2, <1>1 DEF Steady
  <2>3. CASE NetfsDropped
    BY <2>3, <1>1, CloseFacts DEF NetfsDropped, ForgetNetfs, Steady
  <2>4. CASE CopyLeaks
    <3> DEFINE n == IF ps2_netfs_fd = NoFd THEN Opened(tab) ELSE ps2_netfs_fd
               t == IF ps2_netfs_fd = NoFd THEN Alloc(tab, "netfs") ELSE tab
               u == Alloc(t, "copy")
    <3>1. /\ t \in Table /\ n \in Fd /\ (n \in Trusted => t[n] = "netfs")
          /\ \A f \in Fd : tab[f] # "free" => t[f] = tab[f]
      <4>1. CASE ps2_netfs_fd = NoFd
        BY <4>1, <2>4, <1>1, <1>2, AllocFacts DEF CopyLeaks
      <4>2. CASE ps2_netfs_fd # NoFd
        BY <4>2, <1>1
      <4> QED BY <4>1, <4>2
    <3>2. /\ u \in Table /\ \A f \in Fd : t[f] # "free" => u[f] = t[f]
      BY <3>1, <1>2, AllocFacts
    <3>3. /\ n \in Trusted => u[n] = "netfs"
          /\ \A f \in Fd : tab[f] # "free" => u[f] = tab[f]
      BY <3>1, <3>2
    <3>4. n \in Trusted => tab[n] \in {"free", "netfs"}
      BY <3>1
    <3>5. CASE tab' = u /\ ps2_netfs_fd' = n
      BY <3>5, <1>1, <3>1, <3>2, <3>3 DEF Steady
    <3>6. CASE tab' = Close(u, n) /\ ps2_netfs_fd' = NoFd
      <4>1. /\ Close(u, n) \in Table
            /\ \A f \in Fd : f # n => Close(u, n)[f] = u[f]
        BY <3>1, <3>2, CloseFacts
      <4> QED BY <3>6, <1>1, <4>1, <3>2, <3>3, <3>4 DEF Steady
    <3> QED BY <2>4, <3>5, <3>6 DEF CopyLeaks, ForgetNetfs
  <2> QED BY <2>1, <2>2, <2>3, <2>4 DEF NetfsCommand
<1>4. pc' = "scan" /\ UNCHANGED <<pko_srv_fd, cprompt, log_to_file, log_f_fd>>
  BY DEF NetfsCommand, Continue, logs
<1>5. OwnedNumbers'
  BY <1>1, <1>3, <1>4, AnyFacts DEF OwnedNumbers
<1> QED BY <1>3, <1>4, <1>5, AnyFacts DEF NumbersOK, Kept

-----------------------------------------------------------------------------
(* What the handlers send.                                                 *)

Allowed(c) ==
    {c} \cup (CASE c = "execee" -> {"reset"}
                [] c = "gsexec" -> {"stopvu"}
                [] OTHER -> {})

Clean == ps2 # "loaded"

SendsOK(c) ==
    /\ out' \subseteq Allowed(c)
    /\ state' \in {0, 1} /\ (state' = 0 => Clean')
    /\ pc' = "away" => c = "execee" /\ Clean'
    /\ "execee" \in out' => Clean

LEMMA CleanKept ==
    ASSUME CommandInv, UNCHANGED <<state, ps2>>
    PROVE  state' \in {0, 1} /\ (state' = 0 => Clean')
<1>1. state' \in {0, 1}
  BY DEF CommandInv
<1>2. state' = 0 => Clean'
  BY Zenon DEF CommandInv, Clean
<1> QED BY <1>1, <1>2

\* A RESET that was sent leaves nothing running; one that was not is marked.
LEMMA ResetCleans ==
    ASSUME ResetSent
    PROVE  state' = 0 /\ Clean' /\ out' \subseteq {"reset"}
<1>1. state' = 0 /\ out' \subseteq {"reset"}
  BY DEF ResetSent, Sent
<1>2. Clean'
  BY Zenon DEF ResetSent, Clean
<1> QED BY <1>1, <1>2

LEMMA SendSends ==
    ASSUME CommandInv, NEW c, NEW b \in BOOLEAN, c # "execee", SendCmd(c, b)
    PROVE  SendsOK(c)
<1>1. out' \subseteq {c} /\ pc' = "scan" /\ UNCHANGED <<state, ps2>>
  BY DEF SendCmd, Sent, Continue, links
<1>2. out' \subseteq Allowed(c) /\ "execee" \notin out'
  BY <1>1 DEF Allowed
<1> QED BY <1>1, <1>2, CleanKept DEF SendsOK

LEMMA SilentSends ==
    ASSUME CommandInv, NEW c, pc' = "scan", out' = {}, UNCHANGED <<state, ps2>>
    PROVE  SendsOK(c)
BY CleanKept DEF SendsOK

LEMMA ExecSends ==
    ASSUME CommandInv, NEW c,
           (c = "execee" /\ cli_execee) \/ (c = "execiop" /\ cli_execeiop)
    PROVE  SendsOK(c)
<1>1. CASE c = "execee" /\ ExecNow
  <2>1. out' \subseteq {"execee"} /\ pc' = "scan" /\ state' = 1 /\ state # 1
    BY <1>1 DEF ExecNow, ProgramSent, MustReset, Sent, Continue
  <2>2. Clean
    BY <2>1 DEF CommandInv, Clean
  <2> QED BY <1>1, <2>1, <2>2 DEF SendsOK, Allowed
<1>2. CASE c = "execee" /\ ExecAfterReset
  <2>1. state' = 0 /\ Clean' /\ out' \subseteq {"reset"}
    BY <1>2, ResetCleans DEF ExecAfterReset
  <2>2. out' \subseteq Allowed("execee") /\ "execee" \notin out'
    BY <2>1 DEF Allowed
  <2> QED BY <1>2, <2>1, <2>2 DEF SendsOK
<1>3. CASE c = "execiop" /\ cli_execeiop
  <2>1. out' \subseteq {"execiop"} /\ pc' = "scan" /\ state' = 1
    BY <1>3 DEF cli_execeiop, ProgramSent, Sent, Continue
  <2> QED BY <1>3, <2>1 DEF SendsOK, Allowed
<1> QED BY <1>1, <1>2, <1>3 DEF cli_execee

LEMMA ResetSends ==
    ASSUME CommandInv, cli_reset
    PROVE  SendsOK("reset")
<1>1. state' = 0 /\ Clean' /\ out' \subseteq {"reset"} /\ pc' = "scan"
  BY ResetCleans DEF cli_reset, Continue
<1> QED BY <1>1 DEF SendsOK, Allowed

LEMMA GsexecSends ==
    ASSUME CommandInv, RelayGsexec
    PROVE  SendsOK("gsexec")
<1>1. out' \subseteq {"gsexec", "stopvu"} /\ pc' = "scan" /\ UNCHANGED <<state, ps2>>
  BY DEF RelayGsexec, Sent, Continue, links
<1>2. out' \subseteq Allowed("gsexec") /\ "execee" \notin out'
  BY <1>1 DEF Allowed
<1> QED BY <1>1, <1>2, CleanKept DEF SendsOK

\* Every command of the shell and every request of a tool.
LEMMA ExecuteAny ==
    ASSUME AnyInv, pc = "scan", astray' = astray, NEW c \in Cli, Execute(c)
    PROVE  NumbersOK /\ SendsOK(c)
<1>1. CommandInv
  BY DEF AnyInv
<1>2. CASE (c = "execee" /\ cli_execee) \/ (c = "execiop" /\ cli_execeiop)
  <2>1. NumbersOK
    BY <1>2, SendNumbers, ExecNumbers DEF cli_execee
  <2> QED BY <1>1, <1>2, <2>1, ExecSends
<1>3. CASE c = "reset" /\ cli_reset
  BY <1>1, <1>3, ResetNumbers, ResetSends
<1>4. CASE \/ c \in UdpCli \cup {"gsexec"} /\ SendCmd(c, TRUE)
           \/ c \in RejectLate /\ SendCmd(c, FALSE)
  <2>1. c # "execee" /\ TRUE \in BOOLEAN /\ FALSE \in BOOLEAN
    BY <1>4 DEF UdpCli, RejectLate
  <2>2. NumbersOK
    BY <1>4, <2>1, SendNumbers
  <2> QED BY <1>1, <1>4, <2>1, <2>2, SendSends
<1>5. CASE NoEffect \/ cli_quit
  <2>1. pc' = "scan" /\ out' = {} /\ UNCHANGED <<state, ps2>>
    BY <1>5 DEF NoEffect, cli_quit, Continue, links
  <2> QED BY <1>1, <1>5, <2>1, SilentSends, SendNumbers
<1>6. CASE NetfsCommand(c)
  <2>1. pc' = "scan" /\ out' = {} /\ UNCHANGED <<state, ps2>>
    BY <1>6 DEF NetfsCommand, Continue
  <2> QED BY <1>1, <1>6, <2>1, SilentSends, NetfsNumbers
<1>7. CASE LogToFile \/ LogToStdout
  <2>1. pc' = "scan" /\ out' = {} /\ UNCHANGED <<state, ps2>>
    BY <1>7 DEF LogToFile, LogToStdout, Continue, links
  <2> QED BY <1>1, <1>7, <2>1, SilentSends, LogNumbers
<1> QED BY <1>2, <1>3, <1>4, <1>5, <1>6, <1>7 DEF Execute

LEMMA RelayAny ==
    ASSUME AnyInv, pc = "scan", astray' = astray, NEW q \in Reqs, Relay(q)
    PROVE  NumbersOK /\ SendsOK(q)
<1>1. CommandInv
  BY DEF AnyInv
<1>2. CASE (q = "execee" /\ cli_execee) \/ (q = "execiop" /\ cli_execeiop)
  <2>1. NumbersOK
    BY <1>2, SendNumbers, ExecNumbers DEF cli_execee
  <2> QED BY <1>1, <1>2, <2>1, ExecSends
<1>3. CASE q = "reset" /\ cli_reset
  BY <1>1, <1>3, ResetNumbers, ResetSends
<1>4. CASE q \in {"dumpmem", "dumpregs", "stopvu", "startvu"} /\ SendCmd(q, TRUE)
  <2>1. q # "execee" /\ TRUE \in BOOLEAN
    BY <1>4
  <2>2. NumbersOK
    BY <1>4, <2>1, SendNumbers
  <2> QED BY <1>1, <1>4, <2>1, <2>2, SendSends
<1>5. CASE NoEffect
  <2>1. pc' = "scan" /\ out' = {} /\ UNCHANGED <<state, ps2>>
    BY <1>5 DEF NoEffect, Continue, links
  <2> QED BY <1>1, <1>5, <2>1, SilentSends, SendNumbers
<1>6. CASE q = "gsexec" /\ RelayGsexec
  BY <1>1, <1>6, GsexecSends, SendNumbers
<1> QED BY <1>2, <1>3, <1>4, <1>5, <1>6 DEF Relay

-----------------------------------------------------------------------------
(* Every step preserves the invariant, and sends a program only to a PS2   *)
(* that was reset.                                                         *)

InputTypes ==
    cin' \in Cli \cup {"none"} /\ pend' \in [Tools -> Reqs \cup {"none"}]

ProgramOK == "execee" \in out' /\ "execee" \notin out => Clean

StepGood == AnyInv' /\ ProgramOK

\* A command of the shell, or a request of a tool.
LEMMA HandledGood ==
    ASSUME AnyInv, pc = "scan", astray' = astray, NEW c, ask' = c, NumbersOK, SendsOK(c),
           client' = client, InputTypes
    PROVE  StepGood
<1>1. /\ pko_srv_fd \in Fd /\ (pko_srv_fd \in Trusted => tab[pko_srv_fd] = "srv")
      /\ Trusted' = Trusted /\ (Low => Low')
      /\ ~Low => SrvFd0 \in Trusted /\ NStd \in Trusted
  BY AnyFacts, TrustedFacts DEF Trusted, Low
<1>2. pc' \in {"scan", "away"}
  BY DEF NumbersOK, Kept, Dropped
<1>3. AnyTypes'
  BY <1>2 DEF AnyInv, AnyTypes, NumbersOK, InputTypes
<1>4. StdInv'
  BY <1>1, <1>2 DEF AnyInv, StdInv, NumbersOK, Kept, Dropped, Steady
<1>5. HomeInv'
  <2>1. CASE Kept
    BY <2>1, <1>1, Places DEF AnyInv, HomeInv, NumbersOK, Kept, Steady
  <2>2. CASE Dropped
    BY <2>2, <1>1, Places DEF AnyInv, HomeInv, NumbersOK, Dropped, Steady
  <2> QED BY <2>1, <2>2 DEF NumbersOK
<1>6. PromptHonest'
  <2>1. cprompt
    BY DEF AnyInv, PromptHonest
  <2>2. CASE Kept
    BY <2>1, <2>2 DEF Kept, PromptHonest
  <2>3. CASE Dropped
    BY <2>1, <2>3 DEF Dropped, PromptHonest
  <2> QED BY <2>2, <2>3 DEF NumbersOK
<1>7. CommandInv'
  <2>1. NothingUnasked'
    BY DEF SendsOK, Allowed, NothingUnasked
  <2> QED BY <2>1 DEF SendsOK, Clean, CommandInv
<1>8. ProgramOK
  BY DEF SendsOK, ProgramOK
<1> QED BY <1>3, <1>4, <1>5, <1>6, <1>7, <1>8 DEF AnyInv, StepGood, NumbersOK

\* A step of the loop that leaves the link, the remembered numbers and the
\* commands alone.
LEMMA QuietGood ==
    ASSUME AnyInv, pc \notin {"away", "exited"}, tab' \in Table,
           pc' \in {"select", "scan", "spin", "wedged", "undefined"},
           astray \subseteq astray', astray' \subseteq Fd,
           \A f \in Fd \ astray' : tab[f] \in Steady \cup {"netfs", "logfile"} => tab'[f] = tab[f],
           client' \in [Slot -> Fd \cup {NoFd}],
           client[1] = SrvFd0 /\ pko_srv_fd = SrvFd0 => client'[1] = SrvFd0,
           UNCHANGED <<links, logs, ps2>>,
           out' = {} \/ UNCHANGED <<ask, out>>, InputTypes
    PROVE  StepGood
<1>1. UNCHANGED <<pko_srv_fd, ps2_netfs_fd, state, cprompt, log_to_file, log_f_fd>>
  BY DEF links, logs
<1>0. /\ Trusted' = Fd \ astray' /\ Trusted' \subseteq Trusted /\ (Low => Low')
      /\ ~Low' => SrvFd0 \in Trusted' /\ NStd \in Trusted'
  <2>1. Trusted' = Fd \ astray' /\ Trusted' \subseteq Trusted /\ (Low => Low')
    BY DEF Trusted, Low
  <2>2. ~Low' => SrvFd0 \notin astray' /\ NStd \notin astray'
    BY TrustedFacts DEF Low
  <2> QED BY <2>1, <2>2, Places
<1>2. AnyTypes'
  BY <1>1 DEF AnyInv, AnyTypes, InputTypes
<1>3. StdInv'
  BY <1>0 DEF AnyInv, StdInv, Steady
<1>4. HomeInv'
  BY <1>0, <1>1, Places DEF AnyInv, HomeInv, Steady
<1>5. OwnedNumbers'
  BY <1>1, Places DEF AnyInv, AnyTypes, OwnedNumbers
<1>6. PromptHonest'
  BY <1>1 DEF AnyInv, PromptHonest
<1>7. NothingUnasked'
  BY DEF AnyInv, CommandInv, NothingUnasked
<1>8. CommandInv'
  BY <1>1, <1>7, CleanKept DEF AnyInv, CommandInv, Clean
<1>9. ProgramOK
  BY DEF ProgramOK
<1> QED BY <1>2, <1>3, <1>4, <1>5, <1>6, <1>8, <1>9 DEF AnyInv, StepGood

LEMMA InputsKept ==
    ASSUME AnyInv, UNCHANGED <<cin, pend>>
    PROVE  InputTypes
BY DEF AnyInv, AnyTypes, InputTypes

\* main()'s loop around the handlers, the log, and an accept() that fails.
LEMMA LoopGood ==
    ASSUME AnyInv,
           \/ Select \/ SelectFails \/ ScanDone
           \/ \E s \in Slot : ScanLog(s) \/ ScanSrvError(s) \/ AcceptUndefined(s) \/ ScanStale(s) \/ ScanLost(s)
           \/ \E s, j \in Slot : AcceptFails(s, j)
    PROVE  StepGood
<1>1. /\ pc \notin {"away", "exited"} /\ pc' \in {"select", "scan", "spin", "wedged", "undefined"}
      /\ tab' = tab /\ client' = client /\ astray' = astray
      /\ UNCHANGED <<links, logs, ps2, cin, pend>>
      /\ out' = {} \/ UNCHANGED <<ask, out>>
  BY DEF Select, SelectFails, ScanDone, ScanLog, ScanSrvError, AcceptUndefined, ScanStale,
         ScanLost, AcceptFails, SrvHit, ListenHit, ClientHit, Hit, watch, ghosts, tools, inputs
<1>2. tab' \in Table /\ client' \in [Slot -> Fd \cup {NoFd}] /\ astray' \subseteq Fd
  BY <1>1 DEF AnyInv, AnyTypes
<1> QED BY <1>1, <1>2, InputsKept, QuietGood

LEMMA SrvRequestGood ==
    ASSUME AnyInv, NEW s \in Slot, ScanSrvRequest(s) \/ ScanSrvTorn(s), pc' # "exited"
    PROVE  StepGood
<1>1. /\ pc = "scan" /\ pc' \in {"scan", "undefined"} /\ client' = client
      /\ UNCHANGED <<links, logs, ps2, cin, pend, ask, out>>
  BY DEF ScanSrvRequest, ScanSrvTorn, TornHandler, SrvHit, Hit, watch, ghosts, tools
<1>2. tab \in Table /\ "file" \in Kinds \cup Tools /\ astray \subseteq Fd
  BY DEF AnyInv, AnyTypes, Kinds
<1>3. /\ tab' \in Table /\ astray \subseteq astray' /\ astray' \subseteq Fd
      /\ \A f \in Fd \ astray' : tab[f] \in Steady \cup {"netfs", "logfile"} => tab'[f] = tab[f]
  <2>1. CASE tab' = Alloc(tab, "file") /\ astray' = astray
    BY <2>1, <1>2, AllocFacts DEF Steady
  <2>2. CASE \E f \in Fd : PS2Handle(f) /\ tab' = Close(tab, f) /\ astray' = astray
    BY <2>2, <1>2, CloseFacts DEF Steady, PS2Handle
  <2>3. CASE \E f \in Fd \cap Strays : CloseAstray(f)
    BY <2>3, <1>2, CloseFacts DEF CloseAstray
  <2>4. CASE tab' = tab /\ astray' = astray
    BY <2>4, <1>2
  <2> QED BY <2>1, <2>2, <2>3, <2>4 DEF ScanSrvRequest, ScanSrvTorn, TornHandler
<1>4. client' \in [Slot -> Fd \cup {NoFd}]
  BY <1>1 DEF AnyInv, AnyTypes
<1> QED BY <1>1, <1>3, <1>4, InputsKept, QuietGood

\* The reply to a request cut short kills pksh.
LEMMA SrvKilledGood ==
    ASSUME AnyInv, NEW s \in Slot, ScanSrvTorn(s), pc' = "exited"
    PROVE  StepGood
<1>1. /\ pc = "scan" /\ client' = client /\ tab' = tab /\ astray' = astray
      /\ UNCHANGED <<links, logs, ask, out, ps2, cin, pend>>
  BY DEF ScanSrvTorn, TornHandler, SrvHit, Hit, watch, ghosts, tools
<1>2. AnyTypes'
  BY <1>1 DEF AnyInv, AnyTypes, links, logs
<1>3. StdInv' /\ HomeInv' /\ OwnedNumbers'
  BY DEF StdInv, HomeInv, OwnedNumbers
<1>4. PromptHonest'
  BY <1>1 DEF AnyInv, PromptHonest, links
<1>5. NothingUnasked'
  BY <1>1 DEF AnyInv, CommandInv, NothingUnasked
<1>6. CommandInv' /\ ProgramOK
  BY <1>1, <1>5, CleanKept DEF AnyInv, CommandInv, Clean, ProgramOK, links
<1> QED BY <1>2, <1>3, <1>4, <1>6 DEF AnyInv, StepGood

LEMMA AcceptGood ==
    ASSUME AnyInv, NEW s \in Slot, NEW t \in Tools, NEW j \in Slot, Accept(s, t, j)
    PROVE  StepGood
<1>1. /\ pc = "scan" /\ pc' = "scan" /\ client[j] = NoFd /\ HasFree(tab)
      /\ client' = [client EXCEPT ![j] = Lowest(tab)] /\ tab' = Alloc(tab, t)
      /\ UNCHANGED <<links, logs, ps2, cin, pend, ask, out, astray>>
  BY DEF Accept, ListenHit, Hit, FreeSlot, AddClient, ghosts, inputs
<1>2. tab \in Table /\ client \in [Slot -> Fd \cup {NoFd}] /\ astray' \subseteq Fd
  BY <1>1 DEF AnyInv, AnyTypes
<1>3. /\ tab' \in Table /\ \A f \in Fd : tab[f] # "free" => tab'[f] = tab[f]
      /\ Lowest(tab) \in Fd
  BY <1>1, <1>2, AllocFacts
<1>4. client' \in [Slot -> Fd \cup {NoFd}]
  BY <1>1, <1>2, <1>3
<1>5. client[1] = SrvFd0 => client'[1] = SrvFd0
  BY <1>1, <1>2, Places
<1>6. \A f \in Fd : tab[f] \in Steady \cup {"netfs", "logfile"} => tab'[f] = tab[f]
  BY <1>3 DEF Steady
<1> QED BY <1>1, <1>2, <1>3, <1>4, <1>5, <1>6, InputsKept, QuietGood

LEMMA ToolEofGood ==
    ASSUME AnyInv, NEW s \in Slot, NEW t \in Tools, ScanToolEof(s, t)
    PROVE  StepGood
<1> DEFINE c == client[s]
<1>1. /\ pc = "scan" /\ pc' = "scan" /\ c # pko_srv_fd /\ tab[c] = t
      /\ client' = [client EXCEPT ![s] = NoFd] /\ tab' = Close(tab, c)
      /\ UNCHANGED <<links, logs, ps2, cin, pend, ask, out, astray>>
  BY DEF ScanToolEof, ClientHit, Hit, DropClient, ghosts, inputs
<1>2. /\ tab \in Table /\ client \in [Slot -> Fd \cup {NoFd}] /\ c \in Fd \cup {NoFd}
      /\ astray' \subseteq Fd
  BY <1>1 DEF AnyInv, AnyTypes
<1>3. t \notin Kinds
  BY LoopConstants
<1> HIDE DEF c
<1>4. tab' \in Table /\ \A f \in Fd : f # c => tab'[f] = tab[f]
  BY <1>1, <1>2, CloseFacts
<1>5. \A f \in Fd : tab[f] \in Steady \cup {"netfs", "logfile"} => tab'[f] = tab[f]
  BY <1>1, <1>3, <1>4 DEF Steady, Kinds
<1>6. client' \in [Slot -> Fd \cup {NoFd}]
  BY <1>1, <1>2
<1>7. client[1] = SrvFd0 /\ pko_srv_fd = SrvFd0 => client'[1] = SrvFd0
  BY <1>1, <1>2, Places DEF c
<1> QED BY <1>1, <1>2, <1>4, <1>5, <1>6, <1>7, InputsKept, QuietGood

LEMMA StdinGood ==
    ASSUME AnyInv, NEW s \in Slot, ScanStdin(s)
    PROVE  StepGood
<1>1. /\ pc = "scan" /\ cin \in Cli /\ ask' = cin /\ Execute(cin) /\ client' = client
      /\ astray' = astray
      /\ InputTypes
  BY DEF ScanStdin, Hit, AnyInv, AnyTypes, InputTypes, watch, tools
<1>2. NumbersOK /\ SendsOK(cin)
  BY <1>1, ExecuteAny
<1> QED BY <1>1, <1>2, HandledGood

LEMMA ToolRequestGood ==
    ASSUME AnyInv, NEW s \in Slot, NEW t \in Tools, ScanToolRequest(s, t)
    PROVE  StepGood
<1>1. /\ pc = "scan" /\ pend[t] \in Reqs /\ ask' = pend[t] /\ Relay(pend[t]) /\ client' = client
      /\ astray' = astray
      /\ InputTypes
  BY DEF ScanToolRequest, ClientHit, Hit, AnyInv, AnyTypes, InputTypes, watch
<1>2. NumbersOK /\ SendsOK(pend[t])
  BY <1>1, RelayAny
<1> QED BY <1>1, <1>2, HandledGood

\* The peer has closed the link.
LEMMA SrvEofGood ==
    ASSUME AnyInv, NEW s \in Slot, ScanSrvEof(s)
    PROVE  StepGood
<1>1. /\ pc = "scan" /\ pc' = "away" /\ resume' = "srv" /\ client' = client
      /\ tab' = Close(tab, pko_srv_fd)
      /\ UNCHANGED <<astray, pko_srv_fd, ps2_netfs_fd, state, logs, ask, out, ps2, cin, pend>>
  BY DEF ScanSrvEof, SrvHit, Hit, DropLink, watch, ghosts, tools
<1>2. cprompt' = ~cprompt
  BY Zenon DEF ScanSrvEof, change_prompt
<1>3. /\ pko_srv_fd \in Fd /\ tab[pko_srv_fd] = "srv" /\ tab \in Table
      /\ Trusted' = Trusted /\ (Low => Low') /\ Trusted \subseteq Fd
      /\ ~Low => SrvFd0 \in Trusted /\ NStd \in Trusted
  <2>1. tab[pko_srv_fd] = "srv"
    BY DEF ScanSrvEof, SrvHit
  <2> QED BY <1>1, <2>1, AnyFacts, TrustedFacts DEF Trusted, Low
<1>4. /\ tab' \in Table /\ tab'[pko_srv_fd] = "free"
      /\ \A f \in Fd : f # pko_srv_fd => tab'[f] = tab[f]
  BY <1>1, <1>3, CloseFacts
<1>5. AnyTypes'
  BY <1>1, <1>4 DEF AnyInv, AnyTypes, logs
<1>6. StdInv'
  BY <1>1, <1>3, <1>4 DEF AnyInv, StdInv
<1>7. HomeInv'
  BY <1>1, <1>3, <1>4, Places DEF AnyInv, HomeInv
<1>8. OwnedNumbers'
  BY <1>1, <1>3, <1>4, AnyFacts DEF OwnedNumbers, Trusted, logs
<1>9. PromptHonest'
  <2>1. cprompt
    BY <1>1 DEF AnyInv, PromptHonest
  <2> QED BY <2>1, <1>1, <1>2 DEF PromptHonest
<1>10. NothingUnasked'
  BY <1>1 DEF AnyInv, CommandInv, NothingUnasked
<1>11. CommandInv'
  BY <1>1, <1>10, CleanKept DEF AnyInv, CommandInv, Clean
<1>12. ProgramOK
  BY <1>1 DEF ProgramOK
<1> QED BY <1>5, <1>6, <1>7, <1>8, <1>9, <1>11, <1>12 DEF AnyInv, StepGood

\* One failed turn of a reconnect loop: the socket it may leave behind takes
\* one of the places the link could have come back to, or none.
LEMMA FailGood ==
    ASSUME AnyInv, NEW how \in Failures, ReconnectFail(how)
    PROVE  StepGood
<1>1. /\ pc = "away" /\ pc' = "away" /\ resume' = resume /\ pko_srv_fd' = NoFd
      /\ client' = client /\ tab' \in {tab, Alloc(tab, "dead")}
      /\ UNCHANGED <<astray, ps2_netfs_fd, state, logs, ask, out, ps2, cin, pend>>
  BY DEF ReconnectFail, FailedTab, watch, ghosts, tools, inputs
<1>2. cprompt' = cprompt
  BY Zenon DEF ReconnectFail
<1>3. /\ tab \in Table /\ "dead" \in Kinds \cup Tools
      /\ Trusted' = Trusted /\ Low' = Low /\ Trusted \subseteq Fd
  BY <1>1 DEF AnyInv, AnyTypes, Kinds, Trusted, Low
<1>4. /\ tab' \in Table /\ \A f \in Fd : tab[f] # "free" => tab'[f] = tab[f]
      /\ \A f \in Fd : tab'[f] \in {tab[f], "dead"}
  BY <1>1, <1>3, AllocFacts
<1>5. AnyTypes'
  BY <1>1, <1>4 DEF AnyInv, AnyTypes, logs
<1>6. StdInv'
  BY <1>1, <1>3, <1>4 DEF AnyInv, StdInv
<1>7. HomeInv'
  BY <1>1, <1>3, <1>4, Places DEF AnyInv, HomeInv
<1>8. OwnedNumbers'
  BY <1>1, <1>4 DEF AnyInv, AnyTypes, OwnedNumbers, logs
<1>9. PromptHonest'
  BY <1>1, <1>2 DEF AnyInv, PromptHonest
<1>10. NothingUnasked'
  BY <1>1 DEF AnyInv, CommandInv, NothingUnasked
<1>11. CommandInv'
  BY <1>1, <1>10, CleanKept DEF AnyInv, CommandInv, Clean
<1>12. ProgramOK
  BY <1>1 DEF ProgramOK
<1> QED BY <1>5, <1>6, <1>7, <1>8, <1>9, <1>11, <1>12 DEF AnyInv, StepGood

\* The turn that ends it: the link comes back to its number unless a number
\* below is free, which only a closed log file leaves.
LEMMA ReconnectGood ==
    ASSUME AnyInv, ReconnectOk
    PROVE  StepGood
<1> DEFINE n == Lowest(tab)
           t == Alloc(tab, "srv")
<1>1. /\ pc = "away" /\ pc' = "scan" /\ HasFree(tab) /\ pko_srv_fd' = n
      /\ client' = client /\ UNCHANGED <<astray, logs, cin, pend>>
  BY DEF ReconnectOk, Continue, watch, tools, inputs
<1>2. cprompt' = ~cprompt
  BY Zenon DEF ReconnectOk, change_prompt
<1>3. /\ tab \in Table /\ "srv" \in Kinds \cup Tools
      /\ ps2_netfs_fd \in Fd \cup {NoFd}
      /\ ps2_netfs_fd \in Trusted => tab[ps2_netfs_fd] = "netfs"
      /\ Trusted' = Trusted /\ Low' = Low /\ Trusted \subseteq Fd
      /\ ~Low => \A f \in Fd : f <= SrvFd0 => f \in Trusted
      /\ \A f \in Fd : f \in Trusted <=> f \notin astray
  BY <1>1, Places DEF AnyInv, AnyTypes, OwnedNumbers, Kinds, Trusted, Low
<1>4. /\ t \in Table /\ n \in Fd /\ tab[n] = "free" /\ t = [tab EXCEPT ![n] = "srv"]
      /\ \A f \in Fd : tab[f] # "free" => t[f] = tab[f]
  BY <1>1, <1>3, AllocFacts
<1>5. t[n] = "srv"
  BY <1>3, <1>4 DEF Table
<1>6. /\ resume = "srv" => /\ tab' = Close(t, ps2_netfs_fd) /\ ps2_netfs_fd' = NoFd
                           /\ UNCHANGED <<state, ask, out, ps2>>
      /\ resume # "srv" => /\ tab' = CmdCon(t) /\ state' = 1 /\ resume = "exec"
                           /\ out' \subseteq out \cup {"execee"}
                           /\ UNCHANGED <<ps2_netfs_fd, ask>>
  BY DEF ReconnectOk, ForgetNetfs, ghosts, Sent
<1> HIDE DEF n, t
<1>7. /\ tab' \in Table /\ (n \in Trusted => tab'[n] = "srv")
      /\ \A f \in Trusted : tab[f] \in Steady \cup {"logfile"} => tab'[f] = tab[f]
      /\ ps2_netfs_fd' # NoFd => ps2_netfs_fd' = ps2_netfs_fd
      /\ ps2_netfs_fd' \in Trusted => tab'[ps2_netfs_fd'] = "netfs"
  <2>1. CASE resume = "srv"
    <3>1. /\ Close(t, ps2_netfs_fd) \in Table
          /\ \A f \in Fd : f # ps2_netfs_fd => Close(t, ps2_netfs_fd)[f] = t[f]
      BY <1>3, <1>4, CloseFacts
    <3>2. tab' = Close(t, ps2_netfs_fd) /\ ps2_netfs_fd' = NoFd
      BY <2>1, <1>6
    <3>3. /\ NoFd \notin Trusted /\ (n \in Trusted => n # ps2_netfs_fd)
          /\ \A f \in Trusted : f = ps2_netfs_fd => tab[f] = "netfs"
      BY <1>3, <1>4, TrustedFacts
    <3> QED BY <3>1, <3>2, <3>3, <1>3, <1>4, <1>5 DEF Steady
  <2>2. CASE resume # "srv"
    <3>1. /\ CmdCon(t) \in Table
          /\ \A f \in Fd : t[f] # "free" => CmdCon(t)[f] = t[f]
      BY <1>4, CmdConFacts
    <3>2. tab' = CmdCon(t) /\ ps2_netfs_fd' = ps2_netfs_fd
      BY <2>2, <1>6
    <3> QED BY <3>1, <3>2, <1>3, <1>4, <1>5 DEF Steady
  <2> QED BY <2>1, <2>2
<1>8. AnyTypes'
  BY <1>1, <1>4, <1>7 DEF AnyInv, AnyTypes, logs
<1>9. StdInv'
  BY <1>1, <1>3, <1>7 DEF AnyInv, StdInv, Steady
<1>10. ~Low /\ tab[NStd] = "free" => n = NStd
  <2>1. ~Low => \A f \in Fd : f < NStd => tab[f] # "free"
    BY <1>1, <1>3, Places, LoopConstants DEF AnyInv, StdInv, Fd
  <2> QED BY <2>1, <1>3, Places, LowestIs DEF IsLowest, n
<1>11. ~Low /\ tab[SrvFd0] = "free" => n = SrvFd0 \/ (LogInConfig /\ n = NStd)
  <2>1. ~Low => \A f \in Fd : f < NStd => tab[f] # "free"
    BY <1>1, <1>3, Places, LoopConstants DEF AnyInv, StdInv, Fd
  <2>2. CASE ~LogInConfig
    BY <2>2, <1>10, Places
  <2>3. CASE LogInConfig /\ tab[NStd] # "free"
    <3>1. ~Low => \A f \in Fd : f < SrvFd0 => tab[f] # "free"
      BY <2>1, <2>3, Places, LoopConstants DEF Fd
    <3> QED BY <3>1, <1>3, Places, LowestIs DEF IsLowest, n
  <2> QED BY <2>2, <2>3, <1>10
<1>12. HomeInv'
  <2>1. ~Low => SrvFd0 \in Trusted /\ NStd \in Trusted
    BY <1>3, Places, LoopConstants DEF Fd
  <2> QED BY <2>1, <1>1, <1>3, <1>4, <1>7, <1>10, <1>11, Places DEF AnyInv, HomeInv, Steady
<1>13. OwnedNumbers'
  BY <1>1, <1>3, <1>7 DEF AnyInv, AnyTypes, OwnedNumbers, logs
<1>14. PromptHonest'
  <2>1. cprompt = FALSE
    BY <1>1, Zenon DEF AnyInv, PromptHonest
  <2> QED BY <2>1, <1>1, <1>2 DEF PromptHonest
<1>15. CommandInv' /\ ProgramOK
  <2>1. CASE resume = "srv"
    <3>1. NothingUnasked'
      BY <2>1, <1>6 DEF AnyInv, CommandInv, NothingUnasked
    <3> QED BY <2>1, <3>1, <1>1, <1>6, CleanKept DEF AnyInv, CommandInv, Clean, ProgramOK
  <2>2. CASE resume # "srv"
    <3>1. ask = "execee" /\ Clean
      BY <2>2, <1>1, <1>6 DEF AnyInv, CommandInv, Clean
    <3>2. NothingUnasked'
      BY <2>2, <3>1, <1>6 DEF AnyInv, CommandInv, NothingUnasked
    <3> QED BY <2>2, <3>1, <3>2, <1>1, <1>6 DEF CommandInv, ProgramOK
  <2> QED BY <2>1, <2>2
<1> QED BY <1>8, <1>9, <1>12, <1>13, <1>14, <1>15 DEF AnyInv, StepGood

\* main() ends: nothing more is promised of the descriptors.
LEMMA ExitGood ==
    ASSUME AnyInv, Exit
    PROVE  StepGood
<1>1. /\ pc = "select" /\ pc' = "exited" /\ client' = client
      /\ UNCHANGED <<links, logs, ask, out, ps2, cin, pend, astray>>
  BY DEF Exit, watch, ghosts, tools, inputs
<1>2. /\ tab \in Table /\ pko_srv_fd \in Fd \cup {NoFd} /\ log_fd \in Fd \cup {NoFd}
      /\ log_f_fd \in Fd \cup {NoFd} /\ ps2_netfs_fd \in Fd \cup {NoFd}
  BY NumbersHold DEF AnyInv, AnyTypes, Numbers
<1>3. tab' \in Table
  <2>1. \A t \in Table, f \in Fd \cup {NoFd} : Close(t, f) \in Table
    BY CloseFacts
  <2> QED BY <2>1, <1>2 DEF Exit
<1>4. AnyTypes'
  BY <1>1, <1>3 DEF AnyInv, AnyTypes, links, logs
<1>5. StdInv' /\ HomeInv' /\ OwnedNumbers'
  BY <1>1 DEF StdInv, HomeInv, OwnedNumbers
<1>6. PromptHonest'
  BY <1>1 DEF AnyInv, PromptHonest, links
<1>7. NothingUnasked'
  BY <1>1 DEF AnyInv, CommandInv, NothingUnasked
<1>8. CommandInv' /\ ProgramOK
  BY <1>1, <1>7, CleanKept DEF AnyInv, CommandInv, Clean, ProgramOK, links
<1> QED BY <1>4, <1>5, <1>6, <1>8 DEF AnyInv, StepGood

\* What arrives, and a step that changes nothing.
LEMMA ArrivalGood ==
    ASSUME AnyInv, Environment \/ UNCHANGED vars
    PROVE  StepGood
<1>1. UNCHANGED <<tab, client, pc, resume, links, logs, ask, out, ps2, astray>>
  BY DEF Environment, ToolConnect, ToolClose, ToolSend, PS2Request, PS2Drop, PS2Log, UserType,
         Arrives, vars, watch, ghosts
<1>2. cin' \in Cli \cup {"none"}
  BY LoopConstants
     DEF Environment, ToolConnect, ToolClose, ToolSend, PS2Request, PS2Drop, PS2Log, UserType,
         AnyInv, AnyTypes, vars, inputs
<1>3. pend' \in [Tools -> Reqs \cup {"none"}]
  <2>1. CASE \E t \in Tools, q \in ReqUsed : ToolSend(t, q)
    BY <2>1, LoopConstants DEF ToolSend, AnyInv, AnyTypes
  <2>2. CASE UNCHANGED pend
    BY <2>2 DEF AnyInv, AnyTypes
  <2> QED BY <2>1, <2>2
          DEF Environment, ToolConnect, ToolClose, PS2Request, PS2Drop, PS2Log, UserType, vars, tools
<1>4. AnyTypes' /\ StdInv' /\ HomeInv'
  BY <1>1, <1>2, <1>3 DEF AnyInv, AnyTypes, StdInv, HomeInv, Trusted, Low, links, logs
<1>5. OwnedNumbers' /\ PromptHonest'
  BY <1>1 DEF AnyInv, OwnedNumbers, PromptHonest, links, logs
<1>6. NothingUnasked'
  BY <1>1 DEF AnyInv, CommandInv, NothingUnasked
<1>7. CommandInv' /\ ProgramOK
  BY <1>1, <1>6, CleanKept DEF AnyInv, CommandInv, Clean, ProgramOK, links
<1> QED BY <1>4, <1>5, <1>7 DEF AnyInv, StepGood

LEMMA InitAny ==
    ASSUME Init
    PROVE  AnyInv
<1>1. AnyTypes
  BY InitTable, NumbersHold DEF Init, AnyTypes, Numbers
<1>2. StdInv /\ HomeInv /\ OwnedNumbers
  <2>0. Trusted = Fd
    BY DEF Init, Trusted
  <2>1. pc = "select" /\ pko_srv_fd = SrvFd0 /\ client[1] = SrvFd0
    BY NumbersHold DEF Init, Numbers
  <2>2. SrvFd0 \in Fd
    BY NumbersHold DEF Numbers
  <2>3. OwnedNumbers
    BY InitTable DEF Init, OwnInv, OwnedNumbers
  <2> QED BY <2>0, <2>1, <2>2, <2>3, InitTable DEF StdInv, HomeInv
<1>3. PromptHonest
  BY DEF Init, PromptHonest
<1>4. CommandInv
  BY DEF Init, CommandInv, NothingUnasked
<1> QED BY <1>1, <1>2, <1>3, <1>4 DEF AnyInv

LEMMA NextGood ==
    ASSUME AnyInv, [Next]_vars
    PROVE  StepGood
<1>1. CASE Select \/ SelectFails \/ Exit \/ ScanDone
  BY <1>1, LoopGood, ExitGood
<1>2. ASSUME NEW s \in Slot, Handle(s)
      PROVE  StepGood
  <2>1. CASE ScanLog(s) \/ ScanSrvError(s) \/ AcceptUndefined(s) \/ ScanStale(s) \/ ScanLost(s)
    BY <2>1, LoopGood
  <2>2. CASE \E j \in Slot : AcceptFails(s, j)
    BY <2>2, LoopGood
  <2>3. CASE \E t \in Tools, j \in Slot : Accept(s, t, j)
    BY <2>3, AcceptGood
  <2>4. CASE ScanStdin(s) \/ ScanSrvRequest(s) \/ ScanSrvTorn(s) \/ ScanSrvEof(s)
    <3>1. ~(ScanSrvRequest(s) /\ pc' = "exited")
      BY DEF ScanSrvRequest, SrvHit, Hit
    <3> QED BY <2>4, <3>1, StdinGood, SrvRequestGood, SrvKilledGood, SrvEofGood
  <2>5. CASE \E t \in Tools : ScanToolRequest(s, t) \/ ScanToolEof(s, t)
    BY <2>5, ToolRequestGood, ToolEofGood
  <2> QED BY <1>2, <2>1, <2>2, <2>3, <2>4, <2>5 DEF Handle
<1>3. CASE ReconnectOk \/ \E how \in Failures : ReconnectFail(how)
  BY <1>3, ReconnectGood, FailGood
<1>4. CASE Environment \/ UNCHANGED vars
  BY <1>4, ArrivalGood
<1> QED BY <1>1, <1>2, <1>3, <1>4 DEF Next, Pksh

-----------------------------------------------------------------------------
(* The rest of the types.  maxi is lowered once per tool that closes, and  *)
(* stays a slot because slot 0 never holds a tool.                         *)

WatchTypes ==
    /\ client[0] = 0 /\ maxi \in Slot /\ maxfd \in Fd
    /\ master_set \subseteq Fd /\ readset \subseteq Fd /\ i \in 0..MaxClients

FlagTypes ==
    doloop \in BOOLEAN /\ log_to_file \in BOOLEAN /\ ps2 \in {"clean", "loaded", "missed"}

ThreadTypes ==
    /\ FlagTypes /\ resume \in {"srv", "exec"}
    /\ ask \in Cli \cup Reqs \cup {"none"} /\ out \subseteq Cli \cup Reqs
    /\ srvIn \in {"none", "request", "torn", "eof", "reset"}

ArrivalTypes ==
    /\ renewed \in BOOLEAN /\ logIn \in BOOLEAN
    /\ conn \in [Tools -> {"off", "queued", "accepted"}] /\ fin \in [Tools -> BOOLEAN]

LEMMA HandlerFlags ==
    ASSUME FlagTypes, (\E c \in Cli : Execute(c)) \/ (\E q \in Reqs : Relay(q))
    PROVE  FlagTypes'
<1>1. CASE cli_quit
  BY <1>1 DEF FlagTypes, cli_quit, logs
<1>2. CASE LogToFile \/ LogToStdout
  BY <1>2 DEF FlagTypes, LogToFile, LogToStdout
<1>3. CASE cli_execeiop \/ ExecNow
  BY <1>3 DEF FlagTypes, cli_execeiop, ExecNow, ProgramSent, logs
<1>4. CASE cli_reset \/ ExecAfterReset
  BY <1>4 DEF FlagTypes, cli_reset, ExecAfterReset, ResetSent, logs
<1>5. CASE \/ NoEffect \/ RelayGsexec \/ \E c \in Cli : NetfsCommand(c)
           \/ \E c \in Cli \cup Reqs, b \in BOOLEAN : SendCmd(c, b)
  BY <1>5 DEF FlagTypes, NoEffect, RelayGsexec, NetfsCommand, SendCmd, logs
<1> QED BY <1>1, <1>2, <1>3, <1>4, <1>5, TRUE \in BOOLEAN, FALSE \in BOOLEAN
        DEF Execute, Relay, cli_execee

LEMMA HandlerSays ==
    ASSUME ThreadTypes, (\E c \in Cli : Execute(c)) \/ (\E q \in Reqs : Relay(q))
    PROVE  /\ resume' \in {"srv", "exec"} /\ out' \subseteq Cli \cup Reqs
           /\ srvIn' \in {"none", "request", "torn", "eof", "reset"}
<1>0. {"execee", "execiop", "reset", "gsexec", "stopvu"} \subseteq Cli \cup Reqs
  BY DEF Cli, Reqs
<1>1. CASE \/ cli_quit \/ LogToFile \/ LogToStdout \/ NoEffect
           \/ \E c \in Cli : NetfsCommand(c)
  BY <1>1 DEF ThreadTypes, cli_quit, LogToFile, LogToStdout, NoEffect, NetfsCommand, Continue
<1>2. CASE cli_execeiop \/ ExecNow
  BY <1>0, <1>2 DEF ThreadTypes, cli_execeiop, ExecNow, ProgramSent, Continue, Sent
<1>3. CASE cli_reset
  BY <1>0, <1>3 DEF ThreadTypes, cli_reset, ResetSent, Continue, Sent
<1>4. CASE ExecAfterReset
  BY <1>0, <1>4 DEF ThreadTypes, ExecAfterReset, ResetSent, Sent
<1>5. CASE RelayGsexec \/ \E c \in Cli \cup Reqs, b \in BOOLEAN : SendCmd(c, b)
  BY <1>0, <1>5 DEF ThreadTypes, RelayGsexec, SendCmd, Continue, Sent
<1> QED BY <1>1, <1>2, <1>3, <1>4, <1>5, TRUE \in BOOLEAN, FALSE \in BOOLEAN
        DEF Execute, Relay, cli_execee

LEMMA ThreadStep ==
    ASSUME AnyInv, ThreadTypes, [Next]_vars
    PROVE  ThreadTypes'
<1>1. CASE \E s \in Slot : ScanStdin(s) \/ \E t \in Tools : ScanToolRequest(s, t)
  <2>1. PICK s \in Slot : ScanStdin(s) \/ \E t \in Tools : ScanToolRequest(s, t)
    BY <1>1
  <2>2. /\ (\E c \in Cli : Execute(c)) \/ (\E q \in Reqs : Relay(q))
        /\ ask' \in Cli \cup Reqs
    <3>1. CASE ScanStdin(s)
      BY <3>1 DEF ScanStdin, AnyInv, AnyTypes
    <3>2. ASSUME NEW t \in Tools, ScanToolRequest(s, t)
          PROVE  Relay(pend[t]) /\ pend[t] \in Reqs /\ ask' = pend[t]
      BY <3>2 DEF ScanToolRequest, AnyInv, AnyTypes
    <3> QED BY <2>1, <3>1, <3>2
  <2> QED BY <2>2, HandlerFlags, HandlerSays DEF ThreadTypes
<1>2. CASE ReconnectOk
  <2>1. ps2' \in {"clean", "loaded", "missed"}
    BY <1>2 DEF ReconnectOk, ThreadTypes, FlagTypes, ghosts
  <2>2. UNCHANGED <<doloop, logs, ask, srvIn>> /\ resume' = "srv"
    BY <1>2 DEF ReconnectOk, Continue, ghosts, inputs
  <2>3. out' \subseteq Cli \cup Reqs
    BY <1>2 DEF ReconnectOk, ThreadTypes, ghosts, Sent, Cli
  <2> QED BY <2>1, <2>2, <2>3 DEF ThreadTypes, FlagTypes, logs
<1>3. ASSUME UNCHANGED <<doloop, logs, ps2>>, resume' \in {resume, "srv"},
             srvIn' \in {srvIn, "none", "request", "torn", "eof", "reset"},
             UNCHANGED <<ask, out>> \/ (ask' = "none" /\ out' = {})
      PROVE  ThreadTypes'
  BY <1>3 DEF ThreadTypes, FlagTypes, logs
<1>4. CASE Select \/ SelectFails \/ Exit \/ ScanDone
  BY <1>3, <1>4 DEF Select, SelectFails, Exit, ScanDone, ghosts, inputs
<1>5. CASE Environment \/ UNCHANGED vars \/ \E how \in Failures : ReconnectFail(how)
  BY <1>3, <1>5
     DEF Environment, ToolConnect, ToolClose, ToolSend, PS2Request, PS2Drop, PS2Log, UserType,
         Arrives, ReconnectFail, vars, ghosts, inputs
<1>6. ASSUME NEW s \in Slot,
             \/ ScanLog(s) \/ ScanSrvRequest(s) \/ ScanSrvTorn(s) \/ ScanSrvError(s)
             \/ ScanSrvEof(s) \/ AcceptUndefined(s) \/ ScanStale(s) \/ ScanLost(s) \/ \E j \in Slot : AcceptFails(s, j)
             \/ \E t \in Tools, j \in Slot : Accept(s, t, j)
             \/ \E t \in Tools : ScanToolEof(s, t)
      PROVE  ThreadTypes'
  BY <1>3, <1>6
     DEF ScanLog, ScanSrvRequest, ScanSrvTorn, ScanSrvError, ScanSrvEof, AcceptUndefined,
         ScanStale, ScanLost, AcceptFails, Accept, ScanToolEof, ghosts, inputs
<1> QED BY <1>1, <1>2, <1>4, <1>5, <1>6 DEF Next, Pksh, Handle

LEMMA WatchStep ==
    ASSUME AnyInv, WatchTypes, [Next]_vars
    PROVE  WatchTypes'
<1>0. /\ client \in [Slot -> Fd \cup {NoFd}] /\ tab \in Table
      /\ 0 \in Slot /\ 0 \in Fd /\ NoFd \notin Fd
  BY NumbersHold DEF AnyInv, AnyTypes, Numbers
<1>1. \A s \in Slot : s + 1 \in 0..MaxClients
  BY LoopConstants DEF Slot
<1>2. ASSUME UNCHANGED watch, readset' \in {readset, {}, Reported(Watched)},
             i' \in {i, 0} \cup {s + 1 : s \in Slot}
      PROVE  WatchTypes'
  BY <1>1, <1>2, LoopConstants DEF WatchTypes, watch, Reported, Watched
<1>3. CASE Select \/ SelectFails \/ Exit \/ ScanDone
  BY <1>2, <1>3 DEF Select, SelectFails, Exit, ScanDone
<1>4. CASE \/ Environment \/ UNCHANGED vars \/ ReconnectOk
           \/ \E how \in Failures : ReconnectFail(how)
  BY <1>2, <1>4
     DEF Environment, ToolConnect, ToolClose, ToolSend, PS2Request, PS2Drop, PS2Log, UserType,
         Arrives, ReconnectOk, ReconnectFail, vars
<1>5. ASSUME NEW s \in Slot, Handle(s)
      PROVE  WatchTypes'
  <2>1. CASE \/ ScanLog(s) \/ ScanStdin(s) \/ ScanSrvRequest(s) \/ ScanSrvTorn(s)
             \/ ScanSrvError(s) \/ ScanSrvEof(s) \/ AcceptUndefined(s) \/ ScanStale(s)
             \/ ScanLost(s)
             \/ \E t \in Tools : ScanToolRequest(s, t)
    BY <1>2, <2>1
       DEF ScanLog, ScanStdin, ScanSrvRequest, ScanSrvTorn, ScanSrvError, ScanSrvEof,
           AcceptUndefined, ScanStale, ScanLost, ScanToolRequest
  <2>2. ASSUME NEW j \in Slot, AcceptFails(s, j)
        PROVE  WatchTypes'
    BY <1>0, <1>1, <2>2 DEF AcceptFails, Larger, WatchTypes
  <2>3. ASSUME NEW t \in Tools, NEW j \in Slot, Accept(s, t, j)
        PROVE  WatchTypes'
    <3>1. Lowest(tab) \in Fd
      BY <1>0, <2>3, AllocFacts DEF Accept
    <3>2. client[j] = NoFd
      BY <2>3 DEF Accept, FreeSlot
    <3> QED BY <1>0, <1>1, <2>3, <3>1, <3>2 DEF Accept, AddClient, Larger, WatchTypes
  <2>4. ASSUME NEW t \in Tools, ScanToolEof(s, t)
        PROVE  WatchTypes'
    <3>1. s # 0 /\ s <= maxi /\ maxi \in Slot
      BY <2>4 DEF ScanToolEof, ClientHit, Hit, WatchTypes
    <3>2. maxi - 1 \in Slot
      BY <3>1, LoopConstants DEF Slot
    <3> QED BY <1>0, <1>1, <2>4, <3>1, <3>2 DEF ScanToolEof, DropClient, WatchTypes
  <2> QED BY <1>5, <2>1, <2>2, <2>3, <2>4 DEF Handle
<1> QED BY <1>3, <1>4, <1>5 DEF Next, Pksh

LEMMA ArrivalStep ==
    ASSUME AnyInv, ArrivalTypes, [Next]_vars
    PROVE  ArrivalTypes'
<1>1. renewed' \in BOOLEAN
  <2>1. CASE ScanDone \/ ReconnectOk
    BY <2>1 DEF ScanDone, ReconnectOk
  <2>2. CASE renewed' = renewed
    BY <2>2 DEF ArrivalTypes
  <2> QED BY <2>1, <2>2
     DEF Next, Pksh, Handle, Select, SelectFails, Exit, ScanLog, ScanStdin, ScanSrvRequest, ScanSrvTorn,
         ScanSrvError, ScanSrvEof, Accept, AcceptFails, AcceptUndefined, ScanToolRequest,
         ScanToolEof, ScanStale, ScanLost, ReconnectFail, Environment, ToolConnect, ToolClose, ToolSend,
         PS2Request, PS2Drop, PS2Log, UserType, Arrives, vars
<1>2. logIn' \in BOOLEAN
  <2>1. CASE PS2Log \/ \E s \in Slot : ScanLog(s)
    BY <2>1 DEF PS2Log, ScanLog
  <2>2. CASE logIn' = logIn
    BY <2>2 DEF ArrivalTypes
  <2> QED BY <2>1, <2>2
     DEF Next, Pksh, Handle, Select, SelectFails, Exit, ScanDone, ScanStdin, ScanSrvRequest, ScanSrvTorn,
         ScanSrvError, ScanSrvEof, Accept, AcceptFails, AcceptUndefined, ScanToolRequest,
         ScanToolEof, ScanStale, ScanLost, ReconnectOk, ReconnectFail, Environment, ToolConnect,
         ToolClose, ToolSend, PS2Request, PS2Drop, UserType, vars, inputs
<1>3. conn' \in [Tools -> {"off", "queued", "accepted"}]
  <2>1. CASE \/ \E t \in Tools : ToolConnect(t)
             \/ \E s \in Slot, t \in Tools : ScanToolEof(s, t)
             \/ \E s, j \in Slot, t \in Tools : Accept(s, t, j)
    BY <2>1 DEF ToolConnect, ScanToolEof, Accept, ArrivalTypes
  <2>2. CASE conn' = conn
    BY <2>2 DEF ArrivalTypes
  <2> QED BY <2>1, <2>2
     DEF Next, Pksh, Handle, Select, SelectFails, Exit, ScanDone, ScanLog, ScanStdin,
         ScanSrvRequest, ScanSrvTorn, ScanSrvError, ScanSrvEof, AcceptFails, AcceptUndefined,
         ScanToolRequest, ScanStale, ScanLost, ReconnectOk, ReconnectFail, Environment, ToolClose,
         ToolSend, PS2Request, PS2Drop, PS2Log, UserType, vars, tools
<1>4. fin' \in [Tools -> BOOLEAN]
  <2>1. CASE \/ \E t \in Tools : ToolClose(t)
             \/ \E s \in Slot, t \in Tools : ScanToolEof(s, t)
    BY <2>1 DEF ToolClose, ScanToolEof, ArrivalTypes
  <2>2. CASE fin' = fin
    BY <2>2 DEF ArrivalTypes
  <2> QED BY <2>1, <2>2
     DEF Next, Pksh, Handle, Select, SelectFails, Exit, ScanDone, ScanLog, ScanStdin,
         ScanSrvRequest, ScanSrvTorn, ScanSrvError, ScanSrvEof, Accept, AcceptFails, AcceptUndefined,
         ScanToolRequest, ScanStale, ScanLost, ReconnectOk, ReconnectFail, Environment, ToolConnect,
         ToolSend, PS2Request, PS2Drop, PS2Log, UserType, vars, tools
<1> QED BY <1>1, <1>2, <1>3, <1>4 DEF ArrivalTypes

-----------------------------------------------------------------------------
(* The theorems: nothing is assumed of how connect() fails or of .pkshrc.  *)

\* Whatever fails, the invariant holds throughout.
THEOREM AnyInvariance == Spec => []AnyInv
<1>1. Init => AnyInv
  BY InitAny
<1>2. AnyInv /\ [Next]_vars => AnyInv'
  BY NextGood DEF StepGood
<1> QED BY <1>1, <1>2, PTL DEF Spec

\* Every variable of the loop keeps its type; maxi stays a slot of client[].
THEOREM TypeCorrect == Spec => []TypeOK
<1> DEFINE MoreTypes == WatchTypes /\ ThreadTypes /\ ArrivalTypes
<1>1. ASSUME Init PROVE MoreTypes
  <2>1. WatchTypes
    BY <1>1, NumbersHold, LoopConstants DEF Init, WatchTypes, Numbers, Slot
  <2>2. FlagTypes
    BY <1>1, LoopConstants DEF Init, FlagTypes
  <2>3. ThreadTypes
    BY <1>1, <2>2 DEF Init, ThreadTypes
  <2>4. ArrivalTypes
    BY <1>1 DEF Init, ArrivalTypes
  <2> QED BY <2>1, <2>3, <2>4
<1>2. AnyInv /\ MoreTypes /\ [Next]_vars => MoreTypes'
  BY WatchStep, ThreadStep, ArrivalStep
<1>3. ASSUME AnyInv, MoreTypes PROVE TypeOK
  <2>1. cprompt \in BOOLEAN
    BY <1>3 DEF AnyInv, PromptHonest
  <2> QED BY <1>3, <2>1
          DEF AnyInv, AnyTypes, CommandInv, WatchTypes, ThreadTypes, FlagTypes, ArrivalTypes,
              TypeOK, Table
<1> HIDE DEF MoreTypes
<1> QED BY <1>1, <1>2, <1>3, AnyInvariance, PTL DEF Spec

\* main() loses sight of the link only because cmd_listener left a socket
\* behind under its number, because the log file of .pkshrc was closed, or
\* because a CLOSE on stale bytes took its number, or one below, away.
THEOREM LinkMovesOnlyThen == Spec => []LinkMovesOnlyIf
<1>1. AnyInv => LinkMovesOnlyIf
  BY TrustedFacts, Places DEF AnyInv, HomeInv, LinkMovesOnlyIf, Running, Low
<1> QED BY <1>1, AnyInvariance, PTL

\* A command line or a tool's request makes pksh send ps2link what was asked
\* for and nothing else, across the reconnect that cli_execee waits for.
THEOREM OnlyWhatWasAsked == Spec => []NothingUnasked
<1>1. AnyInv => NothingUnasked
  BY DEF AnyInv, CommandInv
<1> QED BY <1>1, AnyInvariance, PTL

\* cli_execee starts a program only on a PS2 that was sent a RESET since the
\* last program, whoever started that one, unless that RESET was tried and
\* never left pksh.
THEOREM ProgramsOnlyAfterReset == Spec => ExecAfterResetOnly
<1>1. ASSUME AnyInv, [Next]_vars
      PROVE  "execee" \in out' /\ "execee" \notin out => ps2 # "loaded"
  BY <1>1, NextGood DEF StepGood, ProgramOK, Clean
<1> QED BY <1>1, AnyInvariance, PTL DEF Spec, ExecAfterResetOnly

\* No close() through ps2_netfs_fd or log_f_fd takes down another descriptor,
\* although sockets and log files are left behind under other numbers; only
\* a number that a CLOSE on stale bytes took away itself is an exception.
THEOREM NumbersStayOwned == Spec => []OwnedNumbers
<1>1. AnyInv => OwnedNumbers
  BY DEF AnyInv
<1> QED BY <1>1, AnyInvariance, PTL

\* change_prompt() only toggles, and the prompt still tells the truth however
\* many turns the reconnect loops take.
THEOREM PromptTells == Spec => []PromptHonest
<1>1. AnyInv => PromptHonest
  BY DEF AnyInv
<1> QED BY <1>1, AnyInvariance, PTL
=============================================================================
