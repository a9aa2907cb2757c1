-------------------------- MODULE BatchTool_proofs --------------------------
(***************************************************************************)
(* Proofs about BatchTool: whatever a tool has leaked before, its service  *)
(* loop watches the right descriptors, and a dump is whole when the tool   *)
(* leaves the loop.  They hold for any tools, any junk in master_set, any  *)
(* amount of data and of log.                                              *)
(***************************************************************************)
EXTENDS BatchTool, TLAPS, WellFoundedInduction

Kinds == {"free", "tty", "pksh", "refused", "ps2", "udp", "srv", "log"}
Table == [0..MaxFd -> Kinds]

\* How many descriptors a tool can have in use when it gets to a step.
Level ==
    CASE pc = "local" -> 3 [] pc \in {"drop", "ps2"} -> 4
      [] pc \in {"args", "hand", "send"} -> 5 [] pc = "listen" -> 6
      [] OTHER -> MaxFd + 1

FreeFrom(tab, n) == \A f \in 0..MaxFd : f >= n => tab[f] = "free"

FreeAbove == FreeFrom(table, Level)

\* The fileio connection and the log stand where the loop expects them, with no
\* gap below.
LoopInv ==
    pc = "loop" /\ "torn" \notin amiss =>
        /\ {pko_srv_fd, log_fd} \subseteq master_set /\ pko_srv_fd < log_fd
        /\ table[pko_srv_fd] = "srv" /\ table[log_fd] = "log"
        /\ \A f \in 0..log_fd : table[f] # "free"

\* What ps2link has left to ask is the beginning of a rest of its plan: `a'
\* opens, then `k' pieces of data, then `c' closes, of `n' files.  The tool has
\* done all of the other requests unless something went wrong.
Letter(a, k, j) == IF j <= a THEN "open" ELSE IF j <= a + k THEN "data" ELSE "close"

RestIs(n, a, k, c) ==
    /\ plan \in Seq({"open", "data", "close"}) /\ Len(plan) <= a + k + c
    /\ \A j \in 1..Len(plan) : plan[j] = Letter(a, k, j)
    /\ a > 0 => k = Writes
    /\ a + k > 0 => c = n
    /\ tool \notin {"iopexec", "eeexec"} => n = 1
    /\ open \in 0..n - a /\ stored \in 0..Writes - k
    /\ amiss = {} => /\ open = c - a /\ stored = Writes - k
                     /\ service_close = IF c < n THEN 0 ELSE 1

PlanInv ==
    /\ \E n \in 1..2 : \E a \in 0..n, k \in 0..Writes, c \in 0..n : RestIs(n, a, k, c)
    /\ ~started => /\ plan = <<>> /\ open = 0 /\ stored = 0 /\ service_close = 1
                   /\ ~asked /\ amiss = {}
    /\ (asked => plan # <<>>) /\ (torn => asked)

AfterInv == pc = "after" => m.nservice = 0 /\ service_close = 0

RangeInv ==
    /\ tool \in Used
    /\ pc \in {"local", "drop", "ps2", "args", "hand", "send", "listen", "loop",
               "after", "stat", "ended", "undefined"}
    /\ table \in Table
    /\ sock \in Fds /\ cmd_fd \in Fds /\ pko_srv_fd \in Fds /\ log_fd \in 0..MaxFd
    /\ master_set \subseteq 0..MaxFd /\ service_close \in 0..1
    /\ reached \in {"none", "pksh", "command", "fileio", "nowhere"}
    /\ link \in {"none", "up", "down"}
    /\ logs \in 0..logged /\ logged \in 0..MaxLog
    /\ amiss \subseteq {"open", "data", "close", "torn"}

BoolInv ==
    pksh \in BOOLEAN /\ started \in BOOLEAN /\ asked \in BOOLEAN /\ torn \in BOOLEAN

IndInv == BoolInv /\ RangeInv /\ FreeAbove /\ LoopInv /\ PlanInv /\ AfterInv

-----------------------------------------------------------------------------
(* The descriptor table.                                                   *)

LEMMA NatMin ==
    ASSUME NEW T, T \subseteq Nat, T # {}
    PROVE  \E x \in T : \A y \in T : x <= y
<1>1. PICK x \in T : \A y \in T : ~ (<<y, x>> \in OpToRel(<, Nat))
  BY NatLessThanWellFounded, WFMin
<1>2. \A y \in T : ~ (y < x)
  BY <1>1 DEF OpToRel
<1> QED BY <1>2

\* The next descriptor is the lowest free one.
LEMMA LowestFacts ==
    ASSUME NEW tab \in Table, NEW n \in 0..MaxFd, tab[n] = "free"
    PROVE  /\ Lowest(tab) \in 0..n /\ tab[Lowest(tab)] = "free"
           /\ \A g \in 0..MaxFd : g < Lowest(tab) => tab[g] # "free"
<1> DEFINE Free == {f \in 0..MaxFd : tab[f] = "free"}
<1>1. Free \in SUBSET Nat /\ Free # {}
  OBVIOUS
<1>2. \E f \in Free : \A g \in Free : f <= g
  BY <1>1, NatMin
<1>3. \E f \in 0..MaxFd : tab[f] = "free" /\ \A g \in 0..MaxFd : tab[g] = "free" => f <= g
  BY <1>2
<1>4. /\ Lowest(tab) \in 0..MaxFd /\ tab[Lowest(tab)] = "free"
      /\ \A g \in 0..MaxFd : tab[g] = "free" => Lowest(tab) <= g
  BY <1>3 DEF Lowest
<1> QED BY <1>4

Fill(tab, k) == [tab EXCEPT ![Lowest(tab)] = k]

\* Handing out a descriptor fills the lowest gap, and uses at most one more.
LEMMA TakeFd ==
    ASSUME NEW tab \in Table, NEW n \in 0..MaxFd, FreeFrom(tab, n), NEW k \in Kinds
    PROVE  /\ Fill(tab, k) \in Table /\ FreeFrom(Fill(tab, k), n + 1)
           /\ Lowest(tab) \in 0..n /\ tab[Lowest(tab)] = "free"
           /\ \A f \in 0..MaxFd : f < Lowest(tab) => tab[f] # "free"
<1>1. tab[n] = "free"
  BY DEF FreeFrom
<1>2. /\ Lowest(tab) \in 0..n /\ tab[Lowest(tab)] = "free"
      /\ \A f \in 0..MaxFd : f < Lowest(tab) => tab[f] # "free"
  BY <1>1, LowestFacts
<1> QED BY <1>2, BatchConstants DEF Table, Fill, FreeFrom

LEMMA CloseFacts ==
    ASSUME NEW tab \in Table, NEW v, NEW n \in Int, FreeFrom(tab, n)
    PROVE  Close(tab, v) \in Table /\ FreeFrom(Close(tab, v), n)
BY DEF Close, Table, Kinds, FreeFrom

LEMMA LevelIs ==
    /\ pc = "local" => Level = 3
    /\ pc \in {"drop", "ps2"} => Level = 4
    /\ pc \in {"args", "hand", "send"} => Level = 5
    /\ pc = "listen" => Level = 6
    /\ pc \in {"loop", "after", "stat", "ended", "undefined"} => Level = MaxFd + 1
BY DEF Level

LEMMA BoolStep == BoolInv /\ PlanInv /\ Next => BoolInv'
<1> SUFFICES ASSUME BoolInv, PlanInv, Next PROVE BoolInv'
  OBVIOUS
<1> USE DEF BoolInv, ps2
<1>1. CASE OpenLocal \/ Drop \/ OpenPs2 \/ Arguments \/ HandOver \/ SendDirect
  BY <1>1, Zenon DEF OpenLocal, Drop, OpenPs2, Arguments, HandOver, SendDirect
<1>2. CASE ListenFails \/ Listen \/ SelectFails \/ LogRead \/ IoReadEnd \/ AfterLoop \/ Stat
  BY <1>2, Zenon DEF ListenFails, Listen, SelectFails, LogRead, IoReadEnd, AfterLoop, Stat
<1>2a. CASE IoRead \/ IoReadTorn \/ Killed
  BY <1>2a, Zenon DEF IoRead, IoReadTorn, Killed
<1>3. CASE TakeCommand \/ AskFile \/ LogArrives \/ Reboot
  BY <1>3, Zenon DEF TakeCommand, AskFile, LogArrives, Reboot
<1> QED BY <1>1, <1>2, <1>2a, <1>3 DEF Next, Step

\* Types, the table and the loop.
Sound == RangeInv /\ FreeAbove /\ LoopInv

\* The steps that leave the descriptors alone.
Elsewhere ==
    /\ UNCHANGED <<tool, fds, pko_srv_fd, log_fd, master_set>> /\ amiss \subseteq amiss'
    /\ pc' = pc \/ pc' \in {"after", "stat", "ended", "hand", "send"}
    /\ pc' \in {"hand", "send"} => pc \in {"hand", "send", "args"}

LEMMA ElsewhereSound ==
    ASSUME Sound, Elsewhere
    PROVE  FreeAbove' /\ LoopInv'
<1>1. FreeAbove'
  <2>1. table' = table
    BY DEF Elsewhere, fds
  <2>2. CASE pc' = pc
    BY <2>1, <2>2 DEF Sound, FreeAbove, Level
  <2>3. CASE pc' \in {"after", "stat", "ended"}
    BY <2>3, BatchConstants DEF FreeFrom, FreeAbove, Level
  <2>4. CASE pc' \in {"hand", "send"}
    <3>1. Level' = 5 /\ Level = 5
      BY <2>4 DEF Elsewhere, Level
    <3> QED BY <2>1, <3>1 DEF Sound, FreeAbove
  <2> QED BY <2>2, <2>3, <2>4 DEF Elsewhere
<1>2. LoopInv'
  BY DEF Sound, LoopInv, Elsewhere, fds
<1> QED BY <1>1, <1>2

\* A request that is asked is one of the three.
LEMMA AskedFor ==
    ASSUME PlanInv, plan # <<>>
    PROVE  Head(plan) \in {"open", "data", "close"}
<1>1. plan \in Seq({"open", "data", "close"})
  BY DEF PlanInv, RestIs
<1> QED BY <1>1

LEMMA SoundStep ==
    ASSUME BoolInv, Sound, PlanInv, Next
    PROVE  Sound'
<1> USE BatchConstants DEF Sound
<1>1. CASE OpenLocal
  <2>1. FreeFrom(table, 3)
    BY <1>1, LevelIs DEF OpenLocal, FreeAbove
  <2>2. /\ Lowest(table) \in 0..MaxFd /\ table' \in Table
        /\ FreeFrom(table', 4)
    <3>1. \A k \in Kinds : /\ Fill(table, k) \in Table /\ FreeFrom(Fill(table, k), 3 + 1)
                           /\ Lowest(table) \in 0..3
      BY <2>1, TakeFd, 3 \in 0..MaxFd DEF RangeInv
    <3>2. table' = Fill(table, IF pksh THEN "pksh" ELSE "refused")
      BY <1>1 DEF OpenLocal, Fill
    <3> QED BY <3>1, <3>2 DEF Kinds
  <2>3. pc' \in {"args", "drop"}
    BY <1>1 DEF OpenLocal
  <2>4. FreeAbove' /\ LoopInv'
    BY <2>2, <2>3 DEF FreeFrom, FreeAbove, LoopInv, Level
  <2> QED BY <1>1, <2>2, <2>3, <2>4
          DEF OpenLocal, RangeInv, Store, Fds, svc, ps2, disk
<1>2. CASE Drop
  <2>1. FreeFrom(table, 4)
    BY <1>2, LevelIs DEF Drop, FreeAbove
  <2>2. table' \in Table /\ FreeFrom(table', 4)
    BY <1>2, <2>1, CloseFacts DEF Drop, RangeInv
  <2> QED BY <1>2, <2>2 DEF Drop, RangeInv, FreeFrom, FreeAbove, LoopInv, Level, svc, ps2, disk
<1>3. CASE OpenPs2
  <2>1. FreeFrom(table, 4)
    BY <1>3, LevelIs DEF OpenPs2, FreeAbove
  <2>2. /\ Lowest(table) \in 0..MaxFd /\ table' \in Table
        /\ FreeFrom(table', 5)
    <3>1. \A k \in Kinds : /\ Fill(table, k) \in Table /\ FreeFrom(Fill(table, k), 4 + 1)
                           /\ Lowest(table) \in 0..4
      BY <2>1, TakeFd, 4 \in 0..MaxFd DEF RangeInv
    <3>2. PICK ok \in BOOLEAN : table' = Fill(table, IF ok THEN "ps2" ELSE "refused")
      BY <1>3 DEF OpenPs2, Fill
    <3> QED BY <3>1, <3>2 DEF Kinds
  <2>3. pc' \in {"args", "ended"}
    BY <1>3 DEF OpenPs2
  <2>4. FreeAbove' /\ LoopInv'
    BY <2>2, <2>3 DEF FreeFrom, FreeAbove, LoopInv, Level
  <2> QED BY <1>3, <2>2, <2>3, <2>4
          DEF OpenPs2, RangeInv, Store, Fds, svc, ps2, disk
<1>4. CASE Arguments
  BY <1>4, ElsewhereSound DEF Arguments, Elsewhere, RangeInv, fds, svc, ps2, disk
<1>5. CASE HandOver
  BY <1>5, ElsewhereSound DEF HandOver, Delivered, Elsewhere, RangeInv, fds, svc, ps2, disk
<1>6. CASE SendDirect
  <2> DEFINE tab == Close(table, m.frees)
  <2>1. FreeFrom(table, 5)
    BY <1>6, LevelIs DEF SendDirect, FreeAbove
  <2>2. tab \in Table /\ FreeFrom(tab, 5)
    BY <2>1, CloseFacts DEF RangeInv
  <2>3. /\ table' \in Table /\ cmd_fd' \in Fds
        /\ FreeFrom(table', 6)
    <3> HIDE DEF tab
    <3>1. /\ Fill(tab, "udp") \in Table /\ FreeFrom(Fill(tab, "udp"), 5 + 1)
          /\ Lowest(tab) \in 0..5
      BY <2>2, TakeFd, 5 \in 0..MaxFd, "udp" \in Kinds DEF Kinds
    <3>2. CASE m.port = "command"
      BY <1>6, <3>1, <3>2 DEF SendDirect, Fds, Fill, tab
    <3>3. CASE m.port # "command"
      BY <1>6, <2>1, <3>3 DEF SendDirect, RangeInv, FreeFrom
    <3> QED BY <3>2, <3>3
  <2>4. pc' \in {"listen", "ended"}
    BY <1>6 DEF SendDirect
  <2>5. FreeAbove' /\ LoopInv'
    BY <2>3, <2>4 DEF FreeFrom, FreeAbove, LoopInv, Level
  <2> QED BY <1>6, <2>3, <2>4, <2>5 DEF SendDirect, RangeInv, svc, ps2, disk
<1>7. CASE ListenFails
  BY <1>7 DEF ListenFails, RangeInv, FreeFrom, FreeAbove, LoopInv, Level, Fds, fds, ps2, disk
<1>8. CASE Listen
  <2> DEFINE srv == Lowest(table)
             tab == Fill(table, "srv")
             log == Lowest(tab)
  <2>1. FreeFrom(table, 6)
    BY <1>8, LevelIs DEF Listen, FreeAbove
  <2>2. /\ srv \in 0..6 /\ tab \in Table /\ FreeFrom(tab, 6 + 1)
        /\ \A f \in 0..MaxFd : f < srv => table[f] # "free"
    BY <2>1, TakeFd, 6 \in 0..MaxFd, "srv" \in Kinds DEF RangeInv, Kinds
  <2>3. /\ log \in 0..7 /\ Fill(tab, "log") \in Table /\ tab[log] = "free"
        /\ \A f \in 0..MaxFd : f < log => tab[f] # "free"
    <3> HIDE DEF tab
    <3> QED BY <2>2, TakeFd, 7 \in 0..MaxFd, "log" \in Kinds DEF Kinds
  <2>4. log # srv /\ ~(log < srv) /\ tab[srv] = "srv"
    <3> DEFINE lo == srv
    <3>1. tab = [table EXCEPT ![lo] = "srv"] /\ lo \in 0..MaxFd /\ table \in [0..MaxFd -> Kinds]
      BY <2>2 DEF RangeInv, Table, Fill
    <3> HIDE DEF lo, tab
    <3>2. tab[lo] = "srv"
      BY <3>1
    <3>3. tab[log] = "free" /\ ~(lo \in 0..MaxFd /\ lo = log) /\ ~(log < lo)
      <4>1. \A f \in 0..MaxFd : f # lo => tab[f] = table[f]
        BY <3>1
      <4>2. log # lo
        BY <2>3, <3>2
      <4>3. log \in 0..MaxFd
        BY <2>3
      <4> DEFINE g == log
      <4>4. \A f \in 0..MaxFd : f < lo => table[f] # "free"
        BY <2>2 DEF lo
      <4>5. tab[g] = "free" /\ g \in 0..MaxFd /\ g # lo
        BY <2>3, <4>2, <4>3
      <4> HIDE DEF g
      <4>6. ~(g < lo)
        BY <3>1, <4>1, <4>4, <4>5
      <4> QED BY <4>5, <4>6 DEF g
    <3> QED BY <3>1, <3>2, <3>3 DEF lo
  <2>5. /\ table' = Fill(tab, "log") /\ pko_srv_fd' = srv /\ log_fd' = log
        /\ {srv, log} \subseteq master_set' /\ master_set' \subseteq 0..MaxFd
    <3>1. table' = Fill(tab, "log") /\ pko_srv_fd' = srv /\ log_fd' = log
      BY <1>8 DEF Listen, Fill
    <3>2. \E junk \in SUBSET JunkBits : master_set' = junk \cup {srv, log}
      BY <1>8 DEF Listen, Fill
    <3> HIDE DEF srv, tab, log
    <3> QED BY <2>2, <2>3, <3>1, <3>2
  <2>6. LoopInv'
    <3>1. srv < log
      BY <2>2, <2>3, <2>4
    <3>2. Fill(tab, "log") = [tab EXCEPT ![log] = "log"]
      BY DEF Fill
    <3> HIDE DEF srv, tab, log
    <3> QED BY <2>2, <2>3, <2>4, <2>5, <3>1, <3>2 DEF LoopInv, Table
  <2>7. FreeAbove'
    BY <1>8 DEF Listen, FreeFrom, FreeAbove, Level
  <2>8. pc' = "loop" /\ link' = "up"
        /\ UNCHANGED <<tool, sock, cmd_fd, service_close, reached, logs, logged, amiss>>
    BY <1>8 DEF Listen, disk
  <2> HIDE DEF srv, tab, log
  <2> QED BY <2>2, <2>3, <2>5, <2>6, <2>7, <2>8 DEF RangeInv, Fds
<1>9. CASE LogRead
  BY <1>9, ElsewhereSound
     DEF LogRead, LogReady, Turn, TurnOver, Elsewhere, RangeInv, fds, svc, disk
<1>10. CASE IoRead
  <2>1. Head(plan) \in {"open", "data", "close"} => amiss' \subseteq {"open", "data", "close", "torn"}
    BY <1>10 DEF IoRead, Serve, Fail, RangeInv
  <2>2. Head(plan) \in {"open", "data", "close"}
    BY <1>10, AskedFor DEF IoRead, PlanInv
  <2>3. amiss \subseteq amiss' /\ service_close' \in 0..1
    BY <1>10 DEF IoRead, Serve, Fail, AfterRequest, RangeInv
  <2>4. Elsewhere
    BY <1>10, <2>3 DEF IoRead, IoTurn, Turn, TurnOver, Elsewhere, fds
  <2>5. FreeAbove' /\ LoopInv'
    BY <2>4, ElsewhereSound
  <2> QED BY <1>10, <2>1, <2>2, <2>3, <2>4, <2>5 DEF IoRead, Elsewhere, RangeInv, fds
<1>10a. CASE IoReadTorn
  <2>1. table' \in Table /\ pc' \in {"loop", "after", "ended", "undefined"}
    BY <1>10a DEF IoReadTorn, TornHandler, TurnOver, RangeInv, Table, Kinds
  <2>2. FreeAbove' /\ LoopInv'
    BY <1>10a, <2>1 DEF IoReadTorn, FreeAbove, FreeFrom, Level, LoopInv
  <2>3. service_close' \in 0..1 /\ amiss' \subseteq {"open", "data", "close", "torn"}
    BY <1>10a DEF IoReadTorn, AfterRequest, RangeInv
  <2> QED BY <1>10a, <2>1, <2>2, <2>3 DEF IoReadTorn, RangeInv
<1>10b. CASE SelectFails \/ Killed
  BY <1>10b, ElsewhereSound
     DEF SelectFails, Killed, IoTurn, Turn, Elsewhere, RangeInv, fds, svc, ps2, disk
<1>11. CASE IoReadEnd
  BY <1>11, ElsewhereSound
     DEF IoReadEnd, IoTurn, Turn, TurnOver, Elsewhere, RangeInv, fds, svc, ps2, disk
<1>12. CASE AfterLoop \/ Stat
  BY <1>12, ElsewhereSound DEF AfterLoop, Stat, Elsewhere, RangeInv, fds, svc, ps2, disk
<1>13. CASE TakeCommand \/ AskFile \/ Reboot
  BY <1>13, ElsewhereSound DEF TakeCommand, AskFile, Reboot, Elsewhere, RangeInv, fds, svc, disk
<1>14. CASE LogArrives
  BY <1>14, ElsewhereSound DEF LogArrives, Elsewhere, RangeInv, fds, svc, disk
<1> QED BY <1>1, <1>2, <1>3, <1>4, <1>5, <1>6, <1>7, <1>8, <1>9, <1>10, <1>10a, <1>10b, <1>11, <1>12, <1>13,
           <1>14 DEF Next, Step

-----------------------------------------------------------------------------
(* ps2link's plan, and what the tool has done of it.                       *)

\* A whole plan has the letters it should have.
LEMMA PlanFacts ==
    ASSUME NEW p \in Plans(tool)
    PROVE  \E n \in 1..2 :
             /\ tool \notin {"iopexec", "eeexec"} => n = 1
             /\ p \in Seq({"open", "data", "close"}) /\ Len(p) = n + Writes + n
             /\ \A j \in 1..Len(p) : p[j] = Letter(n, Writes, j)
<1>1. /\ Data \in Seq({"open", "data", "close"}) /\ Len(Data) = Writes
      /\ \A j \in 1..Writes : Data[j] = "data"
  <2>1. Data = [k \in 1..Writes |-> "data"] /\ Writes \in Nat
    BY BatchConstants DEF Data
  <2> QED BY <2>1
<1> HIDE DEF Data
<1>2. CASE p = <<"open">> \o Data \o <<"close">>
  <2>1. p \in Seq({"open", "data", "close"}) /\ Len(p) = 1 + Writes + 1
    BY <1>1, <1>2, BatchConstants
  <2>2. \A j \in 1..Len(p) : p[j] = Letter(1, Writes, j)
    BY <1>1, <1>2, <2>1, BatchConstants DEF Letter
  <2> QED BY <2>1, <2>2
<1>3. CASE tool \in {"iopexec", "eeexec"} /\ p = <<"open", "open">> \o Data \o <<"close", "close">>
  <2>1. p \in Seq({"open", "data", "close"}) /\ Len(p) = 2 + Writes + 2
    BY <1>1, <1>3, BatchConstants
  <2>2. \A j \in 1..Len(p) : p[j] = Letter(2, Writes, j)
    BY <1>1, <1>3, <2>1, BatchConstants DEF Letter
  <2> QED BY <1>3, <2>1, <2>2
<1> QED BY <1>2, <1>3 DEF Plans

\* A request and what may become of it, when it is whole and when it is torn.
Done(req) ==
    /\ tool' = tool /\ service_close' = AfterRequest(req)
    /\ plan' = Tail(plan) \/ plan' = <<>>
    /\ \/ Serve(req)
       \/ amiss' # {} /\ open' = open /\ stored' = stored
       \/ amiss' # {} /\ req = "open" /\ open' \in {open, open + 1} /\ stored' \in {stored, 0}
       \/ amiss' # {} /\ req = "close" /\ open' \in {open, open - 1} \cap Nat /\ stored' = stored

LEMMA RequestDone ==
    ASSUME NEW req, req = Head(plan), IoRead \/ IoReadTorn
    PROVE  Done(req)
<1>1. CASE IoRead
  <2>1. /\ tool' = tool /\ service_close' = AfterRequest(req)
        /\ (Serve(req) /\ plan' = Tail(plan)) \/ (Fail(req) /\ plan' \in {Tail(plan), <<>>})
    BY <1>1 DEF IoRead
  <2> QED BY <2>1 DEF Fail, Done
<1>2. CASE IoReadTorn
  <2>1. /\ tool' = tool /\ service_close' = AfterRequest(req) /\ plan' = <<>>
        /\ amiss' # {} /\ TornHandler(req)
    BY <1>2 DEF IoReadTorn
  <2> QED BY <2>1 DEF TornHandler, Done
<1> QED BY <1>1, <1>2

\* One request served: the head of the plan is the next thing due.
LEMMA RequestServed ==
    ASSUME NEW n \in 1..2, NEW a \in 0..n, NEW k \in 0..Writes, NEW c \in 0..n,
           RestIs(n, a, k, c), RangeInv, plan # <<>>, Done(Head(plan)), amiss \subseteq amiss'
    PROVE  \E a2 \in 0..n, k2 \in 0..Writes, c2 \in 0..n : RestIs(n, a2, k2, c2)'
<1> DEFINE Words == {"open", "data", "close"}
<1> USE BatchConstants
<1>1. /\ plan \in Seq(Words) /\ Len(plan) > 0 /\ Head(plan) = Letter(a, k, 1)
      /\ plan' \in Seq(Words) /\ Len(plan') <= Len(plan) - 1
      /\ \A j \in 1..Len(plan') : plan'[j] = Letter(a, k, j + 1)
  <2>1. plan \in Seq(Words) /\ Len(plan) > 0 /\ (plan' = Tail(plan) \/ plan' = <<>>)
    BY DEF RestIs, Done
  <2>2. Head(plan) = plan[1] /\ 1 \in 1..Len(plan)
    BY <2>1
  <2>3. /\ plan' \in Seq(Words) /\ Len(plan') <= Len(plan) - 1
        /\ \A j \in 1..Len(plan') : plan'[j] = plan[j + 1]
    <3>1. CASE plan' = Tail(plan)
      BY <2>1, <3>1
    <3>2. CASE plan' = <<>>
      BY <2>1, <3>2
    <3> QED BY <2>1, <3>1, <3>2
  <2>4. \A j \in 1..Len(plan') : j + 1 \in 1..Len(plan)
    BY <2>1, <2>3
  <2> QED BY <2>1, <2>2, <2>3, <2>4 DEF RestIs
<1>2. /\ tool' = tool /\ service_close' = AfterRequest(Head(plan))
      /\ amiss' = {} => amiss = {} /\ Serve(Head(plan))
      /\ open' \in IF Head(plan) = "open" THEN {open, open + 1}
                   ELSE {open, open - 1} \cap Nat
      /\ stored' \in IF Head(plan) = "data" THEN {stored, stored + 1} ELSE {stored, 0}
  <2>1. open \in Nat
    BY DEF RestIs
  <2> QED BY <2>1 DEF Done, Serve
<1>3. CASE a > 0
  <2>1. Head(plan) = "open"
    BY <1>1, <1>3 DEF Letter
  <2>2. \A j \in 1..Len(plan') : Letter(a, k, j + 1) = Letter(a - 1, k, j)
    BY <1>1, <1>3 DEF Letter
  <2>3. RestIs(n, a - 1, k, c)'
    <3>1. c = n /\ k = Writes /\ open \in 0..n - a /\ stored \in 0..Writes - k
      BY <1>3 DEF RestIs
    <3>2. open' \in 0..n - (a - 1) /\ stored' \in 0..Writes - k
      BY <1>2, <1>3, <2>1, <3>1
    <3>2a. ASSUME amiss' = {}
           PROVE  open' = c - (a - 1) /\ stored' = Writes - k /\ service_close' = 1
      <4>1. Serve("open") /\ open = c - a /\ stored = Writes - k /\ service_close = 1
        BY <1>2, <2>1, <3>1, <3>2a DEF RestIs
      <4> QED BY <1>2, <2>1, <3>1, <4>1 DEF Serve, AfterRequest
    <3>3. Len(plan') <= (a - 1) + k + c
      BY <1>1 DEF RestIs
    <3>4. \A j \in 1..Len(plan') : plan'[j] = Letter(a - 1, k, j)
      BY <1>1, <2>2
    <3>5. tool' \notin {"iopexec", "eeexec"} => n = 1
      BY <1>2 DEF RestIs
    <3> QED BY <1>1, <3>1, <3>2, <3>2a, <3>3, <3>4, <3>5 DEF RestIs
  <2> QED BY <1>3, <2>3
<1>4. CASE a = 0 /\ k > 0
  <2>1. Head(plan) = "data"
    BY <1>1, <1>4 DEF Letter
  <2>2. \A j \in 1..Len(plan') : Letter(a, k, j + 1) = Letter(0, k - 1, j)
    BY <1>1, <1>4 DEF Letter
  <2>3. RestIs(n, 0, k - 1, c)'
    <3>1. c = n /\ open \in 0..n /\ stored \in 0..Writes - k
      BY <1>4 DEF RestIs
    <3>1a. open' \in 0..n - 0 /\ stored' \in 0..Writes - (k - 1)
      BY <1>2, <1>4, <2>1, <3>1
    <3>1b. ASSUME amiss' = {}
           PROVE  open' = c - 0 /\ stored' = Writes - (k - 1) /\ service_close' = 1
      <4>1. Serve("data") /\ open = c - 0 /\ stored = Writes - k /\ service_close = 1
        BY <1>2, <1>4, <2>1, <3>1, <3>1b DEF RestIs
      <4> QED BY <1>2, <1>4, <2>1, <3>1, <4>1 DEF Serve, AfterRequest
    <3>2. Len(plan') <= 0 + (k - 1) + c
      BY <1>1, <1>4 DEF RestIs
    <3>3. \A j \in 1..Len(plan') : plan'[j] = Letter(0, k - 1, j)
      BY <1>1, <2>2
    <3>4. tool' \notin {"iopexec", "eeexec"} => n = 1
      BY <1>2 DEF RestIs
    <3> QED BY <1>1, <3>1, <3>1a, <3>1b, <3>2, <3>3, <3>4 DEF RestIs
  <2> QED BY <1>4, <2>3
<1>5. CASE a = 0 /\ k = 0
  <2>1. Head(plan) = "close" /\ c > 0
    BY <1>1, <1>5 DEF Letter, RestIs
  <2>2. \A j \in 1..Len(plan') : Letter(a, k, j + 1) = Letter(0, 0, j)
    BY <1>1, <1>5 DEF Letter
  <2>3. RestIs(n, 0, 0, c - 1)'
    <3>1. open \in 0..n /\ stored \in 0..Writes
      BY <1>5 DEF RestIs
    <3>2. open' \in 0..n - 0 /\ stored' \in 0..Writes - 0
      BY <1>2, <2>1, <3>1
    <3>3. ASSUME amiss' = {}
          PROVE  open' = (c - 1) - 0 /\ stored' = Writes - 0 /\ service_close' = 0
      <4>1. Serve("close") /\ open = c - 0 /\ stored = Writes - 0
        BY <1>2, <1>5, <2>1, <3>3 DEF RestIs
      <4> QED BY <1>2, <2>1, <4>1 DEF Serve, AfterRequest
    <3>4. Len(plan') <= 0 + 0 + (c - 1)
      BY <1>1, <1>5 DEF RestIs
    <3>5. \A j \in 1..Len(plan') : plan'[j] = Letter(0, 0, j)
      BY <1>1, <2>2
    <3>6. tool' \notin {"iopexec", "eeexec"} => n = 1
      BY <1>2 DEF RestIs
    <3> QED BY <1>1, <2>1, <3>2, <3>3, <3>4, <3>5, <3>6 DEF RestIs
  <2> QED BY <1>5, <2>1, <2>3
<1> QED BY <1>3, <1>4, <1>5

PlanVars == <<tool, plan, started, asked, torn, open, stored, amiss, service_close>>

LEMMA PlanStep ==
    ASSUME BoolInv, RangeInv, PlanInv, Next
    PROVE  PlanInv'
<1>1. CASE UNCHANGED PlanVars
  <2>1. PICK n \in 1..2 : \E a \in 0..n, k \in 0..Writes, c \in 0..n : RestIs(n, a, k, c)
    BY DEF PlanInv
  <2>2. PICK a \in 0..n, k \in 0..Writes, c \in 0..n : RestIs(n, a, k, c)
    BY <2>1
  <2>3. RestIs(n, a, k, c)'
    BY <1>1, <2>2 DEF PlanVars, RestIs
  <2>4. (~started' => /\ plan' = <<>> /\ open' = 0 /\ stored' = 0 /\ service_close' = 1
                      /\ ~asked' /\ amiss' = {})
        /\ (asked' => plan' # <<>>) /\ (torn' => asked')
    BY <1>1, Zenon DEF PlanVars, PlanInv
  <2> QED BY <2>3, <2>4 DEF PlanInv
<1>2. CASE IoRead \/ IoReadTorn
  <2>1. plan # <<>> /\ started /\ started' = started /\ ~asked' /\ ~torn'
    BY <1>2 DEF IoRead, IoReadTorn, PlanInv, BoolInv
  <2>1a. Done(Head(plan)) /\ amiss \subseteq amiss'
    <3>1. amiss \subseteq amiss'
      BY <1>2 DEF IoRead, IoReadTorn, Serve, Fail
    <3> QED BY <1>2, <3>1, RequestDone
  <2>2. PICK n \in 1..2 : \E a \in 0..n, k \in 0..Writes, c \in 0..n : RestIs(n, a, k, c)
    BY DEF PlanInv
  <2>3. \E a \in 0..n, k \in 0..Writes, c \in 0..n : RestIs(n, a, k, c)'
    BY <2>1, <2>1a, <2>2, RequestServed
  <2> QED BY <2>1, <2>3 DEF PlanInv
<1>3. CASE TakeCommand
  <2>1. /\ plan = <<>> /\ open = 0 /\ stored = 0 /\ service_close = 1 /\ ~asked
        /\ plan' \in Plans(tool) \cup {<<>>} /\ started' /\ amiss = {} /\ ~torn
        /\ UNCHANGED <<tool, open, stored, amiss, service_close, asked, torn>>
    BY <1>3 DEF TakeCommand, PlanInv, BoolInv, svc, disk
  <2>2. CASE plan' = <<>>
    <3>1. RestIs(1, 1, Writes, 1)'
      BY <2>1, <2>2, BatchConstants DEF RestIs
    <3> QED BY <2>1, <2>2, <3>1, BatchConstants DEF PlanInv
  <2>3. CASE plan' \in Plans(tool)
    <3>1. PICK n \in 1..2 :
             /\ tool \notin {"iopexec", "eeexec"} => n = 1
             /\ plan' \in Seq({"open", "data", "close"}) /\ Len(plan') = n + Writes + n
             /\ \A j \in 1..Len(plan') : plan'[j] = Letter(n, Writes, j)
      BY <2>3, PlanFacts
    <3>2. RestIs(n, n, Writes, n)'
      BY <2>1, <3>1, BatchConstants DEF RestIs
    <3> QED BY <2>1, <3>2, BatchConstants DEF PlanInv
  <2> QED BY <2>1, <2>2, <2>3
<1>4. CASE AskFile
  <2>1. /\ plan # <<>> /\ started /\ asked'
        /\ UNCHANGED <<tool, plan, started, open, stored, amiss, service_close>>
    BY <1>4 DEF AskFile, PlanInv, svc, disk
  <2> QED BY <2>1 DEF PlanInv, RestIs
<1>5. CASE Reboot
  <2>1. /\ UNCHANGED <<tool, started, open, stored, amiss, service_close>>
        /\ plan' = IF asked' THEN <<Head(plan)>> ELSE <<>>
        /\ (asked' => plan # <<>>) /\ (torn' => asked') /\ (asked' => asked \/ plan # <<>>)
    <3>1. (asked => plan # <<>>) /\ (torn => asked)
      BY DEF PlanInv
    <3>2. /\ plan' = (IF asked' THEN <<Head(plan)>> ELSE <<>>)
          /\ UNCHANGED <<tool, started, svc, disk>>
          /\ \/ torn' = FALSE /\ asked' = asked
             \/ ~asked /\ plan # <<>> /\ torn' = TRUE /\ asked' = TRUE
      BY <1>5, Zenon DEF Reboot
    <3>3. UNCHANGED <<tool, started, open, stored, amiss, service_close>>
      BY <3>2 DEF svc, disk
    <3>4. (asked' => plan # <<>>) /\ (torn' => asked') /\ (asked' => asked \/ plan # <<>>)
      <4>1. CASE torn' = FALSE /\ asked' = asked
        <5>1. ~torn'
          BY <4>1
        <5>2. asked' <=> asked
          BY <4>1
        <5> QED BY <3>1, <5>1, <5>2
      <4>2. CASE plan # <<>> /\ torn' = TRUE /\ asked' = TRUE
        <5>1. torn' /\ asked'
          BY <4>2
        <5> QED BY <4>2, <5>1
      <4> QED BY <3>2, <4>1, <4>2
    <3> QED BY <3>2, <3>3, <3>4
  <2>2. PICK n \in 1..2 : \E a \in 0..n, k \in 0..Writes, c \in 0..n : RestIs(n, a, k, c)
    BY DEF PlanInv
  <2>3. PICK a \in 0..n, k \in 0..Writes, c \in 0..n : RestIs(n, a, k, c)
    BY <2>2
  <2>4. /\ plan' \in Seq({"open", "data", "close"}) /\ Len(plan') <= Len(plan)
        /\ \A j \in 1..Len(plan') : plan'[j] = plan[j] /\ j \in 1..Len(plan)
    <3>1. plan \in Seq({"open", "data", "close"})
      BY <2>3 DEF RestIs
    <3>3. CASE asked'
      BY <2>1, <3>1, <3>3
    <3>4. CASE ~asked'
      BY <2>1, <3>1, <3>4
    <3> QED BY <3>3, <3>4
  <2>5. RestIs(n, a, k, c)'
    BY <2>1, <2>3, <2>4, BatchConstants DEF RestIs
  <2>6. (asked' => plan' # <<>>) /\ (~started' => plan' = <<>>)
    BY <2>1 DEF PlanInv, BoolInv
  <2> QED BY <2>1, <2>5, <2>6 DEF PlanInv
<1>6. CASE OpenLocal \/ Drop \/ OpenPs2 \/ Arguments \/ HandOver \/ SendDirect \/ ListenFails
  BY <1>1, <1>6 DEF OpenLocal, Drop, OpenPs2, Arguments, HandOver, SendDirect, ListenFails,
                    PlanVars, svc, ps2, disk
<1>7. CASE Listen \/ SelectFails \/ Killed \/ LogRead \/ IoReadEnd \/ AfterLoop \/ Stat \/ LogArrives
  BY <1>1, <1>7 DEF Listen, SelectFails, Killed, LogRead, IoReadEnd, AfterLoop, Stat, LogArrives,
                    PlanVars, svc, ps2, disk
<1> QED BY <1>2, <1>3, <1>4, <1>5, <1>6, <1>7 DEF Next, Step

\* batch_io_loop() is left only with service_close = 0.
LEMMA AfterStep ==
    ASSUME AfterInv, Next
    PROVE  AfterInv'
<1> USE DEF AfterInv, m
<1>1. CASE OpenLocal \/ Drop \/ OpenPs2 \/ Arguments \/ HandOver \/ SendDirect
           \/ ListenFails \/ Listen \/ SelectFails \/ Killed \/ AfterLoop \/ Stat
  <2>1. pc' # "after"
    BY <1>1 DEF OpenLocal, Drop, OpenPs2, Arguments, HandOver, SendDirect,
                ListenFails, Listen, SelectFails, Killed, AfterLoop, Stat
  <2> QED BY <2>1
<1>2. CASE LogRead \/ IoReadEnd
  BY <1>2 DEF LogRead, IoReadEnd, TurnOver, Leaves, svc
<1>3. CASE IoRead \/ IoReadTorn
  BY <1>3 DEF IoRead, IoReadTorn, TornHandler, TurnOver, Leaves
<1>4. CASE TakeCommand \/ AskFile \/ LogArrives \/ Reboot
  BY <1>4 DEF TakeCommand, AskFile, LogArrives, Reboot, svc
<1> QED BY <1>1, <1>2, <1>3, <1>4 DEF Next, Step

-----------------------------------------------------------------------------
LEMMA InitInv == Init => IndInv
<1> SUFFICES ASSUME Init PROVE IndInv
  OBVIOUS
<1> USE BatchConstants DEF Init
<1>1. BoolInv
  BY Zenon DEF BoolInv
<1>2. RangeInv /\ FreeAbove /\ LoopInv /\ AfterInv
  BY DEF RangeInv, Table, Kinds, Fds, FreeAbove, FreeFrom, Level, LoopInv, AfterInv
<1>3. RestIs(1, 1, Writes, 1)
  BY DEF RestIs
<1>4. PlanInv
  BY <1>3, 1 \in 1..2, 1 \in 0..1, Writes \in 0..Writes DEF PlanInv
<1> QED BY <1>1, <1>2, <1>4 DEF IndInv

\* The invariant is inductive for every tool, whatever ps2link does.
THEOREM BatchInvariant == Spec => []IndInv
<1>1. IndInv /\ Next => IndInv'
  BY BoolStep, SoundStep, PlanStep, AfterStep DEF IndInv, Sound
<1>2. IndInv /\ UNCHANGED vars => IndInv'
  <2> SUFFICES ASSUME IndInv, UNCHANGED vars PROVE IndInv'
    OBVIOUS
  <2>1. UNCHANGED <<tool, pc, table, sock, cmd_fd, pko_srv_fd, log_fd, master_set,
                    service_close, reached, pksh, plan, started, link, asked, torn, logs,
                    logged, open, stored, amiss>>
    BY DEF vars, fds, svc, ps2, disk
  <2>2. BoolInv' /\ RangeInv' /\ FreeAbove'
    BY <2>1 DEF IndInv, BoolInv, RangeInv, FreeAbove, FreeFrom, Level
  <2>3. LoopInv' /\ AfterInv'
    BY <2>1 DEF IndInv, LoopInv, AfterInv, m
  <2>4. PlanInv'
    BY <2>1 DEF IndInv, PlanInv, RestIs
  <2> QED BY <2>2, <2>3, <2>4 DEF IndInv
<1> QED BY <1>1, <1>2, InitInv, PTL DEF Spec

\* The tools' descriptors and batch_io_loop()'s counts stay in range: no main()
\* needs more than eight descriptors, and a request is served only once asked.
THEOREM BatchTypes == Spec => []TypeOK
<1>1. IndInv => TypeOK
  <2> SUFFICES ASSUME IndInv PROVE TypeOK
    OBVIOUS
  <2>1. PICK n \in 1..2 : \E a \in 0..n, k \in 0..Writes, c \in 0..n : RestIs(n, a, k, c)
    BY DEF IndInv, PlanInv
  <2>2. PICK a \in 0..n, k \in 0..Writes, c \in 0..n : RestIs(n, a, k, c)
    BY <2>1
  <2>3. open \in 0..2 /\ stored \in 0..Writes
    BY <2>2, BatchConstants DEF RestIs
  <2> QED BY <2>3, BatchConstants DEF IndInv, BoolInv, RangeInv, PlanInv, Table, Kinds, Fds, TypeOK
<1> QED BY <1>1, BatchInvariant, PTL

\* batch_io_loop() watches the fileio connection and the log and no closed
\* descriptor, whatever the tool leaked and whatever master_set held, until a
\* request is torn.
THEOREM BatchLoopReady == Spec => []LoopReady
<1>1. IndInv => LoopReady
  BY DEF IndInv, RangeInv, LoopInv, LoopReady, NotASocket, Watched, Fds
<1> QED BY <1>1, BatchInvariant, PTL

\* A dump is whole when its tool leaves batch_io_loop(), for any amount of data,
\* unless the host failed a request or one was torn: nothing else spoils it.
THEOREM BatchDumpWhole == Spec => []DumpWhole
<1>1. IndInv => DumpWhole
  <2> SUFFICES ASSUME IndInv, pc = "after", tool # "iopexec", amiss = {}
               PROVE  stored = Writes /\ open = 0
    BY DEF DumpWhole
  <2>1. service_close = 0 /\ m.nservice = 0
    BY DEF IndInv, AfterInv
  <2>2. tool # "eeexec"
    BY <2>1 DEF m, Main, eeexec
  <2>3. PICK n \in 1..2 : \E a \in 0..n, k \in 0..Writes, c \in 0..n : RestIs(n, a, k, c)
    BY DEF IndInv, PlanInv
  <2>4. PICK a \in 0..n, k \in 0..Writes, c \in 0..n : RestIs(n, a, k, c)
    BY <2>3
  <2>5. n = 1 /\ c = 0
    BY <2>1, <2>2, <2>4 DEF RestIs
  <2> QED BY <2>4, <2>5, BatchConstants DEF RestIs
<1> QED BY <1>1, BatchInvariant, PTL
=============================================================================
