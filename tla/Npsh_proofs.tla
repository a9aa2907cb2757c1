----------------------------- MODULE Npsh_proofs -----------------------------
(***************************************************************************)
(* Proofs about Npsh: npsh and its target stay in step, commands are sent  *)
(* once, the idle timeout takes nothing away.  They hold for any timeout,  *)
(* burst, set of files and length of a benchmark, and whatever target and  *)
(* cable do.                                                               *)
(***************************************************************************)
EXTENDS Npsh, TLAPS

Places == {"init", "first", "top", "process", "select", "again", "reinit",
           "key", "burst", "timeout", "exit", "exited", "undefined"}
States == {"off", "peer", "run", "await", "cmd", "late", "bench",
           "returning", "crossed", "quit"}

Requests == FileOps \cup {"open", "wazzup"}
OpType  == [type : {"none", "reply", "command", "getreturn"},
            req : Requests \cup Commands \cup {"none"}, rv : Int]
PktType == [type : Requests \cup {"none", "return"}, fd : Int]
CmdType == [type : Commands \cup {"none"}, name : Names \cup {NoName, Empty},
            key : {"none", "line", "meta"}]

\* The shapes of the records; a record of type "none" is the empty one.
Shapes ==
    /\ op \in OpType /\ (op.type = "none" => op = Idle)
    /\ op.type = "command" => op.req \in Commands
    /\ pkt \in PktType /\ (pkt.type = "none" => pkt = NoPkt)
    /\ asked \in PktType /\ asked.type # "return"
    /\ got \in CmdType /\ want \in CmdType

\* The packet on the cable goes with the state of the target, which is not
\* heard of without an open device.
TargetInv ==
    /\ pkt # NoPkt => t \in {"await", "returning", "crossed"}
    /\ t = "returning" <=> pkt.type = "return"
    /\ t = "await" => asked.type # "none" /\ pkt \in {NoPkt, asked}
    /\ t \in {"cmd", "crossed"} => op.type = "getreturn"
    /\ hnd # "open" => t \in {"peer", "off"}

\* Inside a benchmark only its own requests and its return arrive.
BenchInv ==
    torn \/ /\ op.type = "getreturn" => t \in {"cmd", "crossed", "returning"}
            /\ bench \in 0..1
            /\ bench > 0 => /\ t \in {"bench", "await", "returning"}
                            /\ op.type \in {"none", "reply"}
                            /\ t = "await" => asked.type \in {"read", "write"} /\ job > 0

\* The slot holds the last command typed, until it is being carried out.
SlotInv ==
    torn \/ commandWaiting = "none" \/ want.type = commandWaiting
         \/ op.type = "getreturn" \/ bench > 0

\* A command typed as a line waits with the counter at 0.
CounterInv ==
    commandWaiting # "none" =>
        counter = 0 \/ want.key = "meta" \/ op.type \in {"command", "getreturn"}
                    \/ bench > 0

\* The handle is freed only between the timeout and the next key, and no
\* packet is counted then.
HandleInv ==
    /\ hnd = "closed" =>
         \/ pc \in {"exited", "undefined"}
         \/ /\ counter = 0
            /\ pc = "init" \/ (timedout /\ pc \in {"top", "select", "again", "timeout", "exit"})
    /\ timedout => pc # "init" /\ (hnd = "closed" \/ pc \in {"reinit", "key"})

MetaQuit == \E c \in {want, got} : c.type = "quit" /\ c.key = "meta"

\* The last turn of main(): quit is the only command left, and when it was
\* typed as a line the device is still open and the counter no larger than the
\* number of calls of naplink_process() made since.
QuitInv ==
    /\ pc # "burst" => i = 0
    /\ doloop => /\ want.type # "quit" /\ got.type # "quit"
                 /\ commandWaiting # "quit"
                 /\ op.type = "command" => op.req # "quit"
    /\ ~doloop =>
         /\ pc \in {"burst", "timeout", "top", "exit", "exited", "undefined"}
         /\ bench = 0 /\ commandWaiting \in {"none", "quit"}
         /\ op.type = "command" => op.req = "quit" /\ commandWaiting = "quit"
         /\ op.type = "getreturn" => commandWaiting = "quit"
         /\ commandWaiting = "quit" /\ op.type # "getreturn" =>
              want.type = "quit" /\ got.type # "quit"
         /\ \/ Timeout < Burst \/ MetaQuit
            \/ /\ pc # "exited" => hnd # "closed"
               /\ pc # "undefined"
               /\ pc = "burst" => counter <= i
               /\ pc = "timeout" => counter <= Burst

\* A descriptor that is on its way to the target is open, one on its way back
\* is no longer held.
FilesInv ==
    /\ HeldOpen
    /\ op.type = "reply" /\ op.req = "open" => op.rv \in files \cup {NoFd}
    /\ pkt.type = "close" => pkt.fd \notin held

IndInv ==
    /\ TypeOK /\ Shapes /\ TargetInv /\ InStep /\ BenchInv /\ SlotInv
    /\ SentOnce /\ CounterInv /\ NotLeftBehind /\ HandleInv /\ QuitInv
    /\ FilesInv

-----------------------------------------------------------------------------
(* Types.                                                                  *)

\* The counters that wrap stay in their range.
LEMMA Wraps ==
    ASSUME NEW w \in Nat \ {0}, NEW n \in Nat
    PROVE  n % w \in 0..w-1
OBVIOUS

\* Where naplink_process() returns to.
LEMMA PassedFacts ==
    ASSUME i \in 0..Burst-1, Processing, Passed
    PROVE  /\ i' \in 0..Burst-1
           /\ pc' \in {"top", "select", "key", "burst", "timeout"}
           /\ pc # "burst" => i' = i /\ pc' \in {"top", "select", "key"}
           /\ pc = "burst" /\ i + 1 # Burst => i' = i + 1 /\ pc' = "burst"
           /\ pc = "burst" /\ i + 1 = Burst => i' = 0 /\ pc' = "timeout"
<1>1. CASE pc # "burst"
  BY <1>1 DEF Passed, Processing
<1>2. CASE pc = "burst"
  <2>1. i' = (i + 1) % Burst /\ pc' = IF i + 1 = Burst THEN "timeout" ELSE "burst"
    BY <1>2 DEF Passed
  <2>2. (i + 1) % Burst = IF i + 1 = Burst THEN 0 ELSE i + 1
    BY NpshConstants
  <2> QED BY <1>2, <2>1, <2>2, NpshConstants
<1> QED BY <1>1, <1>2

\* The counters start at 0 and count at most to their bounds.
LEMMA Ranges ==
    /\ 0 \in 0..Wrap-1 /\ 0 \in 0..Burst-1 /\ 0 \in 0..MaxNest
    /\ 0 \in 0..BenchLen+1 /\ BenchLen + 1 \in 0..BenchLen+1
    /\ \A n \in 0..Wrap-1 : (n + 1) % Wrap \in 0..Wrap-1 /\ (n + 1) % Wrap <= n + 1
    /\ \A n \in 0..MaxNest : /\ n < MaxNest => n + 1 \in 0..MaxNest
                             /\ n > 0 => n - 1 \in 0..MaxNest
    /\ \A n \in 0..BenchLen+1 : n > 1 => n - 1 \in 0..BenchLen+1
BY NpshConstants

BoolOK ==
    /\ doloop \in BOOLEAN /\ timedout \in BOOLEAN /\ benchmarking \in BOOLEAN
    /\ dev \in BOOLEAN /\ torn \in BOOLEAN /\ dropped \in BOOLEAN

LEMMA BoolStep ==
    ASSUME BoolOK, Next
    PROVE  BoolOK'
<1> USE DEF aside, Forgotten, FileRequests, Kept
<1>1. CASE Start \/ Reinit
  BY <1>1 DEF BoolOK, Start, Reinit, Initialize, Handshake, server
<1>2. CASE InitFails \/ ReinitFails
  BY <1>2 DEF BoolOK, InitFails, ReinitFails, server, cable
<1>3. CASE Top \/ SelectNothing \/ SelectKey
  BY <1>3 DEF BoolOK, Top, SelectNothing, SelectKey, server, cable
<1>4. CASE ExecuteLine \/ OtherKey \/ MetaKey
  BY <1>4, Zenon DEF BoolOK, ExecuteLine, OtherKey, MetaKey, KeyRead,
                     SetCommand, LocalLine, cable
<1>5. CASE CheckTimeout \/ Exit
  BY <1>5, Zenon DEF BoolOK, CheckTimeout, Exit, NaplinkClose, server, cable
<1>6. CASE TakeOpen \/ TakeClose \/ TakeWazzup \/ NothingToTake
           \/ \E o \in {"read", "write", "lseek"} : Transfer(o)
  BY <1>6, Zenon DEF BoolOK, TakeOpen, TakeClose, TakeWazzup, NothingToTake, Transfer,
                     Taking, server, cable
<1>7. CASE TakeReturn
  BY <1>7, Zenon DEF BoolOK, TakeReturn, Taking
<1>8. CASE Give \/ SendCommand \/ GetReturn
  BY <1>8, Zenon DEF BoolOK, Give, SendCommand, GetReturn, loop
<1>9. CASE Poll \/ Request \/ BenchRequest \/ Return \/ Cross
  BY <1>9 DEF BoolOK, Poll, Request, BenchRequest, Return, Cross, Raise, loop, server
<1>10. CASE Restarted \/ Replug
  BY <1>10, Zenon DEF BoolOK, Restarted, Replug, loop, server
<1>11. CASE Die \/ Unplug
  BY <1>11, Zenon DEF BoolOK, Die, Unplug, Away, loop, server
<1> QED BY <1>1, <1>2, <1>3, <1>4, <1>5, <1>6, <1>7, <1>8, <1>9, <1>10, <1>11
        DEF Next, Host, Target

PlainOK ==
    /\ pc \in Places /\ i \in 0..Burst-1
    /\ counter \in 0..Wrap-1 /\ processing \in 0..1
    /\ commandWaiting \in Commands \cup {"none"} /\ cmd \in Names \cup {Empty}
    /\ bench \in 0..MaxNest /\ job \in 0..BenchLen+1
    /\ hnd \in {"open", "closed", "stale"} /\ t \in States
    /\ files \subseteq Files \cup {Tty} /\ held \subseteq Files \cup {Tty}
    /\ crossing \in FileOps \cup {"none", "open"}

LEMMA TypeParts == Shapes => (TypeOK <=> BoolOK /\ PlainOK)
BY DEF Shapes, TypeOK, BoolOK, PlainOK, Places, States, OpType, PktType, CmdType, Requests

\* A packet is taken between two places of main().
LEMMA TakingMoves ==
    ASSUME PlainOK, Taking \/ NothingToTake
    PROVE  pc' \in Places /\ i' \in 0..Burst-1
BY PassedFacts DEF PlainOK, Taking, NothingToTake, Places

LEMMA TypeStep ==
    ASSUME PlainOK, Shapes, FilesInv, Next
    PROVE  PlainOK'
<1> USE DEF aside, Forgotten, FileRequests, Kept
<1>1. CASE Start \/ Reinit
  BY <1>1, Ranges DEF PlainOK, Places, States, Start, Reinit, Initialize, Handshake, server
<1>2. CASE InitFails \/ ReinitFails
  BY <1>2 DEF PlainOK, Places, InitFails, ReinitFails, server, cable
<1>3. CASE Top \/ SelectNothing \/ SelectKey
  BY <1>3 DEF PlainOK, Places, Top, SelectNothing, SelectKey, AfterProcess, server, cable
<1>4. CASE ExecuteLine
  <2>1. PICK c \in Lines :
          IF c \in Commands
          THEN \E name \in IF c \in Execs THEN Names ELSE {NoName} :
                 SetCommand(c, name, "line")
          ELSE LocalLine
    BY <1>4 DEF ExecuteLine
  <2>2. commandWaiting' \in Commands \cup {"none"} /\ cmd' \in Names \cup {Empty}
    BY <2>1 DEF SetCommand, LocalLine, FixCmdArg, PlainOK
  <2> QED BY <1>4, <2>2, Ranges
          DEF ExecuteLine, PlainOK, Places, KeyRead, LineCounter, cable
<1>5. CASE OtherKey \/ MetaKey
  BY <1>5 DEF PlainOK, Places, OtherKey, MetaKey, KeyRead, SetCommand, FixCmdArg,
              cable, Commands
<1>6. CASE CheckTimeout \/ Exit
  BY <1>6, Ranges DEF PlainOK, Places, States, CheckTimeout, Exit, NaplinkClose, server, cable
<1>7. CASE TakeOpen
  BY <1>7, TakingMoves, Ranges DEF PlainOK, TakeOpen, Taking, Opens, NoFd, Tty
<1>8. CASE TakeClose
  BY <1>8, TakingMoves, Ranges DEF PlainOK, TakeClose, Taking, Closed
<1>9. ASSUME NEW o \in {"read", "write", "lseek"}, Transfer(o)
      PROVE  PlainOK'
  BY <1>9, TakingMoves, Ranges DEF PlainOK, Transfer, Taking
<1>10. CASE TakeWazzup
  BY <1>10, TakingMoves, Ranges DEF PlainOK, TakeWazzup, Taking, Counted
<1>11. CASE TakeReturn \/ NothingToTake
  BY <1>11, TakingMoves, Ranges
     DEF PlainOK, States, TakeReturn, NothingToTake, Taking, Served, server, cable
<1>12. CASE Give
  BY <1>12 DEF PlainOK, States, FilesInv, HeldOpen, Give, loop
<1>13. CASE SendCommand
  BY <1>13, Ranges DEF PlainOK, States, SendCommand, loop
<1>14. CASE GetReturn
  BY <1>14 DEF PlainOK, States, GetReturn, loop, Served
<1>15. CASE Poll \/ Request \/ BenchRequest \/ Return \/ Cross
  BY <1>15, Ranges DEF PlainOK, States, Poll, Request, BenchRequest, Return, Cross, Raise, Ask,
                       loop, server
<1>16. CASE Restarted \/ Replug
  BY <1>16 DEF PlainOK, States, Restarted, Replug, loop, server
<1>17. CASE Die \/ Unplug
  BY <1>17, Ranges DEF PlainOK, States, Die, Unplug, Away, loop, server
<1> QED BY <1>1, <1>2, <1>3, <1>4, <1>5, <1>6, <1>7, <1>8, <1>9, <1>10, <1>11, <1>12,
           <1>13, <1>14, <1>15, <1>16, <1>17 DEF Next, Host, Target

LEMMA ShapeStep ==
    ASSUME PlainOK, Shapes, Next
    PROVE  Shapes'
<1> USE DEF Shapes, aside, Forgotten, FileRequests, Kept
<1>1. CASE Start \/ Reinit
  BY <1>1 DEF Start, Reinit, Initialize, Handshake, server, NoPkt, PktType, NoFd
<1>2. CASE InitFails \/ ReinitFails
  BY <1>2 DEF InitFails, ReinitFails, server, cable
<1>3. CASE Top \/ SelectNothing \/ SelectKey
  BY <1>3 DEF Top, SelectNothing, SelectKey, server, cable
<1>4. CASE ExecuteLine \/ OtherKey \/ MetaKey
  BY <1>4 DEF ExecuteLine, OtherKey, MetaKey, KeyRead, SetCommand,
              LocalLine, cable, CmdType, Commands
<1>5. CASE CheckTimeout \/ Exit
  BY <1>5 DEF CheckTimeout, Exit, NaplinkClose, server, cable, NoPkt, PktType, NoFd
<1>6. CASE TakeOpen
  BY <1>6, NpshConstants DEF TakeOpen, Taking, Opens, Reply, NoPkt, PktType, OpType,
                             Requests, NoFd, Tty
<1>7. CASE TakeClose
  BY <1>7 DEF TakeClose, Taking, Reply, NoPkt, PktType, OpType, Requests, FileOps, NoFd
<1>8. ASSUME NEW o \in {"read", "write", "lseek"}, Transfer(o)
      PROVE  Shapes'
  BY <1>8 DEF Transfer, Result, Taking, Reply, NoPkt, PktType, OpType, Requests, FileOps, NoFd
<1>9. CASE TakeWazzup
  BY <1>9 DEF PlainOK, TakeWazzup, Taking, Reply, NoPkt, PktType, OpType, Requests, NoFd
<1>10. CASE TakeReturn \/ NothingToTake
  BY <1>10 DEF TakeReturn, NothingToTake, Taking, NoPkt, PktType, NoFd, server, cable
<1>11. CASE Give
  BY <1>11 DEF Give, Idle, loop, OpType, NoPkt, PktType, NoFd
<1>12. CASE SendCommand
  BY <1>12 DEF PlainOK, SendCommand, Idle, loop, OpType, NoPkt, PktType, NoFd,
               CmdType, NoCmd
<1>13. CASE GetReturn
  BY <1>13 DEF GetReturn, Idle, loop, OpType, NoPkt, PktType, NoFd
<1>14. CASE Poll \/ Request \/ BenchRequest \/ Return \/ Cross
  BY <1>14, NpshConstants DEF PlainOK, Poll, Request, BenchRequest, Return, Cross, Raise, Ask,
               loop, server, PktType, Requests, FileOps, NoFd, Tty
<1>15. CASE Restarted \/ Replug
  BY <1>15 DEF Restarted, Replug, loop, server
<1>16. CASE Die \/ Unplug
  BY <1>16 DEF Die, Unplug, Away, loop, server, NoPkt, PktType, NoFd
<1> QED BY <1>1, <1>2, <1>3, <1>4, <1>5, <1>6, <1>7, <1>8, <1>9, <1>10, <1>11, <1>12,
           <1>13, <1>14, <1>15, <1>16 DEF Next, Host, Target

-----------------------------------------------------------------------------
(* npsh and the target in step.                                            *)

LEMMA TargetStep ==
    ASSUME PlainOK, Shapes, TargetInv, Next
    PROVE  TargetInv'
<1> USE DEF TargetInv, aside, Forgotten, FileRequests, Kept
<1>1. CASE Start \/ Reinit
  BY <1>1 DEF Start, Reinit, Initialize, Handshake, server, NoPkt
<1>2. CASE InitFails \/ ReinitFails
  BY <1>2 DEF InitFails, ReinitFails, server, cable
<1>3. CASE Top \/ SelectNothing \/ SelectKey
  BY <1>3 DEF Top, SelectNothing, SelectKey, server, cable
<1>4. CASE ExecuteLine \/ OtherKey \/ MetaKey
  BY <1>4 DEF ExecuteLine, OtherKey, MetaKey, KeyRead, cable
<1>5. CASE CheckTimeout \/ Exit
  BY <1>5 DEF CheckTimeout, Exit, NaplinkClose, server, cable, NoPkt
<1>6. CASE TakeOpen \/ TakeClose \/ TakeWazzup
           \/ \E o \in {"read", "write", "lseek"} : Transfer(o)
  BY <1>6 DEF TakeOpen, TakeClose, TakeWazzup, Transfer, Taking, Idle, NoPkt
<1>7. CASE TakeReturn \/ NothingToTake
  BY <1>7 DEF TakeReturn, NothingToTake, Taking, Idle, NoPkt, server, cable
<1>8. CASE Give
  BY <1>8 DEF Give, NoPkt, loop
<1>9. CASE SendCommand
  BY <1>9 DEF SendCommand, NoPkt, loop
<1>10. CASE GetReturn
  BY <1>10 DEF GetReturn, NoPkt, loop
<1>11. CASE Poll \/ Request \/ BenchRequest \/ Return \/ Cross
  BY <1>11 DEF PlainOK, Poll, Request, BenchRequest, Return, Cross, Raise, Ask, FileOps,
               NoPkt, loop, server
<1>12. CASE Restarted \/ Replug
  BY <1>12 DEF PlainOK, Restarted, Replug, NoPkt, loop, server
<1>13. CASE Die \/ Unplug
  BY <1>13 DEF Die, Unplug, Away, NoPkt, loop, server
<1> QED BY <1>1, <1>2, <1>3, <1>4, <1>5, <1>6, <1>7, <1>8, <1>9, <1>10, <1>11, <1>12, <1>13
        DEF Next, Host, Target

LEMMA InStepStep ==
    ASSUME BoolOK, PlainOK, Shapes, TargetInv, BenchInv, InStep, Next
    PROVE  InStep' /\ BenchInv'
<1> USE DEF InStep, BenchInv, aside, Forgotten, FileRequests, Kept
<1>1. CASE Start \/ Reinit
  BY <1>1 DEF PlainOK, TargetInv, Start, Reinit, InMain, Initialize, Handshake, server, Idle
<1>2. CASE InitFails \/ ReinitFails
  BY <1>2 DEF InitFails, ReinitFails, server, cable
<1>3. CASE Top \/ SelectNothing \/ SelectKey
  BY <1>3 DEF Top, SelectNothing, SelectKey, server, cable
<1>4. CASE ExecuteLine \/ OtherKey \/ MetaKey
  BY <1>4 DEF ExecuteLine, OtherKey, MetaKey, KeyRead, cable
<1>5. CASE CheckTimeout \/ Exit
  BY <1>5 DEF PlainOK, TargetInv, CheckTimeout, Exit, InMain, NaplinkClose,
              server, cable, Idle
<1>6. CASE TakeOpen \/ TakeClose \/ \E o \in {"read", "write", "lseek"} : Transfer(o)
  BY <1>6 DEF TargetInv, TakeOpen, TakeClose, Transfer, Taking, Reply, Idle, NoPkt
<1>7. CASE TakeWazzup
  BY <1>7 DEF TargetInv, TakeWazzup, Taking, Reply, Idle, NoPkt
<1>8. CASE TakeReturn
  BY <1>8 DEF PlainOK, TargetInv, TakeReturn, Taking, Idle, NoPkt
<1>9. CASE NothingToTake
  BY <1>9 DEF NothingToTake, server, cable
<1>10. CASE Give
  BY <1>10 DEF Give, PlainOK, NoPkt, loop, Idle
<1>11. CASE SendCommand
  BY <1>11 DEF SendCommand, NoPkt, loop, Idle
<1>12. CASE GetReturn
  BY <1>12 DEF TargetInv, GetReturn, NoPkt, loop, Idle
<1>13. CASE Poll \/ Request \/ BenchRequest \/ Return \/ Cross
  BY <1>13 DEF PlainOK, TargetInv, Poll, Request, BenchRequest, Return, Cross, Raise, Ask, FileOps,
               NoPkt, loop, server
<1>14. CASE Restarted \/ Replug
  BY <1>14 DEF PlainOK, Restarted, Replug, NoPkt, loop, server
<1>15. CASE Die \/ Unplug
  <2>1. t' = "off" /\ op' = op /\ bench' = bench /\ crossing' = "none"
    BY <1>15 DEF Die, Unplug, Away, loop, server
  <2>2. CASE Busy
    <3>1. torn' = TRUE
      BY <1>15, <2>2 DEF Die, Unplug, Away
    <3> QED BY <3>1
  <2>3. CASE ~Busy
    BY <2>1, <2>3, NpshConstants DEF PlainOK, Busy, Idle
  <2> QED BY <2>2, <2>3
<1> QED BY <1>1, <1>2, <1>3, <1>4, <1>5, <1>6, <1>7, <1>8, <1>9, <1>10, <1>11, <1>12, <1>13,
           <1>14, <1>15
        DEF Next, Host, Target

-----------------------------------------------------------------------------
(* The slot for a typed command.                                           *)

LEMMA SetFacts ==
    ASSUME NEW c, NEW name, NEW key, SetCommand(c, name, key)
    PROVE  /\ commandWaiting' = c /\ want'.type = c /\ want'.key = key
           /\ doloop' <=> doloop /\ c # "quit"
<1>1. commandWaiting' = c /\ want' = [type |-> c, name |-> name, key |-> key]
  BY DEF SetCommand
<1>2. doloop' <=> doloop /\ c # "quit"
  BY Zenon DEF SetCommand
<1> QED BY <1>1, <1>2

\* A key leaves a new command in the slot, or nothing new.
LEMMA KeyFacts ==
    ASSUME ExecuteLine \/ OtherKey \/ MetaKey
    PROVE  /\ UNCHANGED <<i, op, bench, hnd, files, dev, t, pkt, asked, job, held, got, torn>>
           /\ op = Idle /\ bench = 0 /\ pc = "key" /\ pc' = "burst"
           /\ ~timedout'
           /\ \/ UNCHANGED <<commandWaiting, want>> /\ (doloop' <=> doloop)
                 /\ counter' \in {0, counter}
              \/ \E c \in Commands :
                   /\ want'.type = c /\ commandWaiting' = c
                   /\ doloop' <=> doloop /\ c # "quit"
                   /\ (want'.key = "line" /\ counter' = 0) \/ want'.key = "meta"
<1>1. CASE ExecuteLine
  <2>1. PICK c \in Lines :
          IF c \in Commands
          THEN \E name \in IF c \in Execs THEN Names ELSE {NoName} :
                 SetCommand(c, name, "line")
          ELSE LocalLine
    BY <1>1 DEF ExecuteLine
  <2>2. CASE c \in Commands
    BY <1>1, <2>1, <2>2, SetFacts, Zenon DEF ExecuteLine, KeyRead, InMain, cable, LineCounter
  <2>3. CASE c \notin Commands
    BY <1>1, <2>1, <2>3, Zenon DEF ExecuteLine, KeyRead, InMain, cable, LineCounter, LocalLine
  <2> QED BY <2>2, <2>3
<1>2. CASE OtherKey
  BY <1>2, Zenon DEF OtherKey, KeyRead, InMain, cable
<1>3. CASE MetaKey
  BY <1>3, SetFacts, Zenon DEF MetaKey, KeyRead, InMain, cable, Commands
<1> QED BY <1>1, <1>2, <1>3

LEMMA SlotStep ==
    ASSUME BoolOK, PlainOK, Shapes, TargetInv, BenchInv, InStep, SlotInv, SentOnce, Next
    PROVE  SlotInv' /\ SentOnce'
<1> USE DEF SlotInv, SentOnce, aside, Forgotten, FileRequests, Kept
<1>1. CASE Start \/ Reinit
  BY <1>1 DEF Start, Reinit, InMain, Initialize, Handshake, server
<1>2. CASE InitFails \/ ReinitFails
  BY <1>2 DEF InitFails, ReinitFails, server, cable
<1>3. CASE Top \/ SelectNothing \/ SelectKey
  BY <1>3 DEF Top, SelectNothing, SelectKey, server, cable
<1>4. CASE ExecuteLine \/ OtherKey \/ MetaKey
  BY <1>4, KeyFacts DEF Idle
<1>5. CASE CheckTimeout \/ Exit
  BY <1>5 DEF CheckTimeout, Exit, NaplinkClose, server, cable
<1>6. CASE TakeOpen \/ TakeClose \/ \E o \in {"read", "write", "lseek"} : Transfer(o)
  BY <1>6 DEF TakeOpen, TakeClose, Transfer, Taking, Reply, Idle
<1>7. CASE TakeWazzup
  BY <1>7 DEF BenchInv, TargetInv, TakeWazzup, Taking, Reply, Idle, NoPkt
<1>8. CASE TakeReturn
  BY <1>8 DEF PlainOK, BenchInv, TargetInv, TakeReturn, Taking, Served, Idle, NoPkt
<1>9. CASE NothingToTake
  BY <1>9 DEF NothingToTake, server, cable
<1>10. CASE Give
  BY <1>10 DEF Give, loop, Idle
<1>11. CASE SendCommand
  BY <1>11 DEF PlainOK, SendCommand, loop, Idle
<1>12. CASE GetReturn
  BY <1>12 DEF GetReturn, Served, loop, Idle
<1>13. CASE Poll \/ Request \/ BenchRequest \/ Return \/ Cross
  BY <1>13 DEF Poll, Request, BenchRequest, Return, Cross, Raise, loop, server
<1>14. CASE Restarted \/ Replug
  BY <1>14 DEF Restarted, Replug, loop, server
<1>15. CASE Die \/ Unplug
  BY <1>15 DEF Die, Unplug, Away, Busy, loop, server
<1> QED BY <1>1, <1>2, <1>3, <1>4, <1>5, <1>6, <1>7, <1>8, <1>9, <1>10, <1>11, <1>12, <1>13,
           <1>14, <1>15
        DEF Next, Host, Target

LEMMA CounterStep ==
    ASSUME BoolOK, PlainOK, Shapes, TargetInv, HandleInv, CounterInv, NotLeftBehind, Next
    PROVE  CounterInv' /\ NotLeftBehind'
<1> USE DEF CounterInv, NotLeftBehind, aside, Forgotten, FileRequests, Kept
<1>1. CASE Start \/ Reinit
  BY <1>1 DEF Start, Reinit, InMain, Initialize, Handshake, server
<1>2. CASE InitFails \/ ReinitFails
  BY <1>2 DEF InitFails, ReinitFails, server, cable
<1>3. CASE Top \/ SelectNothing \/ SelectKey
  BY <1>3 DEF Top, SelectNothing, SelectKey, server, cable
<1>4. CASE ExecuteLine \/ OtherKey \/ MetaKey
  <2>1. NotLeftBehind'
    BY <1>4, KeyFacts
  <2>2. op = Idle /\ bench = 0
    BY <1>4, KeyFacts
  <2>3. UNCHANGED <<commandWaiting, want>> /\ counter' \in {0, counter} => CounterInv'
    BY <2>2 DEF Idle
  <2> QED BY <1>4, KeyFacts, <2>1, <2>3
<1>5. CASE CheckTimeout
  <2>1. CASE Expired
    <3>1. commandWaiting # "none" => want.key = "meta"
      BY <1>5, <2>1, NpshConstants DEF PlainOK, CheckTimeout, Expired, InMain, Idle
    <3> QED BY <1>5, <2>1, <3>1 DEF CheckTimeout, NaplinkClose, server
  <2>2. CASE ~Expired
    BY <1>5, <2>2 DEF CheckTimeout, server, cable
  <2> QED BY <2>1, <2>2
<1>5a. CASE Exit
  BY <1>5a DEF HandleInv, Exit, InMain, NaplinkClose, server
<1>6. CASE TakeOpen \/ TakeClose \/ \E o \in {"read", "write", "lseek"} : Transfer(o)
  BY <1>6 DEF TakeOpen, TakeClose, Transfer, Taking, Reply, Idle
<1>7. CASE TakeWazzup
  BY <1>7 DEF PlainOK, TakeWazzup, Taking, Reply, Idle, NoPkt
<1>8. CASE TakeReturn
  BY <1>8 DEF PlainOK, TakeReturn, Taking, Served, Idle, NoPkt
<1>9. CASE NothingToTake
  BY <1>9 DEF NothingToTake, server, cable
<1>10. CASE Give
  BY <1>10 DEF Give, loop, Idle
<1>11. CASE SendCommand
  BY <1>11 DEF PlainOK, TargetInv, SendCommand, loop, Idle
<1>12. CASE GetReturn
  BY <1>12 DEF GetReturn, Served, loop, Idle
<1>13. CASE Poll \/ Request \/ BenchRequest \/ Return \/ Cross
  BY <1>13 DEF Poll, Request, BenchRequest, Return, Cross, Raise, loop, server
<1>14. CASE Restarted \/ Replug
  BY <1>14 DEF Restarted, Replug, loop, server
<1>15. CASE Die \/ Unplug
  BY <1>15 DEF Die, Unplug, Away, Busy, loop, server
<1> QED BY <1>1, <1>2, <1>3, <1>4, <1>5, <1>5a, <1>6, <1>7, <1>8, <1>9, <1>10, <1>11, <1>12, <1>13,
           <1>14, <1>15
        DEF Next, Host, Target

-----------------------------------------------------------------------------
(* The handle of the device, and the last turn.                            *)

LEMMA HandleStep ==
    ASSUME BoolOK, PlainOK, TargetInv, HandleInv, Next
    PROVE  HandleInv'
<1> USE DEF HandleInv, aside, Forgotten, FileRequests, Kept
<1>1. CASE Start \/ Reinit
  BY <1>1 DEF Start, Reinit, InMain, Initialize, Handshake
<1>2. CASE InitFails \/ ReinitFails
  BY <1>2 DEF InitFails, ReinitFails
<1>3. CASE Top \/ SelectNothing \/ SelectKey
  BY <1>3 DEF Top, InMain, SelectNothing, SelectKey, NaplinkCheck
<1>4. CASE ExecuteLine \/ OtherKey \/ MetaKey
  BY <1>4, KeyFacts
<1>5. CASE CheckTimeout
  <2>1. CASE Expired
    <3>1. counter' = 0 /\ timedout' /\ hnd' = "closed" /\ pc' \in {"undefined", "top"}
      BY <1>5, <2>1 DEF CheckTimeout, NaplinkClose
    <3> QED BY <3>1
  <2>2. CASE ~Expired
    BY <1>5, <2>2 DEF CheckTimeout, InMain
  <2> QED BY <2>1, <2>2
<1>6. CASE Exit
  BY <1>6 DEF Exit, NaplinkClose
<1>7. CASE NothingToTake \/ Taking
  <2>1. hnd' = hnd
    BY <1>7 DEF NothingToTake, Taking
  <2>2. hnd = "closed" => NothingToTake
    BY <1>7 DEF Taking, TargetInv, PlainOK
  <2>3. NothingToTake => hnd # "closed"
    BY DEF NothingToTake, Processing
  <2>4. /\ timedout' = timedout /\ (pc # "init" => pc' # "init")
        /\ pc = "reinit" => pc' \in {"reinit", "key"}
        /\ pc = "key" => pc' = "key"
    BY <1>7, PassedFacts DEF PlainOK, NothingToTake, Taking, Processing, Passed
  <2> QED BY <2>1, <2>2, <2>3, <2>4
<1>8. CASE Give \/ SendCommand \/ GetReturn
  BY <1>8 DEF Give, SendCommand, GetReturn, loop
<1>9. CASE Poll \/ Request \/ BenchRequest \/ Return \/ Cross
  BY <1>9 DEF Poll, Request, BenchRequest, Return, Cross, Raise, loop
<1>10. CASE Restarted \/ Replug
  BY <1>10 DEF Restarted, Replug, loop
<1>11. CASE Die \/ Unplug
  BY <1>11 DEF Die, Unplug, Away, loop
<1>12. TakeOpen \/ TakeClose \/ TakeWazzup \/ TakeReturn
       \/ (\E o \in {"read", "write", "lseek"} : Transfer(o)) => Taking
  BY DEF TakeOpen, TakeClose, TakeWazzup, TakeReturn, Transfer
<1> QED BY <1>1, <1>2, <1>3, <1>4, <1>5, <1>6, <1>7, <1>8, <1>9, <1>10, <1>11, <1>12
        DEF Next, Host, Target

\* One turn of the burst counts at most one poll.
LEMMA TakingTurn ==
    ASSUME PlainOK, QuitInv, Taking \/ NothingToTake,
           counter' \in Nat, counter' <= counter + 1
    PROVE  /\ pc' # "burst" => i' = 0
           /\ pc' # "undefined" \/ pc' = pc
           /\ ~doloop => /\ pc' \in {"burst", "timeout"}
                         /\ pc = "burst" /\ counter <= i =>
                              /\ pc' = "burst" => counter' <= i'
                              /\ pc' = "timeout" => counter' <= Burst
                         /\ pc = "burst"
<1>1. CASE bench > 0
  BY <1>1 DEF QuitInv, Taking, NothingToTake, PlainOK
<1>2. CASE bench = 0
  <2>1. Processing /\ Passed
    BY <1>2 DEF Taking, NothingToTake
  <2>2. ~doloop => pc = "burst"
    BY <2>1 DEF QuitInv, Processing
  <2>3. pc # "burst" => i = 0
    BY DEF QuitInv
  <2> QED BY <2>1, <2>2, <2>3, PassedFacts, NpshConstants DEF PlainOK
<1> QED BY <1>1, <1>2, NpshConstants DEF PlainOK

LEMMA QuitStep ==
    ASSUME BoolOK, PlainOK, Shapes, TargetInv, HandleInv, QuitInv, Next
    PROVE  QuitInv'
<1> USE DEF QuitInv, MetaQuit, aside, Forgotten, FileRequests, Kept
<1>1. CASE Start \/ Reinit
  BY <1>1 DEF Start, Reinit, InMain, Initialize, Handshake, server
<1>2. CASE InitFails \/ ReinitFails
  BY <1>2 DEF InitFails, ReinitFails, server, cable
<1>3. CASE Top \/ SelectNothing \/ SelectKey
  BY <1>3 DEF Top, InMain, SelectNothing, SelectKey, server, cable
<1>4. CASE ExecuteLine \/ OtherKey \/ MetaKey
  BY <1>4, KeyFacts DEF HandleInv, Idle
<1>5. CASE CheckTimeout
  <2>1. CASE Expired
    BY <1>5, <2>1, NpshConstants DEF PlainOK, CheckTimeout, InMain, Expired, NaplinkClose, server, Idle
  <2>2. CASE ~Expired
    BY <1>5, <2>2 DEF CheckTimeout, InMain, server, cable
  <2> QED BY <2>1, <2>2
<1>6. CASE Exit
  BY <1>6 DEF Exit, InMain, NaplinkClose, server
<1>7. CASE TakeOpen \/ TakeClose \/ \E o \in {"read", "write", "lseek"} : Transfer(o)
  <2>1. /\ Taking /\ counter' = 0 /\ op.type = "none" /\ op'.type = "reply"
        /\ UNCHANGED <<commandWaiting, bench, got>>
    BY <1>7 DEF TakeOpen, TakeClose, Transfer, Reply, Taking, Idle
  <2>2. counter' \in Nat /\ counter' <= counter + 1
    BY <2>1, NpshConstants DEF PlainOK
  <2> QED BY <2>1, <2>2, TakingTurn DEF Taking
<1>8. CASE TakeWazzup
  <2>1. Taking /\ counter' \in Nat /\ counter' <= counter + 1
    BY <1>8, Ranges DEF PlainOK, TakeWazzup, Counted
  <2>2. op'.type = "reply" \/ (op'.type = "command" /\ op'.req = commandWaiting
                               /\ commandWaiting # "none")
    BY <1>8 DEF TakeWazzup, Reply
  <2>3. op.type = "none" /\ UNCHANGED <<commandWaiting, bench, got>>
    BY <1>8 DEF TakeWazzup, Taking, Idle
  <2> QED BY <2>1, <2>2, <2>3, TakingTurn DEF Taking
<1>9. CASE TakeReturn
  <2>1. /\ Taking /\ counter' = counter /\ op.type = "none" /\ UNCHANGED <<op, got>>
        /\ bench = 0 => UNCHANGED <<commandWaiting, bench>>
        /\ commandWaiting' \in {commandWaiting, "none"}
    BY <1>9 DEF PlainOK, TakeReturn, Taking, Idle, Served
  <2> QED BY <2>1, TakingTurn DEF Taking, PlainOK
<1>10. CASE NothingToTake
  <2>1. counter' = counter /\ UNCHANGED <<doloop, hnd, want, got, op, commandWaiting, bench>>
    BY <1>10 DEF NothingToTake, server, cable
  <2> QED BY <1>10, <2>1, TakingTurn DEF PlainOK
<1>11. CASE Give
  BY <1>11 DEF Give, loop, Idle
<1>12. CASE SendCommand
  BY <1>12 DEF SendCommand, NoCmd, loop, Idle
<1>13. CASE GetReturn
  BY <1>13 DEF GetReturn, Served, loop, Idle
<1>14. CASE Poll \/ Request \/ BenchRequest \/ Return \/ Cross
  BY <1>14 DEF Poll, Request, BenchRequest, Return, Cross, Raise, loop, server
<1>15. CASE Restarted \/ Replug
  BY <1>15 DEF Restarted, Replug, loop, server
<1>16. CASE Die \/ Unplug
  BY <1>16 DEF Die, Unplug, Away, loop, server
<1> QED BY <1>1, <1>2, <1>3, <1>4, <1>5, <1>6, <1>7, <1>8, <1>9, <1>10, <1>11, <1>12, <1>13,
           <1>14, <1>15, <1>16
        DEF Next, Host, Target

-----------------------------------------------------------------------------
(* The target's descriptors.                                               *)

LEMMA FilesStep ==
    ASSUME PlainOK, Shapes, FilesInv, Next
    PROVE  FilesInv'
<1> USE DEF FilesInv, HeldOpen, aside, Forgotten, FileRequests, Kept
<1>1. CASE Start \/ Reinit
  BY <1>1 DEF Start, Reinit, InMain, Initialize, Handshake, server, NoPkt
<1>2. CASE InitFails \/ ReinitFails
  BY <1>2 DEF InitFails, ReinitFails, server, cable
<1>3. CASE Top \/ SelectNothing \/ SelectKey
  BY <1>3 DEF Top, InMain, SelectNothing, SelectKey, server, cable
<1>4. CASE ExecuteLine \/ OtherKey \/ MetaKey
  BY <1>4, KeyFacts
<1>5. CASE CheckTimeout \/ Exit
  BY <1>5 DEF CheckTimeout, Exit, NaplinkClose, server, cable, NoPkt
<1>6. CASE TakeOpen
  BY <1>6 DEF TakeOpen, Opens, Taking, Reply, NoPkt, NoFd
<1>7. CASE TakeClose
  BY <1>7 DEF PktType, TakeClose, Shapes, Closed, Taking, Reply, NoPkt, Tty
<1>8. CASE TakeWazzup \/ \E o \in {"read", "write", "lseek"} : Transfer(o)
  BY <1>8 DEF TakeWazzup, Transfer, Taking, Reply, NoPkt
<1>9. CASE TakeReturn \/ NothingToTake
  BY <1>9 DEF TakeReturn, NothingToTake, Taking, NoPkt, server, cable
<1>10. CASE Give
  BY <1>10 DEF Give, NoPkt, loop, Idle
<1>11. CASE SendCommand
  BY <1>11 DEF SendCommand, loop, Idle
<1>12. CASE GetReturn
  BY <1>12 DEF GetReturn, loop, Idle, NoPkt
<1>13. CASE Poll \/ Request \/ BenchRequest \/ Return \/ Cross
  BY <1>13 DEF Poll, Request, BenchRequest, Return, Cross, Raise, Ask, loop, server
<1>14. CASE Restarted \/ Replug
  BY <1>14 DEF Restarted, Replug, loop, server
<1>15. CASE Die \/ Unplug
  BY <1>15 DEF Die, Unplug, Away, loop, server, NoPkt
<1> QED BY <1>1, <1>2, <1>3, <1>4, <1>5, <1>6, <1>7, <1>8, <1>9, <1>10, <1>11, <1>12, <1>13,
           <1>14, <1>15
        DEF Next, Host, Target

-----------------------------------------------------------------------------
(* The inductive invariant, and what follows from it.                      *)

LEMMA InitInv == Init => IndInv
<1> SUFFICES ASSUME Init PROVE IndInv
  OBVIOUS
<1> USE NpshConstants DEF Init
<1>1. BoolOK
  BY Zenon DEF BoolOK
<1>2. Shapes
  BY DEF Shapes, OpType, PktType, CmdType, Requests, Idle, NoPkt, NoCmd, NoGot, NoFd
<1>3. PlainOK
  BY Ranges DEF PlainOK, Places, States
<1>4. TypeOK
  BY <1>1, <1>2, <1>3, TypeParts
<1>5. TargetInv /\ InStep /\ BenchInv /\ SlotInv /\ SentOnce /\ CounterInv /\ NotLeftBehind
  BY DEF TargetInv, InStep, BenchInv, SlotInv, SentOnce, CounterInv, NotLeftBehind, Idle, NoPkt
<1>6. HandleInv /\ QuitInv /\ FilesInv
  BY DEF HandleInv, QuitInv, FilesInv, HeldOpen, Idle, NoPkt, NoCmd, NoGot
<1> QED BY <1>2, <1>4, <1>5, <1>6 DEF IndInv

LEMMA Stutter == IndInv /\ UNCHANGED vars => IndInv'
<1> SUFFICES ASSUME IndInv, UNCHANGED vars PROVE IndInv'
  OBVIOUS
<1> USE DEF IndInv, vars, aside
<1>1. TypeOK' /\ Shapes'
  BY DEF TypeOK, Shapes
<1>2. TargetInv' /\ InStep' /\ BenchInv' /\ SlotInv' /\ SentOnce' /\ CounterInv' /\ NotLeftBehind'
  BY DEF TargetInv, InStep, BenchInv, SlotInv, SentOnce, CounterInv, NotLeftBehind
<1>3. HandleInv' /\ QuitInv' /\ FilesInv'
  BY DEF HandleInv, QuitInv, MetaQuit, FilesInv, HeldOpen
<1> QED BY <1>1, <1>2, <1>3

\* The parts of the invariant are inductive together, for every action of
\* npsh, the target and the cable.
THEOREM NpshInvariant == Spec => []IndInv
<1>1. IndInv /\ Next => IndInv'
  <2> SUFFICES ASSUME IndInv, Next PROVE IndInv'
    OBVIOUS
  <2>1. BoolOK /\ PlainOK
    BY TypeParts DEF IndInv
  <2>2. Shapes' /\ BoolOK' /\ PlainOK'
    BY <2>1, ShapeStep, BoolStep, TypeStep DEF IndInv
  <2>3. TypeOK'
    <3>1. (Shapes => (TypeOK <=> BoolOK /\ PlainOK))'
      BY TypeParts, PTL
    <3> QED BY <2>2, <3>1
  <2> QED BY <2>1, <2>2, <2>3, TargetStep, InStepStep, SlotStep, CounterStep,
             HandleStep, QuitStep, FilesStep DEF IndInv
<1> QED BY <1>1, InitInv, Stutter, PTL DEF Spec

\* The program's own variables stay in their ranges: the counters of main()
\* and np_set_counter(), the slot, the descriptors.
THEOREM NpshTypes == Spec => []TypeOK
BY NpshInvariant, PTL DEF IndInv

\* recv_and_process_packet() owes an answer exactly while the target waits for
\* one, whatever the target asks and whenever a command is typed; get_return()
\* alone leaves a request unanswered, and only one that crosses a command.
THEOREM NpshInStep == Spec => []InStep
BY NpshInvariant, PTL DEF IndInv

\* A typed command is sent at most once.
THEOREM NpshSentOnce == Spec => []SentOnce
BY NpshInvariant, PTL DEF IndInv

\* The idle timeout of main() does not take the device away from a command
\* that was typed as a line, for any timeout.
THEOREM NpshNotLeftBehind == Spec => []NotLeftBehind
BY NpshInvariant, PTL DEF IndInv

\* usb_close() twice on one handle takes META-q, or a timeout shorter than the
\* burst.
THEOREM NpshClosedOnce == Spec => []ClosedOnce
<1>1. IndInv => ClosedOnce
  BY DEF IndInv, QuitInv, MetaQuit, ClosedOnce
<1> QED BY <1>1, NpshInvariant, PTL

\* The target's descriptors are open in npsh, and so is npsh's stdout.
THEOREM NpshHeldOpen == Spec => []HeldOpen
<1>1. IndInv => HeldOpen
  BY DEF IndInv, FilesInv
<1> QED BY <1>1, NpshInvariant, PTL
=============================================================================
