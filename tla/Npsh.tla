-------------------------------- MODULE Npsh --------------------------------
(***************************************************************************)
(* npsh: the shell for naplink over a PL2301 USB cable.                    *)
(*                                                                         *)
(* One thread turns between the cable and the terminal.  The target leads: *)
(* it sends a request and waits; npsh answers it, and may put a typed      *)
(* command in the place of the answer to a WAZZUP, the target's poll.      *)
(* There is one slot for a typed command.  After more than `timeout` polls *)
(* without a request or a line npsh closes the device, and the next key    *)
(* opens it again.                                                         *)
(*                                                                         *)
(* A packet is one transfer: recv_packet() and send_packet() spin on the   *)
(* flags of the cable until the target has done its part, which is a       *)
(* guard here.  The target and libusb are external: a target that finds    *)
(* its peer gone drops what it was sending, as naplink_check() does on     *)
(* this side.                                                              *)
(***************************************************************************)
EXTENDS Integers

CONSTANTS
    Timeout,       \* timeout of .npshrc, in polls; 0 is none
    Wrap,          \* counter is unsigned and wraps: 2^32 in the code
    Burst,         \* naplink_process() calls after select(): 10 in the code
    Files,         \* descriptors open() may return
    Names,         \* file names that are typed
    Lines,         \* the commands that are typed as a line
    BenchLen,      \* requests of one benchmark: 64 in the target
    MaxNest,       \* bound on benchmarks started inside a benchmark
    Faults         \* which of "meta", "die", "unplug", "cross" happen

Execs == {"execps2", "execiop"}
Commands == Execs \cup {"reset", "benchmark", "quit"}
FileOps == {"close", "read", "write", "lseek"}

ASSUME NpshConstants ==
    /\ Timeout \in Nat /\ Burst \in Nat \ {0} /\ Wrap \in Nat /\ Wrap > Timeout
    /\ BenchLen \in Nat /\ MaxNest \in Nat \ {0}
    /\ Files \subseteq Nat /\ \A f \in Files : f > 2
    /\ Lines \subseteq Commands \cup {"other"}
    /\ Faults \subseteq {"meta", "die", "unplug", "cross"}

NoName == "none"
Empty == "empty"   \* the name of length 0
Tty == 1           \* npsh's stdout, which /dev/tty stands for
NoFd == -1

VARIABLES
    pc,            \* the place in main(); or "exited", "undefined"
    i,             \* the burst's count
    op,            \* what npsh waits for inside recv_and_process_packet
    doloop, timedout, counter, processing,
    commandWaiting, cmd,
    bench,         \* do_benchmark() calls on the stack
    benchmarking, hnd, files,
    dev,           \* a PL2301 is plugged in
    t,             \* the target: "off", "peer" (waits for npsh), "run",
                   \* "await" (an answer), "cmd", "late", "bench", "returning",
                   \* "crossed", "quit"
    pkt,           \* the packet it has raised TX_REQ for
    asked,         \* the request it awaits the answer of
    job,           \* 0, or 1 + the requests left of its benchmark
    held,          \* the descriptors it was given
    got,           \* the last command it received
    want,          \* the last command typed and not yet sent
    crossing,      \* what a request of its program that crossed a command asks
    dropped,       \* get_return() has dropped that one
    torn           \* the target or the cable went away in an exchange

NoPkt == [type |-> "none", fd |-> NoFd]
NoCmd == [type |-> "none", name |-> NoName, key |-> "none"]
NoGot == [type |-> "none", name |-> NoName, key |-> "none"]
Idle == [type |-> "none", req |-> "none", rv |-> 0]
Ask(type, fd) == [type |-> type, fd |-> fd]

aside  == <<crossing, dropped>>
cable  == <<dev, t, pkt, asked, job, held, got, torn, aside>>
server == <<op, commandWaiting, cmd, bench, benchmarking, files>>
loop   == <<pc, i, doloop, timedout>>
vars   == <<pc, i, op, doloop, timedout, counter, processing, commandWaiting,
            cmd, bench, benchmarking, hnd, files, dev, t, pkt, asked, job,
            held, got, want, torn, aside>>

Init ==
    /\ pc = "init" /\ i = 0 /\ op = Idle
    /\ doloop = TRUE /\ timedout = FALSE /\ counter = 0 /\ processing = 0
    /\ commandWaiting = "none" /\ cmd = Empty
    /\ bench = 0 /\ benchmarking = FALSE /\ hnd = "closed" /\ files = {Tty}
    /\ dev \in IF "unplug" \in Faults THEN BOOLEAN ELSE {TRUE}
    /\ t = "peer" /\ pkt = NoPkt /\ asked = NoPkt /\ job = 0 /\ held = {}
    /\ got = NoGot /\ want = NoCmd /\ torn = FALSE
    /\ crossing = "none" /\ dropped = FALSE

-----------------------------------------------------------------------------
(* The target and the cable.                                               *)

Raise(p, s) ==
    /\ pkt' = p /\ t' = s
    /\ UNCHANGED <<loop, server, counter, processing, hnd, want,
                   dev, got, torn>>

\* Its poll, and the requests of the program it runs.
Poll ==
    /\ t = "run" /\ Raise(Ask("wazzup", NoFd), "await")
    /\ asked' = Ask("wazzup", NoFd) /\ UNCHANGED <<job, held, aside>>

FileRequests == {Ask("open", NoFd)} \cup {Ask(o, f) : o \in FileOps, f \in held}

\* A close gives the descriptor up before it is answered.
Kept(p) == IF p.type = "close" THEN held \ {p.fd} ELSE held

Request ==
    /\ t = "run"
    /\ \E p \in FileRequests :
         Raise(p, "await") /\ asked' = p /\ held' = Kept(p)
    /\ UNCHANGED <<job, aside>>

BenchRequest ==
    /\ t = "bench" /\ job > 1 /\ job' = job - 1 /\ UNCHANGED <<held, aside>>
    /\ \E o \in {"read", "write"} :
         Raise(Ask(o, Tty), "await") /\ asked' = Ask(o, Tty)

Return ==
    /\ t \in {"cmd", "late"} \/ (t = "bench" /\ job = 1)
    /\ Raise(Ask("return", NoFd), "returning")
    /\ job' = 0 /\ UNCHANGED <<asked, held, aside>>

\* A request of the program goes out before the return of the command, and a
\* thread of the target waits for its answer; one at a time.
Cross ==
    /\ "cross" \in Faults /\ t = "cmd" /\ crossing = "none"
    /\ \E p \in FileRequests :
         Raise(p, "crossed") /\ crossing' = p.type /\ held' = Kept(p)
    /\ UNCHANGED <<asked, job, dropped>>

\* After RESET the target is away until it has restarted.
Restarted ==
    /\ t = "off" /\ dev
    /\ t' = IF hnd = "open" THEN "run" ELSE "peer"
    /\ UNCHANGED <<loop, server, counter, processing, hnd, want,
                   dev, pkt, asked, job, held, got, torn, aside>>

\* The thread is gone that waited for the request.
Forgotten == crossing' = "none" /\ dropped' = FALSE

Busy == op # Idle \/ bench > 0

Away(d) ==
    /\ t' = "off" /\ pkt' = NoPkt /\ asked' = NoPkt /\ job' = 0 /\ held' = {}
    /\ Forgotten
    /\ dev' = d /\ torn' = (torn \/ Busy)
    /\ UNCHANGED <<loop, server, counter, processing, want, got>>

Die == "die" \in Faults /\ t \notin {"off", "quit"} /\ Away(dev) /\ UNCHANGED hnd

Unplug ==
    /\ "unplug" \in Faults /\ dev /\ Away(FALSE)
    /\ hnd' = IF hnd = "open" THEN "stale" ELSE hnd

Replug ==
    /\ ~dev /\ dev' = TRUE
    /\ UNCHANGED <<loop, server, counter, processing, hnd, want,
                   t, pkt, asked, job, held, got, torn, aside>>

-----------------------------------------------------------------------------
(* The device: initialize_naplink(), naplink_check(), naplink_close().     *)

\* Both handshakes spin until the target sets PEER_E; requests raised before
\* are cleared with TX_REQ.
Handshake ==
    /\ hnd' = "open" /\ t' = "run" /\ pkt' = NoPkt
    /\ UNCHANGED <<server, dev, asked, job, held, got, want, torn, aside>>

Initialize(next) ==
    /\ dev /\ t # "off" /\ Handshake
    /\ counter' = 0 /\ pc' = next
    /\ UNCHANGED <<i, doloop, timedout, processing>>

InitFails ==
    /\ pc = "init" /\ ~dev /\ pc' = "exited"
    /\ UNCHANGED <<i, doloop, timedout, counter, processing, server, hnd, want, cable>>

\* The result of the second initialize_naplink() is ignored, and
\* naplink_check() uses the handle that was closed.
ReinitFails ==
    /\ pc = "again" /\ ~dev /\ pc' = "undefined"
    /\ UNCHANGED <<i, doloop, timedout, counter, processing, server, hnd, want, cable>>

\* usb_reset() and the handshake if the target is away, else nothing.
NaplinkCheck == hnd = "open" /\ t # "off"

\* Clearing PEER_E tells the target, and spins when the cable is gone;
\* usb_close() frees the handle, which a second call uses.
NaplinkClose(next) ==
    /\ hnd # "stale" /\ hnd' = "closed"
    /\ pc' = IF hnd = "closed" THEN "undefined" ELSE next
    /\ t' = IF t = "off" \/ hnd = "closed" THEN t ELSE "peer"
    /\ pkt' = NoPkt /\ asked' = NoPkt /\ Forgotten
    /\ UNCHANGED <<server, dev, job, held, got, want, torn>>

-----------------------------------------------------------------------------
(* recv_and_process_packet().                                              *)

\* Mutant: i is not reset before the next burst.
M_Passed ==
    CASE pc = "first"   -> pc' = "top" /\ UNCHANGED i
      [] pc = "process" -> pc' = "select" /\ UNCHANGED i
      [] pc = "reinit"  -> pc' = "key" /\ UNCHANGED i
      [] pc = "burst"   -> i' = i + 1 /\ pc' = IF i' >= Burst THEN "timeout" ELSE "burst"

\* Where main() goes on when a call of naplink_process() is over.
Passed ==
    CASE pc = "first"   -> pc' = "top" /\ UNCHANGED i
      [] pc = "process" -> pc' = "select" /\ UNCHANGED i
      [] pc = "reinit"  -> pc' = "key" /\ UNCHANGED i
      [] pc = "burst"   -> /\ i' = (i + 1) % Burst
                           /\ pc' = IF i + 1 = Burst THEN "timeout" ELSE "burst"

Processing == pc \in {"first", "process", "reinit", "burst"}

\* A packet is taken by naplink_process() or by the loop of do_benchmark().
Taking ==
    /\ op = Idle /\ pkt # NoPkt
    /\ \/ bench > 0 /\ UNCHANGED <<pc, i>>
       \/ bench = 0 /\ Processing /\ Passed
    /\ pkt' = NoPkt /\ UNCHANGED <<doloop, timedout, hnd, want>>

NothingToTake ==
    /\ op = Idle /\ bench = 0 /\ pkt = NoPkt /\ Processing /\ Passed
    /\ UNCHANGED <<doloop, timedout, counter, processing, server, hnd, want, cable>>

\* Mutant: a request that fails is not answered.
M_Reply(req, rv) ==
    op' = IF rv = NoFd THEN Idle ELSE [type |-> "reply", req |-> req, rv |-> rv]

Reply(req, rv) == op' = [type |-> "reply", req |-> req, rv |-> rv]

\* open() of the name and then of the name in every directory of the path.
Opens == {Tty, NoFd} \cup (Files \ files)

TakeOpen ==
    /\ pkt.type = "open" /\ Taking
    /\ processing' = 1 /\ counter' = 0
    /\ \E rv \in Opens : Reply("open", rv) /\ files' = files \cup ({rv} \ {NoFd})
    /\ UNCHANGED <<commandWaiting, cmd, bench, benchmarking,
                   dev, t, asked, job, held, got, torn, aside>>

\* Mutant: the target may close npsh's stdout.
M_Closed(fd) == files \ {fd}

\* Descriptors up to 2 are npsh's own and stay open.
Closed(fd) == IF fd <= 2 THEN files ELSE files \ {fd}

TakeClose ==
    /\ pkt.type = "close" /\ Taking
    /\ processing' = 0 /\ counter' = 0
    /\ files' = Closed(pkt.fd) /\ Reply("close", 0)
    /\ UNCHANGED <<commandWaiting, cmd, bench, benchmarking,
                   dev, t, asked, job, held, got, torn, aside>>

\* While benchmarking, reads and writes are answered without the file.
Result(o, fd) ==
    IF fd \in files \/ (benchmarking /\ o # "lseek") THEN 0 ELSE NoFd

Transfer(o) ==
    /\ pkt.type = o /\ Taking
    /\ counter' = 0 /\ Reply(o, Result(o, pkt.fd))
    /\ UNCHANGED <<processing, files, commandWaiting, cmd, bench, benchmarking,
                   dev, t, asked, job, held, got, torn, aside>>

Counted == IF processing = 0 THEN (counter + 1) % Wrap ELSE counter

TakeWazzup ==
    /\ pkt.type = "wazzup" /\ Taking
    /\ counter' = Counted
    /\ IF commandWaiting = "none" THEN Reply("wazzup", 0)
       ELSE op' = [type |-> "command", req |-> commandWaiting, rv |-> 0]
    /\ UNCHANGED <<processing, files, commandWaiting, cmd, bench, benchmarking,
                   dev, t, asked, job, held, got, torn, aside>>

\* Mutant: commandWaiting is not cleared.
M_Served == commandWaiting

Served == "none"            \* commandWaiting = 0 at the end of the WAZZUP case

\* Mutant: do_benchmark() does not see the return.
M_TakeReturn ==
    /\ pkt.type = "return" /\ Taking
    /\ t' = "run"
    /\ UNCHANGED <<processing, counter, server, dev, asked, job, held, got, torn, aside>>

\* Ignored, but in do_benchmark() it ends the loop and with it the handler
\* of the WAZZUP that started it.
TakeReturn ==
    /\ pkt.type = "return" /\ Taking
    /\ t' = "run"
    /\ IF bench > 0
       THEN bench' = bench - 1 /\ benchmarking' = FALSE /\ commandWaiting' = Served
       ELSE UNCHANGED <<bench, benchmarking, commandWaiting>>
    /\ UNCHANGED <<processing, counter, op, files, cmd,
                   dev, asked, job, held, got, torn, aside>>

\* do_return(): send_packet() ends when the target has taken the packet.
Give ==
    /\ op.type = "reply" /\ t = "await" /\ pkt = NoPkt
    /\ op' = Idle /\ asked' = NoPkt
    /\ t' = IF job > 0 THEN "bench" ELSE "run"
    /\ held' = IF op.req = "open" THEN held \cup ({op.rv} \ {NoFd}) ELSE held
    /\ UNCHANGED <<loop, counter, processing, commandWaiting, cmd, bench,
                   benchmarking, files, hnd, want, dev, pkt, job, got, torn, aside>>

\* do_reset(), do_execps2(), do_execiop(), do_quit() wait for a return, and
\* do_benchmark() serves requests until it comes.
SendCommand ==
    /\ op.type = "command" /\ t = "await" /\ pkt = NoPkt /\ bench < MaxNest
    /\ got' = [type |-> op.req, key |-> want.key,
               name |-> IF op.req \in Execs THEN cmd ELSE NoName]
    /\ asked' = NoPkt /\ want' = NoCmd
    /\ IF op.req = "benchmark"
       THEN /\ t' = "bench" /\ job' = BenchLen + 1 /\ op' = Idle
            /\ bench' = bench + 1 /\ benchmarking' = TRUE
       ELSE /\ t' = "cmd" /\ UNCHANGED <<job, bench, benchmarking>>
            /\ op' = [type |-> "getreturn", req |-> op.req, rv |-> 0]
    /\ UNCHANGED <<loop, counter, processing, commandWaiting, cmd, files, hnd,
                   dev, pkt, held, torn, aside>>

\* get_return(): a packet that is not a return is dropped and not answered, and
\* the return comes when nobody waits for it.
GetReturn ==
    /\ op.type = "getreturn" /\ pkt # NoPkt
    /\ pkt' = NoPkt /\ op' = Idle /\ commandWaiting' = Served
    /\ IF pkt.type = "return"
       THEN /\ t' = CASE op.req = "reset" -> "off" [] op.req = "quit" -> "quit"
                      [] OTHER -> "run"
            /\ IF op.req = "execiop" THEN UNCHANGED <<held, aside>>
               ELSE held' = {} /\ Forgotten
       ELSE /\ t' = IF t = "crossed" THEN "late" ELSE t
            /\ dropped' = TRUE /\ UNCHANGED <<held, crossing>>
    /\ UNCHANGED <<loop, counter, processing, cmd, bench, benchmarking, files,
                   hnd, want, dev, asked, job, got, torn>>

-----------------------------------------------------------------------------
(* main(), execute_line() and the cli_ functions.                          *)

InMain(p) == op = Idle /\ bench = 0 /\ pc = p

Start == InMain("init") /\ Initialize("first")

Top ==
    /\ InMain("top")
    /\ pc' = CASE ~doloop -> "exit" [] doloop /\ timedout -> "select"
               [] OTHER -> "process"
    /\ pc' = "process" => NaplinkCheck
    /\ UNCHANGED <<i, doloop, timedout, counter, processing, server, hnd, want, cable>>

\* np_set_processing(0) at the end of the turn's first naplink_process().
AfterProcess == IF timedout THEN processing ELSE 0

SelectNothing ==
    /\ InMain("select") /\ processing' = AfterProcess
    /\ pc' = IF timedout THEN "timeout" ELSE "burst"
    /\ UNCHANGED <<i, doloop, timedout, counter, server, hnd, want, cable>>

SelectKey ==
    /\ InMain("select") /\ processing' = AfterProcess
    /\ pc' = IF timedout THEN "again" ELSE "key"
    /\ UNCHANGED <<i, doloop, timedout, counter, server, hnd, want, cable>>

Reinit == InMain("again") /\ Initialize("reinit")

\* rl_callback_read_char(), after timedout = 0 and np_set_processing(0).
KeyRead ==
    /\ InMain("key") /\ pc' = "burst" /\ timedout' = FALSE /\ processing' = 0
    /\ UNCHANGED <<i, op, bench, benchmarking, files, hnd, cable>>

\* fix_cmd_arg(arg, cmd, &argvlen) reads its second argument and writes its
\* first: the buffer that is sent keeps what it held.
FixCmdArg(arg, buf) == buf

SetCommand(c, name, key) ==
    /\ commandWaiting' = c
    /\ cmd' = IF c \in Execs THEN FixCmdArg(name, cmd) ELSE cmd
    /\ doloop' = (doloop /\ c # "quit")
    /\ want' = [type |-> c, name |-> name, key |-> key]

\* make, ls, cd, help, pwd and the commands that do nothing leave the slot
\* for commands alone.
LocalLine == UNCHANGED <<commandWaiting, cmd, doloop, want>>

\* Mutant: a line does not count as activity.
M_LineCounter == counter

LineCounter == 0            \* np_set_counter(0) in execute_line()

ExecuteLine ==
    /\ KeyRead /\ counter' = LineCounter
    /\ \E c \in Lines :
         IF c \in Commands
         THEN \E name \in IF c \in Execs THEN Names ELSE {NoName} :
                SetCommand(c, name, "line")
         ELSE LocalLine

\* A key that ends no line, or META-p, -s, -v.
OtherKey == KeyRead /\ UNCHANGED <<counter, commandWaiting, cmd, doloop, want>>

\* META-r and META-q are bound to cli_reset() and cli_quit() themselves.
MetaKey ==
    /\ "meta" \in Faults /\ KeyRead /\ UNCHANGED counter
    /\ \E c \in {"reset", "quit"} : SetCommand(c, NoName, "meta")

Expired == Timeout > 0 /\ counter > Timeout

CheckTimeout ==
    /\ InMain("timeout")
    /\ IF Expired
       THEN NaplinkClose("top") /\ counter' = 0 /\ timedout' = TRUE
       ELSE /\ pc' = "top"
            /\ UNCHANGED <<counter, timedout, server, hnd, want, cable>>
    /\ UNCHANGED <<i, doloop, processing>>

Exit ==
    /\ InMain("exit") /\ NaplinkClose("exited")
    /\ UNCHANGED <<i, doloop, timedout, counter, processing>>

-----------------------------------------------------------------------------
Host ==
    \/ Start \/ InitFails \/ Top \/ SelectNothing \/ SelectKey \/ Reinit
    \/ ReinitFails \/ ExecuteLine \/ OtherKey \/ MetaKey \/ CheckTimeout \/ Exit
    \/ TakeOpen \/ TakeClose \/ Transfer("read") \/ Transfer("write")
    \/ Transfer("lseek") \/ TakeWazzup \/ TakeReturn \/ NothingToTake
    \/ Give \/ SendCommand \/ GetReturn

Target ==
    \/ Poll \/ Request \/ BenchRequest \/ Return \/ Cross \/ Restarted
    \/ Die \/ Unplug \/ Replug

Next == Host \/ Target

Spec == Init /\ [][Next]_vars

\* npsh's thread runs.  The target answers what it is told, comes back after a
\* reset, and its poll gets its turn among the requests of its program.
FairSpec ==
    /\ Spec /\ WF_vars(Host) /\ WF_vars(BenchRequest \/ Return)
    /\ WF_vars(Restarted) /\ SF_vars(Poll)

-----------------------------------------------------------------------------
(* Properties.                                                             *)

TypeOK ==
    /\ pc \in {"init", "first", "top", "process", "select", "again", "reinit",
               "key", "burst", "timeout", "exit", "exited", "undefined"}
    /\ i \in 0..Burst-1 /\ doloop \in BOOLEAN /\ timedout \in BOOLEAN
    /\ op.type \in {"none", "reply", "command", "getreturn"}
    /\ counter \in 0..Wrap-1 /\ processing \in 0..1
    /\ commandWaiting \in Commands \cup {"none"} /\ cmd \in Names \cup {Empty}
    /\ bench \in 0..MaxNest /\ benchmarking \in BOOLEAN
    /\ hnd \in {"open", "closed", "stale"} /\ files \subseteq Files \cup {Tty}
    /\ dev \in BOOLEAN /\ torn \in BOOLEAN /\ dropped \in BOOLEAN
    /\ held \subseteq Files \cup {Tty}
    /\ t \in {"off", "peer", "run", "await", "cmd", "late", "bench",
              "returning", "crossed", "quit"}
    /\ pkt.type \in FileOps \cup {"none", "open", "wazzup", "return"}
    /\ crossing \in FileOps \cup {"none", "open"}
    /\ job \in 0..BenchLen+1 /\ got.type \in Commands \cup {"none"}
    /\ want.type \in Commands \cup {"none"}

\* npsh and the target stay in step: recv_and_process_packet() owes the target
\* an answer exactly while the target waits for one, it is the answer to that
\* request, and a command only takes the place of the answer to a WAZZUP.  There
\* are two ways out of step: the target or the cable goes away in the middle of
\* an exchange, or a request crosses a command and get_return() drops it; then
\* the thread that made it is left waiting, and nothing else is.
InStep ==
    torn \/ /\ (t = "await" /\ pkt = NoPkt) <=> op.type \in {"reply", "command"}
            /\ op.type = "reply" => op.req = asked.type
            /\ op.type = "command" => asked.type = "wazzup"
            /\ crossing # "none" => (t = "crossed" /\ pkt.type = crossing) \/ dropped

\* What recv_and_process_packet() puts in the place of an answer is the last
\* command typed and has not been sent before: commandWaiting is cleared
\* after every way a command can end.
SentOnce == op.type = "command" /\ ~torn => want.type = op.req

\* The idle timeout never closes the device while a command typed as a line
\* waits to be sent; a key bound to cli_reset() itself may be overtaken.
NotLeftBehind ==
    hnd = "closed" /\ timedout /\ commandWaiting # "none" => want.key = "meta"

\* usb_close() is called once per usb_open(), unless META-q is pressed in the
\* turn of the loop in which the idle timeout closes the device, or the timeout
\* is shorter than the burst of naplink_process() calls that follows a line:
\* then a target that goes on after QUIT can let it expire in the last turn.
ClosedOnce ==
    pc = "undefined" /\ ~doloop =>
        \/ Timeout < Burst
        \/ \E c \in {want, got} : c.type = "quit" /\ c.key = "meta"

\* A descriptor the target was given is open in npsh until the target closes
\* it, and npsh's stdout stays open whatever the target closes.
HeldOpen == held \subseteq files /\ Tty \in files

\* recv_packet(), send_packet() and the loop of do_benchmark() end: npsh gets
\* back to its terminal, unless target or cable went away in the exchange.
ExchangeEnds == Busy ~> (~Busy \/ torn)

\* A typed command is sent, unless the device is closed, the target is away
\* or npsh is on its way out.
CommandSent ==
    commandWaiting # "none" ~>
        (commandWaiting = "none" \/ ~doloop \/ hnd # "open" \/ t = "off" \/ torn)
=============================================================================
