# A TLA+ model of pksh

pksh is a shell that runs on a PC and drives a PlayStation 2 on which `ps2link`
is loaded. It serves the PS2's `host:` files, sends it commands, shows its log
and relays the requests of small batch tools. npsh is its sibling for the
Naplink USB cable. This directory models the parts of the code in `src/` whose
correctness depends on order, on failure or on history, checks them with TLC
and proves what matters most with TLAPS.

## 1. Inventory

| Component | Sources | State | Operations | Modelled in |
|---|---|---|---|---|
| Event loop | `pksh.c` `main`, `pko_srv_read` | `client[]`, `maxi`, `maxfd`, `master_set`, `readset`, `pko_srv_fd` | select, scan, accept, drop a tool, reconnect | `PkshLoop` |
| Shell commands | `pksh.c` `cli_*`, `rl_common.c` | `state`, `doloop`, `cprompt`, `ps2_netfs_fd`, `log_f_fd` | one per command | `PkshLoop` |
| Command datagrams | `linkproto_stub.c`, `pko_cmd_con` | a socket per command | send | `PkshLoop` |
| File service | `linkproto_core.c` `pko_*_file`, `pko_*_dir` | `recv_packet`, open files | open, close, read, write, lseek, dopen, dread, dclose | `FileService`, `FileRpc` |
| PS2NetFS client | `netfsproto_core.c`, `cli_copy`, `cli_list`, ... | `ps2_netfs_fd`, `recv_packet`, the loops of `cp` and `ls` | 14 requests, `ps2netfs_accept_pkt` | `NetFs` |
| Log receiver | `pko_log_read`, `write_log_line` | static `buf`, `loc` | receive, flush | `Console` |
| Batch tools | `batch.c`, `eeexec.c`, `iopexec.c`, ... | `sock`, `cmd_fd`, `master_set`, `service_close` | send one request, serve files | `BatchTool`; seen from pksh, the tools of `PkshLoop` |
| npsh | `npsh.c` | `timedout`, `doloop`, `cmd` | poll, time out, reinitialise, take a line | `Npsh` |
| Naplink protocol | `naplink.c`, `packet.c`, flags of `pl2301.c` | `commandWaiting`, `counter`, `processing`, `benchmarking` | packets to and from the target | `Npsh` |
| Argument helpers | `common.c`, `execute_line` | none | `split`, `fix_cmd_arg`, `build_argv`, `trim` | `CmdArgs` |
| Line editing | `rl_common.c` | `rl_line_buffer`, `line_buf`, `cprompt` | type, enter, change of prompt | `Console`, `PkshLoop` |
| Completion, configuration | `rl_common.c`, `read_config` | word lists | parse, complete | no: formatting |
| FTP commands | `pksh.c` under `#ifdef FTP` | a library's | | no: library not in the repository |

How they interact. There is one thread. `main` waits in `select()` on stdin,
the TCP link to ps2link, the UDP log socket, the listening socket of the tools
and each connected tool. `pko_srv_read` serves both the link (file requests)
and the tools (commands), and both receive into the one global buffer
`recv_packet`, which the PS2NetFS client uses too. A command typed in the shell
or sent by a tool runs the same `cli_*` function, which may close and replace
the link in the middle of the scan it was called from. A batch tool hands its
request to pksh over the loopback address, and without pksh does pksh's part for
one command itself. npsh shares only the string helpers with pksh: over its cable
the target leads, and npsh may put a command in the place of an answer.

What is hard. Everything in the loop is kept by descriptor *number*, and
numbers are reused by the kernel, so a slot's meaning depends on the whole
history of opens, closes and leaks. Every blocking call blocks everything.
The link may be lost at any point of a request, and several results of
receives are not looked at. PROJECT.json lists these as hazards, each at its
line, with the properties that would catch them.

What makes each part correct. The loop: the link and every tool stay watched,
and the thread never enters a receive that cannot end. The shell: a program is
sent only to a reset PS2, stored numbers are never someone else's. The file
service: a request is carried out once, and its reply says what was done. The
PS2NetFS client: replies belong to their requests, a copy that ends is a copy,
a command ends. The terminal: what is executed is what was typed, and the log is
shown once and in order. A batch tool: its request arrives, what it dumps is
whole, it ends. npsh: both sides agree on who speaks next, a command is sent once,
and the idle timeout takes nothing away.

## 2. Modules

* `PkshLoop`: the loop, the shell's commands and the descriptor table.
  `MCPkshLoop` instantiates it; `PkshLoop_proofs` holds the theorems about a
  benign environment, `PkshFaults_proofs` those about any.
* `FileRpc`: abstract; what the file service promises ps2link.
* `FileService`: the service over a byte stream; `Rpc` is the refinement
  mapping to `FileRpc`. `MCFileService` instantiates it.
* `NetFs`: the PS2NetFS commands. `MCNetFs` instantiates it.
* `CmdArgs`: the string helpers as operators (`Turn` is where each turn of their
  loops begins), and `Words`, what they are to find.
* `Console`: the terminal of pksh, over `CmdArgs`. `MCConsole` instantiates it.
* `BatchTool`: one run of one batch tool. `MCBatchTool` instantiates it.
* `Npsh`: npsh and the naplink protocol. `MCNpsh` instantiates it.
* `FileService_proofs`, `NetFs_proofs`, `CmdArgs_proofs`, `Console_proofs` (over
  `CmdArgs_proofs`), `BatchTool_proofs`, `Npsh_proofs`: the theorems about these
  modules (section 4).

PkshLoop leaves a file request (`ScanSrvRequest`) and a PS2NetFS command
(`NetfsCommand`) at what they do to the descriptor table; FileService and NetFs
are what goes on inside them. The modules meet at the same lines of
`pko_srv_read` (278-303) and at `ps2_netfs_fd`. In the same way `ScanLog` and
`ScanStdin` stand for what Console details, and `ToolConnect`, `ToolSend`,
`ToolClose` for what BatchTool does on pksh's connection.

### PkshLoop

`tab` is the kernel's descriptor table: for each number, what it stands for (a
kind, or the tool connected on it). `client`, `maxi`, `maxfd`, `master_set`,
`readset` are the locals of `main`; `pko_srv_fd`, `ps2_netfs_fd`, `log_to_file`,
`log_f_fd`, `state`, `cprompt`, `doloop` the globals of the same name. `i` is
the slot at which the scan continues; `pc` tells whether pksh is in `select()`,
in the scan, in a reconnect loop, or in one of the states it cannot leave
(`spin`, `wedged`, `undefined`, `exited`). `conn`, `pend`, `fin`, `srvIn`, `cin`,
`logIn` are what the kernel holds and has not delivered. `ask`, `out`, `ps2`,
`renewed`, `astray` are history: what the handler was asked, what of it left
pksh, whether the PS2 runs a program that pksh did not try to reset, whether the
link was replaced since `select()`, and the numbers that were closed by mistake.

| Action | Code |
|---|---|
| `Select`, `SelectFails`, `ScanDone`, `Exit` | the `while(doloop)` of `main` and its end |
| `ScanLog`, `ScanStdin` | `pko_log_read`; `cli_handler`, `execute_line` and the command (`Execute`) |
| `ScanSrvRequest`, `ScanSrvError`, `ScanSrvEof` | `pko_srv_read(pko_srv_fd)` |
| `ScanSrvTorn` | the same, with the link lost between a header and the rest of its request |
| `ReconnectFail`, `ReconnectOk` | one turn of a reconnect loop (there are two: `resume`) |
| `Accept`, `AcceptFails`, `AcceptUndefined` | the branch for the listening socket |
| `ScanToolRequest`, `ScanToolEof`, `ScanStale` | `pko_srv_read` of a tool; the number no longer a tool's |
| `ScanLost` | the handler of a fixed slot whose number stands for something else |
| `ToolConnect`, ..., `UserType` | the environment |

A handler is one action: nothing else of pksh runs during it, and what arrives
meanwhile is seen only by the next `select()` or blocking receive. The
exception is a reconnect loop, during which descriptors may be leaked: it has
steps of its own. Overrunning `client[]` and `FD_SET(-1)` are undefined
behaviour; `AcceptUndefined` ends the model there, and the properties that
follow are stated about the executions before it.

A request that is cut short is handled all the same, on what an earlier packet
left in `recv_packet` (`pksh.c:302`). Those bytes may read as any argument, so
that a CLOSE may close any descriptor pksh has (`CloseAstray`): the log or the
listening socket, a tool, the link itself or a number below it. `astray`
remembers the number, and the constant `Strays` says which ones an instance lets
it be. A READ or WRITE through such a number, DREAD and DCLOSE of a wild pointer,
and a fixed slot whose number stands for something else (`ScanLost`) end the
model (`pc = "undefined"`). A tool's request that is cut short runs its command
on such arguments, and a command with odd arguments is one of those a tool may
send.

A command leaves pksh if there is a descriptor for its socket and `connect()` and
`send()` succeed; no caller looks at any of the three. `Sent` is the set of what
may go out: with a descriptor free, the command or nothing. `state` and the
number of the PS2NetFS connection are changed all the same.

### FileService

A request is a header item, a body item and, for a write, data items on
`stream`; the stream has no boundaries, and `pc = "lost"` is pksh taking an item
that is not a header for one. `recv_packet` holds the last arguments received or
`Junk` (the buffer was overwritten by data or by a tool's request; its bytes may
read as any argument, including one of pksh's own descriptors). `own` is history:
the arguments came with the header in hand. `end` is the state of the link, with
the difference between a reset that a call has noticed and one that none has:
the next `send()` fails in the first case by SIGPIPE. `open` and `held` are what
is open on the host and what ps2link believes is.

Every handler of `linkproto_core.c` is an action of the same name;
`pko_write_file` is split at its receives (`WriteSegment`, `WriteBreaks`,
`WriteReply`), `pko_read_file` at `pko_send_bytes`.

`FileRpc` has no wire: `Make`, `Serve`, `Take`, and on the loss of the link
`Lose`, at most one `Orphan` (the call that was in flight, carried out late and
perhaps with foreign arguments), `Restore`. Under the mapping `Rpc` the whole
handling of a request up to its reply is one `Serve` step.

### NetFs

`at` is the request the running command has come to and `phase` where in it:
about to send, waiting in `ps2netfs_accept_pkt`, or returned. `AcceptReply`,
`AcceptTorn`, `AcceptOther`, `AcceptLong`, `AcceptEof`, `AcceptReset` are the
outcomes of `ps2netfs_accept_pkt`, the last two with its `-1` that callers take
for success and its unsigned length. `...Returns` are the continuations in
`cli_copy` and `cli_list`. Devlist, mkdir, rmdir and ps2mount have the same
control and are the one command `"one"`; rm, format, ps2sync and ps2umount are apart
because what they send is not what they should. `form` of a request says so:
`"nolength"` for rm and format, whose `len` is `htonl()` of a size cut to 16
bits, that is 0; `"short"` for ps2sync; `"garbage"` for ps2umount. A server may
answer such a request, answer it with another packet, or not at all.

`dst` is what a copy has written, `old` the length the destination had before:
neither side truncates it (`pksh.c:948`, 988), and `Copied` is what is there in
the end. `spilt` is history: in this copy the server gave or took less than the
piece it was asked for, or the local disk took less (`ReadReturns`; `pksh.c:965`
ignores it).

### Console and CmdArgs

`line` is readline's buffer and `typed` what the user has typed since the last
line ended; they differ once `write_log_line` has emptied the buffer. `buf` and
`loc` are the statics of `pko_log_read`; the log's characters are numbered, so
that loss, repetition and order can be told apart, and `got` and `shown` are
history. `pko_log_read` is one action for a datagram of any length with newlines
and `%` anywhere, `RecvError` a call that fails, any number of them in a row (each
takes one from `loc`), `StoreBefore` the datagram that is then stored before the
buffer. `write_log_line` prints the text as a format string: from the first `%` of
what is printed on, up to the prompt, anything may appear (`Garbled`), or the
process may be lost. `WriteLog` is the write to the log file, which may fail or
fall short. A NUL byte in the log, at which the text of a datagram would end, is
left out.
`Enter` executes the line, and `ArgsFound` compares `split`, `build_argv`,
`fix_cmd_arg` and `trim` with `Words` on it: the inputs of the helpers are the
lines that really reach them. A string is made of blanks, tabs, colons and other
characters: a tab separates the command from its arguments (readline's
`whitespace()`) but not the arguments from each other, and a colon makes a name
one of a device. `Files` is the set of strings that `is_file()` finds to be
regular files; `Hosted` puts `host:` before those that name no device.

### BatchTool

The mains of the seven tools differ in which of `sock` and `cmd_fd` a descriptor
is stored in, closed and sent on. One record per tool says so (`eeexec`, ...,
`reset`) and the steps are shared: `OpenLocal`, `Drop`, `OpenPs2`, `Arguments`, then
`HandOver` to pksh, or `SendDirect`, `Listen` and the turns of `batch_io_loop`
(`LogRead`, `IoRead`, `IoReadTorn`, `Killed`, `IoReadEnd`). `master_set` is never initialised: any set of bits
of `JunkBits` may be in it. That `select()` does not fail for it is part of
`LoopReady`: descriptors are given out from the lowest, so all those below `log_fd`
are open. ps2link works off a `plan`
of requests for one file, or two. Each is served (`Serve`) or fails on the host
(`Fail`: an open, a write, or the close of what was not opened), after which
ps2link, which is external, goes on with the plan or gives it up. When the
connection is lost inside a request its handler runs on other bytes
(`IoReadTorn`; `batch.c:53`): it may open or empty a file, or close any
descriptor of `Strays`; a reply into a connection that was reset kills the tool
(`Killed`). The descriptors of the files served are not in `table`: they are
opened after the log socket and lie above what `select()` watches.

### Npsh

`pc` is the place in `main`; `op` is what npsh is committed to inside
`recv_and_process_packet` (an answer, a command, a return it waits for) and `bench`
counts the calls of `do_benchmark`. The target `t` is what the flags of the cable
show of it, with the packet it has raised TX_REQ for. The loops of `packet.c` on
TX_REQ, TX_RDY and TX_C are guards of `Taking`, `Give`, `SendCommand` and `GetReturn`;
the handshakes are guards of `Initialize` and `NaplinkCheck`. `torn` is history: the
target or the cable went away while npsh was inside an exchange, after which npsh
spins or takes the next packet for the answer, and nothing is promised.

A program on the target may make a file request while npsh sends a command. The
two cross (`Cross`), and `get_return` reads the request where it waits for the
return of the command and drops it (`naplink.c:76-80`). The thread of the target
that made it then waits for an answer that never comes. `crossing` holds the
request until the target starts anew, and `dropped` tells whether npsh has taken
it off the cable: a crossing request is either still to be taken or was dropped,
which is the second way out of step that `InStep` names. That the other threads
of the target go on, send the return and poll again, is an assumption on the
target. One request crosses at a time.

## 3. Runs

| Run | Instance | Shows |
|---|---|---|
| `core` | 9 descriptors of which 1 is free, 5 slots, 1 tool with six kinds of request, shell and tool both start programs, requests cut short that may close the last descriptor, fairness | the safety properties of the loop under benign failures; a lost link is replaced |
| `faults` | every kind of shell command, immediate connect failures, leaks, a log file below the link, requests cut short that may close a descriptor below both | when the link leaves its slot; stored numbers keep their meaning; the dead ends (EBADF, wedged receives) are reached |
| `wire` | 2 files, 1 directory, writes of 0 to 3 units in segments of 2, the last of which may fail; handlers that leave early; fairness | framing, replies, accounting, refinement of `FileRpc`; every request is answered unless its handler leaves early |
| `loss` | all commands, files and old destinations of 0 to 4 units in chunks of 2; the server dies, refuses, falls short, answers wrongly or too long; the local disk fills up | replies stay in step, stale results only on a dead connection |
| `ends` | all commands, files and old destinations of 0 to 5 units; a server that answers but refuses or falls short, a local disk that fills up; fairness | a copy that ends normally is faithful, a command ends, but for the exceptions the properties name |
| `npsh` | timeout of 2 polls, bursts of 2, 1 file, benchmarks of 1 request; the target dies, is unplugged, restarts, sends requests that cross a command; META keys; fairness | both sides stay in step but for two ways out, commands are sent once, the timeout overtakes no line, exchanges end |
| `batch` | 7 tools, 9 descriptors, 4 possible junk bits in `master_set`, 2 log datagrams, 2 data requests, requests that fail on the host or are cut short, fairness | the loop watches the right descriptors, dumps are whole, a tool ends after CLOSE |
| `console` | buffer of 3, datagrams of 1 to 3, 3 characters of log, lines of up to 5 characters of four kinds, 5 characters of both together, `line_buf` of 5, `MAX_ARGV` of 1, 3 names of files, 2 failed calls | the log is in order, the line is whole, arguments are found |

Four runs show the code at odds with what the repository says of it (the
findings in PROJECT.json):

| Run | Property violated | What happens |
|---|---|---|
| `starve` | `ToolServed` | `maxi--` (`pksh.c:184`) hides the tools in higher slots |
| `lostframe` | `FrameKept` | data of a failed write (`linkproto_core.c:576`) read as a header |
| `cplost` | `CopyFaithful` | the end of the stream (`netfsproto_core.c:34`) passes for success |
| `toolfd0` | `HandedToPksh` | five tools send pksh's request on descriptor 0 (`iopexec.c:115`, `viewmem.c:132`, `dumpmem.c:67`, `dumpreg.c:66`, `gsexec.c:67`) |

The models hold other behaviour that the passing instances exclude by their
constants, and that a reader of the code should know of. A directory that cannot
be opened is never answered (`linkproto_core.c:325`; the exception in
`Answered`). The GSEXEC case has no `break` (`pksh.c:356`): a display list also
stops a VU (the exception in `NothingUnasked`). A send on a link whose reset was
noticed ends pksh by SIGPIPE, so the test for EPIPE (`linkproto_core.c:212`) is
not reached (`pc = "killed"`). cp never ends when the server refuses data
(`pksh.c:1003`), and ends as if all were well when a fetch got or stored too
little (965) or the destination was longer than the file (948, 988): the exceptions
in `CommandEnds` and `CopyFaithful`, all met in `ends`. ps2sync sends fewer bytes
than its packet has and need not be answered (`netfsproto_core.c:442`), rm (461)
and format (484) give a length of 0, format sends REMOVE (483), and ps2umount
sends a pointer (368): the commands whose requests are not `"whole"`, excepted in
`CommandEnds`. A CLOSE that is cut short may close a descriptor of pksh
(`pksh.c:302`, 305-339): the link then comes back under another number, or
`select()` fails with EBADF, or a receive is retried, for ever. That is the
exception (`astray`) in `LinkWatched`, `NeverStuck`, `SlotsOwned` and
`NoBlindRead`, and the third way in `LinkMovesOnlyIf`. A RESET that is lost to a
failed `connect()` or `send()`, or for want of a descriptor, clears `state` all the
same (`linkproto_core.c:183-200`), and the next program goes to a PS2 that still
runs the last one: the exception in `ExecAfterResetOnly`. A program started from the shell while the link has something to read leaves pksh
in a receive on the new link until the PS2 sends a request: the exception in
`NoBlindRead`, and a second way for `ToolServed` to fail.

In the other modules. A log line empties the line being typed, and what is typed
after it is executed alone (`rl_common.c:163`; the exception in `WholeLine`); a line
longer than `line_buf` overruns it (`pc = "undefined"`). Log text is the format of a
`printf()` (`rl_common.c:166`): what follows a `%` is not shown as it was sent (the
exception in `LogInOrder`). A failed `recvfrom()` with an empty buffer makes the next
datagram start before the buffer, and two make it start earlier still
(`pksh.c:243-247`, `StoreBefore`). `fix_cmd_arg` looks for a file under the name it has
cut out, extra blanks included, and keeps
the extra blanks of a run in the next argument
(`common.c:187`), and `build_argv` counts one entry too many when it runs out of
them (`common.c:291`). npsh calls `fix_cmd_arg` with its arguments exchanged
(`npsh.c:281`), so the name it sends with EXECPS2 and EXECIOP is empty, although
README.npsh:21 says that eeexec executes the file. A request that crosses a command is
dropped by `get_return` and never answered (`naplink.c:78`, `"cross"`): the second way
out of step in `InStep`. META-q in the
turn in which the timeout closes the device closes it twice, and so does `quit` with
a timeout shorter than the 10 polls that follow a line, if the target goes on after
QUIT (`npsh.c:110`; the exceptions in `ClosedOnce`), META-r in that turn is overtaken (the exception in
`NotLeftBehind`), and a device that is gone when npsh comes back from the timeout is
used after it was closed (`npsh.c:82`, `ReinitFails`). `processing` is cleared in
every turn (`npsh.c:72`), so an open file does not hold off the idle timeout; the
timeout counts polls and not seconds. A batch tool ignores the end of its stream
(`batch.c:48`) and turns for ever once ps2link has rebooted; it leaves its loop on
a CLOSE although the host failed a request before (30), with a dump that is not
whole (the exception in `DumpWhole`), and viewmem then waits for ever for the size of
its file (`viewmem.c:139`; the exception in `EndsAfterClose`); a CLOSE cut short may
close one of the descriptors it watches (53; the exception in `LoopReady`); its log listener is
bound to the loopback address, where ps2link's datagrams do not arrive; and
dumpmem and viewmem close their own stdin (`dumpmem.c:106`, `viewmem.c:101`).

Bounds. Descriptor numbers matter only relative to each other: one or two free
ones, and those that are given back, are enough for a leak to take the number of
a closed descriptor, for the table to run full, and for the next open to fail.
`Strays` is a number or two in an instance: in `core` the last, which is a tool's,
a file's or the socket of a command, in `faults` one below the link and that of the
log socket; the theorems hold for any set.
`MAX_CLIENTS` is cut to the four fixed slots and one per tool. One tool is
enough for the slots to be filled, emptied and to run out; two are needed for
the scan to pass over one (`starve`), and the theorems of section 4 hold for any
number. `AnyTime = FALSE` lets input arrive only when pksh waits for it; earlier
arrivals are seen at the same point. Segments of 2 and writes of 0 to 3 units
give the empty write, an exact multiple and a short last segment; chunks of 2
and files of 0 to 5 (to 4 in `loss`) do the same for cp. `Counted` stops falling at -2, since
only `total < size` is asked of it. `faults` has a VIEW: without `execee`, which alone
reads `state`, no step depends on the variables it leaves out, nor do its two
properties. In Console `N` = 3 lets a datagram fit, fill
and exceed the buffer and a line span two; lines of 5 characters hold three
words, or two with a double blank, and reach `LineBuf`; `MaxArgv` = 1 lets an
argument have more words than entries. `MaxBoth` bounds the line and the log
together: what one does to the other is seen with three of one and two of the other. In Npsh a timeout of 2
with bursts of 2 lets the timeout fall inside a burst and between two turns;
`counter` wraps at 8 instead of 2^32; `MaxNest` is never met. In BatchTool
`Writes` data requests stand for any number, and a second open file is what
tells an early CLOSE from the last one. `CHECK_DEADLOCK FALSE` is set
throughout: pksh may exit, and some of the states described above are ones it
really cannot leave.

Fairness. `PkshLoop`: weak fairness of `ReconnectOk` (the PS2 comes back; the loop
tries every second), which is all that `Reconnects` needs (`ReturnSpec`), and in
`starve` of pksh's own steps (a running process is scheduled; `FairSpec`). `FileService`: of the handlers and of ps2link taking the answer it
waits for. `NetFs`: of the commands and of a server that has a whole request.
`BatchTool`: of the tool and of ps2link going on with what it has begun. `Npsh`: of
npsh's thread, of the target's return, its restart after a reset and its requests
in a benchmark, and strong fairness of its poll, which must get its turn among the
requests of its program: an assumption on the target, without which no command
would ever be fetched.
None is assumed of the user, the tools or of failures.

Each property has a mutant, a change to one mapped definition such as a slip in
that code would make, that violates it in the same run.

## 4. Proofs

Every safety property that a passing run checks is proved for every value of
the constants. The theorems rest on the assumptions
the modules state about their constants, which TLC evaluates on every run, and
where said on a hypothesis that cannot be dropped: a run, or a finding of
section 3, shows what happens without it.

| Module | Theorem: property | Hypothesis |
|---|---|---|
| `PkshLoop_proofs` | `LinkStaysWatched`: `LinkWatched`; `NotStuck`: `NeverStuck`; `ToolsOwnTheirSlots`: `SlotsOwned`; `NeverReadsBlind`: `NoBlindRead` | `Benign` |
| `PkshFaults_proofs` | `TypeCorrect`: `TypeOK`; `LinkMovesOnlyThen`: `LinkMovesOnlyIf`; `OnlyWhatWasAsked`: `NothingUnasked`; `ProgramsOnlyAfterReset`: `ExecAfterResetOnly` (an action property); `NumbersStayOwned`: `OwnedNumbers`; `PromptTells`: `PromptHonest` | none |
| `FileService_proofs` | `ServiceTypes`: `TypeOK`; `ServiceOneReply`: `OneReply`; `ServiceWriteAccounted`: `WriteAccounted`; `ServiceHeldOpen`: `HeldOpen`; `ServiceOnlyOrphansGoAstray`: `OnlyOrphansGoAstray` | none |
| | `ServiceFrameKept`: `FrameKept`; `ServiceImplementsRpc`: `ImplementsRpc` (refinement of `FileRpc`); `ServiceNoMutualWait`: `NoMutualWait`; `ServiceComesNearer`: `Nearer` (an action property) | `WriteFails # "any"` |
| `NetFs_proofs` | `NetFsTypes`: `TypeOK`; `NetFsInStep`: `InStep`; `NetFsOwnResult`: `OwnResult` | none |
| | `NetFsUploadFaithful`: `UploadFaithful` (`CopyFaithful` of an upload) | `"die" \notin Faults` |
| | `NetFsCopyFaithful`: `CopyFaithful` | `Faults \subseteq {"wrong", "short"}` |
| | `NetFsNeverInVain`: `NeverInVain`; `NetFsCopyComesNearer`: `Nearer` (an action property) | `Faults = {}` |
| `CmdArgs_proofs` | `BuildArgvFindsWords`, `BuildArgvRunsOut`, `FixCmdArgFindsWords`, `TrimKeepsWords`, `SplitFindsWords` (facts about the operators) | a string without leading blanks, for `SplitFindsWords` any |
| `Console_proofs` | `ConsoleTypes`: `TypeOK`; `ConsoleLogInOrder`: `LogInOrder`; `ConsoleWholeLine`: `WholeLine`; `ConsoleArgsFound`: `ArgsFound` | none |
| `BatchTool_proofs` | `BatchTypes`: `TypeOK`; `BatchLoopReady`: `LoopReady`; `BatchDumpWhole`: `DumpWhole` | none |
| `Npsh_proofs` | `NpshTypes`: `TypeOK`; `NpshInStep`: `InStep`; `NpshSentOnce`: `SentOnce`; `NpshNotLeftBehind`: `NotLeftBehind`; `NpshClosedOnce`: `ClosedOnce`; `NpshHeldOpen`: `HeldOpen` | none |

`Benign` says that `connect()` does not fail at once (it may fail late, any
number of times), and that when `.pkshrc` names a log file the user does not
close it with `log stdout`. Either way the link can come back under another
number, after which the four properties are false. (The third way to get there,
a CLOSE cut short, is in the properties themselves: `astray = {}`.) `WriteFails # "any"` says
that `write()` on the host fails in the last segment only or not at all (run
`lostframe` drops it). `Faults` is what the PS2NetFS server may do wrong: go away
(`"die"`; run `cplost`), fall short
or refuse, answer with another packet, answer with a packet too long. An upload
notices all but the first; a fetch notices only another packet, since the result
of its read is not looked at, nor that of its write: `spilt` in `CopyFaithful`. A
packet too long that answers its read leaves the buffer as it was. `Nearer` needs a server with no faults at all: one
that refuses data makes an upload go on for ever (section 3).

None of the properties but the types is inductive as it stands. Each module has
one lemma per action, or per part of the invariant, and puts `Next` together
from them.

*The loop in a benign environment* (`IndInv`, until a CLOSE cut short closes a
descriptor). That the next connection gets the
number of the lost one depends on every number below it being taken and staying
taken. `FixedInv` and `BelowInv` say so: the numbers below the link are the
standard ones and the log file of `.pkshrc`, and the fixed slots, log and
listening socket stay where `main` put them. `LinkInv`: the link's number is its
first one and stands for the link, or is free while pksh is away, and then the
lowest free one. `SlotInv` and `ToolInv`: slots, `master_set` and tools
correspond. A socket opened while the link is up gets a higher number, and the
only opens while it is down are the reconnects themselves; in `cli_execee` the
datagram socket of the reset is opened before the link is closed, which is what
keeps the number. `NoBlindRead` needs to know of the rest of the scan as well
(`ScanInv`): what `select()` reported and the scan has not come to yet is still
ready, since a handler consumes from its own descriptor only and the numbers of
the others do not change hands.

*The loop in any environment* (`AnyInv`). Less is true, and it is proved without
`Benign`. `HomeInv` says where the link can be: in its slot, or elsewhere with a
dead socket under its old number, with the place of the log file given up, or after
its number or one below it was closed astray (`Low`). What is known of a number is
known of those not closed astray (`Trusted`) only.
`CommandInv` follows a command across the reconnect loop in its middle: what was
asked, what has been sent, and that a program about to be sent has its reset
behind it, or a reset that pksh tried and lost.

*The file service.* `FrameInv` gives the shape of the stream at each point of
`pko_srv_read`, whether the link is up or not, with the data of a write counted
against `bytes_left`; `CleanInv` adds what only holds if no write breaks off.
`OpenInv` ties the handler at work to the call ps2link waits on while the link
is up, `DownInv` the answer on its way, `HandleInv` the handles: after the link
is lost ps2link holds none, which is why a late close with foreign arguments
takes nothing from it. For the refinement, `Init` maps to the initial state of
`FileRpc`, and each action is shown to be a step of `FileRpc` or a stutter under
the mapping: the reply of a handler is `Serve`, the handlers that a lost link
leaves behind are the one `Orphan`, everything else on the wire is invisible.
That a request comes to its answer rests on `WholeInv`: while the link is up the
stream holds all that is left of the call, as many items as the point of
`pko_srv_read` has still to receive, so a receive never waits for what ps2link
will not send before it has its answer (`NoMutualWait`). `Variant`, four for each
item in the stream and the stage of the handler, then falls with every step that
touches the request. The two handlers that may return without a reply (`Silent`)
are the exception, as in `Answered`.

*PS2NetFS.* `PointInv` and `WireInv` say what the connection carries: nothing
outside a request; behind a request only the rest of a reply that was too long;
and nothing torn while it is up. `UploadInv` follows an upload on a server that
stays. What it rests on is `Tallied`: `total` never exceeds what was read of the
file, and if it equals it, all of that was stored in order. A unit that the server
did not take is missing from the count for ever, so the loop cannot end by the
count reaching the size (`pksh.c:1003`) unless every piece was taken whole; that it
may then not end at all is the price. `FetchInv` follows a fetch: on a connection
that is up (`GetInv`), how far the server's position, `size` and the destination
have come, and that they have come equally far; a fetch that another packet has
cost its connection comes to its close and no further, in a receive on descriptor
-1. With no faults, `PaceInv` adds that an upload has counted all it has read but
the piece under way, and `Variant` bounds the steps that are left: four for each
request still to be made, of which there are at most as many as units not yet
copied, plus the opening and closing ones. `NetFsNeverInVain` and
`NetFsCopyComesNearer` together are what `CommandEnds` says of `cp` short of
fairness, for every size of file and buffer.

*Arguments.* `split`, `build_argv`, `fix_cmd_arg` and `trim` walk along a string.
Their loops are written as one recursive function over the turns, `Turn`, whose
value the provers get from `Iteration`: a function defined by its value at the
turn before exists, by approximations over `0..k` that agree. Induction is by the
least counterexample (`Least`, from the well-foundedness of the naturals, and
`AllNumbers`), which needs no theorem with an operator parameter. `Covered` is the
heart of it: the turns that find a word begin exactly at the places where words
begin (`Begins`), in increasing order, and come to an end. `Enumerated` says that
whatever lists these places in order lists the `Words`. The rest compares the
pieces: `fix_cmd_arg` starts an argument one after the blank that ended the last
one (`BehindPart`), `trim` and `split` cut where no word is cut (`SameWords`), and a tab
that `split` takes for a blank ends no word of what comes behind it (`BlankedPart`).

*Console.* `OrderInv`: until a call fails, the buffer holds the text received
and not yet written, and what was written is the text before it, garbled at most
between a `%` and the next prompt. `LogInv` counts: `loc` is below 0 by no more than
the calls that failed. `EditInv`: the
line is the end of what was typed, and a sequence of characters, to which the
theorems about arguments apply.

*Batch tools.* `FreeAbove` bounds how many descriptors a tool has used at each
point of its `main`, and `LoopInv` says that, until a request is cut short, there is
no gap below the log socket, so that no bit of an uninitialised `master_set` stands
for a closed one. `PlanInv` says what ps2link has left to ask, and that what was
stored and the files still open are the complement of it, unless something failed
(`amiss`).

*npsh.* `TargetInv` and `BenchInv` relate the packet on the cable and the state
of the target to what npsh is committed to; `CounterInv` says that a command
typed as a line waits with the idle counter at 0 (`execute_line` sets it to 0, and
only a poll of the target counts, which fetches the command as well), and
`QuitInv` bounds the counter in the last turn by the calls of the burst. That a
crossing request is never forgotten while its thread waits is in `InStep` itself:
`get_return` takes it off the cable or what ends the program does.

Two slips in earlier versions of the models came out of failed proofs.
`ClosedOnce` was false for a timeout shorter than the burst of polls, which the
run's bounds did not reach; it now names that exception. And in NetFs the reply of
a server was put in front of what an over-long reply had left in the stream,
instead of behind it.

Only model-checked. The liveness properties (`Reconnects`, `Answered`,
`CommandEnds`, `ExchangeEnds`, `CommandSent`, `EndsAfterClose`): fairness is out
of the prover's reach; of `Answered`, and of `CommandEnds` for `cp`, the part that is no
matter of fairness is proved, as above. The four violations are counterexamples, and need
no proof.

## 5. Not modelled

The bytes of packets, paths and flags (a file that the PS2 opens for reading and
writing is opened write-only by `pko_fix_flags`, `linkproto_core.c:659`); file
contents of a read and the stat data of a directory entry. `read_config` of both
shells and its list functions read a file once at the start: what they leave
open is a constant of PkshLoop. Completion, suffix lists and path splitting look
up lists that nothing changes afterwards. The FTP commands are compiled only
with FTP defined, over a library that is not in the repository. In the shells,
commands that only print, toggle a verbosity flag, change directory or call
`system()` are one command without effect, in npsh `log` too, whose file nothing
is written to. `cli_reconnect` is bound to no command. The read error of cp's
local file is left out, as is its use of freed arguments, which is a matter of
memory and not of the protocol; a NUL byte in the log, and which of its characters
a `printf()` conversion takes; what the handlers do with a number that stands for
something else, other than to close it. `getsockopt` failing in `cmd_listener` (127) is
taken with the immediate failures: it leaks the socket in the same way.

## 6. State and plan

Done: PkshLoop, FileService and FileRpc, NetFs, CmdArgs and Console, BatchTool,
Npsh, their runs, and the proofs of all their safety properties.

Worth doing next: an instance of `core` with the log file of `.pkshrc`; variants
like those of `cp` and of a file request for the other liveness properties (an
exchange of npsh, the end of a batch tool); `split_filename` and the completion of paths in
CmdArgs.
