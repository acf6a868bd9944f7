# c_samples: a verification project

`c_samples` is a collection of small C programs, each in a directory of its own
and built on its own. Most of them do one of three things: serve sockets from a
libevent loop, combine threads with signals, or scan and parse text with re2c
and lemon. This directory holds TLA+ models of the programs that have state
worth checking, TLC configurations for small instances, and machine-checked
proofs of the main results for every value of the constants.

Contents: 1 inventory, 2 modules and how they correspond to the code, 3 runs
and bounds, 4 fairness, 5 proofs, 6 what disagrees with the documentation,
7 what is not modelled, 8 plan.

## 1. Inventory

| part | source | state | operations | what is hard |
|---|---|---|---|---|
| rot13 line server | `libevent/rot13/main.c` | per client: `buffer`, `buffer_used`, `n_written`, `write_upto`, two events; the descriptor table; the kernel's socket buffers | `do_accept`, `do_read`, `do_write`, `alloc_fd_state`, `free_fd_state` | partial sends, EAGAIN between any two calls, a full buffer, the rewind to index 1, end of input with output unsent, descriptors that are never closed |
| TCP request server | `daemon/src`, `socket/server` | per client: descriptor and heap event; the loop's exit flag | `accept_handler`, `recv_handler`, `accept_cmd`, `receive_cmd` | blocking calls in a single-threaded loop, each handler frees its own event on several ways out, requests split and merged, SIGPIPE |
| becoming a daemon | `daemon/src/mydaemon.c` (and the copies in `socket/server`, `libevent/server`) | the descriptor table, syslog's descriptor and lock, the signal handlers | `main`, `daemonize`, `start_server`, `signal_handler` | what 0, 1 and 2 are afterwards, signals between any two calls, handlers that call syslog |
| line server | `network/server`, `network2/server` | a bufferevent per client: input and output buffer | `do_accept`, `read_callback`, `error_callback`, `read_stdin`, `sig_int_handler` | lines longer than the watermark, output pending when the peer leaves, descriptors at the limit |
| reversing echo server | `libevent/server` | a bufferevent and its userdata; a cleared 256-byte buffer per piece | `accept_cb`, `read_cb`, `event_cb` | string functions on bytes that may hold zeros, counts of removed controls |
| TCP clients | `network/client`, `network2/client`, `daemon/client`, `socket/client` | one socket, the terminal, a stack buffer that keeps what was in it | `read_stdin`, `stdin_handler`, `recv_handler`, `recv_callback` | the server goes away, partial sends, lines cut and merged on both sides, a buffer without its zero |
| UDP line pair | `line/recvline`, `line/sendline` | a line buffer shared by all senders, a command's stream | receive and stdin handlers | lost and reordered datagrams, lines without end, streams that are never closed |
| UDP receiver and sender | `network/receiver`, `network/sender` | a socket and an event each | the same without the line buffer | an empty datagram is taken for the end, an event that is not on the heap is freed |
| socket helpers | `*/common/common.c`, `daemon/src/common.c`, ... | none that lasts | `server_socket`, `client_socket`, `receiver_socket`, `sender_socket`, `get_sockaddr_info` | cleaning up after each call that can fail |
| shared memory | `shared_memory` | a named object, two mappings | writer and reader loops | unsynchronised stores, a writer killed in the middle, the name unlinked under the reader |
| tokenizer | `tokenizer/scanner` | `INPUT`: a buffer with four pointers, `eof` | `fill`, `Scanner_Scan` | refills in the middle of a token, tokens longer than the buffer |
| parsers | `calc/parser`, `unittest`, `tokenizer/parser`, their drivers, and the generator they come from (`tools/lemon.c`, `lempar.c`) | the generated tables, the parser's stack | `Parse`, the grammar actions, the drivers' loops | packed tables, default reductions, precedences, a full stack, the end of the input |
| worker and sigwait | `thread`, `sigwait` | a thread, a signal mask, the output file | `main`, `main_thread` | signals against the thread's end |
| timer | `timer` | an event base shared with a thread | `main`, `thread_func`, `sigint_handler` | cancellation, the base freed under the thread |
| terminal emulator | `myterm` | the bytes the scanner did not reach | `port_handler`, the scanner, `stdin_handler` | reads that cut a token, look-ahead at the end of what there is |
| serial terminal | `serial` | a tty, the terminal | read handlers | little |
| other scanners, grammars | `re2c`, `re2c_lemon`, `ansi_c_parser`, `c99_grammars` | the tokenizer's buffer; bison's stack | rules | generated code drives them; who frees a token's string |
| one-shot tools | `freq`, `txt2bin`, `pipe`, `event`, `gperf`, `shortpath` | locals | `main` | little |
| build, packaging and UI samples, vendored tools | `cmake*`, `autotools`, `package`, `gtk*`, `makeheaders.c`, `picocom`, ... | none of their own, or third-party | - | - |

The programs do not call one another. Inside one program, what interacts is the
event loop and its handlers, the kernel's socket buffers, the peers, signals
and, in three programs, a second process or thread. The clients talk to the
servers over TCP (`daemon/client` to the service port of `daemon/src`,
`network/client` to `network/server`), and the UDP senders to the receivers.
The parsers are called by their drivers with one token after the other; what
their tables are is decided by lemon when the program is built.

What makes each part correct, in a sentence:

- *rot13*: the echo is the translated input, in order, in whole lines, and a
  stored line is always sent; no client waits for ever because of another.
- *request server*: the replies follow what was sent, however the requests are
  cut on the way; an event exists exactly while its descriptor is open; what
  stops the server is `shutdown`, or one of a few causes that can be named.
- *daemon*: no descriptor of the server becomes stdio or syslog's, and SIGTERM
  ends it.
- *line server*: the echo does not depend on how the stream was cut; who has
  left takes no descriptor.
- *reversing server*: the reversed line keeps its line end; every string
  function stays inside the buffer.
- *TCP clients*: what is typed arrives, what is answered is shown, and the
  client ends when it knows that its server is gone.
- *UDP*: what is printed is what arrived, a line is one sender's, and nothing
  the network does stops the receiver.
- *socket helpers*: whichever call fails, nothing is left open or allocated.
- *shared memory*: whatever is stored over whatever, there is a terminator.
- *tokenizer*, *myterm*: where the reads fall does not change the tokens.
- *parsers*: the first token rejected is the first that cannot come there, a
  line is worth what precedence and associativity say, a full stack is reported.
- *sigwait*, *timer*: the program ends, with no half output and no use of a
  freed base.

## 2. Modules and the code

Each module's header comment says what a step is; `PROJECT.json` maps every
definition to its lines. An operator named like a C function is that function.
Definitions marked "Mutant" are variants of the definition after them with a
plausible bug; no specification uses them, and each property fails when one of
them takes the place of the original.

### The rot13 server

**LineEcho** is the abstract promise of a line echo: bytes are taken into a
store (`Take`), released up to some point (`Release`), and sent in order, only
when released (`Emit`).

**Rot13Conn** is one connection of `libevent/rot13/main.c`, system call by
system call. `buffer`, `buffer_used`, `n_written` and `write_upto` are the
fields of `struct fd_state`; `write_event` says whether the write event is
pending; `handler` and `buf` are the place inside `do_read` or `do_write` and
the bytes its loop has yet to look at. `RecvSome` is one `recv`, `TakeByte` one
turn of the for loop, `SendSome` one `send` that took any non-empty part,
`RecvAgain` and `SendAgain` are EAGAIN, `RecvEnd` and `SendError` free the
state, `WriteDone` is the rewind to index 1 and the `event_del`. The client may
send, read, shut down and reset between any two of them. It `INSTANCE`s
LineEcho with `taken <- kept`, `released <- Len(given) + (write_upto -
n_written)`, `out <- given`. MCRot13Conn adds a history variable, `patient`,
which tells the clients that wait for each echo from the others.

**Rot13Accept** is the same program seen across its connections: the backlog,
`do_accept` with its four ways out (no descriptor; `fd > FD_SETSIZE`; a state
that cannot be allocated, which ends in the assertion; an `fd_state`), the
table of descriptors, and one loop that runs one handler at a time. A
connection here has input and released output waiting or not; how its bytes
move is Rot13Conn. `free_fd_state` does not close the descriptor, so `fd[c]`
outlives the state of `c`.

### The other servers

**TcpServer** is `daemon/src` with both ports (`socket/server` is the same
program): all connections, the running handler's place (`cur`, `step`), its
local data (`buf`, `left`), descriptors, heap events and the kernel's socket
buffers. The sockets block, so `SendReply` and `SendLine` wait while the client
does not read, and no other handler runs meanwhile. Failures of malloc,
`event_add`, `popen` and `send` and the SIGPIPE that nothing ignores are
actions of their own. What clients there are, what they send and whether they
wait for their replies is a *world*; `Init` chooses one of `Worlds`. `said`
keeps the stream of each client, whose cuts `RepliesFollowTheStream` looks for.

**Daemonize** is `mydaemon.c` call by call: `pc` is main's next call, `fds` the
descriptor table, in which every `open` takes the lowest free number, `logfd`
and `lock` what syslog(3) keeps. SIGHUP and SIGTERM may come between any two
calls and push a handler on `stack`; a handler that finds the lock taken by
what it interrupted waits for ever (`stuck`). Once the start is over only the
descriptors of clients matter here; what their handlers do is TcpServer.

**LineServer** is `network/server/server.c`: per client a bufferevent with its
two evbuffers, the descriptor, the kernel's socket buffers and the client's
end. A callback is one step because nothing in it blocks; `ReadEvent` is the
library reading up to the watermark and calling `read_callback`.

**ReverseEcho** is one connection of `libevent/server/server.c`. `Reversed`
follows `read_cb` statement by statement on the 256-byte buffer: `Squeeze` is
the two `strchr`/`memmove` loops, `Swap` the swapping loop, `PutEnd` the two
assignments that put a control back. `server` becomes `"undefined"` when a
string function or an assignment would leave the buffer; the model stops there.

**EchoServers** is the sum of Rot13Accept, LineServer and ReverseEcho, which share
nothing: `Init` chooses one of `Servers`, a step is a step of that one, and the
variables of the other two keep their initial values. It states the fairness of
the three and their properties, and is the module that runs and proofs are
about. MCEchoServers gives it values; each of three configurations lets one
server run and makes the constants of the others as small as they may be.

**LinePair** is `line/recvline` with several `line/sendline`. The network is a
set of datagrams that may be lost, delivered in any order, and delivered again.
A handler runs to completion and shares nothing with another process, so each
is one step: `recvline_recv` appends to `lines`, prints the complete lines and
moves the rest to the front; `sendline_recv` is the `popen` of what came and
the datagrams of its output. `status` becomes `"undefined"` when `lines` is
overrun; bytes carry their sender so that a mixed line can be seen.

### The parser generator and its parsers

**LemonStates** follows the passes of `tools/lemon.c` from a grammar to the
actions of its states: rule precedences, FIRST sets, the LR(0) states (`Close`,
`Successors`), follow sets propagated along the links, the actions, and the
precedences that settle their conflicts. **LemonTables** goes on as the
generator does: `CompressTables` (default reductions, shift-reduce actions,
removal of unit rules), `ResortStates`, the packing of the action rows into one
array with the shared slots, and the arrays `ReportTable` writes.
**LemonGrammars** holds two grammars of the repository, the calculator's with
its actions and precedences and the tokenizer's. The tables the model computes
for both have been compared with those the repository's lemon.c computes, slot
by slot.

**LemonParser** is the generated parser, `tools/lempar.c`, parameterised by the
tables: `yy_find_shift_action` and `yy_find_reduce_action` with the lookup in
the packed arrays, `yy_shift` with its overflow, `yy_reduce`, `yyStackOverflow`,
the syntax error and the acceptance; one call of `Parse` is a sequence of
turns. It includes the two ways to be driven: `mycalc` and `calc`, which go on
after an error, and `tokenizer/example.c`, which exits. **MCLemonParser** says
what the parsers should do a second time, without tables: `CanBegin` is which
token may follow which, `Worth` the value of an expression by its outermost
operator, `Needed` how much of the input nothing has completed yet and has to
be on the stack.

### The smaller programs

**SocketHelpers** is the five helpers of `common.c` as lists of calls
(`getaddrinfo`, `socket`, `setsockopt`, `bind`, ...): a step is a call that
succeeds or one that fails and undoes what its branch undoes. `wild` is a
pointer freed that was never set.

**TcpClient** is `daemon/client` against the service port of the request
server, and `network/client` against the line server, with their user: `tty` is
what was typed and not read, `frame` the stack buffer of `stdin_handler` (in
`daemon/client`: `read_stdin`), whose old bytes `strlen` finds behind what
`read` did not terminate. The servers are reduced to what they promise here: an answer to each request as TcpServer gives
it, the lines back as LineServer does. A server that leaves is told apart by
what the client's next call finds: the end (`"gone"`: the bytes of a `send` are
answered with a reset), a reset (`"reset"`: one call, a `send`, a `recv` or the
bufferevent's read, returns -1 without a signal, and `network/client` goes on),
or a reset that is known (`"rst"`: the next `send` is answered with SIGPIPE).
What came before a reset can still be read. `spoilt` collects what went wrong
(a line that did not wait, did not fit, or came in parts), so that the
properties can say what holds without it.

**UdpEcho** is `network/receiver` with several `network/sender`, over the same
network as LinePair, with one empty datagram from a stranger or one failing
call. A stranger that sends lines to the receiver is one more sender.

**TermScanner** is `port_handler` of `myterm` with its scanner: bytes arrive in
reads of any size, the scanner takes one token at a time while it has three
bytes to look at, and what is left is moved to the front.

**SharedMemory** is `shared_memory/writer` and `reader` as two processes over
an object with a name, a size and bytes. `sprintf` stores its characters in any
order (`WStore`) and the zero last (`WZero`); the reader's `fprintf` looks for
the zero (`RScan`) and copies (`RCopy`). A writer can end, be killed anywhere
and be started again, with the old object or a new one.

**InputFill** is `tokenizer/scanner`: `fill` and `Input_Init` exactly, pointers
as offsets, and the rules of `scanner.re` that look ahead over a refill.
`MCInputFill` states what the scanner should report, on the whole file without
a buffer.

**SigwaitMain** is `thread/` (and `sigwait/main.c`): main's calls, the worker,
the process's pending signals. **TimerLoop** is `timer/main.c`: main, the
thread, the break flag of the event base, SIGINT.

**Programs** is the sum of six of these: SigwaitMain, TimerLoop, SocketHelpers,
TcpClient, UdpEcho and TermScanner. `Init` chooses one of them, and a step is a
step of that one; they share nothing. One run checks them all.

Other MC modules only give constants their values. The modules whose names end
in `_proofs` hold the theorems of section 5.

## 3. Runs and bounds

| run | question | instance |
|---|---|---|
| Rot13Conn | Does the write event stay right under every interleaving, does a client that waits for each echo lose nothing, is a stored line sent, and does the connection implement LineEcho? | buffer of 3, reads of 2, kernel buffer of 2, 5 bytes of a letter and the newline |
| Rot13Accept | How many clients are served in the server's whole life, and does any wait for ever? | three clients, `FD_SETSIZE` 2, a limit that leaves one descriptor and one above `FD_SETSIZE`, failing malloc |
| TcpServer | Do the replies follow what was sent, however it was cut and merged, what stops the server, and do events and descriptors stay in step whatever clients and allocations do? | three worlds: two service clients that wait, three kinds of request, two requests each; one client of each port that does as it likes, split requests, failing malloc and popen; and one service client that sends three requests without waiting, merged and split, with `shutdown` in two parts. A buffer of 3, two descriptors, replies the kernel holds: 1 |
| Daemonize | Are 0-2, syslog's descriptor and SIGTERM safe? | two SIGHUPs, one SIGTERM, two clients, all three ways to start, every outcome of each call |
| LineServer | Is the echo independent of the cutting, does it arrive, and are clients let go? | `MAX_LINE` 2, four bytes of one client, a second client for the one descriptor |
| ReverseEcho | What does a piece come back as, and does it stay in the buffer? | buffer of 4, five bytes of two letters, NUL, LF, CR |
| LinePair | Is what is printed what arrived, when do senders share a line, when is the buffer overrun, does an answer come that nobody asked for? | two senders (symmetric), datagrams of 2, line buffer of 4, three reads of the terminals, two commands with output longer than a datagram, one stream, one duplicate |
| LemonParser | Which token is rejected first, what is a line worth, when does the stack overflow, what is accepted? | five alphabets over both grammars, every sequence of up to 5 to 8 tokens, up to two of which may be thrown away, a stack of 7 |
| Programs | sigwait: complete output or none? timer: when is a freed base used? helpers: what is left after a failure? clients: what arrives and what is shown? UDP: what stops the service? myterm: do reads change what is shown? Do they end? | three sleeps and four signals at any moment; one SIGINT at a time, with `-d`; every failing call; two lines typed, of six kinds, through a buffer of 3, two short reads or writes; two senders, two reads, one duplicate, one fault; a buffer of 6, five bytes, two tokens per call in debug mode |
| SharedMemory | Does a racing reader always find an end, and a quiet one the last line? | lines of 0 to 2 characters in 4 bytes, two objects, restarts of both |
| InputFill | Are refills invisible? | every file of up to 6 characters of 6 kinds, buffer of 4 |
| InputFill_unterminated | Is the message "unterminated comment" true? It is not. | files of up to 5 characters, buffer of 4 |

Why these bounds are enough to be interesting. A buffer of 3 with 5 bytes fills
up, drops bytes (the newline among them), rewinds to 1 and is used again at
size 2; lines of 2 in a buffer of 3 are the longest that always fit. In
Rot13Accept the third client meets both limits: no descriptor left to accept it
with, and one above `FD_SETSIZE`, also when the clients before it are gone. In
TcpServer one reply that the kernel holds is enough for a handler to block, and
two descriptors enough for a later client to get an earlier one's; requests of
one and two tokens come to a `recv` of 3 merged, split, and one and a half at
a time, and a full one overruns the buffer. `MAX_LINE` 2
with four bytes makes a line that is broken at its limit twice, and a line that
ends exactly there. A `SIZE` of 4 has pieces that leave none, one and two bytes
of the buffer free, which is what `InsideWithTwoToSpare` tells apart. In
LinePair a line of 3 is cut into two datagrams that another sender's can come
between, and another datagram without an end overruns the buffer. The alphabets
of LemonParser make chains of EXP, which need the stack, brackets, both orders
of operators of different levels, division by zero, JSON lists longer and
deeper than the stack, and errors in the middle of each. The scanner reads no
integer 0; NUM is 0 in one alphabet where `2-2` would be too long. The two lines
of TcpClient are the shorter after the longer that `strlen` is wrong about, and
the longer is read in two parts, so that two sends can follow a reset.
Files of 6 in a buffer of 4 need a refill in the middle of every kind of token,
and tokens that do not fit. `MAXFD` only has to exceed the descriptors that can
be open, which `DaemonizeAssumption` says. Every bound is a CONSTANT whose
comment says "bound", except the kernel's buffers and the buffers of the
programs, which are scaled down.

Deadlock is not checked where the system may stop: clients stop sending, the
input ends, and processes end.

The hazards each property is aimed at are listed with their lines in
`PROJECT.json`.

What the runs show that the code's reader may not expect, beside what section 6
lists:

- Once its descriptors are used up the rot13 server accepts nobody for the
  rest of its life (`ServedInLifetime`), and `recvline` hears no more answers of
  a `sendline` whose streams are used up (`AnswersAreAskedFor`): neither closes
  what it opened.
- `network/client` outlives the reset of its connection, once: a `send` that
  fails with ECONNRESET does not end it, the next one is SIGPIPE
  (`ProgramEnds`).
- A client that sends without pause has the rot13 server for itself: `do_read`
  loops until `recv` finds nothing. `EveryClientHandled` holds only without.
- `lines[1024]` holds two datagrams of 512 bytes but not the zero behind them:
  after one that was cut, and so does not end with a newline, one more is
  enough to overrun the line buffer of `recvline` (`HarmNeedsRagged` gives the
  bound).
- The stack that the JSON grammar needs grows with the length of a list and not
  only with its depth, because its lists recurse to the right
  (`OverflowExactlyWhenNeeded`).

## 4. Fairness

- *Rot13Conn*: weak fairness of the handlers and of the client's reading. libevent
  calls a handler while its event is ready; only the liveness properties need
  the client to read. A client that has closed or reset is excepted.
- *Rot13Accept* (`AcceptFairness` in EchoServers): strong fairness of accepting and of starting `do_read` on each
  connection, because another handler that runs makes them wait and libevent
  serves every ready event before it polls again; weak fairness of `do_read`
  and of the calls that end `do_write`, whose loop has a finite amount to send.
  `do_read` itself need not come to an end: `Flooded` is a client that keeps it
  busy.
- *TcpServer*: strong fairness of accepting and receiving, because a handler that
  blocks makes another's readiness come and go, while epoll reports all ready
  descriptors in a round and libevent serves each before it polls again. Weak
  fairness of the calls inside a handler and of the client's reading: a
  command that runs ends, and a client that waits for its reply reads it.
- *LineServer* (`LineFairness` in EchoServers): weak fairness of each client's
  read, write and end events, of the client's reading, and of the end of a loop
  that was told to exit.
- *LemonParser*: weak fairness of a turn of the parser's loop; nobody has to
  give it another token.
- *Programs*: weak fairness of main and of the thread in the two threaded
  programs, and of the handlers of what is typed into a client: libevent calls
  them while the terminal has input, and each reads some. No fairness of signals, of users, of
  networks or of clients' sending is assumed anywhere.
- *InputFill*: the scanner goes on.
- *Daemonize*, *ReverseEcho*, *LinePair*, *SharedMemory*: only safety is checked.

The thread of TimerLoop may wake before main enters its loop. Its loopbreak
then comes first, dispatch clears it, and only SIGINT ends the program:
`BreakLost`, the one case that `ProgramEnds` leaves out. Weak fairness does not
say that a sleep of five seconds is longer than the start of main, and nothing
in the code does either.

## 5. Proofs

Eight modules, named after the module they are about with `_proofs` behind it,
hold theorems for every value of the constants: any number of clients,
senders, lines and signals, buffers of any size. All are of the form
`Spec => []P` (`MCSpec`, which adds a history variable, for
`WaitingClientLosesNothing`), or the refinement; where `P` is a property of a
run, the run shows it on a small instance.

| module | theorem | states that always |
|---|---|---|
| Rot13Conn_proofs | `TypeCorrect` | `TypeOK`: no index leaves the buffer |
| | `IndicesOrdered` | `IndexOrder` |
| | `WriteEventAgrees` | `WritePending` |
| | `EchoOrdered` | `EchoInOrder` |
| | `Refinement` | the connection implements LineEcho (`EchoSpec`) |
| | `WaitingClientLosesNothing` | `PatientClientLosesNothing` |
| EchoServers_proofs | `ServesNoMoreThanDescriptors` | `ServedInLifetime` |
| | `CuttingDoesNotShow` | `EchoOfWhatWasRead` |
| | `TwoBytesAreEnough` | `InsideWithTwoToSpare` |
| | `LinesComeBackReversed` | `EchoIsReversed` |
| TcpServer_proofs | `EventsMatchDescriptors` | `EventIffOpen` |
| | `DoubleFreeOnlyAfterReset` | `DoubleFreeNeedsReset` |
| | `WaitingClientsStopOnlyByAsking` | `StopsOnlyWhenAsked`, if `PoliteWorlds` |
| | `RepliesFollowWhatWasSent` | `RepliesFollowTheStream` |
| Daemonize_proofs | `TerminationNeedsAHangup` | `StuckNeedsHangup` |
| | `LogFindsItsLossInTime` | `LogKeepsToItself` |
| | `NoSocketBelowThree` | `SocketsAboveStdio` |
| SharedMemory_proofs | `ScanNeverLeavesTheObject` | `ScanStaysInside` |
| | `QuietReadPrintsLastLine` | `QuietReadIsLast` |
| LinePair_proofs | `AnswersWereAskedFor` | `AnswersAreAskedFor` |
| | `PrintedLinesWereHeard` | `PrintedIsHeard` |
| | `HarmComesFromRagged` | `HarmNeedsRagged` |
| InputFill_proofs | `BufferIsWindow` | `WindowOfFile` |
| | `RefillsDoNotShow` | `ScanIsReference` |
| Programs_proofs | `OutputIsWholeOrNone` | `NoHalfOutput` |
| | `FreedBaseNeedsLateSigint` | `UseAfterFreeNeedsLateSigint` |
| | `HelpersCleanUp` | `NothingLeftBehind` |
| | `UnhurtServiceIsHealthy` | `HealthyService` |
| | `CutsMakeNoDifference` | `AllButTwoShown` |
| | `WaitingUserIsAnswered` | `PatientUserHearsAnswers` |
| | `TypedLinesComeThrough` | `TypedLinesArrive` |

`TypeCorrect`, `IndicesOrdered` and `EchoOrdered` are no properties of a run:
they are what the other two rest on.

### What the proofs assume

Each theorem assumes the named assumption of its module, which TLC evaluates in
the module's run, and nothing else but for `PoliteWorlds`; those of EchoServers
assume `EchoServersAssumption`, the conjunction of its three servers'. Those that say more
than that sizes are numbers and names are different:

- *AcceptAssumption*: a limit on descriptors is not below those that the
  program has open before it accepts; otherwise they could not be open.
- *ReverseEchoAssumption*: letters are bytes other than NUL, LF and CR, and the
  buffer has room for a byte. Nothing is assumed of how it compares with a piece.
- *PoliteWorlds* (`WaitingClientsStopOnlyByAsking`, for the part about waiting
  clients): those use the service port, and one `recv` gets what one `send`
  carried, which is no more than the buffer. That is what "one request, one
  reply" means; a request that is split is answered twice, and its client no
  longer knows which reply to wait for. Nothing is assumed of worlds whose
  clients do not wait, and `RepliesFollowWhatWasSent` does not assume it at
  all: it holds of requests that are split, merged and overrun. MCTcpServer
  assumes it of its worlds, so that TLC finds it true there.
- *DaemonizeAssumption*: the descriptor table has room for the server's nine
  own and its clients.
- *SharedMemoryAssumption*: the longest line and its zero fit in the object,
  as `MaxText < Size` says: 255 and 256 in `writer.c`.
- *PairAssumption*, *ProgramsAssumption*: nobody types an empty datagram (it is
  `hurt` when one comes); a datagram is smaller than `lines[]`; what is typed
  and what a command prints is told from the EOF character that `sendline`
  stores behind an output (a byte 255 of a text is any other byte); the buffer of
  myterm has room for a token; a line typed into `daemon/client` holds no
  newline but its end, and what `read_stdin` reads at once, answered, fits
  `recv_handler`'s buffer: 255 bytes and `":OK\r\n"` in 512.

### The invariants, and why each is needed

None of the properties is inductive alone.

*Rot13Conn.* The invariant is

    Inv == TypeOK /\ IndexOrder /\ Rewound /\ EventAgrees /\ Unsent /\ Sent

`Rewound` says that outside of `do_write` a full buffer is never one whose
bytes were all sent: it was rewound. That is what `TakeByte` relies on when a
newline finds no room: `write_upto = buffer_used` then leaves something to
write, so adding the event is right. `EventAgrees` is `WritePending` with the
case of a running `do_write`, which keeps its event pending until `WriteDone`.
`Unsent` and `Sent` relate the buffer from `n_written` on to the end of `kept`,
and `given` to its beginning, through the rewind, which moves the indices but
not the meaning. The refinement has one lemma per kind of step: `TakeByteEcho`
(a byte is a `Take` or a `Release`), `SendSomeEcho` (an `Emit`), all others
stutter.

`WaitingClientLosesNothing` adds `Patience`, about a client that begins a line
when all before it have come back: bytes only move on or get lost on their way
from `input` to `got` (`Flow`), so that at the start of a line nothing is left
between the two; between handlers an empty buffer was rewound (`Fresh`); and
the buffer holds bytes of the line that was begun, but for the one byte that
the rewind to 1 leaves out (`OneLine`). The exception is a `do_write` that has
sent all and is not yet at its rewind: `do_read` does not run until it is.

*Rot13Accept.* `OwnDescriptor`: every client that was ever served still has a
descriptor, a different one, among those that `do_accept` lets through, also
when it is gone. The map from clients to descriptors is an injection into an
interval, which bounds their number.

*LineServer.* `LineInv`, for each client that is connected: the stream so far with
its long lines broken (`Broken`) is what was put out and then what the input
buffer holds, and the buffer holds exactly the last, unfinished line of it,
which is shorter than the watermark. The property says nothing about a line that
is still held; but where it is broken depends on how much of it has been read,
so the length must be part of what is kept. `ChunkRead` goes through the bytes of
one read: as long as they fit in, `read_callback` on the whole puts out what the
bytes one by one would, because it takes up to the last newline, or all if it is
full. `WriteEvent` moves bytes from `out` to `gave`, which leaves their
concatenation alone.

*ReverseEcho.* `ReverseInv` keeps that the last reply is what the operators make
of the last piece (`Answered`); the rest is about these operators. Inside the
buffer: removing the controls leaves a zero for each behind what is kept, and
however the swapping loop mixes them with the rest there are, within the piece,
two zeros at different places when both kinds are put back (`RoomForControls`).
`PutEnd` fills the first zero and writes one more behind the next, at most one
byte behind the piece's end, if two are free (`PutEndInside`), and leaves the
second control its zero. For the reply: a piece that is one string keeps a
`Shape`, a string and zeros behind it, through `Squeeze`, `Swap` and `PutEnd`
(`SwappedShape`, `PutEndShape`), so the reply can be read off.

*TcpServer.* `Events` ties the running handler to the tables: which connection
each call may belong to, that a service client's handler has its event until
it returns, that a command has lost its event only to a reset, and that
nothing is set up before `accept` returned. `Streams`, for the replies, is about
each client's stream: what is still to be received is its end (`Unread`), and
what was received was cut by `recv` into chunks, of which all but the one in the
hands of `recv_handler` have their reply, read or on its way (`Stream`). The
cuts exist because each action says what becomes of them: `StreamRecv` adds one,
`StreamReply` answers the chunk that was waiting, `StreamRead` moves a reply on,
`StreamSend` makes the stream longer behind them, which leaves the lines of the
chunks as they are (`LineStays`), and all others leave them alone
(`StreamFrame`). `Reasons` keeps why the server stopped. `Clients`, for
those that wait, is a disjunction: a client's last request is answered, on its
way in, in the hands of `recv_handler`, on its way out, or was the one that
ended the server. Each action moves one client from one case to the next;
`Frame` says that it leaves the others where they are.

*Daemonize.* `Finding` is the heart of `LogKeepsToItself`: while syslog's
descriptor may have been closed behind its back the process has none of the
server's, and syslog finds out in main's second call, before there is one.
`Room` bounds the numbers in use, so that an `open` finds a free one;
`LowNumbers` says per value of `pc` what 0, 1 and 2 are while daemonize closes
and copies descriptors and handlers, which log, take the lowest number between
any two calls. `Hangup` says who can hold the lock.

*SharedMemory.* `ZeroBehind`: no store reaches the last byte of an object, so
that zeros remain behind every line, and `ScanInside`: a scan has met none of
them yet. `Stored` and `QuietRead` say what is in place while a copy and a
quiet read are half done.

*LinePair.* `Answers` counts: an answer that is heard took a command, of which
each is on its way, being a datagram, or has become the one datagram of its
output that holds the EOF (`ChunksEndOnce`: the chunks begin a buffer's length
apart, so the last character is in one of them), or has been heard; a datagram
that is delivered again adds one to the count of duplicates. `Received` says that no complete line is held, that what is held came in
datagrams without an end, and what printed lines consist of. `Lines` is a fold
over a string; `LinesGoOn` says that the fold over what is held with a
datagram behind is the fold over the held lines continued.

*InputFill.* `Pointers`: the five pointers are in order and the zero that
marks the limit is in place, also in the middle of a token and across the
`memmove` of `fill`. `Scanning`, for `ScanIsReference`, tells them as places of the
file, which a refill does not change: where the current lexeme starts, what the
rule that is being matched has seen of it (`Doing`, one case per rule), and that
the tokens told so far are those that the reference tells up to there. Each rule
then ends where the reference ends that lexeme (`CommentEnds`, `LineEnds`,
`SlashEnds` and others).

*Programs.* `OutputWhileOpen` (thread/): where main is while the output is
half written, and that no signal kills it there. `ThreadAndBase` (timer/):
past the loop the thread is past its own loopbreak, or asleep and cancelled,
unless a SIGINT came late. `Progress` (common.c): after each call what is open
and allocated, against the sequence of calls of each helper, of which
`AllTidy` says that a later call undoes what an earlier one made. `Service`
(UDP): every datagram on its way is something a sender said or the answer to
it. `Scanned` (myterm): whatever may still come, one scan of the whole shows
what was shown and then what a scan of the rest held shows; that the scan
looks ahead is why "whatever may still come" has to be part of it
(`TokenOfLonger`, `ShowsUnfolds`). `Talk` (daemon/client): the last line is all
there is on its way, as typed, as sent, or as its answer, or it was lost with
the server, or all were answered; the cases differ in where it is and in
whether one answer is missing. A line of `sizeof(buf) - 1` bytes leaves its
newline for a second `read_stdin`, which sends nothing, in any of the cases but
the first: that is `NewlineAtMost`. `Arrives` (network/client): the stack buffer
holds whole lines, each the end of a line typed (`FrameRead`: a read puts one line
over the front of them), so that every `send` adds the line just read and ends of
earlier ones; and what was sent is, in this order, what was shown, the client's
input, what is on its way to it and what the server still holds or has to read
(`Way`), until the server goes; a line whose send fails then is not sent and
stays in the buffer (`ArrivesLost`).

### Folds and recursive functions

`Lines`, `FirstLine`, myterm's `Shows`, network/client's `Split`, the line
server's `Broken`, the reversing server's `Sifted` and the scanner's reference are defined by folds of the community
modules or recursive functions. No induction theorem is at hand for them; the
proofs take a least counterexample instead (`LeastExists`, from `WFMin` of the
library). A recursive function is `CHOOSE f : f = ...`, so that its equation
holds once such a function exists: that is shown first (`SolutionExists`,
`ScanExists`), then what it computes (`SplitByCharacter`, `LinesGoOn`,
`ScanOfRest`, `SplitAppend`, `LinesCarried`, `BrokenAppend`, `SiftedAppend`). In EchoServers_proofs `Broken` and
`Sifted` are two instances of one equation (`Solves`), and `ByteByByte` is the
induction over the bytes of a sequence that the rest uses. `PrintedIsHeard` is stated with `Splits`, where the newlines
are places of the text, because the provers do not expand `SelectSeq`.

### Only model-checked

- Liveness under fairness, out of the provers' reach: `StoredLineIsSent`,
  `EveryClientHandled`, `EveryRequestAnswered`, `DescriptorReturned`,
  `ProgramEnds`, `EchoArrives`, `ClientLetGo`, `EveryCallReturns`.
- `FirstErrorAtFirstBadToken`, `AcceptsCompleteLines`, `ResultIsWorth` and `OverflowExactlyWhenNeeded` compare the program with a
  recursive reference over the whole input; LemonStates, LemonTables and
  MCLemonParser use RECURSIVE operators, which the prover excludes.

## 6. Where the code and its documentation disagree

**A long comment is called unterminated** (`InputFill_unterminated`). `fill`
returns 2 when the current token leaves no room, `YYFILL` takes any result but
0 for the end of the input, and a comment keeps its first character as the
token. A closed comment longer than `BUFSIZE` is reported as
`ERROR : unterminated comment` and the program exits 1.

Seen while modelling, and not runs of their own:

- `timer/main.c:191` says "join with thread", but the join is done only if
  `pthread_cancel` failed. `UseAfterFreeNeedsLateSigint` says how much that
  matters: the base is used after it is freed only if a SIGINT came between the
  end of the thread's sleep and its loopbreak.
- `daemon/src/mydaemon.service.in` starts the daemon without a port, and main
  exits 1 then (`Options` in Daemonize).
- "exit" on the terminal of `network/server` calls `event_loopexit(NULL)`, which is about
  the default base; this program makes its own, so nothing happens. The same
  call in `network/client/client.c:49` does not end the client when a `send`
  fails, with EAGAIN or because the server has reset the connection; the next
  `send` after a reset does, by SIGPIPE (`ProgramEnds`).
- Both TCP clients take the end of the terminal's input for nothing to do, and
  are called again at once, for ever (`daemon/client/client.c:36`,
  `network/client/client.c:35`).
- `network/client/client.c:46` takes `strlen` of what `read` does not terminate
  (`TypedLinesArrive` allows for the end of an earlier line).
- `network/receiver` frees an event that is not on the heap when a socket fails
  (`receiver.c:159`) and closes its socket, but not its loop, for an empty
  datagram (`receiver.c:163`). A datagram of exactly 512 bytes would be
  terminated one byte behind the buffer (`receiver.c:154`, `180`); the senders
  here send at most 255.
- `CMakeLists.txt` of `network/receiver` compiles `recv_handler.c` beside
  `receiver.c`, which defines the same names; `Makefile.am` does not.
- `sender_socket` (`network/common/common.c:352`, `370`, `383`) cleans up what it
  does not have yet, and not what it has (`NothingLeftBehind` excepts its first
  three calls).
- `read_cb` of the reversing server writes its terminating zero one byte further
  than the control it puts back, so a piece with a line end needs two free
  bytes, not one.
- `shared_memory/reader` registers an event for the object's descriptor, which
  epoll refuses; the result is not looked at.
- `myterm` shows all but the last two bytes it received: the end of a prompt
  waits for the next output (`AllButTwoShown`). In debug mode the token at which
  "force break" leaves the loop is lost (`main.c:219`), and `main.c:264` moves
  bytes that may overlap with `memcpy`.
- The calculator acts before it looks: for `1)-2` it reduces, and prints, 1
  before the bracket is rejected, and then rejects the minus. A blank line is a
  syntax error. `mycalc` never sends the end of the input
  (`mycalc.c:45`-`61`), so a last line without its newline is never printed;
  `unittest` sends it (`unittest/calc/main.c:68`), which prints, and then fails.
- A parser whose stack is full drops the token, empties the stack and goes on
  without a word (`lempar.c:609`, `658`).
- Division by zero leaves the value unset (`calc/parser/parser.y:98`), and `%` by
  zero traps (`116`).
- The tokenizer's example tells its parser that the input is over only in debug
  builds (`example.c:126`).

## 7. What is not modelled

Most implementation lines of the repository are four identical copies of
`lemon.c` and of `makeheaders.c`; the definitions map the copy in `calc/tools`.

- Of lemon: reading the grammar file, the hash tables and the sorting of lists
  (sets and functions stand for them), the writers of code, header and report,
  and recovery with an error token, which no grammar here has. makeheaders is
  third-party and no program depends on it.
- The trees of `tokenizer/parser` and who frees a token's string; the grammars of
  `re2c_lemon/any_parser`, `ansi_c_parser` and `c99_grammars`; the scanners of
  `re2c` and `re2c_lemon`.
- In InputFill the rules of `scanner.re` that look at one character or match a
  fixed set (identifiers, keywords, operators); NUMBER is digits only.
- `myterm`'s `stdin_handler` and SIGINT handler, which pass each byte on and
  switch the terminal's mode; the whole of `serial`, which does the same.
- `accept_cb` of the reversing server beyond its result; `server_socket` and the
  options of `network/server`; the loop over addresses in
  `network/client/client.c:99`; the option parsing of all programs.
- In SharedMemory two writers at once, and the end of the terminal's input. In
  TcpClient the end of the terminal's input, after which the client does
  nothing else.
- In UdpEcho the length of a datagram; the senders' always fit the receiver's
  buffer. LinePair cuts what is longer, as the kernel does. Lines that a
  stranger sends to a sender, whose socket is not connected: it shows them.
- In LemonParser the asserts of `lempar.c`: the parser is the one built without.
- `event`, `pipe`, `freq`, `txt2bin`, `shortpath`, `gperf`, build samples,
  user-interface samples, third-party code: sequential, or without state.

## 8. Plan

The modules that carry the program's own logic are written, and most of their
safety properties proved. What is left:

Proofs: in *LemonParser*, that the stack never exceeds `YYSTACKDEPTH`, for any
tables whose rules are as long as the grammar's.

Models: `serial`, the owner of a token's string in the lemon parsers
(`tokenizer/parser`), and `txt2bin` and `freq` as operators checked against
references.
