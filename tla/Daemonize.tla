------------------------------- MODULE Daemonize -------------------------------
(***************************************************************************)
(* How daemon/src/mydaemon.c becomes a daemon: main, daemonize and         *)
(* start_server call by call, with the process's descriptor table, the     *)
(* descriptor syslog keeps to itself, and the handlers of SIGHUP and       *)
(* SIGTERM, which call syslog too and may interrupt main anywhere.         *)
(*                                                                         *)
(* A descriptor is always the lowest free number, so what 0, 1 and 2 stand *)
(* for while the server works depends on everything that was closed and    *)
(* opened before.  syslog(3) is modelled by what the C library does: one   *)
(* lock around each call; a connection made when it is first needed; when  *)
(* sending fails it closes that number and connects again.                 *)
(***************************************************************************)
EXTENDS Integers, Sequences, FiniteSets, SequencesExt

CONSTANTS
  MAXFD,        \* daemonize closes 0..MAXFD-1
  Args,         \* how the program is started: "unit" (as mydaemon.service.in
                \* does), "daemon" (--port) or "foreground" (--port -F)
  MaxHup,       \* bound: SIGHUPs
  MaxClients    \* bound: connections that are open at once

ASSUME DaemonizeAssumption ==
  /\ Args \subseteq {"unit", "daemon", "foreground"}
  /\ MaxHup \in Nat /\ MaxClients \in Nat
  /\ MAXFD \in Nat /\ MAXFD >= 9 + MaxClients

VARIABLES
  args, logger, \* how it was started; there is a system log to connect to
  pc,           \* the next call of main
  i,            \* daemonize: the loop that closes; then open's result
  fds,          \* fds[n]: what descriptor n is, or "free"
  logfd,        \* the number syslog believes to be its connection, or -1
  stack,        \* the signal handlers that are running
  lock,         \* who holds syslog's lock: "none", "main", "hup" or "term"
  handlers,     \* SIGHUP and SIGTERM are caught
  shell,        \* what started the program: "waits", or the status it got
  proc,         \* the process itself: "runs", "stuck", or its exit status
  hups, term,   \* SIGHUPs so far; when SIGTERM came: "no", "early" or "serving"
  nulled,       \* history: /dev/null could be opened
  trespass      \* history: syslog sent on, or closed, the server's descriptor

log == <<logfd, lock>>
signals == <<stack, hups, term>>
vars == <<args, logger, pc, i, fds, log, signals, handlers, shell, proc, nulled, trespass>>

Numbers == 0..MAXFD-1
Server == {"event", "listen", "client"}

Init ==
  /\ args \in Args /\ logger \in BOOLEAN
  /\ pc = "options" /\ i = 0
  /\ fds = [n \in Numbers |-> IF n <= 2 THEN "tty" ELSE "free"]
  /\ logfd = -1 /\ lock = "none"
  /\ stack = <<>> /\ handlers = FALSE
  /\ shell = "waits" /\ proc = "runs"
  /\ hups = 0 /\ term = "no" /\ nulled = TRUE /\ trespass = FALSE

-----------------------------------------------------------------------------
(* The descriptor table (external).                                         *)

Lowest(t) == CHOOSE n \in Numbers : t[n] = "free" /\ \A m \in 0..n-1 : t[m] # "free"
Open(t, what) == [t EXCEPT ![Lowest(t)] = what]
Close(t, n) == [t EXCEPT ![n] = "free"]

(* syslog, with its lock held. *)
Send ==
  IF logfd # -1 /\ fds[logfd] = "log"
  THEN UNCHANGED <<logfd, fds, trespass>>
  ELSE LET t == IF logfd = -1 THEN fds ELSE Close(fds, logfd)
       IN  /\ trespass' = (trespass \/ (logfd # -1 /\ fds[logfd] \in Server))
           /\ IF logger
              THEN logfd' = Lowest(t) /\ fds' = Open(t, "log")
              ELSE logfd' = -1 /\ fds' = t

-----------------------------------------------------------------------------
(* main, while no handler runs.                                             *)

At(label) == proc = "runs" /\ stack = <<>> /\ pc = label
Goto(label) == pc' = label

Exit(status) ==
  /\ proc' = status
  /\ shell' = IF shell = "waits" THEN status ELSE shell

(* The options: without a port main exits 1. *)
Options ==
  /\ At("options")
  /\ IF args = "unit"
     THEN Exit("1") /\ UNCHANGED pc
     ELSE Goto("log1") /\ UNCHANGED <<shell, proc>>
  /\ UNCHANGED <<args, logger, i, fds, log, signals, handlers, nulled, trespass>>

(* A call of syslog takes the lock, *)
SyslogEnter ==
  /\ At(pc) /\ pc \in {"log1", "log2", "log3"} /\ lock = "none"
  /\ lock' = "main"
  /\ Send
  /\ UNCHANGED <<args, logger, pc, i, signals, handlers, shell, proc, nulled>>

(* and gives it back; the last call is before exit(1). *)
SyslogLeave ==
  /\ At(pc) /\ pc \in {"log1", "log2", "log3"} /\ lock = "main"
  /\ lock' = "none"
  /\ IF pc = "log3"
     THEN Exit("1") /\ UNCHANGED pc
     ELSE /\ Goto(IF pc = "log2" THEN "event_init"
                  ELSE IF args = "daemon" THEN "fork1" ELSE "log2")
          /\ UNCHANGED <<shell, proc>>
  /\ UNCHANGED <<args, logger, i, fds, logfd, signals, handlers, nulled, trespass>>

(* daemonize: the first fork.  The parent exits; if fork fails daemonize     *)
(* returns -1, which main does not look at.                                   *)
Fork1 ==
  /\ At("fork1")
  /\ \/ Goto("signal") /\ shell' = "0"
     \/ Goto("log2") /\ UNCHANGED shell
  /\ UNCHANGED <<args, logger, i, fds, log, signals, handlers, proc, nulled, trespass>>

(* setsid and signal. *)
Signal ==
  /\ At("signal")
  /\ handlers' = TRUE
  /\ Goto("fork2")
  /\ UNCHANGED <<args, logger, i, fds, log, signals, shell, proc, nulled, trespass>>

(* The second fork: it is the child that exits, so nothing changes here. *)
Fork2 ==
  /\ At("fork2")
  /\ Goto("close") /\ i' = 0
  /\ UNCHANGED <<args, logger, fds, log, signals, handlers, shell, proc, nulled, trespass>>

(* close(0) to close(MAXFD - 1). *)
CloseAll ==
  /\ At("close")
  /\ IF i < MAXFD
     THEN i' = i + 1 /\ fds' = Close(fds, i) /\ UNCHANGED pc
     ELSE Goto("null") /\ UNCHANGED <<i, fds>>
  /\ UNCHANGED <<args, logger, log, signals, handlers, shell, proc, nulled, trespass>>

(* fd = open("/dev/null") *)
OpenNull ==
  /\ At("null")
  /\ \/ i' = Lowest(fds) /\ fds' = Open(fds, "null") /\ Goto("dup0") /\ UNCHANGED nulled
     \/ Goto("log2") /\ nulled' = FALSE /\ UNCHANGED <<i, fds>>
  /\ UNCHANGED <<args, logger, log, signals, handlers, shell, proc, trespass>>

Dup2(from, to, after) ==
  /\ At(from)
  /\ fds' = [fds EXCEPT ![to] = fds[i]]
  /\ Goto(after)
  /\ UNCHANGED <<args, logger, i, log, signals, handlers, shell, proc, nulled, trespass>>

(* Mutant: stderr is forgotten. *)
DupTwoOnly == Dup2("dup0", 0, "dup1") \/ Dup2("dup1", 1, "closenull")

DupAll ==
  \/ Dup2("dup0", 0, "dup1") \/ Dup2("dup1", 1, "dup2") \/ Dup2("dup2", 2, "closenull")

(* Mutant: main does not log its working directory. *)
CloseNullNoLog ==
  /\ At("closenull")
  /\ fds' = IF i < 2 THEN Close(fds, i) ELSE fds
  /\ Goto("event_init")
  /\ UNCHANGED <<args, logger, i, log, signals, handlers, shell, proc, nulled, trespass>>

(* if(fd < 2) close(fd) *)
CloseNull ==
  /\ At("closenull")
  /\ fds' = IF i < 2 THEN Close(fds, i) ELSE fds
  /\ Goto("log2")
  /\ UNCHANGED <<args, logger, i, log, signals, handlers, shell, proc, nulled, trespass>>

(* start_server: event_init opens one to three descriptors, depending on the *)
(* library.                                                                    *)
EventInit ==
  /\ At("event_init")
  /\ LET one == Open(fds, "event")
         two == Open(one, "event")
         three == Open(two, "event")
     IN  fds' \in {one, two, three}
  /\ Goto("listen1")
  /\ UNCHANGED <<args, logger, i, log, signals, handlers, shell, proc, nulled, trespass>>

(* server_socket, twice; if it fails, main logs that and exits. *)
Listen ==
  /\ At(pc) /\ pc \in {"listen1", "listen2"}
  /\ \/ /\ fds' = Open(fds, "listen")
        /\ Goto(IF pc = "listen1" THEN "listen2" ELSE "serve")
     \/ Goto("log3") /\ UNCHANGED fds
  /\ UNCHANGED <<args, logger, i, log, signals, handlers, shell, proc, nulled, trespass>>

(* Mutant: the server logs its clients. *)
ServeLogged ==
  /\ At("serve")
  /\ lock' = IF lock = "none" THEN "main" ELSE "none"
  /\ UNCHANGED <<args, logger, pc, i, fds, logfd, signals, handlers, shell, proc, nulled, trespass>>

(* event_dispatch: clients come and go. *)
Serve ==
  /\ At("serve")
  /\ \/ /\ Cardinality({n \in Numbers : fds[n] = "client"}) < MaxClients
        /\ fds' = Open(fds, "client")
     \/ \E n \in Numbers : fds[n] = "client" /\ fds' = Close(fds, n)
  /\ UNCHANGED <<args, logger, pc, i, log, signals, handlers, shell, proc, nulled, trespass>>

-----------------------------------------------------------------------------
(* Signals.                                                                 *)

Top == stack[Len(stack)]

(* A caught signal interrupts whatever runs, except its own handler. *)
Deliver(s) ==
  /\ proc = "runs" /\ handlers /\ ~Contains(stack, s)
  /\ IF s = "hup" THEN hups < MaxHup /\ hups' = hups + 1 /\ UNCHANGED term
     ELSE /\ term = "no" /\ UNCHANGED hups
          /\ term' = IF pc = "serve" THEN "serving" ELSE "early"
  /\ stack' = Append(stack, s)
  /\ UNCHANGED <<args, logger, pc, i, fds, log, handlers, shell, proc, nulled, trespass>>

(* A signal that is not caught, before daemonize or in the foreground. *)
Kill ==
  /\ proc = "runs" /\ ~handlers
  /\ \/ hups < MaxHup /\ hups' = hups + 1 /\ UNCHANGED term
     \/ /\ term = "no" /\ UNCHANGED hups
        /\ term' = IF pc = "serve" THEN "serving" ELSE "early"
  /\ Exit("killed")
  /\ UNCHANGED <<args, logger, pc, i, fds, log, stack, handlers, nulled, trespass>>

(* signal_handler: syslog waits for ever if main, or the other handler, is   *)
(* inside of it;                                                              *)
HandlerLog ==
  /\ proc = "runs" /\ stack # <<>> /\ lock # Top
  /\ IF lock = "none"
     THEN lock' = Top /\ Send /\ UNCHANGED proc
     ELSE proc' = "stuck" /\ UNCHANGED <<log, fds, trespass>>
  /\ UNCHANGED <<args, logger, pc, i, signals, handlers, shell, nulled>>

(* then SIGHUP's handler returns and SIGTERM's exits. *)
HandlerDone ==
  /\ proc = "runs" /\ stack # <<>> /\ lock = Top
  /\ lock' = "none"
  /\ IF Top = "hup"
     THEN stack' = Front(stack) /\ UNCHANGED <<shell, proc>>
     ELSE Exit("0") /\ UNCHANGED stack
  /\ UNCHANGED <<args, logger, pc, i, fds, logfd, hups, term, handlers, nulled, trespass>>

signal_handler == HandlerLog \/ HandlerDone

-----------------------------------------------------------------------------

daemonize == Fork1 \/ Signal \/ Fork2 \/ CloseAll \/ OpenNull \/ DupAll \/ CloseNull
start_server == EventInit \/ Listen \/ Serve

Next ==
  \/ Options \/ SyslogEnter \/ SyslogLeave \/ daemonize \/ start_server
  \/ Deliver("hup") \/ Deliver("term") \/ Kill \/ signal_handler

Spec == Init /\ [][Next]_vars

-----------------------------------------------------------------------------

(* What the handlers of the server print to stdout and stderr never goes to  *)
(* a client or into a listening socket, although daemonize leaves 0 closed:  *)
(* something else always takes the low numbers first.                         *)
SocketsAboveStdio == nulled => \A n \in 0..2 : fds[n] \notin {"listen", "client"}

(* syslog never sends on a descriptor of the server, and never closes one,   *)
(* although the loop that closes all descriptors does not tell it: it finds   *)
(* out in main, before the server opens its own.                              *)
LogKeepsToItself == ~trespass

(* SIGTERM alone never hangs a server that serves: that takes a SIGHUP whose *)
(* handler it interrupts, or that interrupts its own.                          *)
StuckNeedsHangup == proc = "stuck" /\ term = "serving" => hups > 0
=============================================================================
