----------------------------- MODULE SigwaitMain -----------------------------
(***************************************************************************)
(* The main program and the worker of thread/ (mythread/main.c and         *)
(* libmythread/mythread.c; sigwait/main.c is the same program in one file). *)
(* Main blocks four signals, opens the output, starts the worker, waits for *)
(* one signal with sigwait and joins.  SIGHUP and SIGINT cancel the worker, *)
(* which otherwise raises SIGUSR1 when it is done.  A worker that was       *)
(* cancelled makes main remove the output.                                  *)
(***************************************************************************)
EXTENDS Integers, FiniteSets

CONSTANTS
  Sleeps,    \* how often the worker sleeps
  External   \* the signals others may send to the process

(* The signals that end a process that has not blocked them. *)
Deadly == {"HUP", "INT", "USR1", "USR2"}

VARIABLES
  main,      \* main's place: "start", "masked", "opened", "waiting", "joining",
             \* "joined" or "exited"; "killed" by a signal's default action
  worker,    \* "none", "running", "ended" or "cancelled"
  i,         \* the worker's loop counter; Sleeps + 1 once it has raised SIGUSR1
  cancel,    \* pthread_cancel was called and has not taken effect
  pending,   \* the signals pending for the process
  out,       \* the output: "absent", "partial" (opened), "complete" (closed)
  ret        \* main's exit status: -1 is PTHREAD_CANCELED

vars == <<main, worker, i, cancel, pending, out, ret>>

Init ==
  /\ main = "start" /\ worker = "none" /\ i = 0
  /\ cancel = FALSE /\ pending = {}
  /\ out = "absent" /\ ret = 0

Ended == main \in {"exited", "killed"}

(* Mutant: SIGUSR2 is missing from the array. *)
NoUsr2 == {"HUP", "INT", "USR1"}

(* The array signals: what main blocks, and what it waits for. *)
signals == {"HUP", "INT", "USR1", "USR2"}

(* The default action of a signal that is not blocked ends the process; a    *)
(* blocked one stays pending, once, until sigwait takes it.                  *)
Signal(s) ==
  /\ ~Ended
  /\ IF main = "start" \/ s \notin signals THEN main' = "killed" /\ UNCHANGED pending
     ELSE pending' = pending \cup {s} /\ UNCHANGED main
  /\ UNCHANGED <<worker, i, cancel, out, ret>>

(* sigprocmask; the worker inherits the mask. *)
Mask ==
  /\ main = "start" /\ main' = "masked"
  /\ UNCHANGED <<worker, i, cancel, pending, out, ret>>

Open ==
  /\ main = "masked" /\ main' = "opened" /\ out' = "partial"
  /\ UNCHANGED <<worker, i, cancel, pending, ret>>

Create ==
  /\ main = "opened" /\ main' = "waiting" /\ worker' = "running"
  /\ UNCHANGED <<i, cancel, pending, out, ret>>

(* sigwait takes one pending signal; SIGHUP and SIGINT cancel the worker. *)
Sigwait(s) ==
  /\ main = "waiting" /\ s \in pending
  /\ pending' = pending \ {s}
  /\ cancel' = (s \in {"HUP", "INT"} /\ worker = "running")
  /\ main' = "joining"
  /\ UNCHANGED <<worker, i, out, ret>>

Join ==
  /\ main = "joining" /\ worker \in {"ended", "cancelled"}
  /\ ret' = IF worker = "cancelled" THEN -1 ELSE 0
  /\ main' = "joined"
  /\ UNCHANGED <<worker, i, cancel, pending, out>>

(* The last line, fclose, and remove if the worker did not end by itself. *)
Finish ==
  /\ main = "joined" /\ main' = "exited"
  /\ out' = IF ret = 0 THEN "complete" ELSE "absent"
  /\ UNCHANGED <<worker, i, cancel, pending, ret>>

(* main_thread: each sleep is a point where a cancellation takes effect, and *)
(* so may the output between them be.                                         *)
Sleep ==
  /\ worker = "running" /\ ~Ended /\ i < Sleeps
  /\ i' = i + 1
  /\ UNCHANGED <<main, worker, cancel, pending, out, ret>>

Cancelled ==
  /\ worker = "running" /\ ~Ended /\ cancel /\ i <= Sleeps
  /\ worker' = "cancelled" /\ cancel' = FALSE
  /\ UNCHANGED <<main, i, pending, out, ret>>

(* Mutant: the worker does not raise the signal. *)
RaiseNothing ==
  /\ worker = "running" /\ ~Ended /\ i = Sleeps
  /\ i' = Sleeps + 1
  /\ UNCHANGED <<main, worker, cancel, pending, out, ret>>

(* The worker is done and raises SIGUSR1 for the process. *)
Raise ==
  /\ worker = "running" /\ ~Ended /\ i = Sleeps
  /\ i' = Sleeps + 1
  /\ pending' = pending \cup {"USR1"}
  /\ UNCHANGED <<main, worker, cancel, out, ret>>

Exit ==
  /\ worker = "running" /\ ~Ended /\ i = Sleeps + 1
  /\ worker' = "ended" /\ cancel' = FALSE
  /\ UNCHANGED <<main, i, pending, out, ret>>

Main == Mask \/ Open \/ Create \/ (\E s \in signals : Sigwait(s)) \/ Join \/ Finish
main_thread == Sleep \/ Cancelled \/ Raise \/ Exit

Next == Main \/ main_thread \/ \E s \in External : Signal(s)

-----------------------------------------------------------------------------

(* However the process ends, by itself or by one of the four signals, it     *)
(* leaves a complete output or none: the signals are blocked before the      *)
(* output is opened.                                                          *)
NoHalfOutput == Ended => out # "partial"

=============================================================================
