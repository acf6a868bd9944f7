------------------------------ MODULE TimerLoop ------------------------------
(***************************************************************************)
(* The program of timer/main.c: main runs a libevent loop with a SIGINT    *)
(* handler and a persistent timer; a thread sleeps, breaks the loop and     *)
(* exits.  The SIGINT handler cancels the thread and breaks the loop        *)
(* itself.  After the loop main cancels the thread again, joins it only if  *)
(* pthread_cancel fails, and frees the event base.                          *)
(***************************************************************************)
EXTENDS Integers

CONSTANTS
  MaxTicks,    \* bound: how often the timer fires
  Debug,       \* the option -d: the thread prints before it breaks the loop
  MaySigint    \* a SIGINT may come

VARIABLES
  main,        \* "start" (before pthread_create), "setup", "looping",
               \* "cancelling", "freeing", "exited" or "killed"
  thread,      \* "none", "asleep", "awake", "broke" (called loopbreak),
               \* "ended" or "cancelled"
  cancel,      \* a pthread_cancel that has not taken effect
  lateCancel,  \* history: the SIGINT handler cancelled a thread past its sleep
  loopBreak,   \* event_base's break flag
  sigint,      \* the SIGINT is pending for the loop
  armed,       \* the SIGINT handler is installed
  base,        \* the event base: "live" or "freed"
  ticks,       \* how often the timer fired
  badUse       \* history: the base was used after it was freed

vars == <<main, thread, cancel, lateCancel, loopBreak, sigint, armed, base,
          ticks, badUse>>

Init ==
  /\ main = "start" /\ thread = "none"
  /\ cancel = FALSE /\ lateCancel = FALSE
  /\ loopBreak = FALSE /\ sigint = FALSE /\ armed = FALSE
  /\ base = "live" /\ ticks = 0 /\ badUse = FALSE

Ended == main \in {"exited", "killed"}

(* SIGINT reaches libevent once the handler is added, or ends the process. *)
Sigint ==
  /\ MaySigint /\ ~Ended
  /\ IF armed THEN sigint' = TRUE /\ UNCHANGED main
              ELSE main' = "killed" /\ UNCHANGED sigint
  /\ UNCHANGED <<thread, cancel, lateCancel, loopBreak, armed, base, ticks, badUse>>

Create ==
  /\ main = "start" /\ main' = "setup" /\ thread' = "asleep"
  /\ UNCHANGED <<cancel, lateCancel, loopBreak, sigint, armed, base, ticks, badUse>>

AddEvents ==
  /\ main = "setup" /\ ~armed /\ armed' = TRUE
  /\ UNCHANGED <<main, thread, cancel, lateCancel, loopBreak, sigint, base, ticks, badUse>>

(* event_base_dispatch clears the break flag when it starts. *)
Dispatch ==
  /\ main = "setup" /\ armed
  /\ main' = "looping" /\ loopBreak' = FALSE
  /\ UNCHANGED <<thread, cancel, lateCancel, sigint, armed, base, ticks, badUse>>

timer_handler ==
  /\ main = "looping" /\ ~loopBreak /\ ticks < MaxTicks
  /\ ticks' = ticks + 1
  /\ UNCHANGED <<main, thread, cancel, lateCancel, loopBreak, sigint, armed, base, badUse>>

Cancellable == thread \in {"asleep", "awake", "broke"}

(* Mutant: the handler breaks the loop without cancelling the thread. *)
sigint_handler_no_cancel ==
  /\ main = "looping" /\ ~loopBreak /\ sigint
  /\ sigint' = FALSE /\ loopBreak' = TRUE
  /\ lateCancel' = (lateCancel \/ thread \in {"awake", "broke"})
  /\ UNCHANGED <<main, thread, cancel, armed, base, ticks, badUse>>

sigint_handler ==
  /\ main = "looping" /\ ~loopBreak /\ sigint
  /\ sigint' = FALSE /\ loopBreak' = TRUE
  /\ cancel' = (cancel \/ Cancellable)
  /\ lateCancel' = (lateCancel \/ thread \in {"awake", "broke"})
  /\ UNCHANGED <<main, thread, armed, base, ticks, badUse>>

LoopEnds ==
  /\ main = "looping" /\ loopBreak
  /\ main' = "cancelling"
  /\ UNCHANGED <<thread, cancel, lateCancel, loopBreak, sigint, armed, base, ticks, badUse>>

(* pthread_cancel succeeds on a thread that nobody has joined, ended or not; *)
(* main joins only a thread it could not cancel.                              *)
Cancel ==
  /\ main = "cancelling"
  /\ cancel' = (cancel \/ Cancellable)
  /\ main' = "freeing"
  /\ UNCHANGED <<thread, lateCancel, loopBreak, sigint, armed, base, ticks, badUse>>

(* event_free and event_base_free. *)
Free ==
  /\ main = "freeing" /\ base = "live"
  /\ base' = "freed"
  /\ armed' = FALSE
  /\ UNCHANGED <<main, thread, cancel, lateCancel, loopBreak, sigint, ticks, badUse>>

(* Returning from main ends the thread too. *)
Exit ==
  /\ main = "freeing" /\ base = "freed"
  /\ main' = "exited"
  /\ UNCHANGED <<thread, cancel, lateCancel, loopBreak, sigint, armed, base, ticks, badUse>>

(* sleep returns, unless a cancellation reaches the thread in it first.  Main *)
(* may not have entered its loop by then.                                      *)
Wake ==
  /\ ~Ended /\ thread = "asleep" /\ ~cancel
  /\ thread' = "awake"
  /\ UNCHANGED <<main, cancel, lateCancel, loopBreak, sigint, armed, base, ticks, badUse>>

(* A cancellation takes effect in sleep, and in the printing behind it: with  *)
(* -d before the loopbreak, always after it.                                   *)
Cancelled ==
  /\ ~Ended /\ cancel
  /\ \/ thread \in {"asleep", "broke"}
     \/ thread = "awake" /\ Debug
  /\ thread' = "cancelled" /\ cancel' = FALSE
  /\ UNCHANGED <<main, lateCancel, loopBreak, sigint, armed, base, ticks, badUse>>

(* event_base_loopbreak, on whatever the base is by now. *)
BreakLoop ==
  /\ ~Ended /\ thread = "awake"
  /\ thread' = "broke"
  /\ IF base = "live" THEN loopBreak' = TRUE /\ UNCHANGED badUse
                      ELSE badUse' = TRUE /\ UNCHANGED loopBreak
  /\ UNCHANGED <<main, cancel, lateCancel, sigint, armed, base, ticks>>

ThreadExit ==
  /\ ~Ended /\ thread = "broke"
  /\ thread' = "ended" /\ cancel' = FALSE
  /\ UNCHANGED <<main, lateCancel, loopBreak, sigint, armed, base, ticks, badUse>>

Main ==
  \/ Create \/ AddEvents \/ Dispatch
  \/ sigint_handler \/ LoopEnds \/ Cancel \/ Free \/ Exit
thread_func == Wake \/ Cancelled \/ BreakLoop \/ ThreadExit

Next == Main \/ timer_handler \/ thread_func \/ Sigint

-----------------------------------------------------------------------------

(* The thread touches the event base after main freed it only if a SIGINT    *)
(* broke the loop in the instants between the end of its sleep and its own    *)
(* loopbreak.                                                                  *)
UseAfterFreeNeedsLateSigint == badUse => lateCancel

(* The thread broke the loop before main entered it: event_base_dispatch      *)
(* cleared the break, and only a SIGINT ends the loop now.                     *)
BreakLost == main = "looping" /\ thread \in {"broke", "ended"} /\ ~loopBreak

=============================================================================
