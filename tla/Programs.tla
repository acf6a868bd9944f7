-------------------------------- MODULE Programs --------------------------------
(***************************************************************************)
(* The smaller programs of the repository, one of which runs: SigwaitMain, *)
(* TimerLoop, SocketHelpers, TcpClient, UdpEcho and TermScanner.  They     *)
(* share nothing; the variables of those that do not run keep their initial *)
(* values.  SigwaitMain and TimerLoop both have main and cancel, which are    *)
(* the same variables here.                                                    *)
(***************************************************************************)
EXTENDS Integers, Sequences, FiniteSets

CONSTANTS
  Sleeps, External,                              \* SigwaitMain
  MaxTicks, Debug, MaySigint,                    \* TimerLoop
  ClientTyped, BufLen, RecvSize, SndBuf, ClientMaxTyped, MaxShort,  \* TcpClient
  Senders, SenderTyped, SenderMaxTyped, MaxDup, MayHurt, Receiver, Stranger, \* UdpEcho
  BufSize, MaxTokens, MaxReceived                \* TermScanner

ProgramsAssumption ==
  /\ Sleeps \in Nat /\ External \subseteq {"HUP", "INT", "USR1", "USR2"}
  /\ MaxTicks \in Nat /\ {Debug, MaySigint, MayHurt} \subseteq BOOLEAN
  /\ {BufLen, RecvSize, SndBuf} \subseteq Nat \ {0}
  /\ ClientTyped \subseteq Seq(STRING)
  /\ \A line \in ClientTyped : \A k \in 1..Len(line) : line[k] # "nl"
  /\ BufLen + 2 < RecvSize
  /\ {ClientMaxTyped, MaxShort, SenderMaxTyped, MaxDup} \subseteq Nat
  /\ Receiver \notin Senders /\ Stranger \notin Senders \cup {Receiver}
  /\ SenderTyped \subseteq Seq(STRING) \ {<<>>}
  /\ BufSize \in Nat /\ BufSize > 3 /\ MaxTokens \in Nat \ {0} /\ MaxReceived \in Nat

ASSUME ProgramsAssumption

VARIABLES
  program,   \* the program that runs
  main, cancel,                                                  \* of both threads
  worker, i, pending, out, ret,                                  \* SigwaitMain
  thread, lateCancel, loopBreak, sigint, armed, base, ticks, badUse,  \* TimerLoop
  helper, at, soc, info, result, wild,                           \* SocketHelpers
  kind, client, csoc, tty, frame, toServer, toClient, held, in,
  server, typed, sent, heard, shorts, spoilt,                            \* TcpClient
  net, status, rsoc, ssoc, said, shown, reads, dups, told, hurt, \* UdpEcho
  debug, portLoop, scanning, buf, count, display, received         \* TermScanner

Sigwait == INSTANCE SigwaitMain
Timer == INSTANCE TimerLoop
Helpers == INSTANCE SocketHelpers
Client == INSTANCE TcpClient WITH
  Typed <- ClientTyped, MaxTyped <- ClientMaxTyped, soc <- csoc
Udp == INSTANCE UdpEcho WITH
  Typed <- SenderTyped, MaxTyped <- SenderMaxTyped, typed <- reads
Term == INSTANCE TermScanner

sigwait == <<worker, i, pending, out, ret>>
timer == <<thread, lateCancel, loopBreak, sigint, armed, base, ticks, badUse>>
threads == <<main, cancel, sigwait, timer>>
helpers == <<helper, at, soc, info, result, wild>>
tcp == <<kind, client, csoc, tty, frame, toServer, toClient, held, in,
         server, typed, sent, heard, shorts, spoilt>>
udp == <<net, status, rsoc, ssoc, said, shown, reads, dups, told, hurt>>
term == <<debug, portLoop, scanning, buf, count, display, received>>
vars == <<program, threads, helpers, tcp, udp, term>>

Init ==
  /\ program \in {"sigwait", "timer", "helpers", "client", "udp", "term"}
  /\ Sigwait!Init /\ Timer!Init /\ Udp!Init
  /\ Helpers!Init /\ (program # "helpers" => helper = "server_socket")
  /\ Client!Init /\ (program # "client" => kind = "daemon")
  /\ Term!Init /\ (program # "term" => ~debug)

SigwaitRuns == program = "sigwait" /\ UNCHANGED <<program, timer, helpers, tcp, udp, term>>
TimerRuns == program = "timer" /\ UNCHANGED <<program, sigwait, helpers, tcp, udp, term>>
HelperRuns == program = "helpers" /\ UNCHANGED <<program, threads, tcp, udp, term>>
ClientRuns == program = "client" /\ UNCHANGED <<program, threads, helpers, udp, term>>
UdpRuns == program = "udp" /\ UNCHANGED <<program, threads, helpers, tcp, term>>
TermRuns == program = "term" /\ UNCHANGED <<program, threads, helpers, tcp, udp>>

Next ==
  \/ SigwaitRuns /\ Sigwait!Next
  \/ TimerRuns /\ Timer!Next
  \/ HelperRuns /\ Helpers!Next
  \/ ClientRuns /\ Client!Next
  \/ UdpRuns /\ Udp!Next
  \/ TermRuns /\ Term!Next

Spec == Init /\ [][Next]_vars

(* The threads of both programs run on, and the loop of a client serves what *)
(* is typed.                                                                   *)
Fairness ==
  /\ WF_vars(SigwaitRuns /\ Sigwait!Main) /\ WF_vars(SigwaitRuns /\ Sigwait!main_thread)
  /\ WF_vars(TimerRuns /\ Timer!Main) /\ WF_vars(TimerRuns /\ Timer!thread_func)
  /\ WF_vars(ClientRuns /\ Client!Handles)

FairSpec == Spec /\ Fairness

-----------------------------------------------------------------------------

(* However the program of thread/ ends, by itself or by one of the four       *)
(* signals, it leaves a complete output or none: the signals are blocked       *)
(* before the output is opened.                                                *)
NoHalfOutput == Sigwait!NoHalfOutput

(* The thread of timer/ touches the event base after main freed it only if a *)
(* SIGINT broke the loop in the instants between the end of its sleep and its  *)
(* own loopbreak.                                                              *)
UseAfterFreeNeedsLateSigint == Timer!UseAfterFreeNeedsLateSigint

(* Whichever call of a socket helper fails, it leaves nothing behind, except *)
(* for the sender, whose first three calls do not clean up.                    *)
NothingLeftBehind == Helpers!NothingLeftBehind

(* A patient user of daemon/client is shown the answer to each line typed.   *)
PatientUserHearsAnswers == Client!PatientUserHearsAnswers

(* The lines typed into network/client reach the server whole and in order,  *)
(* with ends of earlier, longer lines between them.                            *)
TypedLinesArrive == Client!TypedLinesArrive

(* The UDP receiver serves, and the senders hear their own answers, whatever *)
(* the network does short of empty datagrams.                                  *)
HealthyService == Udp!HealthyService

(* However the reads cut what the port sends, myterm shows what one scan of  *)
(* it would, all but its last two bytes, and has room to read on.              *)
AllButTwoShown == Term!AllButTwoShown

(* Whatever signals come, or none, the two threaded programs end: the worker *)
(* raises a signal, the thread breaks the loop.  Only the program of timer/    *)
(* may run on, when its thread broke the loop before it was entered and no     *)
(* SIGINT is there to break it again.  A client whose connection is gone ends   *)
(* with what is typed: daemon/client with the line whose send fails,            *)
(* network/client, which outlives a send that fails, with the SIGPIPE of the    *)
(* send after it.                                                               *)
ProgramEnds ==
  /\ <>(\/ main \in {"exited", "killed"}
        \/ program = "timer" /\ Timer!BreakLost /\ ~sigint
        \/ program \notin {"sigwait", "timer"})
  /\ (Client!Knows /\ tty # <<>>) ~> (client # "running")
=============================================================================
