------------------------------ MODULE EchoServers ------------------------------
(***************************************************************************)
(* The servers on libevent that send back what they are sent, one of which *)
(* runs: the rot13 server across its connections (Rot13Accept), the line    *)
(* server of network/server (LineServer) and the reversing server of         *)
(* libevent/server (ReverseEcho).  They share nothing; the variables of those *)
(* that do not run keep their initial values.                                  *)
(***************************************************************************)
EXTENDS Integers, Sequences, FiniteSets

CONSTANTS
  Servers,                                             \* those that may run
  FD_SETSIZE, SndBuf,
  Conns, Limits, FirstFd, AllocMayFail, NoConn,        \* Rot13Accept
  Clients, LineBytes, MAX_LINE, FdLimit, LineMaxBytes, \* LineServer
  Letters, SIZE, MaxBytes                              \* ReverseEcho

VARIABLES
  program,  \* the server that runs
  rlimit, server, cur, step, backlog, link, fd, peer, input, output,    \* Rot13Accept
  srv, console, lineFd, in, out, lineLink, linePeer, inq, outq,
  lineInput, took, gave, got,                                           \* LineServer
  conn, state, rin, rout, rinq, routq, rpeer, sent, rgot, piece, reply  \* ReverseEcho

Accept == INSTANCE Rot13Accept
Line == INSTANCE LineServer WITH
  Bytes <- LineBytes, MaxBytes <- LineMaxBytes, fd <- lineFd,
  link <- lineLink, peer <- linePeer, input <- lineInput
Reverse == INSTANCE ReverseEcho WITH
  server <- state, in <- rin, out <- rout, inq <- rinq, outq <- routq,
  peer <- rpeer, got <- rgot

EchoServersAssumption ==
  /\ Servers \subseteq {"accept", "line", "reverse"}
  /\ Accept!AcceptAssumption /\ Line!LineServerAssumption /\ Reverse!ReverseEchoAssumption

ASSUME EchoServersAssumption

accept == <<rlimit, server, cur, step, backlog, link, fd, peer, input, output>>
line == <<srv, console, lineFd, in, out, lineLink, linePeer, inq, outq,
          lineInput, took, gave, got>>
reverse == <<conn, state, rin, rout, rinq, routq, rpeer, sent, rgot, piece, reply>>
vars == <<program, accept, line, reverse>>

Init ==
  /\ program \in Servers
  /\ Accept!Init /\ (program # "accept" => rlimit = CHOOSE l \in Limits : TRUE)
  /\ Line!Init /\ Reverse!Init

AcceptRuns == program = "accept" /\ UNCHANGED <<program, line, reverse>>
LineRuns == program = "line" /\ UNCHANGED <<program, accept, reverse>>
ReverseRuns == program = "reverse" /\ UNCHANGED <<program, accept, line>>

Next ==
  \/ AcceptRuns /\ Accept!Next
  \/ LineRuns /\ Line!Next
  \/ ReverseRuns /\ Reverse!Next

Spec == Init /\ [][Next]_vars

(* libevent serves every ready event before it polls again, and a handler    *)
(* runs on: do_write, once it runs, comes to an end.                          *)
AcceptFairness ==
  /\ SF_accept((Accept!AcceptCloses \/ Accept!AcceptOpens) /\ AcceptRuns)
  /\ \A c \in Conns : SF_accept(Accept!StartRead(c) /\ AcceptRuns)
  /\ WF_accept(Accept!do_read /\ AcceptRuns)
  /\ WF_accept((Accept!SendDone \/ Accept!SendAgain
                   \/ Accept!SendError \/ Accept!SendSigpipe) /\ AcceptRuns)

(* The loop serves every event that stays ready; a client reads what comes. *)
LineFairness ==
  /\ \A c \in Clients :
       /\ WF_line((\E n \in 1..MAX_LINE : Line!ReadEvent(c, n)) /\ LineRuns)
       /\ WF_line((\E n \in 1..SndBuf : Line!WriteEvent(c, n)) /\ LineRuns)
       /\ WF_line(Line!EndEvent(c) /\ LineRuns) /\ WF_line(Line!ClientRecv(c) /\ LineRuns)
  /\ WF_line(Line!LoopExit /\ LineRuns)

AcceptSpec == Spec /\ AcceptFairness
LineSpec == Spec /\ LineFairness

-----------------------------------------------------------------------------

(* As free_fd_state keeps the descriptor, the rot13 server serves no more    *)
(* clients in its whole life than it may have descriptors.                    *)
ServedInLifetime == Accept!ServedInLifetime

(* No client of the rot13 server waits for ever, also while accept fails in   *)
(* every round, unless another floods the server.                              *)
EveryClientHandled == Accept!EveryClientHandled

(* However the stream was cut into reads and writes, what the line server has *)
(* put out for a client is the echo of what it has read.                       *)
EchoOfWhatWasRead == Line!EchoOfWhatWasRead

(* A client of the line server that stays connected gets the echo of all it   *)
(* sent;                                                                       *)
EchoArrives == Line!EchoArrives

(* one that has shut down or closed its end is let go.                        *)
ClientLetGo == Line!ClientLetGo

(* read_cb of the reversing server answers a line with its letters reversed   *)
(* and what ended the line at its end.                                         *)
EchoIsReversed == Reverse!EchoIsReversed

(* It never leaves its buffer for a piece that leaves two bytes of it free.  *)
InsideWithTwoToSpare == Reverse!InsideWithTwoToSpare
=============================================================================
