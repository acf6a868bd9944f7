----------------------------- MODULE Rot13Accept -----------------------------
(***************************************************************************)
(* The connections of the rot13 server together, libevent/rot13/main.c:    *)
(* what they share is the event loop, which runs one handler at a time, and *)
(* the table of descriptors, to which free_fd_state gives nothing back.      *)
(* What a connection does with its bytes is Rot13Conn; here a connection has *)
(* input waiting or not, and released output waiting or not.                 *)
(***************************************************************************)
EXTENDS Integers, Sequences, FiniteSets

CONSTANTS
  Conns,         \* the clients, each of which connects once
  FD_SETSIZE,
  Limits,        \* values of RLIMIT_NOFILE: descriptors are below it
  FirstFd,       \* the lowest descriptor that is free when the loop starts
  AllocMayFail,  \* malloc and event_new may fail
  NoConn

AcceptAssumption ==
  /\ NoConn \notin Conns /\ IsFiniteSet(Conns)
  /\ FD_SETSIZE \in Nat /\ Limits \subseteq Nat
  /\ FirstFd \in Nat /\ FirstFd <= FD_SETSIZE
  /\ \A l \in Limits : FirstFd <= l   \* those below it were opened
  /\ AllocMayFail \in BOOLEAN

VARIABLES
  rlimit,    \* RLIMIT_NOFILE, fixed when the program starts
  server,    \* "running", "aborted" (assert) or "killed" (SIGPIPE)
  cur, step, \* the handler that runs: its connection, and "idle", "read", "write"
  backlog,   \* the connections accept has not returned, oldest first
  link,      \* link[c]: "new", "backlog", "up" (it has an fd_state), "over"
             \* (the fd_state is freed) or "refused" (closed by do_accept)
  fd,        \* fd[c]: the open descriptor of c, -1 if it has none
  peer,      \* the client's end: "open", "fin", "reset", "finreset" (both)
  input,     \* input[c]: bytes wait in the socket
  output     \* output[c]: released bytes wait in the fd_state

client == <<backlog, link, fd>>
vars == <<rlimit, server, cur, step, client, peer, input, output>>

Init ==
  /\ rlimit \in Limits
  /\ server = "running" /\ cur = NoConn /\ step = "idle" /\ backlog = <<>>
  /\ link = [c \in Conns |-> "new"] /\ fd = [c \in Conns |-> -1]
  /\ peer = [c \in Conns |-> "open"]
  /\ input = [c \in Conns |-> FALSE] /\ output = [c \in Conns |-> FALSE]

Running == server = "running"
Gone(c) == peer[c] \in {"reset", "finreset"}

-----------------------------------------------------------------------------
(* Clients and the network (external).                                      *)

Connect(c) ==
  /\ Running /\ link[c] = "new"
  /\ link' = [link EXCEPT ![c] = "backlog"]
  /\ backlog' = Append(backlog, c)
  /\ UNCHANGED <<rlimit, server, cur, step, fd, peer, input, output>>

ClientSend(c) ==
  /\ link[c] \in {"backlog", "up"} /\ peer[c] = "open" /\ ~input[c]
  /\ input' = [input EXCEPT ![c] = TRUE]
  /\ UNCHANGED <<rlimit, server, cur, step, client, peer, output>>

(* shutdown or close, and the reset of an end that is closed altogether. *)
ClientFin(c) ==
  /\ link[c] \in {"backlog", "up"} /\ peer[c] = "open"
  /\ peer' = [peer EXCEPT ![c] = "fin"]
  /\ UNCHANGED <<rlimit, server, cur, step, client, input, output>>

ClientReset(c) ==
  /\ link[c] \in {"backlog", "up"} /\ ~Gone(c)
  /\ peer' = [peer EXCEPT ![c] = IF @ = "open" THEN "reset" ELSE "finreset"]
  /\ input' = [input EXCEPT ![c] = FALSE]
  /\ UNCHANGED <<rlimit, server, cur, step, client, output>>

-----------------------------------------------------------------------------
(* do_accept                                                                *)

Open == {fd[c] : c \in Conns} \ {-1}
FreeFds == {n \in FirstFd..(rlimit - 1) : n \notin Open}
NewFd == CHOOSE n \in FreeFds : \A m \in FreeFds : n <= m

Accepting ==
  /\ Running /\ step = "idle" /\ backlog # <<>> /\ FreeFds # {}
  /\ backlog' = Tail(backlog)

(* The listener stays ready after a failed accept: the loop comes back here  *)
(* in every round, and goes on serving the others.                            *)
AcceptFails ==
  /\ Running /\ step = "idle" /\ backlog # <<>> /\ FreeFds = {}
  /\ UNCHANGED vars

AcceptCloses ==
  /\ Accepting /\ NewFd > FD_SETSIZE
  /\ link' = [link EXCEPT ![Head(backlog)] = "refused"]
  /\ UNCHANGED <<rlimit, server, cur, step, fd, peer, input, output>>

(* Mutant: no test of the descriptor. *)
AcceptOpensAny ==
  /\ Accepting
  /\ fd' = [fd EXCEPT ![Head(backlog)] = NewFd]
  /\ link' = [link EXCEPT ![Head(backlog)] = "up"]
  /\ \/ UNCHANGED server
     \/ AllocMayFail /\ server' = "aborted"
  /\ UNCHANGED <<rlimit, cur, step, peer, input, output>>

(* The assertion is there when the fd_state could not be allocated. *)
AcceptOpens ==
  /\ Accepting /\ NewFd <= FD_SETSIZE
  /\ fd' = [fd EXCEPT ![Head(backlog)] = NewFd]
  /\ link' = [link EXCEPT ![Head(backlog)] = "up"]
  /\ \/ UNCHANGED server
     \/ AllocMayFail /\ server' = "aborted"
  /\ UNCHANGED <<rlimit, cur, step, peer, input, output>>

do_accept == AcceptFails \/ AcceptCloses \/ AcceptOpens

-----------------------------------------------------------------------------
(* do_read and do_write.                                                    *)

Return == cur' = NoConn /\ step' = "idle"

(* Mutant of free_fd_state: nothing is freed. *)
free_fd_state_not(c) == UNCHANGED <<link, fd, output>>

(* The events and the buffer go.  The descriptor stays open. *)
free_fd_state(c) ==
  /\ link' = [link EXCEPT ![c] = "over"]
  /\ output' = [output EXCEPT ![c] = FALSE]
  /\ UNCHANGED fd

StartRead(c) ==
  /\ Running /\ step = "idle" /\ link[c] = "up"
  /\ input[c] \/ peer[c] # "open"
  /\ cur' = c /\ step' = "read"
  /\ UNCHANGED <<rlimit, server, client, peer, input, output>>

(* recv returns bytes, with a newline among them or not, and is called again. *)
RecvSome ==
  /\ Running /\ step = "read" /\ input[cur]
  /\ input' = [input EXCEPT ![cur] = FALSE]
  /\ \/ output' = [output EXCEPT ![cur] = TRUE]
     \/ UNCHANGED output
  /\ UNCHANGED <<rlimit, server, cur, step, client, peer>>

RecvAgain ==
  /\ Running /\ step = "read" /\ ~input[cur] /\ peer[cur] = "open"
  /\ Return
  /\ UNCHANGED <<rlimit, server, client, peer, input, output>>

RecvEnd ==
  /\ Running /\ step = "read" /\ ~input[cur] /\ peer[cur] # "open"
  /\ free_fd_state(cur) /\ Return
  /\ UNCHANGED <<rlimit, server, backlog, peer, input>>

StartWrite(c) ==
  /\ Running /\ step = "idle" /\ link[c] = "up" /\ output[c]
  /\ cur' = c /\ step' = "write"
  /\ UNCHANGED <<rlimit, server, client, peer, input, output>>

(* send takes a part, and is called again. *)
SendPart ==
  /\ Running /\ step = "write" /\ ~Gone(cur)
  /\ UNCHANGED vars

(* send takes the rest and the write event goes, or takes nothing. *)
SendDone ==
  /\ Running /\ step = "write" /\ ~Gone(cur)
  /\ output' = [output EXCEPT ![cur] = FALSE] /\ Return
  /\ UNCHANGED <<rlimit, server, client, peer, input>>

SendAgain ==
  /\ Running /\ step = "write" /\ ~Gone(cur)
  /\ Return
  /\ UNCHANGED <<rlimit, server, client, peer, input, output>>

(* After a reset send fails with ECONNRESET; if the end of the input came     *)
(* before the reset it fails with EPIPE, and nothing ignores SIGPIPE.         *)
SendError ==
  /\ Running /\ step = "write" /\ peer[cur] = "reset"
  /\ free_fd_state(cur) /\ Return
  /\ UNCHANGED <<rlimit, server, backlog, peer, input>>

SendSigpipe ==
  /\ Running /\ step = "write" /\ peer[cur] = "finreset"
  /\ server' = "killed"
  /\ UNCHANGED <<rlimit, cur, step, client, peer, input, output>>

do_read == RecvSome \/ RecvAgain \/ RecvEnd
do_write == SendPart \/ SendDone \/ SendAgain \/ SendError \/ SendSigpipe

Next ==
  \/ \E c \in Conns : Connect(c) \/ ClientSend(c) \/ ClientFin(c) \/ ClientReset(c)
  \/ do_accept
  \/ \E c \in Conns : StartRead(c) \/ StartWrite(c)
  \/ do_read \/ do_write

-----------------------------------------------------------------------------

(* do_read goes on as long as recv finds something: one client that sends    *)
(* without pause has the server for itself.                                   *)
Flooded == <>[](step = "read")

(* As free_fd_state keeps the descriptor, the server serves no more clients  *)
(* in its whole life than it may have descriptors (or FD_SETSIZE, and the one *)
(* that `fd > FD_SETSIZE' lets through), however many of them have left.      *)
ServedInLifetime ==
  LET last == IF rlimit <= FD_SETSIZE THEN rlimit - 1 ELSE FD_SETSIZE
  IN  Cardinality({c \in Conns : link[c] \in {"up", "over"}}) <= last - FirstFd + 1

(* A client is waiting for the server when it is in the backlog and there    *)
(* are descriptors, or when it has left and has its fd_state still.           *)
Waiting(c) ==
  /\ Running
  /\ \/ link[c] = "backlog" /\ FreeFds # {}
     \/ link[c] = "up" /\ peer[c] # "open"

(* No client waits for ever, also while accept fails in every round for want *)
(* of a descriptor, unless another floods the server.                         *)
EveryClientHandled == Flooded \/ \A c \in Conns : []<>~Waiting(c)
=============================================================================
