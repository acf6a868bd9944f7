------------------------------ MODULE TcpServer ------------------------------
(***************************************************************************)
(* The TCP server of daemon/src (socket/server is the same program): a     *)
(* libevent loop with two listening sockets.  accept_handler gives every   *)
(* client of the service port a heap-allocated event whose handler,        *)
(* recv_handler, answers a request with its first line and ":OK";          *)
(* accept_cmd gives every client of port 9999 an event whose handler,      *)
(* receive_cmd, runs the request as a command and sends what it prints.    *)
(* Each handler frees its own event and closes its descriptor, and a       *)
(* request "shutdown" ends the loop.                                       *)
(*                                                                         *)
(* The sockets are blocking and the process has one thread, so a handler   *)
(* that waits in send or in fgets stops the whole server; handlers are     *)
(* therefore modelled call by call, `cur' being the connection whose       *)
(* handler runs.  The clients and the kernel act in between.               *)
(***************************************************************************)
EXTENDS Integers, Sequences, FiniteSets

CONSTANTS
  Plain,      \* clients of the service port
  Cmd,        \* clients of the command port
  BufSize,    \* sizeof(buf), in tokens
  SndBuf,     \* replies the kernel holds for a client that does not read
  FdLimit,    \* connections the process has descriptors for
  MaxOut,     \* bound: lines a command prints
  Worlds,     \* what clients and the system may do, in records of
              \* clients: those that come;
              \* requests: what one send may carry, non-empty sequences of tokens;
              \* maxReq: how often a client sends (a bound);
              \* polite: clients wait for the reply before they send or close;
              \* split: recv may return less than what was sent at once;
              \* allocMayFail: malloc, event_add and popen may fail
  NoConn

Conns == Plain \cup Cmd

ServerAssumption ==
  /\ Plain \cap Cmd = {} /\ NoConn \notin Conns
  /\ BufSize \in Nat \ {0} /\ SndBuf \in Nat \ {0} /\ FdLimit \in Nat
  /\ MaxOut \in Nat
  /\ \A w \in Worlds :
       /\ w.clients \subseteq Conns
       /\ w.requests \subseteq (Seq({"t", "nl", "shut", "down"}) \ {<<>>})
       /\ w.maxReq \in Nat
       /\ {w.polite, w.split, w.allocMayFail} \subseteq BOOLEAN

ASSUME ServerAssumption

VARIABLES
  world,     \* the member of Worlds this run is in
  srv,       \* "running", "exiting" (event_loopexit), "exited",
             \* "killed" (SIGPIPE) or "crashed" (invalid memory access)
  cur, step, \* the handler that runs: its connection, and the call it is at:
             \* "idle", "reply" (send), "cmd" (fgets) or "line" (send)
  buf,       \* that handler's buffer: the first line of what recv returned
  left,      \* receive_cmd: the lines the command has yet to print
  fd,        \* fd[c]: "none" or "open", the descriptor accept returned
  ev,        \* ev[c]: the heap event: "none", "added" or "freed"
  link,      \* link[c]: "new", "backlog" (connected, not accepted), "up"
  peer,      \* the client's end: "open", "fin" (closed), "rst" (reset), and
             \* "pipe" (closed and the server's side knows: EPIPE)
  inq,       \* inq[c]: tokens sent and not yet received
  outq,      \* outq[c]: replies sent and not yet read
  said,      \* history: said[c], the tokens client c has sent, one after the other
  reqs, replies,  \* history: what c sent at a time, and what it was answered
  asked,     \* history: a handler has read the request "shutdown"
  overrun,   \* history: buf[len] = '\0' wrote past the buffer
  corrupt,   \* history: an event was deleted and freed when already freed
  lost       \* history: connections whose accept could not get an event

handlers == <<cur, step, buf, left>>
kernel == <<link, peer, inq, outq>>
flags == <<asked, overrun, corrupt, lost>>
vars == <<world, srv, handlers, fd, ev, kernel, said, reqs, replies, flags>>

Init ==
  /\ world \in Worlds
  /\ srv = "running" /\ cur = NoConn /\ step = "idle" /\ buf = <<>> /\ left = 0
  /\ fd = [c \in Conns |-> "none"] /\ ev = [c \in Conns |-> "none"]
  /\ link = [c \in Conns |-> "new"] /\ peer = [c \in Conns |-> "open"]
  /\ inq = [c \in Conns |-> <<>>] /\ outq = [c \in Conns |-> <<>>]
  /\ said = [c \in Conns |-> <<>>]
  /\ reqs = [c \in Conns |-> <<>>] /\ replies = [c \in Conns |-> <<>>]
  /\ asked = FALSE /\ overrun = FALSE /\ corrupt = FALSE /\ lost = {}

Alive == srv \in {"running", "exiting"}
FreeFds == FdLimit - Cardinality({c \in Conns : fd[c] = "open"})

-----------------------------------------------------------------------------
(* Clients (external).                                                      *)

Waits(c) == world.polite => Len(replies[c]) = Len(reqs[c])

Connect(c) ==
  /\ Alive /\ link[c] = "new" /\ c \in world.clients
  /\ link' = [link EXCEPT ![c] = "backlog"]
  /\ UNCHANGED <<world, srv, handlers, fd, ev, peer, inq, outq, said, reqs, replies, flags>>

ClientSend(c, r) ==
  /\ link[c] # "new" /\ peer[c] = "open"
  /\ Len(reqs[c]) < world.maxReq /\ Waits(c)
  /\ inq' = [inq EXCEPT ![c] = @ \o r]
  /\ said' = [said EXCEPT ![c] = @ \o r]
  /\ reqs' = [reqs EXCEPT ![c] = Append(@, r)]
  /\ UNCHANGED <<world, srv, handlers, fd, ev, link, peer, outq, replies, flags>>

ClientRead(c) ==
  /\ peer[c] = "open" /\ outq[c] # <<>>
  /\ replies' = [replies EXCEPT ![c] = Append(@, Head(outq[c]))]
  /\ outq' = [outq EXCEPT ![c] = Tail(@)]
  /\ UNCHANGED <<world, srv, handlers, fd, ev, link, peer, inq, said, reqs, flags>>

(* close: the kernel resets the connection if replies were left unread. *)
ClientClose(c) ==
  /\ link[c] # "new" /\ peer[c] = "open" /\ Waits(c)
  /\ peer' = [peer EXCEPT ![c] = IF outq[c] = <<>> THEN "fin" ELSE "rst"]
  /\ outq' = [outq EXCEPT ![c] = <<>>]
  /\ UNCHANGED <<world, srv, handlers, fd, ev, link, inq, said, reqs, replies, flags>>

-----------------------------------------------------------------------------
(* Helpers of the handlers.                                                 *)

(* event_del, free and close of a live event, in this order. *)
DropConn(c) ==
  /\ ev' = [ev EXCEPT ![c] = "freed"]
  /\ fd' = [fd EXCEPT ![c] = "none"]

Return == cur' = NoConn /\ step' = "idle" /\ buf' = <<>> /\ left' = 0

(* What the handler makes of a chunk: strpbrk cuts it at the first newline. *)
FirstLine(s) ==
  LET ends == {k \in 1..Len(s) : s[k] = "nl"}
  IN  IF ends = {} THEN s
      ELSE SubSeq(s, 1, (CHOOSE k \in ends : \A m \in ends : k <= m) - 1)

(* How many tokens recv may return. *)
RecvSizes(c) ==
  LET most == IF Len(inq[c]) < BufSize THEN Len(inq[c]) ELSE BufSize
  IN  IF world.split THEN 1..most ELSE {most}

(* The outcome of send: the client's end takes it, blocks it (the call is    *)
(* not enabled), refuses it with an error, or the process gets SIGPIPE.      *)
CanTake(c) == \/ peer[c] = "open" /\ Len(outq[c]) < SndBuf
              \/ peer[c] = "fin"
Taken(c, reply) ==
  IF peer[c] = "open"
  THEN outq' = [outq EXCEPT ![c] = Append(@, reply)] /\ UNCHANGED peer
  ELSE /\ UNCHANGED outq
       /\ \E p \in {"fin", "pipe"} : peer' = [peer EXCEPT ![c] = p]

(* Nothing ignores SIGPIPE. *)
Sigpipe(c) ==
  /\ Alive /\ fd[c] = "open" /\ peer[c] = "pipe"
  /\ srv' = "killed"
  /\ UNCHANGED <<world, handlers, fd, ev, kernel, said, reqs, replies, flags>>

-----------------------------------------------------------------------------
(* accept_handler and accept_cmd.  accept fails without a descriptor left.  *)

Accept(c) ==
  /\ Alive /\ step = "idle"
  /\ link[c] = "backlog" /\ FreeFds > 0
  /\ link' = [link EXCEPT ![c] = "up"]
  /\ fd' = [fd EXCEPT ![c] = "open"]
  /\ \/ ev' = [ev EXCEPT ![c] = "added"] /\ UNCHANGED lost
     \/ world.allocMayFail /\ lost' = lost \cup {c} /\ UNCHANGED ev
  /\ UNCHANGED <<world, srv, handlers, peer, inq, outq, said, reqs, replies,
                 asked, overrun, corrupt>>

accept_handler == \E c \in Plain : Accept(c)
accept_cmd == \E c \in Cmd : Accept(c)

-----------------------------------------------------------------------------
(* The part recv_handler and receive_cmd share.                             *)

Ready(c) ==
  /\ Alive /\ step = "idle" /\ ev[c] = "added"
  /\ inq[c] # <<>> \/ peer[c] # "open"

(* Mutants of RecvEnd: the end of one client ends the loop; the descriptor   *)
(* is not closed.                                                              *)
RecvEndStops(c) ==
  /\ Ready(c) /\ inq[c] = <<>>
  /\ DropConn(c)
  /\ srv' = "exiting"
  /\ UNCHANGED <<world, handlers, kernel, said, reqs, replies, flags>>

RecvEndNoClose(c) ==
  /\ Ready(c) /\ inq[c] = <<>>
  /\ ev' = [ev EXCEPT ![c] = "freed"]
  /\ UNCHANGED <<world, srv, handlers, fd, kernel, said, reqs, replies, flags>>

(* recv returns 0 or -1. *)
RecvEnd(c) ==
  /\ Ready(c) /\ inq[c] = <<>>
  /\ DropConn(c)
  /\ UNCHANGED <<world, srv, handlers, kernel, said, reqs, replies, flags>>

(* Mutant: the event is not persistent. *)
RecvOnce(c, next, n) ==
  /\ Ready(c) /\ inq[c] # <<>>
  /\ LET line == FirstLine(SubSeq(inq[c], 1, n))
     IN  /\ inq' = [inq EXCEPT ![c] = SubSeq(@, n + 1, Len(@))]
         /\ overrun' = (overrun \/ n = BufSize)
         /\ IF line = <<"shut", "down">>
            THEN /\ asked' = TRUE /\ srv' = "exiting"
                 /\ DropConn(c)
                 /\ UNCHANGED handlers
            ELSE /\ cur' = c /\ step' = next /\ buf' = line
                 /\ ev' = [ev EXCEPT ![c] = "none"]
                 /\ UNCHANGED <<srv, left, fd, asked>>
  /\ UNCHANGED <<world, link, peer, outq, said, reqs, replies, corrupt, lost>>

(* Mutant: no zero is put behind what recv returned; strpbrk reads on. *)
RecvNoZero(c, next, n) ==
  /\ Ready(c) /\ inq[c] # <<>>
  /\ LET line == FirstLine(Append(SubSeq(inq[c], 1, n), "t"))
     IN  /\ inq' = [inq EXCEPT ![c] = SubSeq(@, n + 1, Len(@))]
         /\ UNCHANGED overrun
         /\ IF line = <<"shut", "down">>
            THEN /\ asked' = TRUE /\ srv' = "exiting"
                 /\ DropConn(c)
                 /\ UNCHANGED handlers
            ELSE /\ cur' = c /\ step' = next /\ buf' = line
                 /\ UNCHANGED <<srv, left, fd, ev, asked>>
  /\ UNCHANGED <<world, link, peer, outq, said, reqs, replies, corrupt, lost>>

(* recv returns n tokens; "shutdown" leaves the loop once this round of     *)
(* events is over, anything else goes on to `next'.                          *)
Recv(c, next, n) ==
  /\ Ready(c) /\ inq[c] # <<>>
  /\ LET line == FirstLine(SubSeq(inq[c], 1, n))
     IN  /\ inq' = [inq EXCEPT ![c] = SubSeq(@, n + 1, Len(@))]
         /\ overrun' = (overrun \/ n = BufSize)
         /\ IF line = <<"shut", "down">>
            THEN /\ asked' = TRUE /\ srv' = "exiting"
                 /\ DropConn(c)
                 /\ UNCHANGED handlers
            ELSE /\ cur' = c /\ step' = next /\ buf' = line
                 /\ UNCHANGED <<srv, left, fd, ev, asked>>
  /\ UNCHANGED <<world, link, peer, outq, said, reqs, replies, corrupt, lost>>

Receive(c, next) == RecvEnd(c) \/ \E n \in RecvSizes(c) : Recv(c, next, n)

(* mystrlcat appends ":OK" (one token here) if it fits with the final zero. *)
WithOk(line) ==
  IF Len(line) + 1 <= BufSize - 1 THEN Append(line, "ok") ELSE line

(* recv_handler: the reply is the line with ":OK". *)
SendReply ==
  /\ Alive /\ step = "reply" /\ CanTake(cur)
  /\ Taken(cur, WithOk(buf)) /\ Return
  /\ UNCHANGED <<world, srv, fd, ev, link, inq, said, reqs, replies, flags>>

(* Mutant: the descriptor is closed and its event left in the loop. *)
SendReplyFailsNoDel ==
  /\ Alive /\ step = "reply" /\ peer[cur] = "rst"
  /\ fd' = [fd EXCEPT ![cur] = "none"] /\ Return
  /\ UNCHANGED <<world, srv, ev, kernel, said, reqs, replies, flags>>

(* send fails: the event and the descriptor go. *)
SendReplyFails ==
  /\ Alive /\ step = "reply" /\ peer[cur] = "rst"
  /\ DropConn(cur) /\ Return
  /\ UNCHANGED <<world, srv, kernel, said, reqs, replies, flags>>

ReplySigpipe == step = "reply" /\ Sigpipe(cur)

recv_handler ==
  \/ \E c \in Plain : Receive(c, "reply")
  \/ SendReply \/ SendReplyFails
  \/ ReplySigpipe

-----------------------------------------------------------------------------
(* receive_cmd: popen, then one send per line the command prints.           *)

(* Mutant: fgets on the null stream finds lines. *)
PopenFailsGoesOn ==
  /\ Alive /\ step = "cmd" /\ world.allocMayFail
  /\ DropConn(cur)
  /\ srv' = "exiting" /\ step' = "line" /\ left' = MaxOut
  /\ UNCHANGED <<world, cur, buf, kernel, said, reqs, replies, flags>>

(* popen fails: the event is freed, the loop is told to end, and fgets then  *)
(* reads through a null stream.                                              *)
PopenFails ==
  /\ Alive /\ step = "cmd" /\ world.allocMayFail
  /\ DropConn(cur)
  /\ srv' = "crashed"
  /\ UNCHANGED <<world, handlers, kernel, said, reqs, replies, flags>>

(* popen succeeds; the command is going to print some lines. *)
Popen ==
  /\ Alive /\ step = "cmd"
  /\ left' \in 0..MaxOut
  /\ step' = "line"
  /\ UNCHANGED <<world, srv, cur, buf, fd, ev, kernel, said, reqs, replies, flags>>

(* One line of the command's output is sent. *)
SendLine ==
  /\ Alive /\ step = "line" /\ left > 0
  /\ fd[cur] = "open" /\ CanTake(cur)
  /\ Taken(cur, <<"t">>)
  /\ left' = left - 1
  /\ UNCHANGED <<world, srv, cur, step, buf, fd, ev, link, inq, said, reqs, replies, flags>>

(* The first send that fails frees the event; the loop goes on. *)
SendLineFails ==
  /\ Alive /\ step = "line" /\ left > 0
  /\ fd[cur] = "open" /\ peer[cur] = "rst"
  /\ DropConn(cur)
  /\ left' = left - 1
  /\ UNCHANGED <<world, srv, cur, step, buf, kernel, said, reqs, replies, flags>>

(* Every later send fails too, on the closed descriptor, and deletes and     *)
(* frees the event again: undefined, it may abort or go on damaged.          *)
SendLineAgain ==
  /\ Alive /\ step = "line" /\ left > 0
  /\ fd[cur] = "none"
  /\ corrupt' = TRUE
  /\ srv' \in {srv, "crashed"}
  /\ left' = left - 1
  /\ UNCHANGED <<world, cur, step, buf, fd, ev, kernel, said, reqs, replies, asked, overrun, lost>>

LineSigpipe == step = "line" /\ left > 0 /\ Sigpipe(cur)

(* fgets returns NULL: the loop ends and the pipe is closed. *)
CmdDone ==
  /\ Alive /\ step = "line" /\ left = 0
  /\ Return
  /\ UNCHANGED <<world, srv, fd, ev, kernel, said, reqs, replies, flags>>

receive_cmd ==
  \/ \E c \in Cmd : Receive(c, "cmd")
  \/ PopenFails \/ Popen \/ SendLine \/ SendLineFails \/ SendLineAgain
  \/ CmdDone
  \/ LineSigpipe

-----------------------------------------------------------------------------

(* event_dispatch returns: start_server and main return. *)
LoopExit ==
  /\ srv = "exiting" /\ step = "idle"
  /\ srv' = "exited"
  /\ UNCHANGED <<world, handlers, fd, ev, kernel, said, reqs, replies, flags>>

Server == accept_handler \/ accept_cmd \/ recv_handler \/ receive_cmd \/ LoopExit

Client(c) ==
  \/ Connect(c) \/ ClientRead(c) \/ ClientClose(c)
  \/ \E r \in world.requests : ClientSend(c, r)

Next == Server \/ \E c \in Conns : Client(c)

Spec == Init /\ [][Next]_vars

(* A handler that is not blocked runs on; libevent serves every ready event  *)
(* in turn; clients that stay read their replies.                            *)
Fairness ==
  /\ \A c \in Plain : SF_vars(Receive(c, "reply"))
  /\ \A c \in Cmd : SF_vars(Receive(c, "cmd"))
  /\ \A c \in Conns : SF_vars(Accept(c)) /\ WF_vars(ClientRead(c))
  /\ WF_vars(SendReply \/ SendReplyFails \/ ReplySigpipe)
  /\ WF_vars(Popen \/ CmdDone \/ SendLineAgain)
  /\ WF_vars(SendLine \/ SendLineFails \/ LineSigpipe)
  /\ WF_vars(LoopExit)

FairSpec == Spec /\ Fairness

-----------------------------------------------------------------------------

(* An event is registered exactly while its descriptor is open, except for   *)
(* the descriptors accept_handler forgets when it cannot get an event: no    *)
(* path out of a handler leaves the loop polling a closed descriptor, which  *)
(* the next client may be given, or a client nobody listens to.               *)
EventIffOpen ==
  \A c \in Conns : ev[c] = "added" <=> (fd[c] = "open" /\ c \notin lost)

(* An event is freed twice only by a command that still prints after its     *)
(* client reset the connection: service clients cannot do it.                 *)
DoubleFreeNeedsReset ==
  corrupt => \E c \in Cmd : ev[c] = "freed" /\ peer[c] = "rst"

(* What is assumed of clients that wait: only service clients come, and recv *)
(* returns what one send carried.                                              *)
PoliteWorlds ==
  \A w \in Worlds : w.polite =>
    /\ w.clients \subseteq Plain /\ ~w.split
    /\ \A r \in w.requests : Len(r) <= BufSize

(* The server stops only for a reason a reader of the code would accept: the *)
(* loop ends only after a request "shutdown"; SIGPIPE comes only after a      *)
(* client closed and the server sent to it twice, which for a service client   *)
(* takes two more tokens than it has read replies; the process crashes only on *)
(* an event freed twice or a failed popen.  Clients that wait for each reply    *)
(* can stop it with "shutdown" alone.                                           *)
StopsOnlyWhenAsked ==
  /\ srv \in {"exiting", "exited"} \/ (world.polite /\ srv # "running") => asked
  /\ srv = "killed" =>
       \E c \in Conns : /\ peer[c] = "pipe"
                        /\ c \in Plain => Len(said[c]) >= Len(replies[c]) + 2
  /\ srv = "crashed" => corrupt \/ world.allocMayFail

(* The first line of s[i+1..j] ends at m: at a newline, or with the chunk.     *)
LineEnd(s, i, j, m) ==
  /\ m \in i..j
  /\ \A k \in (i + 1)..m : s[k] # "nl"
  /\ m < j => s[m + 1] = "nl"

(* The reply is that line, with ":OK" if it fits before the final zero.        *)
AnswersChunk(reply, s, i, j) ==
  \E m \in i..j :
    /\ LineEnd(s, i, j, m)
    /\ reply = IF m - i + 2 <= BufSize
               THEN Append(SubSeq(s, i + 1, m), "ok") ELSE SubSeq(s, i + 1, m)

(* Nothing of client c is under way, and it is still served. *)
Settled(c) ==
  /\ Alive /\ ev[c] = "added" /\ peer[c] = "open"
  /\ inq[c] = <<>> /\ outq[c] = <<>> /\ cur # c

(* The replies of a service client follow what it sent, however its requests  *)
(* were merged or split on the way: the stream can be cut into chunks that    *)
(* fit in the buffer, of which the k-th reply answers the k-th; once nothing   *)
(* is under way the chunks are the whole stream.  And only a client that       *)
(* sends a whole buffer makes the server write the byte behind it.              *)
RepliesFollowTheStream ==
  /\ \A c \in Plain :
       \E cut \in [0..Len(replies[c]) -> 0..Len(said[c])] :
         /\ cut[0] = 0
         /\ \A k \in 1..Len(replies[c]) :
              /\ cut[k - 1] < cut[k] /\ cut[k] <= cut[k - 1] + BufSize
              /\ AnswersChunk(replies[c][k], said[c], cut[k - 1], cut[k])
         /\ Settled(c) => cut[Len(replies[c])] = Len(said[c])
  /\ overrun => \E c \in Conns : Len(said[c]) >= BufSize

(* Again and again the server is over or no waiting client waits: every       *)
(* request is answered, unless the server was told to stop.                    *)
EveryRequestAnswered ==
  []<>(Alive /\ world.polite => \A c \in Plain : Len(replies[c]) >= Len(reqs[c]))

(* The descriptor of a client that is gone is closed, unless its accept      *)
(* failed half-way or the server is over.                                     *)
DescriptorReturned ==
  []<>(Alive => \A c \in Conns :
         (link[c] = "up" /\ peer[c] # "open" /\ c \notin lost) => fd[c] = "none")
=============================================================================
