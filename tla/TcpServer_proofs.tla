--------------------------- MODULE TcpServer_proofs ---------------------------
(* Proofs about TcpServer, for every set of clients and every world. *)
EXTENDS TcpServer, SequenceTheorems, WellFoundedInduction, TLAPS

Token == {"t", "nl", "shut", "down"}
Reply == Seq(Token \cup {"ok"})

TypeOK ==
  /\ world \in Worlds
  /\ srv \in {"running", "exiting", "exited", "killed", "crashed"}
  /\ cur \in Conns \cup {NoConn}
  /\ step \in {"idle", "reply", "cmd", "line"}
  /\ buf \in Seq(Token) /\ left \in Nat
  /\ fd \in [Conns -> {"none", "open"}]
  /\ ev \in [Conns -> {"none", "added", "freed"}]
  /\ link \in [Conns -> {"new", "backlog", "up"}]
  /\ peer \in [Conns -> {"open", "fin", "rst", "pipe"}]
  /\ inq \in [Conns -> Seq(Token)] /\ said \in [Conns -> Seq(Token)]
  /\ reqs \in [Conns -> Seq(Seq(Token))]
  /\ outq \in [Conns -> Seq(Reply)] /\ replies \in [Conns -> Seq(Reply)]
  /\ asked \in BOOLEAN /\ overrun \in BOOLEAN /\ corrupt \in BOOLEAN
  /\ lost \subseteq Conns

(* The strengthening of EventIffOpen and DoubleFreeNeedsReset that a step     *)
(* preserves: which connection each call of a handler may belong to, that the *)
(* handler of a service client has its event until it returns, that a command *)
(* has lost its event only to a reset, and that nothing was set up for a      *)
(* connection before accept returned it.                                       *)
InHandler ==
  /\ step = "idle" \/ cur \in Conns
  /\ step = "reply" => cur \in Plain
  /\ step \in {"cmd", "line"} => cur \in Cmd
HandlerHasEvent ==
  Alive =>
    /\ step \in {"reply", "cmd"} => ev[cur] = "added"
    /\ step = "line" => \/ ev[cur] = "added"
                        \/ ev[cur] = "freed" /\ peer[cur] = "rst"
NotAccepted ==
  \A c \in Conns : link[c] # "up" => ev[c] = "none" /\ fd[c] = "none" /\ c \notin lost

Events == InHandler /\ HandlerHasEvent /\ NotAccepted
            /\ EventIffOpen /\ DoubleFreeNeedsReset

-----------------------------------------------------------------------------
(* Lemmas about the operators.                                               *)

(* What the proofs use of the constants. *)
LEMMA Constants ==
  /\ Plain \cap Cmd = {} /\ NoConn \notin Conns
  /\ Plain \subseteq Conns /\ Cmd \subseteq Conns
  /\ BufSize \in Nat \ {0} /\ SndBuf \in Nat \ {0} /\ MaxOut \in Nat
  /\ \A w \in Worlds :
       /\ w.clients \subseteq Conns
       /\ w.requests \subseteq Seq(Token) \ {<<>>}
       /\ w.polite \in BOOLEAN /\ w.split \in BOOLEAN
  BY ServerAssumption DEF ServerAssumption, Token, Conns

(* A non-empty set of natural numbers has a least member. *)
LEMMA LeastExists ==
  ASSUME NEW T \in SUBSET Nat, T # {}
  PROVE  \E k \in T : \A m \in T : k <= m
  <1>1. PICK k \in T : \A m \in T : ~ (<<m, k>> \in OpToRel(<, Nat))
    BY WFMin, NatLessThanWellFounded
  <1>2. \A m \in T : ~ (m < k)
    BY <1>1 DEF OpToRel
  <1> QED BY <1>2

(* The first line of a chunk is the chunk or a prefix of it. *)
LEMMA FirstLineType ==
  ASSUME NEW s \in Seq(Token)
  PROVE  FirstLine(s) \in Seq(Token)
  <1> DEFINE ends == {k \in 1..Len(s) : s[k] = "nl"}
             first == CHOOSE k \in ends : \A m \in ends : k <= m
  <1>1. CASE ends = {}
    BY <1>1 DEF FirstLine
  <1>2. CASE ends # {}
    <2>1. Len(s) \in Nat /\ \A k \in 1..Len(s) : s[k] \in Token
      BY LenProperties, ElementOfSeq
    <2>2. ends \in SUBSET Nat
      BY <2>1
    <2>3. \E k \in ends : \A m \in ends : k <= m
      BY <1>2, <2>2, LeastExists
    <2>4. first \in 1..Len(s)
      BY <2>3
    <2> HIDE DEF first
    <2>5. first - 1 \in Int /\ \A k \in 1..(first - 1) : s[k] \in Token
      BY <2>1, <2>4
    <2>6. SubSeq(s, 1, first - 1) \in Seq(Token)
      BY <2>5, SubSeqProperties
    <2> QED BY <1>2, <2>6 DEF FirstLine, first
  <1> QED BY <1>1, <1>2

(* What is sent for a line is a reply. *)
LEMMA WithOkType ==
  ASSUME NEW s \in Seq(Token)
  PROVE  WithOk(s) \in Reply /\ Append(s, "ok") \in Reply /\ <<"t">> \in Reply
  <1>1. s \in Reply /\ "ok" \in Token \cup {"ok"} /\ <<>> \in Reply
    BY SeqMonotonic, EmptySeq DEF Reply
  <1>2. Append(s, "ok") \in Reply
    BY <1>1, AppendProperties DEF Reply
  <1>3. <<"t">> \in Seq(Token \cup {"ok"})
    BY "t" \in Token \cup {"ok"} DEF Token
  <1> QED BY <1>1, <1>2, <1>3 DEF WithOk, Reply

(* The line recv is read for, and what stays in the queue, are of their type. *)
LEMMA RecvTypes ==
  ASSUME NEW q \in Seq(Token), NEW n \in 1..Len(q)
  PROVE  /\ FirstLine(SubSeq(q, 1, n)) \in Seq(Token)
         /\ SubSeq(q, n + 1, Len(q)) \in Seq(Token)
  <1>1. Len(q) \in Nat /\ \A k \in 1..Len(q) : q[k] \in Token
    BY LenProperties, ElementOfSeq
  <1>2. (\A k \in 1..n : q[k] \in Token) /\ (\A k \in (n+1)..Len(q) : q[k] \in Token)
    BY <1>1
  <1>3. SubSeq(q, 1, n) \in Seq(Token) /\ SubSeq(q, n + 1, Len(q)) \in Seq(Token)
    BY <1>1, <1>2, SubSeqProperties
  <1> QED BY <1>3, FirstLineType

(* recv returns something, and no more than was sent. *)
LEMMA RecvSizesType ==
  ASSUME TypeOK, NEW c \in Conns, inq[c] # <<>>, NEW n \in RecvSizes(c)
  PROVE  n \in 1..Len(inq[c])
  <1>1. inq[c] \in Seq(Token)
    BY DEF TypeOK
  <1>2. Len(inq[c]) \in Nat \ {0}
    BY <1>1, EmptySeq
  <1>3. BufSize \in Nat \ {0} /\ world.split \in BOOLEAN
    BY Constants DEF TypeOK
  <1> QED BY <1>2, <1>3 DEF RecvSizes

-----------------------------------------------------------------------------
(* Type correctness.                                                         *)

LEMMA TypeInit == Init => TypeOK
  <1> SUFFICES ASSUME Init PROVE TypeOK
    OBVIOUS
  <1>1. <<>> \in Seq(Token) /\ <<>> \in Seq(Seq(Token)) /\ <<>> \in Seq(Reply)
    BY EmptySeq
  <1> QED BY <1>1 DEF Init, TypeOK

LEMMA TypeNext == TypeOK /\ Events /\ [Next]_vars => TypeOK'
  <1> SUFFICES ASSUME TypeOK, Events, [Next]_vars PROVE TypeOK'
    OBVIOUS
  <1> USE Constants DEF TypeOK
  <1>0. step # "idle" => cur \in Conns
    BY DEF Events, InHandler
  <1>1. ASSUME NEW c \in Conns, Accept(c) PROVE TypeOK'
    <2>1. /\ fd' \in [Conns -> {"none", "open"}] /\ link' \in [Conns -> {"new", "backlog", "up"}]
          /\ \/ ev' = [ev EXCEPT ![c] = "added"] /\ UNCHANGED lost
             \/ lost' = lost \cup {c} /\ UNCHANGED ev
      BY <1>1 DEF Accept
    <2>2. UNCHANGED <<world, srv, handlers, peer, inq, outq, said, reqs, replies,
                      asked, overrun, corrupt>>
      BY <1>1 DEF Accept
    <2>3. ev' \in [Conns -> {"none", "added", "freed"}]
      BY <2>1
    <2>4. lost' \subseteq Conns
      BY <2>1
    <2> QED BY <2>1, <2>2, <2>3, <2>4 DEF handlers
  <1>2. ASSUME NEW c \in Conns, RecvEnd(c) PROVE TypeOK'
    BY <1>2 DEF RecvEnd, DropConn, handlers, kernel, flags
  <1>3. ASSUME NEW c \in Conns, NEW next \in {"reply", "cmd"},
               NEW n \in RecvSizes(c), Recv(c, next, n)
        PROVE  TypeOK'
    <2>1. inq[c] \in Seq(Token) /\ inq[c] # <<>>
      BY <1>3 DEF Recv
    <2>2. n \in 1..Len(inq[c])
      BY <2>1, RecvSizesType
    <2> DEFINE line == FirstLine(SubSeq(inq[c], 1, n))
               rest == SubSeq(inq[c], n + 1, Len(inq[c]))
    <2>3. line \in Seq(Token) /\ rest \in Seq(Token)
      BY <2>1, <2>2, RecvTypes
    <2>4. /\ inq' = [inq EXCEPT ![c] = rest]
          /\ overrun' = (overrun \/ n = BufSize)
          /\ \/ /\ asked' = TRUE /\ srv' = "exiting" /\ DropConn(c) /\ UNCHANGED handlers
             \/ /\ cur' = c /\ step' = next /\ buf' = line
                /\ UNCHANGED <<srv, left, fd, ev, asked>>
      BY <1>3 DEF Recv
    <2>5. UNCHANGED <<world, link, peer, outq, said, reqs, replies, corrupt, lost>>
      BY <1>3 DEF Recv
    <2> HIDE DEF line, rest
    <2>6. inq' \in [Conns -> Seq(Token)] /\ overrun' \in BOOLEAN
      BY <2>3, <2>4
    <2>7. fd' \in [Conns -> {"none", "open"}] /\ ev' \in [Conns -> {"none", "added", "freed"}]
      <3>1. CASE UNCHANGED <<fd, ev>>
        BY <3>1
      <3>2. CASE DropConn(c)
        BY <3>2 DEF DropConn
      <3> QED BY <2>4, <3>1, <3>2
    <2>8. cur' \in Conns \cup {NoConn} /\ step' \in {"idle", "reply", "cmd", "line"}
          /\ buf' \in Seq(Token) /\ left' \in Nat
      <3>1. CASE UNCHANGED handlers
        BY <3>1 DEF handlers
      <3>2. CASE cur' = c /\ step' = next /\ buf' = line /\ UNCHANGED left
        BY <2>3, <3>2
      <3> QED BY <2>4, <3>1, <3>2
    <2> QED BY <2>4, <2>5, <2>6, <2>7, <2>8
  <1>4. ASSUME NEW reply \in Reply, cur \in Conns, Taken(cur, reply)
        PROVE  outq' \in [Conns -> Seq(Reply)] /\ peer' \in [Conns -> {"open", "fin", "rst", "pipe"}]
    <2>1. Append(outq[cur], reply) \in Seq(Reply)
      BY <1>4, AppendProperties
    <2>2. outq \in [Conns -> Seq(Reply)] /\ peer \in [Conns -> {"open", "fin", "rst", "pipe"}]
      OBVIOUS
    <2>3. CASE outq' = [outq EXCEPT ![cur] = Append(@, reply)] /\ UNCHANGED peer
      BY <2>1, <2>2, <2>3
    <2>4. ASSUME NEW p \in {"fin", "pipe"}, UNCHANGED outq, peer' = [peer EXCEPT ![cur] = p]
          PROVE  outq' \in [Conns -> Seq(Reply)] /\ peer' \in [Conns -> {"open", "fin", "rst", "pipe"}]
      BY <2>2, <2>4
    <2> QED BY <1>4, <2>3, <2>4 DEF Taken
  <1>5. Return => cur' \in Conns \cup {NoConn} /\ step' = "idle" /\ buf' \in Seq(Token) /\ left' \in Nat
    BY EmptySeq DEF Return
  <1>6. CASE SendReply
    <2>1. cur \in Conns /\ WithOk(buf) \in Reply /\ Taken(cur, WithOk(buf))
      BY <1>0, <1>6, WithOkType DEF SendReply
    <2>2. outq' \in [Conns -> Seq(Reply)] /\ peer' \in [Conns -> {"open", "fin", "rst", "pipe"}]
      BY <1>4, <2>1
    <2> QED BY <1>5, <1>6, <2>2 DEF SendReply, flags
  <1>7. CASE SendReplyFails
    BY <1>0, <1>5, <1>7 DEF SendReplyFails, DropConn, kernel, flags
  <1>8. CASE ReplySigpipe \/ LineSigpipe
    BY <1>8 DEF ReplySigpipe, LineSigpipe, Sigpipe, handlers, kernel, flags
  <1>9. CASE PopenFails
    BY <1>0, <1>9 DEF PopenFails, DropConn, handlers, kernel, flags
  <1>10. CASE Popen
    BY <1>10 DEF Popen, kernel, flags
  <1>11. CASE SendLine
    <2>1. cur \in Conns /\ <<"t">> \in Reply /\ Taken(cur, <<"t">>)
      BY <1>0, <1>11, WithOkType DEF SendLine
    <2>2. outq' \in [Conns -> Seq(Reply)] /\ peer' \in [Conns -> {"open", "fin", "rst", "pipe"}]
      BY <1>4, <2>1
    <2>3. left' \in Nat
      BY <1>11 DEF SendLine
    <2> QED BY <1>11, <2>2, <2>3 DEF SendLine, flags
  <1>12. CASE SendLineFails
    BY <1>0, <1>12 DEF SendLineFails, DropConn, kernel, flags
  <1>13. CASE SendLineAgain
    BY <1>13 DEF SendLineAgain, kernel
  <1>14. CASE CmdDone
    BY <1>5, <1>14 DEF CmdDone, kernel, flags
  <1>15. CASE LoopExit
    BY <1>15 DEF LoopExit, handlers, kernel, flags
  <1>16. ASSUME NEW c \in Conns, Connect(c) PROVE TypeOK'
    BY <1>16 DEF Connect, handlers, flags
  <1>17. ASSUME NEW c \in Conns, ClientRead(c) PROVE TypeOK'
    <2>1. outq[c] \in Seq(Reply) /\ outq[c] # <<>> /\ replies[c] \in Seq(Reply)
      BY <1>17 DEF ClientRead
    <2>2. Head(outq[c]) \in Reply /\ Tail(outq[c]) \in Seq(Reply)
      BY <2>1, HeadTailProperties
    <2>3. Append(replies[c], Head(outq[c])) \in Seq(Reply)
      BY <2>1, <2>2, AppendProperties
    <2> QED BY <1>17, <2>2, <2>3 DEF ClientRead, handlers, flags
  <1>18. ASSUME NEW c \in Conns, ClientClose(c) PROVE TypeOK'
    BY <1>18, EmptySeq DEF ClientClose, handlers, flags
  <1>19. ASSUME NEW c \in Conns, NEW r \in world.requests, ClientSend(c, r) PROVE TypeOK'
    <2>1. /\ inq[c] \in Seq(Token) /\ said[c] \in Seq(Token) /\ r \in Seq(Token)
          /\ reqs[c] \in Seq(Seq(Token))
      OBVIOUS
    <2>2. /\ inq[c] \o r \in Seq(Token) /\ said[c] \o r \in Seq(Token)
          /\ Append(reqs[c], r) \in Seq(Seq(Token))
      BY <2>1, ConcatProperties, AppendProperties
    <2> QED BY <1>19, <2>2 DEF ClientSend, handlers, flags
  <1>20. CASE UNCHANGED vars
    BY <1>20 DEF vars, handlers, kernel, flags
  <1> QED BY <1>1, <1>2, <1>3, <1>6, <1>7, <1>8, <1>9, <1>10, <1>11, <1>12,
             <1>13, <1>14, <1>15, <1>16, <1>17, <1>18, <1>19, <1>20
          DEF Next, Server, Client, accept_handler, accept_cmd, recv_handler,
              receive_cmd, Receive, Conns

-----------------------------------------------------------------------------
(* Events and descriptors.                                                   *)

LEMMA EventsInit == Init => Events
  BY Constants DEF Init, Events, InHandler, HandlerHasEvent, NotAccepted,
                   EventIffOpen, DoubleFreeNeedsReset

LEMMA EventsNext == TypeOK /\ Events /\ [Next]_vars => Events'
  <1> SUFFICES ASSUME TypeOK, Events, [Next]_vars PROVE Events'
    OBVIOUS
  <1> USE Constants
          DEF TypeOK, Events, InHandler, HandlerHasEvent, NotAccepted,
              EventIffOpen, DoubleFreeNeedsReset, Alive
  <1>1. ASSUME NEW c \in Conns, Accept(c) PROVE Events'
    <2>1. /\ step = "idle" /\ link[c] = "backlog"
          /\ link' = [link EXCEPT ![c] = "up"] /\ fd' = [fd EXCEPT ![c] = "open"]
          /\ UNCHANGED <<srv, step, cur, peer, corrupt>>
      BY <1>1 DEF Accept, handlers
    <2>2. CASE ev' = [ev EXCEPT ![c] = "added"] /\ UNCHANGED lost
      BY <2>1, <2>2
    <2>3. CASE lost' = lost \cup {c} /\ UNCHANGED ev
      BY <2>1, <2>3
    <2> QED BY <1>1, <2>2, <2>3 DEF Accept
  <1>2. ASSUME NEW c \in Conns, RecvEnd(c) PROVE Events'
    BY <1>2 DEF RecvEnd, Ready, DropConn, handlers, kernel, flags
  <1>3. ASSUME NEW c \in Conns, NEW next \in {"reply", "cmd"}, NEW n \in RecvSizes(c),
               next = "reply" => c \in Plain, next = "cmd" => c \in Cmd,
               Recv(c, next, n)
        PROVE  Events'
    <2>1. /\ Ready(c)
          /\ \/ /\ srv' = "exiting" /\ DropConn(c) /\ UNCHANGED handlers
             \/ cur' = c /\ step' = next /\ UNCHANGED <<srv, fd, ev>>
      BY <1>3 DEF Recv
    <2>2. UNCHANGED <<link, peer, corrupt, lost>>
      BY <1>3 DEF Recv
    <2>3. CASE srv' = "exiting" /\ DropConn(c) /\ UNCHANGED handlers
      BY <2>1, <2>2, <2>3 DEF Ready, DropConn, handlers
    <2>4. CASE cur' = c /\ step' = next /\ UNCHANGED <<srv, fd, ev>>
      BY <1>3, <2>1, <2>2, <2>4 DEF Ready
    <2> QED BY <2>1, <2>3, <2>4
  <1>4. ASSUME NEW reply, cur \in Conns, CanTake(cur), Taken(cur, reply)
        PROVE  \A c \in Conns : peer[c] = "rst" <=> peer'[c] = "rst"
    BY <1>4 DEF CanTake, Taken
  <1>5. CASE SendReply
    <2>1. \A c \in Conns : peer[c] = "rst" <=> peer'[c] = "rst"
      BY <1>4, <1>5 DEF SendReply
    <2> QED BY <1>5, <2>1 DEF SendReply, Return, flags
  <1>6. CASE SendReplyFails
    BY <1>6 DEF SendReplyFails, Return, DropConn, kernel, flags
  <1>7. CASE ReplySigpipe \/ LineSigpipe
    BY <1>7 DEF ReplySigpipe, LineSigpipe, Sigpipe, handlers, kernel, flags
  <1>8. CASE PopenFails
    BY <1>8 DEF PopenFails, DropConn, handlers, kernel, flags
  <1>9. CASE Popen
    BY <1>9 DEF Popen, kernel, flags
  <1>10. CASE SendLine
    <2>1. \A c \in Conns : peer[c] = "rst" <=> peer'[c] = "rst"
      BY <1>4, <1>10 DEF SendLine
    <2> QED BY <1>10, <2>1 DEF SendLine, flags
  <1>11. CASE SendLineFails
    BY <1>11 DEF SendLineFails, DropConn, kernel, flags
  <1>12. CASE SendLineAgain
    BY <1>12 DEF SendLineAgain, kernel
  <1>13. CASE CmdDone
    BY <1>13 DEF CmdDone, Return, kernel, flags
  <1>14. CASE LoopExit
    BY <1>14 DEF LoopExit, handlers, kernel, flags
  <1>15. ASSUME NEW c \in Conns, Connect(c) PROVE Events'
    BY <1>15 DEF Connect, handlers, flags
  <1>16. ASSUME NEW c \in Conns, ClientRead(c) PROVE Events'
    BY <1>16 DEF ClientRead, handlers, flags
  <1>17. ASSUME NEW c \in Conns, ClientClose(c) PROVE Events'
    BY <1>17 DEF ClientClose, handlers, flags
  <1>18. ASSUME NEW c \in Conns, NEW r \in world.requests, ClientSend(c, r) PROVE Events'
    BY <1>18 DEF ClientSend, handlers, flags
  <1>19. CASE UNCHANGED vars
    BY <1>19 DEF vars, handlers, kernel, flags
  <1> HIDE DEF TypeOK, Events, Alive
  <1>20. CASE recv_handler
    <2>1. ASSUME NEW c \in Plain, Receive(c, "reply") PROVE Events'
      BY <1>2, <1>3, <2>1 DEF Receive
    <2> QED BY <1>5, <1>6, <1>7, <1>20, <2>1 DEF recv_handler
  <1>21. CASE receive_cmd
    <2>1. ASSUME NEW c \in Cmd, Receive(c, "cmd") PROVE Events'
      BY <1>2, <1>3, <2>1 DEF Receive
    <2> QED BY <1>7, <1>8, <1>9, <1>10, <1>11, <1>12, <1>13, <1>21, <2>1
            DEF receive_cmd
  <1> QED BY <1>1, <1>14, <1>15, <1>16, <1>17, <1>18, <1>19, <1>20, <1>21
          DEF Next, Server, Client, accept_handler, accept_cmd

LEMMA Invariance == Spec => [](TypeOK /\ Events)
  <1>1. Init => TypeOK /\ Events
    BY TypeInit, EventsInit
  <1>2. TypeOK /\ Events /\ [Next]_vars => (TypeOK /\ Events)'
    BY TypeNext, EventsNext
  <1> QED BY <1>1, <1>2, PTL DEF Spec

(* No path through accept_handler, accept_cmd, recv_handler or receive_cmd    *)
(* leaves an event registered on a closed descriptor or a served client       *)
(* without its event, whatever clients send and however many there are.        *)
THEOREM EventsMatchDescriptors == Spec => []EventIffOpen
  <1>1. Events => EventIffOpen
    BY DEF Events
  <1> QED BY <1>1, Invariance, PTL

(* The loop in receive_cmd is the only way an event is freed twice, and only  *)
(* for a client that reset its connection while its command was printing.     *)
THEOREM DoubleFreeOnlyAfterReset == Spec => []DoubleFreeNeedsReset
  <1>1. Events => DoubleFreeNeedsReset
    BY DEF Events
  <1> QED BY <1>1, Invariance, PTL

-----------------------------------------------------------------------------
(* What a service client is answered.                                        *)

(* recv_handler runs for client c, and has yet to answer what it read; the    *)
(* replies c has read or is going to read.                                    *)
Handled(c) == step = "reply" /\ cur = c
Owed(c) == IF Handled(c) THEN 1 ELSE 0
Given(c) == replies[c] \o outq[c]

(* What is still to be received is the end of what was sent. *)
Unread(c) ==
  /\ Len(inq[c]) <= Len(said[c])
  /\ \A k \in 1..Len(inq[c]) : inq[c][k] = said[c][Len(said[c]) - Len(inq[c]) + k]

(* The n calls of recv have cut what was received into the chunks cut[k-1]+1 *)
(* to cut[k].                                                                 *)
Chunks(c, n, cut) ==
  /\ cut[0] = 0 /\ cut[n] + Len(inq[c]) = Len(said[c])
  /\ \A k \in 0..n : k <= cut[k] /\ cut[k] <= cut[n]
  /\ \A k \in 1..n : cut[k - 1] < cut[k] /\ cut[k] <= cut[k - 1] + BufSize

(* The line is the first one of the chunk s[i+1..j]. *)
IsLine(line, s, i, j) ==
  \E m \in i..j : LineEnd(s, i, j, m) /\ line = SubSeq(s, i + 1, m)

(* The replies answer the first chunks, the handler has the first line of the *)
(* last one, and no chunk is without an answer while the client is served; a   *)
(* client whose end knows nothing of the connection any more was sent a reply  *)
(* it did not get.                                                              *)
InStep(c, n, cut) ==
  /\ Len(Given(c)) + Owed(c) <= n
  /\ \A k \in 1..Len(Given(c)) :
       AnswersChunk(Given(c)[k], said[c], cut[k - 1], cut[k])
  /\ Handled(c) => IsLine(buf, said[c], cut[n - 1], cut[n])
  /\ peer[c] = "open" /\ ev[c] # "freed" => Len(Given(c)) + Owed(c) = n
  /\ peer[c] = "pipe" => Len(replies[c]) + Owed(c) + 1 <= n

Stream(c) ==
  \E n \in Nat : \E cut \in [0..n -> Nat] : Chunks(c, n, cut) /\ InStep(c, n, cut)

(* The invariant: every stream is followed, and the flags have their reasons. *)
Reasons ==
  /\ overrun => \E c \in Conns : Len(said[c]) >= BufSize
  /\ srv \in {"exiting", "exited"} => asked
  /\ srv = "killed" => \E c \in Conns : peer[c] = "pipe" /\ (c \in Plain => Handled(c))
  /\ srv = "crashed" => corrupt \/ world.allocMayFail
Streams == (\A c \in Conns : Unread(c)) /\ (\A c \in Plain : Stream(c))

(* What client c sends later changes nothing of what was sent before. *)
LEMMA LineStays ==
  ASSUME NEW s \in Seq(Token), NEW r \in Seq(Token),
         NEW i \in Nat, NEW j \in Nat, j <= Len(s), NEW m \in i..j, LineEnd(s, i, j, m)
  PROVE  /\ LineEnd(s \o r, i, j, m)
         /\ SubSeq(s \o r, i + 1, m) = SubSeq(s, i + 1, m)
  <1>1. /\ Len(s) \in Nat /\ Len(r) \in Nat
        /\ \A k \in 1..Len(s) : (s \o r)[k] = s[k]
    BY LenProperties, ConcatProperties
  <1>2. i <= m /\ m <= j
    BY DEF LineEnd
  <1>3. LineEnd(s \o r, i, j, m)
    BY <1>1, <1>2 DEF LineEnd
  <1>4. CASE i = m
    <2>1. m < i + 1
      BY <1>4
    <2> QED BY <1>3, <2>1, SubSeqEmpty
  <1>5. CASE i < m
    <2>1. i + 1 \in 1..Len(s) /\ m \in 1..Len(s)
      BY <1>1, <1>2, <1>5
    <2> QED BY <1>3, <2>1, SubSeqOfConcat1
  <1> QED BY <1>2, <1>4, <1>5

LEMMA AnswerStays ==
  ASSUME NEW s \in Seq(Token), NEW r \in Seq(Token), NEW reply,
         NEW i \in Nat, NEW j \in Nat, j <= Len(s), AnswersChunk(reply, s, i, j)
  PROVE  AnswersChunk(reply, s \o r, i, j)
  <1>1. PICK m \in i..j :
          /\ LineEnd(s, i, j, m)
          /\ reply = IF m - i + 2 <= BufSize
                     THEN Append(SubSeq(s, i + 1, m), "ok") ELSE SubSeq(s, i + 1, m)
    BY DEF AnswersChunk
  <1>2. LineEnd(s \o r, i, j, m) /\ SubSeq(s \o r, i + 1, m) = SubSeq(s, i + 1, m)
    BY <1>1, LineStays
  <1> QED BY <1>1, <1>2 DEF AnswersChunk

LEMMA IsLineStays ==
  ASSUME NEW s \in Seq(Token), NEW r \in Seq(Token), NEW line,
         NEW i \in Nat, NEW j \in Nat, j <= Len(s), IsLine(line, s, i, j)
  PROVE  IsLine(line, s \o r, i, j)
  <1>1. PICK m \in i..j : LineEnd(s, i, j, m) /\ line = SubSeq(s, i + 1, m)
    BY DEF IsLine
  <1>2. LineEnd(s, i, j, m)
    BY <1>1
  <1>3. LineEnd(s \o r, i, j, m) /\ SubSeq(s \o r, i + 1, m) = SubSeq(s, i + 1, m)
    BY <1>2, LineStays
  <1> QED BY <1>1, <1>3 DEF IsLine

(* What strpbrk leaves of a chunk is its first line. *)
LEMMA FirstLineIs ==
  ASSUME NEW s \in Seq(Token), NEW q \in Seq(Token), NEW i \in Nat,
         i + Len(q) = Len(s), \A k \in 1..Len(q) : q[k] = s[i + k],
         NEW n \in 1..Len(q)
  PROVE  IsLine(FirstLine(SubSeq(q, 1, n)), s, i, i + n)
  <1> DEFINE t == SubSeq(q, 1, n)
             ends == {k \in 1..Len(t) : t[k] = "nl"}
  <1>1. /\ Len(q) \in Nat /\ Len(s) \in Nat
        /\ \A k \in 1..Len(q) : q[k] \in Token
        /\ \A k \in 1..Len(s) : s[k] \in Token
    BY LenProperties, ElementOfSeq
  <1>2. t \in Seq(Token) /\ Len(t) = n /\ \A k \in 1..n : t[k] = s[i + k]
    <2>1. \A k \in 1..n : q[k] \in Token
      BY <1>1
    <2>2. t \in Seq(Token) /\ Len(t) = n /\ \A k \in 1..n : t[k] = q[k]
      BY <1>1, <2>1, SubSeqProperties
    <2> QED BY <1>1, <2>2
  <1> HIDE DEF t
  <1>3. ASSUME NEW m \in 0..n
        PROVE  SubSeq(t, 1, m) = SubSeq(s, i + 1, i + m)
    <2>1. /\ \A k \in 1..m : t[k] \in Token
          /\ \A k \in (i + 1)..(i + m) : s[k] \in Token
      BY <1>1, <1>2, ElementOfSeq
    <2>2. /\ SubSeq(t, 1, m) \in Seq(Token) /\ Len(SubSeq(t, 1, m)) = m
          /\ \A k \in 1..m : SubSeq(t, 1, m)[k] = t[k]
      BY <2>1, SubSeqProperties
    <2>3. /\ SubSeq(s, i + 1, i + m) \in Seq(Token) /\ Len(SubSeq(s, i + 1, i + m)) = m
          /\ \A k \in 1..m : SubSeq(s, i + 1, i + m)[k] = s[i + k]
      BY <2>1, SubSeqProperties
    <2> QED BY <1>2, <2>2, <2>3, SeqEqual
  <1>4. CASE ends = {}
    <2>0. n \in 0..n
      OBVIOUS
    <2>1. SubSeq(t, 1, n) = t /\ SubSeq(t, 1, n) = SubSeq(s, i + 1, i + n)
      <3>1. SubSeq(t, 1, Len(t)) = t
        BY <1>2, SubSeqFull
      <3>2. SubSeq(t, 1, n) = t
        BY <1>2, <3>1
      <3>3. SubSeq(t, 1, n) = SubSeq(s, i + 1, i + n)
        BY <1>3, <2>0
      <3> QED BY <3>2, <3>3
    <2>2. FirstLine(t) = SubSeq(s, i + 1, i + n)
      BY <1>4, <2>1 DEF FirstLine
    <2>3. LineEnd(s, i, i + n, i + n)
      <3>1. \A k \in 1..n : s[i + k] # "nl"
        BY <1>2, <1>4
      <3>2. ASSUME NEW k \in (i + 1)..(i + n) PROVE s[k] # "nl"
        <4>1. k - i \in 1..n /\ i + (k - i) = k
          BY <1>1
        <4> QED BY <3>1, <4>1
      <3> QED BY <1>1, <3>2 DEF LineEnd
    <2>4. i + n \in i..(i + n)
      BY <1>1
    <2> QED BY <2>2, <2>3, <2>4 DEF t, IsLine
  <1>5. CASE ends # {}
    <2> DEFINE first == CHOOSE k \in ends : \A m \in ends : k <= m
    <2>1. ends \in SUBSET Nat
      BY <1>2
    <2>2. first \in ends /\ \A m \in ends : first <= m
      BY <1>5, <2>1, LeastExists
    <2>3. FirstLine(t) = SubSeq(t, 1, first - 1)
      BY <1>5 DEF FirstLine
    <2> HIDE DEF first
    <2>4. first \in 1..n /\ t[first] = "nl" /\ \A k \in 1..(first - 1) : t[k] # "nl"
      BY <1>2, <2>2
    <2>5. FirstLine(t) = SubSeq(s, i + 1, i + (first - 1))
      BY <1>3, <2>3, <2>4
    <2>6. LineEnd(s, i, i + n, i + (first - 1))
      <3>1. ASSUME NEW k \in (i + 1)..(i + (first - 1)) PROVE s[k] # "nl"
        <4>1. k - i \in 1..(first - 1) /\ i + (k - i) = k /\ k - i \in 1..n
          BY <1>1, <2>4
        <4> QED BY <1>2, <2>4, <4>1
      <3>2. s[i + (first - 1) + 1] = "nl"
        <4>1. i + (first - 1) + 1 = i + first
          BY <2>4
        <4> QED BY <1>2, <2>4, <4>1
      <3> QED BY <1>1, <2>4, <3>1, <3>2 DEF LineEnd
    <2>7. i + (first - 1) \in i..(i + n)
      BY <1>1, <2>4
    <2> QED BY <2>5, <2>6, <2>7 DEF t, IsLine
  <1> QED BY <1>4, <1>5

(* The reply made of a chunk's first line answers the chunk. *)
LEMMA WithOkAnswers ==
  ASSUME NEW s \in Seq(Token), NEW i \in Nat, NEW j \in Nat, NEW line,
         j <= Len(s), IsLine(line, s, i, j)
  PROVE  AnswersChunk(WithOk(line), s, i, j)
  <1>0. PICK m \in i..j : LineEnd(s, i, j, m) /\ line = SubSeq(s, i + 1, m)
    BY DEF IsLine
  <1>1. m \in i..j /\ Len(s) \in Nat /\ BufSize \in Nat
    BY <1>0, Constants, LenProperties DEF LineEnd
  <1>2. \A k \in (i + 1)..m : s[k] \in Token
    BY <1>1, ElementOfSeq
  <1>3. Len(SubSeq(s, i + 1, m)) = m - i
    BY <1>1, <1>2, SubSeqProperties
  <1> QED BY <1>0, <1>1, <1>3 DEF WithOk, AnswersChunk

LEMMA StreamsInit == Init => Streams /\ Reasons
  <1> SUFFICES ASSUME Init PROVE Streams /\ Reasons
    OBVIOUS
  <1>1. \A c \in Conns : Unread(c)
    BY DEF Init, Unread
  <1>2. ASSUME NEW c \in Plain PROVE Stream(c)
    <2> DEFINE cut == [k \in 0..0 |-> 0]
    <2>1. /\ replies[c] = <<>> /\ outq[c] = <<>> /\ inq[c] = <<>> /\ said[c] = <<>>
          /\ peer[c] = "open" /\ step = "idle"
      BY <1>2, Constants DEF Init
    <2>2. Given(c) = <<>>
      <3>1. <<>> \in Seq(Reply)
        BY EmptySeq
      <3>2. <<>> \o <<>> \in Seq(Reply) /\ Len(<<>> \o <<>>) = 0
        BY <3>1, ConcatProperties
      <3> QED BY <2>1, <3>2, EmptySeq DEF Given
    <2>3. cut \in [0..0 -> Nat] /\ Chunks(c, 0, cut)
      BY <2>1, Constants DEF Chunks
    <2>4. InStep(c, 0, cut)
      BY <2>1, <2>2 DEF InStep, Owed, Handled
    <2> QED BY <2>3, <2>4 DEF Stream
  <1>3. Reasons
    BY DEF Init, Reasons
  <1> QED BY <1>1, <1>2, <1>3 DEF Streams

(* A step that neither sends to nor receives from client c, and may lose the *)
(* replies it has not read, keeps to the same chunks.                         *)
Keeps(c) ==
  /\ said'[c] = said[c] /\ inq'[c] = inq[c]
  /\ Len(Given(c)') <= Len(Given(c))
  /\ \A k \in 1..Len(Given(c)') : Given(c)'[k] = Given(c)[k]
  /\ Handled(c)' => Handled(c) /\ buf' = buf
  /\ peer'[c] = "open" /\ ev'[c] # "freed" =>
       /\ peer[c] = "open" /\ ev[c] # "freed"
       /\ Len(Given(c)') = Len(Given(c)) /\ (Handled(c)' <=> Handled(c))
  /\ peer'[c] = "pipe" =>
       /\ replies'[c] = replies[c]
       /\ peer[c] = "pipe" \/ (Handled(c) /\ ~Handled(c)')

LEMMA TakenFrame ==
  ASSUME TypeOK, NEW c \in Conns, NEW d \in Conns, c # d, NEW reply, Taken(c, reply)
  PROVE  outq'[d] = outq[d] /\ peer'[d] = peer[d]
  <1>0. DOMAIN outq = Conns /\ DOMAIN peer = Conns
        /\ outq = [x \in Conns |-> outq[x]] /\ peer = [x \in Conns |-> peer[x]]
    BY DEF TypeOK
  <1>1. CASE peer[c] = "open"
    <2>1. outq' = [outq EXCEPT ![c] = Append(@, reply)] /\ peer' = peer
      BY <1>1 DEF Taken
    <2> QED BY <1>0, <2>1
  <1>2. CASE peer[c] # "open"
    <2>1. outq' = outq /\ \E p \in {"fin", "pipe"} : peer' = [peer EXCEPT ![c] = p]
      BY <1>2 DEF Taken
    <2> QED BY <1>0, <2>1
  <1> QED BY <1>1, <1>2

LEMMA StreamFrame ==
  ASSUME TypeOK, TypeOK', NEW c \in Conns, Stream(c), Keeps(c)
  PROVE  Stream(c)'
  <1>0. PICK n \in Nat : \E cut \in [0..n -> Nat] : Chunks(c, n, cut) /\ InStep(c, n, cut)
    BY DEF Stream
  <1>1. PICK cut \in [0..n -> Nat] : Chunks(c, n, cut) /\ InStep(c, n, cut)
    BY <1>0
  <1>2. Chunks(c, n, cut)'
    BY <1>1 DEF Chunks, Keeps
  <1>3. /\ Len(Given(c)) \in Nat /\ Len(Given(c)') \in Nat /\ Len(replies[c]) \in Nat
        /\ Len(replies[c]) <= Len(Given(c))
    <2>1. /\ replies[c] \in Seq(Reply) /\ outq[c] \in Seq(Reply)
          /\ replies'[c] \in Seq(Reply) /\ outq'[c] \in Seq(Reply)
      BY DEF TypeOK
    <2>2. Given(c) = replies[c] \o outq[c] /\ Given(c)' = replies'[c] \o outq'[c]
      BY DEF Given
    <2>3. Given(c) \in Seq(Reply) /\ Len(Given(c)) = Len(replies[c]) + Len(outq[c])
      BY <2>1, <2>2, ConcatProperties
    <2>4. Given(c)' \in Seq(Reply)
      BY <2>1, <2>2, ConcatProperties
    <2>5. Len(Given(c)) \in Nat
      BY <2>3, LenProperties
    <2>6. Len(Given(c)') \in Nat
      BY <2>4, LenProperties
    <2>7. Len(replies[c]) \in Nat /\ Len(outq[c]) \in Nat
      BY <2>1, LenProperties
    <2>8. Len(replies[c]) <= Len(Given(c))
      <3>1. \A a, b \in Nat : a <= a + b
        OBVIOUS
      <3> QED BY <2>3, <2>7, <3>1
    <2> QED BY <2>5, <2>6, <2>7, <2>8
  <1>4. Owed(c) \in Nat /\ Owed(c)' \in Nat /\ Owed(c)' <= Owed(c)
    BY DEF Owed, Keeps
  <1>5. InStep(c, n, cut)'
    <2>1. Len(Given(c)') + Owed(c)' <= n
      BY <1>1, <1>3, <1>4 DEF InStep, Keeps
    <2>2. \A k \in 1..Len(Given(c)') :
            AnswersChunk(Given(c)'[k], said'[c], cut[k - 1], cut[k])
      <3>1. /\ \A k \in 1..Len(Given(c)) :
                 AnswersChunk(Given(c)[k], said[c], cut[k - 1], cut[k])
            /\ \A k \in 1..Len(Given(c)') : Given(c)'[k] = Given(c)[k]
            /\ Len(Given(c)') <= Len(Given(c)) /\ said'[c] = said[c]
        BY <1>1 DEF InStep, Keeps
      <3>2. ASSUME NEW k \in 1..Len(Given(c)') PROVE k \in 1..Len(Given(c))
        BY <1>3, <3>1
      <3>3. ASSUME NEW k \in 1..Len(Given(c)')
            PROVE  AnswersChunk(Given(c)'[k], said'[c], cut[k - 1], cut[k])
        <4>1. /\ AnswersChunk(Given(c)[k], said[c], cut[k - 1], cut[k])
              /\ Given(c)'[k] = Given(c)[k] /\ said'[c] = said[c]
          BY <3>1, <3>2
        <4> QED BY <4>1
      <3> QED BY <3>3
    <2>3. Handled(c)' => IsLine(buf', said'[c], cut[n - 1], cut[n])
      BY <1>1 DEF InStep, Keeps
    <2>4. peer'[c] = "open" /\ ev'[c] # "freed" => Len(Given(c)') + Owed(c)' = n
      BY <1>1 DEF InStep, Owed, Keeps
    <2>5. peer'[c] = "pipe" => Len(replies'[c]) + Owed(c)' + 1 <= n
      <3>1. CASE peer'[c] = "pipe" /\ peer[c] = "pipe"
        <4>1. Len(replies[c]) + Owed(c) + 1 <= n /\ replies'[c] = replies[c]
          BY <1>1, <3>1 DEF InStep, Keeps
        <4>2. Len(replies[c]) + Owed(c)' + 1 <= n
          <5>1. \A a, x, y \in Nat : a + x + 1 <= n /\ y <= x => a + y + 1 <= n
            OBVIOUS
          <5> QED BY <1>3, <1>4, <4>1, <5>1
        <4> QED BY <4>1, <4>2
      <3>2. CASE peer'[c] = "pipe" /\ Handled(c) /\ ~Handled(c)'
        <4>1. Owed(c) = 1 /\ Owed(c)' = 0 /\ replies'[c] = replies[c]
          BY <3>2 DEF Owed, Keeps
        <4>2. Len(Given(c)) + 1 <= n
          BY <1>1, <4>1 DEF InStep
        <4> QED BY <1>3, <4>1, <4>2
      <3> QED BY <3>1, <3>2 DEF Keeps
    <2> QED BY <2>1, <2>2, <2>3, <2>4, <2>5 DEF InStep
  <1> QED BY <1>2, <1>5 DEF Stream

(* recv takes the next chunk. *)
LEMMA StreamRecv ==
  ASSUME TypeOK, TypeOK', Events, NEW c \in Conns, Unread(c),
         NEW next \in {"reply", "cmd"}, c \in Plain => next = "reply",
         NEW n \in RecvSizes(c), Recv(c, next, n)
  PROVE  /\ Unread(c)'
         /\ n <= Len(said[c])
         /\ c \in Plain /\ Stream(c) => Stream(c)'
  <1> DEFINE q == inq[c]
             s == said[c]
             line == FirstLine(SubSeq(q, 1, n))
  <1>1. /\ inq' = [inq EXCEPT ![c] = SubSeq(q, n + 1, Len(q))]
        /\ \/ srv' = "exiting" /\ DropConn(c) /\ UNCHANGED handlers
           \/ cur' = c /\ step' = next /\ buf' = line /\ UNCHANGED ev
    BY DEF Recv
  <1>2. /\ UNCHANGED <<peer, outq, said, replies>>
        /\ q # <<>> /\ step = "idle" /\ ev[c] = "added"
    BY DEF Recv, Ready
  <1>3. q \in Seq(Token) /\ s \in Seq(Token) /\ Len(q) \in Nat /\ Len(s) \in Nat
    BY LenProperties DEF TypeOK
  <1>4. n \in 1..Len(q) /\ n <= BufSize
    <2>1. Len(q) \in Nat \ {0} /\ BufSize \in Nat \ {0} /\ world.split \in BOOLEAN
      BY <1>2, <1>3, EmptySeq, Constants DEF TypeOK
    <2> QED BY <2>1 DEF RecvSizes
  <1>5. /\ Len(inq'[c]) = Len(q) - n
        /\ \A k \in 1..(Len(q) - n) : inq'[c][k] = q[n + k]
    <2>1. \A k \in (n + 1)..Len(q) : q[k] \in Token
      BY <1>3, <1>4, ElementOfSeq
    <2>2. /\ Len(SubSeq(q, n + 1, Len(q))) = Len(q) - n
          /\ \A k \in 1..(Len(q) - n) : SubSeq(q, n + 1, Len(q))[k] = q[n + k]
      BY <1>3, <1>4, <2>1, SubSeqProperties
    <2>3. inq'[c] = SubSeq(q, n + 1, Len(q))
      BY <1>1 DEF TypeOK
    <2> QED BY <2>2, <2>3
  <1>6. Len(q) <= Len(s) /\ \A k \in 1..Len(q) : q[k] = s[Len(s) - Len(q) + k]
    BY DEF Unread
  <1>7. Unread(c)'
    <2>1. said'[c] = s
      BY <1>2
    <2> HIDE DEF q, s
    <2>2. ASSUME NEW k \in 1..(Len(q) - n)
          PROVE  inq'[c][k] = s[Len(s) - (Len(q) - n) + k]
      <3>1. n + k \in 1..Len(q) /\ Len(s) - Len(q) + (n + k) = Len(s) - (Len(q) - n) + k
        BY <1>3, <1>4
      <3>2. q[n + k] = s[Len(s) - Len(q) + (n + k)]
        BY <1>6, <3>1
      <3> QED BY <1>5, <3>1, <3>2
    <2>3. Len(q) - n <= Len(s)
      BY <1>3, <1>4, <1>6
    <2> QED BY <1>5, <2>1, <2>2, <2>3 DEF Unread
  <1>8. ASSUME c \in Plain, Stream(c) PROVE Stream(c)'
    <2>0. PICK n0 \in Nat :
            \E cut \in [0..n0 -> Nat] : Chunks(c, n0, cut) /\ InStep(c, n0, cut)
      BY <1>8 DEF Stream
    <2>1. PICK cut \in [0..n0 -> Nat] : Chunks(c, n0, cut) /\ InStep(c, n0, cut)
      BY <2>0
    <2> DEFINE at == cut[n0]
               more == [k \in 0..(n0 + 1) |-> IF k <= n0 THEN cut[k] ELSE at + n]
    <2>2. /\ at \in Nat /\ at + Len(q) = Len(s)
          /\ more \in [0..(n0 + 1) -> Nat]
          /\ \A k \in 0..n0 : more[k] = cut[k]
          /\ more[n0 + 1] = at + n
      BY <1>4, <2>1 DEF Chunks
    <2> HIDE DEF at, more
    <2>3. Chunks(c, n0 + 1, more)'
      <3>0. at = cut[n0]
        BY DEF at
      <3>1. more[0] = 0 /\ more[n0 + 1] + Len(inq'[c]) = Len(said'[c])
        <4>1. more[0] = 0
          BY <2>1, <2>2 DEF Chunks
        <4>2. said'[c] = s
          BY <1>2
        <4> HIDE DEF q, s
        <4>3. at + n + (Len(q) - n) = Len(s)
          <5>1. at \in Nat /\ at + Len(q) = Len(s)
            BY <2>2
          <5>2. Len(q) \in Nat /\ n \in Nat
            BY <1>3, <1>4
          <5> QED BY <5>1, <5>2
        <4>4. Len(inq'[c]) = Len(q) - n /\ more[n0 + 1] = at + n
          BY <1>5, <2>2
        <4> QED BY <4>1, <4>2, <4>3, <4>4
      <3>2. ASSUME NEW k \in 0..(n0 + 1) PROVE k <= more[k] /\ more[k] <= more[n0 + 1]
        <4>1. CASE k \in 0..n0
          BY <1>4, <2>1, <2>2, <3>0, <4>1 DEF Chunks
        <4>2. CASE k = n0 + 1
          <5>1. n0 <= at
            BY <2>1, <3>0 DEF Chunks
          <5> QED BY <1>4, <2>2, <4>2, <5>1
        <4> QED BY <4>1, <4>2
      <3>3. ASSUME NEW k \in 1..(n0 + 1)
            PROVE  more[k - 1] < more[k] /\ more[k] <= more[k - 1] + BufSize
        <4>1. CASE k \in 1..n0
          BY <2>1, <2>2, <4>1 DEF Chunks
        <4>2. CASE k = n0 + 1
          <5>1. more[k - 1] = at /\ more[k] = at + n
            BY <2>2, <3>0, <4>2
          <5> QED BY <1>4, <2>2, <5>1, Constants
        <4> QED BY <4>1, <4>2
      <3> QED BY <3>1, <3>2, <3>3 DEF Chunks
    <2>4. /\ Given(c)' = Given(c) /\ Len(Given(c)) \in Nat /\ Len(replies[c]) \in Nat
          /\ Len(Given(c)) <= n0 /\ Owed(c) = 0
      <3>1. replies[c] \in Seq(Reply) /\ outq[c] \in Seq(Reply)
        BY DEF TypeOK
      <3>2. Given(c) \in Seq(Reply) /\ Given(c)' = Given(c)
        BY <1>2, <3>1, ConcatProperties DEF Given
      <3>3. Owed(c) = 0
        BY <1>2 DEF Owed, Handled
      <3>4. Len(Given(c)) \in Nat /\ Len(replies[c]) \in Nat
        BY <3>1, <3>2, LenProperties
      <3> QED BY <2>1, <3>2, <3>3, <3>4 DEF InStep
    <2>5. InStep(c, n0 + 1, more)'
      <3>0. Owed(c)' \in {0, 1}
        BY DEF Owed
      <3>1. Len(Given(c)') + Owed(c)' <= n0 + 1
        BY <2>4, <3>0
      <3>2. \A k \in 1..Len(Given(c)') :
              AnswersChunk(Given(c)'[k], said'[c], more[k - 1], more[k])
        <4> SUFFICES ASSUME NEW k \in 1..Len(Given(c))
                     PROVE  AnswersChunk(Given(c)[k], s, more[k - 1], more[k])
          BY <1>2, <2>4
        <4>1. k \in 0..n0 /\ k - 1 \in 0..n0
          BY <2>4
        <4>2. AnswersChunk(Given(c)[k], s, cut[k - 1], cut[k])
          BY <2>1 DEF InStep
        <4> QED BY <2>2, <4>1, <4>2
      <3>3. Handled(c)' => IsLine(buf', said'[c], more[n0], more[n0 + 1])
        <4>1. Handled(c)' => buf' = line
          BY <1>1, <1>2 DEF Handled, handlers
        <4>2. \A k \in 1..Len(q) : q[k] = s[at + k]
          <5>1. Len(s) - Len(q) = at
            BY <1>3, <2>2
          <5> QED BY <1>6, <5>1
        <4>3. IsLine(line, s, at, at + n)
          BY <1>3, <1>4, <2>2, <4>2, FirstLineIs
        <4>4. more[n0] = at /\ more[n0 + 1] = at + n /\ said'[c] = s
          BY <1>2, <2>2 DEF at
        <4> HIDE DEF line, s
        <4> QED BY <4>1, <4>3, <4>4
      <3>4. peer'[c] = "open" /\ ev'[c] # "freed" => Len(Given(c)') + Owed(c)' = n0 + 1
        <4>1. ASSUME peer'[c] = "open", ev'[c] # "freed" PROVE Len(Given(c)') + Owed(c)' = n0 + 1
          <5>1. ~DropConn(c)
            BY <4>1 DEF DropConn, TypeOK
          <5>2. cur' = c /\ step' = next
            BY <1>1, <5>1
          <5>3. Owed(c)' = 1
            BY <1>8, <5>2 DEF Owed, Handled
          <5>4. Len(Given(c)) + Owed(c) = n0
            BY <1>2, <2>1, <4>1 DEF InStep
          <5> QED BY <2>4, <5>3, <5>4
        <4> QED BY <4>1
      <3>5. peer'[c] = "pipe" => Len(replies'[c]) + Owed(c)' + 1 <= n0 + 1
        BY <1>2, <2>1, <2>4, <3>0 DEF InStep
      <3>6. n0 + 1 - 1 = n0
        OBVIOUS
      <3> QED BY <3>1, <3>2, <3>3, <3>4, <3>5, <3>6 DEF InStep
    <2>6. n0 + 1 \in Nat
      OBVIOUS
    <2> QED BY <2>2, <2>3, <2>5, <2>6 DEF Stream
  <1> QED BY <1>3, <1>4, <1>6, <1>7, <1>8

(* A step that leaves the queues of a client alone, and its handler too or   *)
(* returns from it when the client is gone, keeps to the chunks.               *)
LEMMA KeepsQuiet ==
  ASSUME TypeOK, NEW c \in Conns,
         said'[c] = said[c], inq'[c] = inq[c], outq'[c] = outq[c],
         replies'[c] = replies[c], peer'[c] = peer[c],
         Handled(c)' => Handled(c) /\ buf' = buf,
         peer[c] = "open" => (Handled(c)' <=> Handled(c)),
         ev[c] = "freed" => ev'[c] = "freed"
  PROVE  Keeps(c)
  <1>1. Given(c)' = Given(c)
    BY DEF Given
  <1>2. Len(Given(c)) \in Nat
    <2>1. replies[c] \in Seq(Reply) /\ outq[c] \in Seq(Reply)
      BY DEF TypeOK
    <2>2. Given(c) \in Seq(Reply)
      BY <2>1, ConcatProperties DEF Given
    <2> QED BY <2>2, LenProperties
  <1> QED BY <1>1, <1>2 DEF Keeps

LEMMA ConcatAppend ==
  ASSUME NEW a \in Seq(Reply), NEW b \in Seq(Reply), NEW x \in Reply
  PROVE  a \o Append(b, x) = Append(a \o b, x)
  <1>1. << x >> \in Seq(Reply) /\ a \o b \in Seq(Reply)
    BY ConcatProperties
  <1>2. Append(b, x) = b \o << x >> /\ Append(a \o b, x) = (a \o b) \o << x >>
    BY <1>1, AppendIsConcat
  <1> QED BY <1>1, <1>2, ConcatAssociative

LEMMA ConsHeadTail ==
  ASSUME NEW a \in Seq(Reply), a # <<>>
  PROVE  a = << Head(a) >> \o Tail(a)
  <1>1. Len(a) \in Nat /\ Len(a) # 0
    BY EmptySeq, LenProperties
  <1>2. 1 \in 1..Len(a) /\ Len(a) \in 1..Len(a)
    BY <1>1
  <1>3. SubSeq(a, 1, Len(a)) = << a[1] >> \o SubSeq(a, 1 + 1, Len(a))
    BY <1>2, SubSeqRecursiveFirst
  <1> QED BY <1>3, SubSeqFull, TailIsSubSeq

LEMMA ReadMoves ==
  ASSUME NEW a \in Seq(Reply), NEW b \in Seq(Reply), b # <<>>
  PROVE  Append(a, Head(b)) \o Tail(b) = a \o b
  <1>1. Head(b) \in Reply /\ Tail(b) \in Seq(Reply) /\ b = << Head(b) >> \o Tail(b)
    BY HeadTailProperties, ConsHeadTail
  <1>2. << Head(b) >> \in Seq(Reply) /\ Append(a, Head(b)) = a \o << Head(b) >>
    BY <1>1, AppendIsConcat
  <1>3. (a \o << Head(b) >>) \o Tail(b) = a \o (<< Head(b) >> \o Tail(b))
    BY <1>1, <1>2, ConcatAssociative
  <1> QED BY <1>1, <1>2, <1>3

(* recv_handler's send, if the client takes the reply or has closed. *)
LEMMA StreamReply ==
  ASSUME TypeOK, TypeOK', Events, SendReply, NEW c \in Plain, c = cur, Stream(c)
  PROVE  Stream(c)'
  <1> DEFINE reply == WithOk(buf)
  <1>1. /\ c \in Conns /\ Handled(c) /\ ~Handled(c)' /\ ev[c] = "added"
        /\ UNCHANGED <<said, inq, replies>>
    BY Constants DEF SendReply, Handled, Return, Events, HandlerHasEvent
  <1>2. reply \in Reply /\ replies[c] \in Seq(Reply) /\ outq[c] \in Seq(Reply)
    BY <1>1, WithOkType DEF TypeOK
  <1>3. Given(c) \in Seq(Reply) /\ Len(Given(c)) \in Nat
    <2>1. Given(c) \in Seq(Reply)
      BY <1>2, ConcatProperties DEF Given
    <2> QED BY <2>1, LenProperties
  <1> HIDE DEF reply
  <1>4. CASE peer[c] = "open"
    <2>1. outq'[c] = Append(outq[c], reply) /\ UNCHANGED peer
      BY <1>1, <1>4 DEF SendReply, Taken, TypeOK, reply
    <2>2. /\ Len(Given(c)') = Len(Given(c)) + 1
          /\ \A k \in 1..Len(Given(c)) : Given(c)'[k] = Given(c)[k]
          /\ Given(c)'[Len(Given(c)) + 1] = reply
      <3>1. Given(c)' = replies[c] \o Append(outq[c], reply)
        BY <1>1, <2>1 DEF Given
      <3>2. Given(c)' = Append(Given(c), reply)
        BY <1>2, <3>1, ConcatAppend DEF Given
      <3> QED BY <1>2, <1>3, <3>2, AppendProperties
    <2>3. PICK n \in Nat : \E cut \in [0..n -> Nat] : Chunks(c, n, cut) /\ InStep(c, n, cut)
      BY DEF Stream
    <2>4. PICK cut \in [0..n -> Nat] : Chunks(c, n, cut) /\ InStep(c, n, cut)
      BY <2>3
    <2>5. Chunks(c, n, cut)'
      BY <1>1, <2>4 DEF Chunks
    <2>6. Len(Given(c)) + 1 = n /\ Owed(c)' = 0
      BY <1>1, <1>4, <2>4 DEF InStep, Owed
    <2>7. AnswersChunk(reply, said[c], cut[n - 1], cut[n])
      <3>1. IsLine(buf, said[c], cut[n - 1], cut[n])
        BY <1>1, <2>4 DEF InStep
      <3>2. said[c] \in Seq(Token) /\ inq[c] \in Seq(Token)
        BY <1>1 DEF TypeOK
      <3>3. n \in 1..n /\ cut[n - 1] \in Nat /\ cut[n] \in Nat
        BY <1>3, <2>6
      <3>4. cut[n] <= Len(said[c])
        <4>1. Len(inq[c]) \in Nat /\ Len(said[c]) \in Nat
          BY <3>2, LenProperties
        <4>2. cut[n] + Len(inq[c]) = Len(said[c])
          BY <2>4 DEF Chunks
        <4>3. \A a, b \in Nat : a <= a + b
          OBVIOUS
        <4> QED BY <3>3, <4>1, <4>2, <4>3
      <3> QED BY <3>1, <3>2, <3>3, <3>4, WithOkAnswers DEF reply
    <2>8. InStep(c, n, cut)'
      <3>1. ASSUME NEW k \in 1..Len(Given(c)')
            PROVE  AnswersChunk(Given(c)'[k], said'[c], cut[k - 1], cut[k])
        <4>1. CASE k \in 1..Len(Given(c))
          BY <1>1, <2>2, <2>4, <4>1 DEF InStep
        <4>2. CASE k = n
          BY <1>1, <2>2, <2>6, <2>7, <4>2
        <4> QED BY <1>3, <2>2, <2>6, <4>1, <4>2
      <3>2. peer'[c] = "open"
        BY <1>4, <2>1
      <3>3. Len(Given(c)') + Owed(c)' = n
        BY <1>3, <2>2, <2>6
      <3> QED BY <1>1, <3>1, <3>2, <3>3 DEF InStep
    <2> QED BY <2>5, <2>8 DEF Stream
  <1>5. CASE peer[c] # "open"
    <2>1. UNCHANGED outq /\ peer'[c] \in {"fin", "pipe"}
      BY <1>1, <1>5 DEF SendReply, Taken, TypeOK
    <2>2. Given(c)' = Given(c)
      BY <1>1, <2>1 DEF Given
    <2>3. Keeps(c)
      BY <1>1, <1>3, <2>1, <2>2 DEF Keeps
    <2> QED BY <1>1, <2>3, StreamFrame
  <1> QED BY <1>4, <1>5

(* A client reads a reply: it was already counted as given. *)
LEMMA StreamRead ==
  ASSUME TypeOK, TypeOK', NEW c \in Conns, ClientRead(c), Stream(c)
  PROVE  Stream(c)'
  <1>1. /\ peer[c] = "open" /\ outq[c] # <<>> /\ UNCHANGED <<handlers, ev, said, inq, peer>>
        /\ replies'[c] = Append(replies[c], Head(outq[c])) /\ outq'[c] = Tail(outq[c])
    BY DEF ClientRead, TypeOK
  <1>2. replies[c] \in Seq(Reply) /\ outq[c] \in Seq(Reply)
    BY DEF TypeOK
  <1>3. Given(c)' = Given(c)
    BY <1>1, <1>2, ReadMoves DEF Given
  <1>4. Len(Given(c)) \in Nat
    <2>1. Given(c) \in Seq(Reply)
      BY <1>2, ConcatProperties DEF Given
    <2> QED BY <2>1, LenProperties
  <1>5. Keeps(c)
    BY <1>1, <1>3, <1>4 DEF Keeps, Handled, handlers
  <1> QED BY <1>5, StreamFrame

(* A client closes: what it has not read is lost. *)
LEMMA StreamClose ==
  ASSUME TypeOK, TypeOK', NEW c \in Conns, ClientClose(c), Stream(c)
  PROVE  Stream(c)'
  <1>1. /\ peer'[c] \in {"fin", "rst"} /\ outq'[c] = <<>>
        /\ UNCHANGED <<handlers, said, inq, replies>>
    BY DEF ClientClose, TypeOK
  <1>2. replies[c] \in Seq(Reply) /\ outq[c] \in Seq(Reply)
    BY DEF TypeOK
  <1>3. Given(c)' = replies[c]
    BY <1>1, <1>2, ConcatEmptySeq DEF Given
  <1>4. /\ Len(replies[c]) <= Len(Given(c))
        /\ \A k \in 1..Len(replies[c]) : replies[c][k] = Given(c)[k]
    <2>1. Len(replies[c]) \in Nat /\ Len(outq[c]) \in Nat
      BY <1>2, LenProperties
    <2>2. /\ Len(Given(c)) = Len(replies[c]) + Len(outq[c])
          /\ \A k \in 1..(Len(replies[c]) + Len(outq[c])) :
               Given(c)[k] = IF k <= Len(replies[c]) THEN replies[c][k]
                             ELSE outq[c][k - Len(replies[c])]
      BY <1>2, ConcatProperties DEF Given
    <2> HIDE DEF Given
    <2>3. \A a, b \in Nat : a <= a + b /\ \A k \in 1..a : k \in 1..(a + b) /\ k <= a
      OBVIOUS
    <2> QED BY <2>1, <2>2, <2>3
  <1>5. Keeps(c)
    BY <1>1, <1>3, <1>4 DEF Keeps, Handled, handlers
  <1> QED BY <1>5, StreamFrame

(* A client sends: the chunks so far stay what they are. *)
LEMMA StreamSend ==
  ASSUME TypeOK, TypeOK', NEW c \in Conns, NEW r \in Seq(Token), ClientSend(c, r), Unread(c)
  PROVE  /\ Unread(c)' /\ Len(said'[c]) >= Len(said[c])
         /\ Stream(c) => Stream(c)'
  <1> DEFINE s == said[c]
             q == inq[c]
  <1>1. /\ said'[c] = s \o r /\ inq'[c] = q \o r /\ s \in Seq(Token) /\ q \in Seq(Token)
        /\ UNCHANGED <<handlers, ev, peer, outq, replies>>
    BY DEF ClientSend, TypeOK
  <1>2. /\ Len(s) \in Nat /\ Len(q) \in Nat /\ Len(r) \in Nat
        /\ Len(s \o r) = Len(s) + Len(r) /\ Len(q \o r) = Len(q) + Len(r)
        /\ \A k \in 1..(Len(s) + Len(r)) :
             (s \o r)[k] = IF k <= Len(s) THEN s[k] ELSE r[k - Len(s)]
        /\ \A k \in 1..(Len(q) + Len(r)) :
             (q \o r)[k] = IF k <= Len(q) THEN q[k] ELSE r[k - Len(q)]
    BY <1>1, LenProperties, ConcatProperties
  <1>3. Len(q) <= Len(s) /\ \A k \in 1..Len(q) : q[k] = s[Len(s) - Len(q) + k]
    BY DEF Unread
  <1>4. Unread(c)'
    <2> HIDE DEF s, q
    <2>1. ASSUME NEW k \in 1..(Len(q) + Len(r))
          PROVE  (q \o r)[k] = (s \o r)[(Len(s) + Len(r)) - (Len(q) + Len(r)) + k]
      <3> DEFINE at == (Len(s) + Len(r)) - (Len(q) + Len(r)) + k
      <3>1. at = Len(s) - Len(q) + k /\ at \in 1..(Len(s) + Len(r))
        BY <1>2, <1>3
      <3> HIDE DEF at
      <3>2. CASE k <= Len(q)
        <4>1. at <= Len(s) /\ k \in 1..Len(q)
          BY <1>2, <1>3, <3>1, <3>2
        <4>2. (s \o r)[at] = s[at] /\ (q \o r)[k] = q[k] /\ q[k] = s[at]
          BY <1>2, <1>3, <3>1, <3>2, <4>1
        <4> QED BY <4>2 DEF at
      <3>3. CASE ~(k <= Len(q))
        <4>1. ~(at <= Len(s)) /\ at - Len(s) = k - Len(q)
          BY <1>2, <1>3, <3>1, <3>3
        <4>2. (s \o r)[at] = r[at - Len(s)] /\ (q \o r)[k] = r[k - Len(q)]
          BY <1>2, <3>1, <3>3, <4>1
        <4> QED BY <4>1, <4>2 DEF at
      <3> QED BY <3>2, <3>3
    <2>2. Len(q) + Len(r) <= Len(s) + Len(r)
      BY <1>2, <1>3
    <2> QED BY <1>1, <1>2, <2>1, <2>2 DEF Unread
  <1>5. ASSUME Stream(c) PROVE Stream(c)'
    <2>1. PICK n \in Nat : \E cut \in [0..n -> Nat] : Chunks(c, n, cut) /\ InStep(c, n, cut)
      BY <1>5 DEF Stream
    <2>2. PICK cut \in [0..n -> Nat] : Chunks(c, n, cut) /\ InStep(c, n, cut)
      BY <2>1
    <2>3. /\ cut[n] + Len(q) = Len(s) /\ cut[n] \in Nat /\ cut[n] <= Len(s)
          /\ \A k \in 0..n : cut[k] \in Nat /\ cut[k] <= cut[n]
      <3>1. cut[n] + Len(q) = Len(s) /\ \A k \in 0..n : cut[k] \in Nat /\ cut[k] <= cut[n]
        BY <2>2 DEF Chunks
      <3>2. n \in 0..n
        OBVIOUS
      <3> QED BY <1>2, <3>1, <3>2
    <2>4. Chunks(c, n, cut)'
      <3> HIDE DEF s, q
      <3>1. cut[n] + (Len(q) + Len(r)) = Len(s) + Len(r)
        <4>1. \A a, b, x \in Nat : a + (b + x) = (a + b) + x
          OBVIOUS
        <4>2. Len(q) \in Nat /\ Len(r) \in Nat
          BY <1>2
        <4>3. PICK at \in Nat : at = cut[n] /\ at + Len(q) = Len(s)
          BY <2>3
        <4>4. at + (Len(q) + Len(r)) = Len(s) + Len(r)
          BY <4>1, <4>2, <4>3, SMTT(30)
        <4> QED BY <4>3, <4>4
      <3> QED BY <1>1, <1>2, <2>2, <3>1 DEF Chunks
    <2>5. Given(c)' = Given(c) /\ (Handled(c)' <=> Handled(c)) /\ Owed(c)' = Owed(c)
      BY <1>1 DEF Given, Owed, Handled, handlers
    <2>6. ASSUME NEW k \in 1..n, NEW reply, AnswersChunk(reply, s, cut[k - 1], cut[k])
          PROVE  AnswersChunk(reply, s \o r, cut[k - 1], cut[k])
      <3>1. cut[k - 1] \in Nat /\ cut[k] \in Nat /\ cut[k] <= Len(s)
        BY <1>2, <2>3
      <3> HIDE DEF s
      <3> QED BY <1>1, <2>6, <3>1, AnswerStays
    <2>7. ASSUME Handled(c) PROVE IsLine(buf, s \o r, cut[n - 1], cut[n])
      <3>1. IsLine(buf, s, cut[n - 1], cut[n])
        BY <2>2, <2>7 DEF InStep
      <3>2. n \in 1..n
        <4>1. Owed(c) = 1 /\ Len(Given(c)) \in Nat
          <5>1. replies[c] \in Seq(Reply) /\ outq[c] \in Seq(Reply)
            BY DEF TypeOK
          <5>2. Given(c) \in Seq(Reply)
            BY <5>1, ConcatProperties DEF Given
          <5> QED BY <2>7, <5>2, LenProperties DEF Owed
        <4> QED BY <2>2, <4>1 DEF InStep
      <3>3. cut[n - 1] \in Nat /\ cut[n] \in Nat /\ cut[n] <= Len(s)
        BY <2>3, <3>2
      <3> HIDE DEF s
      <3> QED BY <1>1, <3>1, <3>3, IsLineStays
    <2>8. InStep(c, n, cut)'
      <3>1. Len(Given(c)) \in Nat /\ Len(Given(c)) <= n
        <4>1. replies[c] \in Seq(Reply) /\ outq[c] \in Seq(Reply)
          BY DEF TypeOK
        <4>2. Given(c) \in Seq(Reply)
          BY <4>1, ConcatProperties DEF Given
        <4>3. Len(Given(c)) \in Nat /\ Owed(c) \in Nat
          BY <4>2, LenProperties DEF Owed
        <4> QED BY <2>2, <4>3 DEF InStep
      <3>2. \A k \in 1..Len(Given(c)) : AnswersChunk(Given(c)[k], s \o r, cut[k - 1], cut[k])
        <4>1. \A k \in 1..Len(Given(c)) : k \in 1..n
          BY <3>1
        <4> QED BY <2>2, <2>6, <4>1 DEF InStep
      <3>3. buf' = buf
        BY <1>1 DEF handlers
      <3> QED BY <1>1, <2>2, <2>5, <2>7, <3>2, <3>3 DEF InStep
    <2> QED BY <2>4, <2>8 DEF Stream
  <1> QED BY <1>1, <1>2, <1>4, <1>5

(* Every step keeps every stream. *)
LEMMA StreamsNext ==
  ASSUME TypeOK, TypeOK', Events, Streams, [Next]_vars
  PROVE  Streams'
  <1> USE Constants
  <1>a. (\A c \in Conns : Unread(c)) /\ (\A c \in Plain : Stream(c))
    BY DEF Streams
  <1>b. (step = "reply" => cur \in Plain) /\ (step \in {"cmd", "line"} => cur \in Cmd)
    BY DEF Events, InHandler
  <1>c. ASSUME NEW c \in Conns, said'[c] = said[c], inq'[c] = inq[c] PROVE Unread(c)'
    BY <1>a, <1>c DEF Unread
  <1>d. ASSUME NEW c \in Conns, said'[c] = said[c], inq'[c] = inq[c], outq'[c] = outq[c],
               replies'[c] = replies[c], peer'[c] = peer[c],
               Handled(c)' => Handled(c) /\ buf' = buf,
               peer[c] = "open" => (Handled(c)' <=> Handled(c)),
               ev[c] = "freed" => ev'[c] = "freed"
        PROVE  Unread(c)' /\ (c \in Plain => Stream(c)')
    BY <1>a, <1>c, <1>d, KeepsQuiet, StreamFrame
  <1>e. ASSUME UNCHANGED <<said, inq, outq, replies, peer>>,
               \A c \in Plain : /\ Handled(c)' => Handled(c) /\ buf' = buf
                                /\ peer[c] = "open" => (Handled(c)' <=> Handled(c))
                                /\ ev[c] = "freed" => ev'[c] = "freed"
        PROVE  Streams'
    <2>1. \A c \in Conns : Unread(c)'
      BY <1>c, <1>e
    <2>2. \A c \in Plain : Stream(c)'
      BY <1>d, <1>e
    <2> QED BY <2>1, <2>2 DEF Streams
  <1>f. ASSUME NEW c \in Conns, Unread(c)', c \in Plain => Stream(c)',
               \A d \in Conns \ {c} : Unread(d)' /\ (d \in Plain => Stream(d)')
        PROVE  Streams'
    BY <1>f DEF Streams
  <1>1. ASSUME NEW c \in Conns, Accept(c) PROVE Streams'
    <2>1. /\ UNCHANGED <<handlers, said, inq, outq, replies, peer>>
          /\ ev[c] = "none" /\ \A d \in Conns \ {c} : ev'[d] = ev[d]
      BY <1>1 DEF Accept, Events, NotAccepted, TypeOK
    <2> QED BY <1>e, <2>1 DEF Handled, handlers
  <1>2. ASSUME NEW c \in Conns, RecvEnd(c) PROVE Streams'
    <2>1. /\ UNCHANGED <<handlers, said, inq, outq, replies, peer>>
          /\ \A d \in Conns : ev[d] = "freed" => ev'[d] = "freed"
      BY <1>2 DEF RecvEnd, DropConn, kernel, TypeOK
    <2> QED BY <1>e, <2>1 DEF Handled, handlers
  <1>3. ASSUME NEW c \in Conns, NEW next \in {"reply", "cmd"}, c \in Plain => next = "reply",
               next = "cmd" => c \in Cmd, NEW n \in RecvSizes(c), Recv(c, next, n)
        PROVE  Streams'
    <2>1. Unread(c)' /\ (c \in Plain => Stream(c)')
      BY <1>a, <1>3, StreamRecv
    <2>2. ASSUME NEW d \in Conns \ {c} PROVE Unread(d)' /\ (d \in Plain => Stream(d)')
      <3>1. /\ step = "idle" /\ UNCHANGED <<said, outq, replies, peer>> /\ inq'[d] = inq[d]
            /\ ev'[d] = ev[d]
            /\ UNCHANGED handlers \/ cur' = c
        <4>1. step = "idle" /\ UNCHANGED <<said, outq, replies, peer>>
          BY <1>3 DEF Recv, Ready
        <4>2. inq'[d] = inq[d]
          BY <1>3, <2>2 DEF Recv, TypeOK
        <4>3. ev'[d] = ev[d]
          BY <1>3, <2>2, SMTT(30) DEF Recv, DropConn, TypeOK
        <4>4. UNCHANGED handlers \/ cur' = c
          BY <1>3 DEF Recv
        <4> QED BY <4>1, <4>2, <4>3, <4>4
      <3>2. ~Handled(d) /\ ~Handled(d)'
        BY <2>2, <3>1 DEF Handled, handlers
      <3> QED BY <1>d, <3>1, <3>2
    <2> QED BY <1>f, <2>1, <2>2
  <1>4. CASE SendReply
    <2>1. PICK c \in Plain : c = cur
      BY <1>b, <1>4 DEF SendReply
    <2>2. Stream(c)' /\ Unread(c)'
      BY <1>a, <1>c, <1>4, <2>1, StreamReply DEF SendReply
    <2>3. ASSUME NEW d \in Conns \ {c} PROVE Unread(d)' /\ (d \in Plain => Stream(d)')
      <3>1. /\ UNCHANGED <<said, inq, replies, ev>> /\ step' = "idle"
            /\ outq'[d] = outq[d] /\ peer'[d] = peer[d]
        <4>1. /\ UNCHANGED <<said, inq, replies, ev>> /\ step' = "idle"
              /\ Taken(c, WithOk(buf))
          BY <1>4, <2>1 DEF SendReply, Return
        <4>2. outq'[d] = outq[d] /\ peer'[d] = peer[d]
          BY <2>1, <2>3, <4>1, TakenFrame
        <4> QED BY <4>1, <4>2
      <3>2. ~Handled(d) /\ ~Handled(d)'
        BY <2>1, <2>3, <3>1 DEF Handled
      <3> QED BY <1>d, <3>1, <3>2
    <2> QED BY <1>f, <2>1, <2>2, <2>3
  <1>5. CASE SendReplyFails
    <2>1. /\ UNCHANGED <<said, inq, outq, replies, peer>> /\ step' = "idle"
          /\ peer[cur] = "rst" /\ \A d \in Conns : ev[d] = "freed" => ev'[d] = "freed"
      BY <1>5 DEF SendReplyFails, DropConn, Return, kernel, TypeOK
    <2> QED BY <1>e, <2>1 DEF Handled
  <1>6. CASE ReplySigpipe \/ LineSigpipe
    <2>1. UNCHANGED <<handlers, ev, said, inq, outq, replies, peer>>
      BY <1>6 DEF ReplySigpipe, LineSigpipe, Sigpipe, kernel
    <2> QED BY <1>e, <2>1 DEF Handled, handlers
  <1>7. ASSUME step \in {"cmd", "line"}, step' \in {"idle", "cmd", "line"},
               UNCHANGED <<said, inq, replies>>,
               \A d \in Plain : outq'[d] = outq[d] /\ peer'[d] = peer[d] /\ ev'[d] = ev[d]
        PROVE  Streams'
    <2>1. \A d \in Conns : ~Handled(d) /\ ~Handled(d)'
      BY <1>7 DEF Handled
    <2>2. \A d \in Conns : Unread(d)'
      BY <1>c, <1>7
    <2>3. \A d \in Plain : Stream(d)'
      BY <1>d, <1>7, <2>1
    <2> QED BY <2>2, <2>3 DEF Streams
  <1>g. step \in {"cmd", "line"} => \A d \in Plain : d # cur
    BY <1>b
  <1>8. CASE PopenFails \/ SendLineFails
    <2>1. /\ step \in {"cmd", "line"} /\ step' = step
          /\ UNCHANGED <<said, inq, replies, outq, peer>> /\ DropConn(cur)
      BY <1>8 DEF PopenFails, SendLineFails, kernel, handlers
    <2>2. \A d \in Plain : ev'[d] = ev[d]
      BY <1>g, <2>1 DEF DropConn, TypeOK
    <2> QED BY <1>7, <2>1, <2>2
  <1>9. CASE Popen \/ SendLineAgain \/ CmdDone
    <2>1. /\ step \in {"cmd", "line"} /\ step' \in {"idle", "line"}
          /\ UNCHANGED <<said, inq, replies, outq, peer, ev>>
      BY <1>9 DEF Popen, SendLineAgain, CmdDone, Return, kernel
    <2> QED BY <1>7, <2>1
  <1>10. CASE SendLine
    <2>1. step = "line" /\ step' = "line" /\ UNCHANGED <<said, inq, replies, ev>>
      BY <1>10 DEF SendLine
    <2>2. \A d \in Plain : outq'[d] = outq[d] /\ peer'[d] = peer[d]
      <3>1. PICK text : Taken(cur, text)
        BY <1>10 DEF SendLine
      <3>2. ASSUME NEW d \in Plain PROVE outq'[d] = outq[d] /\ peer'[d] = peer[d]
        <4>1. d # cur
          BY <1>g, <2>1
        <4>2. step = "line" /\ step # "idle"
          BY <2>1
        <4>3. cur \in Conns
          BY <4>2 DEF Events, InHandler
        <4> QED BY <3>1, <4>1, <4>3, TakenFrame
      <3> QED BY <3>2
    <2> QED BY <1>7, <2>1, <2>2
  <1>11. CASE LoopExit
    <2>1. UNCHANGED <<handlers, ev, said, inq, outq, replies, peer>>
      BY <1>11 DEF LoopExit, kernel
    <2> QED BY <1>e, <2>1 DEF Handled, handlers
  <1>12. ASSUME NEW c \in Conns, Connect(c) PROVE Streams'
    <2>1. UNCHANGED <<handlers, ev, said, inq, outq, replies, peer>>
      BY <1>12 DEF Connect
    <2> QED BY <1>e, <2>1 DEF Handled, handlers
  <1>13. ASSUME NEW c \in Conns, NEW r \in world.requests, ClientSend(c, r) PROVE Streams'
    <2>1. Unread(c)' /\ (c \in Plain => Stream(c)')
      <3>1. r \in Seq(Token)
        BY DEF TypeOK
      <3> QED BY <1>a, <1>13, <3>1, StreamSend
    <2>2. ASSUME NEW d \in Conns \ {c} PROVE Unread(d)' /\ (d \in Plain => Stream(d)')
      <3>1. /\ UNCHANGED <<handlers, ev, outq, replies, peer>>
            /\ said'[d] = said[d] /\ inq'[d] = inq[d]
        BY <1>13, <2>2 DEF ClientSend, TypeOK
      <3> QED BY <1>d, <3>1 DEF Handled, handlers
    <2> QED BY <1>f, <2>1, <2>2
  <1>14. ASSUME NEW c \in Conns, ClientRead(c) \/ ClientClose(c) PROVE Streams'
    <2>1. Unread(c)' /\ (c \in Plain => Stream(c)')
      <3>1. CASE ClientRead(c)
        BY <1>a, <1>c, <3>1, StreamRead DEF ClientRead
      <3>2. CASE ClientClose(c)
        BY <1>a, <1>c, <3>2, StreamClose DEF ClientClose
      <3> QED BY <1>14, <3>1, <3>2
    <2>2. ASSUME NEW d \in Conns \ {c} PROVE Unread(d)' /\ (d \in Plain => Stream(d)')
      <3>1. /\ UNCHANGED <<handlers, ev>> /\ said'[d] = said[d] /\ inq'[d] = inq[d]
            /\ outq'[d] = outq[d] /\ replies'[d] = replies[d] /\ peer'[d] = peer[d]
        <4>1. CASE ClientRead(c)
          BY <2>2, <4>1 DEF ClientRead, TypeOK
        <4>2. CASE ClientClose(c)
          BY <2>2, <4>2 DEF ClientClose, TypeOK
        <4> QED BY <1>14, <4>1, <4>2
      <3> QED BY <1>d, <3>1 DEF Handled, handlers
    <2> QED BY <1>f, <2>1, <2>2
  <1>15. CASE UNCHANGED vars
    <2>1. UNCHANGED <<handlers, ev, said, inq, outq, replies, peer>>
      BY <1>15 DEF vars, kernel
    <2> QED BY <1>e, <2>1 DEF Handled, handlers
  <1>16. CASE recv_handler
    <2>1. ASSUME NEW c \in Plain, Receive(c, "reply") PROVE Streams'
      BY <1>2, <1>3, <2>1 DEF Receive
    <2> QED BY <1>4, <1>5, <1>6, <1>16, <2>1 DEF recv_handler
  <1>17. CASE receive_cmd
    <2>1. ASSUME NEW c \in Cmd, Receive(c, "cmd") PROVE Streams'
      BY <1>2, <1>3, <2>1 DEF Receive
    <2> QED BY <1>6, <1>8, <1>9, <1>10, <1>17, <2>1 DEF receive_cmd
  <1>18. CASE accept_handler \/ accept_cmd
    BY <1>1, <1>18 DEF accept_handler, accept_cmd
  <1>19. ASSUME NEW c \in Conns, Client(c) PROVE Streams'
    BY <1>12, <1>13, <1>14, <1>19 DEF Client
  <1> QED BY <1>11, <1>15, <1>16, <1>17, <1>18, <1>19 DEF Next, Server

(* Every step keeps the reasons for which the server stops or writes behind  *)
(* its buffer.                                                                *)
LEMMA ReasonsNext ==
  ASSUME TypeOK, TypeOK', Events, Streams, Reasons, [Next]_vars
  PROVE  Reasons'
  <1> USE Constants
  <1>a. ASSUME UNCHANGED <<srv, step, cur, said, overrun, asked, corrupt, world>>,
               \A c \in Conns : peer[c] = "pipe" => peer'[c] = "pipe"
        PROVE  Reasons'
    BY <1>a DEF Reasons, Handled
  <1>b. ASSUME Alive, srv' \in {srv, "exiting"}, srv' = "exiting" /\ srv # "exiting" => asked',
               UNCHANGED <<said, world>>, asked => asked', overrun' = overrun
        PROVE  Reasons'
    BY <1>b DEF Reasons, Alive
  <1>1. ASSUME NEW c \in Conns, Accept(c) PROVE Reasons'
    BY <1>1, <1>a DEF Accept, handlers
  <1>2. ASSUME NEW c \in Conns, RecvEnd(c) PROVE Reasons'
    BY <1>2, <1>a DEF RecvEnd, handlers, kernel, flags
  <1>3. ASSUME NEW c \in Conns, NEW next \in {"reply", "cmd"}, c \in Plain => next = "reply",
               NEW n \in RecvSizes(c), Recv(c, next, n)
        PROVE  Reasons'
    <2>1. n <= Len(said[c])
      BY <1>3, StreamRecv DEF Streams
    <2>2. /\ Alive /\ UNCHANGED <<said, world>> /\ overrun' = (overrun \/ n = BufSize)
          /\ \/ asked' = TRUE /\ srv' = "exiting"
             \/ UNCHANGED <<srv, asked>>
      BY <1>3 DEF Recv, Ready
    <2>3. overrun' => \E d \in Conns : Len(said[d]) >= BufSize
      BY <1>3, <2>1, <2>2 DEF Reasons
    <2> QED BY <2>2, <2>3 DEF Reasons, Alive
  <1>4. ASSUME NEW c \in Conns, Sigpipe(c), c = cur, step \in {"reply", "line"} PROVE Reasons'
    <2>1. /\ peer[c] = "pipe" /\ srv' = "killed"
          /\ UNCHANGED <<step, cur, said, peer, overrun, asked, corrupt, world>>
      BY <1>4 DEF Sigpipe, handlers, kernel, flags
    <2>2. c \in Plain => Handled(c)'
      BY <1>4, <2>1 DEF Handled, Events, InHandler
    <2> QED BY <2>1, <2>2 DEF Reasons
  <1>5. CASE SendReply \/ SendReplyFails \/ Popen \/ SendLine \/ SendLineFails \/ CmdDone
    <2>1. Alive /\ UNCHANGED <<srv, said, world, asked, overrun, corrupt>>
      BY <1>5 DEF SendReply, SendReplyFails, Popen, SendLine, SendLineFails, CmdDone, flags
    <2> QED BY <1>b, <2>1 DEF Alive
  <1>6. CASE PopenFails
    <2>1. srv' = "crashed" /\ world.allocMayFail /\ UNCHANGED <<said, world, overrun>>
      BY <1>6 DEF PopenFails, flags
    <2> QED BY <2>1 DEF Reasons
  <1>7. CASE SendLineAgain
    <2>1. /\ Alive /\ srv' \in {srv, "crashed"} /\ corrupt' = TRUE
          /\ UNCHANGED <<said, world, overrun, asked>>
      BY <1>7 DEF SendLineAgain
    <2> QED BY <2>1 DEF Reasons, Alive
  <1>8. CASE LoopExit
    <2>1. srv = "exiting" /\ srv' = "exited" /\ UNCHANGED <<said, world, overrun, asked>>
      BY <1>8 DEF LoopExit, flags
    <2> QED BY <2>1 DEF Reasons
  <1>9. ASSUME NEW c \in Conns, Connect(c) \/ ClientRead(c) PROVE Reasons'
    BY <1>9, <1>a DEF Connect, ClientRead, handlers, flags
  <1>10. ASSUME NEW c \in Conns, ClientClose(c) PROVE Reasons'
    BY <1>10, <1>a DEF ClientClose, handlers, flags, TypeOK
  <1>11. ASSUME NEW c \in Conns, NEW r \in world.requests, ClientSend(c, r) PROVE Reasons'
    <2>1. r \in Seq(Token) /\ Unread(c)
      BY DEF TypeOK, Streams
    <2>2. Len(said'[c]) >= Len(said[c])
      BY <1>11, <2>1, StreamSend
    <2>3. /\ UNCHANGED <<srv, step, cur, peer, overrun, asked, corrupt, world>>
          /\ \A d \in Conns \ {c} : said'[d] = said[d]
      BY <1>11 DEF ClientSend, handlers, flags, TypeOK
    <2>4. \A d \in Conns : Len(said[d]) \in Nat /\ Len(said'[d]) \in Nat
      BY LenProperties DEF TypeOK
    <2>5. ASSUME NEW d \in Conns, Len(said[d]) >= BufSize PROVE Len(said'[d]) >= BufSize
      BY <2>2, <2>3, <2>4, <2>5
    <2>6. overrun' => \E d \in Conns : Len(said'[d]) >= BufSize
      BY <2>3, <2>5 DEF Reasons
    <2> QED BY <2>3, <2>6 DEF Reasons, Handled
  <1>12. CASE UNCHANGED vars
    BY <1>12, <1>a DEF vars, handlers, kernel, flags
  <1>13. CASE recv_handler
    <2>1. ASSUME NEW c \in Plain, Receive(c, "reply") PROVE Reasons'
      BY <1>2, <1>3, <2>1 DEF Receive
    <2>2. CASE ReplySigpipe
      BY <1>4, <2>2 DEF ReplySigpipe, Events, InHandler
    <2> QED BY <1>5, <1>13, <2>1, <2>2 DEF recv_handler
  <1>14. CASE receive_cmd
    <2>1. ASSUME NEW c \in Cmd, Receive(c, "cmd") PROVE Reasons'
      BY <1>2, <1>3, <2>1 DEF Receive
    <2>2. CASE LineSigpipe
      BY <1>4, <2>2 DEF LineSigpipe, Events, InHandler
    <2> QED BY <1>5, <1>6, <1>7, <1>14, <2>1, <2>2 DEF receive_cmd
  <1>15. CASE accept_handler \/ accept_cmd
    BY <1>1, <1>15 DEF accept_handler, accept_cmd
  <1>16. ASSUME NEW c \in Conns, Client(c) PROVE Reasons'
    BY <1>9, <1>10, <1>11, <1>16 DEF Client
  <1> QED BY <1>8, <1>12, <1>13, <1>14, <1>15, <1>16 DEF Next, Server

LEMMA StreamInvariance == Spec => [](TypeOK /\ Events /\ Streams /\ Reasons)
  <1>1. Init => Streams /\ Reasons
    BY StreamsInit
  <1>2. TypeOK /\ TypeOK' /\ Events /\ Streams /\ Reasons /\ [Next]_vars
          => Streams' /\ Reasons'
    BY StreamsNext, ReasonsNext
  <1> QED BY <1>1, <1>2, Invariance, PTL DEF Spec

(* Whatever a service client sends, in whatever pieces recv gets it, with or  *)
(* without waiting: recv_handler's replies are the first lines of consecutive *)
(* chunks of what it sent, each no longer than the buffer, in order, one reply *)
(* per chunk, and no chunk is left out while the client is served; and the     *)
(* byte behind the buffer is written only after some client sent a whole one.  *)
THEOREM RepliesFollowWhatWasSent == Spec => []RepliesFollowTheStream
  <1>1. TypeOK /\ Streams /\ Reasons => RepliesFollowTheStream
    <2> SUFFICES ASSUME TypeOK, Streams, Reasons, NEW c \in Plain
                 PROVE  \E cut \in [0..Len(replies[c]) -> 0..Len(said[c])] :
                          /\ cut[0] = 0
                          /\ \A k \in 1..Len(replies[c]) :
                               /\ cut[k - 1] < cut[k] /\ cut[k] <= cut[k - 1] + BufSize
                               /\ AnswersChunk(replies[c][k], said[c], cut[k - 1], cut[k])
                          /\ Settled(c) => cut[Len(replies[c])] = Len(said[c])
      BY DEF RepliesFollowTheStream, Reasons
    <2>1. PICK n \in Nat : \E full \in [0..n -> Nat] : Chunks(c, n, full) /\ InStep(c, n, full)
      BY DEF Streams, Stream
    <2>2. PICK full \in [0..n -> Nat] : Chunks(c, n, full) /\ InStep(c, n, full)
      BY <2>1
    <2>3. /\ replies[c] \in Seq(Reply) /\ outq[c] \in Seq(Reply)
          /\ inq[c] \in Seq(Token) /\ said[c] \in Seq(Token)
      BY Constants DEF TypeOK
    <2>4. /\ Len(replies[c]) \in Nat /\ Len(inq[c]) \in Nat /\ Len(said[c]) \in Nat
      BY <2>3, LenProperties
    <2> DEFINE m == Len(replies[c])
               cut == [k \in 0..m |-> full[k]]
    <2>5. /\ m <= Len(Given(c)) /\ Len(Given(c)) \in Nat
          /\ \A k \in 1..m : Given(c)[k] = replies[c][k]
          /\ outq[c] = <<>> => Len(Given(c)) = m
      <3>1. Len(outq[c]) \in Nat /\ (outq[c] = <<>> => Len(outq[c]) = 0)
        BY <2>3, LenProperties
      <3>2. /\ Len(Given(c)) = m + Len(outq[c])
            /\ \A k \in 1..(m + Len(outq[c])) :
                 Given(c)[k] = IF k <= m THEN replies[c][k] ELSE outq[c][k - m]
        BY <2>3, ConcatProperties DEF Given
      <3>3. \A a, b \in Nat : /\ a <= a + b /\ a + b \in Nat /\ (b = 0 => a + b = a)
                              /\ \A k \in 1..a : k \in 1..(a + b) /\ k <= a
        OBVIOUS
      <3> HIDE DEF Given, m
      <3>4. m \in Nat
        BY <2>4 DEF m
      <3> QED BY <3>1, <3>2, <3>3, <3>4
    <2>6. m <= n /\ m \in Nat
      <3>1. Owed(c) \in Nat
        BY DEF Owed
      <3>2. Len(Given(c)) + Owed(c) <= n
        BY <2>2 DEF InStep
      <3> QED BY <2>4, <2>5, <3>1, <3>2
    <2>7. \A k \in 0..n : full[k] \in 0..Len(said[c])
      <3>1. n \in 0..n /\ full[n] \in Nat /\ full[n] + Len(inq[c]) = Len(said[c])
        BY <2>2 DEF Chunks
      <3>2. \A k \in 0..n : full[k] \in Nat /\ full[k] <= full[n]
        BY <2>2 DEF Chunks
      <3>3. \A a, b, x \in Nat : x <= a => x \in 0..(a + b)
        OBVIOUS
      <3> QED BY <2>4, <3>1, <3>2, <3>3
    <2> HIDE DEF m
    <2>8. \A k \in 0..m : k \in 0..n /\ cut[k] = full[k]
      BY <2>6
    <2>9. cut \in [0..m -> 0..Len(said[c])]
      BY <2>7, <2>8
    <2>10. cut[0] = 0
      BY <2>2, <2>6, <2>8 DEF Chunks
    <2>11. ASSUME NEW k \in 1..m
           PROVE  /\ cut[k - 1] < cut[k] /\ cut[k] <= cut[k - 1] + BufSize
                  /\ AnswersChunk(replies[c][k], said[c], cut[k - 1], cut[k])
      <3>1. k \in 1..n /\ k \in 0..m /\ k - 1 \in 0..m
        BY <2>6
      <3>2. cut[k] = full[k] /\ cut[k - 1] = full[k - 1]
        BY <2>8, <3>1
      <3>3. full[k - 1] < full[k] /\ full[k] <= full[k - 1] + BufSize
        BY <2>2, <3>1 DEF Chunks
      <3>4. AnswersChunk(Given(c)[k], said[c], full[k - 1], full[k])
        <4>1. k \in 1..Len(Given(c))
          BY <2>5, <2>6
        <4> QED BY <2>2, <4>1 DEF InStep
      <3> QED BY <2>5, <3>2, <3>3, <3>4
    <2>12. ASSUME Settled(c) PROVE cut[m] = Len(said[c])
      <3>1. Len(Given(c)) = m /\ Owed(c) = 0 /\ inq[c] = <<>>
        BY <2>5, <2>12 DEF Settled, Owed, Handled
      <3>2. Len(Given(c)) + Owed(c) = n
        BY <2>2, <2>12 DEF InStep, Settled
      <3>3. m = n
        BY <2>6, <3>1, <3>2
      <3>4. full[n] + Len(inq[c]) = Len(said[c]) /\ Len(inq[c]) = 0 /\ full[n] \in Nat
        BY <2>2, <3>1 DEF Chunks
      <3> QED BY <2>6, <2>8, <3>3, <3>4
    <2> HIDE DEF cut
    <2> QED BY <2>9, <2>10, <2>11, <2>12 DEF m
  <1> QED BY <1>1, StreamInvariance, PTL

-----------------------------------------------------------------------------
(* Clients that wait for their replies.                                      *)

(* Where the last request of a waiting client can be: all are answered, or    *)
(* the last one is on its way in, in the hands of recv_handler, answered and   *)
(* on its way out, or was the one that ended the server.                        *)
LastReq(c) == reqs[c][Len(reqs[c])]
Answered(c) ==
  Len(replies[c]) = Len(reqs[c]) /\ inq[c] = <<>> /\ outq[c] = <<>> /\ ~Handled(c)
OnItsWayIn(c) == inq[c] = LastReq(c) /\ outq[c] = <<>> /\ ~Handled(c)
InHand(c) == inq[c] = <<>> /\ outq[c] = <<>> /\ Handled(c)
OnItsWayOut(c) == inq[c] = <<>> /\ Len(outq[c]) = 1 /\ ~Handled(c)
WasTheLast(c) == inq[c] = <<>> /\ outq[c] = <<>> /\ ~Handled(c)
Waiting(c) ==
  /\ Len(reqs[c]) = Len(replies[c]) + 1 /\ peer[c] = "open"
  /\ LastReq(c) \in world.requests
  /\ OnItsWayIn(c) \/ InHand(c) \/ OnItsWayOut(c) \/ WasTheLast(c)

ClientOK(c) == Answered(c) \/ Waiting(c)

(* The invariant of a world whose clients wait. *)
Clients ==
  /\ \A c \in Conns : c \notin world.clients => link[c] = "new"
  /\ \A c \in Plain : ClientOK(c)
  /\ step \in {"idle", "reply"}
  /\ srv # "running" => asked /\ srv \in {"exiting", "exited"}
PoliteClients == world.polite => Clients

(* A step that leaves a client's queues and its handler alone leaves it OK. *)
LEMMA Frame ==
  ASSUME NEW c, ClientOK(c),
         inq'[c] = inq[c], outq'[c] = outq[c], peer'[c] = peer[c],
         reqs'[c] = reqs[c], replies'[c] = replies[c], world' = world,
         Handled(c)' <=> Handled(c)
  PROVE  ClientOK(c)'
  <1>1. LastReq(c)' = LastReq(c)
    BY DEF LastReq
  <1>2. Answered(c) => Answered(c)'
    BY DEF Answered
  <1>3. Waiting(c) => Waiting(c)'
    BY <1>1 DEF Waiting, OnItsWayIn, InHand, OnItsWayOut, WasTheLast
  <1> QED BY <1>2, <1>3 DEF ClientOK

(* What a waiting client sends arrives whole. *)
LEMMA RecvWhole ==
  ASSUME PoliteWorlds, TypeOK, world.polite, NEW c \in Conns,
         Waiting(c), OnItsWayIn(c), NEW n \in RecvSizes(c)
  PROVE  SubSeq(inq[c], n + 1, Len(inq[c])) = <<>>
  <1> DEFINE r == LastReq(c)
  <1>1. r \in world.requests /\ inq[c] = r /\ world \in Worlds
    BY DEF Waiting, OnItsWayIn, TypeOK
  <1>2. Len(r) <= BufSize /\ ~world.split
    BY <1>1 DEF PoliteWorlds
  <1>3. r \in Seq(Token)
    BY <1>1 DEF TypeOK
  <1>4. Len(r) \in Nat
    BY <1>3, LenProperties
  <1>5. n = Len(r)
    BY <1>1, <1>2, <1>4, Constants DEF RecvSizes
  <1>6. SubSeq(r, Len(r) + 1, Len(r)) = <<>>
    BY <1>4, SubSeqEmpty
  <1> QED BY <1>1, <1>5, <1>6

LEMMA ClientsInit == Init => PoliteClients
  <1> SUFFICES ASSUME Init PROVE Clients
    BY DEF PoliteClients
  <1>1. \A c \in Plain : ClientOK(c)
    BY Constants DEF Init, ClientOK, Answered, Handled
  <1> QED BY <1>1 DEF Init, Clients

LEMMA ClientsNext ==
  ASSUME PoliteWorlds, TypeOK, Events, PoliteClients, [Next]_vars
  PROVE  PoliteClients'
  <1>0. world' = world
    <2>1. Server => world' = world
      BY DEF Server, accept_handler, accept_cmd, recv_handler, receive_cmd, LoopExit,
             Accept, Receive, RecvEnd, Recv, SendReply, SendReplyFails, ReplySigpipe,
             LineSigpipe, Sigpipe, PopenFails, Popen, SendLine, SendLineFails,
             SendLineAgain, CmdDone
    <2>2. \A c \in Conns : Client(c) => world' = world
      BY DEF Client, Connect, ClientRead, ClientClose, ClientSend
    <2> QED BY <2>1, <2>2 DEF Next, vars
  <1> SUFFICES ASSUME world.polite PROVE Clients'
    BY <1>0 DEF PoliteClients
  <1>a. Clients
    BY DEF PoliteClients
  <1>b. world \in Worlds /\ world.clients \subseteq Plain /\ ~world.split
    BY DEF TypeOK, PoliteWorlds
  <1> DEFINE Rest == /\ \A c \in Conns : c \notin world.clients => link'[c] = "new"
                     /\ step' \in {"idle", "reply"}
                     /\ srv' # "running" => asked' /\ srv' \in {"exiting", "exited"}
  <1>c. Rest /\ (\A c \in Plain : ClientOK(c)') => Clients'
    BY <1>0 DEF Clients
  <1>d. ASSUME NEW c \in Conns, link[c] # "new" PROVE c \in Plain
    <2>1. c \in world.clients
      BY <1>a, <1>d DEF Clients
    <2> QED BY <1>b, <2>1
  <1>e. ASSUME step = "reply" PROVE cur \in Plain /\ Handled(cur) /\ InHand(cur) /\ Waiting(cur)
    <2>1. cur \in Plain /\ Handled(cur) /\ ClientOK(cur)
      BY <1>a, <1>e DEF Events, InHandler, Handled, Clients
    <2> QED BY <2>1 DEF ClientOK, Answered, Waiting, OnItsWayIn, OnItsWayOut, WasTheLast
  <1>f. ASSUME UNCHANGED <<handlers, inq, outq, peer, reqs, replies>>
        PROVE  \A c \in Plain : ClientOK(c)'
    BY <1>0, <1>a, <1>f, Frame DEF handlers, Handled, Clients
  <1>1. ASSUME NEW c \in Conns, Accept(c) PROVE Clients'
    <2>1. \A d \in Plain : ClientOK(d)'
      BY <1>1, <1>f DEF Accept
    <2>2. Rest
      BY <1>1, <1>a DEF Accept, handlers, Clients, TypeOK
    <2> QED BY <2>1, <2>2, <1>c
  <1>2. ASSUME NEW c \in Conns, RecvEnd(c) PROVE Clients'
    <2>1. \A d \in Plain : ClientOK(d)'
      BY <1>2, <1>f DEF RecvEnd, kernel
    <2>2. Rest
      BY <1>2, <1>a DEF RecvEnd, handlers, kernel, flags, Clients
    <2> QED BY <2>1, <2>2, <1>c

  <1>3. ASSUME NEW c \in Conns, NEW next \in {"reply", "cmd"}, NEW n \in RecvSizes(c),
               next = "cmd" => c \in Cmd, Recv(c, next, n)
        PROVE  Clients'
    <2>1. Ready(c) /\ inq[c] # <<>> /\ step = "idle"
      BY <1>3 DEF Recv, Ready
    <2>2. c \in Plain /\ next = "reply"
      <3>1. link[c] # "new"
        BY <2>1 DEF Ready, Events, NotAccepted
      <3> QED BY <1>d, <1>3, <3>1, Constants
    <2>3. Waiting(c) /\ OnItsWayIn(c)
      BY <1>a, <2>1, <2>2 DEF Clients, ClientOK, Answered, Waiting, InHand, OnItsWayOut, WasTheLast
    <2> DEFINE line == FirstLine(SubSeq(inq[c], 1, n))
    <2>4. SubSeq(inq[c], n + 1, Len(inq[c])) = <<>>
      BY <2>3, RecvWhole
    <2>5. /\ inq' = [inq EXCEPT ![c] = <<>>]
          /\ UNCHANGED <<link, peer, outq, reqs, replies>>
      BY <1>3, <2>4 DEF Recv
    <2>6. /\ inq'[c] = <<>> /\ outq'[c] = <<>> /\ LastReq(c)' \in world'.requests
          /\ Len(reqs'[c]) = Len(replies'[c]) + 1 /\ peer'[c] = "open"
      <3>1. inq'[c] = <<>>
        BY <2>5 DEF TypeOK
      <3> QED BY <1>0, <2>3, <2>5, <3>1 DEF Waiting, OnItsWayIn, LastReq
    <2>7. CASE line = <<"shut", "down">>
      <3>1. asked' = TRUE /\ srv' = "exiting" /\ UNCHANGED handlers
        BY <1>3, <2>7 DEF Recv
      <3>2. ClientOK(c)'
        <4>1. ~Handled(c)'
          BY <2>1, <3>1 DEF handlers, Handled
        <4> QED BY <2>6, <4>1 DEF ClientOK, Waiting, WasTheLast
      <3>3. ASSUME NEW d \in Plain \ {c} PROVE ClientOK(d)'
        <4>1. inq'[d] = inq[d] /\ ClientOK(d)
          BY <1>a, <2>5, Constants DEF Clients, TypeOK
        <4> QED BY <1>0, <2>5, <3>1, <4>1, Frame DEF handlers, Handled
      <3>4. Rest
        BY <1>a, <2>5, <3>1 DEF Clients, handlers
      <3> QED BY <1>c, <3>2, <3>3, <3>4
    <2>8. CASE line # <<"shut", "down">>
      <3>1. cur' = c /\ step' = "reply" /\ buf' = line /\ UNCHANGED <<srv, asked>>
        BY <1>3, <2>2, <2>8 DEF Recv
      <3>2. ClientOK(c)'
        <4>1. InHand(c)'
          BY <2>6, <3>1 DEF InHand, Handled
        <4> QED BY <2>6, <4>1 DEF ClientOK, Waiting
      <3>3. ASSUME NEW d \in Plain \ {c} PROVE ClientOK(d)'
        <4>1. inq'[d] = inq[d] /\ ClientOK(d)
          BY <1>a, <2>5, Constants DEF Clients, TypeOK
        <4>2. ~Handled(d) /\ ~Handled(d)'
          BY <2>1, <3>1 DEF Handled
        <4> QED BY <1>0, <2>5, <4>1, <4>2, Frame
      <3>4. Rest
        BY <1>a, <2>5, <3>1 DEF Clients
      <3> QED BY <1>c, <3>2, <3>3, <3>4
    <2> QED BY <2>7, <2>8
  <1>4. CASE SendReply
    <2>0. PICK c \in Plain : c = cur
      BY <1>e, <1>4 DEF SendReply
    <2>1. c \in Plain /\ Handled(c) /\ InHand(c) /\ Waiting(c)
      BY <1>e, <1>4, <2>0 DEF SendReply
    <2>2. /\ outq' = [outq EXCEPT ![c] = Append(@, WithOk(buf))] /\ UNCHANGED peer
          /\ Return /\ UNCHANGED <<world, srv, fd, ev, link, inq, said, reqs, replies, flags>>
      BY <1>4, <2>0, <2>1 DEF SendReply, Taken, Waiting
    <2>3. Len(outq'[c]) = 1
      <3>1. outq[c] = <<>> /\ outq'[c] = Append(outq[c], WithOk(buf))
        BY <2>1, <2>2, Constants DEF InHand, TypeOK
      <3>2. WithOk(buf) \in Reply /\ <<>> \in Seq(Reply)
        BY WithOkType, EmptySeq DEF TypeOK
      <3> QED BY <3>1, <3>2, AppendProperties, EmptySeq
    <2>4. ~Handled(c)'
      BY <2>2 DEF Return, Handled
    <2>5. LastReq(c)' = LastReq(c)
      BY <2>2 DEF LastReq
    <2>6. OnItsWayOut(c)'
      BY <2>1, <2>2, <2>3, <2>4 DEF OnItsWayOut, InHand
    <2>7. Waiting(c)'
      BY <1>0, <2>1, <2>2, <2>5, <2>6 DEF Waiting
    <2>8. ASSUME NEW d \in Plain \ {c} PROVE ClientOK(d)'
      <3>1. outq'[d] = outq[d] /\ ClientOK(d)
        BY <1>a, <2>2, Constants DEF Clients, TypeOK
      <3>2. ~Handled(d) /\ ~Handled(d)'
        BY <2>0, <2>2, <1>4 DEF Return, Handled
      <3> QED BY <1>0, <2>2, <3>1, <3>2, Frame
    <2>9. Rest
      BY <1>a, <2>2 DEF Clients, Return, flags
    <2> QED BY <1>c, <2>7, <2>8, <2>9 DEF ClientOK
  <1>5. ~SendReplyFails /\ ~ReplySigpipe
    BY <1>e DEF SendReplyFails, ReplySigpipe, Sigpipe, Waiting
  <1>6. /\ ~PopenFails /\ ~Popen /\ ~SendLine /\ ~SendLineFails /\ ~SendLineAgain
        /\ ~CmdDone /\ ~LineSigpipe
    BY <1>a DEF Clients, PopenFails, Popen, SendLine, SendLineFails, SendLineAgain,
                CmdDone, LineSigpipe
  <1>7. CASE LoopExit
    <2>1. \A d \in Plain : ClientOK(d)'
      BY <1>7, <1>f DEF LoopExit, kernel
    <2>2. Rest
      BY <1>7, <1>a DEF LoopExit, handlers, kernel, flags, Clients
    <2> QED BY <2>1, <2>2, <1>c
  <1>8. ASSUME NEW c \in Conns, Connect(c) PROVE Clients'
    <2>1. \A d \in Plain : ClientOK(d)'
      BY <1>8, <1>f DEF Connect
    <2>2. Rest
      BY <1>8, <1>a DEF Connect, handlers, flags, Clients, TypeOK
    <2> QED BY <2>1, <2>2, <1>c
  <1>9. ASSUME NEW c \in Conns, ClientRead(c) PROVE Clients'
    <2>1. /\ replies' = [replies EXCEPT ![c] = Append(@, Head(outq[c]))]
          /\ outq' = [outq EXCEPT ![c] = Tail(@)] /\ outq[c] # <<>>
          /\ UNCHANGED <<world, srv, handlers, link, peer, inq, said, reqs, flags>>
      BY <1>9 DEF ClientRead
    <2>2. ASSUME NEW d \in Plain \ {c} PROVE ClientOK(d)'
      <3>1. outq'[d] = outq[d] /\ replies'[d] = replies[d] /\ ClientOK(d)
        BY <1>a, <2>1, Constants DEF Clients, TypeOK
      <3> QED BY <1>0, <2>1, <3>1, Frame DEF handlers, Handled
    <2>3. ASSUME c \in Plain PROVE ClientOK(c)'
      <3>1. OnItsWayOut(c) /\ Waiting(c)
        BY <1>a, <2>1, <2>3
           DEF Clients, ClientOK, Answered, Waiting, OnItsWayIn, OnItsWayOut, InHand, WasTheLast
      <3>2. outq[c] \in Seq(Reply) /\ outq[c] # <<>> /\ replies[c] \in Seq(Reply)
        BY <2>1 DEF TypeOK
      <3>3. Head(outq[c]) \in Reply /\ Tail(outq[c]) \in Seq(Reply) /\ Len(Tail(outq[c])) = 0
        BY <3>1, <3>2, HeadTailProperties DEF OnItsWayOut
      <3>4. outq'[c] = <<>>
        BY <2>1, <3>3, EmptySeq DEF TypeOK
      <3>5. Len(replies'[c]) = Len(replies[c]) + 1
        BY <2>1, <3>2, <3>3, AppendProperties DEF TypeOK
      <3>6. Answered(c)'
        BY <2>1, <3>1, <3>4, <3>5 DEF Answered, Waiting, OnItsWayOut, Handled, handlers
      <3> QED BY <3>6 DEF ClientOK
    <2>4. Rest
      BY <1>a, <2>1 DEF Clients, handlers, flags
    <2> QED BY <1>c, <2>2, <2>3, <2>4
  <1>10. ASSUME NEW c \in Conns, ClientClose(c) PROVE Clients'
    <2>1. c \in Plain /\ Len(replies[c]) = Len(reqs[c])
      BY <1>d, <1>10 DEF ClientClose, Waits
    <2>2. Answered(c)
      <3>1. Len(replies[c]) \in Nat
        BY LenProperties DEF TypeOK
      <3> QED BY <1>a, <2>1, <3>1 DEF Clients, ClientOK, Waiting
    <2>3. /\ peer' = [peer EXCEPT ![c] = "fin"] /\ outq' = [outq EXCEPT ![c] = <<>>]
          /\ UNCHANGED <<world, srv, handlers, link, inq, said, reqs, replies, flags>>
      BY <1>10, <2>2 DEF ClientClose, Answered
    <2>4. ClientOK(c)'
      <3>1. outq'[c] = <<>>
        BY <2>3 DEF TypeOK
      <3> QED BY <2>2, <2>3, <3>1 DEF ClientOK, Answered, Handled, handlers
    <2>5. ASSUME NEW d \in Plain \ {c} PROVE ClientOK(d)'
      <3>1. outq'[d] = outq[d] /\ peer'[d] = peer[d] /\ ClientOK(d)
        BY <1>a, <2>3, Constants DEF Clients, TypeOK
      <3> QED BY <1>0, <2>3, <3>1, Frame DEF handlers, Handled
    <2>6. Rest
      BY <1>a, <2>3 DEF Clients, handlers, flags
    <2> QED BY <1>c, <2>4, <2>5, <2>6
  <1>11. ASSUME NEW c \in Conns, NEW r \in world.requests, ClientSend(c, r) PROVE Clients'
    <2>1. c \in Plain /\ Len(replies[c]) = Len(reqs[c]) /\ peer[c] = "open"
      BY <1>d, <1>11 DEF ClientSend, Waits
    <2>2. Answered(c)
      <3>1. Len(replies[c]) \in Nat
        BY LenProperties DEF TypeOK
      <3> QED BY <1>a, <2>1, <3>1 DEF Clients, ClientOK, Waiting
    <2>3. /\ inq' = [inq EXCEPT ![c] = @ \o r] /\ reqs' = [reqs EXCEPT ![c] = Append(@, r)]
          /\ UNCHANGED <<world, srv, handlers, link, peer, outq, replies, flags>>
      BY <1>11 DEF ClientSend
    <2>4. r \in Seq(Token) /\ inq[c] = <<>> /\ reqs[c] \in Seq(Seq(Token))
      BY <1>b, <2>2, Constants DEF Answered, TypeOK
    <2>5. inq'[c] = r
      <3>1. <<>> \o r = r
        BY <2>4, ConcatEmptySeq
      <3> QED BY <2>3, <2>4, <3>1 DEF TypeOK
    <2>6. reqs'[c] = Append(reqs[c], r)
      BY <2>3 DEF TypeOK
    <2>7. /\ Len(reqs'[c]) = Len(reqs[c]) + 1 /\ Len(reqs[c]) \in Nat
          /\ \A k \in 1..Len(reqs[c]) : reqs'[c][k] = reqs[c][k]
          /\ LastReq(c)' = r
      BY <2>4, <2>6, AppendProperties, LenProperties DEF LastReq
    <2>9. OnItsWayIn(c)'
      BY <2>2, <2>3, <2>5, <2>7 DEF OnItsWayIn, Answered, Handled, handlers
    <2>10. Waiting(c)'
      BY <1>0, <2>1, <2>3, <2>7, <2>9 DEF Waiting
    <2>11. ASSUME NEW d \in Plain \ {c} PROVE ClientOK(d)'
      <3>1. inq'[d] = inq[d] /\ reqs'[d] = reqs[d] /\ ClientOK(d)
        BY <1>a, <2>3, Constants DEF Clients, TypeOK
      <3> QED BY <1>0, <2>3, <3>1, Frame DEF handlers, Handled
    <2>12. Rest
      BY <1>a, <2>3 DEF Clients, handlers, flags
    <2> QED BY <1>c, <2>10, <2>11, <2>12 DEF ClientOK
  <1>12. CASE UNCHANGED vars
    <2>1. \A d \in Plain : ClientOK(d)'
      BY <1>12, <1>f DEF vars, kernel
    <2>2. Rest
      BY <1>12, <1>a DEF vars, handlers, kernel, flags, Clients
    <2> QED BY <2>1, <2>2, <1>c
  <1>13. CASE Server
    <2>1. CASE recv_handler
      <3>1. ASSUME NEW c \in Plain, Receive(c, "reply") PROVE Clients'
        BY <1>2, <1>3, <3>1, Constants DEF Receive
      <3> QED BY <1>4, <1>5, <2>1, <3>1 DEF recv_handler
    <2>2. CASE receive_cmd
      <3>1. ASSUME NEW c \in Cmd, Receive(c, "cmd") PROVE Clients'
        BY <1>2, <1>3, <3>1, Constants DEF Receive
      <3> QED BY <1>6, <2>2, <3>1 DEF receive_cmd
    <2>3. CASE accept_handler \/ accept_cmd
      BY <1>1, <2>3, Constants DEF accept_handler, accept_cmd
    <2> QED BY <1>7, <1>13, <2>1, <2>2, <2>3 DEF Server
  <1>14. ASSUME NEW c \in Conns, Client(c) PROVE Clients'
    BY <1>8, <1>9, <1>10, <1>11, <1>14 DEF Client
  <1> QED BY <1>12, <1>13, <1>14 DEF Next

LEMMA PoliteInvariance ==
  ASSUME PoliteWorlds
  PROVE  Spec => []PoliteClients
  <1>1. Init => PoliteClients
    BY ClientsInit
  <1>2. TypeOK /\ Events /\ PoliteClients /\ [Next]_vars => PoliteClients'
    BY ClientsNext
  <1> QED BY <1>1, <1>2, Invariance, PTL DEF Spec

(* event_dispatch returns only after the request "shutdown", even when many   *)
(* clients do as they like; SIGPIPE kills the server only if a client closed   *)
(* with two chunks of its stream unanswered, and it crashes only on a double    *)
(* free or a failed popen.  As long as clients wait for their replies, it       *)
(* neither crashes nor is killed.                                                *)
THEOREM WaitingClientsStopOnlyByAsking ==
  ASSUME PoliteWorlds
  PROVE  Spec => []StopsOnlyWhenAsked
  <1>1. TypeOK /\ PoliteClients /\ Streams /\ Reasons => StopsOnlyWhenAsked
    <2> SUFFICES ASSUME TypeOK, PoliteClients, Streams, Reasons PROVE StopsOnlyWhenAsked
      OBVIOUS
    <2>1. srv \in {"exiting", "exited"} \/ (world.polite /\ srv # "running") => asked
      BY DEF PoliteClients, Clients, Reasons
    <2>2. ASSUME NEW c \in Plain, peer[c] = "pipe", Handled(c)
          PROVE  Len(said[c]) >= Len(replies[c]) + 2
      <3>1. PICK n \in Nat : \E cut \in [0..n -> Nat] : Chunks(c, n, cut) /\ InStep(c, n, cut)
        BY DEF Streams, Stream
      <3>2. PICK cut \in [0..n -> Nat] : Chunks(c, n, cut) /\ InStep(c, n, cut)
        BY <3>1
      <3>3. Len(replies[c]) + 2 <= n
        <4>1. Owed(c) = 1 /\ Len(replies[c]) \in Nat
          BY <2>2, LenProperties, Constants DEF Owed, TypeOK
        <4>2. Len(replies[c]) + Owed(c) + 1 <= n
          BY <2>2, <3>2 DEF InStep
        <4> QED BY <4>1, <4>2
      <3>4. PICK at \in Nat : n <= at /\ at + Len(inq[c]) = Len(said[c])
        <4>1. n \in 0..n
          OBVIOUS
        <4> QED BY <3>2, <4>1 DEF Chunks
      <3>5. Len(inq[c]) \in Nat /\ Len(replies[c]) \in Nat
        BY LenProperties, Constants DEF TypeOK
      <3>6. \A a, b, x, y \in Nat : x + 2 <= y /\ y <= a => a + b >= x + 2
        OBVIOUS
      <3> QED BY <3>3, <3>4, <3>5, <3>6
    <2>3. srv = "killed" =>
            \E c \in Conns : /\ peer[c] = "pipe"
                             /\ c \in Plain => Len(said[c]) >= Len(replies[c]) + 2
      BY <2>2 DEF Reasons
    <2>4. srv = "crashed" => corrupt \/ world.allocMayFail
      BY DEF Reasons
    <2> QED BY <2>1, <2>3, <2>4 DEF StopsOnlyWhenAsked
  <1> QED BY <1>1, PoliteInvariance, StreamInvariance, PTL

=============================================================================
