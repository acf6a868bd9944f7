------------------------------ MODULE LineServer ------------------------------
(***************************************************************************)
(* The line server of network/server: libevent bufferevents that send      *)
(* every line back.  The library reads a socket into the connection's      *)
(* input buffer, never beyond the high watermark MAX_LINE, and calls       *)
(* read_callback; what the callback puts into the output buffer goes out   *)
(* whenever the socket takes it.  Nothing blocks: a callback is one step   *)
(* of the loop, and clients and kernel act between steps.                  *)
(***************************************************************************)
EXTENDS Integers, Sequences, FiniteSets

CONSTANTS
  Clients,
  Bytes,       \* what clients send; "nl" is the newline
  MAX_LINE,
  SndBuf,      \* bytes the kernel holds for a client that does not read
  FD_SETSIZE,  \* the highest client descriptor the server keeps
  FdLimit,     \* client descriptors the process may have
  MaxBytes     \* bound: the bytes each client sends

LineServerAssumption ==
  /\ "nl" \in Bytes
  /\ MAX_LINE \in Nat \ {0} /\ SndBuf \in Nat \ {0}
  /\ FD_SETSIZE \in Nat /\ FdLimit \in Nat /\ MaxBytes \in [Clients -> Nat]

VARIABLES
  srv,         \* "running", "exiting", "exited" or "killed" (SIGPIPE)
  console,     \* what came from the terminal: "exit" (stdin) and "int" (SIGINT)
  fd,          \* fd[c]: the descriptor of c's bufferevent, or NoFd
  in, out,     \* in[c], out[c]: its input and output evbuffers
  link,        \* "new", "backlog", "up", "refused" or "freed"
  peer,        \* the client's end: "open", "half" (shutdown), "gone" (closed),
               \* "pipe" (closed, and the server's kernel knows) or "rst"
  inq, outq,   \* the kernel's socket buffers, to and from the server
  input, took, gave, got   \* history: bytes the client sent, the server read,
                           \* the server sent and the client received

server == <<srv, console>>
buffers == <<in, out>>
kernel == <<link, peer, inq, outq>>
history == <<input, took, gave, got>>
vars == <<server, fd, buffers, kernel, history>>

NoFd == -1
None == [c \in Clients |-> <<>>]

Init ==
  /\ srv = "running" /\ console = {}
  /\ fd = [c \in Clients |-> NoFd]
  /\ link = [c \in Clients |-> "new"] /\ peer = [c \in Clients |-> "open"]
  /\ in = None /\ out = None /\ inq = None /\ outq = None
  /\ input = None /\ took = None /\ gave = None /\ got = None

Alive == srv \in {"running", "exiting"}
InUse == {fd[c] : c \in Clients} \ {NoFd}

-----------------------------------------------------------------------------
(* Clients (external).                                                      *)

Connect(c) ==
  /\ Alive /\ link[c] = "new"
  /\ link' = [link EXCEPT ![c] = "backlog"]
  /\ UNCHANGED <<server, fd, buffers, peer, inq, outq, history>>

ClientSend(c, b) ==
  /\ link[c] \in {"backlog", "up"} /\ peer[c] = "open"
  /\ Len(input[c]) < MaxBytes[c]
  /\ inq' = [inq EXCEPT ![c] = Append(@, b)]
  /\ input' = [input EXCEPT ![c] = Append(@, b)]
  /\ UNCHANGED <<server, fd, buffers, link, peer, outq, took, gave, got>>

ClientRecv(c) ==
  /\ peer[c] \in {"open", "half"} /\ outq[c] # <<>>
  /\ got' = [got EXCEPT ![c] = Append(@, Head(outq[c]))]
  /\ outq' = [outq EXCEPT ![c] = Tail(@)]
  /\ UNCHANGED <<server, fd, buffers, link, peer, inq, input, took, gave>>

ClientShutdown(c) ==
  /\ link[c] \in {"backlog", "up"} /\ peer[c] = "open"
  /\ peer' = [peer EXCEPT ![c] = "half"]
  /\ UNCHANGED <<server, fd, buffers, link, inq, outq, history>>

(* close: a reset if something was left unread; a reset may take the bytes  *)
(* the server has not read with it.                                           *)
ClientClose(c) ==
  /\ link[c] \in {"backlog", "up"} /\ peer[c] \in {"open", "half"}
  /\ IF outq[c] = <<>>
     THEN peer' = [peer EXCEPT ![c] = "gone"] /\ UNCHANGED inq
     ELSE /\ peer' = [peer EXCEPT ![c] = "rst"]
          /\ \E rest \in {inq[c], <<>>} : inq' = [inq EXCEPT ![c] = rest]
  /\ outq' = [outq EXCEPT ![c] = <<>>]
  /\ UNCHANGED <<server, fd, buffers, link, history>>

-----------------------------------------------------------------------------
(* do_accept.                                                               *)

LowestFree == CHOOSE n \in 0..FdLimit - 1 : n \notin InUse /\ 0..n-1 \subseteq InUse

CanAccept(c) ==
  Alive /\ link[c] = "backlog" /\ Cardinality(InUse) < FdLimit

(* A descriptor above FD_SETSIZE is closed again. *)
do_accept(c) ==
  /\ CanAccept(c)
  /\ IF LowestFree > FD_SETSIZE
     THEN link' = [link EXCEPT ![c] = "refused"] /\ UNCHANGED fd
     ELSE /\ link' = [link EXCEPT ![c] = "up"]
          /\ fd' = [fd EXCEPT ![c] = LowestFree]
  /\ UNCHANGED <<server, buffers, peer, inq, outq, history>>

-----------------------------------------------------------------------------
(* The bufferevent and its callbacks.                                       *)

Up(c) == Alive /\ link[c] = "up"

(* Everything up to the last newline, and what follows it. *)
LastNewline(s) == LET ends == {k \in 1..Len(s) : s[k] = "nl"}
                  IN  IF ends = {} THEN 0 ELSE CHOOSE k \in ends : \A m \in ends : m <= k
Complete(s) == SubSeq(s, 1, LastNewline(s))
Partial(s) == SubSeq(s, LastNewline(s) + 1, Len(s))

(* Mutants of read_callback: a line is cut only beyond the limit; the limit   *)
(* is tested before the lines are taken.                                       *)
read_callback_late(s) ==
  IF Len(Partial(s)) > MAX_LINE
  THEN [in |-> <<>>, out |-> s \o <<"nl">>]
  ELSE [in |-> Partial(s), out |-> Complete(s)]

read_callback_early(s) ==
  IF Len(s) >= MAX_LINE
  THEN [in |-> <<>>, out |-> s \o <<"nl">>]
  ELSE [in |-> Partial(s), out |-> Complete(s)]

(* evbuffer_readln takes the complete lines, and each goes out with its       *)
(* newline; if MAX_LINE bytes remain they go out as a line too.               *)
read_callback(s) ==
  IF Len(Partial(s)) >= MAX_LINE
  THEN [in |-> <<>>, out |-> s \o <<"nl">>]
  ELSE [in |-> Partial(s), out |-> Complete(s)]

(* The library reads n bytes, within the watermark, and calls read_callback. *)
ReadEvent(c, n) ==
  /\ Up(c) /\ n <= Len(inq[c]) /\ Len(in[c]) + n <= MAX_LINE
  /\ LET after == read_callback(in[c] \o SubSeq(inq[c], 1, n))
     IN  /\ in' = [in EXCEPT ![c] = after.in]
         /\ out' = [out EXCEPT ![c] = @ \o after.out]
  /\ took' = [took EXCEPT ![c] = @ \o SubSeq(inq[c], 1, n)]
  /\ inq' = [inq EXCEPT ![c] = SubSeq(@, n + 1, Len(@))]
  /\ UNCHANGED <<server, fd, link, peer, outq, input, gave, got>>

(* Mutant: only errors free it, the end of the input does not. *)
error_callback_not_eof(c) ==
  /\ peer[c] = "rst"
  /\ link' = [link EXCEPT ![c] = "freed"] /\ fd' = [fd EXCEPT ![c] = NoFd]
  /\ in' = [in EXCEPT ![c] = <<>>] /\ out' = [out EXCEPT ![c] = <<>>]
  /\ UNCHANGED <<server, peer, inq, outq, history>>

(* Whatever the event, the bufferevent is freed with what it still holds,    *)
(* and BEV_OPT_CLOSE_ON_FREE closes the descriptor.                           *)
error_callback(c) ==
  /\ link' = [link EXCEPT ![c] = "freed"] /\ fd' = [fd EXCEPT ![c] = NoFd]
  /\ in' = [in EXCEPT ![c] = <<>>] /\ out' = [out EXCEPT ![c] = <<>>]
  /\ UNCHANGED <<server, peer, inq, outq, history>>

(* recv returns 0 or an error.  A reset may be reported before the bytes      *)
(* that came before it.                                                        *)
EndEvent(c) ==
  /\ Up(c) /\ peer[c] # "open" /\ (inq[c] = <<>> \/ peer[c] = "rst")
  /\ Len(in[c]) < MAX_LINE
  /\ error_callback(c)

(* The socket takes n bytes of the output buffer.  A client that has closed  *)
(* answers with a reset, so a later write gets SIGPIPE.                        *)
WriteEvent(c, n) ==
  /\ Up(c) /\ n <= Len(out[c])
  /\ \/ /\ peer[c] \in {"open", "half"} /\ Len(outq[c]) + n <= SndBuf
        /\ outq' = [outq EXCEPT ![c] = @ \o SubSeq(out[c], 1, n)]
        /\ UNCHANGED peer
     \/ /\ peer[c] = "gone"
        /\ peer' \in {peer, [peer EXCEPT ![c] = "pipe"]}
        /\ UNCHANGED outq
  /\ gave' = [gave EXCEPT ![c] = @ \o SubSeq(out[c], 1, n)]
  /\ out' = [out EXCEPT ![c] = SubSeq(@, n + 1, Len(@))]
  /\ UNCHANGED <<server, fd, in, link, inq, input, took, got>>

WriteError(c) ==
  /\ Up(c) /\ out[c] # <<>> /\ peer[c] = "rst"
  /\ error_callback(c)

(* Nothing ignores SIGPIPE. *)
Sigpipe(c) ==
  /\ Up(c) /\ out[c] # <<>> /\ peer[c] = "pipe"
  /\ srv' = "killed"
  /\ UNCHANGED <<console, fd, buffers, kernel, history>>

-----------------------------------------------------------------------------
(* The terminal, and main.                                                  *)

(* stdin says "exit": event_loopexit is about the base event_init makes, and *)
(* main made its own with event_base_new; nothing happens.                    *)
read_stdin ==
  /\ Alive /\ "exit" \notin console
  /\ console' = console \cup {"exit"}
  /\ UNCHANGED <<srv, fd, buffers, kernel, history>>

sig_int_handler ==
  /\ Alive /\ "int" \notin console
  /\ console' = console \cup {"int"} /\ srv' = "exiting"
  /\ UNCHANGED <<fd, buffers, kernel, history>>

LoopExit ==
  /\ srv = "exiting" /\ srv' = "exited"
  /\ UNCHANGED <<console, fd, buffers, kernel, history>>

-----------------------------------------------------------------------------

Serve(c) ==
  \/ do_accept(c)
  \/ \E n \in 1..MAX_LINE : ReadEvent(c, n)
  \/ \E n \in 1..SndBuf : WriteEvent(c, n)
  \/ EndEvent(c) \/ WriteError(c) \/ Sigpipe(c)

Client(c) ==
  \/ Connect(c) \/ ClientRecv(c) \/ ClientShutdown(c) \/ ClientClose(c)
  \/ \E b \in Bytes : ClientSend(c, b)

Next ==
  \/ \E c \in Clients : Serve(c) \/ Client(c)
  \/ read_stdin \/ sig_int_handler \/ LoopExit

-----------------------------------------------------------------------------

(* A stream with a newline put in behind every MAX_LINE bytes of a line, and   *)
(* how far it is into the line it ends in; its echo goes up to the last newline. *)
Broken(s) ==
  LET Upto[k \in 0..Len(s)] ==
        IF k = 0 THEN [text |-> <<>>, column |-> 0]
        ELSE LET before == Upto[k - 1]
                 column == IF s[k] = "nl" THEN 0 ELSE before.column + 1
             IN  IF column = MAX_LINE
                 THEN [text |-> before.text \o <<s[k], "nl">>, column |-> 0]
                 ELSE [text |-> Append(before.text, s[k]), column |-> column]
  IN  Upto[Len(s)]

Echo(s) == Complete(Broken(s).text)

(* However the stream was cut into reads and writes, what the server has put *)
(* out for a client is the echo of what it has read: where a long line is     *)
(* broken does not depend on how it arrived.                                   *)
EchoOfWhatWasRead ==
  \A c \in Clients : link[c] = "up" => gave[c] \o out[c] = Echo(took[c])

(* A client that stays connected gets the echo of all it sent: the watermark *)
(* never stops the reading of a line for good.                                 *)
EchoArrives ==
  \A c \in Clients :
    []<>(link[c] = "up" /\ peer[c] = "open" => got[c] = Echo(input[c]) \/ ~Alive)

(* A client that has shut down or closed its end is let go.                  *)
ClientLetGo ==
  \A c \in Clients :
    (link[c] = "up" /\ peer[c] # "open") ~> (link[c] = "freed" \/ ~Alive)
=============================================================================
