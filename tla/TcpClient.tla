------------------------------- MODULE TcpClient -------------------------------
(***************************************************************************)
(* The two TCP clients with a user at their terminal and a server at the   *)
(* other end.                                                              *)
(*   daemon/client (socket/client is the same): read_stdin sends a line    *)
(*   without its newline to the server of daemon/src, which answers what it *)
(*   received up to the first newline with ":OK"; recv_handler shows what a *)
(*   recv returned, up to the first newline.                                *)
(*   network/client: stdin_handler sends what is in its buffer up to the    *)
(*   first zero, which read does not put there, to the line server of       *)
(*   network/server; recv_callback shows the complete lines.                *)
(* A server may go at any time.  The zero behind a string is not a byte of  *)
(* the model.                                                               *)
(***************************************************************************)
EXTENDS Integers, Sequences, FiniteSets, SequencesExt

CONSTANTS
  Typed,     \* the lines the user may type, without their newline
  BufLen,    \* what the handlers read at once: sizeof(buf) - 1
  RecvSize,  \* sizeof(buf) in recv_handler
  SndBuf,    \* bytes the kernel takes for the server
  MaxTyped,  \* bound: lines typed
  MaxShort   \* bound: reads of a socket that return less than is there

VARIABLES
  kind,      \* the program: "daemon" or "network"
  client,    \* "running", "ended", "killed" (SIGPIPE) or "crashed"
  soc,       \* the client's socket: "open" or "closed"
  tty,       \* typed and not yet read
  frame,     \* stdin_handler's buffer, up to its first zero
  toServer, toClient,  \* the two directions of the connection
  held,      \* the line server: a line without its end
  in,        \* the bufferevent's input
  server,    \* the server's end: "up", "gone" (closed, all read), "reset" (closed
             \* with bytes unread: the client's next call on the socket fails),
             \* "rst" (the call of the client that finds it so is past)
  typed,     \* history: the lines typed
  sent,      \* history: what the client sent while its server was up
  heard,     \* history: what the client showed
  shorts,    \* counter of the bound
  spoilt     \* history: what went wrong: "hasty" (a line was typed before the
             \* answer to the last), "frame" (other calls wrote over the buffer),
             \* "long" (a line did not fit), "full" (the kernel did not take all),
             \* "torn" (a line or its answer came in parts), "overrun"

user == <<tty, typed>>
shown == <<in, heard>>
vars == <<kind, client, soc, user, frame, toServer, toClient, held, shown,
          server, sent, shorts, spoilt>>

Init ==
  /\ kind \in {"daemon", "network"}
  /\ client = "running" /\ soc = "open" /\ server = "up"
  /\ tty = <<>> /\ frame = <<>> /\ toServer = <<>> /\ toClient = <<>>
  /\ held = <<>> /\ in = <<>>
  /\ typed = <<>> /\ sent = <<>> /\ heard = <<>>
  /\ shorts = 0 /\ spoilt = {}

Running == client = "running"

-----------------------------------------------------------------------------
(* Lines in sequences of bytes.                                             *)

Newlines(s) == {k \in 1..Len(s) : s[k] = "nl"}
FirstNewline(s) == CHOOSE k \in Newlines(s) : \A m \in Newlines(s) : k <= m

FirstLine(s) == IF Newlines(s) = {} THEN s ELSE SubSeq(s, 1, FirstNewline(s) - 1)

(* evbuffer_readln until there is no line: the complete lines of s, without  *)
(* their ends, and what is behind the last of them.                           *)
Split(s) ==
  LET Upto[k \in 0..Len(s)] ==
        IF k = 0 THEN [lines |-> <<>>, rest |-> <<>>]
        ELSE IF s[k] = "nl"
             THEN [lines |-> Append(Upto[k - 1].lines, Upto[k - 1].rest), rest |-> <<>>]
             ELSE [Upto[k - 1] EXCEPT !.rest = Append(@, s[k])]
  IN  Upto[Len(s)]

LinesOf(s) == Split(s).lines
Rest(s) == Split(s).rest
Complete(s) == SubSeq(s, 1, Len(s) - Len(Rest(s)))

Least(m, n) == IF m < n THEN m ELSE n

(* A read of n bytes from what has come, which may not be all of it yet. *)
Reads(n, queue, size) ==
  LET all == Least(Len(queue), size)
  IN  /\ n <= all
      /\ IF n = all THEN UNCHANGED shorts ELSE shorts < MaxShort /\ shorts' = shorts + 1

-----------------------------------------------------------------------------
(* The user.  A hasty one types before all it sent has been answered; an     *)
(* empty line sends nothing, so nothing answers it.                           *)

Asked == {k \in 1..Len(typed) : typed[k] # <<>>}
Quiet == tty = <<>> /\ Len(heard) = Cardinality(Asked)

(* One client wants the newline in the buffer as well. *)
Fits(line) == Len(line) + (IF kind = "network" THEN 1 ELSE 0) <= BufLen

Type(line) ==
  /\ Running /\ Len(typed) < MaxTyped
  /\ tty' = tty \o Append(line, "nl")
  /\ typed' = Append(typed, line)
  /\ spoilt' = spoilt \cup (IF Fits(line) THEN {} ELSE {"long"})
                      \cup (IF kind = "network" \/ Quiet THEN {} ELSE {"hasty"})
  /\ UNCHANGED <<kind, shorts, client, soc, frame, toServer, toClient, held, shown,
                 server, sent>>

(* read from a terminal: up to the newline, or as much as fits. *)
Chunk == SubSeq(tty, 1, Least(FirstNewline(tty), BufLen))
Unread == SubSeq(tty, Len(Chunk) + 1, Len(tty))

-----------------------------------------------------------------------------
(* send.  The bytes for a server that is gone are answered with a reset; the *)
(* send after that is answered with SIGPIPE, which neither program handles.  A *)
(* server that closes with bytes unread resets the connection itself: the next *)
(* call on the socket returns -1 with ECONNRESET and no signal, and only a send *)
(* after it is answered with SIGPIPE.                                           *)

Sends(bytes) ==
  /\ server \in {"up", "gone"}
  /\ IF server = "up" THEN /\ toServer' = toServer \o bytes /\ sent' = sent \o bytes
                           /\ UNCHANGED server
     ELSE /\ server' \in {"gone", "rst"} /\ UNCHANGED <<toServer, sent>>

Sigpipe ==
  /\ Running /\ soc = "open" /\ tty # <<>> /\ server = "rst"
  /\ client' = "killed" /\ tty' = Unread
  /\ UNCHANGED <<kind, shorts, soc, typed, frame, toServer, toClient, held, shown,
                 server, sent, spoilt>>

-----------------------------------------------------------------------------
(* daemon/client                                                            *)

(* Mutant of Text: the string is not ended. *)
TextGoesOn ==
  LET old == FlattenSeq(typed)
  IN  FirstLine(Chunk) \o SubSeq(old, Len(FirstLine(Chunk)) + 1, Least(BufLen, Len(old)))

(* The newline becomes the end of the string. *)
Text == FirstLine(Chunk)

(* The socket blocks: send waits until the kernel takes it all.  "exit" is   *)
(* sent, too.                                                                 *)
read_stdin ==
  /\ kind = "daemon" /\ Running /\ tty # <<>> /\ soc = "open"
  /\ Len(toServer) + Len(Text) <= SndBuf
  /\ Sends(Text)
  /\ tty' = Unread
  /\ client' = IF Text = <<"exit">> THEN "ended" ELSE client
  /\ UNCHANGED <<kind, shorts, soc, frame, toClient, held, shown, typed, spoilt>>

(* send fails on the socket that recv_handler has closed, or that the server *)
(* has reset: the loop of event_init ends.                                     *)
read_stdin_fails ==
  /\ kind = "daemon" /\ Running /\ tty # <<>>
  /\ soc = "closed" \/ server = "reset"
  /\ tty' = Unread /\ client' = "ended"
  /\ UNCHANGED <<kind, shorts, soc, frame, toServer, toClient, held, shown, typed,
                 server, sent, spoilt>>

(* What recv returned, up to the first newline; the rest is thrown away.     *)
recv_handler(n) ==
  /\ kind = "daemon" /\ Running /\ soc = "open"
  /\ Reads(n, toClient, RecvSize)
  /\ LET bytes == SubSeq(toClient, 1, n)
     IN  /\ heard' = Append(heard, FirstLine(bytes))
         /\ spoilt' = spoilt \cup (IF n = RecvSize THEN {"overrun"} ELSE {})
                             \cup (IF bytes[n] # "nl" THEN {"torn"} ELSE {})
  /\ toClient' = SubSeq(toClient, n + 1, Len(toClient))
  /\ UNCHANGED <<kind, client, soc, user, frame, toServer, held, in, server, sent>>

(* recv returns 0 or -1 once all that came was read: the socket is closed and *)
(* its event stays.                                                            *)
recv_handler_end ==
  /\ kind = "daemon" /\ Running /\ soc = "open"
  /\ server # "up" /\ toClient = <<>>
  /\ soc' = "closed"
  /\ UNCHANGED <<kind, shorts, client, user, frame, toServer, toClient, held, shown,
                 server, sent, spoilt>>

-----------------------------------------------------------------------------
(* network/client                                                           *)

(* read stores no zero: behind what was typed there is what the buffer held  *)
(* before, an earlier line or, if other calls have used the stack, anything.   *)
Over(old) == Chunk \o SubSeq(old, Len(Chunk) + 1, Len(old))

(* As much as the kernel has room for. *)
Taken(text) ==
  SubSeq(text, 1, Least(Len(text), SndBuf - Len(toServer)))

(* Mutant: the newline is taken for the end, as in the other client. *)
StripsNewline(old) ==
  LET text == Over(old)
  IN  /\ frame' = text /\ tty' = Unread
      /\ Len(toServer) < SndBuf
      /\ LET taken == Taken(FirstLine(text))
         IN  /\ Sends(taken)
             /\ spoilt' = spoilt \cup (IF old # frame THEN {"frame"} ELSE {})
                                 \cup (IF taken # FirstLine(text) THEN {"full"} ELSE {})
      /\ UNCHANGED client

(* The socket does not block: send may take a part, and the rest is lost.    *)
SendsFrame(old) ==
  LET text == Over(old)
  IN  /\ frame' = text /\ tty' = Unread
      /\ Len(toServer) < SndBuf
      /\ LET taken == Taken(text)
         IN  /\ Sends(taken)
             /\ spoilt' = spoilt \cup (IF old # frame THEN {"frame"} ELSE {})
                                 \cup (IF taken # text THEN {"full"} ELSE {})
      /\ UNCHANGED client

Junk == <<"?", "?", "?">>

stdin_handler ==
  /\ kind = "network" /\ Running /\ tty # <<>>
  /\ \E old \in {frame, Junk} : SendsFrame(old)
  /\ UNCHANGED <<kind, shorts, soc, toClient, held, shown, typed>>

(* send fails, with EAGAIN as the kernel is full or with ECONNRESET, and the  *)
(* client goes on: event_loopexit(NULL) is for the base of event_init, which    *)
(* this program never made.                                                    *)
stdin_handler_fails ==
  /\ kind = "network" /\ Running /\ tty # <<>>
  /\ (server = "up" /\ Len(toServer) = SndBuf) \/ server = "reset"
  /\ tty' = Unread /\ client' \in {"running", "crashed"}
  /\ \E old \in {frame, Junk} :
       /\ frame' = Over(old)
       /\ spoilt' = spoilt \cup (IF old # frame THEN {"frame"} ELSE {})
                           \cup (IF server = "up" THEN {"full"} ELSE {})
  /\ server' = IF server = "up" THEN server ELSE "rst"
  /\ UNCHANGED <<kind, shorts, soc, toServer, toClient, held, shown, typed, sent>>

(* The complete lines of the input.  Nobody is told of its end. *)
recv_callback(n) ==
  /\ kind = "network" /\ Running /\ Reads(n, toClient, Len(toClient))
  /\ LET bytes == in \o SubSeq(toClient, 1, n)
     IN  /\ heard' = heard \o LinesOf(bytes)
         /\ in' = Rest(bytes)
  /\ toClient' = SubSeq(toClient, n + 1, Len(toClient))
  /\ UNCHANGED <<kind, client, soc, user, frame, toServer, held, server, sent, spoilt>>

(* The bufferevent may be the one that is told of the reset; it has no        *)
(* callback to tell.                                                           *)
ReadsReset ==
  /\ kind = "network" /\ Running /\ server = "reset" /\ toClient = <<>>
  /\ server' = "rst"
  /\ UNCHANGED <<kind, shorts, client, soc, user, frame, toServer, toClient, held,
                 shown, sent, spoilt>>

-----------------------------------------------------------------------------
(* Both end on SIGINT.                                                      *)

sig_int_handler ==
  /\ Running /\ client' = "ended"
  /\ UNCHANGED <<kind, shorts, soc, user, frame, toServer, toClient, held, shown,
                 server, sent, spoilt>>

-----------------------------------------------------------------------------
(* The servers: recv_handler of daemon/src, read_callback of network/server. *)

(* Closing with input left resets the connection; input that comes after the  *)
(* close does so when the client has seen the end already.                     *)
Leaves(unread) ==
  /\ server' \in IF unread = <<>> THEN {"gone"} ELSE {"reset", "rst"}
  /\ toServer' = <<>>

DaemonAnswers(n) ==
  /\ kind = "daemon" /\ server = "up" /\ Reads(n, toServer, Len(toServer))
  /\ LET line == FirstLine(SubSeq(toServer, 1, n))
         unread == SubSeq(toServer, n + 1, Len(toServer))
     IN  /\ IF line = <<"shutdown">> THEN Leaves(unread) /\ UNCHANGED toClient
            ELSE /\ toClient' = toClient \o line \o <<"ok", "nl">>
                 /\ toServer' = unread /\ UNCHANGED server
         /\ spoilt' = spoilt \cup (IF unread = <<>> THEN {} ELSE {"torn"})
  /\ UNCHANGED <<kind, client, soc, user, frame, held, shown, sent>>

LinesEchoed(n) ==
  /\ kind = "network" /\ server = "up" /\ Reads(n, toServer, Len(toServer))
  /\ LET bytes == held \o SubSeq(toServer, 1, n)
     IN  toClient' = toClient \o Complete(bytes) /\ held' = Rest(bytes)
  /\ toServer' = SubSeq(toServer, n + 1, Len(toServer))
  /\ UNCHANGED <<kind, client, soc, user, frame, shown, server, sent, spoilt>>

ServerGoes ==
  /\ server = "up" /\ Leaves(toServer)
  /\ UNCHANGED <<kind, shorts, client, soc, user, frame, toClient, held, shown, sent, spoilt>>

-----------------------------------------------------------------------------

Handles == read_stdin \/ read_stdin_fails \/ stdin_handler \/ stdin_handler_fails \/ Sigpipe

Next ==
  \/ Handles \/ recv_handler_end \/ ReadsReset \/ sig_int_handler \/ ServerGoes
  \/ \E line \in Typed : Type(line)
  \/ \E n \in 1..Len(toClient) : recv_handler(n) \/ recv_callback(n)
  \/ \E n \in 1..Len(toServer) : DaemonAnswers(n) \/ LinesEchoed(n)

-----------------------------------------------------------------------------

(* A user of daemon/client who waits for each answer is shown the answer to   *)
(* each line it typed, in order, with nothing between and nothing left out    *)
(* (what is shown k-th answers the k-th line that is not empty),                *)
(* and the buffer is never overrun; unless a line is longer than the buffer,   *)
(* or comes in parts: of a line that does, each part is answered, and the       *)
(* second part of an answer that does may hide the next answer.                 *)
PatientUserHearsAnswers ==
  (kind = "daemon" /\ spoilt \cap {"hasty", "long", "torn"} = {}) =>
    /\ \A k \in 1..Len(heard) : \E j \in Asked :
         Cardinality({m \in Asked : m <= j}) = k /\ heard[k] = Append(typed[j], "ok")
    /\ "overrun" \notin spoilt

(* The lines of one sequence come in another, whole and in order. *)
ComeIn(some, lines) ==
  \E place \in [1..Len(some) -> 1..Len(lines)] :
    /\ \A k \in 1..Len(some) : lines[place[k]] = some[k]
    /\ \A k, m \in 1..Len(some) : k < m => place[k] < place[m]

(* The lines that network/client has sent hold the lines typed, whole and in *)
(* order; what comes between is the end of an earlier, longer line that the   *)
(* buffer still held.  For this nothing else may use that part of the stack,   *)
(* the lines must fit the buffer and the kernel must take them.  And what the   *)
(* client shows is the beginning of what it sent.                               *)
TypedLinesArrive ==
  (kind = "network" /\ spoilt = {}) =>
    LET lines == LinesOf(sent)
        read  == SubSeq(typed, 1, Len(typed) - Len(LinesOf(tty)))
    IN  /\ server = "up" => ComeIn(read, lines)
        /\ \A k \in 1..Len(lines) : \E j \in 1..Len(typed) : lines[k] \in Suffixes(typed[j])
        /\ IsPrefix(heard, lines)

(* What a client with a line to send cannot outlive: a socket it has closed    *)
(* (the loop ends) and one whose reset is known (SIGPIPE).  A reset that no     *)
(* call has found ends daemon/client; network/client goes on after the send     *)
(* that finds it and ends with the send after that.                             *)
Knows ==
  \/ soc = "closed" \/ server = "rst"
  \/ server = "reset" /\ (kind = "daemon" \/ Len(LinesOf(tty)) > 1)
=============================================================================
