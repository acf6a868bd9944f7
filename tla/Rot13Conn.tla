------------------------------ MODULE Rot13Conn ------------------------------
(***************************************************************************)
(* One connection of the rot13 line server, libevent/rot13/main.c.         *)
(*                                                                         *)
(* The server keeps a struct fd_state per client: a linear buffer with the *)
(* indices n_written <= write_upto <= buffer_used, a persistent read event *)
(* and a write event that is added when a newline arrives and deleted when *)
(* everything up to the newline is sent.  do_read and do_write are run to  *)
(* completion by a single-threaded event loop, but the kernel's socket     *)
(* buffers and the client change between any two of their system calls, so *)
(* a handler is a sequence of steps: `handler' names the one that runs.    *)
(*                                                                         *)
(* The connections of one server share nothing but the loop and the table  *)
(* of descriptors, which is module Rot13Accept.                            *)
(***************************************************************************)
EXTENDS Integers, Sequences

CONSTANTS
  MAX_LINE,   \* sizeof(state->buffer)
  RecvSize,   \* sizeof(buf) in do_read
  SndBuf,     \* bytes the kernel holds towards the client
  Char,       \* the byte values the client sends
  Junk,       \* what malloc leaves in a byte nobody has written
  MaxSent     \* bound: bytes the client sends

NL == 10

ConnAssumption ==
  /\ MAX_LINE \in Nat /\ MAX_LINE > 1
  /\ RecvSize \in Nat \ {0}
  /\ SndBuf \in Nat \ {0}
  /\ Char \subseteq 0..127
  /\ Junk \notin 0..127
  /\ MaxSent \in Nat

ASSUME ConnAssumption

-----------------------------------------------------------------------------

(* rot13_char, on character codes. *)
rot13_char(c) ==
  IF c \in 97..109 \cup 65..77 THEN c + 13
  ELSE IF c \in 110..122 \cup 78..90 THEN c - 13
  ELSE c

Rot13(s) == [k \in DOMAIN s |-> rot13_char(s[k])]

Byte == 0..127

VARIABLES
  buffer, buffer_used, n_written, write_upto,  \* struct fd_state
  alive,        \* the fd_state and its two events are allocated
  write_event,  \* the write event is pending
  handler,      \* "idle", "do_read" or "do_write"
  buf,          \* do_read: the received bytes the for loop has yet to look at
  inq, outq,    \* the kernel: bytes towards the server, towards the client
  peer,         \* the client's end: "open", "fin" (closed) or "rst" (reset)
  input,        \* history: every byte the client has sent
  kept,         \* history: every byte do_read has stored, as stored
  given,        \* history: every byte send has taken
  got,          \* history: every byte the client has received
  dropped       \* history: a byte found the buffer full

state == <<buffer, buffer_used, n_written, write_upto, alive, write_event>>
client == <<peer, input, got>>
vars == <<state, handler, buf, inq, outq, client, kept, given, dropped>>

(* alloc_fd_state: indices zeroed, the buffer as malloc left it; do_accept   *)
(* then adds the read event, which stays pending until the state is freed.   *)
Init ==
  /\ buffer = [k \in 0..MAX_LINE-1 |-> Junk]
  /\ buffer_used = 0 /\ n_written = 0 /\ write_upto = 0
  /\ alive = TRUE
  /\ write_event = FALSE
  /\ handler = "idle"
  /\ buf = <<>>
  /\ inq = <<>> /\ outq = <<>>
  /\ peer = "open"
  /\ input = <<>> /\ kept = <<>> /\ given = <<>> /\ got = <<>>
  /\ dropped = FALSE

-----------------------------------------------------------------------------
(* The client and the network.                                             *)

ClientSend(c) ==
  /\ peer = "open"
  /\ Len(input) < MaxSent
  /\ inq' = Append(inq, c)
  /\ input' = Append(input, c)
  /\ UNCHANGED <<state, handler, buf, outq, peer, got, kept, given, dropped>>

ClientRecv ==
  /\ peer # "rst"
  /\ outq # <<>>
  /\ got' = Append(got, Head(outq))
  /\ outq' = Tail(outq)
  /\ UNCHANGED <<state, handler, buf, inq, peer, input, kept, given, dropped>>

(* shutdown(SHUT_WR): the client has nothing more to send but still reads. *)
ClientFin ==
  /\ peer = "open"
  /\ peer' = "fin"
  /\ UNCHANGED <<state, handler, buf, inq, outq, input, got, kept, given, dropped>>

(* A reset: what the server has not received yet may be lost, and what the   *)
(* client has not received is.                                                *)
ClientRst ==
  /\ peer # "rst"
  /\ peer' = "rst"
  /\ inq' \in {inq, <<>>} /\ outq' = <<>>
  /\ UNCHANGED <<state, handler, buf, input, got, kept, given, dropped>>

-----------------------------------------------------------------------------
(* The event loop and the two handlers.                                    *)

(* free_fd_state: both events go, so the loop never runs a handler for this *)
(* state again.  The descriptor stays open.                                  *)
free_fd_state ==
  /\ alive' = FALSE
  /\ write_event' = FALSE
  /\ handler' = "idle"
  /\ UNCHANGED <<buffer, buffer_used, n_written, write_upto>>

(* The loop finds the descriptor readable (data, end of file or error). *)
StartRead ==
  /\ alive /\ handler = "idle"
  /\ inq # <<>> \/ peer # "open"
  /\ handler' = "do_read"
  /\ UNCHANGED <<state, buf, inq, outq, client, kept, given, dropped>>

(* The loop finds the descriptor writable while the write event is pending. *)
StartWrite ==
  /\ alive /\ handler = "idle"
  /\ write_event
  /\ Len(outq) < SndBuf \/ peer = "rst"
  /\ handler' = "do_write"
  /\ UNCHANGED <<state, buf, inq, outq, client, kept, given, dropped>>

(* recv returns n > 0 bytes. *)
RecvSome ==
  /\ handler = "do_read" /\ buf = <<>>
  /\ inq # <<>>
  /\ LET n == IF Len(inq) < RecvSize THEN Len(inq) ELSE RecvSize
     IN  /\ buf' = SubSeq(inq, 1, n)
         /\ inq' = SubSeq(inq, n + 1, Len(inq))
  /\ UNCHANGED <<state, handler, outq, client, kept, given, dropped>>

(* Mutant: every byte releases what is stored. *)
TakeByteReleasesAll ==
  /\ handler = "do_read" /\ buf # <<>>
  /\ LET c == rot13_char(Head(buf))
         room == buffer_used < MAX_LINE
         used == IF room THEN buffer_used + 1 ELSE buffer_used
     IN  /\ buffer_used' = used
         /\ buffer' = IF room THEN [buffer EXCEPT ![buffer_used] = c] ELSE buffer
         /\ kept' = IF room THEN Append(kept, c) ELSE kept
         /\ dropped' = (dropped \/ ~room)
         /\ write_event' = TRUE /\ write_upto' = used
  /\ buf' = Tail(buf)
  /\ UNCHANGED <<n_written, alive, handler, inq, outq, client, given>>

(* The body of the for loop: store the byte if there is room, and on a     *)
(* newline, stored or not, ask for everything in the buffer to be written. *)
TakeByte ==
  /\ handler = "do_read" /\ buf # <<>>
  /\ LET c == Head(buf)
         room == buffer_used < MAX_LINE
         used == IF room THEN buffer_used + 1 ELSE buffer_used
     IN  /\ buffer_used' = used
         /\ buffer' = IF room THEN [buffer EXCEPT ![buffer_used] = rot13_char(c)]
                              ELSE buffer
         /\ kept' = IF room THEN Append(kept, rot13_char(c)) ELSE kept
         /\ dropped' = (dropped \/ ~room)
         /\ write_event' = (write_event \/ c = NL)
         /\ write_upto' = IF c = NL THEN used ELSE write_upto
  /\ buf' = Tail(buf)
  /\ UNCHANGED <<n_written, alive, handler, inq, outq, client, given>>

(* recv fails with EAGAIN: the handler returns and waits for the next event. *)
RecvAgain ==
  /\ handler = "do_read" /\ buf = <<>>
  /\ inq = <<>> /\ peer = "open"
  /\ handler' = "idle"
  /\ UNCHANGED <<state, buf, inq, outq, client, kept, given, dropped>>

(* recv returns 0 or an error: the state goes, with what it had not sent. *)
RecvEnd ==
  /\ handler = "do_read" /\ buf = <<>>
  /\ inq = <<>> /\ peer # "open"
  /\ free_fd_state
  /\ UNCHANGED <<buf, inq, outq, client, kept, given, dropped>>

(* send accepts the first n bytes of what is left, 1 <= n. *)
SendSome(n) ==
  /\ handler = "do_write"
  /\ peer # "rst"
  /\ n_written + n <= write_upto
  /\ Len(outq) + n <= SndBuf
  /\ LET bytes == [k \in 1..n |-> buffer[n_written + k - 1]]
     IN  outq' = outq \o bytes /\ given' = given \o bytes
  /\ n_written' = n_written + n
  /\ UNCHANGED <<buffer, buffer_used, write_upto, alive, write_event, handler,
                 buf, inq, client, kept, dropped>>

(* Mutant: the write event is deleted when send would block. *)
SendAgainDeletes ==
  /\ handler = "do_write"
  /\ n_written < write_upto
  /\ peer # "rst" /\ Len(outq) = SndBuf
  /\ handler' = "idle"
  /\ write_event' = FALSE
  /\ UNCHANGED <<buffer, buffer_used, n_written, write_upto, alive, buf, inq,
                 outq, client, kept, given, dropped>>

(* send fails with EAGAIN: the write event stays pending. *)
SendAgain ==
  /\ handler = "do_write"
  /\ n_written < write_upto
  /\ peer # "rst" /\ Len(outq) = SndBuf
  /\ handler' = "idle"
  /\ UNCHANGED <<state, buf, inq, outq, client, kept, given, dropped>>

(* send fails otherwise: the state goes.  Where the process gets SIGPIPE with *)
(* the error it ends, which to this connection is the same.                   *)
SendError ==
  /\ handler = "do_write"
  /\ n_written < write_upto
  /\ peer = "rst"
  /\ free_fd_state
  /\ UNCHANGED <<buf, inq, outq, client, kept, given, dropped>>

(* Mutants of WriteDone: nothing is rewound; the write event is not deleted. *)
WriteDoneNotRewound ==
  /\ handler = "do_write"
  /\ ~(n_written < write_upto)
  /\ write_event' = FALSE
  /\ handler' = "idle"
  /\ UNCHANGED <<buffer, buffer_used, n_written, write_upto, alive, buf, inq, outq,
                 client, kept, given, dropped>>

WriteDoneKeepsEvent ==
  /\ handler = "do_write"
  /\ ~(n_written < write_upto)
  /\ IF n_written = buffer_used
     THEN n_written' = 1 /\ write_upto' = 1 /\ buffer_used' = 1
     ELSE UNCHANGED <<n_written, write_upto, buffer_used>>
  /\ handler' = "idle"
  /\ UNCHANGED <<buffer, alive, write_event, buf, inq, outq, client, kept, given, dropped>>

(* The loop is over: an empty buffer is rewound, to index 1, and the write  *)
(* event is deleted.                                                         *)
WriteDone ==
  /\ handler = "do_write"
  /\ ~(n_written < write_upto)
  /\ IF n_written = buffer_used
     THEN n_written' = 1 /\ write_upto' = 1 /\ buffer_used' = 1
     ELSE UNCHANGED <<n_written, write_upto, buffer_used>>
  /\ write_event' = FALSE
  /\ handler' = "idle"
  /\ UNCHANGED <<buffer, alive, buf, inq, outq, client, kept, given, dropped>>

do_read == StartRead \/ RecvSome \/ TakeByte \/ RecvAgain \/ RecvEnd
do_write ==
  \/ StartWrite \/ SendAgain \/ SendError \/ WriteDone
  \/ \E n \in 1..SndBuf : SendSome(n)

(* The system may stop when the client has gone and the state is freed. *)
Next ==
  \/ \E c \in Char : ClientSend(c)
  \/ ClientRecv \/ ClientFin \/ ClientRst
  \/ do_read \/ do_write

Spec == Init /\ [][Next]_vars

(* The loop keeps dispatching what is ready and a handler runs on: each is   *)
(* fair.  The client reads what reaches it; it owes nothing else.            *)
Fairness == WF_vars(do_read) /\ WF_vars(do_write) /\ WF_vars(ClientRecv)

FairSpec == Spec /\ Fairness

-----------------------------------------------------------------------------

(* The shapes of the state: the indices stay inside the buffer, and the     *)
(* handlers' local data is there only while they run.                        *)
TypeOK ==
  /\ buffer \in [0..MAX_LINE-1 -> Byte \cup {Junk}]
  /\ buffer_used \in 0..MAX_LINE
  /\ n_written \in 0..MAX_LINE
  /\ write_upto \in 0..MAX_LINE
  /\ alive \in BOOLEAN /\ write_event \in BOOLEAN /\ dropped \in BOOLEAN
  /\ handler \in {"idle", "do_read", "do_write"}
  /\ buf \in Seq(Char) /\ inq \in Seq(Char) /\ input \in Seq(Char)
  /\ outq \in Seq(Byte \cup {Junk}) /\ got \in Seq(Byte \cup {Junk})
  /\ kept \in Seq(Byte) /\ given \in Seq(Byte \cup {Junk})
  /\ peer \in {"open", "fin", "rst"}

(* n_written <= write_upto <= buffer_used: do_write never sends a byte that  *)
(* is not there, nor one past the last newline, whatever do_read does        *)
(* between two of its calls.                                                  *)
IndexOrder == n_written <= write_upto /\ write_upto <= buffer_used

(* The write event is pending exactly when there is something to write.      *)
(* Were it pending with nothing to send, do_write would spin; were it not    *)
(* pending with a line to send, the echo would never come.                   *)
WritePending ==
  (alive /\ handler # "do_write") => (write_event <=> n_written < write_upto)

(* Every byte the server has given to the kernel is, in order, a byte it    *)
(* stored: rewinding the indices never skips, repeats or invents one.        *)
EchoInOrder ==
  /\ Len(given) <= Len(kept)
  /\ \A k \in 1..Len(given) : given[k] = kept[k]

(* A line that is in the buffer reaches the client in the end, however       *)
(* slowly it reads, unless it closes its end or resets first.                 *)
StoredLineIsSent ==
  \A k \in 1..MaxSent :
     (Len(kept) >= k /\ kept[k] = NL) ~> (Len(got) >= k \/ peer # "open")

(* The connection implements the line echo: what the kernel was given is     *)
(* what went out, and write_upto - n_written bytes of the rest are released.  *)
Echo == INSTANCE LineEcho WITH
  Out <- Byte,
  taken <- kept,
  released <- Len(given) + (write_upto - n_written),
  out <- given

EchoSpec == Echo!Spec
=============================================================================
