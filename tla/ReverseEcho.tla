------------------------------ MODULE ReverseEcho ------------------------------
(***************************************************************************)
(* The echo server of libevent/server: read_cb takes the input of a        *)
(* bufferevent in pieces of at most sizeof(buffer) bytes and sends each    *)
(* piece back reversed, except that carriage returns, newlines and a zero  *)
(* at the end are to stay at the end.  The piece is treated as a C string  *)
(* in a buffer that was cleared first.                                     *)
(***************************************************************************)
EXTENDS Integers, Sequences, SequencesExt

CONSTANTS
  Letters,     \* bytes that are not NUL, LF or CR
  SIZE,        \* sizeof(buffer)
  SndBuf,      \* bytes the kernel holds for a client that does not read
  MaxBytes     \* bound: bytes the client sends

NUL == 0
LF == 10
CR == 13
Bytes == Letters \cup {NUL, LF, CR}

ReverseEchoAssumption ==
  /\ Letters \subseteq (1..255 \ {LF, CR})
  /\ SIZE \in Nat \ {0} /\ SndBuf \in Nat \ {0} /\ MaxBytes \in Nat

VARIABLES
  conn,        \* the bufferevent with its userdata: "up" or "freed"
  server,      \* "running", or "undefined" once a read left the buffer
  in, out,     \* its evbuffers
  inq, outq,   \* the kernel's socket buffers
  peer,        \* the client: "open" or "gone"
  sent, got,   \* history: how many bytes the client sent and received
  piece, reply \* history: the last piece read_cb took, and what it wrote

vars == <<conn, server, in, out, inq, outq, peer, sent, got, piece, reply>>

(* accept_cb has made the bufferevent. *)
Init ==
  /\ conn = "up" /\ server = "running"
  /\ in = <<>> /\ out = <<>> /\ inq = <<>> /\ outq = <<>>
  /\ peer = "open" /\ sent = 0 /\ got = 0
  /\ piece = <<>> /\ reply = <<>>

-----------------------------------------------------------------------------
(* What read_cb does to the buffer: the piece, and zeros behind it.  A zero   *)
(* that is put outside of the buffer leaves no buffer to speak of: <<>>.       *)

NoBytes == [j \in 1..SIZE |-> NUL] \o <<>>
Zeros(k) == SubSeq(NoBytes, 1, k)

(* Mutant: the buffer is not cleared. *)
BufferDirty(p) == p \o [j \in 1..SIZE - Len(p) |-> CHOOSE x \in Letters : TRUE]

Buffer(p) == p \o Zeros(SIZE - Len(p))

StrLen(b) ==
  LET ends == {k \in 1..Len(b) : b[k] = NUL}
  IN  IF ends = {} THEN Len(b) ELSE Min(ends) - 1

(* strchr and memmove, until the string has no newline and no carriage       *)
(* return: how many there were, and what is kept;                              *)
Sifted(str) ==
  LET upto[k \in 0..Len(str)] ==
        IF k = 0 THEN [kept |-> <<>>, cr |-> 0, lf |-> 0]
        ELSE CASE str[k] = CR -> [upto[k - 1] EXCEPT !.cr = @ + 1]
               [] str[k] = LF -> [upto[k - 1] EXCEPT !.lf = @ + 1]
               [] OTHER -> [upto[k - 1] EXCEPT !.kept = Append(@, str[k])]
  IN  upto[Len(str)]

(* what follows moves up, the rest of the buffer stays. *)
Squeeze(b) ==
  LET n == StrLen(b)
      kept == Sifted(SubSeq(b, 1, n)).kept
  IN  kept \o Zeros(n - Len(kept)) \o SubSeq(b, n + 1, Len(b))

(* The swapping loop: the first m bytes, reversed. *)
Swap(b, m) == Reverse(SubSeq(b, 1, m)) \o SubSeq(b, m + 1, Len(b))

(* buffer[strlen(buffer)] = c, and then buffer[strlen(buffer) + 1] = 0: not   *)
(* the byte behind c, but the one after the next zero.                         *)
PutEnd(b, c) ==
  LET ended == IF StrLen(b) < Len(b) THEN ReplaceAt(b, StrLen(b) + 1, c) ELSE b
      q == StrLen(ended)
  IN  IF q + 1 < Len(b) THEN ReplaceAt(ended, q + 2, NUL) ELSE <<>>

(* Mutant: the newline is put back first. *)
ReversedLfFirst(b, n) ==
  LET str == Sifted(SubSeq(b, 1, StrLen(b)))
      has_null == IF StrLen(b) # n THEN 1 ELSE 0
      swapped == Swap(Squeeze(b), n - (str.cr + str.lf + has_null))
      withlf == IF str.lf > 0 THEN PutEnd(swapped, LF) ELSE swapped
  IN  IF str.cr > 0 THEN PutEnd(withlf, CR) ELSE withlf

(* The whole: count and remove, reverse the rest of the n bytes, put the      *)
(* controls back.                                                              *)
Reversed(b, n) ==
  LET str == Sifted(SubSeq(b, 1, StrLen(b)))
      has_null == IF StrLen(b) # n THEN 1 ELSE 0
      swapped == Swap(Squeeze(b), n - (str.cr + str.lf + has_null))
      withcr == IF str.cr > 0 THEN PutEnd(swapped, CR) ELSE swapped
  IN  IF str.lf > 0 THEN PutEnd(withcr, LF) ELSE withcr

-----------------------------------------------------------------------------
(* The client and the library (external).                                   *)

ClientSend(c) ==
  /\ peer = "open" /\ sent < MaxBytes
  /\ inq' = Append(inq, c) /\ sent' = sent + 1
  /\ UNCHANGED <<conn, server, in, out, outq, peer, got, piece, reply>>

ClientRecv ==
  /\ peer = "open" /\ outq # <<>>
  /\ outq' = Tail(outq) /\ got' = got + 1
  /\ UNCHANGED <<conn, server, in, out, inq, peer, sent, piece, reply>>

ClientClose ==
  /\ peer = "open" /\ peer' = "gone" /\ outq' = <<>>
  /\ UNCHANGED <<conn, server, in, out, inq, sent, got, piece, reply>>

Up == server = "running" /\ conn = "up"

(* The library appends what has come, and calls read_cb until it is empty. *)
Arrive ==
  /\ Up /\ inq # <<>> /\ in = <<>>
  /\ \E n \in 1..Len(inq) :
       in' = SubSeq(inq, 1, n) /\ inq' = SubSeq(inq, n + 1, Len(inq))
  /\ UNCHANGED <<conn, server, out, outq, peer, sent, got, piece, reply>>

Write ==
  /\ Up /\ in = <<>> /\ out # <<>> /\ peer = "open" /\ Len(outq) < SndBuf
  /\ outq' = Append(outq, Head(out)) /\ out' = Tail(out)
  /\ UNCHANGED <<conn, server, in, inq, peer, sent, got, piece, reply>>

-----------------------------------------------------------------------------
(* The callbacks.                                                           *)

(* One turn of the loop of read_cb takes a piece from the bufferevent; *)
PieceLen == IF Len(in) < SIZE THEN Len(in) ELSE SIZE

TakePiece ==
  /\ Up /\ in # <<>>
  /\ piece' = SubSeq(in, 1, PieceLen)
  /\ in' = SubSeq(in, PieceLen + 1, Len(in))

(* and answers it.  A piece that fills the buffer and has no zero is no      *)
(* string: strlen and strchr leave the buffer, as does a zero that is put     *)
(* behind a control at its end.                                                *)
read_cb ==
  /\ TakePiece
  /\ LET b == Buffer(piece')
         r == Reversed(b, PieceLen)
     IN  IF StrLen(b) = SIZE \/ r = <<>>
         THEN server' = "undefined" /\ UNCHANGED <<out, reply>>
         ELSE /\ reply' = SubSeq(r, 1, PieceLen) /\ out' = out \o reply'
              /\ UNCHANGED server
  /\ UNCHANGED <<conn, inq, outq, peer, sent, got>>

(* event_cb: the end of the input, or an error; the userdata and the         *)
(* bufferevent are freed, with what is left to write.                          *)
event_cb ==
  /\ Up /\ in = <<>> /\ inq = <<>> /\ peer = "gone"
  /\ conn' = "freed" /\ out' = <<>>
  /\ UNCHANGED <<server, in, inq, outq, peer, sent, got, piece, reply>>

Next ==
  \/ \E c \in Bytes : ClientSend(c)
  \/ ClientRecv \/ ClientClose \/ Arrive \/ Write
  \/ read_cb \/ event_cb

-----------------------------------------------------------------------------

(* What the comment in read_cb draws: a line's letters come back reversed,   *)
(* and what ends the line, a zero behind it as well, stays at the end.  A       *)
(* piece with controls anywhere but no zero counts as one line: all carriage     *)
(* returns become one and all newlines one, and zeros make up the length.        *)
EchoIsReversed ==
  server = "running" =>
    /\ \A tail \in {<<>>, <<LF>>, <<CR, LF>>, <<CR, LF, NUL>>, <<LF, NUL>>, <<NUL>>} :
         LET n == Len(piece) - Len(tail)
             body == SubSeq(piece, 1, n)
         IN  (n >= 0 /\ piece = body \o tail /\ \A k \in 1..n : body[k] \in Letters)
               => reply = Reverse(body) \o tail
    /\ LET kept == Sifted(piece).kept
           ends == (IF CR \in Range(piece) THEN <<CR>> ELSE <<>>)
                     \o (IF LF \in Range(piece) THEN <<LF>> ELSE <<>>)
       IN  NUL \notin Range(piece)
             => reply = Reverse(kept) \o ends
                          \o Zeros(Len(piece) - Len(kept) - Len(ends))

(* The string functions and the zeros put behind the controls stay inside    *)
(* the buffer for every piece that leaves two bytes of it free, zeros          *)
(* anywhere: those two bytes are what the code needs.                          *)
InsideWithTwoToSpare == server = "undefined" => Len(piece) >= SIZE - 1
=============================================================================
