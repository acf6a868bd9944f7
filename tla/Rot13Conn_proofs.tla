--------------------------- MODULE Rot13Conn_proofs ---------------------------
(* Proofs about Rot13Conn, for every size of the buffers and every client. *)
EXTENDS MCRot13Conn, SequenceTheorems, TLAPS

(* rot13_char maps bytes to bytes and undoes itself, and the newline is the  *)
(* only character it maps to the newline: looking for line ends before or    *)
(* after the translation is the same.                                         *)
LEMMA Rot13Involution ==
  \A c \in Byte : /\ rot13_char(c) \in Byte
                  /\ rot13_char(rot13_char(c)) = c
                  /\ rot13_char(c) = NL <=> c = NL
  BY DEF rot13_char, Byte, NL

-----------------------------------------------------------------------------

(* A function on 1..n is a sequence of length n. *)
LEMMA FunctionIsSeq ==
  ASSUME NEW S, NEW n \in Nat, NEW f \in [1..n -> S]
  PROVE  f \in Seq(S) /\ Len(f) = n
  <1>1. f \in Seq(S)
    BY SeqDef
  <1>2. DOMAIN f = 1..n /\ DOMAIN f = 1..Len(f) /\ Len(f) \in Nat
    BY <1>1, LenProperties
  <1> DEFINE m == Len(f)
  <1>3. m \in Nat /\ 1..m = 1..n
    BY <1>2
  <1> HIDE DEF m
  <1>4. (n > 0 => n \in 1..m) /\ (m > 0 => m \in 1..n)
    BY <1>3
  <1>5. m = n
    BY <1>3, <1>4
  <1> QED BY <1>1, <1>5 DEF m

(* The strengthening of the invariants of Rot13Conn that a step preserves:    *)
(* between handlers the buffer is never full of bytes that were all sent (a   *)
(* full one is rewound), which is what a newline that finds no room relies on *)
(* to leave something to write; a running do_write has its event pending; and *)
(* the buffer from n_written on is the end of what was kept.                   *)
Rewound == handler # "do_write" => n_written < MAX_LINE
EventAgrees ==
  /\ handler # "idle" => alive
  /\ handler = "do_write" => write_event
  /\ alive /\ handler # "do_write" => (write_event <=> n_written < write_upto)
Unsent ==
  /\ Len(kept) - Len(given) = buffer_used - n_written
  /\ \A k \in n_written..(buffer_used - 1) :
       buffer[k] = kept[Len(given) + (k - n_written) + 1]
Sent == \A k \in 1..Len(given) : given[k] = kept[k]

Inv == TypeOK /\ IndexOrder /\ Rewound /\ EventAgrees /\ Unsent /\ Sent

-----------------------------------------------------------------------------
(* Type correctness.                                                         *)

(* What the proofs use of the constants. *)
LEMMA Constants ==
  /\ MAX_LINE \in Nat /\ MAX_LINE > 1
  /\ RecvSize \in Nat \ {0}
  /\ SndBuf \in Nat \ {0}
  /\ Char \subseteq Byte
  /\ Junk \notin Byte
  BY ConnAssumption DEF ConnAssumption, Byte

LEMMA TypeInit == Init => TypeOK
  <1> SUFFICES ASSUME Init PROVE TypeOK
    OBVIOUS
  <1> USE Constants
  <1>1. /\ buf \in Seq(Char) /\ inq \in Seq(Char) /\ input \in Seq(Char)
        /\ outq \in Seq(Byte \cup {Junk}) /\ got \in Seq(Byte \cup {Junk})
        /\ given \in Seq(Byte \cup {Junk}) /\ kept \in Seq(Byte)
    BY EmptySeq DEF Init
  <1>2. /\ buffer \in [0..MAX_LINE-1 -> Byte \cup {Junk}]
        /\ buffer_used \in 0..MAX_LINE
        /\ n_written \in 0..MAX_LINE
        /\ write_upto \in 0..MAX_LINE
    BY DEF Init
  <1>3. /\ alive \in BOOLEAN /\ write_event \in BOOLEAN /\ dropped \in BOOLEAN
        /\ handler \in {"idle", "do_read", "do_write"}
        /\ peer \in {"open", "fin", "rst"}
    BY DEF Init
  <1> QED BY <1>1, <1>2, <1>3 DEF TypeOK

LEMMA TypeNext == TypeOK /\ IndexOrder /\ [Next]_vars => TypeOK'
  <1> SUFFICES ASSUME TypeOK, IndexOrder, [Next]_vars PROVE TypeOK'
    OBVIOUS
  <1> USE Constants DEF TypeOK
  <1>1. ASSUME NEW c \in Char, ClientSend(c) PROVE TypeOK'
    <2>1. inq' \in Seq(Char) /\ input' \in Seq(Char)
      BY <1>1, AppendProperties DEF ClientSend
    <2> QED BY <1>1, <2>1 DEF ClientSend, state
  <1>2. CASE ClientRecv
    <2>1. got' \in Seq(Byte \cup {Junk}) /\ outq' \in Seq(Byte \cup {Junk})
      BY <1>2, AppendProperties, HeadTailProperties DEF ClientRecv
    <2> QED BY <1>2, <2>1 DEF ClientRecv, state
  <1>3. CASE ClientFin
    BY <1>3 DEF ClientFin, state
  <1>4. CASE ClientRst
    <2>1. inq' \in Seq(Char) /\ outq' \in Seq(Byte \cup {Junk})
      BY <1>4, EmptySeq DEF ClientRst
    <2> QED BY <1>4, <2>1 DEF ClientRst, state
  <1>5. CASE StartRead
    BY <1>5 DEF StartRead, state, client
  <1>6. CASE RecvSome
    <2> DEFINE n == IF Len(inq) < RecvSize THEN Len(inq) ELSE RecvSize
    <2>1. Len(inq) \in Nat /\ n \in 0..Len(inq)
      BY LenProperties
    <2>2. buf' = SubSeq(inq, 1, n) /\ inq' = SubSeq(inq, n + 1, Len(inq))
      BY <1>6 DEF RecvSome
    <2>3. \A k \in 1..Len(inq) : inq[k] \in Char
      BY ElementOfSeq
    <2> HIDE DEF n
    <2>4. buf' \in Seq(Char)
      <3>1. \A k \in 1..n : inq[k] \in Char
        BY <2>1, <2>3
      <3> QED BY <2>1, <2>2, <3>1, SubSeqProperties
    <2>5. inq' \in Seq(Char)
      <3>1. \A k \in (n+1)..Len(inq) : inq[k] \in Char
        BY <2>1, <2>3
      <3> QED BY <2>1, <2>2, <3>1, SubSeqProperties
    <2> QED BY <1>6, <2>4, <2>5 DEF RecvSome, state, client
  <1>7. CASE TakeByte
    <2> DEFINE c == Head(buf)
               room == buffer_used < MAX_LINE
    <2>1. c \in Byte /\ Tail(buf) \in Seq(Char)
      BY <1>7, HeadTailProperties DEF TakeByte
    <2>2. rot13_char(c) \in Byte
      BY <2>1, Rot13Involution
    <2>3. kept' \in Seq(Byte)
      BY <1>7, <2>2, AppendProperties DEF TakeByte
    <2>4. buffer' \in [0..MAX_LINE-1 -> Byte \cup {Junk}]
      BY <1>7, <2>2 DEF TakeByte
    <2>5. buffer_used' \in 0..MAX_LINE /\ write_upto' \in 0..MAX_LINE
      BY <1>7 DEF TakeByte
    <2>6. write_event' \in BOOLEAN /\ dropped' \in BOOLEAN
      BY <1>7 DEF TakeByte
    <2> QED BY <1>7, <2>1, <2>3, <2>4, <2>5, <2>6 DEF TakeByte, client
  <1>8. CASE RecvAgain
    BY <1>8 DEF RecvAgain, state, client
  <1>9. CASE RecvEnd
    BY <1>9 DEF RecvEnd, free_fd_state, client
  <1>10. CASE StartWrite
    BY <1>10 DEF StartWrite, state, client
  <1>11. ASSUME NEW n \in 1..SndBuf, SendSome(n) PROVE TypeOK'
    <2> DEFINE bytes == [k \in 1..n |-> buffer[n_written + k - 1]]
    <2>1. n_written + n <= MAX_LINE /\ n \in Nat
      BY <1>11 DEF SendSome
    <2>2. \A k \in 1..n : n_written + k - 1 \in 0..MAX_LINE-1
      BY <2>1
    <2>3. bytes \in Seq(Byte \cup {Junk})
      <3>1. bytes \in [1..n -> Byte \cup {Junk}]
        BY <2>2
      <3> QED BY <2>1, <3>1, FunctionIsSeq
    <2>4. outq' = outq \o bytes /\ given' = given \o bytes
      BY <1>11 DEF SendSome
    <2> HIDE DEF bytes
    <2>5. outq' \in Seq(Byte \cup {Junk}) /\ given' \in Seq(Byte \cup {Junk})
      BY <2>3, <2>4, ConcatProperties
    <2>6. n_written' \in 0..MAX_LINE
      BY <1>11, <2>1 DEF SendSome
    <2> QED BY <1>11, <2>5, <2>6 DEF SendSome, client
  <1>12. CASE SendAgain
    BY <1>12 DEF SendAgain, state, client
  <1>13. CASE SendError
    BY <1>13 DEF SendError, free_fd_state, client
  <1>14. CASE WriteDone
    <2>1. n_written' \in 0..MAX_LINE /\ write_upto' \in 0..MAX_LINE
          /\ buffer_used' \in 0..MAX_LINE
      BY <1>14 DEF WriteDone
    <2> QED BY <1>14, <2>1 DEF WriteDone, client
  <1>15. CASE UNCHANGED vars
    BY <1>15 DEF vars, state, client
  <1> QED BY <1>1, <1>2, <1>3, <1>4, <1>5, <1>6, <1>7, <1>8, <1>9, <1>10,
             <1>11, <1>12, <1>13, <1>14, <1>15 DEF Next, do_read, do_write

-----------------------------------------------------------------------------
(* The indices and the write event.                                          *)

Indices == IndexOrder /\ Rewound /\ EventAgrees

LEMMA IndicesInit == Init => Indices
  BY Constants DEF Init, Indices, IndexOrder, Rewound, EventAgrees

LEMMA IndicesNext == TypeOK /\ Indices /\ [Next]_vars => Indices'
  <1> SUFFICES ASSUME TypeOK, Indices, [Next]_vars PROVE Indices'
    OBVIOUS
  <1> USE Constants DEF TypeOK, Indices, IndexOrder, Rewound, EventAgrees
  <1>1. ASSUME NEW c \in Char, ClientSend(c) PROVE Indices'
    BY <1>1 DEF ClientSend, state
  <1>2. CASE ClientRecv \/ ClientFin \/ ClientRst
    <2>1. UNCHANGED <<state, handler>>
      BY ONLY <1>2 DEF ClientRecv, ClientFin, ClientRst
    <2> QED BY <2>1 DEF state
  <1>3. CASE StartRead \/ RecvSome \/ RecvAgain
    <2>1. UNCHANGED state
      BY <1>3 DEF StartRead, RecvSome, RecvAgain
    <2>2. handler # "do_write" /\ handler' # "do_write" /\ (handler' # "idle" => alive)
      BY <1>3 DEF StartRead, RecvSome, RecvAgain
    <2> QED BY <2>1, <2>2 DEF state
  <1>4. CASE TakeByte
    <2>1. CASE Head(buf) = NL
      <3>1. /\ write_event' = TRUE /\ write_upto' = buffer_used'
            /\ UNCHANGED <<n_written, alive, handler>>
        BY <1>4, <2>1 DEF TakeByte
      <3>2. n_written < buffer_used'
        BY <1>4 DEF TakeByte
      <3> QED BY <1>4, <3>1, <3>2 DEF TakeByte
    <2>2. CASE Head(buf) # NL
      <3>1. /\ write_event' = write_event
            /\ UNCHANGED <<write_upto, n_written, alive, handler>>
        BY <1>4, <2>2 DEF TakeByte
      <3>2. buffer_used <= buffer_used'
        BY <1>4 DEF TakeByte
      <3> QED BY <1>4, <3>1, <3>2 DEF TakeByte
    <2> QED BY <2>1, <2>2
  <1>5. CASE RecvEnd \/ SendError
    BY <1>5 DEF RecvEnd, SendError, free_fd_state
  <1>6. CASE StartWrite \/ SendAgain
    BY <1>6 DEF StartWrite, SendAgain, state
  <1>7. ASSUME NEW n \in 1..SndBuf, SendSome(n) PROVE Indices'
    BY <1>7 DEF SendSome
  <1>8. CASE WriteDone
    <2>1. CASE n_written = buffer_used
      BY <1>8, <2>1 DEF WriteDone
    <2>2. CASE n_written # buffer_used
      BY <1>8, <2>2 DEF WriteDone
    <2> QED BY <2>1, <2>2
  <1>9. CASE UNCHANGED vars
    BY <1>9 DEF vars, state
  <1> QED BY <1>1, <1>2, <1>3, <1>4, <1>5, <1>6, <1>7, <1>8, <1>9
          DEF Next, do_read, do_write

-----------------------------------------------------------------------------
(* The contents of the buffer and what has been sent.                        *)

LEMMA ContentInit == Init => Unsent /\ Sent
  <1> SUFFICES ASSUME Init PROVE Unsent /\ Sent
    OBVIOUS
  <1>1. Len(kept) = 0 /\ Len(given) = 0
    BY EmptySeq DEF Init
  <1> QED BY <1>1 DEF Init, Unsent, Sent

(* A byte that finds room goes to the end of the buffer and of what was kept. *)
LEMMA TakeByteContent ==
  ASSUME TypeOK, IndexOrder, Unsent, Sent, TakeByte
  PROVE  Unsent' /\ Sent'
  <1> USE Constants DEF TypeOK, IndexOrder
  <1>1. Len(kept) \in Nat /\ Len(given) \in Nat /\ UNCHANGED <<given, n_written>>
    BY LenProperties DEF TakeByte
  <1>2. CASE buffer_used < MAX_LINE
    <2> DEFINE e == rot13_char(Head(buf))
    <2>1. e \in Byte
      <3>1. Head(buf) \in Byte
        BY HeadTailProperties DEF TakeByte
      <3> QED BY <3>1, Rot13Involution
    <2>2. /\ kept' = Append(kept, e)
          /\ buffer_used' = buffer_used + 1
          /\ buffer' = [buffer EXCEPT ![buffer_used] = e]
      BY <1>2 DEF TakeByte
    <2> HIDE DEF e
    <2>3. /\ Len(kept') = Len(kept) + 1
          /\ \A k \in 1..Len(kept) : kept'[k] = kept[k]
          /\ kept'[Len(kept) + 1] = e
      BY <2>1, <2>2, AppendProperties
    <2>4. /\ buffer'[buffer_used] = e
          /\ \A k \in 0..(buffer_used - 1) : buffer'[k] = buffer[k]
      BY <1>2, <2>2
    <2>5. /\ Len(kept) \in Int /\ Len(given) \in Int
          /\ buffer_used \in Int /\ n_written \in Int
          /\ Len(kept) - Len(given) = buffer_used - n_written
      BY <1>1 DEF Unsent
    <2>6. ASSUME NEW k \in n_written..(buffer_used' - 1)
          PROVE  buffer'[k] = kept'[Len(given) + (k - n_written) + 1]
      <3>1. CASE k = buffer_used
        <4>1. Len(given) + (k - n_written) + 1 = Len(kept) + 1
          BY ONLY <2>5, <3>1
        <4> QED BY <3>1, <4>1, <2>3, <2>4
      <3>2. CASE k # buffer_used
        <4>1. k \in n_written..(buffer_used - 1) /\ k \in 0..(buffer_used - 1)
          BY <2>2, <3>2
        <4>2. Len(given) + (k - n_written) + 1 \in 1..Len(kept)
          BY <1>1, <4>1 DEF Unsent
        <4>3. buffer[k] = kept[Len(given) + (k - n_written) + 1]
          BY <4>1 DEF Unsent
        <4> QED BY <4>1, <4>2, <4>3, <2>3, <2>4
      <3> QED BY <3>1, <3>2
    <2>7. Unsent'
      <3>1. Len(given') = Len(given) /\ n_written' = n_written
        BY <1>1
      <3>2. Len(kept') = Len(kept) + 1 /\ buffer_used' = buffer_used + 1
        BY <2>2, <2>3
      <3>4. Len(kept') - Len(given') = buffer_used' - n_written'
        BY ONLY <2>5, <3>1, <3>2
      <3>5. \A k \in n_written'..(buffer_used' - 1) :
              buffer'[k] = kept'[Len(given') + (k - n_written') + 1]
        BY <2>6, <3>1
      <3> QED BY ONLY <3>4, <3>5 DEF Unsent
    <2>8. Sent'
      <3>1. Len(given) <= Len(kept)
        BY <1>1 DEF Unsent
      <3> QED BY <1>1, <2>3, <3>1 DEF Sent
    <2> QED BY <2>7, <2>8
  <1>3. CASE ~(buffer_used < MAX_LINE)
    <2>1. UNCHANGED <<kept, buffer, buffer_used>>
      BY <1>3 DEF TakeByte
    <2> QED BY <1>1, <2>1 DEF Unsent, Sent
  <1> QED BY <1>2, <1>3

(* The bytes that send takes are the next ones of what was kept. *)
LEMMA SendSomeContent ==
  ASSUME TypeOK, IndexOrder, Unsent, Sent, NEW n \in 1..SndBuf, SendSome(n)
  PROVE  /\ given' = given \o [k \in 1..n |-> kept[Len(given) + k]]
         /\ Len(given') = Len(given) + n
         /\ Unsent' /\ Sent'
  <1> USE Constants DEF TypeOK, IndexOrder
  <1> DEFINE bytes == [k \in 1..n |-> buffer[n_written + k - 1]]
  <1>1. /\ given' = given \o bytes
        /\ n_written' = n_written + n /\ n_written + n <= buffer_used
        /\ UNCHANGED <<buffer, buffer_used, kept>>
    BY DEF SendSome
  <1>2. Len(kept) \in Nat /\ Len(given) \in Nat /\ n \in Nat
    BY LenProperties
  <1>3. ASSUME NEW k \in 1..n
        PROVE  buffer[n_written + k - 1] = kept[Len(given) + k]
    <2>1. n_written + k - 1 \in n_written..(buffer_used - 1)
      BY <1>1
    <2>2. Len(given) + ((n_written + k - 1) - n_written) + 1 = Len(given) + k
      BY <1>2
    <2> QED BY <2>1, <2>2 DEF Unsent
  <1>4. bytes = [k \in 1..n |-> kept[Len(given) + k]]
    BY <1>3
  <1>5. bytes \in Seq(Byte \cup {Junk}) /\ Len(bytes) = n
    <2>1. \A k \in 1..n : n_written + k - 1 \in 0..MAX_LINE-1
      BY <1>1
    <2>2. bytes \in [1..n -> Byte \cup {Junk}]
      BY <2>1
    <2> QED BY <1>2, <2>2, FunctionIsSeq
  <1>6. \A k \in 1..n : bytes[k] = kept[Len(given) + k]
    BY <1>3
  <1> HIDE DEF bytes
  <1>7. /\ Len(given') = Len(given) + n
        /\ \A k \in 1..(Len(given) + n) :
             given'[k] = IF k <= Len(given) THEN given[k] ELSE bytes[k - Len(given)]
    <2>1. given \in Seq(Byte \cup {Junk})
      OBVIOUS
    <2> QED BY ONLY <1>1, <1>2, <1>5, <2>1, ConcatProperties
  <1>8. Sent'
    <2>1. ASSUME NEW k \in 1..(Len(given) + n) PROVE given'[k] = kept[k]
      <3>1. CASE k <= Len(given)
        <4>1. k \in 1..Len(given)
          BY <1>2, <3>1
        <4> QED BY <1>7, <3>1, <4>1 DEF Sent
      <3>2. CASE ~(k <= Len(given))
        <4>1. k - Len(given) \in 1..n /\ Len(given) + (k - Len(given)) = k
          BY <1>2, <3>2
        <4> QED BY <1>6, <1>7, <3>2, <4>1
      <3> QED BY <3>1, <3>2
    <2> QED BY <1>1, <1>7, <2>1 DEF Sent
  <1>9. Unsent'
    <2>1. Len(kept') - Len(given') = buffer_used' - n_written'
      BY <1>1, <1>2, <1>7 DEF Unsent
    <2>2. ASSUME NEW k \in (n_written + n)..(buffer_used - 1)
          PROVE  buffer[k] = kept[(Len(given) + n) + (k - (n_written + n)) + 1]
      <3>1. k \in n_written..(buffer_used - 1)
        BY <1>2
      <3>2. (Len(given) + n) + (k - (n_written + n)) + 1 = Len(given) + (k - n_written) + 1
        BY <1>2
      <3> QED BY <3>1, <3>2 DEF Unsent
    <2>3. \A k \in n_written'..(buffer_used' - 1) :
            buffer'[k] = kept'[Len(given') + (k - n_written') + 1]
      BY <1>1, <1>7, <2>2
    <2> QED BY <2>1, <2>3 DEF Unsent
  <1> QED BY <1>1, <1>4, <1>7, <1>8, <1>9

LEMMA ContentNext ==
  TypeOK /\ IndexOrder /\ Unsent /\ Sent /\ [Next]_vars => Unsent' /\ Sent'
  <1> SUFFICES ASSUME TypeOK, IndexOrder, Unsent, Sent, [Next]_vars
               PROVE  Unsent' /\ Sent'
    OBVIOUS
  <1>1. CASE UNCHANGED <<buffer, buffer_used, n_written, kept, given>>
    BY <1>1 DEF Unsent, Sent
  <1>2. CASE TakeByte
    BY <1>2, TakeByteContent
  <1>3. ASSUME NEW n \in 1..SndBuf, SendSome(n) PROVE Unsent' /\ Sent'
    BY <1>3, SendSomeContent
  <1>4. CASE WriteDone
    <2>1. UNCHANGED <<buffer, kept, given>>
      BY <1>4 DEF WriteDone
    <2>2. CASE n_written = buffer_used
      <3>1. n_written' = 1 /\ buffer_used' = 1
        BY <1>4, <2>2 DEF WriteDone
      <3>2. Len(kept) = Len(given)
        BY <2>2, LenProperties DEF Unsent, TypeOK
      <3>3. Len(kept') - Len(given') = buffer_used' - n_written'
        BY <2>1, <3>1, <3>2, LenProperties DEF TypeOK
      <3> QED BY <2>1, <3>1, <3>3 DEF Unsent, Sent
    <2>3. CASE n_written # buffer_used
      BY <1>1, <1>4, <2>1, <2>3 DEF WriteDone
    <2> QED BY <2>2, <2>3
  <1>5. ASSUME NEW c \in Char, ClientSend(c)
        PROVE  UNCHANGED <<buffer, buffer_used, n_written, kept, given>>
    BY <1>5 DEF ClientSend, state
  <1>6. CASE ClientRecv \/ ClientFin \/ ClientRst
    BY <1>1, <1>6 DEF ClientRecv, ClientFin, ClientRst, state
  <1>7. CASE StartRead \/ RecvSome \/ RecvAgain \/ RecvEnd
    BY <1>1, <1>7 DEF StartRead, RecvSome, RecvAgain, RecvEnd, free_fd_state, state
  <1>8. CASE StartWrite \/ SendAgain \/ SendError
    BY <1>1, <1>8 DEF StartWrite, SendAgain, SendError, free_fd_state, state
  <1>9. CASE UNCHANGED vars
    BY <1>1, <1>9 DEF vars, state
  <1> QED BY <1>1, <1>2, <1>3, <1>4, <1>5, <1>6, <1>7, <1>8, <1>9
          DEF Next, do_read, do_write

-----------------------------------------------------------------------------

LEMMA InvInit == Init => Inv
  BY TypeInit, IndicesInit, ContentInit DEF Inv, Indices

LEMMA InvNext == Inv /\ [Next]_vars => Inv'
  BY TypeNext, IndicesNext, ContentNext DEF Inv, Indices

LEMMA InvAlways == Spec => []Inv
  BY InvInit, InvNext, PTL DEF Spec

(* The state keeps its shape: no index leaves the buffer. *)
THEOREM TypeCorrect == Spec => []TypeOK
  <1>1. Inv => TypeOK
    BY DEF Inv
  <1> QED BY <1>1, InvAlways, PTL

(* n_written <= write_upto <= buffer_used in every state. *)
THEOREM IndicesOrdered == Spec => []IndexOrder
  <1>1. Inv => IndexOrder
    BY DEF Inv
  <1> QED BY <1>1, InvAlways, PTL

(* The write event is pending exactly when there is something to write. *)
THEOREM WriteEventAgrees == Spec => []WritePending
  <1>1. Inv => WritePending
    BY DEF Inv, EventAgrees, WritePending
  <1> QED BY <1>1, InvAlways, PTL

(* What send took is a prefix of what do_read stored, overflow or not. *)
THEOREM EchoOrdered == Spec => []EchoInOrder
  <1>1. Inv => EchoInOrder
    <2> SUFFICES ASSUME Inv PROVE EchoInOrder
      OBVIOUS
    <2>1. Len(given) \in Nat /\ Len(kept) \in Nat
      BY LenProperties DEF Inv, TypeOK
    <2>2. Len(given) <= Len(kept)
      BY <2>1, Constants DEF Inv, TypeOK, IndexOrder, Unsent
    <2> QED BY <2>2 DEF Inv, Sent, EchoInOrder
  <1> QED BY <1>1, InvAlways, PTL

-----------------------------------------------------------------------------
(* The connection implements LineEcho.                                       *)

Released == Len(given) + (write_upto - n_written)
EchoStep == Echo!Next \/ UNCHANGED <<kept, Released, given>>

LEMMA EchoInit == Init => Echo!Init
  BY EmptySeq DEF Init, Echo!Init

(* Storing a byte takes it; a newline releases all that is in the buffer,    *)
(* and one that found no room releases what came before it.                   *)
LEMMA TakeByteEcho ==
  ASSUME Inv, TakeByte
  PROVE  EchoStep
  <1> DEFINE e == rot13_char(Head(buf))
  <1> USE Constants DEF Inv, TypeOK, IndexOrder
  <1>1. /\ Len(kept) \in Nat /\ Len(given) \in Nat
        /\ Len(kept) - Len(given) = buffer_used - n_written
        /\ UNCHANGED <<given, n_written>>
    BY LenProperties DEF TakeByte, Unsent
  <1>2. Head(buf) \in Byte
    BY HeadTailProperties DEF TakeByte
  <1>3. e \in Byte /\ (e = 10 <=> Head(buf) = NL)
    BY <1>2, Rot13Involution DEF NL
  <1>4. CASE buffer_used < MAX_LINE
    <2>1. kept' = Append(kept, e)
      BY <1>4 DEF TakeByte
    <2>2. write_upto' = IF e = 10 THEN buffer_used + 1 ELSE write_upto
      BY <1>3, <1>4 DEF TakeByte
    <2> HIDE DEF e
    <2>3. Len(given)' = Len(given) /\ n_written' = n_written
      BY <1>1
    <2>4. /\ Released = Len(given) + (write_upto - n_written)
          /\ Released' = Len(given) + (write_upto' - n_written)
      BY <2>3 DEF Released
    <2>5. /\ Len(kept) \in Int /\ Len(given) \in Int
          /\ write_upto \in Int /\ n_written \in Int /\ buffer_used \in Int
      BY <1>1
    <2>6. Released' = IF e = 10 THEN Len(kept) + 1 ELSE Released
      <3>1. CASE e = 10
        <4>1. write_upto' = buffer_used + 1
          BY <2>2, <3>1
        <4>2. Released' = Len(kept) + 1
          BY ONLY <1>1, <2>4, <2>5, <4>1
        <4> QED BY <3>1, <4>2
      <3>2. CASE e # 10
        <4>1. write_upto' = write_upto
          BY <2>2, <3>2
        <4>2. Released' = Released
          BY ONLY <2>4, <4>1
        <4> QED BY <3>2, <4>2
      <3> QED BY <3>1, <3>2
    <2>7. Echo!Take(e)
      BY <1>1, <2>1, <2>6 DEF Echo!Take, Released
    <2> QED BY <1>3, <2>7 DEF Echo!Next, EchoStep
  <1>5. CASE ~(buffer_used < MAX_LINE)
    <2>1. UNCHANGED kept /\ buffer_used' = buffer_used
      BY <1>5 DEF TakeByte
    <2>2. Len(given)' = Len(given) /\ n_written' = n_written
      BY <1>1
    <2>3. CASE Head(buf) = NL
      <3>1. write_upto' = buffer_used
        BY <1>5, <2>3 DEF TakeByte
      <3>2. Released' = Len(kept)
        BY <1>1, <2>2, <3>1 DEF Released
      <3> QED BY <1>1, <2>1, <3>2 DEF Echo!Release, Echo!Next, EchoStep, Released
    <2>4. CASE Head(buf) # NL
      <3>1. write_upto' = write_upto
        BY <1>5, <2>4 DEF TakeByte
      <3> QED BY <1>1, <2>1, <2>2, <3>1 DEF EchoStep, Released
    <2> QED BY <2>3, <2>4
  <1> QED BY <1>4, <1>5

(* Sending n bytes emits the next n, all of them released. *)
LEMMA SendSomeEcho ==
  ASSUME Inv, NEW n \in 1..SndBuf, SendSome(n)
  PROVE  EchoStep
  <1> USE Constants DEF Inv
  <1>1. /\ given' = given \o [k \in 1..n |-> kept[Len(given) + k]]
        /\ Len(given') = Len(given) + n
    BY SendSomeContent
  <1>2. Len(given) \in Nat /\ n \in Nat \ {0}
    BY LenProperties DEF TypeOK
  <1>3. /\ n_written' = n_written + n /\ n_written + n <= write_upto
        /\ UNCHANGED <<kept, write_upto>>
    BY DEF SendSome
  <1>4. n_written \in Nat /\ write_upto \in Nat
    BY DEF TypeOK
  <1>5. Released' = Released
    BY <1>1, <1>2, <1>3, <1>4 DEF Released
  <1>6. Len(given) + n <= Released /\ n \in 1..Released
    BY <1>2, <1>3, <1>4 DEF Released
  <1>7. Echo!Emit(n)
    BY <1>1, <1>3, <1>5, <1>6 DEF Echo!Emit, Released
  <1> QED BY <1>6, <1>7 DEF Echo!Next, EchoStep, Released

LEMMA EchoNext == Inv /\ [Next]_vars => EchoStep
  <1> SUFFICES ASSUME Inv, [Next]_vars PROVE EchoStep
    OBVIOUS
  <1>1. CASE UNCHANGED <<kept, given, n_written, write_upto>>
    BY <1>1 DEF EchoStep, Released
  <1>2. CASE TakeByte
    BY <1>2, TakeByteEcho
  <1>3. ASSUME NEW n \in 1..SndBuf, SendSome(n) PROVE EchoStep
    BY <1>3, SendSomeEcho
  <1>4. CASE WriteDone
    <2>1. UNCHANGED <<kept, given>>
      BY <1>4 DEF WriteDone
    <2>2. n_written' = write_upto' /\ n_written = write_upto
      BY <1>4, Constants DEF WriteDone, Inv, TypeOK, IndexOrder
    <2>3. n_written \in Int /\ Len(given) \in Int
      BY LenProperties, Constants DEF Inv, TypeOK
    <2>4. n_written' \in Int
      BY <1>4, <2>3 DEF WriteDone
    <2>5. Released' = Released
      BY <2>1, <2>2, <2>3, <2>4 DEF Released
    <2> QED BY <2>1, <2>5 DEF EchoStep
  <1>5. ASSUME NEW c \in Char, ClientSend(c)
        PROVE  UNCHANGED <<kept, given, n_written, write_upto>>
    BY <1>5 DEF ClientSend, state
  <1>6. CASE ClientRecv \/ ClientFin \/ ClientRst
    BY <1>1, <1>6 DEF ClientRecv, ClientFin, ClientRst, state
  <1>7. CASE StartRead \/ RecvSome \/ RecvAgain \/ RecvEnd
    BY <1>1, <1>7 DEF StartRead, RecvSome, RecvAgain, RecvEnd, free_fd_state, state
  <1>8. CASE StartWrite \/ SendAgain \/ SendError
    BY <1>1, <1>8 DEF StartWrite, SendAgain, SendError, free_fd_state, state
  <1>9. CASE UNCHANGED vars
    BY <1>1, <1>9 DEF vars, state
  <1> QED BY <1>1, <1>2, <1>3, <1>4, <1>5, <1>6, <1>7, <1>8, <1>9
          DEF Next, do_read, do_write

(* Every behaviour of a connection is one of the line echo: its bytes go out *)
(* in the order they came, once, and never before a newline has come.         *)
THEOREM Refinement == Spec => EchoSpec
  <1>1. Init => Echo!Init
    BY EchoInit
  <1>2. Inv /\ [Next]_vars => [Echo!Next]_<<kept, Released, given>>
    BY EchoNext DEF EchoStep
  <1>3. Spec => Echo!Init /\ [][Echo!Next]_<<kept, Released, given>>
    BY <1>1, <1>2, InvAlways, PTL DEF Spec
  <1> QED BY <1>3 DEF EchoSpec, Echo!Spec, Released
-----------------------------------------------------------------------------
(* Clients that wait.  Bytes only move on or get lost on their way from input  *)
(* to got; an empty buffer was rewound; and of the line that a waiting client   *)
(* has begun, s bytes before it, nothing is left of what came before: but for    *)
(* the byte that the rewind leaves out, the buffer holds bytes of this line.      *)

Ends(s) == {k \in 1..Len(s) : s[k] = NL}
LastEndExists == Ends(input) = {} \/ \E k \in Ends(input) : \A m \in Ends(input) : m <= k
Flow ==
  /\ Len(inq) + Len(buf) + Len(kept) <= Len(input)
  /\ Len(got) + Len(outq) <= Len(given)
Fresh == alive /\ handler # "do_write" /\ n_written = buffer_used => buffer_used <= 1
Freed == ~alive => peer # "open"
LineFits(s) ==
  /\ s <= Len(kept) /\ Len(input) <= s + (MAX_LINE - 1)
  /\ LineSoFar(input) # 0 =>
       Len(input) = s + LineSoFar(input) /\ LineSoFar(input) <= MAX_LINE - 2
  /\ \/ buffer_used <= 1 + (Len(kept) - s)
     \/ handler = "do_write" /\ n_written = buffer_used /\ Len(kept) = s
OneLine == patient => ~dropped /\ \E s \in Nat : LineFits(s)

Patience == LastEndExists /\ Flow /\ Fresh /\ Freed /\ OneLine

(* One more byte is one more of its line, unless it ends it.                  *)
LEMMA LineGrows ==
  ASSUME NEW S, NEW s \in Seq(S), NEW c \in S,
         Ends(s) = {} \/ \E k \in Ends(s) : \A m \in Ends(s) : m <= k
  PROVE  /\ LineSoFar(s) \in Nat
         /\ LineSoFar(Append(s, c)) = IF c = NL THEN 0 ELSE LineSoFar(s) + 1
         /\ LET t == Append(s, c)
            IN  Ends(t) = {} \/ \E k \in Ends(t) : \A m \in Ends(t) : m <= k
  <1> DEFINE t == Append(s, c)
             n == Len(s)
             last(e) == CHOOSE k \in e : \A m \in e : m <= k
  <1>1. n \in Nat
    BY LenProperties
  <1>2. /\ Len(t) = n + 1 /\ t[n + 1] = c
        /\ \A k \in 1..n : t[k] = s[k]
    BY AppendProperties
  <1>3. LineSoFar(s) = n - (IF Ends(s) = {} THEN 0 ELSE last(Ends(s)))
    BY DEF LineSoFar, Ends
  <1>4. LineSoFar(t) = Len(t) - (IF Ends(t) = {} THEN 0 ELSE last(Ends(t)))
    BY DEF LineSoFar, Ends
  <1>5. Ends(s) \subseteq 1..n
    BY DEF Ends
  <1>6. Ends(s) # {} => last(Ends(s)) \in Ends(s)
    OBVIOUS
  <1> HIDE DEF n, t, last
  <1>7. LineSoFar(s) \in Nat
    BY <1>1, <1>3, <1>5, <1>6
  <1>8. 1..(n + 1) = 1..n \cup {n + 1} /\ n + 1 \notin 1..n
    BY <1>1
  <1>9. CASE c = NL
    <2>1. Ends(t) = Ends(s) \cup {n + 1}
      BY <1>2, <1>8, <1>9 DEF Ends, n
    <2>2. \A m \in Ends(t) : m <= n + 1
      BY <1>1, <1>5, <2>1
    <2>3. last(Ends(t)) \in Ends(t) /\ \A m \in Ends(t) : m <= last(Ends(t))
      BY <2>1, <2>2 DEF last
    <2>4. Ends(t) \subseteq 1..(n + 1)
      BY <1>5, <1>8, <2>1
    <2>5. last(Ends(t)) = n + 1
      <3> DEFINE x == last(Ends(t))
      <3>1. x \in 1..(n + 1) /\ n + 1 <= x
        BY <2>1, <2>3, <2>4
      <3> HIDE DEF x
      <3>2. x = n + 1
        BY <1>1, <3>1
      <3> QED BY <3>2 DEF x
    <2>6. LineSoFar(t) = 0
      BY <1>1, <1>2, <1>4, <2>1, <2>5
    <2> QED BY <1>7, <1>9, <2>1, <2>2, <2>6 DEF t
  <1>10. CASE c # NL
    <2>1. Ends(t) = Ends(s)
      BY <1>2, <1>8, <1>10 DEF Ends, n
    <2>2. LineSoFar(t) = (n + 1) - (IF Ends(s) = {} THEN 0 ELSE last(Ends(s)))
      BY <1>2, <1>4, <2>1
    <2>3. LineSoFar(t) = LineSoFar(s) + 1
      <3> DEFINE x == IF Ends(s) = {} THEN 0 ELSE last(Ends(s))
      <3>1. x \in Nat
        BY <1>5, <1>6
      <3>2. LineSoFar(s) = n - x /\ LineSoFar(t) = (n + 1) - x
        BY <1>3, <2>2
      <3> HIDE DEF x
      <3> QED BY <1>1, <3>1, <3>2
    <2> QED BY <1>7, <1>10, <2>1, <2>3 DEF t
  <1> QED BY <1>9, <1>10

LEMMA PatienceInit == MCInit => Patience
  <1> SUFFICES ASSUME MCInit PROVE Patience
    OBVIOUS
  <1>1. /\ Len(input) = 0 /\ Len(inq) = 0 /\ Len(buf) = 0 /\ Len(kept) = 0
        /\ Len(got) = 0 /\ Len(outq) = 0 /\ Len(given) = 0
    BY EmptySeq DEF MCInit, Init
  <1>2. Ends(input) = {}
    BY <1>1 DEF Ends
  <1>3. LineSoFar(input) = 0
    BY <1>1, <1>2 DEF LineSoFar, Ends
  <1>4. LineFits(0)
    BY <1>1, <1>3, Constants DEF LineFits, MCInit, Init
  <1>5. Flow /\ Fresh /\ Freed /\ ~dropped
    BY <1>1 DEF Flow, Fresh, Freed, MCInit, Init
  <1>6. 0 \in Nat
    OBVIOUS
  <1> QED BY <1>2, <1>4, <1>5, <1>6 DEF Patience, LastEndExists, OneLine

LEMMA Lengths ==
  TypeOK => /\ Len(inq) \in Nat /\ Len(buf) \in Nat /\ Len(kept) \in Nat /\ Len(input) \in Nat
            /\ Len(got) \in Nat /\ Len(outq) \in Nat /\ Len(given) \in Nat
            /\ buffer_used \in Nat /\ n_written \in Nat /\ write_upto \in Nat
  BY LenProperties, Constants DEF TypeOK

LEMMA OrderOfIndices == Inv => n_written <= buffer_used
  <1> SUFFICES ASSUME Inv PROVE n_written <= buffer_used
    OBVIOUS
  <1>1. n_written \in Nat /\ write_upto \in Nat /\ buffer_used \in Nat
    BY Lengths DEF Inv
  <1>2. n_written <= write_upto /\ write_upto <= buffer_used
    BY DEF Inv, IndexOrder
  <1> QED BY <1>1, <1>2

(* When the client has got all it sent, the server holds nothing.            *)
LEMMA AllCameBack ==
  ASSUME NEW sent \in Nat, NEW in \in Nat, NEW held \in Nat, NEW stored \in Nat,
         NEW taken \in Nat, NEW out \in Nat, NEW back \in Nat,
         NEW used \in Nat, NEW written \in Nat,
         in + held + stored <= sent, back + out <= taken,
         stored - taken = used - written, written <= used, back = sent
  PROVE  stored = sent /\ written = used
  OBVIOUS

(* The client's next byte: it begins a line when all before it has come back, *)
(* or belongs to one that has room for it.                                     *)
LEMMA PatienceSend ==
  ASSUME Inv, Patience, NEW c \in Char, ClientSend(c), patient' => patient /\ Waits
  PROVE  Patience'
  <1>1. input \in Seq(Char) /\ inq \in Seq(Char)
    BY DEF Inv, TypeOK
  <1>2. /\ input' = Append(input, c) /\ inq' = Append(inq, c) /\ peer = "open"
        /\ UNCHANGED <<buffer_used, n_written, alive, handler, buf, outq, peer, got,
                       kept, given, dropped>>
    BY DEF ClientSend, state
  <1>3. Len(input') = Len(input) + 1 /\ Len(inq') = Len(inq) + 1 /\ input'[Len(input')] = c
    BY <1>1, <1>2, AppendProperties
  <1>4. /\ LineSoFar(input) \in Nat
        /\ LineSoFar(input') = IF c = NL THEN 0 ELSE LineSoFar(input) + 1
        /\ LastEndExists'
    <2>1. /\ LineSoFar(input) \in Nat
          /\ LineSoFar(Append(input, c)) = IF c = NL THEN 0 ELSE LineSoFar(input) + 1
          /\ LET t == Append(input, c)
             IN  Ends(t) = {} \/ \E k \in Ends(t) : \A m \in Ends(t) : m <= k
      BY <1>1, LineGrows DEF Patience, LastEndExists
    <2> QED BY <1>2, <2>1 DEF LastEndExists, Ends
  <1> DEFINE l == LineSoFar(input)
             l1 == LineSoFar(input')
  <1> HIDE DEF l, l1
  <1>5. l \in Nat /\ l1 = IF c = NL THEN 0 ELSE l + 1
    BY <1>4 DEF l, l1
  <1>6. /\ Len(inq) \in Nat /\ Len(buf) \in Nat /\ Len(kept) \in Nat /\ Len(input) \in Nat
        /\ Len(got) \in Nat /\ Len(outq) \in Nat /\ Len(given) \in Nat
        /\ buffer_used \in Nat /\ n_written \in Nat /\ MAX_LINE \in Nat /\ MAX_LINE > 1
    BY Lengths, Constants DEF Inv
  <1>7. /\ Len(inq) + Len(buf) + Len(kept) <= Len(input)
        /\ Len(got) + Len(outq) <= Len(given)
        /\ Len(kept) - Len(given) = buffer_used - n_written
        /\ n_written <= buffer_used
    <2>1. n_written <= buffer_used
      BY OrderOfIndices
    <2> QED BY <2>1 DEF Patience, Flow, Inv, Unsent
  <1>8. Flow'
    BY <1>2, <1>3, <1>6, <1>7 DEF Flow
  <1>9. ASSUME patient' PROVE ~dropped' /\ \E s \in Nat : LineFits(s)'
    <2>1. /\ patient /\ (l = 0 => Len(got) = Len(input))
          /\ (l + 1 = MAX_LINE - 1 => c = NL)
      BY <1>3, <1>9 DEF Waits, l
    <2>2. PICK s \in Nat : LineFits(s)
      BY <2>1 DEF Patience, OneLine
    <2>3. CASE l = 0
      <3>0. PICK s1 \in Nat : s1 = Len(input)
        BY <1>6
      <3>1. s1 \in Nat /\ Len(kept) = s1 /\ n_written = buffer_used
        <4>1. Len(got) = Len(input)
          BY <2>1, <2>3
        <4> QED BY <1>6, <1>7, <3>0, <4>1, AllCameBack
      <3>2. Len(input') <= s1 + (MAX_LINE - 1)
        BY <1>3, <1>6, <3>0
      <3>3. l1 # 0 => Len(input') = s1 + l1 /\ l1 <= MAX_LINE - 2
        BY <1>3, <1>5, <1>6, <2>1, <2>3, <3>0
      <3>4. handler # "do_write" => buffer_used <= 1
        BY <1>2, <3>1 DEF Patience, Fresh, Freed
      <3>5. \/ buffer_used <= 1 + (Len(kept) - s1)
            \/ handler = "do_write" /\ n_written = buffer_used /\ Len(kept) = s1
        BY <1>6, <3>1, <3>4
      <3>6. LineFits(s1)'
        BY <1>2, <1>6, <3>1, <3>2, <3>3, <3>5 DEF LineFits, l1
      <3> QED BY <1>2, <2>1, <3>1, <3>6 DEF Patience, OneLine
    <2>4. CASE l # 0
      <3>1. Len(input) = s + l /\ l <= MAX_LINE - 2
        BY <2>2, <2>4 DEF LineFits, l
      <3>2. Len(input') <= s + (MAX_LINE - 1)
        BY <1>3, <1>5, <1>6, <3>1
      <3>3. l1 # 0 => Len(input') = s + l1 /\ l1 <= MAX_LINE - 2
        BY <1>3, <1>5, <1>6, <2>1, <3>1
      <3>4. LineFits(s)'
        BY <1>2, <2>2, <3>2, <3>3 DEF LineFits, l1
      <3> QED BY <1>2, <2>1, <3>4 DEF Patience, OneLine
    <2> QED BY <2>3, <2>4
  <1>10. OneLine'
    BY <1>9 DEF OneLine
  <1>11. Fresh' /\ Freed'
    BY <1>2 DEF Patience, Fresh, Freed
  <1> QED BY <1>4, <1>8, <1>10, <1>11 DEF Patience

(* A byte of the client's only line on its way finds room.                    *)
LEMMA PatienceTake ==
  ASSUME Inv, Patience, TakeByte, patient' => patient
  PROVE  Patience'
  <1>1. /\ handler = "do_read" /\ buf # <<>> /\ buf' = Tail(buf)
        /\ UNCHANGED <<n_written, alive, handler, inq, outq, peer, input, got, given>>
    BY DEF TakeByte, client
  <1>2. /\ Len(inq) \in Nat /\ Len(buf) \in Nat /\ Len(kept) \in Nat /\ Len(input) \in Nat
        /\ Len(got) \in Nat /\ Len(outq) \in Nat /\ Len(given) \in Nat
        /\ buffer_used \in Nat /\ n_written \in Nat /\ MAX_LINE \in Nat /\ MAX_LINE > 1
    BY Lengths, Constants DEF Inv
  <1>3. Len(buf') = Len(buf) - 1 /\ Len(buf) >= 1
    <2>1. buf \in Seq(Char)
      BY DEF Inv, TypeOK
    <2>2. Len(buf) # 0
      BY <1>1, <2>1, EmptySeq
    <2>3. Len(Tail(buf)) = Len(buf) - 1
      BY <1>1, <2>1, HeadTailProperties
    <2> QED BY <1>1, <1>2, <2>2, <2>3
  <1>4. /\ Len(inq) + Len(buf) + Len(kept) <= Len(input)
        /\ Len(got) + Len(outq) <= Len(given)
        /\ n_written < MAX_LINE
    BY <1>1 DEF Patience, Flow, Inv, Rewound
  <1>5. CASE buffer_used < MAX_LINE
    <2>1. /\ kept' = Append(kept, rot13_char(Head(buf))) /\ dropped' = dropped
          /\ buffer_used' = buffer_used + 1
      <3>1. dropped \in BOOLEAN
        BY DEF Inv, TypeOK
      <3> QED BY <1>5, <3>1 DEF TakeByte
    <2>2. Len(kept') = Len(kept) + 1
      <3>1. kept \in Seq(Byte) /\ rot13_char(Head(buf)) \in Byte
        <4>1. buf \in Seq(Char) /\ kept \in Seq(Byte)
          BY DEF Inv, TypeOK
        <4>2. Head(buf) \in Byte
          BY <1>1, <4>1, HeadTailProperties, Constants
        <4> QED BY <4>1, <4>2, Rot13Involution
      <3> QED BY <2>1, <3>1, AppendProperties
    <2>3. Flow'
      BY <1>1, <1>2, <1>3, <1>4, <2>2 DEF Flow
    <2>4. Fresh'
      <3>1. n_written <= buffer_used
        BY OrderOfIndices
      <3>2. n_written' # buffer_used'
        BY <1>1, <1>2, <2>1, <3>1
      <3> QED BY <3>2 DEF Fresh
    <2>5. ASSUME NEW s \in Nat, LineFits(s) PROVE LineFits(s)'
      <3>1. buffer_used <= 1 + (Len(kept) - s) /\ s <= Len(kept)
        BY <1>1, <2>5 DEF LineFits
      <3>2. buffer_used' <= 1 + (Len(kept') - s) /\ s <= Len(kept')
        <4>1. Len(kept) \in Nat /\ buffer_used \in Nat /\ buffer_used' = buffer_used + 1
          BY <1>2, <2>1
        <4> QED BY <2>2, <3>1, <4>1
      <3> QED BY <1>1, <2>5, <3>2 DEF LineFits
    <2>6. OneLine'
      BY <2>1, <2>5 DEF Patience, OneLine
    <2> QED BY <1>1, <2>3, <2>4, <2>6 DEF Patience, LastEndExists, Freed, Ends
  <1>6. CASE ~(buffer_used < MAX_LINE)
    <2>1. UNCHANGED <<kept, buffer_used>>
      BY <1>6 DEF TakeByte
    <2>2. ~patient
      <3> SUFFICES ASSUME patient PROVE FALSE
        OBVIOUS
      <3>1. PICK s \in Nat : LineFits(s)
        BY DEF Patience, OneLine
      <3>2. buffer_used <= 1 + (Len(kept) - s) /\ Len(input) <= s + (MAX_LINE - 1)
        BY <1>1, <3>1 DEF LineFits
      <3>3. Len(kept) <= s + (MAX_LINE - 2)
        BY <1>2, <1>3, <1>4, <3>2
      <3> QED BY <1>2, <1>6, <3>2, <3>3
    <2>3. Flow'
      BY <1>1, <1>2, <1>3, <1>4, <2>1 DEF Flow
    <2>4. Fresh'
      BY <1>1, <1>2, <1>4, <1>6, <2>1 DEF Fresh
    <2> QED BY <1>1, <2>2, <2>3, <2>4 DEF Patience, LastEndExists, Freed, OneLine, Ends
  <1> QED BY <1>5, <1>6

(* Steps that leave the line in the buffer as it is.                          *)
LEMMA PatienceKept ==
  ASSUME Patience, patient' => patient,
         UNCHANGED <<buffer_used, n_written, input, kept, dropped>>, Flow', Freed',
         alive' => alive,
         handler = "do_write" /\ n_written = buffer_used => handler' = "do_write"
  PROVE  Patience'
  <1>1. LastEndExists'
    BY DEF Patience, LastEndExists, Ends
  <1>2. Fresh'
    BY DEF Patience, Fresh
  <1>3. ASSUME NEW s \in Nat, LineFits(s) PROVE LineFits(s)'
    BY <1>3 DEF LineFits
  <1>4. OneLine'
    BY <1>3 DEF Patience, OneLine
  <1> QED BY <1>1, <1>2, <1>4 DEF Patience

LEMMA PatienceMove ==
  ASSUME Inv, Patience, patient' => patient, Next, ~TakeByte, ~WriteDone,
         ~\E c \in Char : ClientSend(c), ~\E n \in 1..SndBuf : SendSome(n)
  PROVE  Patience'
  <1>1. /\ Len(inq) \in Nat /\ Len(buf) \in Nat /\ Len(kept) \in Nat /\ Len(input) \in Nat
        /\ Len(got) \in Nat /\ Len(outq) \in Nat /\ Len(given) \in Nat
        /\ buffer_used \in Nat /\ n_written \in Nat /\ write_upto \in Nat
    BY Lengths DEF Inv
  <1>2. /\ Len(inq) + Len(buf) + Len(kept) <= Len(input)
        /\ Len(got) + Len(outq) <= Len(given)
        /\ n_written <= write_upto /\ write_upto <= buffer_used
    BY DEF Patience, Flow, Inv, IndexOrder
  <1>3. Freed /\ (handler # "idle" => alive)
    BY DEF Patience, Inv, EventAgrees
  <1>4. /\ inq \in Seq(Char) /\ buf \in Seq(Char)
        /\ outq \in Seq(Byte \cup {Junk}) /\ got \in Seq(Byte \cup {Junk})
    BY DEF Inv, TypeOK
  <1>5. CASE ClientRecv
    <2>1. /\ outq # <<>> /\ got' = Append(got, Head(outq)) /\ outq' = Tail(outq)
          /\ UNCHANGED <<state, handler, buf, inq, peer, input, kept, given, dropped>>
      BY <1>5 DEF ClientRecv
    <2>2. Len(got') = Len(got) + 1 /\ Len(outq') = Len(outq) - 1
      <3>1. Head(outq) \in Byte \cup {Junk} /\ Len(Tail(outq)) = Len(outq) - 1
        BY <1>4, <2>1, HeadTailProperties
      <3>2. Len(Append(got, Head(outq))) = Len(got) + 1
        BY <1>4, <3>1, AppendProperties
      <3> QED BY <2>1, <3>1, <3>2
    <2>3. Flow'
      BY <1>1, <1>2, <2>1, <2>2 DEF Flow
    <2> QED BY <1>3, <2>1, <2>3, PatienceKept DEF state, Freed
  <1>6. CASE ClientFin
    BY <1>3, <1>6, PatienceKept DEF ClientFin, Flow, Freed, state, Patience
  <1>7. CASE ClientRst
    <2>1. /\ inq' \in {inq, <<>>} /\ outq' = <<>> /\ peer' = "rst"
          /\ UNCHANGED <<state, handler, buf, input, got, kept, given, dropped>>
      BY <1>7 DEF ClientRst
    <2>2. Len(inq') <= Len(inq) /\ Len(inq') \in Nat /\ Len(outq') = 0
      BY <1>1, <2>1, EmptySeq
    <2>3. Flow'
      BY <1>1, <1>2, <2>1, <2>2 DEF Flow
    <2> QED BY <2>1, <2>3, PatienceKept DEF state, Freed
  <1>8. CASE StartRead \/ RecvAgain \/ StartWrite \/ SendAgain
    <2>1. UNCHANGED <<state, buf, inq, outq, client, kept, given, dropped>>
      BY <1>8 DEF StartRead, RecvAgain, StartWrite, SendAgain
    <2>2. handler = "do_write" /\ n_written = buffer_used => handler' = "do_write"
      BY <1>1, <1>2, <1>8 DEF StartRead, RecvAgain, StartWrite, SendAgain
    <2> QED BY <1>3, <2>1, <2>2, PatienceKept DEF state, client, Flow, Freed, Patience
  <1>9. CASE RecvSome
    <2> DEFINE n == IF Len(inq) < RecvSize THEN Len(inq) ELSE RecvSize
    <2>1. /\ handler = "do_read" /\ buf = <<>> /\ buf' = SubSeq(inq, 1, n)
          /\ inq' = SubSeq(inq, n + 1, Len(inq))
          /\ UNCHANGED <<state, handler, outq, client, kept, given, dropped>>
      BY <1>9 DEF RecvSome
    <2>2. n \in 0..Len(inq)
      BY <1>1, Constants
    <2> HIDE DEF n
    <2>3. \A k \in 1..Len(inq) : inq[k] \in Char
      BY <1>4, ElementOfSeq
    <2>4. Len(buf') = n
      <3>1. \A k \in 1..n : inq[k] \in Char
        <4>1. \A k \in 1..n : k \in 1..Len(inq)
          BY <1>1, <2>2
        <4> QED BY <2>3, <4>1
      <3>2. Len(SubSeq(inq, 1, n)) = IF 1 <= n THEN n - 1 + 1 ELSE 0
        BY <2>2, <3>1, SubSeqProperties
      <3> QED BY <1>1, <2>1, <2>2, <3>2
    <2>5. Len(inq') = Len(inq) - n
      <3> DEFINE m == n + 1
      <3>1. \A k \in m..Len(inq) : inq[k] \in Char
        BY <1>1, <2>2, <2>3
      <3>2. m \in Int /\ Len(inq) \in Int
        BY <1>1, <2>2
      <3> HIDE DEF m
      <3>3. Len(SubSeq(inq, m, Len(inq))) = IF m <= Len(inq) THEN Len(inq) - m + 1 ELSE 0
        BY <3>1, <3>2, SubSeqProperties
      <3>4. (IF m <= Len(inq) THEN Len(inq) - m + 1 ELSE 0) = Len(inq) - n
        BY <1>1, <2>2 DEF m
      <3> QED BY <2>1, <3>3, <3>4 DEF m
    <2>6. Len(buf) = 0
      BY <2>1, EmptySeq
    <2>7. Flow'
      <3>1. Len(inq') + Len(buf') = Len(inq) + Len(buf)
        BY <1>1, <2>2, <2>4, <2>5, <2>6
      <3>2. UNCHANGED <<input, got, outq, kept, given>>
        BY <2>1 DEF client
      <3> QED BY <1>2, <3>1, <3>2 DEF Flow
    <2> QED BY <1>3, <2>1, <2>7, PatienceKept DEF state, client, Freed
  <1>10. CASE RecvEnd \/ SendError
    <2>1. /\ UNCHANGED <<buffer_used, n_written, buf, inq, outq, client, kept, given, dropped>>
          /\ alive' = FALSE /\ peer # "open"
          /\ ~(handler = "do_write" /\ n_written = buffer_used)
      <3>1. CASE RecvEnd
        BY <3>1 DEF RecvEnd, free_fd_state
      <3>2. CASE SendError
        <4>1. n_written < write_upto /\ n_written # buffer_used
          BY <1>1, <1>2, <3>2 DEF SendError
        <4> QED BY <3>2, <4>1 DEF SendError, free_fd_state
      <3> QED BY <1>10, <3>1, <3>2
    <2> QED BY <1>3, <2>1, PatienceKept DEF client, Flow, Freed, Patience
  <1> QED BY <1>5, <1>6, <1>7, <1>8, <1>9, <1>10 DEF Next, do_read, do_write

LEMMA PatienceNext == Inv /\ Patience /\ [MCNext]_<<vars, patient>> => Patience'
  <1> SUFFICES ASSUME Inv, Patience, [MCNext]_<<vars, patient>> PROVE Patience'
    OBVIOUS
  <1>1. /\ Len(kept) \in Nat /\ Len(input) \in Nat
        /\ Len(got) \in Nat /\ Len(outq) \in Nat /\ Len(given) \in Nat
        /\ buffer_used \in Nat /\ n_written \in Nat /\ write_upto \in Nat
    BY Lengths DEF Inv
  <1>2. /\ Len(got) + Len(outq) <= Len(given)
        /\ n_written <= write_upto /\ write_upto <= buffer_used
        /\ Len(kept) - Len(given) = buffer_used - n_written
    BY DEF Patience, Flow, Inv, IndexOrder, Unsent
  <1>3. CASE UNCHANGED <<vars, patient>>
    BY <1>3, PatienceKept DEF vars, state, client, Flow, Freed, Patience
  <1>4. CASE MCNext
    <2>1. patient' => patient /\ (input' # input => Waits)
      BY <1>4, Zenon DEF MCNext
    <2>2. ASSUME NEW c \in Char, ClientSend(c) PROVE Patience'
      <3>1. input \in Seq(Char) /\ input' = Append(input, c)
        BY <2>2 DEF Inv, TypeOK, ClientSend
      <3>2. Len(input') = Len(input) + 1
        BY <3>1, AppendProperties
      <3>3. input' # input
        BY <1>1, <3>2
      <3> QED BY <2>1, <2>2, <3>3, PatienceSend
    <2>3. CASE TakeByte
      BY <2>1, <2>3, PatienceTake
    <2>4. ASSUME NEW n \in 1..SndBuf, SendSome(n) PROVE Patience'
      <3>1. /\ n_written' = n_written + n /\ n_written + n <= write_upto
            /\ handler = "do_write" /\ handler' = "do_write"
            /\ UNCHANGED <<buffer_used, alive, buf, inq, client, kept, dropped>>
        BY <2>4 DEF SendSome
      <3>2. n \in Nat /\ n >= 1
        BY Constants
      <3>3. Len(given') = Len(given) + n
        BY <2>4, SendSomeContent DEF Inv
      <3>4. Len(outq') = Len(outq) + n
        <4> DEFINE bytes == [k \in 1..n |-> buffer[n_written + k - 1]]
        <4>1. outq' = outq \o bytes
          BY <2>4 DEF SendSome
        <4>2. bytes \in [1..n -> Byte \cup {Junk}]
          <5>1. \A k \in 1..n : n_written + k - 1 \in 0..MAX_LINE-1
            BY <1>1, <1>2, <3>1, <3>2, Constants DEF Inv, TypeOK
          <5> QED BY <5>1 DEF Inv, TypeOK
        <4> HIDE DEF bytes
        <4>3. bytes \in Seq(Byte \cup {Junk}) /\ Len(bytes) = n
          BY <3>2, <4>2, FunctionIsSeq
        <4>4. outq \in Seq(Byte \cup {Junk})
          BY DEF Inv, TypeOK
        <4> QED BY <4>1, <4>3, <4>4, ConcatProperties
      <3>5. Flow'
        BY <1>1, <1>2, <3>1, <3>2, <3>3, <3>4 DEF Flow, Patience, client
      <3>6. ASSUME NEW s \in Nat, LineFits(s) PROVE LineFits(s)'
        <4>1. n_written # buffer_used
          BY <1>1, <1>2, <3>1, <3>2
        <4> QED BY <3>1, <3>6, <4>1 DEF LineFits, client
      <3>7. OneLine'
        BY <2>1, <3>1, <3>6 DEF Patience, OneLine
      <3> QED BY <3>1, <3>5, <3>7 DEF Patience, LastEndExists, Ends, Fresh, Freed, client
    <2>5. CASE WriteDone
      <3>1. /\ handler = "do_write" /\ handler' = "idle"
            /\ UNCHANGED <<alive, buf, inq, outq, client, kept, given, dropped>>
        BY <2>5 DEF WriteDone
      <3>2. Flow' /\ Freed' /\ LastEndExists'
        BY <3>1 DEF Patience, Flow, Freed, LastEndExists, Ends, client
      <3>3. CASE n_written = buffer_used
        <4>1. n_written' = 1 /\ buffer_used' = 1
          BY <2>5, <3>3 DEF WriteDone
        <4>2. ASSUME NEW s \in Nat, LineFits(s) PROVE LineFits(s)'
          <5>1. 1 <= 1 + (Len(kept) - s)
            BY <1>1, <4>2 DEF LineFits
          <5> QED BY <3>1, <4>1, <4>2, <5>1 DEF LineFits, client
        <4>3. OneLine'
          BY <2>1, <3>1, <4>2 DEF Patience, OneLine
        <4> QED BY <3>2, <4>1, <4>3 DEF Patience, Fresh
      <3>4. CASE n_written # buffer_used
        <4>1. UNCHANGED <<n_written, buffer_used>>
          BY <2>5, <3>4 DEF WriteDone
        <4> QED BY <2>1, <3>1, <3>2, <3>4, <4>1, PatienceKept DEF client
      <3> QED BY <3>3, <3>4
    <2> QED BY <1>4, <2>1, <2>2, <2>3, <2>4, <2>5, PatienceMove DEF MCNext
  <1> QED BY <1>3, <1>4

(* A client that waits for the echo of each line loses nothing, for every      *)
(* buffer that is one byte larger than its lines: do_read finds room for each     *)
(* byte, wherever do_write stands, because a buffer whose bytes are all sent is    *)
(* rewound before the next do_read.                                                 *)
THEOREM WaitingClientLosesNothing == MCSpec => []PatientClientLosesNothing
  <1>1. MCInit => Init
    BY DEF MCInit
  <1>2. [MCNext]_<<vars, patient>> => [Next]_vars
    BY DEF MCNext
  <1>3. MCInit => Inv /\ Patience
    BY <1>1, InvInit, PatienceInit
  <1>4. Inv /\ Patience /\ [MCNext]_<<vars, patient>> => Inv' /\ Patience'
    BY <1>2, InvNext, PatienceNext
  <1>5. Patience => PatientClientLosesNothing
    BY DEF Patience, OneLine, PatientClientLosesNothing
  <1> QED BY <1>3, <1>4, <1>5, PTL DEF MCSpec

=============================================================================
