------------------------------- MODULE LinePair -------------------------------
(***************************************************************************)
(* line/recvline and line/sendline: a receiver that collects the datagrams *)
(* of several senders in one line buffer and prints the complete lines, and *)
(* the senders, which send what is typed and run what the receiver answers   *)
(* as a command, the output of which they send too.  The network loses,      *)
(* duplicates and reorders.  Handlers run to completion and nothing else      *)
(* touches their state, so each is one step.                                  *)
(***************************************************************************)
EXTENDS Integers, Sequences, FiniteSets, SequencesExt

CONSTANTS
  Senders,   \* the sendline processes
  RecvSize,  \* sizeof(buf) in both recv_handlers
  LinesSize, \* sizeof(data->lines)
  OutSize,   \* sizeof(line) in the recv_handler of sendline
  FdLimit,   \* streams a sender has descriptors for
  Typed,     \* what one read of a sender's terminal may return
  Outputs,   \* what a command may print
  MaxTyped,  \* bound: reads of the senders' terminals
  MaxCmds,   \* bound: commands typed at the receiver
  MaxDup,    \* bound: duplicated datagrams
  Receiver

(* "shut" is the whole word "shutdown"; "ff" is the EOF that sendline stores  *)
(* behind what a command printed: a byte of text of that value is an "x".     *)
Char == {"x", "nl", "nul", "shut", "ff", "cmd", "exit"}

PairAssumption ==
  /\ IsFiniteSet(Senders) /\ Receiver \notin Senders
  /\ {RecvSize, LinesSize, OutSize} \subseteq Nat \ {0} /\ RecvSize < LinesSize
  /\ {FdLimit, MaxTyped, MaxCmds, MaxDup} \subseteq Nat
  /\ Typed \subseteq Seq(Char) \ {<<>>} /\ Outputs \subseteq Seq(Char)
  /\ \A text \in Typed \cup Outputs : \A k \in 1..Len(text) : text[k] # "ff"

ASSUME PairAssumption

VARIABLES
  net,      \* the datagrams in flight: from, to, data
  status,   \* recvline: "running", "exited", or "undefined" (lines overrun)
  lines,    \* data->lines, up to its zero: each byte with its sender
  last,     \* data->info: whom the last datagram came from
  streams,  \* streams[s]: pipes sender s has opened and not closed
  typed, cmds, dups,  \* counters of the bounds
  printed,  \* history: the lines recvline has printed
  heard,    \* history: what it took from its datagrams
  ragged    \* history: datagrams it took that did not end with a newline

recvline == <<status, lines, last, printed, heard, ragged>>
vars == <<net, recvline, streams, typed, cmds, dups>>

Init ==
  /\ net = {} /\ status = "running" /\ lines = <<>> /\ last = Receiver
  /\ streams = [s \in Senders |-> 0]
  /\ typed = 0 /\ cmds = 0 /\ dups = 0
  /\ printed = <<>> /\ heard = <<>> /\ ragged = 0

-----------------------------------------------------------------------------
(* The network (external).  Equal datagrams in flight are one.              *)

Datagram(from, to, data) == [from |-> from, to |-> to, data |-> data]

Lose(d) ==
  /\ net' = net \ {d}
  /\ UNCHANGED <<recvline, streams, typed, cmds, dups>>

(* d arrives, with what its receiver sends; a copy may stay behind. *)
Deliver(d, sent) ==
  \/ net' = (net \ {d}) \cup sent /\ UNCHANGED dups
  \/ dups < MaxDup /\ dups' = dups + 1 /\ net' = net \cup sent

-----------------------------------------------------------------------------
(* recvline                                                                 *)

First(s, n) == SubSeq(s, 1, IF Len(s) < n THEN Len(s) ELSE n)

(* The string at the beginning of s. *)
String(s) ==
  LET ends == {k \in 1..Len(s) : s[k].ch = "nul"}
  IN  IF ends = {} THEN s ELSE First(s, (CHOOSE k \in ends : \A m \in ends : k <= m) - 1)

EndsLine(s) == s # <<>> /\ s[Len(s)].ch = "nl"

(* Mutants of Lines: a line that was printed stays in the buffer; what follows *)
(* the last line is not kept.                                                  *)
LinesWithoutRest(text) ==
  FoldLeft(LAMBDA acc, c :
             IF c.ch = "nl" THEN [full |-> Append(acc.full, acc.rest), rest |-> <<>>]
             ELSE IF acc.full = <<>> THEN [acc EXCEPT !.rest = Append(@, c)] ELSE acc,
           [full |-> <<>>, rest |-> <<>>], text)

LinesAgain(text) ==
  FoldLeft(LAMBDA acc, c :
             IF c.ch = "nl" THEN [full |-> Append(acc.full, acc.rest), rest |-> acc.rest]
             ELSE [acc EXCEPT !.rest = Append(@, c)],
           [full |-> <<>>, rest |-> <<>>], text)

(* The loop over the buffer: the lines that are complete, and the rest. *)
Lines(text) ==
  FoldLeft(LAMBDA acc, c :
             IF c.ch = "nl" THEN [full |-> Append(acc.full, acc.rest), rest |-> <<>>]
             ELSE [acc EXCEPT !.rest = Append(@, c)],
           [full |-> <<>>, rest |-> <<>>], text)

(* recv_handler: a datagram is cut at the size of buf and appended to lines,  *)
(* the lines that are complete are printed and removed.  "shutdown" is        *)
(* compared with buf, which has no zero of its own: it matches if the byte    *)
(* behind happens to be one.                                                  *)
recvline_recv(d) ==
  /\ status = "running" /\ d.to = Receiver
  /\ LET got == [k \in 1..Len(First(d.data, RecvSize)) |-> [by |-> d.from, ch |-> d.data[k]]]
         text == lines \o String(got)
     IN  /\ heard' = heard \o String(got)
         /\ ragged' = ragged + (IF EndsLine(String(got)) THEN 0 ELSE 1)
         /\ last' = d.from
         /\ IF Len(lines) + Len(got) > LinesSize - 1
            THEN status' = "undefined" /\ UNCHANGED <<lines, printed>>
            ELSE /\ lines' = Lines(text).rest
                 /\ printed' = printed \o Lines(text).full
                 /\ \/ UNCHANGED status
                    \/ d.data = <<"shut">> /\ status' = "exited"
  /\ Deliver(d, {})
  /\ UNCHANGED <<streams, typed, cmds>>

(* Mutant: the command goes to every sender. *)
recvline_stdin_all(c) ==
  /\ status = "running" /\ cmds < MaxCmds
  /\ cmds' = cmds + 1
  /\ net' = net \cup {Datagram(Receiver, s, <<c>>) : s \in Senders}
  /\ status' = IF c = "exit" THEN "exited" ELSE status
  /\ UNCHANGED <<lines, last, printed, heard, ragged, streams, typed, dups>>

(* stdin_handler: a command goes to whoever was heard last; "exit" also ends  *)
(* the receiver.                                                              *)
recvline_stdin(c) ==
  /\ status = "running" /\ cmds < MaxCmds
  /\ cmds' = cmds + 1
  /\ net' = IF last = Receiver THEN net ELSE net \cup {Datagram(Receiver, last, <<c>>)}
  /\ status' = IF c = "exit" THEN "exited" ELSE status
  /\ UNCHANGED <<lines, last, printed, heard, ragged, streams, typed, dups>>

-----------------------------------------------------------------------------
(* sendline                                                                 *)

(* stdin_handler: what read returned goes out as it is. *)
sendline_stdin(s, text) ==
  /\ typed < MaxTyped
  /\ typed' = typed + 1
  /\ net' = net \cup {Datagram(s, Receiver, text)}
  /\ UNCHANGED <<recvline, streams, cmds, dups>>

(* The datagrams of a command's output: the EOF is stored as a character.   *)
Chunks(s, output) ==
  LET text == Append(output, "ff")
  IN  {Datagram(s, Receiver, SubSeq(text, k, IF k + OutSize - 1 < Len(text)
                                             THEN k + OutSize - 1 ELSE Len(text)))
         : k \in {m \in 1..Len(text) : (m - 1) % OutSize = 0}}

(* recv_handler: any datagram is a command.  Its stream is never closed. *)
sendline_recv(s, d, output) ==
  /\ d.to = s /\ streams[s] < FdLimit
  /\ streams' = [streams EXCEPT ![s] = @ + 1]
  /\ Deliver(d, Chunks(s, output))
  /\ UNCHANGED <<recvline, typed, cmds>>

(* popen fails: the handler returns. *)
sendline_popen_fails(s, d) ==
  /\ d.to = s /\ streams[s] = FdLimit
  /\ Deliver(d, {})
  /\ UNCHANGED <<recvline, streams, typed, cmds>>

Next ==
  \/ \E d \in net : Lose(d) \/ recvline_recv(d)
  \/ \E c \in {"cmd", "exit"} : recvline_stdin(c)
  \/ \E s \in Senders, text \in Typed : sendline_stdin(s, text)
  \/ \E s \in Senders, d \in net, output \in Outputs : sendline_recv(s, d, output)
  \/ \E s \in Senders, d \in net : sendline_popen_fails(s, d)

Spec == Init /\ [][Next]_vars

-----------------------------------------------------------------------------

(* text is the lines full, each with the newline that ends it, and then rest. *)
Splits(text, full, rest) ==
  LET ends == {k \in 1..Len(text) : text[k].ch = "nl"}
  IN  \E end \in [0..Len(full) -> ends \cup {0}] :
        /\ end[0] = 0 /\ ends = {end[k] : k \in 1..Len(full)}
        /\ \A k \in 1..Len(full) :
             end[k - 1] < end[k] /\ full[k] = SubSeq(text, end[k - 1] + 1, end[k] - 1)
        /\ rest = SubSeq(text, end[Len(full)] + 1, Len(text))

(* What recvline has printed, with what it still holds, is what it took from *)
(* its datagrams: moving the rest to the front of the buffer loses nothing,   *)
(* repeats nothing, and leaves no complete line behind.                        *)
PrintedIsHeard == status # "undefined" => Splits(heard, printed, lines)

(* Harm needs a datagram that did not end with its line: typed without a     *)
(* newline, cut at RecvSize, or the output of a command, which always ends    *)
(* with the EOF character.  Without one the bytes of two senders never come   *)
(* out in one line.  And lines[] is overrun only when such datagrams have       *)
(* filled it so far that one more does not fit: as it is only twice as long    *)
(* as a datagram, one that was cut is enough.                                  *)
HarmNeedsRagged ==
  /\ \A k \in 1..Len(printed) :
       (\E i, j \in DOMAIN printed[k] : printed[k][i].by # printed[k][j].by) => ragged > 0
  /\ status = "undefined" => ragged * RecvSize > LinesSize - 1 - RecvSize

(* The EOF characters in what recvline took, of sender s or of anybody.      *)
EndsFrom(s) == {k \in 1..Len(heard) : heard[k].ch = "ff" /\ heard[k].by = s}
Ends == {k \in 1..Len(heard) : heard[k].ch = "ff"}

(* No answer comes that was not asked for: recvline hears the end of no more   *)
(* outputs than commands were typed into it, although every datagram that       *)
(* reaches a sender is taken for a command, and although the output goes out    *)
(* in several datagrams, which may be lost or overtake each other; only a        *)
(* repeated datagram, of the command or of the answer, adds one.  And as no      *)
(* stream is closed, of one sender it hears no more ends in its life than the    *)
(* sender may have streams, whatever becomes of the answers.                      *)
AnswersAreAskedFor ==
  /\ Cardinality(Ends) <= cmds + dups
  /\ \A s \in Senders : Cardinality(EndsFrom(s)) <= FdLimit + dups
=============================================================================
