------------------------------ MODULE TermScanner ------------------------------
(***************************************************************************)
(* What myterm shows of what its serial port sends: port_handler reads      *)
(* behind what it still holds and scans the whole.  The scanner that re2c    *)
(* makes asks for the length of its longest rule before it looks at a byte,   *)
(* and YYFILL gives up, so it stops two bytes before the end; port_handler    *)
(* moves these to the front for the next time.                                *)
(***************************************************************************)
EXTENDS Integers, Sequences

CONSTANTS
  BufSize,     \* ud->buf_size
  MaxTokens,   \* tokens of one call in debug mode: count
  MaxReceived  \* bound: bytes the port sends

VARIABLES
  debug,     \* the option
  portLoop,  \* the event loop: "running" or "ended"
  scanning,  \* port_handler is in its loop
  buf,       \* from scanner.cur to scanner.lim; between calls ud->buf
  count,     \* tokens left
  display,   \* history: what was shown
  received   \* history: what was read

vars == <<debug, portLoop, scanning, buf, count, display, received>>

(* A character that prints, and the bytes of the rules.                      *)
Byte == {"a", "FF", "FD", "LF"}
Prints(c) == c \in {"a", "LF"}

Init ==
  /\ debug \in BOOLEAN /\ portLoop = "running" /\ scanning = FALSE
  /\ buf = <<>> /\ count = MaxTokens /\ display = <<>> /\ received = <<>>

-----------------------------------------------------------------------------
(* The rules, for three bytes or more: a token's length and its character.   *)

Longest == 3

(* FF FD; FF, any but FD, any but the line end; otherwise one byte.          *)
lex(s) ==
  IF s[1] = "FF" /\ s[2] = "FD" THEN [len |-> 2, c |-> "NUL"]
  ELSE IF s[1] = "FF" /\ s[3] # "LF" THEN [len |-> 3, c |-> s[3]]
  ELSE [len |-> 1, c |-> s[1]]

After(s, token) == SubSeq(s, token.len + 1, Len(s))
Show(token) == IF Prints(token.c) THEN <<token.c>> ELSE <<>>

-----------------------------------------------------------------------------

Room == BufSize - Len(buf) - 1

Read(n) ==
  /\ portLoop = "running" /\ ~scanning
  /\ n <= Room /\ Len(received) + n <= MaxReceived
  /\ \E bytes \in [1..n -> Byte] : buf' = buf \o bytes /\ received' = received \o bytes
  /\ scanning' = TRUE /\ count' = MaxTokens
  /\ UNCHANGED <<debug, portLoop, display>>

ReadFails ==
  /\ portLoop = "running" /\ ~scanning /\ portLoop' = "ended"
  /\ UNCHANGED <<debug, scanning, buf, count, display, received>>

Token ==
  /\ scanning /\ Len(buf) >= Longest /\ (debug => count > 1)
  /\ buf' = After(buf, lex(buf)) /\ display' = display \o Show(lex(buf))
  /\ count' = IF debug THEN count - 1 ELSE count
  /\ UNCHANGED <<debug, portLoop, scanning, received>>

(* "force break": the token has been taken from the buffer and is not shown. *)
ForceBreak ==
  /\ scanning /\ Len(buf) >= Longest /\ debug /\ count = 1
  /\ buf' = After(buf, lex(buf)) /\ count' = 0 /\ scanning' = FALSE
  /\ UNCHANGED <<debug, portLoop, display, received>>

(* Mutant: what was not scanned is forgotten. *)
LeaveEmpty ==
  /\ scanning /\ Len(buf) < Longest
  /\ scanning' = FALSE /\ buf' = <<>>
  /\ UNCHANGED <<debug, portLoop, count, display, received>>

(* lex returns -1; the rest is moved to the front.                           *)
Leave ==
  /\ scanning /\ Len(buf) < Longest
  /\ scanning' = FALSE
  /\ UNCHANGED <<debug, portLoop, buf, count, display, received>>

Next ==
  \/ \E n \in 1..BufSize : Read(n)
  \/ ReadFails \/ Token \/ ForceBreak \/ Leave

-----------------------------------------------------------------------------

(* What the bytes of s from each position on show, scanned at once.          *)
Shows(s) ==
  LET from[k \in 1..Len(s) + 1] ==
        IF Len(s) - k + 1 < Longest THEN <<>>
        ELSE LET token == lex(SubSeq(s, k, Len(s))) IN Show(token) \o from[k + token.len]
  IN  from[1]

(* Where the reads cut the stream makes no difference: between two calls it  *)
(* has shown what one scan of all that came would show, which is all but the   *)
(* last two bytes; these wait for more, so the end of a prompt is not seen.     *)
(* In debug mode tokens are lost, but there is always room for another byte:     *)
(* a read of none would be taken for the end, again and again.                   *)
AllButTwoShown ==
  ~scanning =>
    /\ Room > 0
    /\ ~debug => Len(buf) < Longest /\ display = Shows(received)
=============================================================================
