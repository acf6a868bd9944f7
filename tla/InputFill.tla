------------------------------ MODULE InputFill ------------------------------
(***************************************************************************)
(* The input buffer of the tokenizer, tokenizer/scanner/input.c, under the *)
(* scanner of tokenizer/scanner/scanner.re (re2c_lemon/any_parser has the  *)
(* same pair).  The scanner looks at one character at a time through the   *)
(* cursor; where the buffer ends it calls fill, which discards what comes  *)
(* before the current token, moves the rest to the front and reads on.     *)
(*                                                                         *)
(* Pointers are offsets into buf, which has BUFSIZE + 1 bytes: the last    *)
(* one is for the zero that marks the limit.                               *)
(***************************************************************************)
EXTENDS Integers, Sequences

CONSTANTS
  BUFSIZE,
  Char,      \* the characters of a file, zero among them
  Junk,      \* what malloc leaves in the buffer
  MaxLen     \* bound: the length of a file

NUL == "0"

FillAssumption ==
  /\ BUFSIZE \in Nat \ {0}
  /\ MaxLen \in Nat
  /\ NUL \in Char /\ Junk \notin Char

ASSUME FillAssumption

VARIABLES
  file,                \* the stream s->in reads
  filePos,             \* how much of it has been read
  buf, lim, cur, tok, mar,  \* INPUT
  eof,                 \* INPUT
  mode,                \* where the scanner is in its automaton
  tokens               \* what the scanner has reported, in order

vars == <<file, filePos, buf, lim, cur, tok, mar, eof, mode, tokens>>

Files == UNION {[1..n -> Char] : n \in 0..MaxLen}

(* Input_Init: all pointers at the end, so that the first look fills. *)
Input_Init ==
  /\ buf = [[k \in 0..BUFSIZE |-> Junk] EXCEPT ![BUFSIZE] = NUL]
  /\ lim = BUFSIZE /\ cur = BUFSIZE /\ tok = BUFSIZE /\ mar = BUFSIZE
  /\ eof = FALSE

Init ==
  /\ file \in Files /\ filePos = 0
  /\ Input_Init
  /\ mode = "std" /\ tokens = <<>>

-----------------------------------------------------------------------------

(* The rest of the file, as much as fits behind the current token. *)
ReadSize ==
  LET room == BUFSIZE - (lim - tok)
      rest == Len(file) - filePos
  IN  IF rest < room THEN rest ELSE room

(* Mutant: the marker is not moved with the token. *)
FillKeepsMarker ==
  /\ ~eof /\ tok >= 1
  /\ LET used == lim - tok
         n == ReadSize
     IN  /\ buf' = [k \in 0..BUFSIZE |->
                      IF k < used THEN buf[k + tok]
                      ELSE IF k < used + n THEN file[filePos + (k - used) + 1]
                      ELSE IF k = used + n THEN NUL
                      ELSE buf[k]]
         /\ lim' = used + n
         /\ filePos' = filePos + n
         /\ eof' = (used + n < BUFSIZE)
  /\ cur' = cur - tok
  /\ mar' = mar
  /\ tok' = 0

(* fill, when it returns 0. *)
fill ==
  /\ ~eof /\ tok >= 1
  /\ LET used == lim - tok
         n == ReadSize
     IN  /\ buf' = [k \in 0..BUFSIZE |->
                      IF k < used THEN buf[k + tok]
                      ELSE IF k < used + n THEN file[filePos + (k - used) + 1]
                      ELSE IF k = used + n THEN NUL
                      ELSE buf[k]]
         /\ lim' = used + n
         /\ filePos' = filePos + n
         /\ eof' = (used + n < BUFSIZE)
  /\ cur' = cur - tok
  /\ mar' = mar - tok
  /\ tok' = 0

(* fill, when it returns 1 (end of file) or 2 (no room): to the scanner both *)
(* are the end of the input.                                                  *)
FillFails == eof \/ tok < 1

(* The scanner reads a zero and finds itself at the limit: it asks for more. *)
AtLimit == buf[cur] = NUL /\ lim <= cur
Running == mode \notin {"stopped", "failed"}

CallFill ==
  /\ Running /\ AtLimit /\ fill
  /\ UNCHANGED <<file, mode, tokens>>

-----------------------------------------------------------------------------
(* The automaton, for the rules of scanner.re on numbers, strings, comments *)
(* and line ends: "num" has seen digits, "slash" a "/", "quote" an opening   *)
(* quote, "string" also a later one (mar is behind the last), "c" is in a C   *)
(* comment, "star" there after a "*", "line" in a comment up to the end of    *)
(* the line.  Only std starts a token: a comment keeps its first character    *)
(* as s->tok for as long as it lasts.                                          *)

Look(ch) == Running /\ ~AtLimit /\ buf[cur] = ch
End == Running /\ AtLimit /\ FillFails

MoveTo(p) == cur' = p /\ UNCHANGED <<buf, lim, eof, filePos, file>>
Eat == MoveTo(cur + 1) /\ UNCHANGED mar
Stay == MoveTo(cur) /\ UNCHANGED mar

(* Back to std, or out of the loop: the next token starts at the cursor. *)
StartAt(t, p, next) ==
  /\ tokens' = IF t = "none" THEN tokens ELSE Append(tokens, t)
  /\ tok' = p
  /\ mode' = next
Go(next) == mode' = next /\ UNCHANGED <<tok, tokens>>

Std ==
  /\ mode = "std"
  /\ \/ Look("d") /\ Eat /\ Go("num")
     \/ Look("/") /\ Eat /\ Go("slash")
     \/ Look("q") /\ MoveTo(cur + 1) /\ mar' = cur + 1 /\ Go("quote")
     \/ Look("\n") /\ Eat /\ StartAt("EOL", cur + 1, "std")
     \/ Look("*") /\ Eat /\ StartAt("UNKNOWN", cur + 1, "stopped")
     \/ Look(NUL) /\ Eat /\ StartAt("EOF", cur + 1, "stopped")
     \/ End /\ Stay /\ StartAt("EOF", cur, "stopped")

Number ==
  /\ mode = "num"
  /\ \/ Look("d") /\ Eat /\ Go("num")
     \/ /\ End \/ \E ch \in Char \ {"d"} : Look(ch)
        /\ Stay /\ StartAt("NUMBER", cur, "std")

Slash ==
  /\ mode = "slash"
  /\ \/ Look("*") /\ Eat /\ Go("c")
     \/ Look("/") /\ Eat /\ Go("line")
     \/ /\ End \/ \E ch \in Char \ {"*", "/"} : Look(ch)
        /\ Stay /\ StartAt("UNKNOWN", cur, "stopped")

(* Mutant: the cursor does not go back to the last quote. *)
StringStays ==
  /\ mode \in {"quote", "string"}
  /\ \/ Look("q") /\ MoveTo(cur + 1) /\ mar' = cur + 1 /\ Go("string")
     \/ (\E ch \in Char \ {"q"} : Look(ch)) /\ Eat /\ Go(mode)
     \/ /\ End /\ Stay
        /\ IF mode = "string" THEN StartAt("STRING", cur, "std")
                              ELSE StartAt("UNKNOWN", cur, "stopped")

(* DBL_QUOTE ANY* DBL_QUOTE matches as much as it can: the scanner goes on    *)
(* to the end of the input, then back to the last quote.                      *)
String ==
  /\ mode \in {"quote", "string"}
  /\ \/ Look("q") /\ MoveTo(cur + 1) /\ mar' = cur + 1 /\ Go("string")
     \/ (\E ch \in Char \ {"q"} : Look(ch)) /\ Eat /\ Go(mode)
     \/ /\ End /\ MoveTo(mar) /\ UNCHANGED mar
        /\ IF mode = "string" THEN StartAt("STRING", mar, "std")
                              ELSE StartAt("UNKNOWN", mar, "stopped")

(* comment_c: a "*" that no "/" follows is any character. *)
CommentC ==
  /\ mode \in {"c", "star"}
  /\ \/ mode = "star" /\ Look("/") /\ Eat /\ StartAt("none", cur + 1, "std")
     \/ Look("*") /\ Eat /\ Go("star")
     \/ (\E ch \in Char \ {"*", "/", NUL} : Look(ch)) /\ Eat /\ Go("c")
     \/ mode = "c" /\ Look("/") /\ Eat /\ Go("c")
     \/ (End \/ Look(NUL)) /\ Stay /\ StartAt("UNTERMINATED", tok, "failed")

(* comment_cxx and comment_perl. *)
CommentLine ==
  /\ mode = "line"
  /\ \/ Look("\n") /\ Eat /\ StartAt("EOL", cur + 1, "std")
     \/ Look(NUL) /\ Eat /\ StartAt("none", cur + 1, "std")
     \/ (\E ch \in Char \ {"\n", NUL} : Look(ch)) /\ Eat /\ Go("line")
     \/ End /\ Stay /\ StartAt("UNTERMINATED", tok, "failed")

Scanner_Scan == Std \/ Number \/ Slash \/ String \/ CommentC \/ CommentLine

Next == CallFill \/ Scanner_Scan

Spec == Init /\ [][Next]_vars
FairSpec == Spec /\ WF_vars(Next)

-----------------------------------------------------------------------------

(* From the current token to the limit the buffer holds the last characters  *)
(* read from the file, in order: no refill loses or repeats one.  And what     *)
(* the scanner keeps of a string in it stays good: the marker is behind a       *)
(* quote of this very string.                                                   *)
WindowOfFile ==
  /\ lim - tok <= filePos
  /\ \A k \in tok..(lim - 1) : buf[k] = file[filePos - lim + k + 1]
  /\ mode \in {"quote", "string"} => tok < mar /\ mar <= cur /\ buf[mar - 1] = "q"
=============================================================================
