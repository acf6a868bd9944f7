----------------------------- MODULE MCInputFill -----------------------------
(* Small instances of InputFill, and what its scanner should report, said of *)
(* the whole file without any buffer.                                         *)
EXTENDS InputFill, SequencesExt, FiniteSetsExt

MCChar == {"d", "/", "*", "\n", NUL}
MCAll == MCChar \cup {"q"}
MCJunk == "junk"

At(f, j, c) == j <= Len(f) /\ f[j] = c
FirstOf(S) == IF S = {} THEN 0 ELSE Min(S)  \* 0: there is none

(* Places behind position i where a lexeme may end. *)
NoDigits(f, i) == {j \in i..Len(f) : f[j] # "d"}
Quotes(f, i) == {j \in i + 1..Len(f) : f[j] = "q"}
Eols(f, i) == {j \in i + 2..Len(f) : f[j] \in {"\n", NUL}}
Closes(f, i) ==
  {j \in i + 2..Len(f) : f[j] = NUL \/ (j > i + 2 /\ f[j] = "/" /\ f[j - 1] = "*")}

(* The lexeme that starts at i: what is reported, where the next one starts  *)
(* (0 if the scanner stops) and the last character one must see to tell.      *)
Told(token, next, last) == [token |-> token, next |-> next, last |-> last]

NumberAt(f, i) ==
  LET stop == FirstOf(NoDigits(f, i))
  IN  IF stop = 0 THEN Told("NUMBER", Len(f) + 1, Len(f)) ELSE Told("NUMBER", stop, stop)
StringAt(f, i) ==
  IF Quotes(f, i) = {} THEN Told("UNKNOWN", 0, Len(f))
                       ELSE Told("STRING", Max(Quotes(f, i)) + 1, Len(f))
CommentAt(f, i) ==
  LET stop == FirstOf(Closes(f, i))
  IN  IF stop = 0 THEN Told("UNTERMINATED", 0, Len(f))
      ELSE IF f[stop] = NUL THEN Told("UNTERMINATED", 0, stop)
      ELSE Told("none", stop + 1, stop)
LineAt(f, i) ==
  LET stop == FirstOf(Eols(f, i))
  IN  IF stop = 0 THEN Told("UNTERMINATED", 0, Len(f))
      ELSE Told(IF f[stop] = NUL THEN "none" ELSE "EOL", stop + 1, stop)

Lexeme(f, i) ==
  CASE i > Len(f) -> Told("EOF", 0, Len(f))
    [] At(f, i, "d") -> NumberAt(f, i)
    [] At(f, i, "\n") -> Told("EOL", i + 1, i)
    [] At(f, i, NUL) -> Told("EOF", 0, i)
    [] At(f, i, "*") -> Told("UNKNOWN", 0, i)
    [] At(f, i, "q") -> StringAt(f, i)
    [] At(f, i, "/") /\ At(f, i + 1, "*") -> CommentAt(f, i)
    [] At(f, i, "/") /\ At(f, i + 1, "/") -> LineAt(f, i)
    [] OTHER -> Told("UNKNOWN", 0, i + 1)

(* What the file says from each place on, and whether every lexeme, up to the *)
(* last character it depends on, fits the buffer.                              *)
Scanned(f) ==
  LET From[i \in 1..Len(f) + 1] ==
        LET x == Lexeme(f, i)
            rest == IF x.next = 0 THEN [said |-> <<>>, fits |-> TRUE] ELSE From[x.next]
        IN  [said |-> (IF x.token = "none" THEN <<>> ELSE <<x.token>>) \o rest.said,
             fits |-> x.last - i + 1 <= BUFSIZE /\ rest.fits]
  IN  From[1]

Reference(f) == Scanned(f).said
Fits(f) == Scanned(f).fits

(* A file whose lexemes fit the buffer is scanned as if the buffer held all   *)
(* of it, wherever the refills fall.                                           *)
ScanIsReference ==
  Fits(file) =>
    IF Running THEN IsPrefix(tokens, Reference(file)) ELSE tokens = Reference(file)

(* "ERROR : unterminated comment" is said of comments that do not end.        *)
UnterminatedIsTrue ==
  mode = "failed" => Last(Reference(file)) = "UNTERMINATED"

=============================================================================
