--------------------------- MODULE InputFill_proofs ---------------------------
(* Proofs about the input buffer of the tokenizer, for a buffer of any size     *)
(* and files of any length, over any characters.                                  *)
EXTENDS MCInputFill, SequenceTheorems, WellFoundedInduction, TLAPS

(* The strengthening of WindowOfFile: the pointers are in order, and the zero   *)
(* that marks the limit is there, so that the cursor never passes it.  The          *)
(* marker means something in a string only; elsewhere it may lie before the buffer.  *)
Pointers ==
  /\ DOMAIN buf = 0..BUFSIZE
  /\ filePos \in Nat /\ Len(file) \in Nat /\ filePos <= Len(file)
  /\ lim \in Nat /\ cur \in Nat /\ tok \in Nat /\ mar \in Int
  /\ tok <= cur /\ cur <= lim /\ lim <= BUFSIZE
  /\ buf[lim] = NUL
Window == Pointers /\ WindowOfFile

LEMMA WindowInit == Init => Window
  <1> SUFFICES ASSUME Init PROVE Window
    OBVIOUS
  <1>1. BUFSIZE \in Nat \ {0} /\ MaxLen \in Nat
    BY FillAssumption DEF FillAssumption
  <1>2. filePos = 0 /\ Len(file) \in Nat
    BY <1>1 DEF Init, Files
  <1>3. /\ lim = BUFSIZE /\ cur = BUFSIZE /\ tok = BUFSIZE /\ mar = BUFSIZE
        /\ DOMAIN buf = 0..BUFSIZE
        /\ BUFSIZE \in 0..BUFSIZE
        /\ buf = [[k \in 0..BUFSIZE |-> Junk] EXCEPT ![BUFSIZE] = NUL]
    BY <1>1 DEF Init, Input_Init
  <1>4. buf[BUFSIZE] = NUL
    BY <1>3
  <1>5. Pointers
    BY <1>1, <1>2, <1>3, <1>4 DEF Pointers
  <1>6. WindowOfFile
    BY <1>1, <1>2, <1>3 DEF WindowOfFile, Init
  <1> QED BY <1>5, <1>6 DEF Window

(* A refill.                                                                   *)
LEMMA FillKeepsWindow == ASSUME Window, CallFill PROVE Window'
  <1> DEFINE used == lim - tok
             n == ReadSize
  <1>1. BUFSIZE \in Nat
    BY FillAssumption DEF FillAssumption
  <1>2. /\ DOMAIN buf = 0..BUFSIZE
        /\ filePos \in Nat /\ Len(file) \in Nat /\ filePos <= Len(file)
        /\ lim \in Nat /\ cur \in Nat /\ tok \in Nat /\ mar \in Int
        /\ tok <= cur /\ cur <= lim /\ lim <= BUFSIZE
    BY DEF Window, Pointers
  <1>3. /\ used <= filePos
        /\ \A k \in tok..lim - 1 : buf[k] = file[filePos - lim + k + 1]
        /\ mode \in {"quote", "string"} => tok < mar /\ mar <= cur /\ buf[mar - 1] = "q"
    BY DEF Window, WindowOfFile
  <1>4. used \in Nat /\ n \in Nat /\ n <= BUFSIZE - used /\ n <= Len(file) - filePos
    BY <1>1, <1>2 DEF ReadSize
  <1>5. /\ buf' = [k \in 0..BUFSIZE |->
                     IF k < used THEN buf[k + tok]
                     ELSE IF k < used + n THEN file[filePos + (k - used) + 1]
                     ELSE IF k = used + n THEN NUL
                     ELSE buf[k]]
        /\ lim' = used + n /\ filePos' = filePos + n
        /\ cur' = cur - tok /\ mar' = mar - tok /\ tok' = 0
        /\ file' = file /\ mode' = mode
    BY DEF CallFill, fill
  <1> HIDE DEF n
  <1>6. Pointers'
    <2>1. used + n \in 0..BUFSIZE /\ ~(used + n < used) /\ ~(used + n < used + n)
      BY <1>1, <1>2, <1>4
    <2>2. buf'[used + n] = NUL
      BY <1>5, <2>1
    <2>3. /\ lim' \in Nat /\ lim' <= BUFSIZE /\ filePos' \in Nat /\ filePos' <= Len(file)
          /\ cur' \in Nat /\ mar' \in Int /\ tok' \in Nat /\ tok' <= cur' /\ cur' <= lim'
      BY <1>1, <1>2, <1>4, <1>5
    <2>4. DOMAIN buf' = 0..BUFSIZE
      BY <1>5
    <2>5. buf'[lim'] = NUL
      BY <1>5, <2>2
    <2> QED BY <1>2, <1>5, <2>3, <2>4, <2>5 DEF Pointers
  <1>7. ASSUME NEW k \in 0..used + n - 1
        PROVE  buf'[k] = file[filePos + n - (used + n) + k + 1]
    <2>1. k \in 0..BUFSIZE
      BY <1>1, <1>4
    <2>2. filePos + n - (used + n) + k + 1 = filePos - used + k + 1
      BY <1>2, <1>4
    <2>3. CASE k < used
      <3>1. k + tok \in tok..lim - 1 /\ filePos - lim + (k + tok) + 1 = filePos - used + k + 1
        BY <1>2, <2>3
      <3>2. buf'[k] = buf[k + tok]
        BY <1>5, <2>1, <2>3
      <3>3. buf[k + tok] = file[filePos - lim + (k + tok) + 1]
        BY <1>3, <3>1
      <3> QED BY <2>2, <3>1, <3>2, <3>3
    <2>4. CASE ~(k < used)
      <3>1. k < used + n /\ filePos + (k - used) + 1 = filePos - used + k + 1
        BY <1>2, <1>4
      <3>2. buf'[k] = file[filePos + (k - used) + 1]
        BY <1>5, <2>1, <2>4, <3>1
      <3> QED BY <2>2, <3>1, <3>2
    <2> QED BY <2>3, <2>4
  <1>8. ASSUME mode \in {"quote", "string"}
        PROVE  0 < mar - tok /\ mar - tok <= cur - tok /\ buf'[mar - tok - 1] = "q"
    <2>1. tok < mar /\ mar <= cur /\ buf[mar - 1] = "q"
      BY <1>3, <1>8
    <2>2. mar - tok - 1 \in 0..BUFSIZE /\ mar - tok - 1 < used /\ mar - tok - 1 + tok = mar - 1
      BY <1>1, <1>2, <2>1
    <2>3. buf'[mar - tok - 1] = buf[mar - tok - 1 + tok]
      BY <1>5, <2>2
    <2> QED BY <1>2, <2>1, <2>2, <2>3
  <1>9. WindowOfFile'
    <2>a. lim' = used + n /\ filePos' = filePos + n /\ tok' = 0
      BY <1>5
    <2>1. lim' - tok' <= filePos'
      BY <1>2, <1>3, <1>4, <2>a
    <2>2. ASSUME NEW k \in tok'..lim' - 1 PROVE buf'[k] = file'[filePos' - lim' + k + 1]
      <3>1. k \in 0..used + n - 1 /\ filePos' - lim' + k + 1 = filePos + n - (used + n) + k + 1
        BY <1>2, <1>4, <2>a
      <3>2. buf'[k] = file[filePos + n - (used + n) + k + 1]
        BY <1>7, <3>1
      <3> QED BY <1>5, <3>1, <3>2
    <2>3. mode' \in {"quote", "string"} => tok' < mar' /\ mar' <= cur' /\ buf'[mar' - 1] = "q"
      <3>1. tok' = 0 /\ mar' = mar - tok /\ cur' = cur - tok /\ mode' = mode
        BY <1>5
      <3> QED BY <1>8, <3>1
    <2> QED BY <2>1, <2>2, <2>3 DEF WindowOfFile
  <1> QED BY <1>6, <1>9 DEF Window

(* A step of the scanner moves the cursor, and the token's start or the marker. *)
Moved(p, t) ==
  /\ cur' = p /\ tok' = t
  /\ UNCHANGED <<file, filePos, buf, lim>>

LEMMA MovingKeepsWindow ==
  ASSUME Window, NEW p \in Nat, NEW t \in Nat, Moved(p, t),
         tok <= t, t <= p, p <= lim, mar' \in Int,
         mode' \in {"quote", "string"} => t < mar' /\ mar' <= p /\ buf[mar' - 1] = "q"
  PROVE  Window'
  <1>1. BUFSIZE \in Nat
    BY FillAssumption DEF FillAssumption
  <1>2. Pointers'
    BY <1>1 DEF Window, Pointers, Moved
  <1>3. /\ lim - tok <= filePos
        /\ \A k \in tok..lim - 1 : buf[k] = file[filePos - lim + k + 1]
        /\ lim \in Nat /\ tok \in Nat /\ filePos \in Nat
    BY DEF Window, WindowOfFile, Pointers
  <1>4. lim - t <= filePos /\ \A k \in t..lim - 1 : k \in tok..lim - 1
    BY <1>3
  <1>5. WindowOfFile'
    BY <1>3, <1>4 DEF WindowOfFile, Moved
  <1> QED BY <1>2, <1>5 DEF Window

(* The scanner looks at a character only before the limit: there the zero        *)
(* always sends it to fill.                                                        *)
LEMMA LookIsInside ==
  ASSUME Window, NEW ch, Look(ch)
  PROVE  cur + 1 <= lim /\ buf[cur] = ch
  <1>1. cur \in Nat /\ lim \in Nat /\ cur <= lim /\ buf[lim] = NUL
    BY DEF Window, Pointers
  <1>2. buf[cur] = ch /\ ~(buf[cur] = NUL /\ lim <= cur)
    BY DEF Look, AtLimit
  <1>3. cur # lim
    BY <1>1, <1>2
  <1> QED BY <1>1, <1>2, <1>3

(* Steps that leave no string open behind them, and steps that stay in one.      *)
LEMMA PlainStep ==
  ASSUME Window, NEW p \in Nat, NEW t \in Nat, Moved(p, t),
         tok <= t, t <= p, p <= lim, mar' = mar, mode' \notin {"quote", "string"}
  PROVE  Window'
  <1>1. mar' \in Int
    BY DEF Window, Pointers
  <1> QED BY <1>1, MovingKeepsWindow

LEMMA Ordered ==
  ASSUME Window
  PROVE  /\ cur \in Nat /\ tok \in Nat /\ lim \in Nat /\ mar \in Int
         /\ cur + 1 \in Nat /\ tok <= cur /\ cur <= lim /\ tok <= cur + 1
         /\ mode \in {"quote", "string"} => tok < mar /\ mar <= cur /\ buf[mar - 1] = "q"
  BY DEF Window, Pointers, WindowOfFile

(* The ways a rule of the scanner goes on.                                     *)
LEMMA EatAndGo ==
  ASSUME Window, NEW ch, Look(ch), Eat, NEW next, Go(next), next \notin {"quote", "string"}
  PROVE  Window'
  <1>1. Moved(cur + 1, tok) /\ mar' = mar /\ mode' = next
    BY DEF Moved, Eat, MoveTo, Go
  <1>2. cur + 1 <= lim
    BY LookIsInside
  <1> QED BY <1>1, <1>2, Ordered, PlainStep

LEMMA EatAndStart ==
  ASSUME Window, NEW ch, Look(ch), Eat, NEW token, NEW next, StartAt(token, cur + 1, next),
         next \notin {"quote", "string"}
  PROVE  Window'
  <1>1. Moved(cur + 1, cur + 1) /\ mar' = mar /\ mode' = next
    BY DEF Moved, Eat, MoveTo, StartAt
  <1>2. cur + 1 <= lim
    BY LookIsInside
  <1>3. cur + 1 <= cur + 1
    BY Ordered
  <1> QED BY <1>1, <1>2, <1>3, Ordered, PlainStep

LEMMA StayAndStart ==
  ASSUME Window, Stay, NEW token, NEW t, t = cur \/ t = tok, NEW next, StartAt(token, t, next),
         next \notin {"quote", "string"}
  PROVE  Window'
  <1>1. Moved(cur, t) /\ mar' = mar /\ mode' = next
    BY DEF Moved, Stay, MoveTo, StartAt
  <1>2. t \in Nat /\ tok <= t /\ t <= cur
    BY Ordered
  <1> QED BY <1>1, <1>2, Ordered, PlainStep

LEMMA QuoteAndGo ==
  ASSUME Window, Look("q"), MoveTo(cur + 1), mar' = cur + 1, NEW next, Go(next)
  PROVE  Window'
  <1>1. Moved(cur + 1, tok)
    BY DEF Moved, MoveTo, Go
  <1>2. cur + 1 <= lim /\ buf[cur] = "q"
    BY LookIsInside
  <1>3. mar' \in Int /\ tok < mar' /\ mar' <= cur + 1 /\ mar' - 1 = cur
    BY Ordered
  <1> QED BY <1>1, <1>2, <1>3, Ordered, MovingKeepsWindow

(* The rules.                                                                  *)
LEMMA StringKeepsWindow == ASSUME Window, String PROVE Window'
  <1>1. mode \in {"quote", "string"} /\ tok < mar /\ mar <= cur /\ buf[mar - 1] = "q"
    BY Ordered DEF String
  <1>2. CASE Look("q") /\ MoveTo(cur + 1) /\ mar' = cur + 1 /\ Go("string")
    BY <1>2, QuoteAndGo
  <1>3. CASE (\E ch \in Char \ {"q"} : Look(ch)) /\ Eat /\ Go(mode)
    <2>1. PICK ch \in Char \ {"q"} : Look(ch)
      BY <1>3
    <2>2. Moved(cur + 1, tok) /\ mar' = mar
      BY <1>3 DEF Moved, Eat, MoveTo, Go
    <2>3. cur + 1 <= lim
      BY <2>1, LookIsInside
    <2>4. mar' \in Int /\ tok < mar' /\ mar' <= cur + 1 /\ buf[mar' - 1] = "q"
      BY <1>1, <2>2, Ordered
    <2>5. tok <= tok
      BY Ordered
    <2> QED BY <2>2, <2>3, <2>4, <2>5, Ordered, MovingKeepsWindow
  <1>4. CASE /\ End /\ MoveTo(mar) /\ UNCHANGED mar
             /\ IF mode = "string" THEN StartAt("STRING", mar, "std")
                                   ELSE StartAt("UNKNOWN", mar, "stopped")
    <2>1. Moved(mar, mar) /\ mar' = mar /\ mode' \notin {"quote", "string"}
      BY <1>4 DEF Moved, MoveTo, StartAt
    <2>2. mar \in Nat /\ tok <= mar /\ mar <= mar /\ mar <= lim
      BY <1>1, Ordered
    <2> QED BY <2>1, <2>2, PlainStep
  <1> QED BY <1>2, <1>3, <1>4 DEF String

LEMMA StdKeepsWindow == ASSUME Window, Std PROVE Window'
  <1>1. CASE Look("d") /\ Eat /\ Go("num")
    BY <1>1, EatAndGo
  <1>2. CASE Look("/") /\ Eat /\ Go("slash")
    BY <1>2, EatAndGo
  <1>3. CASE Look("q") /\ MoveTo(cur + 1) /\ mar' = cur + 1 /\ Go("quote")
    BY <1>3, QuoteAndGo
  <1>4. CASE Look("\n") /\ Eat /\ StartAt("EOL", cur + 1, "std")
    BY <1>4, EatAndStart
  <1>5. CASE Look("*") /\ Eat /\ StartAt("UNKNOWN", cur + 1, "stopped")
    BY <1>5, EatAndStart
  <1>6. CASE Look(NUL) /\ Eat /\ StartAt("EOF", cur + 1, "stopped")
    BY <1>6, EatAndStart
  <1>7. CASE End /\ Stay /\ StartAt("EOF", cur, "stopped")
    BY <1>7, StayAndStart
  <1> QED BY <1>1, <1>2, <1>3, <1>4, <1>5, <1>6, <1>7 DEF Std

LEMMA ScannerKeepsWindow == ASSUME Window, Scanner_Scan PROVE Window'
  <1>1. CASE Number
    <2>1. CASE Look("d") /\ Eat /\ Go("num")
      BY <2>1, EatAndGo
    <2>2. CASE Stay /\ StartAt("NUMBER", cur, "std")
      BY <2>2, StayAndStart
    <2> QED BY <1>1, <2>1, <2>2 DEF Number
  <1>2. CASE Slash
    <2>1. CASE Look("*") /\ Eat /\ Go("c")
      BY <2>1, EatAndGo
    <2>2. CASE Look("/") /\ Eat /\ Go("line")
      BY <2>2, EatAndGo
    <2>3. CASE Stay /\ StartAt("UNKNOWN", cur, "stopped")
      BY <2>3, StayAndStart
    <2> QED BY <1>2, <2>1, <2>2, <2>3 DEF Slash
  <1>3. CASE CommentC
    <2>1. CASE Look("/") /\ Eat /\ StartAt("none", cur + 1, "std")
      BY <2>1, EatAndStart
    <2>2. CASE Look("*") /\ Eat /\ Go("star")
      BY <2>2, EatAndGo
    <2>3. CASE (\E ch \in Char \ {"*", "/", NUL} : Look(ch)) /\ Eat /\ Go("c")
      BY <2>3, EatAndGo
    <2>4. CASE Look("/") /\ Eat /\ Go("c")
      BY <2>4, EatAndGo
    <2>5. CASE Stay /\ StartAt("UNTERMINATED", tok, "failed")
      BY <2>5, StayAndStart
    <2> QED BY <1>3, <2>1, <2>2, <2>3, <2>4, <2>5 DEF CommentC
  <1>4. CASE CommentLine
    <2>1. CASE Look("\n") /\ Eat /\ StartAt("EOL", cur + 1, "std")
      BY <2>1, EatAndStart
    <2>2. CASE Look(NUL) /\ Eat /\ StartAt("none", cur + 1, "std")
      BY <2>2, EatAndStart
    <2>3. CASE (\E ch \in Char \ {"\n", NUL} : Look(ch)) /\ Eat /\ Go("line")
      BY <2>3, EatAndGo
    <2>4. CASE Stay /\ StartAt("UNTERMINATED", tok, "failed")
      BY <2>4, StayAndStart
    <2> QED BY <1>4, <2>1, <2>2, <2>3, <2>4 DEF CommentLine
  <1> QED BY <1>1, <1>2, <1>3, <1>4, StdKeepsWindow, StringKeepsWindow DEF Scanner_Scan

LEMMA WindowNext == Window /\ [Next]_vars => Window'
  <1>1. ASSUME Window, UNCHANGED vars PROVE Window'
    BY <1>1 DEF vars, Window, Pointers, WindowOfFile
  <1> QED BY <1>1, FillKeepsWindow, ScannerKeepsWindow DEF Next

(* From the current token to the limit the buffer is the file, for any size of   *)
(* the buffer and any file, wherever the refills fall; and the marker of a string is  *)
(* behind a quote of this very string, also after a refill has moved it.               *)
THEOREM BufferIsWindow == Spec => []WindowOfFile
  <1>1. Window => WindowOfFile
    BY DEF Window
  <1> QED BY <1>1, WindowInit, WindowNext, PTL DEF Spec

-----------------------------------------------------------------------------
(* What the scanner reports.  The lexemes of the file first: where each of them  *)
(* ends, what is reported, and the last character it depends on.                    *)

LEMMA LeastExists ==
  ASSUME NEW T \in SUBSET Nat, T # {}
  PROVE  \E m \in T : \A k \in T : m <= k
  <1>1. PICK m \in T : \A k \in T : ~(<<k, m>> \in OpToRel(<, Nat))
    BY WFMin, NatLessThanWellFounded
  <1>2. \A k \in T : ~ (k < m)
    BY <1>1 DEF OpToRel
  <1> QED BY <1>2

(* The first of some places: no place, or one with none before it.             *)
LEMMA FirstIs ==
  ASSUME NEW a \in Nat \ {0}, NEW b \in Nat, NEW T \in SUBSET (a..b)
  PROVE  \/ FirstOf(T) = 0 /\ T = {}
         \/ FirstOf(T) \in T /\ \A j \in T : FirstOf(T) <= j
  <1>1. CASE T = {}
    BY <1>1 DEF FirstOf
  <1>2. CASE T # {}
    <2>1. T \in SUBSET Nat
      OBVIOUS
    <2>2. \E m \in T : \A k \in T : m <= k
      BY <1>2, <2>1, LeastExists
    <2>3. Min(T) \in T /\ \A j \in T : Min(T) <= j
      BY <2>2 DEF Min
    <2> QED BY <1>2, <2>3 DEF FirstOf
  <1> QED BY <1>1, <1>2

(* The first place is c when c is one and none lies before it.                  *)
LEMMA FirstAt ==
  ASSUME NEW a \in Nat \ {0}, NEW b \in Nat, NEW T \in SUBSET (a..b), NEW c \in T,
         \A j \in a..c - 1 : j \notin T
  PROVE  FirstOf(T) = c
  <1> DEFINE m == FirstOf(T)
  <1>1. m \in T /\ m <= c
    BY FirstIs
  <1>2. c \in a..b /\ m \in a..b
    BY <1>1
  <1> HIDE DEF m
  <1>3. ~(m < c)
    <2>1. m < c => m \in a..c - 1
      BY <1>2
    <2> QED BY <1>1, <2>1
  <1>4. m = c
    BY <1>1, <1>2, <1>3
  <1> QED BY <1>4 DEF m

LEMMA LastIs ==
  ASSUME NEW a \in Nat, NEW b \in Nat, NEW T \in SUBSET (a..b), NEW c \in T,
         \A j \in c + 1..b : j \notin T
  PROVE  Max(T) = c
  <1>1. \A j \in T : c >= j
    OBVIOUS
  <1>2. \A x \in T : (\A y \in T : x >= y) => x = c
    BY <1>1
  <1> QED BY <1>1, <1>2 DEF Max

(* What a lexeme that starts at place i may be, by its first characters.         *)
LEMMA LexemeKinds ==
  ASSUME NEW f, NEW i \in Nat, Len(f) \in Nat
  PROVE  /\ i > Len(f) => Lexeme(f, i) = Told("EOF", 0, Len(f))
         /\ At(f, i, "d") => Lexeme(f, i) = NumberAt(f, i)
         /\ At(f, i, "\n") => Lexeme(f, i) = Told("EOL", i + 1, i)
         /\ At(f, i, NUL) => Lexeme(f, i) = Told("EOF", 0, i)
         /\ At(f, i, "*") => Lexeme(f, i) = Told("UNKNOWN", 0, i)
         /\ At(f, i, "q") => Lexeme(f, i) = StringAt(f, i)
         /\ At(f, i, "/") /\ At(f, i + 1, "*") => Lexeme(f, i) = CommentAt(f, i)
         /\ At(f, i, "/") /\ At(f, i + 1, "/") => Lexeme(f, i) = LineAt(f, i)
         /\ At(f, i, "/") /\ ~At(f, i + 1, "*") /\ ~At(f, i + 1, "/") =>
              Lexeme(f, i) = Told("UNKNOWN", 0, i + 1)
  <1>1. CASE i > Len(f)
    BY <1>1 DEF Lexeme, At
  <1>2. CASE At(f, i, "d")
    BY <1>2 DEF Lexeme, At, NUL
  <1>3. CASE At(f, i, "\n")
    BY <1>3 DEF Lexeme, At, NUL
  <1>4. CASE At(f, i, NUL)
    BY <1>4 DEF Lexeme, At, NUL
  <1>5. CASE At(f, i, "*")
    BY <1>5 DEF Lexeme, At, NUL
  <1>6. CASE At(f, i, "q")
    BY <1>6 DEF Lexeme, At, NUL
  <1>7. CASE At(f, i, "/")
    BY <1>7 DEF Lexeme, At, NUL
  <1> QED BY <1>1, <1>2, <1>3, <1>4, <1>5, <1>6, <1>7

Tokens == {"EOF", "NUMBER", "EOL", "UNKNOWN", "STRING", "UNTERMINATED"}

LEMMA LexemeAhead ==
  ASSUME NEW f, NEW i \in Nat \ {0}, Len(f) \in Nat, i <= Len(f) + 1
  PROVE  /\ Lexeme(f, i).token \in Tokens \cup {"none"}
         /\ Lexeme(f, i).next = 0 \/ Lexeme(f, i).next \in i + 1..Len(f) + 1
  <1>1. CASE i > Len(f)
    BY <1>1, LexemeKinds DEF Told, Tokens
  <1>2. CASE At(f, i, "d")
    <2> DEFINE stop == FirstOf(NoDigits(f, i))
    <2>1. NoDigits(f, i) \in SUBSET (i..Len(f))
      BY DEF NoDigits
    <2>2. stop = 0 \/ stop \in NoDigits(f, i)
      BY <2>1, FirstIs
    <2>3. stop # 0 => stop \in i + 1..Len(f)
      <3>1. ASSUME stop # 0 PROVE stop \in i..Len(f) /\ f[stop] # "d"
        BY <2>2, <3>1 DEF NoDigits
      <3>2. f[i] = "d"
        BY <1>2 DEF At
      <3> HIDE DEF stop
      <3> QED BY <3>1, <3>2
    <2>4. Lexeme(f, i) = NumberAt(f, i)
      BY <1>2, LexemeKinds
    <2>5. i <= Len(f)
      BY <1>2 DEF At
    <2> QED BY <2>3, <2>4, <2>5 DEF NumberAt, Told, Tokens
  <1>3. CASE At(f, i, "q")
    <2>1. Quotes(f, i) \in SUBSET (i + 1..Len(f)) /\ Quotes(f, i) \in SUBSET Nat
      BY DEF Quotes
    <2>2. ASSUME Quotes(f, i) # {} PROVE Max(Quotes(f, i)) \in i + 1..Len(f)
      <3> DEFINE T == {m \in Nat : m <= Len(f) /\ Len(f) - m \in Quotes(f, i)}
      <3>1. PICK k \in Quotes(f, i) : TRUE
        BY <2>2
      <3>2. k \in i + 1..Len(f) /\ Len(f) - k \in T
        BY <2>1, <3>1
      <3>3. PICK m \in T : \A j \in T : m <= j
        <4>1. T \in SUBSET Nat /\ T # {}
          BY <3>2
        <4> HIDE DEF T
        <4> QED BY <4>1, LeastExists
      <3>4. \A j \in Quotes(f, i) : j \in i + 1..Len(f) /\ Len(f) - j \in T
        BY <2>1
      <3>5. \A j \in Quotes(f, i) : Len(f) - m >= j
        <4>1. m \in Nat
          BY <3>3
        <4>2. \A j \in Quotes(f, i) : m <= Len(f) - j
          BY <3>3, <3>4
        <4> HIDE DEF T
        <4> QED BY <4>1, <4>2, <3>4
      <3>6. Len(f) - m \in Quotes(f, i)
        BY <3>3
      <3> QED BY <2>1, <3>5, <3>6 DEF Max
    <2>3. Lexeme(f, i) = StringAt(f, i)
      BY <1>3, LexemeKinds
    <2> QED BY <2>2, <2>3 DEF StringAt, Told, Tokens
  <1>4. CASE At(f, i, "/") /\ At(f, i + 1, "*")
    <2> DEFINE stop == FirstOf(Closes(f, i))
    <2>1. Closes(f, i) \in SUBSET (i + 2..Len(f)) /\ i + 2 \in Nat \ {0}
      BY DEF Closes
    <2>2. stop = 0 \/ stop \in Closes(f, i)
      BY <2>1, FirstIs
    <2>3. Lexeme(f, i) = CommentAt(f, i)
      BY <1>4, LexemeKinds
    <2> QED BY <2>1, <2>2, <2>3 DEF CommentAt, Told, Tokens
  <1>5. CASE At(f, i, "/") /\ At(f, i + 1, "/")
    <2> DEFINE stop == FirstOf(Eols(f, i))
    <2>1. Eols(f, i) \in SUBSET (i + 2..Len(f)) /\ i + 2 \in Nat \ {0}
      BY DEF Eols
    <2>2. stop = 0 \/ stop \in Eols(f, i)
      BY <2>1, FirstIs
    <2>3. Lexeme(f, i) = LineAt(f, i)
      BY <1>5, LexemeKinds
    <2> QED BY <2>1, <2>2, <2>3 DEF LineAt, Told, Tokens
  <1>6. CASE At(f, i, "/") /\ ~At(f, i + 1, "*") /\ ~At(f, i + 1, "/")
    BY <1>6, LexemeKinds DEF Told, Tokens
  <1>7. CASE At(f, i, "\n")
    <2>1. i <= Len(f)
      BY <1>7 DEF At
    <2> QED BY <1>7, <2>1, LexemeKinds DEF Told, Tokens
  <1>8. CASE At(f, i, NUL) \/ At(f, i, "*")
    BY <1>8, LexemeKinds DEF Told, Tokens
  <1>9. CASE i <= Len(f) /\ \A c \in {"d", "q", "/", "\n", NUL, "*"} : ~At(f, i, c)
    BY <1>9 DEF Lexeme, At, Told, Tokens
  <1> QED BY <1>1, <1>2, <1>3, <1>4, <1>5, <1>6, <1>7, <1>8, <1>9

(* What the file says from place i on, when R has what it says from later places *)
(* on; the solution of these equations is what the reference is read from.           *)
Behind(f, R, i) ==
  IF Lexeme(f, i).next = 0 THEN [said |-> <<>>, fits |-> TRUE] ELSE R[Lexeme(f, i).next]
SaidOf(token) == IF token = "none" THEN <<>> ELSE <<token>>
FromPlace(f, R, i) ==
  [said |-> SaidOf(Lexeme(f, i).token) \o Behind(f, R, i).said,
   fits |-> Lexeme(f, i).last - i + 1 <= BUFSIZE /\ Behind(f, R, i).fits]
Solves(f, R, p) == R = [i \in p..Len(f) + 1 |-> FromPlace(f, R, i)]
Scan(f) == CHOOSE R : Solves(f, R, 1)

LEMMA ScannedIs == \A f : Scanned(f) = Scan(f)[1]
  BY DEF Scanned, Scan, Solves, FromPlace, Behind, SaidOf

LEMMA ScanExists ==
  ASSUME NEW f, Len(f) \in Nat
  PROVE  \A i \in 1..Len(f) + 1 : Scan(f)[i] = FromPlace(f, Scan(f), i)
  <1> DEFINE n == Len(f)
             T == {m \in Nat : m <= n + 1 /\ ~\E R : Solves(f, R, n + 2 - m)}
  <1>1. T = {}
    <2> SUFFICES ASSUME T # {} PROVE FALSE
      OBVIOUS
    <2>1. T \in SUBSET Nat
      OBVIOUS
    <2>2. PICK m \in T : \A k \in T : m <= k
      BY <2>1, LeastExists
    <2>3. m \in Nat /\ m <= n + 1 /\ ~\E R : Solves(f, R, n + 2 - m)
      BY <2>2
    <2>4. CASE m = 0
      <3> DEFINE R == [i \in {} |-> <<>>]
      <3>1. n + 2 - m..n + 1 = {}
        BY <2>4
      <3>2. Solves(f, R, n + 2 - m)
        BY <3>1 DEF Solves
      <3> QED BY <2>3, <3>2
    <2>5. CASE m # 0
      <3>1. m - 1 \in Nat /\ m - 1 <= n + 1 /\ ~(m <= m - 1)
        BY <2>3, <2>5
      <3> HIDE DEF T
      <3>a. m - 1 \notin T
        BY <2>2, <3>1
      <3> USE DEF T
      <3>2. PICK R : Solves(f, R, n + 2 - (m - 1))
        BY <3>1, <3>a
      <3> DEFINE p == n + 2 - m
                 H == [i \in p..n + 1 |-> IF i = p THEN FromPlace(f, R, i) ELSE R[i]]
      <3>3. p \in Nat \ {0} /\ p <= n + 1 /\ n + 2 - (m - 1) = p + 1
        BY <2>3, <2>5
      <3>4. R = [i \in p + 1..n + 1 |-> FromPlace(f, R, i)]
        BY <3>2, <3>3 DEF Solves
      <3> HIDE DEF p
      <3>5. \A i \in p + 1..n + 1 : H[i] = R[i] /\ R[i] = FromPlace(f, R, i)
        <4>1. \A i \in p + 1..n + 1 : i \in p..n + 1 /\ i # p
          BY <3>3
        <4>2. \A i \in p + 1..n + 1 : H[i] = R[i]
          BY <4>1
        <4>3. \A i \in p + 1..n + 1 : R[i] = FromPlace(f, R, i)
          BY <3>4
        <4> QED BY <4>2, <4>3
      <3>6. H[p] = FromPlace(f, R, p)
        BY <3>3
      <3> HIDE DEF H
      <3>7. ASSUME NEW i \in p..n + 1 PROVE FromPlace(f, H, i) = FromPlace(f, R, i)
        <4> DEFINE k == Lexeme(f, i).next
        <4>1. i \in Nat \ {0} /\ i <= n + 1
          BY <3>3
        <4>2. k = 0 \/ k \in i + 1..n + 1
          BY <4>1, LexemeAhead
        <4> HIDE DEF k
        <4>3. CASE k = 0
          BY <4>3 DEF FromPlace, Behind, k
        <4>4. CASE k \in i + 1..n + 1
          <5>1. k \in p + 1..n + 1 /\ k # 0
            BY <3>3, <4>1, <4>4
          <5>2. H[k] = R[k]
            BY <3>5, <5>1
          <5> QED BY <5>1, <5>2 DEF FromPlace, Behind, k
        <4> QED BY <4>2, <4>3, <4>4
      <3>8. \A i \in p..n + 1 : H[i] = FromPlace(f, H, i)
        <4>1. \A i \in p..n + 1 : i = p \/ i \in p + 1..n + 1
          BY <3>3
        <4> QED BY <3>5, <3>6, <3>7, <4>1
      <3>9. H = [i \in p..n + 1 |-> H[i]]
        BY DEF H
      <3>10. Solves(f, H, p)
        BY <3>8, <3>9 DEF Solves
      <3> QED BY <2>3, <3>10 DEF p
    <2> QED BY <2>4, <2>5
  <1>2. \E R : Solves(f, R, 1)
    <2>1. n + 1 \in Nat /\ n + 1 <= n + 1 /\ n + 2 - (n + 1) = 1
      OBVIOUS
    <2> QED BY <1>1, <2>1
  <1>3. Solves(f, Scan(f), 1)
    BY <1>2 DEF Scan
  <1> QED BY <1>3 DEF Solves

LEMMA ScanType ==
  ASSUME NEW f, Len(f) \in Nat
  PROVE  \A i \in 1..Len(f) + 1 : Scan(f)[i].said \in Seq(Tokens)
  <1> DEFINE n == Len(f)
             Bad == {j \in Nat : j <= n /\ Scan(f)[n + 1 - j].said \notin Seq(Tokens)}
  <1>1. Bad = {}
    <2> SUFFICES ASSUME Bad # {} PROVE FALSE
      OBVIOUS
    <2>1. Bad \in SUBSET Nat
      OBVIOUS
    <2>2. PICK j \in Bad : \A m \in Bad : j <= m
      BY <2>1, LeastExists
    <2> DEFINE i == n + 1 - j
               x == Lexeme(f, i)
    <2>3. j \in Nat /\ j <= n /\ Scan(f)[i].said \notin Seq(Tokens)
      BY <2>2
    <2>4. i \in Nat \ {0} /\ i <= n + 1 /\ i \in 1..n + 1
      BY <2>3
    <2>5. x.token \in Tokens \cup {"none"} /\ (x.next = 0 \/ x.next \in i + 1..n + 1)
      BY <2>4, LexemeAhead
    <2>6. Scan(f)[i] = FromPlace(f, Scan(f), i)
      BY <2>4, ScanExists
    <2>7. SaidOf(x.token) \in Seq(Tokens)
      BY <2>5 DEF SaidOf
    <2>8. Behind(f, Scan(f), i).said \in Seq(Tokens)
      <3> DEFINE k == x.next
      <3>1. CASE k = 0
        BY <3>1 DEF Behind
      <3>2. CASE k \in i + 1..n + 1
        <4> HIDE DEF k
        <4>1. n + 1 - k \in Nat /\ n + 1 - k <= n /\ ~(j <= n + 1 - k) /\ n + 1 - (n + 1 - k) = k
          BY <2>3, <2>4, <3>2
        <4> HIDE DEF Bad
        <4>2. n + 1 - k \notin Bad
          BY <2>2, <4>1
        <4> USE DEF Bad
        <4>3. Scan(f)[k].said \in Seq(Tokens)
          BY <4>1, <4>2
        <4>4. k # 0
          BY <2>4, <3>2
        <4> QED BY <4>3, <4>4 DEF Behind, k
      <3> QED BY <2>5, <3>1, <3>2
    <2> HIDE DEF i
    <2>9. Scan(f)[i].said = SaidOf(x.token) \o Behind(f, Scan(f), i).said
      <3>1. FromPlace(f, Scan(f), i).said = SaidOf(x.token) \o Behind(f, Scan(f), i).said
        BY DEF FromPlace
      <3> QED BY <2>6, <3>1
    <2> HIDE DEF x
    <2>10. Scan(f)[i].said \in Seq(Tokens)
      BY <2>7, <2>8, <2>9
    <2> QED BY <2>3, <2>10
  <1>2. ASSUME NEW i \in 1..n + 1 PROVE Scan(f)[i].said \in Seq(Tokens)
    <2>1. n + 1 - i \in Nat /\ n + 1 - i <= n /\ n + 1 - (n + 1 - i) = i
      OBVIOUS
    <2> QED BY <1>1, <2>1
  <1> QED BY <1>2

(* The reference is what was said before place i and what it says from there on. *)
ToldUpTo(f, i, said) ==
  Fits(f) => Scan(f)[i].fits /\ Reference(f) = said \o Scan(f)[i].said
ToldAll(f, said) == Fits(f) => Reference(f) = said

LEMMA ToldNothingYet ==
  ASSUME NEW f, Len(f) \in Nat
  PROVE  ToldUpTo(f, 1, <<>>)
  <1>1. Scan(f)[1].said \in Seq(Tokens)
    BY ScanType
  <1>2. Fits(f) = Scan(f)[1].fits /\ Reference(f) = Scan(f)[1].said
    BY ScannedIs DEF Fits, Reference
  <1>3. <<>> \o Scan(f)[1].said = Scan(f)[1].said
    BY <1>1
  <1> QED BY <1>2, <1>3 DEF ToldUpTo

LEMMA FitsHere ==
  ASSUME NEW f, Len(f) \in Nat, NEW i \in 1..Len(f) + 1, Scan(f)[i].fits
  PROVE  Lexeme(f, i).last - i + 1 <= BUFSIZE /\ Behind(f, Scan(f), i).fits
  <1>1. Scan(f)[i] = FromPlace(f, Scan(f), i)
    BY ScanExists
  <1>2. FromPlace(f, Scan(f), i).fits
    BY <1>1
  <1>3. FromPlace(f, Scan(f), i).fits =
          (Lexeme(f, i).last - i + 1 <= BUFSIZE /\ Behind(f, Scan(f), i).fits)
    BY DEF FromPlace
  <1> QED BY <1>2, <1>3

LEMMA ToldOne ==
  ASSUME NEW f, Len(f) \in Nat, NEW i \in 1..Len(f) + 1, NEW said \in Seq(Tokens),
         ToldUpTo(f, i, said)
  PROVE  /\ SaidOf(Lexeme(f, i).token) \in Seq(Tokens)
         /\ Lexeme(f, i).next = 0 => ToldAll(f, said \o SaidOf(Lexeme(f, i).token))
         /\ Lexeme(f, i).next # 0 =>
              ToldUpTo(f, Lexeme(f, i).next, said \o SaidOf(Lexeme(f, i).token))
  <1> DEFINE x == Lexeme(f, i)
             rest == Behind(f, Scan(f), i)
  <1>1. i \in Nat \ {0} /\ i <= Len(f) + 1
    OBVIOUS
  <1>2. x.token \in Tokens \cup {"none"} /\ (x.next = 0 \/ x.next \in i + 1..Len(f) + 1)
    BY <1>1, LexemeAhead
  <1>3. SaidOf(x.token) \in Seq(Tokens)
    BY <1>2 DEF SaidOf
  <1>4. Scan(f)[i].said = SaidOf(x.token) \o rest.said
    <2>1. FromPlace(f, Scan(f), i).said = SaidOf(x.token) \o rest.said
      BY DEF FromPlace
    <2> QED BY <2>1, ScanExists
  <1>5. ASSUME Fits(f) PROVE rest.fits /\ Reference(f) = said \o Scan(f)[i].said
    <2>1. Scan(f)[i].fits /\ Reference(f) = said \o Scan(f)[i].said
      BY <1>5 DEF ToldUpTo
    <2> QED BY <2>1, FitsHere
  <1>6. CASE x.next = 0
    <2>1. rest.said = <<>>
      BY <1>6 DEF Behind
    <2>2. SaidOf(x.token) \o rest.said = SaidOf(x.token)
      <3> HIDE DEF x, rest
      <3> QED BY <1>3, <2>1
    <2>3. ToldAll(f, said \o SaidOf(x.token))
      BY <1>4, <1>5, <2>2 DEF ToldAll
    <2> QED BY <1>3, <1>6, <2>3
  <1>7. CASE x.next # 0
    <2> DEFINE k == x.next
    <2>1. k \in 1..Len(f) + 1
      BY <1>1, <1>2, <1>7
    <2>2. rest = Scan(f)[k]
      BY <1>7 DEF Behind
    <2>3. rest.said \in Seq(Tokens)
      BY <2>1, <2>2, ScanType
    <2>4. said \o (SaidOf(x.token) \o rest.said) = (said \o SaidOf(x.token)) \o rest.said
      <3> DEFINE a == SaidOf(x.token)
                 b == rest.said
      <3>1. a \in Seq(Tokens) /\ b \in Seq(Tokens)
        BY <1>3, <2>3
      <3> HIDE DEF a, b
      <3>2. (said \o a) \o b = said \o (a \o b)
        BY <3>1, ConcatAssociative
      <3> QED BY <3>2 DEF a, b
    <2>5. ToldUpTo(f, k, said \o SaidOf(x.token))
      <3> HIDE DEF x
      <3> QED BY <1>4, <1>5, <2>2, <2>4 DEF ToldUpTo
    <2> QED BY <1>3, <1>7, <2>5
  <1> QED BY <1>6, <1>7

-----------------------------------------------------------------------------
(* Where the automaton is: mode m, in the lexeme that starts at place i, with the *)
(* characters up to place c behind it and the marker at k.                           *)
Doing(f, m, i, c, k) ==
  /\ m = "std" => c = i - 1
  /\ m = "num" => c >= i /\ \A j \in i..c : f[j] = "d"
  /\ m = "slash" => c = i /\ f[i] = "/"
  /\ m = "quote" => c >= i /\ f[i] = "q" /\ k = i /\ \A j \in i + 1..c : f[j] # "q"
  /\ m = "string" => k > i /\ k <= c /\ f[i] = "q" /\ f[k] = "q" /\ \A j \in k + 1..c : f[j] # "q"
  /\ m \in {"c", "star"} =>
       c > i /\ f[i] = "/" /\ f[i + 1] = "*" /\ \A j \in i + 2..c : j \notin Closes(f, i)
  /\ m = "star" => c > i + 1 /\ f[c] = "*"
  /\ (m = "c" /\ c > i + 1) => f[c] # "*"
  /\ m = "line" => c > i /\ f[i] = "/" /\ f[i + 1] = "/" /\ \A j \in i + 2..c : j \notin Eols(f, i)

LEMMA NumberEnds ==
  ASSUME NEW f, Len(f) \in Nat, NEW i \in 1..Len(f) + 1, NEW c \in Nat, c <= Len(f), NEW k,
         Doing(f, "num", i, c, k)
  PROVE  /\ c = Len(f) => Lexeme(f, i) = Told("NUMBER", c + 1, c)
         /\ (c < Len(f) /\ f[c + 1] # "d") => Lexeme(f, i) = Told("NUMBER", c + 1, c + 1)
         /\ Lexeme(f, i).last \in Nat /\ (Lexeme(f, i).last <= c => c = Len(f))
  <1>1. c >= i /\ \A j \in i..c : f[j] = "d"
    BY DEF Doing
  <1>2. At(f, i, "d")
    BY <1>1 DEF At
  <1>3. Lexeme(f, i) = NumberAt(f, i)
    BY <1>2, LexemeKinds
  <1>4. /\ i \in Nat \ {0} /\ NoDigits(f, i) \in SUBSET (i..Len(f))
        /\ \A j \in i..c : j \notin NoDigits(f, i)
    BY <1>1 DEF NoDigits
  <1>5. CASE c = Len(f)
    <2>1. FirstOf(NoDigits(f, i)) = 0
      BY <1>4, <1>5 DEF FirstOf
    <2> QED BY <1>3, <1>5, <2>1 DEF NumberAt, Told
  <1>6. CASE c < Len(f)
    <2> DEFINE stop == FirstOf(NoDigits(f, i))
    <2>1. ASSUME f[c + 1] # "d" PROVE stop = c + 1
      <3>1. c + 1 \in NoDigits(f, i) /\ \A j \in i..c + 1 - 1 : j \notin NoDigits(f, i)
        BY <1>1, <1>4, <1>6, <2>1 DEF NoDigits
      <3> DEFINE b == c + 1
      <3>2. b \in NoDigits(f, i) /\ \A j \in i..b - 1 : j \notin NoDigits(f, i)
        BY <3>1
      <3> HIDE DEF b
      <3>3. stop = b
        BY <1>4, <3>2, FirstAt
      <3> QED BY <3>3 DEF b
    <2>2. stop = 0 \/ stop \in NoDigits(f, i)
      BY <1>4, FirstIs
    <2> HIDE DEF stop
    <2>3. stop = 0 \/ stop > c
      BY <1>4, <2>2
    <2>4. Lexeme(f, i) = IF stop = 0 THEN Told("NUMBER", Len(f) + 1, Len(f))
                                     ELSE Told("NUMBER", stop, stop)
      BY <1>3 DEF NumberAt, stop
    <2>5. Lexeme(f, i).last \in Nat /\ ~(Lexeme(f, i).last <= c)
      BY <1>6, <2>3, <2>4, <1>4, <2>2 DEF Told
    <2>6. f[c + 1] # "d" => Lexeme(f, i) = Told("NUMBER", c + 1, c + 1)
      BY <2>1, <2>4
    <2> QED BY <1>6, <2>5, <2>6
  <1> QED BY <1>5, <1>6

LEMMA StringEnds ==
  ASSUME NEW f, Len(f) \in Nat, NEW i \in 1..Len(f) + 1, NEW c \in Nat, c <= Len(f), NEW k \in Int,
         NEW m, m \in {"quote", "string"}, Doing(f, m, i, c, k)
  PROVE  /\ Lexeme(f, i).last \in Nat /\ (Lexeme(f, i).last <= c => c = Len(f))
         /\ (c = Len(f) /\ m = "quote") => Lexeme(f, i) = Told("UNKNOWN", 0, c)
         /\ (c = Len(f) /\ m = "string") => Lexeme(f, i) = Told("STRING", k + 1, c)
  <1>1. c >= i /\ f[i] = "q"
    BY DEF Doing
  <1>2. At(f, i, "q")
    BY <1>1 DEF At
  <1>3. Lexeme(f, i) = StringAt(f, i)
    BY <1>2, LexemeKinds
  <1>4. Lexeme(f, i).last = Len(f)
    BY <1>3 DEF StringAt, Told
  <1>5. ASSUME c = Len(f), m = "quote" PROVE Lexeme(f, i) = Told("UNKNOWN", 0, c)
    <2>1. Quotes(f, i) = {}
      BY <1>5 DEF Doing, Quotes
    <2> QED BY <1>3, <1>5, <2>1 DEF StringAt
  <1>6. ASSUME c = Len(f), m = "string" PROVE Lexeme(f, i) = Told("STRING", k + 1, c)
    <2>1. k > i /\ k <= c /\ f[k] = "q" /\ \A j \in k + 1..c : f[j] # "q"
      BY <1>6 DEF Doing
    <2>2. /\ Quotes(f, i) \in SUBSET (0..Len(f)) /\ k \in Quotes(f, i)
          /\ \A j \in k + 1..Len(f) : j \notin Quotes(f, i)
      BY <1>6, <2>1 DEF Quotes
    <2>3. Max(Quotes(f, i)) = k
      BY <2>2, LastIs
    <2> QED BY <1>3, <1>6, <2>2, <2>3 DEF StringAt
  <1> QED BY <1>4, <1>5, <1>6

LEMMA CommentEnds ==
  ASSUME NEW f, Len(f) \in Nat, NEW i \in 1..Len(f) + 1, NEW c \in Nat, c <= Len(f), NEW k,
         NEW m, m \in {"c", "star"}, Doing(f, m, i, c, k)
  PROVE  /\ Lexeme(f, i).last \in Nat /\ (Lexeme(f, i).last <= c => c = Len(f))
         /\ c = Len(f) => Lexeme(f, i) = Told("UNTERMINATED", 0, c)
         /\ (c < Len(f) /\ f[c + 1] = NUL) => Lexeme(f, i) = Told("UNTERMINATED", 0, c + 1)
         /\ (c < Len(f) /\ m = "star" /\ f[c + 1] = "/") => Lexeme(f, i) = Told("none", c + 2, c + 1)
  <1>1. c > i /\ f[i] = "/" /\ f[i + 1] = "*" /\ \A j \in i + 2..c : j \notin Closes(f, i)
    BY DEF Doing
  <1>2. At(f, i, "/") /\ At(f, i + 1, "*")
    BY <1>1 DEF At
  <1>3. Lexeme(f, i) = CommentAt(f, i)
    BY <1>2, LexemeKinds
  <1>4. Closes(f, i) \in SUBSET (i + 2..Len(f)) /\ i + 2 \in Nat \ {0}
    BY DEF Closes
  <1>5. CASE c = Len(f)
    <2>1. FirstOf(Closes(f, i)) = 0
      BY <1>1, <1>4, <1>5 DEF FirstOf
    <2> QED BY <1>3, <1>5, <2>1 DEF CommentAt, Told
  <1>6. CASE c < Len(f)
    <2> DEFINE stop == FirstOf(Closes(f, i))
    <2>1. ASSUME c + 1 \in Closes(f, i) PROVE stop = c + 1
      <3>1. \A j \in i + 2..c + 1 - 1 : j \notin Closes(f, i)
        BY <1>1
      <3> DEFINE b == c + 1
      <3>2. b \in Closes(f, i) /\ \A j \in i + 2..b - 1 : j \notin Closes(f, i)
        BY <2>1, <3>1
      <3> HIDE DEF b
      <3>3. stop = b
        BY <1>4, <3>2, FirstAt
      <3> QED BY <3>3 DEF b
    <2>2. stop = 0 \/ stop \in Closes(f, i)
      BY <1>4, FirstIs
    <2> HIDE DEF stop
    <2>3. stop = 0 \/ stop > c
      BY <1>1, <1>4, <2>2
    <2>4. Lexeme(f, i) = IF stop = 0 THEN Told("UNTERMINATED", 0, Len(f))
                         ELSE IF f[stop] = NUL THEN Told("UNTERMINATED", 0, stop)
                         ELSE Told("none", stop + 1, stop)
      BY <1>3 DEF CommentAt, stop
    <2>5. Lexeme(f, i).last \in Nat /\ ~(Lexeme(f, i).last <= c)
      BY <1>4, <1>6, <2>2, <2>3, <2>4 DEF Told
    <2>6. f[c + 1] = NUL => Lexeme(f, i) = Told("UNTERMINATED", 0, c + 1)
      <3>1. ASSUME f[c + 1] = NUL PROVE c + 1 \in Closes(f, i)
        BY <1>1, <1>6, <3>1 DEF Closes
      <3> QED BY <2>1, <2>4, <3>1
    <2>7. (m = "star" /\ f[c + 1] = "/") => Lexeme(f, i) = Told("none", c + 2, c + 1)
      <3>1. ASSUME m = "star", f[c + 1] = "/" PROVE c + 1 \in Closes(f, i)
        <4>1. c > i + 1 /\ f[c] = "*"
          BY <3>1 DEF Doing
        <4>2. c + 1 \in i + 2..Len(f) /\ c + 1 > i + 2 /\ c + 1 - 1 = c
          BY <1>6, <4>1
        <4> QED BY <3>1, <4>1, <4>2 DEF Closes
      <3>2. "/" # NUL /\ c + 1 # 0 /\ c + 1 + 1 = c + 2
        BY DEF NUL
      <3> QED BY <2>1, <2>4, <3>1, <3>2
    <2> QED BY <1>6, <2>5, <2>6, <2>7
  <1> QED BY <1>5, <1>6

LEMMA LineEnds ==
  ASSUME NEW f, Len(f) \in Nat, NEW i \in 1..Len(f) + 1, NEW c \in Nat, c <= Len(f), NEW k,
         Doing(f, "line", i, c, k)
  PROVE  /\ Lexeme(f, i).last \in Nat /\ (Lexeme(f, i).last <= c => c = Len(f))
         /\ c = Len(f) => Lexeme(f, i) = Told("UNTERMINATED", 0, c)
         /\ (c < Len(f) /\ f[c + 1] = NUL) => Lexeme(f, i) = Told("none", c + 2, c + 1)
         /\ (c < Len(f) /\ f[c + 1] = "\n") => Lexeme(f, i) = Told("EOL", c + 2, c + 1)
  <1>1. c > i /\ f[i] = "/" /\ f[i + 1] = "/" /\ \A j \in i + 2..c : j \notin Eols(f, i)
    BY DEF Doing
  <1>2. At(f, i, "/") /\ At(f, i + 1, "/")
    BY <1>1 DEF At
  <1>3. Lexeme(f, i) = LineAt(f, i)
    BY <1>2, LexemeKinds
  <1>4. Eols(f, i) \in SUBSET (i + 2..Len(f)) /\ i + 2 \in Nat \ {0}
    BY DEF Eols
  <1>5. CASE c = Len(f)
    <2>1. FirstOf(Eols(f, i)) = 0
      BY <1>1, <1>4, <1>5 DEF FirstOf
    <2> QED BY <1>3, <1>5, <2>1 DEF LineAt, Told
  <1>6. CASE c < Len(f)
    <2> DEFINE stop == FirstOf(Eols(f, i))
    <2>1. ASSUME f[c + 1] \in {"\n", NUL} PROVE stop = c + 1
      <3>1. c + 1 \in Eols(f, i) /\ \A j \in i + 2..c + 1 - 1 : j \notin Eols(f, i)
        BY <1>1, <1>6, <2>1 DEF Eols
      <3> DEFINE b == c + 1
      <3>2. b \in Eols(f, i) /\ \A j \in i + 2..b - 1 : j \notin Eols(f, i)
        BY <3>1
      <3> HIDE DEF b
      <3>3. stop = b
        BY <1>4, <3>2, FirstAt
      <3> QED BY <3>3 DEF b
    <2>2. stop = 0 \/ stop \in Eols(f, i)
      BY <1>4, FirstIs
    <2> HIDE DEF stop
    <2>3. stop = 0 \/ stop > c
      BY <1>1, <1>4, <2>2
    <2>4. Lexeme(f, i) = IF stop = 0 THEN Told("UNTERMINATED", 0, Len(f))
                         ELSE Told(IF f[stop] = NUL THEN "none" ELSE "EOL", stop + 1, stop)
      BY <1>3 DEF LineAt, stop
    <2>5. Lexeme(f, i).last \in Nat /\ ~(Lexeme(f, i).last <= c)
      BY <1>4, <1>6, <2>2, <2>3, <2>4 DEF Told
    <2>6. "\n" # NUL /\ c + 1 # 0 /\ c + 1 + 1 = c + 2
      BY DEF NUL
    <2> QED BY <1>6, <2>1, <2>4, <2>5, <2>6
  <1> QED BY <1>5, <1>6

LEMMA SlashEnds ==
  ASSUME NEW f, Len(f) \in Nat, NEW i \in 1..Len(f) + 1, NEW c \in Nat, c <= Len(f), NEW k,
         Doing(f, "slash", i, c, k)
  PROVE  /\ Lexeme(f, i).last \in Nat /\ ~(Lexeme(f, i).last <= c)
         /\ (c = Len(f) \/ f[c + 1] \notin {"*", "/"}) => Lexeme(f, i) = Told("UNKNOWN", 0, c + 1)
  <1>1. c = i /\ f[i] = "/"
    BY DEF Doing
  <1>2. At(f, i, "/")
    BY <1>1 DEF At
  <1>3. CASE At(f, i + 1, "*")
    <2>1. Doing(f, "c", i, i + 1, 0) /\ i + 1 \in Nat /\ i + 1 <= Len(f) /\ f[i + 1] = "*"
      BY <1>1, <1>3 DEF Doing, At
    <2>2. Lexeme(f, i).last \in Nat /\ (Lexeme(f, i).last <= i + 1 => i + 1 = Len(f))
      BY <2>1, CommentEnds
    <2>3. i + 1 = Len(f) => Lexeme(f, i) = Told("UNTERMINATED", 0, i + 1)
      BY <2>1, CommentEnds
    <2> QED BY <1>1, <2>1, <2>2, <2>3 DEF Told
  <1>4. CASE At(f, i + 1, "/")
    <2>1. Doing(f, "line", i, i + 1, 0) /\ i + 1 \in Nat /\ i + 1 <= Len(f) /\ f[i + 1] = "/"
      BY <1>1, <1>4 DEF Doing, At
    <2>2. Lexeme(f, i).last \in Nat /\ (Lexeme(f, i).last <= i + 1 => i + 1 = Len(f))
      BY <2>1, LineEnds
    <2>3. i + 1 = Len(f) => Lexeme(f, i) = Told("UNTERMINATED", 0, i + 1)
      BY <2>1, LineEnds
    <2> QED BY <1>1, <2>1, <2>2, <2>3 DEF Told
  <1>5. CASE ~At(f, i + 1, "*") /\ ~At(f, i + 1, "/")
    <2>1. Lexeme(f, i) = Told("UNKNOWN", 0, i + 1)
      BY <1>2, <1>5, LexemeKinds
    <2> QED BY <1>1, <2>1 DEF Told
  <1> QED BY <1>3, <1>4, <1>5

-----------------------------------------------------------------------------
(* The pointers as places of the file, which a refill does not change.  The       *)
(* current lexeme starts at Place, the scanner has seen what comes up to Done.       *)
Place == filePos - lim + tok + 1
Done == filePos - lim + cur
Mark == filePos - lim + mar

Modes == {"std", "num", "slash", "quote", "string", "c", "star", "line", "stopped", "failed"}

(* The strengthening of ScanIsReference.                                        *)
Scanning ==
  /\ Window
  /\ tokens \in Seq(Tokens) /\ mode \in Modes
  /\ (eof => filePos = Len(file)) /\ (~eof => lim = BUFSIZE)
  /\ Doing(file, mode, Place, Done, Mark)
  /\ IF Running THEN ToldUpTo(file, Place, tokens) ELSE ToldAll(file, tokens)

LEMMA Places ==
  ASSUME Window
  PROVE  /\ Len(file) \in Nat /\ Place \in 1..Len(file) + 1
         /\ Done \in Nat /\ Done <= Len(file) /\ Place <= Done + 1 /\ Mark \in Int
  BY DEF Window, Pointers, WindowOfFile, Place, Done, Mark

LEMMA ScanningInit == Init => Scanning
  <1> SUFFICES ASSUME Init PROVE Scanning
    OBVIOUS
  <1>1. Window
    BY WindowInit
  <1>2. BUFSIZE \in Nat
    BY FillAssumption DEF FillAssumption
  <1>3. /\ filePos = 0 /\ lim = BUFSIZE /\ cur = BUFSIZE /\ tok = BUFSIZE /\ eof = FALSE
        /\ mode = "std" /\ tokens = <<>>
    BY DEF Init, Input_Init
  <1>4. Place = 1 /\ Done = 0
    BY <1>2, <1>3 DEF Place, Done
  <1>5. Doing(file, mode, Place, Done, Mark)
    BY <1>3, <1>4 DEF Doing
  <1>6. ToldUpTo(file, 1, <<>>)
    BY <1>1, Places, ToldNothingYet
  <1>7. tokens \in Seq(Tokens)
    BY <1>3
  <1> QED BY <1>1, <1>3, <1>4, <1>5, <1>6, <1>7 DEF Scanning, Modes, Running

LEMMA FillKeepsScanning == ASSUME Scanning, CallFill PROVE Scanning'
  <1> DEFINE used == lim - tok
             n == ReadSize
  <1>1. Window /\ Window'
    BY FillKeepsWindow DEF Scanning
  <1>2. BUFSIZE \in Nat
    BY FillAssumption DEF FillAssumption
  <1>3. /\ filePos \in Nat /\ Len(file) \in Nat /\ filePos <= Len(file)
        /\ lim \in Nat /\ cur \in Nat /\ tok \in Nat /\ mar \in Int
        /\ tok <= cur /\ cur <= lim /\ lim <= BUFSIZE
    BY <1>1 DEF Window, Pointers
  <1>4. /\ used \in Nat /\ n \in Nat /\ n <= BUFSIZE - used /\ n <= Len(file) - filePos
        /\ n = Len(file) - filePos \/ n = BUFSIZE - used
    BY <1>2, <1>3 DEF ReadSize
  <1>5. /\ lim' = used + n /\ filePos' = filePos + n /\ eof' = (used + n < BUFSIZE)
        /\ cur' = cur - tok /\ mar' = mar - tok /\ tok' = 0
        /\ file' = file /\ mode' = mode /\ tokens' = tokens
    BY DEF CallFill, fill
  <1> HIDE DEF n
  <1>6. Place' = Place /\ Done' = Done /\ Mark' = Mark
    BY <1>3, <1>4, <1>5 DEF Place, Done, Mark
  <1>7. (eof' => filePos' = Len(file')) /\ (~eof' => lim' = BUFSIZE)
    <2>1. (eof' => used + n < BUFSIZE) /\ (~eof' => ~(used + n < BUFSIZE))
      BY <1>5, Zenon
    <2>2. used + n < BUFSIZE => filePos + n = Len(file)
      BY <1>2, <1>3, <1>4
    <2>3. ~(used + n < BUFSIZE) => used + n = BUFSIZE
      BY <1>2, <1>3, <1>4
    <2> HIDE DEF used
    <2> QED BY <1>5, <2>1, <2>2, <2>3
  <1>8. /\ tokens \in Seq(Tokens) /\ mode \in Modes
        /\ Doing(file, mode, Place, Done, Mark)
        /\ IF Running THEN ToldUpTo(file, Place, tokens) ELSE ToldAll(file, tokens)
    BY DEF Scanning
  <1>9. /\ Doing(file', mode', Place', Done', Mark')
        /\ IF mode' \notin {"stopped", "failed"} THEN ToldUpTo(file', Place', tokens')
                                                 ELSE ToldAll(file', tokens')
    BY <1>5, <1>6, <1>8 DEF Running
  <1>10. tokens' \in Seq(Tokens) /\ mode' \in Modes
    BY <1>5, <1>8
  <1> QED BY <1>1, <1>7, <1>9, <1>10 DEF Scanning, Running

(* What the scanner looks at is the next character of the file, and at the end    *)
(* of the input it has seen the whole file, when its lexemes fit.                      *)
LEMMA LookIsFile ==
  ASSUME Scanning, NEW ch, Look(ch)
  PROVE  Done < Len(file) /\ file[Done + 1] = ch
  <1>1. cur + 1 <= lim /\ buf[cur] = ch
    BY LookIsInside DEF Scanning
  <1>2. /\ filePos \in Nat /\ Len(file) \in Nat /\ filePos <= Len(file)
        /\ lim \in Nat /\ cur \in Nat /\ tok \in Nat /\ tok <= cur
        /\ \A k \in tok..lim - 1 : buf[k] = file[filePos - lim + k + 1]
    BY DEF Scanning, Window, Pointers, WindowOfFile
  <1>3. cur \in tok..lim - 1
    BY <1>1, <1>2
  <1>4. buf[cur] = file[filePos - lim + cur + 1]
    BY <1>2, <1>3
  <1>5. Done < Len(file)
    BY <1>1, <1>2 DEF Done
  <1> QED BY <1>1, <1>4, <1>5 DEF Done

LEMMA EndIsEnd ==
  ASSUME Scanning, End, Fits(file)
  PROVE  Done = Len(file)
  <1>1. BUFSIZE \in Nat \ {0}
    BY FillAssumption DEF FillAssumption
  <1>2. /\ filePos \in Nat /\ lim \in Nat /\ cur \in Nat /\ tok \in Nat
        /\ cur <= lim /\ tok <= cur
        /\ (eof => filePos = Len(file)) /\ (~eof => lim = BUFSIZE)
    BY DEF Scanning, Window, Pointers
  <1>3. lim <= cur /\ (eof \/ tok < 1) /\ Running
    BY DEF End, AtLimit, FillFails
  <1>4. CASE eof
    BY <1>2, <1>3, <1>4 DEF Done
  <1>5. CASE ~eof
    <2>1. tok = 0 /\ cur = BUFSIZE /\ Done = Place - 1 + BUFSIZE
      BY <1>1, <1>2, <1>3, <1>5 DEF Done, Place
    <2>2. /\ Len(file) \in Nat /\ Place \in 1..Len(file) + 1
          /\ Done \in Nat /\ Done <= Len(file) /\ Mark \in Int
      BY Places DEF Scanning
    <2>3. Scan(file)[Place].fits
      BY <1>3 DEF Scanning, ToldUpTo
    <2>4. Lexeme(file, Place).last - Place + 1 <= BUFSIZE
      BY <2>2, <2>3, FitsHere
    <2>5. Doing(file, mode, Place, Done, Mark) /\ mode \in Modes
      BY DEF Scanning
    <2>6. ASSUME Lexeme(file, Place).last \in Int
          PROVE  Lexeme(file, Place).last <= Done
      BY <1>1, <2>1, <2>2, <2>4, <2>6
    <2>7. CASE mode = "std"
      BY <1>1, <2>1, <2>2, <2>5, <2>7 DEF Doing
    <2>8. CASE mode = "num"
      BY <2>2, <2>5, <2>6, <2>8, NumberEnds
    <2>9. CASE mode = "slash"
      BY <2>2, <2>5, <2>6, <2>9, SlashEnds
    <2>10. CASE mode \in {"quote", "string"}
      BY <2>2, <2>5, <2>6, <2>10, StringEnds
    <2>11. CASE mode \in {"c", "star"}
      BY <2>2, <2>5, <2>6, <2>11, CommentEnds
    <2>12. CASE mode = "line"
      BY <2>2, <2>5, <2>6, <2>12, LineEnds
    <2> QED BY <1>3, <2>5, <2>7, <2>8, <2>9, <2>10, <2>11, <2>12 DEF Modes, Running
  <1> QED BY <1>4, <1>5

(* The two kinds of steps: further into a lexeme, and out of it.                *)
Still == UNCHANGED <<file, filePos, buf, lim, eof>>

LEMMA GoesOn ==
  ASSUME Scanning, Running, Window', Still, NEW next \in Modes \ {"stopped", "failed"}, Go(next),
         Doing(file, next, Place, Done', Mark')
  PROVE  Scanning'
  <1>1. /\ file' = file /\ filePos' = filePos /\ lim' = lim /\ eof' = eof
        /\ tok' = tok /\ tokens' = tokens /\ mode' = next
    BY DEF Still, Go
  <1>2. Place' = Place
    BY <1>1 DEF Place
  <1>3. tokens \in Seq(Tokens) /\ ToldUpTo(file, Place, tokens)
    BY DEF Scanning
  <1>4. (eof' => filePos' = Len(file')) /\ (~eof' => lim' = BUFSIZE)
    BY <1>1 DEF Scanning
  <1>5. ToldUpTo(file', Place', tokens') /\ Doing(file', mode', Place', Done', Mark')
    BY <1>1, <1>2, <1>3
  <1>6. Running' /\ mode' \in Modes /\ tokens' \in Seq(Tokens)
    BY <1>1, <1>3 DEF Running
  <1> QED BY <1>4, <1>5, <1>6 DEF Scanning

(* A token is told: the one the reference has here, when the file fits.         *)
Tells(t, p, next) ==
  /\ StartAt(t, p, next) /\ t \in Tokens \cup {"none"} /\ Still
  /\ \/ /\ next \in {"stopped", "failed"}
        /\ Fits(file) => Lexeme(file, Place).token = t /\ Lexeme(file, Place).next = 0
     \/ /\ next = "std" /\ cur' = p
        /\ Fits(file) => /\ Lexeme(file, Place).token = t
                         /\ Lexeme(file, Place).next = filePos - lim + p + 1

LEMMA GoesToNext ==
  ASSUME Scanning, Running, Window', NEW t, NEW p \in Nat, NEW next, Tells(t, p, next)
  PROVE  Scanning'
  <1> DEFINE x == Lexeme(file, Place)
             said == tokens \o SaidOf(t)
  <1>1. /\ Len(file) \in Nat /\ Place \in 1..Len(file) + 1
        /\ filePos \in Nat /\ lim \in Nat
    BY Places DEF Scanning, Window, Pointers
  <1>2. tokens \in Seq(Tokens) /\ ToldUpTo(file, Place, tokens)
    BY DEF Scanning
  <1>3. /\ file' = file /\ filePos' = filePos /\ lim' = lim /\ eof' = eof
        /\ tok' = p /\ mode' = next
    BY DEF Tells, Still, StartAt
  <1>4. SaidOf(t) \in Seq(Tokens) /\ tokens' = said
    <2>1. t \in Tokens \cup {"none"} /\ tokens' = IF t = "none" THEN tokens ELSE Append(tokens, t)
      BY DEF Tells, StartAt
    <2>2. CASE t = "none"
      BY <1>2, <2>1, <2>2 DEF SaidOf
    <2>3. CASE t # "none"
      BY <1>2, <2>1, <2>3 DEF SaidOf
    <2> QED BY <2>2, <2>3
  <1>5. said \in Seq(Tokens)
    <2> DEFINE a == SaidOf(t)
    <2>1. a \in Seq(Tokens)
      BY <1>4
    <2> HIDE DEF a
    <2>2. tokens \o a \in Seq(Tokens)
      BY <1>2, <2>1
    <2> QED BY <2>2 DEF a
  <1>6. (eof' => filePos' = Len(file')) /\ (~eof' => lim' = BUFSIZE)
    BY <1>3 DEF Scanning
  <1>7. Fits(file) => x.token = t
    BY DEF Tells
  <1> HIDE DEF said
  <1>8. /\ (Fits(file) /\ x.next = 0) => ToldAll(file, said)
        /\ (Fits(file) /\ x.next # 0) => ToldUpTo(file, x.next, said)
    BY <1>1, <1>2, <1>7, ToldOne DEF said
  <1>9. CASE next \in {"stopped", "failed"}
    <2>1. ToldAll(file, said)
      <3>1. Fits(file) => x.next = 0
        BY <1>9 DEF Tells
      <3> QED BY <1>8, <3>1 DEF ToldAll
    <2>2. ~Running' /\ mode' \in Modes
      BY <1>3, <1>9 DEF Running, Modes
    <2>3. Doing(file', mode', Place', Done', Mark')
      BY <1>3, <1>9 DEF Doing
    <2>4. ToldAll(file', tokens')
      BY <1>3, <1>4, <2>1
    <2>5. tokens' \in Seq(Tokens)
      BY <1>4, <1>5
    <2> QED BY <1>6, <2>2, <2>3, <2>4, <2>5 DEF Scanning
  <1>10. CASE next = "std" /\ cur' = p
    <2> DEFINE k == filePos - lim + p + 1
    <2>1. Place' = k /\ Done' = k - 1
      BY <1>1, <1>3, <1>10 DEF Place, Done
    <2>2. k >= 1
      <3>1. lim' \in Nat /\ tok' \in Nat /\ filePos' \in Nat /\ lim' - tok' <= filePos'
        BY DEF Window, Pointers, WindowOfFile
      <3>2. lim - p <= filePos
        BY <1>3, <3>1
      <3> QED BY <1>1, <3>2
    <2>3. ToldUpTo(file, k, said)
      <3>1. Fits(file) => x.next = k
        BY <1>10 DEF Tells
      <3>2. k # 0
        BY <2>2
      <3> HIDE DEF k, x
      <3>3. Fits(file) => ToldUpTo(file, k, said)
        BY <1>8, <3>1, <3>2
      <3> QED BY <3>3 DEF ToldUpTo
    <2>4. Running' /\ mode' \in Modes
      BY <1>3, <1>10 DEF Running, Modes
    <2>5. Doing(file', mode', Place', Done', Mark')
      <3>1. mode' = "std" /\ Done' = Place' - 1
        BY <1>3, <1>10, <2>1
      <3> QED BY <3>1 DEF Doing
    <2>6. ToldUpTo(file', Place', tokens')
      <3> HIDE DEF k
      <3> QED BY <1>3, <1>4, <2>1, <2>3
    <2>7. tokens' \in Seq(Tokens)
      BY <1>4, <1>5
    <2> QED BY <1>6, <2>4, <2>5, <2>6, <2>7 DEF Scanning
  <1> QED BY <1>9, <1>10 DEF Tells

(* What the moves of the scanner do to the places.                              *)
LEMMA Moving ==
  ASSUME Scanning
  PROVE  /\ Eat => Still /\ Done' = Done + 1 /\ Mark' = Mark
         /\ Stay => Still /\ Done' = Done /\ Mark' = Mark
         /\ (MoveTo(cur + 1) /\ mar' = cur + 1) => Still /\ Done' = Done + 1 /\ Mark' = Done + 1
         /\ (MoveTo(mar) /\ UNCHANGED mar) => Still /\ Done' = Mark /\ Mark' = Mark
         /\ filePos - lim + cur + 1 = Done + 1 /\ filePos - lim + mar + 1 = Mark + 1
         /\ filePos - lim + (cur + 1) + 1 = Done + 2
         /\ Eat => cur' = cur + 1
         /\ Stay => cur' = cur
         /\ MoveTo(mar) => cur' = mar
         /\ cur \in Nat /\ cur + 1 \in Nat
  <1>1. filePos \in Nat /\ lim \in Nat /\ cur \in Nat /\ mar \in Int
    BY DEF Scanning, Window, Pointers
  <1>2. ASSUME Eat PROVE Still /\ cur' = cur + 1 /\ mar' = mar
    BY <1>2 DEF Eat, MoveTo, Still
  <1>3. ASSUME Stay PROVE Still /\ cur' = cur /\ mar' = mar
    BY <1>3 DEF Stay, MoveTo, Still
  <1>4. ASSUME MoveTo(cur + 1) PROVE Still /\ cur' = cur + 1
    BY <1>4 DEF MoveTo, Still
  <1>5. ASSUME MoveTo(mar) PROVE Still /\ cur' = mar
    BY <1>5 DEF MoveTo, Still
  <1>6. Still => filePos' = filePos /\ lim' = lim
    BY DEF Still
  <1> QED BY <1>1, <1>2, <1>3, <1>4, <1>5, <1>6 DEF Done, Mark

LEMMA StdKeepsScanning == ASSUME Scanning, Std PROVE Scanning'
  <1> DEFINE x == Lexeme(file, Place)
  <1>1. /\ Len(file) \in Nat /\ Place \in Nat /\ Place \in 1..Len(file) + 1
        /\ Done = Place - 1 /\ Done \in Nat /\ Mark \in Int
    BY Places DEF Scanning, Std, Doing
  <1>2. Window' /\ Running
    BY ScannerKeepsWindow DEF Scanning, Scanner_Scan, Std, Running
  <1>3. ASSUME NEW ch, Look(ch) PROVE At(file, Place, ch)
    BY <1>1, <1>3, LookIsFile DEF At
  <1>4. CASE Look("d") /\ Eat /\ Go("num")
    <2>1. Still /\ Done' = Done + 1 /\ At(file, Place, "d")
      BY <1>3, <1>4, Moving
    <2>2. Doing(file, "num", Place, Done', Mark')
      BY <1>1, <2>1 DEF Doing, At
    <2> QED BY <1>2, <1>4, <2>1, <2>2, GoesOn DEF Modes
  <1>5. CASE Look("/") /\ Eat /\ Go("slash")
    <2>1. Still /\ Done' = Done + 1 /\ At(file, Place, "/")
      BY <1>3, <1>5, Moving
    <2>2. Doing(file, "slash", Place, Done', Mark')
      BY <1>1, <2>1 DEF Doing, At
    <2> QED BY <1>2, <1>5, <2>1, <2>2, GoesOn DEF Modes
  <1>6. CASE Look("q") /\ MoveTo(cur + 1) /\ mar' = cur + 1 /\ Go("quote")
    <2>1. Still /\ Done' = Done + 1 /\ Mark' = Done + 1 /\ At(file, Place, "q")
      BY <1>3, <1>6, Moving
    <2>2. Doing(file, "quote", Place, Done', Mark')
      BY <1>1, <2>1 DEF Doing, At
    <2> QED BY <1>2, <1>6, <2>1, <2>2, GoesOn DEF Modes
  <1>7. CASE Look("\n") /\ Eat /\ StartAt("EOL", cur + 1, "std")
    <2>1. Still /\ cur' = cur + 1 /\ cur + 1 \in Nat /\ filePos - lim + (cur + 1) + 1 = Place + 1
      BY <1>1, <1>7, Moving
    <2>2. x = Told("EOL", Place + 1, Place)
      BY <1>1, <1>3, <1>7, LexemeKinds
    <2>3. Tells("EOL", cur + 1, "std")
      BY <1>7, <2>1, <2>2 DEF Tells, Told, Tokens
    <2> QED BY <1>2, <2>1, <2>3, GoesToNext
  <1>8. CASE Look("*") /\ Eat /\ StartAt("UNKNOWN", cur + 1, "stopped")
    <2>1. Still /\ cur + 1 \in Nat
      BY <1>8, Moving
    <2>2. x = Told("UNKNOWN", 0, Place)
      BY <1>1, <1>3, <1>8, LexemeKinds
    <2>3. Tells("UNKNOWN", cur + 1, "stopped")
      BY <1>8, <2>1, <2>2 DEF Tells, Told, Tokens
    <2> QED BY <1>2, <2>1, <2>3, GoesToNext
  <1>9. CASE Look(NUL) /\ Eat /\ StartAt("EOF", cur + 1, "stopped")
    <2>1. Still /\ cur + 1 \in Nat
      BY <1>9, Moving
    <2>2. x = Told("EOF", 0, Place)
      BY <1>1, <1>3, <1>9, LexemeKinds
    <2>3. Tells("EOF", cur + 1, "stopped")
      BY <1>9, <2>1, <2>2 DEF Tells, Told, Tokens
    <2> QED BY <1>2, <2>1, <2>3, GoesToNext
  <1>10. CASE End /\ Stay /\ StartAt("EOF", cur, "stopped")
    <2>1. Still /\ cur \in Nat
      BY <1>10, Moving
    <2>2. ASSUME Fits(file) PROVE x = Told("EOF", 0, Len(file))
      <3>1. Place > Len(file)
        BY <1>1, <1>10, <2>2, EndIsEnd
      <3> QED BY <1>1, <3>1, LexemeKinds
    <2>3. Tells("EOF", cur, "stopped")
      BY <1>10, <2>1, <2>2 DEF Tells, Told, Tokens
    <2> QED BY <1>2, <2>1, <2>3, GoesToNext
  <1> QED BY <1>4, <1>5, <1>6, <1>7, <1>8, <1>9, <1>10 DEF Std

LEMMA NumberKeepsScanning == ASSUME Scanning, Number PROVE Scanning'
  <1> DEFINE x == Lexeme(file, Place)
  <1>1. /\ Len(file) \in Nat /\ Place \in 1..Len(file) + 1
        /\ Done \in Nat /\ Done <= Len(file) /\ Mark \in Int
    BY Places DEF Scanning
  <1>2. Window' /\ Running /\ Doing(file, "num", Place, Done, Mark)
    BY ScannerKeepsWindow DEF Scanning, Scanner_Scan, Number, Running
  <1>3. CASE Look("d") /\ Eat /\ Go("num")
    <2>1. Still /\ Done' = Done + 1 /\ file[Done + 1] = "d"
      BY <1>3, Moving, LookIsFile
    <2>2. Doing(file, "num", Place, Done', Mark')
      BY <1>1, <1>2, <2>1 DEF Doing
    <2> QED BY <1>2, <1>3, <2>1, <2>2, GoesOn DEF Modes
  <1>4. CASE /\ End \/ \E ch \in Char \ {"d"} : Look(ch)
             /\ Stay /\ StartAt("NUMBER", cur, "std")
    <2>1. Still /\ cur' = cur /\ cur \in Nat /\ filePos - lim + cur + 1 = Done + 1
      BY <1>4, Moving
    <2>2. ASSUME Fits(file) PROVE x.token = "NUMBER" /\ x.next = Done + 1
      <3>1. CASE End
        <4>1. Done = Len(file)
          BY <2>2, <3>1, EndIsEnd
        <4> QED BY <1>1, <1>2, <4>1, NumberEnds DEF Told
      <3>2. CASE \E ch \in Char \ {"d"} : Look(ch)
        <4>1. Done < Len(file) /\ file[Done + 1] # "d"
          BY <3>2, LookIsFile
        <4> QED BY <1>1, <1>2, <4>1, NumberEnds DEF Told
      <3> QED BY <1>4, <3>1, <3>2
    <2>3. Tells("NUMBER", cur, "std")
      BY <1>4, <2>1, <2>2 DEF Tells, Tokens
    <2> QED BY <1>2, <2>1, <2>3, GoesToNext
  <1> QED BY <1>3, <1>4 DEF Number

LEMMA SlashKeepsScanning == ASSUME Scanning, Slash PROVE Scanning'
  <1> DEFINE x == Lexeme(file, Place)
  <1>1. /\ Len(file) \in Nat /\ Place \in 1..Len(file) + 1
        /\ Done \in Nat /\ Done <= Len(file) /\ Mark \in Int
    BY Places DEF Scanning
  <1>2. Window' /\ Running /\ Doing(file, "slash", Place, Done, Mark)
    BY ScannerKeepsWindow DEF Scanning, Scanner_Scan, Slash, Running
  <1>3. CASE Look("*") /\ Eat /\ Go("c")
    <2>1. Still /\ Done' = Done + 1 /\ file[Done + 1] = "*"
      BY <1>3, Moving, LookIsFile
    <2>2. Doing(file, "c", Place, Done', Mark')
      BY <1>1, <1>2, <2>1 DEF Doing
    <2> QED BY <1>2, <1>3, <2>1, <2>2, GoesOn DEF Modes
  <1>4. CASE Look("/") /\ Eat /\ Go("line")
    <2>1. Still /\ Done' = Done + 1 /\ file[Done + 1] = "/"
      BY <1>4, Moving, LookIsFile
    <2>2. Doing(file, "line", Place, Done', Mark')
      BY <1>1, <1>2, <2>1 DEF Doing
    <2> QED BY <1>2, <1>4, <2>1, <2>2, GoesOn DEF Modes
  <1>5. CASE /\ End \/ \E ch \in Char \ {"*", "/"} : Look(ch)
             /\ Stay /\ StartAt("UNKNOWN", cur, "stopped")
    <2>1. Still /\ cur \in Nat
      BY <1>5, Moving
    <2>2. ASSUME Fits(file) PROVE x.token = "UNKNOWN" /\ x.next = 0
      <3>1. Done = Len(file) \/ file[Done + 1] \notin {"*", "/"}
        BY <1>5, <2>2, EndIsEnd, LookIsFile
      <3> QED BY <1>1, <1>2, <3>1, SlashEnds DEF Told
    <2>3. Tells("UNKNOWN", cur, "stopped")
      BY <1>5, <2>1, <2>2 DEF Tells, Tokens
    <2> QED BY <1>2, <2>1, <2>3, GoesToNext
  <1> QED BY <1>3, <1>4, <1>5 DEF Slash

LEMMA StringKeepsScanning == ASSUME Scanning, String PROVE Scanning'
  <1> DEFINE x == Lexeme(file, Place)
  <1>1. /\ Len(file) \in Nat /\ Place \in 1..Len(file) + 1
        /\ Done \in Nat /\ Done <= Len(file) /\ Mark \in Int
    BY Places DEF Scanning
  <1>2. /\ Window' /\ Running /\ mode \in {"quote", "string"}
        /\ Doing(file, mode, Place, Done, Mark)
    BY ScannerKeepsWindow DEF Scanning, Scanner_Scan, String, Running
  <1>3. CASE Look("q") /\ MoveTo(cur + 1) /\ mar' = cur + 1 /\ Go("string")
    <2>1. Still /\ Done' = Done + 1 /\ Mark' = Done + 1 /\ file[Done + 1] = "q"
      BY <1>3, Moving, LookIsFile
    <2>2. Doing(file, "string", Place, Done', Mark')
      BY <1>1, <1>2, <2>1 DEF Doing
    <2> QED BY <1>2, <1>3, <2>1, <2>2, GoesOn DEF Modes
  <1>4. CASE (\E ch \in Char \ {"q"} : Look(ch)) /\ Eat /\ Go(mode)
    <2>1. Still /\ Done' = Done + 1 /\ Mark' = Mark /\ file[Done + 1] # "q"
      BY <1>4, Moving, LookIsFile
    <2>2. Doing(file, mode, Place, Done', Mark')
      BY <1>1, <1>2, <2>1 DEF Doing
    <2>3. mode \in Modes \ {"stopped", "failed"}
      BY <1>2 DEF Modes
    <2> QED BY <1>2, <1>4, <2>1, <2>2, <2>3, GoesOn
  <1>5. CASE /\ End /\ MoveTo(mar) /\ UNCHANGED mar
             /\ IF mode = "string" THEN StartAt("STRING", mar, "std")
                                   ELSE StartAt("UNKNOWN", mar, "stopped")
    <2>1. Still /\ cur' = mar /\ filePos - lim + mar + 1 = Mark + 1
      BY <1>5, Moving
    <2>2. mar \in Nat
      BY <1>2, Ordered DEF Scanning
    <2>3. Fits(file) => Done = Len(file)
      BY <1>5, EndIsEnd
    <2>4. CASE mode = "string"
      <3>1. Fits(file) => x.token = "STRING" /\ x.next = Mark + 1
        BY <1>1, <1>2, <2>3, <2>4, StringEnds DEF Told
      <3>2. Tells("STRING", mar, "std")
        BY <1>5, <2>1, <2>4, <3>1 DEF Tells, Tokens
      <3> QED BY <1>2, <2>2, <3>2, GoesToNext
    <2>5. CASE mode = "quote"
      <3>1. Fits(file) => x.token = "UNKNOWN" /\ x.next = 0
        BY <1>1, <1>2, <2>3, <2>5, StringEnds DEF Told
      <3>2. Tells("UNKNOWN", mar, "stopped")
        BY <1>5, <2>1, <2>5, <3>1 DEF Tells, Tokens
      <3> QED BY <1>2, <2>2, <3>2, GoesToNext
    <2> QED BY <1>2, <2>4, <2>5
  <1> QED BY <1>3, <1>4, <1>5 DEF String

LEMMA CommentCKeepsScanning == ASSUME Scanning, CommentC PROVE Scanning'
  <1> DEFINE x == Lexeme(file, Place)
  <1>1. /\ Len(file) \in Nat /\ Place \in 1..Len(file) + 1
        /\ Done \in Nat /\ Done <= Len(file) /\ Mark \in Int
    BY Places DEF Scanning
  <1>2. /\ Window' /\ Running /\ mode \in {"c", "star"}
        /\ Doing(file, mode, Place, Done, Mark)
    BY ScannerKeepsWindow DEF Scanning, Scanner_Scan, CommentC, Running
  <1>3. CASE mode = "star" /\ Look("/") /\ Eat /\ StartAt("none", cur + 1, "std")
    <2>1. Still /\ cur' = cur + 1 /\ cur + 1 \in Nat /\ filePos - lim + (cur + 1) + 1 = Done + 2
      BY <1>3, Moving
    <2>2. x = Told("none", Done + 2, Done + 1)
      <3>1. Done < Len(file) /\ file[Done + 1] = "/"
        BY <1>3, LookIsFile
      <3> QED BY <1>1, <1>2, <1>3, <3>1, CommentEnds
    <2>3. Tells("none", cur + 1, "std")
      BY <1>3, <2>1, <2>2 DEF Tells, Told
    <2> QED BY <1>2, <2>1, <2>3, GoesToNext
  <1>4. ASSUME NEW ch, Look(ch), Eat, NEW next \in {"c", "star"}, Go(next),
               ch = "*" <=> next = "star", ch # NUL, mode = "star" => ch # "/"
        PROVE  Scanning'
    <2>1. Still /\ Done' = Done + 1 /\ Done < Len(file) /\ file[Done + 1] = ch
      BY <1>4, Moving, LookIsFile
    <2>2. /\ Done > Place /\ file[Place] = "/" /\ file[Place + 1] = "*"
          /\ \A j \in Place + 2..Done : j \notin Closes(file, Place)
          /\ (mode = "c" /\ Done > Place + 1) => file[Done] # "*"
      BY <1>2 DEF Doing
    <2>3. Done + 1 \notin Closes(file, Place)
      <3>1. ASSUME Done + 1 > Place + 2, file[Done + 1] = "/" PROVE file[Done] # "*"
        <4>1. mode = "c" /\ Done > Place + 1
          BY <1>1, <1>2, <1>4, <2>1, <3>1
        <4> QED BY <2>2, <4>1
      <3> DEFINE b == Done + 1
      <3>2. b - 1 = Done
        BY <1>1
      <3>3. /\ (b > Place + 2 /\ file[b] = "/") => file[b - 1] # "*"
            /\ file[b] # NUL
        BY <1>4, <2>1, <3>1, <3>2
      <3> HIDE DEF b
      <3>4. b \notin Closes(file, Place)
        BY <3>3 DEF Closes
      <3> QED BY <3>4 DEF b
    <2>4. \A j \in Place + 2..Done' : j \notin Closes(file, Place)
      <3>1. \A j \in Place + 2..Done + 1 : j \in Place + 2..Done \/ j = Done + 1
        BY <1>1
      <3> QED BY <2>1, <2>2, <2>3, <3>1
    <2>5. Doing(file, next, Place, Done', Mark')
      <3>1. Done + 1 > Place + 1
        BY <1>1, <2>2
      <3>2. Done' > Place /\ Done' > Place + 1
        BY <1>1, <2>1, <3>1
      <3>3. file[Done'] = "*" <=> next = "star"
        BY <1>4, <2>1
      <3> HIDE DEF Place, Done
      <3> QED BY <1>4, <2>2, <2>4, <3>2, <3>3 DEF Doing
    <2>6. next \in Modes \ {"stopped", "failed"}
      BY <1>4 DEF Modes
    <2> QED BY <1>2, <1>4, <2>1, <2>5, <2>6, GoesOn
  <1>5. CASE Look("*") /\ Eat /\ Go("star")
    BY <1>4, <1>5 DEF NUL
  <1>6. CASE (\E ch \in Char \ {"*", "/", NUL} : Look(ch)) /\ Eat /\ Go("c")
    <2>1. PICK ch \in Char \ {"*", "/", NUL} : Look(ch)
      BY <1>6
    <2>2. ch # "*" /\ ch # "/" /\ ch # NUL /\ "c" # "star"
      BY <2>1
    <2> QED BY <1>4, <1>6, <2>1, <2>2
  <1>7. CASE mode = "c" /\ Look("/") /\ Eat /\ Go("c")
    BY <1>4, <1>7 DEF NUL
  <1>8. CASE (End \/ Look(NUL)) /\ Stay /\ StartAt("UNTERMINATED", tok, "failed")
    <2>1. Still /\ tok \in Nat
      BY <1>8, Moving, Ordered DEF Scanning
    <2>2. ASSUME Fits(file) PROVE x.token = "UNTERMINATED" /\ x.next = 0
      <3>1. CASE End
        <4>1. Done = Len(file)
          BY <2>2, <3>1, EndIsEnd
        <4> QED BY <1>1, <1>2, <4>1, CommentEnds DEF Told
      <3>2. CASE Look(NUL)
        <4>1. Done < Len(file) /\ file[Done + 1] = NUL
          BY <3>2, LookIsFile
        <4> QED BY <1>1, <1>2, <4>1, CommentEnds DEF Told
      <3> QED BY <1>8, <3>1, <3>2
    <2>3. Tells("UNTERMINATED", tok, "failed")
      BY <1>8, <2>1, <2>2 DEF Tells, Tokens
    <2> QED BY <1>2, <2>1, <2>3, GoesToNext
  <1> QED BY <1>3, <1>5, <1>6, <1>7, <1>8 DEF CommentC

LEMMA CommentLineKeepsScanning == ASSUME Scanning, CommentLine PROVE Scanning'
  <1> DEFINE x == Lexeme(file, Place)
  <1>1. /\ Len(file) \in Nat /\ Place \in 1..Len(file) + 1
        /\ Done \in Nat /\ Done <= Len(file) /\ Mark \in Int
    BY Places DEF Scanning
  <1>2. Window' /\ Running /\ Doing(file, "line", Place, Done, Mark)
    BY ScannerKeepsWindow DEF Scanning, Scanner_Scan, CommentLine, Running
  <1>3. ASSUME NEW ch, Look(ch) PROVE Done < Len(file) /\ file[Done + 1] = ch
    BY <1>3, LookIsFile
  <1>4. ASSUME Eat PROVE /\ Still /\ cur' = cur + 1 /\ cur + 1 \in Nat /\ Done' = Done + 1
                         /\ filePos - lim + (cur + 1) + 1 = Done + 2
    BY <1>4, Moving
  <1>5. CASE Look("\n") /\ Eat /\ StartAt("EOL", cur + 1, "std")
    <2>1. x = Told("EOL", Done + 2, Done + 1)
      BY <1>1, <1>2, <1>3, <1>5, LineEnds
    <2>2. Tells("EOL", cur + 1, "std")
      BY <1>4, <1>5, <2>1 DEF Tells, Told, Tokens
    <2> QED BY <1>2, <1>4, <1>5, <2>2, GoesToNext
  <1>6. CASE Look(NUL) /\ Eat /\ StartAt("none", cur + 1, "std")
    <2>1. x = Told("none", Done + 2, Done + 1)
      BY <1>1, <1>2, <1>3, <1>6, LineEnds
    <2>2. Tells("none", cur + 1, "std")
      BY <1>4, <1>6, <2>1 DEF Tells, Told
    <2> QED BY <1>2, <1>4, <1>6, <2>2, GoesToNext
  <1>7. CASE (\E ch \in Char \ {"\n", NUL} : Look(ch)) /\ Eat /\ Go("line")
    <2>1. file[Done + 1] \notin {"\n", NUL} /\ Still /\ Done' = Done + 1
      BY <1>3, <1>4, <1>7
    <2>2. Doing(file, "line", Place, Done', Mark')
      BY <1>1, <1>2, <2>1 DEF Doing, Eols
    <2> QED BY <1>2, <1>7, <2>1, <2>2, GoesOn DEF Modes
  <1>8. CASE End /\ Stay /\ StartAt("UNTERMINATED", tok, "failed")
    <2>1. Still /\ tok \in Nat
      BY <1>8, Moving, Ordered DEF Scanning
    <2>2. ASSUME Fits(file) PROVE x.token = "UNTERMINATED" /\ x.next = 0
      <3>1. Done = Len(file)
        BY <1>8, <2>2, EndIsEnd
      <3> QED BY <1>1, <1>2, <3>1, LineEnds DEF Told
    <2>3. Tells("UNTERMINATED", tok, "failed")
      BY <1>8, <2>1, <2>2 DEF Tells, Tokens
    <2> QED BY <1>2, <2>1, <2>3, GoesToNext
  <1> QED BY <1>5, <1>6, <1>7, <1>8 DEF CommentLine

LEMMA ScanningNext == Scanning /\ [Next]_vars => Scanning'
  <1>1. ASSUME Scanning, UNCHANGED vars PROVE Scanning'
    <2>1. /\ file' = file /\ filePos' = filePos /\ buf' = buf /\ lim' = lim /\ cur' = cur
          /\ tok' = tok /\ mar' = mar /\ eof' = eof /\ mode' = mode /\ tokens' = tokens
      BY <1>1 DEF vars
    <2>2. Window'
      BY <1>1, WindowNext DEF Scanning
    <2>3. Place' = Place /\ Done' = Done /\ Mark' = Mark /\ (Running' <=> Running)
      BY <2>1 DEF Place, Done, Mark, Running
    <2> QED BY <1>1, <2>1, <2>2, <2>3 DEF Scanning
  <1> QED BY <1>1, FillKeepsScanning, StdKeepsScanning, NumberKeepsScanning, SlashKeepsScanning,
             StringKeepsScanning, CommentCKeepsScanning, CommentLineKeepsScanning
          DEF Next, Scanner_Scan

(* A file whose lexemes fit the buffer is scanned as if the buffer held all of it,  *)
(* for any size of the buffer and any file: the tokens reported so far begin what the  *)
(* whole file says, and when the scanner stops they are all of it, wherever fill        *)
(* was called and however far a string was read ahead.                                     *)
THEOREM RefillsDoNotShow == Spec => []ScanIsReference
  <1>1. Scanning => ScanIsReference
    <2> SUFFICES ASSUME Scanning, Fits(file)
                 PROVE  IF Running THEN IsPrefix(tokens, Reference(file))
                                   ELSE tokens = Reference(file)
      BY DEF ScanIsReference
    <2>1. CASE ~Running
      BY <2>1 DEF Scanning, ToldAll
    <2>2. CASE Running
      <3> DEFINE rest == Scan(file)[Place].said
      <3>1. tokens \in Seq(Tokens) /\ Reference(file) = tokens \o rest
        BY <2>2 DEF Scanning, ToldUpTo
      <3>2. rest \in Seq(Tokens)
        BY Places, ScanType DEF Scanning
      <3> HIDE DEF rest
      <3>3. IsPrefix(tokens, tokens \o rest)
        BY <3>1, <3>2 DEF IsPrefix
      <3> QED BY <2>2, <3>1, <3>3
    <2> QED BY <2>1, <2>2
  <1> QED BY <1>1, ScanningInit, ScanningNext, PTL DEF Spec

=============================================================================
