--------------------------- MODULE MCLemonParser ---------------------------
(***************************************************************************)
(* The parsers of calc and of the tokenizer, with the tables that the      *)
(* model of lemon makes of their grammars, on every short token sequence   *)
(* over a few alphabets.  What the parsers should do is said a second time *)
(* and without tables: which token may come next, what an expression is    *)
(* worth, how much of the input a parser has to keep on its stack.         *)
(***************************************************************************)
EXTENDS LemonParser, LemonTables

\* An alphabet, how many of its tokens a sequence has, how many tokens may be
\* thrown away before the input ends, and the values of NUM.  scanner.re never
\* reads an integer 0; NUM is 0 in one alphabet so that a divisor of 0, which
\* takes 2-2 to write, comes up in sequences this short.
Alphabets ==
    {[lang |-> "calc", tokens |-> {NUM, PLUS, MINUS, TIMES, EXP, NEWLINE}, len |-> 6, bad |-> 2,
      nums |-> {2}],
     [lang |-> "calc", tokens |-> {NUM, EXP, NEWLINE}, len |-> 8, bad |-> 2, nums |-> {2}],
     [lang |-> "calc", tokens |-> {NUM, DIVIDE, MOD, LRB, RRB, NEWLINE}, len |-> 8, bad |-> 1,
      nums |-> {0}],
     [lang |-> "calc", tokens |-> {NUM, MINUS, DIVIDE, MOD, LRB, RRB, NEWLINE}, len |-> 5, bad |-> 2,
      nums |-> {2, 5}],
     [lang |-> "json", tokens |-> {O_BEGIN, O_END, A_BEGIN, A_END, COMMA, COLON, STRING_, NUMBER},
      len |-> 8, bad |-> 2, nums |-> {1}]}

MCGrammars == [calc |-> CalcGrammar, json |-> JsonGrammar]
CalcTables == ReportTable(CalcGrammar)
JsonTables == ReportTable(JsonGrammar)
MCTables == [calc |-> CalcTables, json |-> JsonTables]

\* alphabet is the one of this run; fed and kept are the tokens given to the
\* parser and those it has shifted, since it started or last overflowed;
\* firstBad is the place in fed of the first token thrown away, 0 if none was;
\* lost counts all the tokens thrown away.
VARIABLES alphabet, fed, kept, firstBad, lost
mcvars == <<vars, alphabet, fed, kept, firstBad, lost>>

MCInit ==
    /\ Init
    /\ alphabet \in {a \in Alphabets : a.lang = lang}
    /\ fed = <<>> /\ kept = <<>> /\ firstBad = 0 /\ lost = 0

Given(t) == fed' = Append(fed, t) /\ UNCHANGED <<alphabet, kept, firstBad, lost>>

MCToken ==
    /\ Len(fed) < alphabet.len /\ lost < alphabet.bad
    /\ \E t \in alphabet.tokens :
         /\ \E minor \in (IF t = NUM THEN {<<n>> : n \in alphabet.nums} ELSE {<<>>}) : Token(t, minor)
         /\ Given(t)

MCEndOfInput ==
    /\ EndOfInput
    /\ IF sendsEnd THEN Given(END) ELSE UNCHANGED <<alphabet, fed, kept, firstBad, lost>>

Thrown == call' = NoCall /\ ~Reducing /\ ~Shifting /\ ~Accepting

MCTurn ==
    /\ Turn
    /\ UNCHANGED alphabet
    /\ IF NoRoom
         THEN fed' = <<>> /\ kept' = <<>> /\ firstBad' = 0 /\ lost' = lost + 1
         ELSE /\ kept' = IF Shifting THEN Append(kept, call) ELSE kept
              /\ firstBad' = IF Thrown /\ firstBad = 0 THEN Len(fed) ELSE firstBad
              /\ lost' = IF Thrown THEN lost + 1 ELSE lost
              /\ UNCHANGED fed

MCNext == MCToken \/ MCEndOfInput \/ MCTurn

MCSpec == MCInit /\ [][MCNext]_mcvars /\ WF_mcvars(MCTurn)

-----------------------------------------------------------------------------
(* Which token may come next                                               *)

\* In a line of the calculator: how many brackets are open, and whether an
\* operand comes next; a blank line is no line.
CalcStart == [open |-> 0, operand |-> TRUE, empty |-> TRUE]
CalcMay(s, t) ==
    CASE t \in {NUM, LRB} -> s.operand
      [] t = RRB -> ~s.operand /\ s.open > 0
      [] t = NEWLINE -> ~s.operand /\ s.open = 0
      [] t = END -> s.empty
      [] OTHER -> ~s.operand
CalcAfter(s, t) ==
    IF t \in {NEWLINE, END} THEN CalcStart
    ELSE [empty |-> FALSE, operand |-> t \notin {NUM, RRB},
          open |-> s.open + (IF t = LRB THEN 1 ELSE IF t = RRB THEN -1 ELSE 0)]

\* In a JSON text: the brackets that are open, and the tokens that may come.
Scalars == {STRING_, NUMBER, TRUE_, FALSE_, NULL_}
Values == Scalars \cup {O_BEGIN, A_BEGIN}
JsonStart == [open |-> <<>>, want |-> {O_BEGIN, A_BEGIN}]
Innermost(open) == open[Len(open)]
ValueDone(open) ==
    [open |-> open,
     want |-> CASE open = <<>> -> {END}
                [] open # <<>> /\ Innermost(open) = O_BEGIN -> {COMMA, O_END}
                [] OTHER -> {COMMA, A_END}]
JsonAfter(s, t) ==
    CASE t = O_BEGIN -> [open |-> Append(s.open, t), want |-> {STRING_, O_END}]
      [] t = A_BEGIN -> [open |-> Append(s.open, t), want |-> Values \cup {A_END}]
      [] t \in {O_END, A_END} -> ValueDone(SubSeq(s.open, 1, Len(s.open) - 1))
      [] t = COLON -> [s EXCEPT !.want = Values]
      [] t = COMMA -> [s EXCEPT !.want = IF Innermost(s.open) = O_BEGIN THEN {STRING_} ELSE Values]
      [] t = STRING_ /\ NUMBER \notin s.want -> [s EXCEPT !.want = {COLON}]
      [] t = END -> [s EXCEPT !.want = {}]
      [] OTHER -> ValueDone(s.open)

May(s, t) == IF lang = "calc" THEN CalcMay(s, t) ELSE t \in s.want
After(s, t) == IF lang = "calc" THEN CalcAfter(s, t) ELSE JsonAfter(s, t)

RECURSIVE Viable(_, _)
Viable(s, tokens) ==
    tokens = <<>> \/ (May(s, Head(tokens)) /\ Viable(After(s, Head(tokens)), Tail(tokens)))

\* The tokens begin a text of the language; with END they are one.
CanBegin(tokens) == Viable(IF lang = "calc" THEN CalcStart ELSE JsonStart, tokens)

-----------------------------------------------------------------------------
(* What an expression is worth                                             *)

Majors(toks) == [i \in DOMAIN toks |-> toks[i].major]
Level(op) == IF op = EXP THEN 3 ELSE IF op \in {PLUS, MINUS} THEN 1 ELSE 2
Depth(toks, i) == Cardinality({j \in 1..i : toks[j].major = LRB})
                  - Cardinality({j \in 1..i : toks[j].major = RRB})

\* The operator applied last: the last of the weakest outside brackets, or the
\* first of them if they are EXP; 0 if there is none.
LastApplied(toks) ==
    LET outside == {i \in DOMAIN toks : toks[i].major \in Operators /\ Depth(toks, i) = 0}
        weakest == {i \in outside : \A j \in outside :
                      Level(toks[i].major) <= Level(toks[j].major)}
    IN  CASE outside = {} -> 0
          [] outside # {} /\ toks[Min(weakest)].major = EXP -> Min(weakest)
          [] OTHER -> Max(weakest)

RECURSIVE Worth(_)
Worth(toks) ==
    LET i == LastApplied(toks)
    IN  CASE Len(toks) = 1 -> toks[1].minor
          [] i = 0 /\ Len(toks) # 1 -> Worth(SubSeq(toks, 2, Len(toks) - 1))
          [] OTHER -> Applied(toks[i].major, Worth(SubSeq(toks, 1, i - 1)),
                              Worth(SubSeq(toks, i + 1, Len(toks))))

\* The tokens of the line that has begun.
ThisLine(toks) ==
    SubSeq(toks, 1 + Max({0} \cup {i \in DOMAIN toks : toks[i].major = NEWLINE}), Len(toks))

-----------------------------------------------------------------------------
(* How much of the input has to be on the stack: what no operator or       *)
(* bracket has completed yet, an operand or value that is complete being X *)

X == -1
Top(p, k) == p[Len(p) - k]
Folded(p, n) == Append(SubSeq(p, 1, Len(p) - n), X)

\* An operator that binds more tightly than level, or equally and to the left,
\* is done with.
RECURSIVE Done(_, _)
Done(p, level) ==
    IF /\ Len(p) >= 3 /\ Top(p, 0) = X /\ Top(p, 1) \in Operators
       /\ \/ Level(Top(p, 1)) > level
          \/ Level(Top(p, 1)) = level /\ level < 3
      THEN Done(Folded(p, 3), level)
      ELSE p

\* A bracket is an operand once a token follows it.
CalcPush(p, t) ==
    LET q == IF p # <<>> /\ Top(p, 0) = RRB THEN Folded(p, 3) ELSE p
    IN  CASE t = NUM -> Append(q, X)
          [] t = LRB -> Append(q, t)
          [] t \in {RRB, NEWLINE} -> Append(Done(q, 0), t)
          [] OTHER -> Append(Done(q, Level(t)), t)

\* Of a list nothing is done with before its bracket closes; of a pair, its
\* value completes it.
JsonBase(p) == Max({i \in DOMAIN p : p[i] \in {O_BEGIN, A_BEGIN}})
JsonPush(p, t) ==
    LET q == IF p # <<>> /\ Top(p, 0) \in {O_END, A_END} THEN Folded(p, Len(p) - JsonBase(p) + 1)
             ELSE p
    IN  CASE t \in Scalars -> Append(q, X)
          [] t = COMMA -> Append(IF Top(q, 1) = COLON THEN Folded(q, 3) ELSE q, t)
          [] t \in {O_END, A_END} ->
               Append(IF JsonBase(q) = Len(q) THEN q ELSE Folded(q, Len(q) - JsonBase(q)), t)
          [] OTHER -> Append(q, t)

RECURSIVE Pending(_, _)
Pending(p, tokens) ==
    IF tokens = <<>> THEN p
    ELSE Pending(IF lang = "calc" THEN CalcPush(p, Head(tokens)) ELSE JsonPush(p, Head(tokens)),
                 Tail(tokens))

\* The entries in use when the last of the tokens has been shifted: the bottom
\* one, in the calculator one for the lines before, and what is pending.
Needed(tokens) ==
    LET ends == {i \in 1..Len(tokens) - 1 : lang = "calc" /\ tokens[i] = NEWLINE}
        line == SubSeq(tokens, 1 + Max({0} \cup ends), Len(tokens))
    IN  Len(Pending(<<>>, line)) + (IF lang = "calc" THEN 2 ELSE 1)

-----------------------------------------------------------------------------
(* Properties                                                              *)

\* The first token thrown away is the first one that cannot follow those
\* before it: packing the tables, default reductions and the removal of unit
\* rules delay no error past its token and invent none (lempar.c:1031), also
\* where the error ends the program, as it does in the tokenizer's example.
FirstErrorAtFirstBadToken ==
    (call = NoCall /\ (alive \/ ExitsOnError)) =>
        IF firstBad = 0 THEN CanBegin(fed)
        ELSE /\ CanBegin(SubSeq(fed, 1, firstBad - 1))
             /\ ~CanBegin(SubSeq(fed, 1, firstBad))

\* What the calculator prints is the value of the tokens it has kept of the
\* line, with the precedences and associativities of the grammar (parser.y,
\* 42-44), also when other tokens of the line were thrown away.
ResultIsWorth ==
    [][(Len(said') > Len(said) /\ said'[Len(said')].what = "result")
         => said'[Len(said')].value = Worth(ThisLine(kept))]_mcvars

\* The stack overflows exactly when the tokens that nothing has completed yet
\* need, with the next one, more than its entries: in a JSON list that is its
\* length and not only its depth (tokenizer/parser/parser.y, 65 and 73).
OverflowExactlyWhenNeeded ==
    [][(call # NoCall /\ call' = NoCall /\ (NoRoom \/ Shifting)) =>
         LET need == Needed(Append(Majors(kept), call.major))
         IN  IF NoRoom THEN need > YYSTACKDEPTH ELSE need = Len(stack')]_mcvars

\* At the end of the input the calculator accepts what it has kept if that is
\* a sequence of complete lines, and fails otherwise, whatever it threw away.
AcceptsCompleteLines ==
    \A i \in DOMAIN said :
       /\ said[i].what = "accept" => CanBegin(Append(Majors(kept), END))
       /\ said[i].what = "failure" => ~CanBegin(Append(Majors(kept), END))

\* Every call of the parser returns: no chain of reductions goes on forever.
EveryCallReturns == []<>(call = NoCall)

=============================================================================
