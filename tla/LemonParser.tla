----------------------------- MODULE LemonParser -----------------------------
(***************************************************************************)
(* The parser that lemon generates (calc/tools/lempar.c) and the programs  *)
(* that feed it: mycalc and unittest's calc, one token of the scanner      *)
(* after the other, and the tokenizer's example.  One call of Parse is a   *)
(* sequence of steps, one per turn of its loop: reductions, then a shift,  *)
(* the acceptance, an error or a stack overflow, which end the call.       *)
(*                                                                         *)
(* The tables come in as a constant, so that the engine can be read, and   *)
(* reasoned about, apart from how they are made.  Destructors and traces,  *)
(* which only print, are left out, and so is A.n, which nobody reads.      *)
(***************************************************************************)
EXTENDS LemonGrammars, FiniteSets

CONSTANTS Grammars,        \* the grammar of each language
          Tables,          \* the generated tables of each language
          YYSTACKDEPTH     \* entries of yystack, the bottom one included

VARIABLES lang,       \* the language parsed
          tables,     \* the arrays and constants compiled into the parser
          sendsEnd,   \* the program ends its input with token 0
          reading,    \* the program still has input to scan
          alive,      \* the program has not been ended by its parser
          stack,      \* yystack from the bottom to yytos: [stateno, minor]
          call,       \* the arguments of the running Parse, or NoCall
          yyact,
          yyerrcnt,
          said        \* what the grammar's code has reported, in order

vars == <<lang, tables, sendsEnd, reading, alive, stack, call, yyact, yyerrcnt, said>>

NoCall == [major |-> -1, minor |-> <<>>]

G == Grammars[lang]
yytos == stack[Len(stack)]
At(table, i) == IF i \in DOMAIN table THEN table[i] ELSE -1

\* The tokenizer's parser calls exit in its syntax error code.
ExitsOnError == lang = "json"

-----------------------------------------------------------------------------
(* Table lookup, as a build without the asserts does it: an entry is not     *)
(* compared with the nonterminal it is read for, and At is -1 outside of an   *)
(* array.                                                                    *)

YY_MAX_SHIFT == tables.nxstate - 1
YY_MAX_SHIFTREDUCE == tables.minShiftReduce + Len(G.rules) - 1

yy_find_shift_action(iLookAhead, stateno) ==
    LET i == At(tables.yy_shift_ofst, stateno) + iLookAhead
    IN  CASE stateno > YY_MAX_SHIFT -> stateno
          [] stateno <= YY_MAX_SHIFT /\ At(tables.yy_lookahead, i) = iLookAhead -> At(tables.yy_action, i)
          [] OTHER -> At(tables.yy_default, stateno)

yy_find_reduce_action(stateno, iLookAhead) ==
    At(tables.yy_action, At(tables.yy_reduce_ofst, stateno) + iLookAhead)

\* What the next turn of Parse's loop does.
Action == yy_find_shift_action(call.major, yyact)
Reducing == Action >= tables.minReduce
Shifting == Action <= YY_MAX_SHIFTREDUCE
Accepting == Action = tables.accAction
RuleReduced == G.rules[tables.yyRule[Action - tables.minReduce]]

\* Mutant: the last entry of the stack is not used.
NoRoom_early ==
    /\ Len(stack) >= YYSTACKDEPTH - 1
    /\ Shifting \/ (Reducing /\ RuleReduced.rhs = <<>>)

\* No room to push: for a shift, and for a rule with an empty right-hand side.
NoRoom ==
    /\ Len(stack) >= YYSTACKDEPTH
    /\ Shifting \/ (Reducing /\ RuleReduced.rhs = <<>>)

-----------------------------------------------------------------------------
(* ParseInit                                                               *)

Init ==
    /\ lang \in DOMAIN Grammars
    /\ tables = Tables[lang]
    /\ sendsEnd \in BOOLEAN
    /\ reading = TRUE
    /\ alive = TRUE
    /\ stack = <<[stateno |-> 0, minor |-> <<>>]>>
    /\ call = NoCall
    /\ yyact = 0
    /\ yyerrcnt = -1
    /\ said = <<>>

Call(major, minor) ==
    /\ call' = [major |-> major, minor |-> minor]
    /\ yyact' = yytos.stateno

\* The program's loop: a token from the scanner goes to the parser.
Token(major, minor) ==
    /\ alive /\ reading /\ call = NoCall
    /\ Call(major, minor)
    /\ UNCHANGED <<lang, tables, sendsEnd, reading, alive, stack, yyerrcnt, said>>

\* The scanner returns EOF.  mycalc and the tokenizer leave it at that, the
\* others call the parser with token 0.
EndOfInput ==
    /\ alive /\ reading /\ call = NoCall
    /\ reading' = FALSE
    /\ IF sendsEnd THEN Call(END, <<>>) ELSE UNCHANGED <<call, yyact>>
    /\ UNCHANGED <<lang, tables, sendsEnd, alive, stack, yyerrcnt, said>>

-----------------------------------------------------------------------------
(* The turns of Parse's loop                                               *)

Return == call' = NoCall /\ yyact' = 0

\* yy_reduce: the code of the rule, then the goto.  The calculator prints the
\* value of a line when it reduces state ::= expr.
Reduce ==
    LET rule == RuleReduced
        n == Len(rule.rhs)
        below == SubSeq(stack, 1, Len(stack) - n)
        vals == [i \in 1..n |-> stack[Len(stack) - n + i].minor]
        result == IF lang = "calc" THEN CalcReduced(rule, vals) ELSE <<>>
        goto == yy_find_reduce_action(below[Len(below)].stateno, rule.lhs)
    IN  /\ ~CalcMustTrap(rule, vals)
        /\ stack' = Append(below, [stateno |-> goto, minor |-> result])
        /\ yyact' = goto
        /\ said' = IF lang = "calc" /\ rule.lhs = state
                     THEN Append(said, [what |-> "result", value |-> result])
                     ELSE said
        /\ UNCHANGED <<lang, tables, sendsEnd, reading, alive, call, yyerrcnt>>

\* The division traps in the code of the rule: nothing after it runs.
Trap ==
    LET n == Len(RuleReduced.rhs)
    IN  /\ CalcMayTrap(RuleReduced, [i \in 1..n |-> stack[Len(stack) - n + i].minor])
        /\ alive' = FALSE
        /\ Return
        /\ UNCHANGED <<lang, tables, sendsEnd, reading, stack, yyerrcnt, said>>

Shift ==
    /\ stack' = Append(stack,
         [stateno |-> IF Action > YY_MAX_SHIFT THEN Action + tables.minReduce - tables.minShiftReduce
                      ELSE Action,
          minor |-> call.minor])
    /\ yyerrcnt' = yyerrcnt - 1
    /\ Return
    /\ UNCHANGED <<lang, tables, sendsEnd, reading, alive, said>>

\* Mutant: the stack is not popped.
Overflow_keeps ==
    /\ yyerrcnt' = IF Shifting THEN yyerrcnt - 1 ELSE yyerrcnt
    /\ Return
    /\ UNCHANGED <<lang, tables, sendsEnd, reading, alive, stack, said>>

\* yyStackOverflow pops everything; the token is lost, and the parser goes on
\* from its first state with the next one.
Overflow ==
    /\ stack' = SubSeq(stack, 1, 1)
    /\ yyerrcnt' = IF Shifting THEN yyerrcnt - 1 ELSE yyerrcnt
    /\ Return
    /\ UNCHANGED <<lang, tables, sendsEnd, reading, alive, said>>

Accept ==
    /\ stack' = SubSeq(stack, 1, Len(stack) - 1)
    /\ yyerrcnt' = -1
    /\ said' = Append(said, [what |-> "accept", value |-> <<>>])
    /\ Return
    /\ UNCHANGED <<lang, tables, sendsEnd, reading, alive>>

\* Mutant: the token is not thrown away after the report.
Error_retries ==
    /\ said' = IF yyerrcnt <= 0 THEN Append(said, [what |-> "error", value |-> <<>>]) ELSE said
    /\ yyerrcnt' = 3
    /\ UNCHANGED <<lang, tables, sendsEnd, reading, alive, stack, call, yyact>>

\* The token is thrown away.  An error is reported when three tokens have been
\* shifted since the last one; token 0 gives up and pops everything.
Error ==
    LET reports == yyerrcnt <= 0
        exits == reports /\ ExitsOnError
        fails == call.major = END /\ ~exits
        Line(what) == <<[what |-> what, value |-> <<>>]>>
    IN  /\ said' = said \o (IF reports THEN Line("error") ELSE <<>>)
                        \o (IF fails THEN Line("failure") ELSE <<>>)
        /\ alive' = ~exits
        /\ stack' = IF fails THEN SubSeq(stack, 1, 1) ELSE stack
        /\ yyerrcnt' = IF fails THEN -1 ELSE IF exits THEN yyerrcnt ELSE 3
        /\ Return
        /\ UNCHANGED <<lang, tables, sendsEnd, reading>>

Turn ==
    /\ call # NoCall
    /\ \/ NoRoom /\ Overflow
       \/ ~NoRoom /\ Reducing /\ Reduce
       \/ ~NoRoom /\ Reducing /\ Trap
       \/ ~NoRoom /\ Shifting /\ Shift
       \/ Accepting /\ Accept
       \/ ~Reducing /\ ~Shifting /\ ~Accepting /\ Error

=============================================================================
