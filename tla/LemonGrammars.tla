---------------------------- MODULE LemonGrammars ----------------------------
(***************************************************************************)
(* Two grammars of the repository as lemon reads them: the calculator's    *)
(* (calc/parser/parser.y; unittest's is the same but for what its code     *)
(* prints) and the tokenizer's, of JSON (tokenizer/parser/parser.y).       *)
(* Symbols carry the numbers of the generated header: terminals in the     *)
(* order the file first names them, then the nonterminals.                 *)
(***************************************************************************)
EXTENDS Integers, Sequences

Rule(lhs, rhs, code) == [lhs |-> lhs, rhs |-> rhs, code |-> code]

\* "$", the token that says the input is over.
END == 0

-----------------------------------------------------------------------------
(* calc                                                                    *)

NUM == 1
PLUS == 2
MINUS == 3
TIMES == 4
DIVIDE == 5
MOD == 6
EXP == 7
NEWLINE == 8
LRB == 9
RRB == 10
expr == 11
main == 12
in == 13
state == 14

Operators == {PLUS, MINUS, TIMES, DIVIDE, MOD, EXP}

CalcGrammar ==
    [nterminal |-> 11, nsymbol |-> 15, start |-> main,
     prec |-> [t \in Operators |->
        CASE t \in {PLUS, MINUS} -> [level |-> 1, assoc |-> "LEFT"]
          [] t \in {TIMES, DIVIDE, MOD} -> [level |-> 2, assoc |-> "LEFT"]
          [] OTHER -> [level |-> 3, assoc |-> "RIGHT"]],
     rules |-> <<
        Rule(main, <<in>>, FALSE),
        Rule(in, <<>>, FALSE),
        Rule(in, <<in, state, NEWLINE>>, FALSE),
        Rule(state, <<expr>>, TRUE),
        Rule(expr, <<expr, MINUS, expr>>, TRUE),
        Rule(expr, <<expr, PLUS, expr>>, TRUE),
        Rule(expr, <<expr, TIMES, expr>>, TRUE),
        Rule(expr, <<expr, EXP, expr>>, TRUE),
        Rule(expr, <<expr, DIVIDE, expr>>, TRUE),
        Rule(expr, <<NUM>>, TRUE),
        Rule(expr, <<LRB, expr, RRB>>, TRUE),
        Rule(expr, <<expr, MOD, expr>>, TRUE)>>]

\* A value is <<n>>, or <<>> when the code leaves it unset or undefined.
Quotient(b, c) ==       \* C truncates towards zero
    LET q == (IF b < 0 THEN -b ELSE b) \div (IF c < 0 THEN -c ELSE c)
    IN  IF (b < 0) = (c < 0) THEN q ELSE -q

Power(b, c) ==          \* pow, and the conversion of its result to int
    CASE c >= 0 -> <<b ^ c>>
      [] c < 0 /\ b = 0 -> <<>>
      [] c < 0 /\ b \in {1, -1} -> <<IF c % 2 = 0 THEN 1 ELSE b>>
      [] OTHER -> <<0>>

\* An unset operand may do anything its operator does: the result is unset.
Applied(op, b, c) ==
    CASE b = <<>> \/ c = <<>> -> <<>>
      [] op = PLUS -> <<b[1] + c[1]>>
      [] op = MINUS -> <<b[1] - c[1]>>
      [] op = TIMES -> <<b[1] * c[1]>>
      [] op = EXP -> Power(b[1], c[1])
      [] op = DIVIDE -> IF c[1] # 0 THEN <<Quotient(b[1], c[1])>> ELSE <<>>
      [] op = MOD -> IF c[1] # 0 THEN <<b[1] - c[1] * Quotient(b[1], c[1])>> ELSE <<>>

\* The value A that the code of a rule makes of the values of its symbols.
CalcReduced(rule, vals) ==
    CASE rule.lhs = expr /\ Len(vals) = 3 /\ rule.rhs[2] \in Operators ->
            Applied(rule.rhs[2], vals[1], vals[3])
      [] rule.lhs = expr /\ Len(vals) = 3 /\ rule.rhs[2] = expr -> vals[2]
      [] Len(vals) = 1 -> vals[1]
      [] OTHER -> <<>>

\* B.value % C.value: the processor stops the program when C.value is 0, as
\* an unset value may be.
CalcMayTrap(rule, vals) == rule.rhs = <<expr, MOD, expr>> /\ vals[3] \in {<<0>>, <<>>}
CalcMustTrap(rule, vals) == rule.rhs = <<expr, MOD, expr>> /\ vals[3] = <<0>>

-----------------------------------------------------------------------------
(* JSON: the code of no rule looks at a value.                             *)

O_BEGIN == 1
O_END == 2
COMMA == 3
STRING_ == 4
COLON == 5
A_BEGIN == 6
A_END == 7
NUMBER == 8
TRUE_ == 9
FALSE_ == 10
NULL_ == 11
input == 12
lines == 13
array == 14
object == 15
members == 16
pair == 17
value == 18
elements == 19

JsonGrammar ==
    [nterminal |-> 12, nsymbol |-> 20, start |-> input, prec |-> <<>>,
     rules |-> <<
        Rule(input, <<lines>>, FALSE),
        Rule(lines, <<array>>, FALSE),
        Rule(lines, <<object>>, FALSE),
        Rule(object, <<O_BEGIN, O_END>>, FALSE),
        Rule(object, <<O_BEGIN, members, O_END>>, FALSE),
        Rule(members, <<pair>>, FALSE),
        Rule(members, <<pair, COMMA, members>>, FALSE),
        Rule(pair, <<STRING_, COLON, value>>, FALSE),
        Rule(array, <<A_BEGIN, A_END>>, FALSE),
        Rule(array, <<A_BEGIN, elements, A_END>>, FALSE),
        Rule(elements, <<value>>, FALSE),
        Rule(elements, <<value, COMMA, elements>>, FALSE),
        Rule(value, <<STRING_>>, FALSE),
        Rule(value, <<NUMBER>>, FALSE),
        Rule(value, <<object>>, FALSE),
        Rule(value, <<array>>, FALSE),
        Rule(value, <<TRUE_>>, FALSE),
        Rule(value, <<FALSE_>>, FALSE),
        Rule(value, <<NULL_>>, FALSE)>>]

=============================================================================
