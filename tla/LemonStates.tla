----------------------------- MODULE LemonStates -----------------------------
(***************************************************************************)
(* What the parser generator lemon (calc/tools/lemon.c, copied unchanged   *)
(* into tokenizer, unittest and re2c_lemon) computes from a grammar: first *)
(* sets, LR(0) states, follow sets and the actions that are left when the  *)
(* precedences have settled the conflicts.  The definitions follow the     *)
(* generator's passes in the order main calls them; LemonTables goes on    *)
(* from the actions to the tables of the generated parser.                 *)
(*                                                                         *)
(* A grammar g is a record: symbols are numbered as in the generated       *)
(* header, terminals 0 ("$") to g.nterminal-1, then nonterminals up to     *)
(* g.nsymbol-1, and g.nsymbol is "{default}".  g.rules lists the rules     *)
(* in the order of the .y file; code says whether a rule has C code.       *)
(* Multiterminals, fallbacks, wildcards and the error symbol, which no     *)
(* grammar of the repository uses, are left out.                           *)
(***************************************************************************)
EXTENDS Integers, Sequences, FiniteSets, SequencesExt

RuleIds(g) == DOMAIN g.rules
Terminals(g) == 0..g.nterminal - 1
Nonterminals(g) == g.nterminal..g.nsymbol - 1

\* A set of equally long tuples of numbers, the least first.
Less(a, b) == \E i \in DOMAIN a : a[i] < b[i] /\ \A j \in 1..i - 1 : a[j] = b[j]
InOrder(S) ==
    [i \in 1..Cardinality(S) |->
        CHOOSE x \in S : Cardinality({y \in S : Less(y, x)}) = i - 1]

\* iRule: rules with C code come first.
RuleNumber(g, r) ==
    LET coded == {q \in RuleIds(g) : g.rules[q].code}
        peers == IF r \in coded THEN coded ELSE RuleIds(g) \ coded
    IN  Cardinality({q \in peers : q < r})
        + (IF r \in coded THEN 0 ELSE Cardinality(coded))

-----------------------------------------------------------------------------
(* FindRulePrecedences and FindFirstSets                                   *)

\* Mutant: only the first symbol is asked for its precedence.
RulePrec_first(g, r) ==
    LET rhs == g.rules[r].rhs
    IN  IF rhs # <<>> /\ rhs[1] \in DOMAIN g.prec THEN g.prec[rhs[1]].level ELSE -1

\* The precedence of a rule: that of the first symbol of its right-hand side
\* that has one, -1 if none has.
RulePrec(g, r) ==
    LET rhs == g.rules[r].rhs
        has == {i \in DOMAIN rhs : rhs[i] \in DOMAIN g.prec}
    IN  IF has = {} THEN -1 ELSE g.prec[rhs[Min(has)]].level

RECURSIVE Lambda(_, _)
Lambda(g, known) ==
    LET more == known \cup {g.rules[r].lhs : r \in
                    {r \in RuleIds(g) : ToSet(g.rules[r].rhs) \subseteq known}}
    IN  IF more = known THEN known ELSE Lambda(g, more)

\* The terminals that can begin the symbols of rhs from position i on.
FirstFrom(g, lambda, first, rhs, i) ==
    UNION {IF rhs[j] \in Terminals(g) THEN {rhs[j]} ELSE first[rhs[j]] :
             j \in {j \in i..Len(rhs) : \A k \in i..j - 1 : rhs[k] \in lambda}}

RECURSIVE FirstSets(_, _, _)
FirstSets(g, lambda, first) ==
    LET more == [n \in Nonterminals(g) |-> UNION
                   {FirstFrom(g, lambda, first, g.rules[r].rhs, 1) :
                      r \in {r \in RuleIds(g) : g.rules[r].lhs = n}}]
    IN  IF more = first THEN first ELSE FirstSets(g, lambda, more)

-----------------------------------------------------------------------------
(* FindStates, getstate and buildshifts: a configuration is <<rule, dot>>, *)
(* a state is found by its basis.                                          *)

AtEnd(g, c) == c[2] = Len(g.rules[c[1]].rhs)
NextSymbol(g, c) == g.rules[c[1]].rhs[c[2] + 1]

RECURSIVE Closure(_, _)
Closure(g, configs) ==
    LET wanted == {NextSymbol(g, c) : c \in {c \in configs : ~AtEnd(g, c)}}
        more == configs \cup {<<r, 0>> : r \in
                    {r \in RuleIds(g) : g.rules[r].lhs \in wanted}}
    IN  IF more = configs THEN configs ELSE Closure(g, more)

Shifted(g, configs, X) ==
    {<<c[1], c[2] + 1>> : c \in {c \in configs : ~AtEnd(g, c) /\ NextSymbol(g, c) = X}}

\* One configuration for each symbol a state shifts, in their order: the
\* first one that has the symbol after its dot.
FirstToShift(g, configs) ==
    InOrder({c \in configs : /\ ~AtEnd(g, c)
                             /\ \A d \in configs :
                                  (~AtEnd(g, d) /\ NextSymbol(g, d) = NextSymbol(g, c))
                                    => ~Less(d, c)})

\* Depth first: a new state takes the next number before its successors do.
RECURSIVE GetState(_, _, _), BuildShifts(_, _, _, _)
GetState(g, bases, basis) ==
    IF basis \in ToSet(bases) THEN bases
    ELSE LET configs == Closure(g, basis)
         IN  BuildShifts(g, Append(bases, basis), configs, FirstToShift(g, configs))

BuildShifts(g, bases, configs, todo) ==
    IF todo = <<>> THEN bases
    ELSE LET basis == Shifted(g, configs, NextSymbol(g, Head(todo)))
         IN  BuildShifts(g, GetState(g, bases, basis), configs, Tail(todo))

FindStates(g) ==
    LET basis == {<<r, 0>> : r \in {r \in RuleIds(g) : g.rules[r].lhs = g.start}}
    IN  GetState(g, <<>>, basis)

-----------------------------------------------------------------------------
(* Configlist_closure, FindLinks and FindFollowSets: the least follow sets *)
(* that contain what a closure adds by itself and are closed along the     *)
(* propagation links.  A node is <<state, configuration>>.                 *)

Nodes(states) == UNION {{<<s, c>> : c \in states[s].configs} : s \in DOMAIN states}

\* The configurations that the closure adds because of c.
AddedBy(g, c) ==
    IF AtEnd(g, c) THEN {}
    ELSE {<<r, 0>> : r \in {r \in RuleIds(g) : g.rules[r].lhs = NextSymbol(g, c)}}

\* The rest of the rule after the symbol that follows the dot can be empty.
TailVanishes(g, lambda, c) ==
    ToSet(SubSeq(g.rules[c[1]].rhs, c[2] + 2, Len(g.rules[c[1]].rhs))) \subseteq lambda

OwnFollow(g, lambda, first, states, n) ==
    (IF n[1] = 1 /\ g.rules[n[2][1]].lhs = g.start THEN {0} ELSE {})
    \cup UNION {FirstFrom(g, lambda, first, g.rules[c[1]].rhs, c[2] + 2) :
                  c \in {c \in states[n[1]].configs : n[2] \in AddedBy(g, c)}}

\* The nodes whose follow set flows into the one of node n.
LinksInto(g, lambda, states, n) ==
    {<<n[1], c>> : c \in {c \in states[n[1]].configs :
                            n[2] \in AddedBy(g, c) /\ TailVanishes(g, lambda, c)}}
    \cup (IF n[2][2] = 0 THEN {} ELSE
          LET c == <<n[2][1], n[2][2] - 1>>
          IN  {<<s, c>> : s \in {s \in DOMAIN states :
                 c \in states[s].configs /\ states[s].goto[NextSymbol(g, c)] = n[1]}})

RECURSIVE FindFollowSets(_, _)
FindFollowSets(links, fws) ==
    LET more == [n \in DOMAIN fws |-> fws[n] \cup UNION {fws[m] : m \in links[n]}]
    IN  IF more = fws THEN fws ELSE FindFollowSets(links, more)

-----------------------------------------------------------------------------
(* FindActions and resolve_conflict: an action is a record of its look-    *)
(* ahead sp, its type and the state or rule x it is about.                 *)

\* One pair of actions for the same lookahead, a before b.
resolve_conflict(g, a, b) ==
    LET la == IF a.sp \in DOMAIN g.prec THEN g.prec[a.sp] ELSE [level |-> -1, assoc |-> "NONE"]
        pb == RulePrec(g, b.x)
        pa == IF a.type = "SHIFT" THEN la.level ELSE RulePrec(g, a.x)
        unknown == pa < 0 \/ pb < 0
        Keep == <<a, b>>
        First == <<a, [b EXCEPT !.type = "RD_RESOLVED"]>>
        Second == <<[a EXCEPT !.type = IF a.type = "SHIFT" THEN "SH_RESOLVED" ELSE "RD_RESOLVED"], b>>
        Neither == <<a, [b EXCEPT !.type = "CONFLICT"]>>
    IN  CASE a.type = "SHIFT" /\ b.type = "REDUCE" ->
               (CASE unknown -> Neither
                  [] ~unknown /\ pa > pb -> First
                  [] ~unknown /\ pa < pb -> Second
                  [] OTHER -> (CASE la.assoc = "RIGHT" -> First
                                 [] la.assoc = "LEFT" -> Second
                                 [] OTHER -> <<[a EXCEPT !.type = "ERROR"], b>>))
          [] a.type = "REDUCE" /\ b.type = "REDUCE" ->
               (CASE unknown \/ pa = pb -> Neither
                  [] ~unknown /\ pa > pb -> First
                  [] OTHER -> Second)
          [] OTHER -> Keep

\* The actions for one lookahead, sorted: a SHIFT first, then the REDUCEs.
Action_sort(actions) ==
    LET key(a) == <<IF a.type = "SHIFT" THEN 0 ELSE 1, a.x>>
        keys == InOrder({key(a) : a \in actions})
    IN  [i \in DOMAIN keys |-> CHOOSE a \in actions : key(a) = keys[i]]

\* All pairs of places, in the order of the two loops.
RECURSIVE Resolve(_, _, _)
Resolve(g, acts, pairs) ==
    IF pairs = <<>> THEN acts
    ELSE LET i == Head(pairs)[1]
             j == Head(pairs)[2]
             two == resolve_conflict(g, acts[i], acts[j])
         IN  Resolve(g, [acts EXCEPT ![i] = two[1], ![j] = two[2]], Tail(pairs))

ResolveAll(g, acts) ==
    Resolve(g, acts, InOrder({p \in (1..Len(acts)) \X (1..Len(acts)) : p[1] < p[2]}))

\* The resolved actions of state s.
FindActions(g, states, fws, s) ==
    LET shifts == {[sp |-> X, type |-> "SHIFT", x |-> states[s].goto[X]] :
                     X \in DOMAIN states[s].goto}
        reduces == UNION {{[sp |-> t, type |-> "REDUCE", x |-> c[1]] : t \in fws[<<s, c>>]} :
                            c \in {c \in states[s].configs : AtEnd(g, c)}}
        For(sp) == Action_sort({a \in shifts \cup reduces : a.sp = sp})
        resolved == UNION {ToSet(ResolveAll(g, For(sp))) : sp \in 0..g.nsymbol - 1}
    IN  resolved \cup (IF s = 1 THEN {[sp |-> g.start, type |-> "ACCEPT", x |-> 0]} ELSE {})

\* A state with its configurations and, per symbol it shifts, the next state.
StateOf(g, bases, configs) ==
    [configs |-> configs,
     goto |-> [X \in {NextSymbol(g, c) : c \in {c \in configs : ~AtEnd(g, c)}} |->
                 CHOOSE t \in DOMAIN bases : bases[t] = Shifted(g, configs, X)]]

StatesOf(g, bases) ==
    [s \in DOMAIN bases |-> StateOf(g, bases, Closure(g, bases[s]))]

FollowSets(g, states, lambda, first) ==
    FindFollowSets([n \in Nodes(states) |-> LinksInto(g, lambda, states, n)],
                   [n \in Nodes(states) |-> OwnFollow(g, lambda, first, states, n)])

ActionsOf(g, states, fws) == [s \in DOMAIN states |-> FindActions(g, states, fws, s)]

FollowedBy(g, states, lambda) ==
    ActionsOf(g, states,
        FollowSets(g, states, lambda, FirstSets(g, lambda, [n \in Nonterminals(g) |-> {}])))

\* The automaton of a grammar: the resolved actions of each state.  State 1 is
\* the first one, the program's state 0.
Automaton(g) == FollowedBy(g, StatesOf(g, FindStates(g)), Lambda(g, {}))

=============================================================================
