----------------------------- MODULE LemonTables -----------------------------
(***************************************************************************)
(* From the actions of an automaton to the tables of the generated parser: *)
(* CompressTables, ResortStates, the acttab packing and the arrays that    *)
(* ReportTable writes.  A state keeps its number of LemonStates until      *)
(* ResortStates gives it the number, from 0 on, that the tables use.       *)
(***************************************************************************)
EXTENDS LemonStates

\* An action that is not on the list any more has no place in the tables.
Live(actions) ==
    {a \in actions : a.type \in {"SHIFT", "ACCEPT", "REDUCE", "ERROR", "SHIFTREDUCE"}}

Reduces(actions) == {a \in actions : a.type = "REDUCE"}

-----------------------------------------------------------------------------
(* CompressTables                                                          *)

\* The rule reduced for most lookaheads, the first of them on the list when
\* several are; 0 when there is none.  Rules of the start symbol do not count.
DefaultRule(g, actions) ==
    LET may == {a.x : a \in {a \in Reduces(actions) : g.rules[a.x].lhs # g.start}}
        Uses(r) == {a.sp : a \in {a \in Reduces(actions) : a.x = r}}
        Better(r, q) == \/ Cardinality(Uses(r)) > Cardinality(Uses(q))
                        \/ /\ Cardinality(Uses(r)) = Cardinality(Uses(q))
                           /\ Min(Uses(r)) < Min(Uses(q))
    IN  IF may = {} THEN 0 ELSE CHOOSE r \in may : \A q \in may \ {r} : Better(r, q)

\* The reductions by the default rule become one action on "{default}".
WithDefault(g, actions) ==
    LET r == DefaultRule(g, actions)
        default == [sp |-> g.nsymbol, type |-> "REDUCE", x |-> r]
    IN  IF r = 0 THEN actions
        ELSE {a \in actions : ~(a.type = "REDUCE" /\ a.x = r)} \cup {default}

\* A state with a default that neither shifts nor reduces another rule.
AutoReduce(g, actions) ==
    LET r == DefaultRule(g, actions)
    IN  r # 0 /\ \A a \in actions : a.type # "SHIFT" /\ (a.type = "REDUCE" => a.x = r)

\* A shift to such a state reduces at once.
ShiftReduced(g, all, actions) ==
    {IF a.type = "SHIFT" /\ AutoReduce(g, all[a.x])
       THEN [a EXCEPT !.type = "SHIFTREDUCE", !.x = DefaultRule(g, all[a.x])]
       ELSE a : a \in actions}

\* Reducing a rule A ::= B without code lands in the state it came from: the
\* action on B becomes the one on A.
RECURSIVE Bypassed(_, _, _)
Bypassed(g, actions, a) ==
    IF /\ a.type = "SHIFTREDUCE" /\ a.sp >= g.nterminal
       /\ ~g.rules[a.x].code /\ Len(g.rules[a.x].rhs) = 1
      THEN LET b == CHOOSE b \in actions : b.sp = g.rules[a.x].lhs /\ b # a
           IN  Bypassed(g, actions, [b EXCEPT !.sp = a.sp])
      ELSE a

CompressTables(g, all) ==
    LET once == [s \in DOMAIN all |-> Live(all[s])]
        Bypass(actions) == {Bypassed(g, actions, a) : a \in actions}
    IN  [s \in DOMAIN all |-> Bypass(ShiftReduced(g, once, WithDefault(g, once[s])))]

-----------------------------------------------------------------------------
(* ResortStates: states with more nonterminal, then more token actions     *)
(* first; the states that only reduce end up behind and are dropped.       *)

TokenActions(g, actions) == {a \in actions : a.sp < g.nterminal}
NonterminalActions(g, actions) == {a \in actions : a.sp >= g.nterminal /\ a.sp < g.nsymbol}

\* sorted[i+1] is the state that gets number i.  Among states with equally many
\* actions the one found last comes first.
ResortStates(g, packed) ==
    LET key(s) == <<-Cardinality(NonterminalActions(g, packed[s])),
                    -Cardinality(TokenActions(g, packed[s])), -s>>
        keys == InOrder({key(s) : s \in DOMAIN packed \ {1}})
    IN  <<1>> \o [i \in DOMAIN keys |-> -keys[i][3]]

\* nxstate: how many states are left without the trailing autoReduce ones.
nxstate(g, all, sorted) ==
    Max({i \in DOMAIN sorted : i = 1 \/ ~AutoReduce(g, Live(all[sorted[i]]))})

-----------------------------------------------------------------------------
(* acttab: a table of [la, act] slots, la = -1 where it is free; its first *)
(* slot has index 0.  set is the transaction, a set of such slots.         *)

Free == [la |-> -1, act |-> -1]
Slot(tab, k) == IF k \in 0..Len(tab) - 1 THEN tab[k + 1] ELSE Free

mnLookahead(set) == Min({e.la : e \in set})

\* The transaction is already in the table with its least lookahead at i, and
\* no other lookahead would match there.
Matches(tab, set, i) ==
    LET shift == i - mnLookahead(set)
    IN  /\ \A e \in set : Slot(tab, e.la + shift) = e
        /\ Cardinality({j \in 0..Len(tab) - 1 :
                          Slot(tab, j).la >= 0 /\ Slot(tab, j).la = j - shift}) = Cardinality(set)

\* Mutant: what is in the table already is not checked against the transaction.
Fits_free(tab, set, i) ==
    \A e \in set : LET k == e.la + i - mnLookahead(set) IN k >= 0 /\ Slot(tab, k) = Free

\* The transaction fits into free slots, and no lookahead outside it matches.
Fits(tab, set, i) ==
    LET shift == i - mnLookahead(set)
    IN  /\ \A e \in set : e.la + shift >= 0 /\ Slot(tab, e.la + shift) = Free
        /\ \A j \in 0..Len(tab) - 1 : Slot(tab, j).la # j - shift

\* Where the transaction goes: at the last place where it already is, else at
\* the first where it fits.  A set of terminals never starts before index 0.
acttab_place(tab, set, makeItSafe) ==
    LET end == IF makeItSafe THEN mnLookahead(set) ELSE 0
        known == {i \in end..Len(tab) - 1 : Matches(tab, set, i)}
        last == Max({end, Len(tab)}) + mnLookahead(set) + 1
    IN  IF known # {} THEN Max(known)
        ELSE Min({i \in end..last : Fits(tab, set, i)})

acttab_insert(g, tab, set, makeItSafe) ==
    LET i == acttab_place(tab, set, makeItSafe)
        shift == i - mnLookahead(set)
        used == {Len(tab)} \cup {e.la + shift + 1 : e \in set}
        n == Max(used \cup IF makeItSafe THEN {i + g.nterminal + 1} ELSE {})
        At(k) == {e \in set : e.la + shift = k}
    IN  [ofst |-> shift,
         tab |-> [k \in 1..n |-> IF At(k - 1) = {} THEN Slot(tab, k - 1)
                                 ELSE CHOOSE e \in At(k - 1) : TRUE]]

-----------------------------------------------------------------------------
(* ReportTable                                                             *)

compute_action(g, nstate, number, a) ==
    LET rule == RuleNumber(g, a.x)
        minReduce == nstate + Len(g.rules) + 3
    IN  CASE a.type = "SHIFT" -> number[a.x]
          [] a.type = "SHIFTREDUCE" ->
               IF a.sp >= g.nterminal THEN minReduce + rule ELSE nstate + rule
          [] a.type = "REDUCE" -> minReduce + rule
          [] a.type = "ERROR" -> nstate + Len(g.rules)
          [] a.type = "ACCEPT" -> nstate + Len(g.rules) + 1

\* The action sets of the states go into the table one after the other, larger
\* ones first, tokens before nonterminals of a state; an axset is
\* <<-size, number of the state, 0 for tokens and 1 for nonterminals>>.
RECURSIVE PlaceAll(_, _, _, _, _)
PlaceAll(g, slots, tab, ofst, ax) ==
    IF ax = <<>> THEN [tab |-> tab, ofst |-> ofst]
    ELSE LET x == Head(ax)
             ins == acttab_insert(g, tab, slots[x[2]][x[3]], x[3] = 0)
         IN  PlaceAll(g, slots, ins.tab, ofst @@ (<<x[2], x[3]>> :> ins.ofst), Tail(ax))

\* The action sets of the states that are left, as acttab slots.
SlotsOf(g, packed, nstate, sorted, nx) ==
    LET number == [s \in DOMAIN sorted |-> (CHOOSE i \in DOMAIN sorted : sorted[i] = s) - 1]
        Coded(actions) == {[la |-> a.sp, act |-> compute_action(g, nstate, number, a)] :
                             a \in actions}
    IN  [i \in 0..nx - 1 |->
           [k \in {0, 1} |-> Coded(IF k = 0 THEN TokenActions(g, packed[sorted[i + 1]])
                                   ELSE NonterminalActions(g, packed[sorted[i + 1]]))]]

axset(slots) ==
    InOrder({<<-Cardinality(slots[x[1]][x[2]]), x[1], x[2]>> :
               x \in {x \in (DOMAIN slots) \X {0, 1} : slots[x[1]][x[2]] # {}}})

\* The arrays of the parser; n is how far the table is in use.
Arrays(g, nstate, nx, tab, ofst, n, default) ==
    [nxstate |-> nx, minShiftReduce |-> nstate,
     accAction |-> nstate + Len(g.rules) + 1, minReduce |-> nstate + Len(g.rules) + 3,
     yy_action |-> [k \in 0..n - 1 |->
         IF tab[k + 1] = Free THEN nstate + Len(g.rules) + 2 ELSE tab[k + 1].act],
     yy_lookahead |-> [k \in 0..Max({Len(tab), g.nterminal + n}) - 1 |->
         CASE k >= Len(tab) -> g.nterminal
           [] k < Len(tab) /\ tab[k + 1] = Free -> g.nsymbol
           [] OTHER -> tab[k + 1].la],
     yy_shift_ofst |-> [s \in 0..nx - 1 |-> IF <<s, 0>> \in DOMAIN ofst THEN ofst[<<s, 0>>] ELSE n],
     yy_reduce_ofst |-> [s \in {s \in 0..nx - 1 : <<s, 1>> \in DOMAIN ofst} |-> ofst[<<s, 1>>]],
     yy_default |-> [s \in 0..nx - 1 |->
         IF default[s] = {} THEN nstate + Len(g.rules)
         ELSE nstate + Len(g.rules) + 3 + RuleNumber(g, (CHOOSE a \in default[s] : TRUE).x)],
     yyRule |-> [k \in 0..Len(g.rules) - 1 |-> CHOOSE r \in RuleIds(g) : RuleNumber(g, r) = k]]

\* The passes of main from FindStates on, each given what the ones before made.
ReportTable(g) ==
    LET Written(packed, sorted, nx, done) ==
            Arrays(g, Len(packed), nx, done.tab, done.ofst,
                   Max({0} \cup {k \in DOMAIN done.tab : done.tab[k] # Free}),
                   [s \in 0..nx - 1 |-> {a \in packed[sorted[s + 1]] : a.sp = g.nsymbol}])
        Placed(packed, sorted, nx, slots) ==
            Written(packed, sorted, nx, PlaceAll(g, slots, <<>>, <<>>, axset(slots)))
        Numbered(packed, sorted, nx) ==
            Placed(packed, sorted, nx, SlotsOf(g, packed, Len(packed), sorted, nx))
        Resorted(all, packed, sorted) == Numbered(packed, sorted, nxstate(g, all, sorted))
        Compressed(all, packed) == Resorted(all, packed, ResortStates(g, packed))
        Found(all) == Compressed(all, CompressTables(g, all))
    IN  Found(Automaton(g))

=============================================================================
