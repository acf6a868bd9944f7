---------------------------- MODULE LinePair_proofs ----------------------------
(* Proofs about the receiver and the senders of line/, for any number of       *)
(* senders, buffers of any size, and whatever is typed and printed.              *)
EXTENDS LinePair, SequenceTheorems, FiniteSetTheorems, WellFoundedInduction, TLAPS

-----------------------------------------------------------------------------
(* Lines, whose fold is read from left to right.                            *)

(* The loop of Lines, one character at a time, and the function by which its    *)
(* fold is defined: over the sets of places, the last place taken last.            *)
Nothing == [full |-> <<>>, rest |-> <<>>]
Step(acc, c) ==
  IF c.ch = "nl" THEN [full |-> Append(acc.full, acc.rest), rest |-> <<>>]
  ELSE [acc EXCEPT !.rest = Append(@, c)]
Value(text, g, s) ==
  IF s = {} THEN Nothing ELSE Step(g[s \ {Max(s)}], text[Max(s)])
Solves(text, g, n) == g = [s \in SUBSET (1..n) |-> Value(text, g, s)]

LEMMA LeastExists ==
  ASSUME NEW T \in SUBSET Nat, T # {}
  PROVE  \E m \in T : \A k \in T : m <= k
  <1>1. PICK m \in T : \A k \in T : ~(<<k, m>> \in OpToRel(<, Nat))
    BY WFMin, NatLessThanWellFounded
  <1>2. \A k \in T : ~ (k < m)
    BY <1>1 DEF OpToRel
  <1> QED BY <1>2

LEMMA LastPlace ==
  ASSUME NEW n \in Nat, NEW s \in SUBSET (1..n), n \in s
  PROVE  Max(s) = n
  <1>1. \A x \in s : n >= x
    OBVIOUS
  <1>2. \A x \in s : (\A y \in s : x >= y) => x = n
    <2> SUFFICES ASSUME NEW x \in s, \A y \in s : x >= y PROVE x = n
      OBVIOUS
    <2>1. x \in 1..n /\ x >= n
      OBVIOUS
    <2> QED BY <2>1
  <1> QED BY <1>1, <1>2 DEF Max

LEMMA SolutionGrows ==
  ASSUME NEW text, NEW m \in Nat, NEW g, Solves(text, g, m)
  PROVE  \E h : Solves(text, h, m + 1)
  <1> DEFINE h == [s \in SUBSET (1..m+1) |->
                     IF m + 1 \in s THEN Step(g[s \ {m + 1}], text[m + 1]) ELSE g[s]]
  <1>1. ASSUME NEW s \in SUBSET (1..m+1) PROVE h[s] = Value(text, h, s)
    <2>1. CASE m + 1 \in s
      <3>1. Max(s) = m + 1 /\ s # {}
        BY <2>1, LastPlace
      <3>2. s \ {m + 1} \in SUBSET (1..m+1) /\ m + 1 \notin s \ {m + 1}
        OBVIOUS
      <3>3. h[s \ {m + 1}] = g[s \ {m + 1}] /\ h[s] = Step(g[s \ {m + 1}], text[m + 1])
        BY <2>1, <3>2
      <3> HIDE DEF h
      <3> QED BY <3>1, <3>3 DEF Value
    <2>2. CASE m + 1 \notin s
      <3>1. s \in SUBSET (1..m)
        BY <2>2
      <3>2. h[s] = g[s] /\ g[s] = Value(text, g, s)
        BY <2>2, <3>1 DEF Solves
      <3> HIDE DEF h
      <3>3. CASE s = {}
        BY <3>2, <3>3 DEF Value
      <3>4. CASE s # {}
        <4>1. h[s \ {Max(s)}] = g[s \ {Max(s)}]
          <5>1. s \ {Max(s)} \in SUBSET (1..m+1) /\ m + 1 \notin s \ {Max(s)}
            <6>1. \A x \in 1..m : x \in 1..m+1 /\ x # m + 1
              OBVIOUS
            <6> QED BY <3>1, <6>1, Zenon
          <5>2. \A x \in SUBSET (1..m+1) : m + 1 \notin x => h[x] = g[x]
            BY DEF h
          <5> QED BY <5>1, <5>2
        <4> QED BY <3>2, <3>4, <4>1 DEF Value
      <3> QED BY <3>3, <3>4
    <2> QED BY <2>1, <2>2
  <1>2. h = [s \in SUBSET (1..m+1) |-> h[s]]
    OBVIOUS
  <1> HIDE DEF h
  <1>3. Solves(text, h, m + 1)
    BY <1>1, <1>2 DEF Solves
  <1> QED BY <1>3

LEMMA SolutionExists ==
  ASSUME NEW text, NEW n \in Nat
  PROVE  \E g : Solves(text, g, n)
  <1> DEFINE T == {m \in Nat : ~\E g : Solves(text, g, m)}
  <1>1. SUFFICES ASSUME T # {} PROVE FALSE
    OBVIOUS
  <1>2. PICK m \in T : \A k \in T : m <= k
    BY <1>1, LeastExists
  <1>3. m \in Nat /\ ~\E g : Solves(text, g, m)
    OBVIOUS
  <1>4. CASE m = 0
    <2> DEFINE g == [s \in SUBSET (1..0) |-> Nothing]
    <2>1. \A s \in SUBSET (1..0) : s = {}
      OBVIOUS
    <2>2. \A s \in SUBSET (1..0) : Value(text, g, s) = Nothing
      BY <2>1 DEF Value
    <2>3. Solves(text, g, 0)
      BY <2>2 DEF Solves
    <2> QED BY <1>3, <1>4, <2>3
  <1>5. CASE m # 0
    <2>1. m - 1 \in Nat /\ m - 1 \notin T /\ (m - 1) + 1 = m
      BY <1>2, <1>3, <1>5
    <2>2. PICK g : Solves(text, g, m - 1)
      BY <2>1
    <2>3. \E h : Solves(text, h, m)
      BY <2>1, <2>2, SolutionGrows
    <2> QED BY <1>3, <2>3
  <1> QED BY <1>4, <1>5

(* Lines, read from left to right.                                             *)
LEMMA LinesFold ==
  ASSUME NEW S, NEW text \in Seq(S)
  PROVE  \E h : /\ h[0] = Nothing
                /\ \A k \in 1..Len(text) : h[k] = Step(h[k - 1], text[k])
                /\ Lines(text) = h[Len(text)]
  <1>1. DOMAIN text = 1..Len(text) /\ Len(text) \in Nat
    BY LenProperties
  <1> DEFINE g == CHOOSE g : Solves(text, g, Len(text))
             h == [k \in 0..Len(text) |-> g[1..k]]
  <1>2. Solves(text, g, Len(text))
    BY <1>1, SolutionExists
  <1>3. Lines(text) = g[1..Len(text)]
    BY <1>1 DEF Lines, FoldLeft, MapThenFoldSet, Solves, Value, Step, Nothing
  <1> HIDE DEF g
  <1>4. \A s \in SUBSET (1..Len(text)) : g[s] = Value(text, g, s)
    BY <1>2 DEF Solves
  <1>5. h[0] = Nothing
    <2>1. 1..0 = {} /\ 0 \in 0..Len(text) /\ {} \in SUBSET (1..Len(text))
      BY <1>1
    <2>2. g[{}] = Nothing
      BY <1>4, <2>1 DEF Value
    <2> QED BY <2>1, <2>2
  <1>6. ASSUME NEW k \in 1..Len(text) PROVE h[k] = Step(h[k - 1], text[k])
    <2>1. /\ 1..k \in SUBSET (1..Len(text)) /\ k \in 1..k /\ k \in Nat
          /\ (1..k) \ {k} = 1..(k - 1) /\ k \in 0..Len(text) /\ k - 1 \in 0..Len(text)
      BY <1>1
    <2>2. Max(1..k) = k /\ 1..k # {}
      BY <2>1, LastPlace
    <2>3. g[1..k] = Step(g[1..(k - 1)], text[k])
      BY <1>4, <2>1, <2>2 DEF Value
    <2> QED BY <2>1, <2>3
  <1>7. Lines(text) = h[Len(text)]
    BY <1>1, <1>3
  <1> HIDE DEF h
  <1> QED BY <1>5, <1>6, <1>7


(* Induction on the places of a text, with sets for predicates.                *)
LEMMA PlaceInduction ==
  ASSUME NEW n \in Nat, NEW T, 0 \in T, \A k \in 1..n : k - 1 \in T => k \in T
  PROVE  \A k \in 0..n : k \in T
  <1> DEFINE Rest == (0..n) \ T
  <1>1. SUFFICES ASSUME Rest # {} PROVE FALSE
    OBVIOUS
  <1>2. Rest \in SUBSET Nat
    OBVIOUS
  <1>3. PICK m \in Rest : \A k \in Rest : m <= k
    BY <1>1, <1>2, LeastExists
  <1>4. m \in 1..n /\ m \notin T
    OBVIOUS
  <1>5. m - 1 \in 0..n /\ m - 1 \notin Rest
    BY <1>3, <1>4
  <1> QED BY <1>4, <1>5

(* What one more character does to a text that is split.                       *)
LEMMA Appended ==
  ASSUME NEW S, NEW s \in Seq(S), NEW c \in S
  PROVE  /\ Append(s, c) \in Seq(S) /\ Len(Append(s, c)) = Len(s) + 1
         /\ \A k \in 1..Len(s) : Append(s, c)[k] = s[k]
         /\ Append(s, c)[Len(s) + 1] = c
  OBVIOUS

LEMMA PrefixStays ==
  ASSUME NEW S, NEW s \in Seq(S), NEW t \in Seq(S), Len(s) <= Len(t),
         \A k \in 1..Len(s) : t[k] = s[k],
         NEW m \in Int, m > 0, NEW n \in Int, n <= Len(s)
  PROVE  SubSeq(t, m, n) = SubSeq(s, m, n)
  <1>1. Len(s) \in Nat /\ Len(t) \in Nat
    BY LenProperties
  <1>2. \A k \in m..n : s[k] \in S /\ t[k] = s[k]
    BY <1>1
  <1>3. /\ SubSeq(s, m, n) \in Seq(S) /\ SubSeq(t, m, n) \in Seq(S)
        /\ Len(SubSeq(s, m, n)) = Len(SubSeq(t, m, n))
        /\ Len(SubSeq(s, m, n)) = IF m <= n THEN n - m + 1 ELSE 0
        /\ \A k \in 1..n - m + 1 : SubSeq(s, m, n)[k] = s[m + k - 1] /\ SubSeq(t, m, n)[k] = t[m + k - 1]
    BY <1>2, SubSeqProperties
  <1>4. \A k \in 1..Len(SubSeq(s, m, n)) : k \in 1..n - m + 1 /\ m + k - 1 \in m..n
    BY <1>3
  <1>5. \A k \in 1..Len(SubSeq(s, m, n)) : SubSeq(t, m, n)[k] = SubSeq(s, m, n)[k]
    BY <1>2, <1>3, <1>4
  <1> QED BY <1>3, <1>5, SeqEqual

LEMMA NothingSplits == Splits(<<>>, <<>>, <<>>)
  <1> DEFINE ends == {k \in 1..0 : <<>>[k].ch = "nl"}
             end == [k \in 0..0 |-> 0]
  <1>1. Len(<<>>) = 0
    OBVIOUS
  <1>2. ends = {}
    OBVIOUS
  <1>3. end \in [0..0 -> ends \cup {0}] /\ end[0] = 0 /\ ends = {end[k] : k \in 1..0}
    BY <1>2
  <1>4. SubSeq(<<>>, 1, 0) = <<>>
    BY SubSeqEmpty
  <1> HIDE DEF end
  <1> QED BY <1>1, <1>3, <1>4 DEF Splits


LEMMA SplitByCharacter ==
  ASSUME NEW S, NEW text \in Seq(S), NEW full \in Seq(Seq(S)), NEW rest \in Seq(S),
         Splits(text, full, rest), NEW c \in S, c.ch # "nl"
  PROVE  Splits(Append(text, c), full, Append(rest, c))
  <1> DEFINE longer == Append(text, c)
             n == Len(text)
             lines_ == Len(full)
             ends == {k \in 1..Len(text) : text[k].ch = "nl"}
             ends2 == {k \in 1..Len(longer) : longer[k].ch = "nl"}
  <1>1. /\ longer \in Seq(S) /\ Len(longer) = n + 1 /\ n \in Nat /\ lines_ \in Nat
        /\ \A k \in 1..n : longer[k] = text[k]
        /\ longer[n + 1] = c
    BY Appended, LenProperties
  <1>2. PICK end \in [0..lines_ -> ends \cup {0}] :
          /\ end[0] = 0 /\ ends = {end[k] : k \in 1..lines_}
          /\ \A k \in 1..lines_ :
               end[k - 1] < end[k] /\ full[k] = SubSeq(text, end[k - 1] + 1, end[k] - 1)
          /\ rest = SubSeq(text, end[lines_] + 1, n)
    BY DEF Splits
  <1> HIDE DEF longer
  <1>3. ends2 = ends
    BY <1>1
  <1>4. \A k \in 0..lines_ : end[k] \in 0..n
    BY <1>2
  <1>5. ASSUME NEW k \in 1..lines_
        PROVE  SubSeq(longer, end[k - 1] + 1, end[k] - 1) = SubSeq(text, end[k - 1] + 1, end[k] - 1)
    <2>a. k - 1 \in 0..lines_ /\ k \in 0..lines_
      BY <1>1
    <2>b. end[k - 1] \in 0..n /\ end[k] \in 0..n
      BY <1>4, <2>a
    <2>1. end[k - 1] + 1 \in Int /\ end[k - 1] + 1 > 0 /\ end[k] - 1 \in Int /\ end[k] - 1 <= n
      BY <1>1, <2>b
    <2>2. Len(text) <= Len(longer) /\ \A j \in 1..Len(text) : longer[j] = text[j]
      BY <1>1
    <2> DEFINE m == end[k - 1] + 1
               p == end[k] - 1
    <2>3. m \in Int /\ m > 0 /\ p \in Int /\ p <= Len(text)
      BY <2>1
    <2> HIDE DEF m, p
    <2>4. SubSeq(longer, m, p) = SubSeq(text, m, p)
      BY <1>1, <2>2, <2>3, PrefixStays, ZenonT(30)
    <2> QED BY <2>4 DEF m, p
  <1>6. SubSeq(longer, end[lines_] + 1, n + 1) = Append(rest, c)
    <2> DEFINE e == end[lines_]
    <2>1. e \in 0..n
      BY <1>1, <1>4
    <2> HIDE DEF e
    <2>2. \A k \in e + 1..n + 1 : longer[k] \in S
      BY <1>1, <2>1
    <2>3. /\ SubSeq(longer, e + 1, n + 1) \in Seq(S)
          /\ Len(SubSeq(longer, e + 1, n + 1)) = n + 1 - e
          /\ \A k \in 1..n + 1 - e : SubSeq(longer, e + 1, n + 1)[k] = longer[e + k]
      BY <1>1, <2>1, <2>2, SubSeqProperties
    <2>4. \A k \in e + 1..n : text[k] \in S
      BY <1>1, <2>1
    <2>5. /\ Len(SubSeq(text, e + 1, n)) = n - e
          /\ \A k \in 1..n - e : SubSeq(text, e + 1, n)[k] = text[e + k]
      BY <1>1, <2>1, <2>4, SubSeqProperties
    <2>6. rest = SubSeq(text, e + 1, n)
      BY <1>2 DEF e
    <2>7. /\ Append(rest, c) \in Seq(S) /\ Len(Append(rest, c)) = n + 1 - e
          /\ \A k \in 1..n - e : Append(rest, c)[k] = text[e + k]
          /\ Append(rest, c)[n - e + 1] = c
      BY <1>1, <2>1, <2>5, <2>6, Appended
    <2>8. \A k \in 1..n + 1 - e : SubSeq(longer, e + 1, n + 1)[k] = Append(rest, c)[k]
      <3> SUFFICES ASSUME NEW k \in 1..n + 1 - e
                   PROVE  longer[e + k] = Append(rest, c)[k]
        BY <2>3
      <3>1. CASE k \in 1..n - e
        <4>1. e + k \in 1..n
          BY <1>1, <2>1, <3>1
        <4>2. longer[e + k] = text[e + k] /\ Append(rest, c)[k] = text[e + k]
          BY <1>1, <2>7, <3>1, <4>1
        <4> QED BY <4>2
      <3>2. CASE k = n - e + 1
        <4>1. e + k = n + 1
          BY <1>1, <2>1, <3>2
        <4> QED BY <1>1, <2>7, <3>2, <4>1
      <3>3. k \in 1..n - e \/ k = n - e + 1
        BY <1>1, <2>1
      <3> QED BY <3>1, <3>2, <3>3
    <2>9. SubSeq(longer, e + 1, n + 1) = Append(rest, c)
      <3> DEFINE u == SubSeq(longer, e + 1, n + 1)
                 v == Append(rest, c)
      <3>1. u \in Seq(S) /\ v \in Seq(S) /\ Len(u) = n + 1 - e /\ Len(v) = n + 1 - e
        BY <2>3, <2>7
      <3>2. \A k \in 1..n + 1 - e : u[k] = v[k]
        BY <2>8
      <3> HIDE DEF u, v
      <3>3. u = v
        BY <3>1, <3>2, SeqEqual
      <3> QED BY <3>3 DEF u, v
    <2> QED BY <2>9 DEF e
  <1>7. \E end_ \in [0..lines_ -> ends2 \cup {0}] :
          /\ end_[0] = 0 /\ ends2 = {end_[k] : k \in 1..lines_}
          /\ \A k \in 1..lines_ :
               end_[k - 1] < end_[k] /\ full[k] = SubSeq(longer, end_[k - 1] + 1, end_[k] - 1)
          /\ Append(rest, c) = SubSeq(longer, end_[lines_] + 1, Len(longer))
    <2>1. end \in [0..lines_ -> ends2 \cup {0}] /\ ends2 = {end[k] : k \in 1..lines_}
      BY <1>2, <1>3
    <2>2. \A k \in 1..lines_ : full[k] = SubSeq(longer, end[k - 1] + 1, end[k] - 1)
      BY <1>2, <1>5
    <2>3. Append(rest, c) = SubSeq(longer, end[lines_] + 1, Len(longer))
      BY <1>1, <1>6
    <2> HIDE DEF ends2
    <2> QED BY <1>2, <2>1, <2>2, <2>3
  <1> QED BY <1>7 DEF Splits, longer


LEMMA SplitByNewline ==
  ASSUME NEW S, NEW text \in Seq(S), NEW full \in Seq(Seq(S)), NEW rest \in Seq(S),
         Splits(text, full, rest), NEW c \in S, c.ch = "nl"
  PROVE  Splits(Append(text, c), Append(full, rest), <<>>)
  <1> DEFINE longer == Append(text, c)
             more == Append(full, rest)
             n == Len(text)
             lines_ == Len(full)
             ends == {k \in 1..Len(text) : text[k].ch = "nl"}
             ends2 == {k \in 1..Len(longer) : longer[k].ch = "nl"}
  <1>1. /\ longer \in Seq(S) /\ Len(longer) = n + 1 /\ n \in Nat /\ lines_ \in Nat
        /\ \A k \in 1..n : longer[k] = text[k]
        /\ longer[n + 1] = c
    BY Appended, LenProperties
  <1>a. /\ Len(more) = lines_ + 1
        /\ \A k \in 1..lines_ : more[k] = full[k]
        /\ more[lines_ + 1] = rest
    BY Appended
  <1>2. PICK end \in [0..lines_ -> ends \cup {0}] :
          /\ end[0] = 0 /\ ends = {end[k] : k \in 1..lines_}
          /\ \A k \in 1..lines_ :
               end[k - 1] < end[k] /\ full[k] = SubSeq(text, end[k - 1] + 1, end[k] - 1)
          /\ rest = SubSeq(text, end[lines_] + 1, n)
    BY DEF Splits
  <1> HIDE DEF longer, more
  <1>3. ends2 = ends \cup {n + 1}
    <2>1. \A k \in 1..n + 1 : k \in 1..n \/ k = n + 1
      BY <1>1
    <2>2. \A k \in 1..n : k \in 1..n + 1
      BY <1>1
    <2>3. n + 1 \in 1..n + 1
      BY <1>1
    <2> QED BY <1>1, <2>1, <2>2, <2>3
  <1>4. \A k \in 0..lines_ : end[k] \in 0..n
    BY <1>2, SMTT(30)
  <1> DEFINE end2 == [k \in 0..lines_ + 1 |-> IF k = lines_ + 1 THEN n + 1 ELSE end[k]]
  <1>5. /\ \A k \in 0..lines_ : k \in 0..lines_ + 1 /\ k # lines_ + 1
        /\ lines_ + 1 \in 0..lines_ + 1
        /\ \A k \in 1..lines_ + 1 : k \in 1..lines_ \/ k = lines_ + 1
        /\ \A k \in 1..lines_ : k \in 1..lines_ + 1 /\ k \in 0..lines_ /\ k - 1 \in 0..lines_
        /\ \A k \in 0..lines_ + 1 : k \in 0..lines_ \/ k = lines_ + 1
        /\ lines_ \in 0..lines_ /\ 0 \in 0..lines_ /\ lines_ + 1 \in 1..lines_ + 1
        /\ (lines_ + 1) - 1 = lines_
    BY <1>1
  <1>6. (\A k \in 0..lines_ : end2[k] = end[k]) /\ end2[lines_ + 1] = n + 1
    BY <1>5
  <1>7. end2 \in [0..lines_ + 1 -> ends2 \cup {0}]
    BY <1>2, <1>3, <1>5
  <1> HIDE DEF end2
  <1>8. end2[0] = 0 /\ ends2 = {end2[k] : k \in 1..lines_ + 1}
    <2>1. end2[0] = 0
      BY <1>2, <1>5, <1>6
    <2>2. \A k \in 1..lines_ : end2[k] = end[k] /\ end2[k] \in ends
      BY <1>2, <1>5, <1>6
    <2>3. \A x \in ends : \E k \in 1..lines_ + 1 : x = end2[k]
      BY <1>2, <1>5, <2>2
    <2>4. \A k \in 1..lines_ + 1 : end2[k] \in ends \cup {n + 1}
      BY <1>5, <1>6, <2>2
    <2> HIDE DEF ends
    <2>5. \A x \in ends \cup {n + 1} : \E k \in 1..lines_ + 1 : x = end2[k]
      BY <1>5, <1>6, <2>3
    <2>6. ends \cup {n + 1} = {end2[k] : k \in 1..lines_ + 1}
      BY <2>4, <2>5
    <2> QED BY <1>3, <2>1, <2>6
  <1> HIDE DEF ends, ends2
  <1>9. ASSUME NEW k \in 0..lines_, NEW p \in Int, p <= n
        PROVE  SubSeq(longer, end[k] + 1, p) = SubSeq(text, end[k] + 1, p)
    <2> DEFINE m == end[k] + 1
    <2>1. m \in Int /\ m > 0
      BY <1>4
    <2>2. Len(text) <= Len(longer) /\ \A j \in 1..Len(text) : longer[j] = text[j]
      BY <1>1
    <2>3. p <= Len(text)
      BY <1>9
    <2> HIDE DEF m
    <2>4. SubSeq(longer, m, p) = SubSeq(text, m, p)
      BY <1>1, <2>1, <2>2, <2>3, PrefixStays, ZenonT(30)
    <2> QED BY <2>4 DEF m
  <1>10. ASSUME NEW k \in 1..lines_ + 1
         PROVE  end2[k - 1] < end2[k] /\ more[k] = SubSeq(longer, end2[k - 1] + 1, end2[k] - 1)
    <2>1. CASE k \in 1..lines_
      <3>1. end2[k - 1] = end[k - 1] /\ end2[k] = end[k] /\ k - 1 \in 0..lines_
        BY <1>5, <1>6, <2>1
      <3>2. end[k] - 1 \in Int /\ end[k] - 1 <= n
        <4>1. end[k] \in 0..n
          BY <1>4, <1>5, <2>1
        <4> QED BY <1>1, <4>1
      <3>3. SubSeq(longer, end[k - 1] + 1, end[k] - 1) = SubSeq(text, end[k - 1] + 1, end[k] - 1)
        BY <1>9, <3>1, <3>2
      <3>4. end[k - 1] < end[k] /\ more[k] = SubSeq(text, end[k - 1] + 1, end[k] - 1)
        BY <1>2, <1>a, <2>1
      <3> QED BY <3>1, <3>3, <3>4
    <2>2. CASE k = lines_ + 1
      <3>1. end2[k - 1] = end[lines_] /\ end2[k] = n + 1 /\ end[lines_] \in 0..n
        BY <1>4, <1>5, <1>6, <2>2
      <3>2. SubSeq(longer, end[lines_] + 1, n) = SubSeq(text, end[lines_] + 1, n)
        <4>1. n \in Int /\ n <= n
          BY <1>1
        <4> QED BY <1>5, <1>9, <4>1
      <3>3. more[k] = SubSeq(longer, end[lines_] + 1, n) /\ (n + 1) - 1 = n
        <4>1. more[k] = rest
          BY <1>a, <2>2
        <4>2. rest = SubSeq(text, end[lines_] + 1, n)
          BY <1>2
        <4>3. (n + 1) - 1 = n
          BY <1>1
        <4> QED BY <3>2, <4>1, <4>2, <4>3
      <3>4. end[lines_] < n + 1
        BY <1>1, <3>1
      <3> QED BY <3>1, <3>3, <3>4
    <2> QED BY <1>5, <2>1, <2>2
  <1>11. <<>> = SubSeq(longer, end2[lines_ + 1] + 1, Len(longer))
    <2>1. n + 1 + 1 \in Int /\ n + 1 \in Int /\ n + 1 < n + 1 + 1
      BY <1>1
    <2>2. SubSeq(longer, n + 1 + 1, n + 1) = <<>>
      BY <2>1, SubSeqEmpty
    <2> QED BY <1>1, <1>6, <2>2
  <1>12. \E end_ \in [0..Len(more) -> ends2 \cup {0}] :
           /\ end_[0] = 0 /\ ends2 = {end_[k] : k \in 1..Len(more)}
           /\ \A k \in 1..Len(more) :
                end_[k - 1] < end_[k] /\ more[k] = SubSeq(longer, end_[k - 1] + 1, end_[k] - 1)
           /\ <<>> = SubSeq(longer, end_[Len(more)] + 1, Len(longer))
    <2> SUFFICES \E end_ \in [0..lines_ + 1 -> ends2 \cup {0}] :
           /\ end_[0] = 0 /\ ends2 = {end_[k] : k \in 1..lines_ + 1}
           /\ \A k \in 1..lines_ + 1 :
                end_[k - 1] < end_[k] /\ more[k] = SubSeq(longer, end_[k - 1] + 1, end_[k] - 1)
           /\ <<>> = SubSeq(longer, end_[lines_ + 1] + 1, Len(longer))
      BY <1>a
    <2> WITNESS end2 \in [0..lines_ + 1 -> ends2 \cup {0}]
    <2> QED BY <1>7, <1>8, <1>10, <1>11
  <1> QED BY <1>12 DEF Splits, longer, more, ends2


LEMMA ConcatAppend ==
  ASSUME NEW S, NEW s \in Seq(S), NEW t \in Seq(S), NEW c \in S
  PROVE  s \o Append(t, c) = Append(s \o t, c)
  OBVIOUS

LEMMA NextPrefix ==
  ASSUME NEW S, NEW s \in Seq(S), NEW k \in 1..Len(s)
  PROVE  /\ SubSeq(s, 1, k - 1) \in Seq(S) /\ s[k] \in S
         /\ SubSeq(s, 1, k) = Append(SubSeq(s, 1, k - 1), s[k])
  <1>1. Len(s) \in Nat /\ k \in Nat /\ s[k] \in S
    BY LenProperties, ElementOfSeq
  <1>2. (\A j \in 1..k : s[j] \in S) /\ (\A j \in 1..k - 1 : s[j] \in S)
    BY <1>1
  <1>3. /\ SubSeq(s, 1, k - 1) \in Seq(S) /\ Len(SubSeq(s, 1, k - 1)) = k - 1
        /\ \A j \in 1..k - 1 : SubSeq(s, 1, k - 1)[j] = s[j]
    <2>1. /\ SubSeq(s, 1, k - 1) \in Seq(S)
          /\ Len(SubSeq(s, 1, k - 1)) = IF 1 <= k - 1 THEN (k - 1) - 1 + 1 ELSE 0
          /\ \A j \in 1..(k - 1) - 1 + 1 : SubSeq(s, 1, k - 1)[j] = s[1 + j - 1]
      BY <1>1, <1>2, SubSeqProperties
    <2> QED BY <1>1, <2>1
  <1>4. /\ SubSeq(s, 1, k) \in Seq(S) /\ Len(SubSeq(s, 1, k)) = k
        /\ \A j \in 1..k : SubSeq(s, 1, k)[j] = s[j]
    <2>1. /\ SubSeq(s, 1, k) \in Seq(S)
          /\ Len(SubSeq(s, 1, k)) = IF 1 <= k THEN k - 1 + 1 ELSE 0
          /\ \A j \in 1..k - 1 + 1 : SubSeq(s, 1, k)[j] = s[1 + j - 1]
      BY <1>1, <1>2, SubSeqProperties
    <2> QED BY <1>1, <2>1
  <1> DEFINE shorter == SubSeq(s, 1, k - 1)
             longer == SubSeq(s, 1, k)
  <1> HIDE DEF shorter, longer
  <1>5. /\ Append(shorter, s[k]) \in Seq(S) /\ Len(Append(shorter, s[k])) = k
        /\ \A j \in 1..k - 1 : Append(shorter, s[k])[j] = shorter[j]
        /\ Append(shorter, s[k])[k] = s[k]
    <2>1. shorter \in Seq(S) /\ Len(shorter) = k - 1 /\ (k - 1) + 1 = k
      BY <1>1, <1>3 DEF shorter
    <2> QED BY <1>1, <2>1, Appended
  <1>6. \A j \in 1..k : j \in 1..k - 1 \/ j = k
    BY <1>1
  <1>7. \A j \in 1..k : longer[j] = Append(shorter, s[k])[j]
    BY <1>3, <1>4, <1>5, <1>6 DEF shorter, longer
  <1>8. longer = Append(shorter, s[k])
    BY <1>4, <1>5, <1>7, SeqEqual DEF longer
  <1> QED BY <1>1, <1>3, <1>8 DEF shorter, longer

(* One round of the loop.                                                      *)
Rounds(S) == [full : Seq(Seq(S)), rest : Seq(S)]
NoEnd(s) == \A k \in 1..Len(s) : s[k].ch # "nl"

LEMMA StepIs ==
  ASSUME NEW S, NEW acc \in Rounds(S), NEW c \in S
  PROVE  /\ Step(acc, c) \in Rounds(S)
         /\ c.ch = "nl" => /\ Step(acc, c).full = Append(acc.full, acc.rest)
                           /\ Step(acc, c).rest = <<>>
         /\ c.ch # "nl" => /\ Step(acc, c).full = acc.full
                           /\ Step(acc, c).rest = Append(acc.rest, c)
  <1>1. acc.full \in Seq(Seq(S)) /\ acc.rest \in Seq(S)
    BY DEF Rounds
  <1>2. /\ Append(acc.full, acc.rest) \in Seq(Seq(S)) /\ Append(acc.rest, c) \in Seq(S)
        /\ <<>> \in Seq(S)
    BY <1>1
  <1>3. CASE c.ch = "nl"
    BY <1>2, <1>3 DEF Step, Rounds
  <1>4. CASE c.ch # "nl"
    BY <1>1, <1>2, <1>4 DEF Step, Rounds
  <1> QED BY <1>3, <1>4

LEMMA NothingIs == \A S : /\ Nothing \in Rounds(S) /\ Nothing.full = <<>> /\ Nothing.rest = <<>>
  BY DEF Nothing, Rounds


(* The loop over what is held and what has come goes on where it stopped: what  *)
(* was heard before it is printed once.                                           *)
LEMMA LinesGoOn ==
  ASSUME NEW S, NEW before \in Seq(S), NEW full \in Seq(Seq(S)), NEW held \in Seq(S),
         Splits(before, full, held), NEW got \in Seq(S), NoEnd(held)
  PROVE  LET cut == Lines(held \o got)
         IN  /\ cut \in Rounds(S)
             /\ Splits(before \o got, full \o cut.full, cut.rest)
             /\ NoEnd(cut.rest)
             /\ Len(cut.rest) <= Len(held) + Len(got)
             /\ got # <<>> /\ got[Len(got)].ch = "nl" => cut.rest = <<>>
  <1> DEFINE text == held \o got
             m == Len(held)
             n == Len(got)
  <1>1. m \in Nat /\ n \in Nat
    BY LenProperties
  <1>2. /\ text \in Seq(S) /\ Len(text) = m + n
        /\ \A k \in 1..m + n : text[k] = IF k <= m THEN held[k] ELSE got[k - m]
    BY ConcatProperties
  <1>3. /\ \A k \in 1..m : text[k] = held[k]
        /\ \A k \in 1..n : text[m + k] = got[k]
    <2>1. \A k \in 1..m : k \in 1..m + n /\ k <= m
      BY <1>1
    <2>2. \A k \in 1..n : m + k \in 1..m + n /\ ~(m + k <= m) /\ (m + k) - m = k
      BY <1>1
    <2> QED BY <1>2, <2>1, <2>2
  <1>4. \A k \in 1..m + n : text[k] \in S
    BY <1>2, ElementOfSeq
  <1> HIDE DEF text
  <1>5. PICK h : /\ h[0] = Nothing
                 /\ \A k \in 1..m + n : h[k] = Step(h[k - 1], text[k])
                 /\ Lines(text) = h[m + n]
    BY <1>2, LinesFold
  <1>6. \A k \in 0..m + n : h[k] \in Rounds(S) /\ Len(h[k].rest) <= k /\ NoEnd(h[k].rest)
    <2> DEFINE T == {k \in 0..m + n :
                       h[k] \in Rounds(S) /\ Len(h[k].rest) <= k /\ NoEnd(h[k].rest)}
    <2>1. 0 \in T
      <3>1. h[0] \in Rounds(S) /\ h[0].rest = <<>>
        BY <1>5, NothingIs
      <3>2. Len(h[0].rest) = 0 /\ NoEnd(h[0].rest) /\ 0 \in 0..m + n
        BY <1>1, <3>1 DEF NoEnd
      <3> QED BY <3>1, <3>2
    <2>2. ASSUME NEW k \in 1..m + n, k - 1 \in T PROVE k \in T
      <3>1. h[k] = Step(h[k - 1], text[k]) /\ h[k - 1] \in Rounds(S) /\ text[k] \in S
        BY <1>4, <1>5, <2>2
      <3>2. Len(h[k - 1].rest) <= k - 1 /\ NoEnd(h[k - 1].rest) /\ h[k - 1].rest \in Seq(S)
        BY <2>2, <3>1 DEF Rounds
      <3>3. h[k] \in Rounds(S) /\ k \in 0..m + n /\ k \in Nat
        BY <1>1, <3>1, StepIs
      <3>4. CASE text[k].ch = "nl"
        <4>1. h[k].rest = <<>>
          BY <3>1, <3>4, StepIs
        <4>2. Len(h[k].rest) <= k /\ NoEnd(h[k].rest)
          BY <3>3, <4>1 DEF NoEnd
        <4> QED BY <3>3, <4>2
      <3>5. CASE text[k].ch # "nl"
        <4>1. h[k].rest = Append(h[k - 1].rest, text[k])
          <5>1. Step(h[k - 1], text[k]).rest = Append(h[k - 1].rest, text[k])
            BY <3>1, <3>5, StepIs
          <5> QED BY <3>1, <5>1
        <4> DEFINE r == h[k - 1].rest
        <4>2. /\ Len(h[k].rest) = Len(r) + 1
              /\ \A j \in 1..Len(r) : h[k].rest[j] = r[j]
              /\ h[k].rest[Len(r) + 1] = text[k] /\ Len(r) \in Nat
          <5> DEFINE c == text[k]
          <5>1. r \in Seq(S) /\ c \in S /\ h[k].rest = Append(r, c)
            BY <3>1, <3>2, <4>1
          <5> HIDE DEF r, c
          <5>2. /\ Len(Append(r, c)) = Len(r) + 1
                /\ \A j \in 1..Len(r) : Append(r, c)[j] = r[j]
                /\ Append(r, c)[Len(r) + 1] = c /\ Len(r) \in Nat
            BY <5>1, Appended, LenProperties
          <5> QED BY <5>1, <5>2 DEF c
        <4>3. \A j \in 1..Len(r) + 1 : j \in 1..Len(r) \/ j = Len(r) + 1
          BY <4>2
        <4>4. NoEnd(h[k].rest)
          BY <3>2, <3>5, <4>2, <4>3 DEF NoEnd
        <4>5. Len(h[k].rest) <= k
          BY <3>2, <3>3, <4>2
        <4> QED BY <3>3, <4>4, <4>5
      <3> QED BY <3>4, <3>5
    <2>3. m + n \in Nat
      BY <1>1
    <2> HIDE DEF T
    <2>4. \A k \in 0..m + n : k \in T
      BY <2>1, <2>2, <2>3, PlaceInduction
    <2> QED BY <2>4 DEF T
  <1>7. h[m].full = <<>> /\ h[m].rest = held
    <2> DEFINE Copied(k) == /\ h[k].full = <<>> /\ Len(h[k].rest) = k
                            /\ \A j \in 1..k : h[k].rest[j] = held[j]
               T == {k \in 0..m : Copied(k)}
    <2>1. 0 \in T
      <3>1. h[0].full = <<>> /\ h[0].rest = <<>>
        BY <1>5, NothingIs
      <3>2. Len(h[0].rest) = 0 /\ 0 \in 0..m
        BY <1>1, <3>1
      <3> QED BY <3>1, <3>2
    <2>2. ASSUME NEW k \in 1..m, k - 1 \in T PROVE k \in T
      <3>1. k \in 1..m + n /\ k - 1 \in 0..m + n /\ k \in 0..m /\ k \in Nat
        BY <1>1
      <3>2. h[k] = Step(h[k - 1], text[k]) /\ h[k - 1] \in Rounds(S) /\ text[k] \in S
        BY <1>4, <1>5, <1>6, <3>1
      <3>3. text[k] = held[k] /\ text[k].ch # "nl"
        BY <1>3 DEF NoEnd
      <3>4. h[k].full = h[k - 1].full /\ h[k].rest = Append(h[k - 1].rest, text[k])
        <4>1. /\ Step(h[k - 1], text[k]).full = h[k - 1].full
              /\ Step(h[k - 1], text[k]).rest = Append(h[k - 1].rest, text[k])
          BY <3>2, <3>3, StepIs
        <4> QED BY <3>2, <4>1
      <3> DEFINE r == h[k - 1].rest
      <3>5. r \in Seq(S) /\ Len(r) = k - 1 /\ h[k - 1].full = <<>>
            /\ \A j \in 1..k - 1 : r[j] = held[j]
        BY <2>2, <3>2 DEF Rounds
      <3> HIDE DEF r
      <3>6. /\ Len(Append(r, text[k])) = k
            /\ \A j \in 1..k - 1 : Append(r, text[k])[j] = held[j]
            /\ Append(r, text[k])[k] = held[k]
        <4>1. (k - 1) + 1 = k
          BY <3>1
        <4> QED BY <3>2, <3>3, <3>5, <4>1, Appended
      <3>7. \A j \in 1..k : j \in 1..k - 1 \/ j = k
        BY <3>1
      <3>8. Copied(k)
        BY <3>4, <3>5, <3>6, <3>7 DEF r
      <3> QED BY <3>1, <3>8
    <2> HIDE DEF T
    <2>3. \A k \in 0..m : k \in T
      BY <1>1, <2>1, <2>2, PlaceInduction
    <2>4. Copied(m)
      BY <1>1, <2>3 DEF T
    <2>5. h[m].rest \in Seq(S)
      BY <1>1, <1>6 DEF Rounds
    <2>6. h[m].rest = held
      BY <2>4, <2>5, SeqEqual
    <2> QED BY <2>4, <2>6
  <1>8. \A k \in 0..n : Splits(before \o SubSeq(got, 1, k), full \o h[m + k].full, h[m + k].rest)
    <2> DEFINE T == {k \in 0..n :
                 Splits(before \o SubSeq(got, 1, k), full \o h[m + k].full, h[m + k].rest)}
    <2>1. 0 \in T
      <3>1. SubSeq(got, 1, 0) = <<>>
        BY SubSeqEmpty
      <3>2. before \o <<>> = before /\ full \o <<>> = full /\ m + 0 = m /\ 0 \in 0..n
        BY <1>1, ConcatEmptySeq
      <3>3. Splits(before \o SubSeq(got, 1, 0), full \o h[m + 0].full, h[m + 0].rest)
        BY <1>7, <3>1, <3>2
      <3> QED BY <3>2, <3>3
    <2>2. ASSUME NEW k \in 1..n, k - 1 \in T PROVE k \in T
      <3>1. /\ m + k \in 1..m + n /\ (m + k) - 1 = m + (k - 1) /\ m + (k - 1) \in 0..m + n
            /\ k \in 0..n
        BY <1>1
      <3> DEFINE acc == h[m + (k - 1)]
                 sofar == before \o SubSeq(got, 1, k - 1)
                 printed_ == full \o acc.full
                 c == got[k]
      <3>2. h[m + k] = Step(acc, c) /\ acc \in Rounds(S) /\ c \in S
        BY <1>3, <1>4, <1>5, <1>6, <3>1
      <3>3. /\ SubSeq(got, 1, k - 1) \in Seq(S)
            /\ SubSeq(got, 1, k) = Append(SubSeq(got, 1, k - 1), c)
        BY NextPrefix
      <3>4. sofar \in Seq(S) /\ before \o SubSeq(got, 1, k) = Append(sofar, c)
        BY <3>2, <3>3, ConcatAppend, ConcatProperties, SMTT(30)
      <3>5. acc.full \in Seq(Seq(S)) /\ acc.rest \in Seq(S)
        BY <3>2 DEF Rounds
      <3> HIDE DEF acc
      <3>6. printed_ \in Seq(Seq(S)) /\ full \o Append(acc.full, acc.rest) = Append(printed_, acc.rest)
        <4>1. full \o Append(acc.full, acc.rest) = Append(full \o acc.full, acc.rest)
          <5> DEFINE L == Seq(S)
                     a == acc.full
                     b == acc.rest
          <5>1. full \in Seq(L) /\ a \in Seq(L) /\ b \in L
            BY <3>5
          <5> HIDE DEF L, a, b
          <5>2. full \o Append(a, b) = Append(full \o a, b)
            BY <5>1, ConcatAppend
          <5> QED BY <5>2 DEF a, b
        <4>2. full \o acc.full \in Seq(Seq(S))
          BY <3>5, ConcatProperties
        <4> QED BY <4>1, <4>2
      <3>7. Splits(sofar, printed_, acc.rest)
        BY <2>2 DEF acc
      <3> HIDE DEF acc, sofar, printed_, c
      <3>8. CASE c.ch = "nl"
        <4>1. h[m + k].full = Append(acc.full, acc.rest) /\ h[m + k].rest = <<>>
          <5>1. Step(acc, c).full = Append(acc.full, acc.rest) /\ Step(acc, c).rest = <<>>
            BY <3>2, <3>8, StepIs
          <5> QED BY <3>2, <5>1
        <4>2. Splits(Append(sofar, c), Append(printed_, acc.rest), <<>>)
          BY <3>2, <3>4, <3>5, <3>6, <3>7, <3>8, SplitByNewline
        <4>3. Splits(before \o SubSeq(got, 1, k), full \o h[m + k].full, h[m + k].rest)
          BY <3>4, <3>6, <4>1, <4>2
        <4> QED BY <3>1, <4>3
      <3>9. CASE c.ch # "nl"
        <4>1. h[m + k].full = acc.full /\ h[m + k].rest = Append(acc.rest, c)
          <5>1. Step(acc, c).full = acc.full /\ Step(acc, c).rest = Append(acc.rest, c)
            BY <3>2, <3>9, StepIs
          <5> QED BY <3>2, <5>1
        <4>2. Splits(Append(sofar, c), printed_, Append(acc.rest, c))
          BY <3>2, <3>4, <3>5, <3>6, <3>7, <3>9, SplitByCharacter
        <4>3. Splits(before \o SubSeq(got, 1, k), full \o h[m + k].full, h[m + k].rest)
          BY <3>4, <4>1, <4>2 DEF printed_
        <4> QED BY <3>1, <4>3
      <3> QED BY <3>8, <3>9
    <2> HIDE DEF T
    <2>3. \A k \in 0..n : k \in T
      BY <1>1, <2>1, <2>2, PlaceInduction
    <2> QED BY <2>3 DEF T
  <1> DEFINE cut == Lines(text)
  <1>9. cut = h[m + n]
    BY <1>5
  <1>10. /\ m + n \in 0..m + n /\ n \in 0..n
    BY <1>1
  <1>11. SubSeq(got, 1, n) = got
    <2>1. \A k \in 1..n : got[k] \in S
      BY ElementOfSeq
    <2>2. /\ SubSeq(got, 1, n) \in Seq(S)
          /\ Len(SubSeq(got, 1, n)) = IF 1 <= n THEN n - 1 + 1 ELSE 0
          /\ \A k \in 1..n - 1 + 1 : SubSeq(got, 1, n)[k] = got[1 + k - 1]
      BY <1>1, <2>1, SubSeqProperties
    <2>3. Len(SubSeq(got, 1, n)) = n /\ \A k \in 1..n : SubSeq(got, 1, n)[k] = got[k]
      BY <1>1, <2>2
    <2> QED BY <2>2, <2>3, SeqEqual
  <1>12. ASSUME got # <<>>, got[n].ch = "nl" PROVE cut.rest = <<>>
    <2>1. n \in 1..n
      BY <1>1, <1>12, EmptySeq
    <2>2. m + n \in 1..m + n /\ (m + n) - 1 \in 0..m + n
      BY <1>1, <2>1
    <2>3. /\ cut = Step(h[m + n - 1], text[m + n]) /\ h[m + n - 1] \in Rounds(S)
          /\ text[m + n] \in S /\ text[m + n].ch = "nl"
      BY <1>3, <1>4, <1>5, <1>6, <1>12, <2>1, <2>2
    <2> QED BY <2>3, StepIs
  <1>13. Splits(before \o got, full \o cut.full, cut.rest)
    BY <1>8, <1>9, <1>10, <1>11
  <1>14. cut \in Rounds(S) /\ Len(cut.rest) <= m + n /\ NoEnd(cut.rest)
    BY <1>6, <1>9, <1>10
  <1> QED BY <1>12, <1>13, <1>14 DEF text


-----------------------------------------------------------------------------
(* recvline.                                                                *)

Peers == Senders \cup {Receiver}
Marks(P) == [by : P, ch : Char]

LEMMA FirstIs ==
  ASSUME NEW S, NEW s \in Seq(S), NEW n \in Nat
  PROVE  /\ First(s, n) \in Seq(S) /\ Len(First(s, n)) <= n /\ Len(First(s, n)) <= Len(s)
         /\ \A k \in 1..Len(First(s, n)) : First(s, n)[k] = s[k]
  <1> DEFINE m == IF Len(s) < n THEN Len(s) ELSE n
  <1>1. Len(s) \in Nat /\ m \in Nat /\ m <= n /\ m <= Len(s)
    BY LenProperties
  <1>2. First(s, n) = SubSeq(s, 1, m)
    BY DEF First
  <1> HIDE DEF m
  <1>3. \A k \in 1..m : s[k] \in S
    BY <1>1, ElementOfSeq
  <1>4. /\ SubSeq(s, 1, m) \in Seq(S)
        /\ Len(SubSeq(s, 1, m)) = IF 1 <= m THEN m - 1 + 1 ELSE 0
        /\ \A k \in 1..m - 1 + 1 : SubSeq(s, 1, m)[k] = s[1 + k - 1]
    BY <1>1, <1>3, SubSeqProperties
  <1>5. Len(SubSeq(s, 1, m)) = m /\ \A k \in 1..m : SubSeq(s, 1, m)[k] = s[k]
    BY <1>1, <1>4
  <1> QED BY <1>1, <1>2, <1>4, <1>5

LEMMA StringIs ==
  ASSUME NEW S, NEW s \in Seq(S)
  PROVE  /\ String(s) \in Seq(S) /\ Len(String(s)) <= Len(s)
         /\ \A k \in 1..Len(String(s)) : String(s)[k] = s[k]
  <1> DEFINE ends == {k \in 1..Len(s) : s[k].ch = "nul"}
             e == CHOOSE k \in ends : \A m \in ends : k <= m
  <1>1. Len(s) \in Nat
    BY LenProperties
  <1>2. CASE ends = {}
    <2>1. String(s) = s
      BY <1>2 DEF String
    <2> QED BY <1>1, <2>1
  <1>3. CASE ends # {}
    <2>1. ends \in SUBSET Nat
      BY <1>1
    <2>2. \E k \in ends : \A m \in ends : k <= m
      BY <1>3, <2>1, LeastExists
    <2>3. e \in ends
      BY <2>2
    <2>4. e - 1 \in Nat
      BY <1>1, <2>3
    <2>5. String(s) = First(s, e - 1)
      BY <1>3 DEF String
    <2> HIDE DEF e
    <2> QED BY <2>4, <2>5, FirstIs
  <1> QED BY <1>2, <1>3

(* What one datagram brings: at most a buffer full of its sender's characters. *)
Got(d) == [k \in 1..Len(First(d.data, RecvSize)) |-> [by |-> d.from, ch |-> d.data[k]]]

LEMMA GotIs ==
  ASSUME NEW d, d.data \in Seq(Char)
  PROVE  /\ Got(d) \in Seq(Marks({d.from})) /\ Len(Got(d)) <= RecvSize
         /\ String(Got(d)) \in Seq(Marks({d.from}))
         /\ Len(String(Got(d))) <= Len(Got(d))
  <1>1. RecvSize \in Nat
    BY PairAssumption DEF PairAssumption
  <1> DEFINE n == Len(First(d.data, RecvSize))
  <1>2. n \in Nat /\ n <= RecvSize /\ n <= Len(d.data)
    BY <1>1, FirstIs, LenProperties
  <1>3. \A k \in 1..n : d.data[k] \in Char
    <2>1. \A k \in 1..n : k \in 1..Len(d.data)
      BY <1>2, LenProperties
    <2> QED BY <2>1, ElementOfSeq
  <1> HIDE DEF n
  <1>4. Got(d) = [k \in 1..n |-> [by |-> d.from, ch |-> d.data[k]]]
    BY DEF Got, n
  <1>5. \A k \in 1..n : [by |-> d.from, ch |-> d.data[k]] \in Marks({d.from})
    BY <1>3 DEF Marks
  <1>6. Got(d) \in Seq(Marks({d.from})) /\ Len(Got(d)) = n
    <2> DEFINE M == Marks({d.from})
    <2>1. Got(d) \in [1..n -> M]
      BY <1>4, <1>5
    <2> HIDE DEF M
    <2>2. Got(d) \in Seq(M) /\ Len(Got(d)) = n
      BY <1>2, <2>1
    <2> QED BY <2>2 DEF M
  <1> QED BY <1>2, <1>6, StringIs

(* The strengthening of PrintedIsHeard and HarmNeedsRagged: no complete line    *)
(* is held, and what is held came in ragged datagrams only.                       *)
Received ==
  /\ net \subseteq [from : Peers, to : Peers, data : Seq(Char)]
  /\ last \in Peers
  /\ status \in {"running", "exited", "undefined"}
  /\ lines \in Seq(Marks(Peers)) /\ heard \in Seq(Marks(Peers))
  /\ printed \in Seq(Seq(Marks(Peers)))
  /\ ragged \in Nat
  /\ NoEnd(lines)
  /\ Len(lines) <= ragged * RecvSize
  /\ PrintedIsHeard
  /\ HarmNeedsRagged


LEMMA ReceivedInit == Init => Received
  <1> SUFFICES ASSUME Init PROVE Received
    OBVIOUS
  <1>1. /\ net = {} /\ status = "running" /\ lines = <<>> /\ last = Receiver
        /\ printed = <<>> /\ heard = <<>> /\ ragged = 0
    BY DEF Init
  <1>2. RecvSize \in Nat
    BY PairAssumption DEF PairAssumption
  <1>3. PrintedIsHeard
    BY <1>1, NothingSplits DEF PrintedIsHeard
  <1>4. HarmNeedsRagged
    BY <1>1 DEF HarmNeedsRagged
  <1>5. NoEnd(lines) /\ Len(lines) <= ragged * RecvSize
    BY <1>1, <1>2 DEF NoEnd
  <1>6. /\ lines \in Seq(Marks(Peers)) /\ heard \in Seq(Marks(Peers))
        /\ printed \in Seq(Seq(Marks(Peers)))
    BY <1>1
  <1> QED BY <1>1, <1>3, <1>4, <1>5, <1>6 DEF Received, Peers

(* A datagram and its data on the way.                                         *)
LEMMA NetStays ==
  ASSUME NEW W, net \subseteq W, NEW d \in net, NEW sent \in SUBSET W, Deliver(d, sent)
  PROVE  net' \subseteq W
  BY DEF Deliver

LEMMA ChunksAre ==
  ASSUME NEW s \in Senders, NEW output \in Seq(Char)
  PROVE  Chunks(s, output) \subseteq [from : Peers, to : Peers, data : Seq(Char)]
  <1> DEFINE text == Append(output, "ff")
             ending(k) == IF k + OutSize - 1 < Len(text) THEN k + OutSize - 1 ELSE Len(text)
  <1>1. OutSize \in Nat
    BY PairAssumption DEF PairAssumption
  <1>2. text \in Seq(Char) /\ Len(text) \in Nat
    BY LenProperties DEF Char
  <1> HIDE DEF text
  <1>3. ASSUME NEW k \in 1..Len(text) PROVE SubSeq(text, k, ending(k)) \in Seq(Char)
    <2>1. ending(k) \in Int /\ ending(k) <= Len(text)
      BY <1>1, <1>2
    <2> HIDE DEF ending
    <2>2. \A j \in k..ending(k) : j \in 1..Len(text)
      BY <1>2, <2>1
    <2>3. \A j \in k..ending(k) : text[j] \in Char
      BY <1>2, <2>2, ElementOfSeq
    <2> QED BY <1>2, <2>1, <2>3, SubSeqProperties
  <1>4. \A k \in 1..Len(text) :
          Datagram(s, Receiver, SubSeq(text, k, ending(k)))
            \in [from : Peers, to : Peers, data : Seq(Char)]
    BY <1>3 DEF Datagram, Peers
  <1> QED BY <1>4 DEF Chunks, text

LEMMA Products ==
  ASSUME NEW a \in Nat, NEW b \in Nat, NEW c \in Nat, a <= b
  PROVE  a * c \in Nat /\ b * c \in Nat /\ a * c <= b * c /\ (a + 1) * c = a * c + c
  <1>1. PICK e \in Nat : b = a + e
    <2>1. b - a \in Nat /\ b = a + (b - a)
      OBVIOUS
    <2> QED BY <2>1
  <1>2. e * c \in Nat /\ a * c \in Nat
    OBVIOUS
  <1>3. (a + e) * c = a * c + e * c
    OBVIOUS
  <1> QED BY <1>1, <1>2, <1>3

(* What recv_handler of recvline leaves, by its cases.                         *)
LEMMA RecvlineReceives ==
  ASSUME Received, NEW d \in net, recvline_recv(d)
  PROVE  Received'
  <1> DEFINE M == Marks(Peers)
             W == [from : Peers, to : Peers, data : Seq(Char)]
             got == Got(d)
             new == String(got)
             cut == Lines(lines \o new)
  <1>1. /\ net \subseteq W /\ last \in Peers /\ ragged \in Nat
        /\ lines \in Seq(M) /\ heard \in Seq(M) /\ printed \in Seq(Seq(M))
        /\ NoEnd(lines) /\ Len(lines) <= ragged * RecvSize
    BY DEF Received
  <1>2. d \in W /\ d.from \in Peers /\ d.data \in Seq(Char)
    BY <1>1
  <1>3. /\ RecvSize \in Nat /\ LinesSize \in Nat
    BY PairAssumption DEF PairAssumption
  <1>4. /\ new \in Seq(Marks({d.from})) /\ Len(new) <= Len(got) /\ Len(got) <= RecvSize
        /\ Len(got) \in Nat /\ Len(new) \in Nat
    BY <1>2, GotIs, LenProperties
  <1>5. new \in Seq(M)
    <2>1. Marks({d.from}) \subseteq M
      BY <1>2 DEF Marks
    <2> QED BY <1>4, <2>1, SeqMonotonic
  <1>6. status = "running" /\ PrintedIsHeard
    BY DEF Received, recvline_recv
  <1>7. /\ heard' = heard \o new
        /\ ragged' = ragged + (IF EndsLine(new) THEN 0 ELSE 1)
        /\ last' = d.from
        /\ IF Len(lines) + Len(got) > LinesSize - 1
             THEN status' = "undefined" /\ UNCHANGED <<lines, printed>>
             ELSE /\ lines' = cut.rest
                  /\ printed' = printed \o cut.full
                  /\ status' \in {"running", "exited"}
    BY <1>6 DEF recvline_recv, Got
  <1>8. net' \subseteq W
    <2>1. Deliver(d, {})
      BY DEF recvline_recv
    <2>2. {} \in SUBSET W
      OBVIOUS
    <2> HIDE DEF W
    <2> QED BY <1>1, <2>1, <2>2, NetStays
  <1> HIDE DEF M, W, got
  <1>9. heard' \in Seq(M) /\ last' \in Peers
    BY <1>1, <1>2, <1>5, <1>7, ConcatProperties
  <1>10. /\ ragged' \in Nat /\ ragged' >= ragged
         /\ EndsLine(new) => ragged' = ragged
         /\ ~EndsLine(new) => ragged' = ragged + 1
    BY <1>1, <1>7
  <1> DEFINE p == ragged * RecvSize
             q == ragged' * RecvSize
  <1>11. /\ p \in Nat /\ q \in Nat /\ p <= q /\ Len(lines) <= p /\ Len(lines) \in Nat
         /\ ~EndsLine(new) => q = p + RecvSize
    BY <1>1, <1>3, <1>10, Products, LenProperties
  <1> HIDE DEF p, q
  <1>12. ASSUME ragged' = 0 PROVE ragged = 0 /\ lines = <<>>
    <2>1. ragged = 0
      BY <1>1, <1>10, <1>12
    <2>2. Len(lines) <= 0 /\ Len(lines) \in Nat
      BY <1>1, <1>3, <2>1, LenProperties
    <2>3. lines = <<>>
      BY <1>1, <2>2, EmptySeq
    <2> QED BY <2>1, <2>3
  <1>13. CASE Len(lines) + Len(got) > LinesSize - 1
    <2>1. status' = "undefined" /\ lines' = lines /\ printed' = printed
      BY <1>7, <1>13
    <2>2. PrintedIsHeard'
      BY <2>1 DEF PrintedIsHeard
    <2>3. Len(lines') <= q
      BY <1>11, <2>1
    <2>4. q > LinesSize - 1 - RecvSize
      BY <1>3, <1>4, <1>11, <1>13
    <2>5. \A k \in 1..Len(printed) :
            (\E i, j \in DOMAIN printed[k] : printed[k][i].by # printed[k][j].by) => ragged > 0
      BY DEF Received, HarmNeedsRagged
    <2>6. HarmNeedsRagged'
      <3>1. ragged > 0 => ragged' > 0
        BY <1>1, <1>10
      <3> QED BY <2>1, <2>4, <2>5, <3>1 DEF HarmNeedsRagged, q
    <2>7. NoEnd(lines')
      BY <1>1, <2>1
    <2> QED BY <1>1, <1>8, <1>9, <1>10, <2>1, <2>2, <2>3, <2>6, <2>7 DEF Received, M, W, q
  <1>14. CASE ~(Len(lines) + Len(got) > LinesSize - 1)
    <2>1. /\ lines' = cut.rest /\ printed' = printed \o cut.full
          /\ status' \in {"running", "exited"}
      BY <1>7, <1>14
    <2>2. Splits(heard, printed, lines)
      BY <1>6 DEF PrintedIsHeard
    <2>3. /\ cut \in Rounds(M)
          /\ Splits(heard \o new, printed \o cut.full, cut.rest)
          /\ NoEnd(cut.rest)
          /\ Len(cut.rest) <= Len(lines) + Len(new)
          /\ new # <<>> /\ new[Len(new)].ch = "nl" => cut.rest = <<>>
      BY <1>1, <1>5, <2>2, LinesGoOn
    <2>4. cut.full \in Seq(Seq(M)) /\ cut.rest \in Seq(M)
      BY <2>3 DEF Rounds
    <2>5. PrintedIsHeard'
      BY <1>7, <2>1, <2>3 DEF PrintedIsHeard
    <2>6. Len(cut.rest) <= q
      <3>1. Len(cut.rest) \in Nat
        BY <2>4, LenProperties
      <3>2. CASE EndsLine(new)
        <4>1. cut.rest = <<>>
          BY <2>3, <3>2 DEF EndsLine
        <4>2. Len(cut.rest) = 0
          BY <4>1
        <4> QED BY <1>11, <4>2
      <3>3. CASE ~EndsLine(new)
        BY <1>3, <1>4, <1>11, <2>3, <3>1, <3>3
      <3> QED BY <3>2, <3>3
    <2>7. ASSUME ragged' = 0, NEW k \in 1..Len(printed \o cut.full),
                 NEW i \in DOMAIN (printed \o cut.full)[k], NEW j \in DOMAIN (printed \o cut.full)[k]
          PROVE  (printed \o cut.full)[k][i].by = (printed \o cut.full)[k][j].by
      <3> DEFINE S == Marks({d.from})
      <3>1. lines = <<>> /\ ragged = 0
        BY <1>12, <2>7
      <3>2. <<>> \in Seq(S) /\ <<>> \in Seq(Seq(S)) /\ NoEnd(<<>>) /\ Splits(<<>>, <<>>, <<>>)
        BY NothingSplits DEF NoEnd
      <3> HIDE DEF S
      <3>3. cut \in Rounds(S)
        <4>1. new \in Seq(S)
          BY <1>4 DEF S
        <4>2. Lines(<<>> \o new) \in Rounds(S)
          BY <3>2, <4>1, LinesGoOn
        <4> QED BY <3>1, <4>2
      <3>4. cut.full \in Seq(Seq(S))
        BY <3>3 DEF Rounds
      <3>5. /\ Len(printed \o cut.full) = Len(printed) + Len(cut.full)
            /\ \A n \in 1..Len(printed) + Len(cut.full) :
                 (printed \o cut.full)[n] = IF n <= Len(printed) THEN printed[n]
                                            ELSE cut.full[n - Len(printed)]
            /\ Len(printed) \in Nat /\ Len(cut.full) \in Nat
        BY <1>1, <2>4, ConcatProperties, LenProperties
      <3>6. CASE k <= Len(printed)
        <4>1. k \in 1..Len(printed) /\ (printed \o cut.full)[k] = printed[k]
          BY <3>5, <3>6
        <4>2. ~(\E i_, j_ \in DOMAIN printed[k] : printed[k][i_].by # printed[k][j_].by)
          BY <1>1, <3>1, <4>1 DEF Received, HarmNeedsRagged
        <4> QED BY <2>7, <4>1, <4>2
      <3>7. CASE ~(k <= Len(printed))
        <4>1. /\ k - Len(printed) \in 1..Len(cut.full)
              /\ (printed \o cut.full)[k] = cut.full[k - Len(printed)]
          BY <3>5, <3>7
        <4>2. cut.full[k - Len(printed)] \in Seq(S)
          BY <3>4, <4>1, ElementOfSeq
        <4> DEFINE l == (printed \o cut.full)[k]
        <4>3. l \in Seq(S)
          BY <4>1, <4>2
        <4> HIDE DEF l
        <4>4. \A n \in DOMAIN l : l[n] \in S
          BY <4>3
        <4>5. \A n \in DOMAIN l : l[n].by = d.from
          BY <4>4 DEF S, Marks
        <4> QED BY <4>5 DEF l
      <3> QED BY <3>6, <3>7
    <2>8. HarmNeedsRagged'
      <3>1. ragged' = 0 \/ ragged' > 0
        BY <1>10
      <3>2. \A k \in 1..Len(printed') :
              (\E i, j \in DOMAIN printed'[k] : printed'[k][i].by # printed'[k][j].by) => ragged' > 0
        <4> SUFFICES ASSUME NEW k \in 1..Len(printed'),
                            NEW i \in DOMAIN printed'[k], NEW j \in DOMAIN printed'[k],
                            printed'[k][i].by # printed'[k][j].by
                     PROVE  ragged' > 0
          OBVIOUS
        <4>1. printed' = printed \o cut.full
          BY <2>1
        <4>2. ragged' # 0
          BY <2>7, <4>1
        <4> QED BY <3>1, <4>2
      <3> QED BY <2>1, <3>2 DEF HarmNeedsRagged
    <2>9. printed' \in Seq(Seq(M)) /\ lines' \in Seq(M)
      BY <1>1, <2>1, <2>4, ConcatProperties
    <2>10. NoEnd(lines') /\ Len(lines') <= ragged' * RecvSize
      BY <2>1, <2>3, <2>6 DEF q
    <2>11. status' \in {"running", "exited", "undefined"}
      BY <2>1
    <2> QED BY <1>8, <1>9, <1>10, <2>5, <2>8, <2>9, <2>10, <2>11 DEF Received, M, W
  <1> QED BY <1>13, <1>14


LEMMA ReceivedNext == Received /\ [Next]_vars => Received'
  <1> SUFFICES ASSUME Received, [Next]_vars PROVE Received'
    OBVIOUS
  <1> DEFINE W == [from : Peers, to : Peers, data : Seq(Char)]
  <1>1. net \subseteq W /\ last \in Peers
    BY DEF Received
  <1>2. ASSUME UNCHANGED <<lines, printed, heard, ragged>>, net' \subseteq W, last' = last,
               status' = status \/ (status = "running" /\ status' \in {"running", "exited"})
        PROVE  Received'
    <2>1. HarmNeedsRagged'
      BY <1>2 DEF Received, HarmNeedsRagged
    <2>2. PrintedIsHeard'
      BY <1>2 DEF Received, PrintedIsHeard
    <2>3. Len(lines') <= ragged' * RecvSize /\ NoEnd(lines')
      BY <1>2 DEF Received
    <2>4. status' \in {"running", "exited", "undefined"}
      BY <1>2 DEF Received
    <2> QED BY <1>2, <2>1, <2>2, <2>3, <2>4 DEF Received
  <1> HIDE DEF W
  <1>3. ASSUME NEW d \in net, Lose(d) PROVE Received'
    BY <1>1, <1>2, <1>3 DEF Lose, recvline
  <1>4. ASSUME NEW d \in net, recvline_recv(d) PROVE Received'
    BY <1>4, RecvlineReceives
  <1>5. ASSUME NEW c \in {"cmd", "exit"}, recvline_stdin(c) PROVE Received'
    <2>1. Datagram(Receiver, last, <<c>>) \in W
      <3>1. c \in Char
        BY DEF Char
      <3>2. <<c>> \in Seq(Char)
        BY <3>1
      <3> QED BY <1>1, <3>2 DEF Datagram, Peers, W
    <2>2. net' \subseteq W
      BY <1>1, <1>5, <2>1 DEF recvline_stdin
    <2>3. status = "running" /\ status' \in {"running", "exited"}
      BY <1>5 DEF recvline_stdin
    <2>4. UNCHANGED <<lines, printed, heard, ragged>> /\ last' = last
      BY <1>5 DEF recvline_stdin
    <2> QED BY <1>2, <2>2, <2>3, <2>4
  <1>6. ASSUME NEW s \in Senders, NEW text \in Typed, sendline_stdin(s, text) PROVE Received'
    <2>1. text \in Seq(Char)
      BY PairAssumption DEF PairAssumption
    <2>2. Datagram(s, Receiver, text) \in W
      BY <2>1 DEF Datagram, Peers, W
    <2>3. net' \subseteq W
      BY <1>1, <1>6, <2>2 DEF sendline_stdin
    <2>4. UNCHANGED recvline
      BY <1>6 DEF sendline_stdin
    <2> QED BY <1>2, <2>3, <2>4 DEF recvline
  <1>7. ASSUME NEW s \in Senders, NEW d \in net, NEW output \in Outputs, sendline_recv(s, d, output)
        PROVE  Received'
    <2>1. output \in Seq(Char)
      BY PairAssumption DEF PairAssumption
    <2>2. Chunks(s, output) \in SUBSET W
      BY <2>1, ChunksAre DEF W
    <2>3. net' \subseteq W
      BY <1>1, <1>7, <2>2, NetStays DEF sendline_recv
    <2> QED BY <1>2, <1>7, <2>3 DEF sendline_recv, recvline
  <1>8. ASSUME NEW s \in Senders, NEW d \in net, sendline_popen_fails(s, d) PROVE Received'
    <2>1. {} \in SUBSET W
      OBVIOUS
    <2>2. net' \subseteq W
      BY <1>1, <1>8, <2>1, NetStays DEF sendline_popen_fails
    <2> QED BY <1>2, <1>8, <2>2 DEF sendline_popen_fails, recvline
  <1>9. CASE UNCHANGED vars
    BY <1>1, <1>2, <1>9 DEF vars, recvline
  <1> QED BY <1>3, <1>4, <1>5, <1>6, <1>7, <1>8, <1>9 DEF Next

(* What recvline prints and still holds is what it heard, line for line, for any  *)
(* buffers and senders, however the datagrams cut the lines: the fold over what is  *)
(* held and what comes loses nothing and repeats nothing.                             *)
THEOREM PrintedLinesWereHeard == Spec => []PrintedIsHeard
  <1>1. Received => PrintedIsHeard
    BY DEF Received
  <1> QED BY <1>1, ReceivedInit, ReceivedNext, PTL DEF Spec

(* Two senders come out in one line, or lines[] is overrun, only after datagrams  *)
(* that did not end with their line, and only after enough of them to fill it.       *)
THEOREM HarmComesFromRagged == Spec => []HarmNeedsRagged
  <1>1. Received => HarmNeedsRagged
    BY DEF Received
  <1> QED BY <1>1, ReceivedInit, ReceivedNext, PTL DEF Spec


-----------------------------------------------------------------------------
(* The ends of the commands' outputs.                                        *)

(* The strengthening of AnswersAreAskedFor: what may still become an end that  *)
(* is heard (a command on its way, or the datagram of an output that holds its *)
(* EOF, which is one of them) has been asked for and paid for, too.              *)
HasEnd(d) == \E k \in 1..Len(d.data) : d.data[k] = "ff"
OneEnd(d) == \A j, k \in 1..Len(d.data) : d.data[j] = "ff" /\ d.data[k] = "ff" => j = k
Carry == {d \in net : d.to # Receiver \/ HasEnd(d)}
CarryFrom(s) == {d \in net : d.from = s /\ HasEnd(d)}

Answers ==
  /\ \A d \in net : OneEnd(d)
  /\ IsFiniteSet(Carry)
  /\ cmds \in Nat /\ dups \in Nat
  /\ streams \in [Senders -> Nat]
  /\ Cardinality(Carry) + Cardinality(Ends) <= cmds + dups
  /\ \A s \in Senders :
       /\ streams[s] <= FdLimit
       /\ Cardinality(CarryFrom(s)) + Cardinality(EndsFrom(s)) <= streams[s] + dups

(* How many members a set has when one comes, goes, or takes another's place.  *)
LEMMA OneComes ==
  ASSUME NEW S, IsFiniteSet(S), NEW x, NEW T, T \subseteq S \cup {x}
  PROVE  /\ IsFiniteSet(T) /\ Cardinality(T) \in Nat /\ Cardinality(S) \in Nat
         /\ Cardinality(T) <= Cardinality(S) + 1
  <1>1. IsFiniteSet(S \cup {x}) /\ Cardinality(S \cup {x}) <= Cardinality(S) + 1
    <2>1. Cardinality(S) \in Nat
      BY FS_CardinalityType
    <2> QED BY <2>1, FS_AddElement
  <1>2. IsFiniteSet(T) /\ Cardinality(T) <= Cardinality(S \cup {x})
    BY <1>1, FS_Subset
  <1> QED BY <1>1, <1>2, FS_CardinalityType

LEMMA NoneComes ==
  ASSUME NEW S, IsFiniteSet(S), NEW T, T \subseteq S
  PROVE  /\ IsFiniteSet(T) /\ Cardinality(T) \in Nat /\ Cardinality(S) \in Nat
         /\ Cardinality(T) <= Cardinality(S)
  BY FS_Subset, FS_CardinalityType

LEMMA OneGoes ==
  ASSUME NEW S, IsFiniteSet(S), NEW d \in S, NEW T, T \subseteq S \ {d}
  PROVE  /\ IsFiniteSet(T) /\ Cardinality(T) \in Nat /\ Cardinality(S) \in Nat
         /\ Cardinality(T) + 1 <= Cardinality(S)
  <1>1. IsFiniteSet(S \ {d}) /\ Cardinality(S \ {d}) = Cardinality(S) - 1
    BY FS_RemoveElement
  <1>2. IsFiniteSet(T) /\ Cardinality(T) <= Cardinality(S \ {d})
    BY <1>1, FS_Subset
  <1> QED BY <1>1, <1>2, FS_CardinalityType

LEMMA OneForAnother ==
  ASSUME NEW S, IsFiniteSet(S), NEW d \in S, NEW x, NEW T, T \subseteq (S \ {d}) \cup {x}
  PROVE  /\ IsFiniteSet(T) /\ Cardinality(T) \in Nat /\ Cardinality(S) \in Nat
         /\ Cardinality(T) <= Cardinality(S)
  <1>1. /\ IsFiniteSet(S \ {d}) /\ Cardinality(S \ {d}) \in Nat
        /\ Cardinality(S \ {d}) + 1 <= Cardinality(S) /\ Cardinality(S) \in Nat
    BY OneGoes
  <1>2. IsFiniteSet(T) /\ Cardinality(T) \in Nat /\ Cardinality(T) <= Cardinality(S \ {d}) + 1
    BY <1>1, OneComes
  <1> QED BY <1>1, <1>2

(* Two multiples of a number are at least as far apart as it is large.         *)
LEMMA Multiple ==
  ASSUME NEW b \in Nat \ {0}, NEW m \in Nat, m % b = 0
  PROVE  \E p \in Nat : m = b * p
  <1>1. m = b * (m \div b) + (m % b) /\ m \div b \in Int
    OBVIOUS
  <1>2. m \div b \in Nat
    OBVIOUS
  <1> QED BY <1>1, <1>2

LEMMA Apart ==
  ASSUME NEW b \in Nat \ {0}, NEW m \in Nat, NEW n \in Nat, m % b = 0, n % b = 0, m < n
  PROVE  m + b <= n
  <1>1. PICK p \in Nat : m = b * p
    BY Multiple
  <1>2. PICK q \in Nat : n = b * q
    BY Multiple
  <1>3. CASE q <= p
    <2>1. PICK e \in Nat : p = q + e
      <3>1. p - q \in Nat /\ p = q + (p - q)
        BY <1>3
      <3> QED BY <3>1
    <2>2. b * p = b * q + b * e /\ b * e \in Nat
      BY <2>1
    <2> QED BY <1>1, <1>2, <2>2
  <1>4. CASE q > p
    <2>1. PICK e \in Nat : q = p + 1 + e
      <3>1. q - p - 1 \in Nat /\ q = p + 1 + (q - p - 1)
        BY <1>4
      <3> QED BY <3>1
    <2>2. b * q = b * p + b + b * e /\ b * e \in Nat
      BY <2>1
    <2> QED BY <1>1, <1>2, <2>2
  <1> QED BY <1>3, <1>4

(* One datagram of a command's output holds its EOF, as its last character.    *)
LEMMA ChunksEndOnce ==
  ASSUME NEW s \in Senders, NEW output \in Outputs
  PROVE  /\ \A d \in Chunks(s, output) : d.to = Receiver /\ d.from = s /\ OneEnd(d)
         /\ \E x : \A d \in Chunks(s, output) : HasEnd(d) => d = x
  <1> DEFINE text == Append(output, "ff")
             ending(k) == IF k + OutSize - 1 < Len(text) THEN k + OutSize - 1 ELSE Len(text)
             piece(k) == SubSeq(text, k, ending(k))
             places == {m \in 1..Len(text) : (m - 1) % OutSize = 0}
  <1>1. OutSize \in Nat \ {0} /\ output \in Seq(Char) /\ \A k \in 1..Len(output) : output[k] # "ff"
    BY PairAssumption DEF PairAssumption
  <1>2. /\ text \in Seq(Char) /\ Len(text) = Len(output) + 1 /\ Len(output) \in Nat
        /\ \A k \in 1..Len(output) : text[k] = output[k]
    BY <1>1, LenProperties DEF Char
  <1>3. \A k \in 1..Len(text) : text[k] = "ff" => k = Len(text)
    BY <1>1, <1>2
  <1>4. Chunks(s, output) = {Datagram(s, Receiver, piece(k)) : k \in places}
    BY DEF Chunks
  <1> HIDE DEF text
  <1>5. ASSUME NEW k \in places
        PROVE  /\ piece(k) \in Seq(Char) /\ Len(piece(k)) = ending(k) - k + 1
               /\ \A j \in 1..Len(piece(k)) : piece(k)[j] = "ff" => k + j - 1 = Len(text)
    <2>1. /\ k \in 1..Len(text) /\ ending(k) \in Int /\ ending(k) <= Len(text) /\ k <= ending(k)
      BY <1>1, <1>2
    <2> HIDE DEF ending
    <2>2. \A j \in k..ending(k) : j \in 1..Len(text)
      BY <1>2, <2>1
    <2>3. \A j \in k..ending(k) : text[j] \in Char
      BY <1>2, <2>2, ElementOfSeq
    <2>4. /\ piece(k) \in Seq(Char) /\ Len(piece(k)) = ending(k) - k + 1
          /\ \A j \in 1..ending(k) - k + 1 : piece(k)[j] = text[k + j - 1]
      BY <1>2, <2>1, <2>3, SubSeqProperties
    <2>5. \A j \in 1..ending(k) - k + 1 : k + j - 1 \in 1..Len(text)
      <3> DEFINE e == ending(k)
      <3>1. Len(text) \in Nat /\ k \in 1..Len(text) /\ e \in Int /\ e <= Len(text)
        BY <1>2, <2>1
      <3> HIDE DEF e
      <3>2. \A j \in 1..e - k + 1 : k + j - 1 \in 1..Len(text)
        BY <3>1
      <3> QED BY <3>2 DEF e
    <2> QED BY <1>3, <2>4, <2>5
  <1>6. ASSUME NEW d \in Chunks(s, output)
        PROVE  \E k \in places : /\ d.data = piece(k) /\ d.to = Receiver /\ d.from = s
                                 /\ d = Datagram(s, Receiver, piece(k))
    BY <1>4 DEF Datagram
  <1>7. \A k \in places : k \in 1..Len(text) /\ k - 1 \in Nat /\ (k - 1) % OutSize = 0
    BY <1>2
  <1> HIDE DEF piece, places
  <1>8. ASSUME NEW d \in Chunks(s, output) PROVE d.to = Receiver /\ d.from = s /\ OneEnd(d)
    <2>1. PICK k \in places : d.data = piece(k) /\ d.to = Receiver /\ d.from = s
      BY <1>6
    <2>2. ASSUME NEW i_ \in 1..Len(piece(k)), NEW j_ \in 1..Len(piece(k)),
                 piece(k)[i_] = "ff", piece(k)[j_] = "ff"
          PROVE  i_ = j_
      <3>1. k + i_ - 1 = Len(text) /\ k + j_ - 1 = Len(text)
        BY <1>5, <2>2
      <3>2. i_ \in Int /\ j_ \in Int /\ k \in Int
        BY <1>5, <1>7
      <3> QED BY <1>2, <3>1, <3>2
    <2> QED BY <2>1, <2>2 DEF OneEnd
  <1>9. ASSUME NEW d \in Chunks(s, output), HasEnd(d), NEW e \in Chunks(s, output), HasEnd(e)
        PROVE  d = e
    <2>1. PICK k \in places : d.data = piece(k) /\ d = Datagram(s, Receiver, piece(k))
      BY <1>6
    <2>2. PICK m \in places : e.data = piece(m) /\ e = Datagram(s, Receiver, piece(m))
      BY <1>6
    <2>3. ASSUME NEW p \in places, NEW j \in 1..Len(piece(p)), piece(p)[j] = "ff"
          PROVE  Len(text) <= p + OutSize - 1
      <3>1. p + j - 1 = Len(text) /\ Len(piece(p)) = ending(p) - p + 1
        BY <1>5, <2>3
      <3>2. p \in 1..Len(text) /\ p \in Int /\ Len(text) \in Nat /\ OutSize \in Nat
        BY <1>1, <1>2, <1>7
      <3>3. ending(p) \in Int /\ ending(p) <= p + OutSize - 1
        BY <3>2
      <3> DEFINE z == ending(p)
      <3>4. z \in Int /\ z <= p + OutSize - 1 /\ j \in 1..z - p + 1 /\ p + j - 1 = Len(text)
        BY <3>1, <3>3
      <3> HIDE DEF z
      <3>5. j \in Int /\ j <= z - p + 1
        BY <3>2, <3>4
      <3>6. p + j - 1 <= z
        BY <3>2, <3>4, <3>5
      <3> QED BY <3>2, <3>4, <3>6
    <2>4. Len(text) <= k + OutSize - 1 /\ Len(text) <= m + OutSize - 1
      BY <1>9, <2>1, <2>2, <2>3 DEF HasEnd
    <2>5. k = m
      <3>1. /\ k \in 1..Len(text) /\ k - 1 \in Nat /\ (k - 1) % OutSize = 0
            /\ m \in 1..Len(text) /\ m - 1 \in Nat /\ (m - 1) % OutSize = 0
        BY <1>7
      <3>2. ~(k - 1 < m - 1)
        <4>1. k - 1 < m - 1 => (k - 1) + OutSize <= m - 1
          BY <1>1, <3>1, Apart
        <4> QED BY <1>1, <1>2, <2>4, <3>1, <4>1
      <3>3. ~(m - 1 < k - 1)
        <4>1. m - 1 < k - 1 => (m - 1) + OutSize <= k - 1
          BY <1>1, <3>1, Apart
        <4> QED BY <1>1, <1>2, <2>4, <3>1, <4>1
      <3> QED BY <3>1, <3>2, <3>3
    <2> QED BY <2>1, <2>2, <2>5
  <1>10. \E x : \A d \in Chunks(s, output) : HasEnd(d) => d = x
    <2>1. CASE \E d \in Chunks(s, output) : HasEnd(d)
      BY <1>9, <2>1
    <2>2. CASE ~(\E d \in Chunks(s, output) : HasEnd(d))
      BY <2>2
    <2> QED BY <2>1, <2>2
  <1> QED BY <1>8, <1>10


(* recvline hears one end at most in a datagram, and only if it holds one.     *)
LEMMA HeardEnds ==
  ASSUME Received, NEW d \in net, OneEnd(d), recvline_recv(d)
  PROVE  \E x : /\ Ends' \subseteq Ends \cup {x} /\ (~HasEnd(d) => Ends' \subseteq Ends)
                /\ \A s \in Senders :
                     /\ EndsFrom(s)' \subseteq EndsFrom(s) \cup {x}
                     /\ d.from # s \/ ~HasEnd(d) => EndsFrom(s)' \subseteq EndsFrom(s)
  <1> DEFINE new == String(Got(d))
             n == Len(heard)
             marks == {k \in 1..Len(d.data) : d.data[k] = "ff"}
             place == CHOOSE k \in marks : TRUE
             x == n + place
  <1>1. heard' = heard \o new /\ heard \in Seq(Marks(Peers)) /\ d.data \in Seq(Char)
    BY DEF Received, recvline_recv, Got
  <1>2. /\ new \in Seq(Marks({d.from})) /\ Len(new) <= Len(Got(d))
        /\ \A k \in 1..Len(new) : new[k] = Got(d)[k]
    BY <1>1, GotIs, StringIs
  <1>3. /\ Len(Got(d)) = Len(First(d.data, RecvSize)) /\ Len(Got(d)) \in Nat
        /\ \A k \in 1..Len(Got(d)) : Got(d)[k] = [by |-> d.from, ch |-> d.data[k]]
    <2>1. RecvSize \in Nat
      BY PairAssumption DEF PairAssumption
    <2>2. Len(First(d.data, RecvSize)) \in Nat
      BY <1>1, <2>1, FirstIs, LenProperties
    <2> QED BY <2>2 DEF Got
  <1>4. Len(Got(d)) <= Len(d.data) /\ Len(d.data) \in Nat /\ Len(new) \in Nat /\ n \in Nat
    <2>1. RecvSize \in Nat
      BY PairAssumption DEF PairAssumption
    <2> QED BY <1>1, <1>2, <1>3, <2>1, FirstIs, LenProperties
  <1> HIDE DEF new
  <1>5. \A k \in 1..Len(new) : /\ k \in 1..Len(d.data) /\ new[k].by = d.from
                               /\ new[k].ch = d.data[k]
    <2> SUFFICES ASSUME NEW k \in 1..Len(new)
                 PROVE  k \in 1..Len(d.data) /\ new[k].by = d.from /\ new[k].ch = d.data[k]
      OBVIOUS
    <2>1. k \in 1..Len(Got(d)) /\ k \in 1..Len(d.data)
      BY <1>2, <1>3, <1>4
    <2>2. new[k] = [by |-> d.from, ch |-> d.data[k]]
      BY <1>2, <1>3, <2>1
    <2> QED BY <2>1, <2>2
  <1>6. /\ Len(heard') = n + Len(new)
        /\ \A k \in 1..n + Len(new) : heard'[k] = IF k <= n THEN heard[k] ELSE new[k - n]
    <2>1. new \in Seq(Marks({d.from}) \cup Marks(Peers)) /\ heard \in Seq(Marks({d.from}) \cup Marks(Peers))
      BY <1>1, <1>2, SeqMonotonic
    <2> QED BY <1>1, <2>1, ConcatProperties
  <1>7. ASSUME NEW k \in 1..Len(heard'), heard'[k].ch = "ff"
        PROVE  \/ k \in 1..n /\ heard'[k] = heard[k]
               \/ k = x /\ heard'[k].by = d.from /\ HasEnd(d)
    <2>1. CASE k <= n
      BY <1>4, <1>6, <2>1
    <2>2. CASE ~(k <= n)
      <3>1. k - n \in 1..Len(new) /\ heard'[k] = new[k - n]
        BY <1>4, <1>6, <2>2
      <3>2. k - n \in marks /\ heard'[k].by = d.from
        BY <1>5, <1>7, <3>1
      <3>3. place \in marks
        BY <3>2
      <3> HIDE DEF place
      <3>4. k - n = place
        BY <3>2, <3>3 DEF OneEnd
      <3>5. HasEnd(d)
        BY <3>2 DEF HasEnd
      <3>6. k = x
        BY <1>4, <3>1, <3>4
      <3> QED BY <3>2, <3>5, <3>6
    <2> QED BY <2>1, <2>2
  <1> HIDE DEF x
  <1>8. Ends' \subseteq Ends \cup {x} /\ (~HasEnd(d) => Ends' \subseteq Ends)
    BY <1>7 DEF Ends
  <1>9. ASSUME NEW s \in Senders
        PROVE  /\ EndsFrom(s)' \subseteq EndsFrom(s) \cup {x}
               /\ d.from # s \/ ~HasEnd(d) => EndsFrom(s)' \subseteq EndsFrom(s)
    BY <1>7 DEF EndsFrom
  <1> QED BY <1>8, <1>9

LEMMA AnswersInit == Init => Answers
  <1> SUFFICES ASSUME Init PROVE Answers
    OBVIOUS
  <1>1. net = {} /\ streams = [s \in Senders |-> 0] /\ cmds = 0 /\ dups = 0 /\ heard = <<>>
    BY DEF Init
  <1>2. Carry = {} /\ Ends = {} /\ \A s \in Senders : CarryFrom(s) = {} /\ EndsFrom(s) = {}
    BY <1>1 DEF Carry, Ends, CarryFrom, EndsFrom
  <1>3. FdLimit \in Nat
    BY PairAssumption DEF PairAssumption
  <1>4. /\ IsFiniteSet(Carry) /\ Cardinality(Carry) = 0 /\ Cardinality(Ends) = 0
        /\ \A s \in Senders : Cardinality(CarryFrom(s)) = 0 /\ Cardinality(EndsFrom(s)) = 0
    BY <1>2, FS_EmptySet
  <1>5. Cardinality(Carry) + Cardinality(Ends) <= cmds + dups
    BY <1>1, <1>4
  <1>6. \A s \in Senders : /\ streams[s] <= FdLimit
                           /\ Cardinality(CarryFrom(s)) + Cardinality(EndsFrom(s)) <= streams[s] + dups
    BY <1>1, <1>3, <1>4
  <1> QED BY <1>1, <1>4, <1>5, <1>6 DEF Answers

(* What may carry an end never stops being finite.                             *)
LEMMA AnswersTypes ==
  ASSUME Received, Answers
  PROVE  /\ IsFiniteSet(Ends) /\ Cardinality(Ends) \in Nat /\ Cardinality(Carry) \in Nat
         /\ FdLimit \in Nat
         /\ \A s \in Senders :
              /\ IsFiniteSet(CarryFrom(s)) /\ Cardinality(CarryFrom(s)) \in Nat
              /\ IsFiniteSet(EndsFrom(s)) /\ Cardinality(EndsFrom(s)) \in Nat
              /\ streams[s] \in Nat
  <1>1. Len(heard) \in Nat
    BY LenProperties DEF Received
  <1>2. IsFiniteSet(1..Len(heard))
    BY <1>1, FS_Interval
  <1>3. IsFiniteSet(Ends) /\ \A s \in Senders : IsFiniteSet(EndsFrom(s))
    <2>1. Ends \subseteq 1..Len(heard) /\ \A s \in Senders : EndsFrom(s) \subseteq 1..Len(heard)
      BY DEF Ends, EndsFrom
    <2> QED BY <1>2, <2>1, FS_Subset
  <1>4. \A s \in Senders : IsFiniteSet(CarryFrom(s))
    <2>1. \A s \in Senders : CarryFrom(s) \subseteq Carry
      BY DEF Carry, CarryFrom
    <2>2. IsFiniteSet(Carry)
      BY DEF Answers
    <2> QED BY <2>1, <2>2, FS_Subset
  <1>5. FdLimit \in Nat
    BY PairAssumption DEF PairAssumption
  <1> QED BY <1>3, <1>4, <1>5, FS_CardinalityType DEF Answers


LEMMA AnswersNext == Received /\ Answers /\ [Next]_vars => Answers'
  <1> SUFFICES ASSUME Received, Answers, [Next]_vars PROVE Answers'
    OBVIOUS
  <1>0. /\ \A d \in net : OneEnd(d)
        /\ IsFiniteSet(Carry)
        /\ cmds \in Nat /\ dups \in Nat /\ streams \in [Senders -> Nat]
        /\ Cardinality(Carry) + Cardinality(Ends) <= cmds + dups
        /\ \A s \in Senders :
             /\ streams[s] <= FdLimit
             /\ Cardinality(CarryFrom(s)) + Cardinality(EndsFrom(s)) <= streams[s] + dups
    BY DEF Answers
  <1>t. /\ IsFiniteSet(Ends) /\ Cardinality(Ends) \in Nat /\ Cardinality(Carry) \in Nat
        /\ FdLimit \in Nat
        /\ \A s \in Senders :
             /\ IsFiniteSet(CarryFrom(s)) /\ Cardinality(CarryFrom(s)) \in Nat
             /\ IsFiniteSet(EndsFrom(s)) /\ Cardinality(EndsFrom(s)) \in Nat
             /\ streams[s] \in Nat
    BY AnswersTypes
  <1>b. Receiver \notin Senders
    BY PairAssumption DEF PairAssumption
  <1>a. ASSUME net' \subseteq net, UNCHANGED <<heard, streams, cmds>>, dups' \in {dups, dups + 1}
        PROVE  Answers'
    <2>1. Carry' \subseteq Carry /\ \A s \in Senders : CarryFrom(s)' \subseteq CarryFrom(s)
      BY <1>a DEF Carry, CarryFrom
    <2>2. IsFiniteSet(Carry') /\ Cardinality(Carry') \in Nat /\ Cardinality(Carry') <= Cardinality(Carry)
      BY <1>0, <2>1, NoneComes
    <2>3. \A s \in Senders : /\ Cardinality(CarryFrom(s)') \in Nat
                             /\ Cardinality(CarryFrom(s)') <= Cardinality(CarryFrom(s))
      BY <1>t, <2>1, NoneComes
    <2>4. Ends' = Ends /\ \A s \in Senders : EndsFrom(s)' = EndsFrom(s)
      BY <1>a DEF Ends, EndsFrom
    <2>5. cmds' \in Nat /\ dups' \in Nat /\ dups <= dups' /\ cmds' = cmds /\ streams' = streams
      BY <1>0, <1>a
    <2>6. Cardinality(Carry') + Cardinality(Ends') <= cmds' + dups'
      BY <1>0, <1>t, <2>2, <2>4, <2>5
    <2>7. ASSUME NEW s \in Senders
          PROVE  /\ streams'[s] <= FdLimit
                 /\ Cardinality(CarryFrom(s)') + Cardinality(EndsFrom(s)') <= streams'[s] + dups'
      BY <1>0, <1>t, <2>3, <2>4, <2>5
    <2>8. \A d \in net' : OneEnd(d)
      BY <1>0, <1>a
    <2> QED BY <1>0, <2>2, <2>5, <2>6, <2>7, <2>8 DEF Answers
  <1>1. ASSUME NEW d \in net, Lose(d) PROVE Answers'
    BY <1>1, <1>a DEF Lose, recvline
  <1>2. ASSUME NEW d \in net, recvline_recv(d) PROVE Answers'
    <2>1. PICK x : /\ Ends' \subseteq Ends \cup {x} /\ (~HasEnd(d) => Ends' \subseteq Ends)
                   /\ \A s \in Senders :
                        /\ EndsFrom(s)' \subseteq EndsFrom(s) \cup {x}
                        /\ d.from # s \/ ~HasEnd(d) => EndsFrom(s)' \subseteq EndsFrom(s)
      BY <1>0, <1>2, HeardEnds
    <2>2. /\ cmds' = cmds /\ streams' = streams
          /\ \/ net' \subseteq net \ {d} /\ dups' = dups
             \/ net' \subseteq net /\ dups' = dups + 1
      BY <1>2 DEF recvline_recv, Deliver
    <2>3. /\ Cardinality(Ends') \in Nat /\ Cardinality(Ends') <= Cardinality(Ends) + 1
          /\ ~HasEnd(d) => Cardinality(Ends') <= Cardinality(Ends)
      BY <1>t, <2>1, OneComes, NoneComes
    <2>4. \A s \in Senders :
            /\ Cardinality(EndsFrom(s)') \in Nat
            /\ Cardinality(EndsFrom(s)') <= Cardinality(EndsFrom(s)) + 1
            /\ d.from # s \/ ~HasEnd(d) => Cardinality(EndsFrom(s)') <= Cardinality(EndsFrom(s))
      BY <1>t, <2>1, OneComes, NoneComes
    <2>5. \A e \in net' : e \in net /\ OneEnd(e)
      BY <1>0, <2>2
    <2>6. /\ Carry' \subseteq Carry
          /\ \A s \in Senders : CarryFrom(s)' \subseteq CarryFrom(s)
      BY <2>5 DEF Carry, CarryFrom
    <2>7. /\ IsFiniteSet(Carry') /\ Cardinality(Carry') \in Nat
          /\ Cardinality(Carry') <= Cardinality(Carry)
          /\ \A s \in Senders : /\ Cardinality(CarryFrom(s)') \in Nat
                                /\ Cardinality(CarryFrom(s)') <= Cardinality(CarryFrom(s))
      BY <1>0, <1>t, <2>6, NoneComes
    <2>8. CASE net' \subseteq net /\ dups' = dups + 1
      <3>1. Cardinality(Carry') + Cardinality(Ends') <= cmds' + dups'
        BY <1>0, <1>t, <2>2, <2>3, <2>7, <2>8
      <3>2. ASSUME NEW s \in Senders
            PROVE  Cardinality(CarryFrom(s)') + Cardinality(EndsFrom(s)') <= streams'[s] + dups'
        BY <1>0, <1>t, <2>2, <2>4, <2>7, <2>8
      <3> QED BY <1>0, <2>2, <2>5, <2>7, <2>8, <3>1, <3>2 DEF Answers
    <2>9. CASE net' \subseteq net \ {d} /\ dups' = dups
      <3>1. HasEnd(d) => Cardinality(Carry') + 1 <= Cardinality(Carry)
        <4> SUFFICES ASSUME HasEnd(d) PROVE Cardinality(Carry') + 1 <= Cardinality(Carry)
          OBVIOUS
        <4>1. d \in Carry /\ Carry' \subseteq Carry \ {d}
          BY <2>9 DEF Carry
        <4> QED BY <1>0, <4>1, OneGoes
      <3>2. ASSUME NEW s \in Senders
            PROVE  HasEnd(d) /\ d.from = s => Cardinality(CarryFrom(s)') + 1 <= Cardinality(CarryFrom(s))
        <4> SUFFICES ASSUME HasEnd(d), d.from = s
                     PROVE  Cardinality(CarryFrom(s)') + 1 <= Cardinality(CarryFrom(s))
          OBVIOUS
        <4>1. d \in CarryFrom(s) /\ CarryFrom(s)' \subseteq CarryFrom(s) \ {d}
          BY <2>9 DEF CarryFrom
        <4> QED BY <1>t, <4>1, OneGoes
      <3>3. Cardinality(Carry') + Cardinality(Ends') <= cmds' + dups'
        BY <1>0, <1>t, <2>2, <2>3, <2>7, <2>9, <3>1
      <3>4. ASSUME NEW s \in Senders
            PROVE  Cardinality(CarryFrom(s)') + Cardinality(EndsFrom(s)') <= streams'[s] + dups'
        BY <1>0, <1>t, <2>2, <2>4, <2>7, <2>9, <3>2
      <3> QED BY <1>0, <2>2, <2>5, <2>7, <2>9, <3>3, <3>4 DEF Answers
    <2> QED BY <2>2, <2>8, <2>9
  <1>3. ASSUME NEW c \in {"cmd", "exit"}, recvline_stdin(c) PROVE Answers'
    <2> DEFINE x == Datagram(Receiver, last, << c >>)
    <2>1. /\ net' \subseteq net \cup {x} /\ cmds' = cmds + 1
          /\ UNCHANGED <<heard, streams, dups>>
      BY <1>3 DEF recvline_stdin
    <2>2. x.from = Receiver /\ ~HasEnd(x) /\ OneEnd(x)
      BY DEF Datagram, HasEnd, OneEnd
    <2> HIDE DEF x
    <2>3. Carry' \subseteq Carry \cup {x} /\ \A s \in Senders : CarryFrom(s)' \subseteq CarryFrom(s)
      BY <2>1, <2>2 DEF Carry, CarryFrom
    <2>4. /\ IsFiniteSet(Carry') /\ Cardinality(Carry') \in Nat
          /\ Cardinality(Carry') <= Cardinality(Carry) + 1
      BY <1>0, <2>3, OneComes
    <2>5. \A s \in Senders : /\ Cardinality(CarryFrom(s)') \in Nat
                             /\ Cardinality(CarryFrom(s)') <= Cardinality(CarryFrom(s))
      BY <1>t, <2>3, NoneComes
    <2>6. Ends' = Ends /\ \A s \in Senders : EndsFrom(s)' = EndsFrom(s)
      BY <2>1 DEF Ends, EndsFrom
    <2>7. Cardinality(Carry') + Cardinality(Ends') <= cmds' + dups'
      BY <1>0, <1>t, <2>1, <2>4, <2>6
    <2>8. ASSUME NEW s \in Senders
          PROVE  Cardinality(CarryFrom(s)') + Cardinality(EndsFrom(s)') <= streams'[s] + dups'
      BY <1>0, <1>t, <2>1, <2>5, <2>6
    <2>9. \A e \in net' : OneEnd(e)
      BY <1>0, <2>1, <2>2
    <2> QED BY <1>0, <2>1, <2>4, <2>7, <2>8, <2>9 DEF Answers
  <1>4. ASSUME NEW s \in Senders, NEW text \in Typed, sendline_stdin(s, text) PROVE Answers'
    <2> DEFINE x == Datagram(s, Receiver, text)
    <2>1. net' = net \cup {x} /\ UNCHANGED <<heard, streams, dups, cmds>>
      BY <1>4 DEF sendline_stdin, recvline
    <2>2. x.to = Receiver /\ ~HasEnd(x) /\ OneEnd(x)
      BY PairAssumption DEF PairAssumption, Datagram, HasEnd, OneEnd
    <2> HIDE DEF x
    <2>3. Carry' = Carry /\ \A r \in Senders : CarryFrom(r)' = CarryFrom(r)
      BY <2>1, <2>2 DEF Carry, CarryFrom
    <2>4. Ends' = Ends /\ \A r \in Senders : EndsFrom(r)' = EndsFrom(r)
      BY <2>1 DEF Ends, EndsFrom
    <2>5. \A e \in net' : OneEnd(e)
      BY <1>0, <2>1, <2>2
    <2> QED BY <1>0, <2>1, <2>3, <2>4, <2>5 DEF Answers
  <1>5. ASSUME NEW s \in Senders, NEW d \in net, NEW output \in Outputs, sendline_recv(s, d, output)
        PROVE  Answers'
    <2>1. /\ \A e \in Chunks(s, output) : e.to = Receiver /\ e.from = s /\ OneEnd(e)
          /\ \E y : \A e \in Chunks(s, output) : HasEnd(e) => e = y
      BY ChunksEndOnce
    <2>2. PICK x : \A e \in Chunks(s, output) : HasEnd(e) => e = x
      BY <2>1
    <2>3. /\ d.to = s /\ streams[s] < FdLimit /\ streams' = [streams EXCEPT ![s] = @ + 1]
          /\ UNCHANGED <<heard, cmds>>
          /\ \/ net' = (net \ {d}) \cup Chunks(s, output) /\ dups' = dups
             \/ net' = net \cup Chunks(s, output) /\ dups' = dups + 1
      BY <1>5 DEF sendline_recv, Deliver, recvline
    <2>4. d \in Carry
      BY <1>b, <2>3 DEF Carry
    <2>5. Ends' = Ends /\ \A r \in Senders : EndsFrom(r)' = EndsFrom(r)
      BY <2>3 DEF Ends, EndsFrom
    <2>6. /\ \A e \in net' : OneEnd(e)
          /\ \A e \in net' : e \in net \/ e \in Chunks(s, output)
      BY <1>0, <2>1, <2>3
    <2>7. /\ Carry' \subseteq Carry \cup {x}
          /\ CarryFrom(s)' \subseteq CarryFrom(s) \cup {x}
          /\ \A r \in Senders : r # s => CarryFrom(r)' \subseteq CarryFrom(r)
      BY <2>1, <2>2, <2>6 DEF Carry, CarryFrom
    <2>8. /\ IsFiniteSet(Carry') /\ Cardinality(Carry') \in Nat
          /\ Cardinality(Carry') + Cardinality(Ends') <= cmds' + dups'
      <3>1. CASE net' = net \cup Chunks(s, output) /\ dups' = dups + 1
        <4>1. /\ IsFiniteSet(Carry') /\ Cardinality(Carry') \in Nat
              /\ Cardinality(Carry') <= Cardinality(Carry) + 1
          BY <1>0, <2>7, OneComes
        <4> QED BY <1>0, <1>t, <2>3, <2>5, <3>1, <4>1
      <3>2. CASE net' = (net \ {d}) \cup Chunks(s, output) /\ dups' = dups
        <4>1. Carry' \subseteq (Carry \ {d}) \cup {x}
          BY <2>1, <2>2, <3>2 DEF Carry
        <4>2. /\ IsFiniteSet(Carry') /\ Cardinality(Carry') \in Nat
              /\ Cardinality(Carry') <= Cardinality(Carry)
          BY <1>0, <2>4, <4>1, OneForAnother
        <4> QED BY <1>0, <1>t, <2>3, <2>5, <3>2, <4>2
      <3> QED BY <2>3, <3>1, <3>2
    <2>9. dups' \in Nat /\ dups <= dups' /\ cmds' \in Nat
      BY <1>0, <2>3
    <2>10. /\ streams' \in [Senders -> Nat] /\ streams'[s] = streams[s] + 1
           /\ \A r \in Senders : r # s => streams'[r] = streams[r]
      BY <1>0, <2>3
    <2>11. ASSUME NEW r \in Senders
           PROVE  /\ streams'[r] <= FdLimit
                  /\ Cardinality(CarryFrom(r)') + Cardinality(EndsFrom(r)') <= streams'[r] + dups'
      <3>1. CASE r = s
        <4>1. /\ Cardinality(CarryFrom(s)') \in Nat
              /\ Cardinality(CarryFrom(s)') <= Cardinality(CarryFrom(s)) + 1
          BY <1>t, <2>7, OneComes
        <4>2. streams'[s] <= FdLimit
          BY <1>t, <2>3, <2>10
        <4>3. Cardinality(CarryFrom(s)') + Cardinality(EndsFrom(s)') <= streams'[s] + dups'
          BY <1>0, <1>t, <2>5, <2>9, <2>10, <4>1
        <4> QED BY <3>1, <4>2, <4>3
      <3>2. CASE r # s
        <4>1. /\ Cardinality(CarryFrom(r)') \in Nat
              /\ Cardinality(CarryFrom(r)') <= Cardinality(CarryFrom(r))
          BY <1>t, <2>7, <3>2, NoneComes
        <4> QED BY <1>0, <1>t, <2>5, <2>9, <2>10, <3>2, <4>1
      <3> QED BY <3>1, <3>2
    <2> QED BY <2>6, <2>8, <2>9, <2>10, <2>11 DEF Answers
  <1>6. ASSUME NEW s \in Senders, NEW d \in net, sendline_popen_fails(s, d) PROVE Answers'
    <2>1. net' \subseteq net /\ dups' \in {dups, dups + 1} /\ UNCHANGED <<heard, streams, cmds>>
      BY <1>6 DEF sendline_popen_fails, Deliver, recvline
    <2> QED BY <1>a, <2>1
  <1>7. CASE UNCHANGED vars
    BY <1>7, <1>a DEF vars, recvline
  <1> QED BY <1>1, <1>2, <1>3, <1>4, <1>5, <1>6, <1>7 DEF Next

(* For any number of senders, and whatever the network loses, repeats or         *)
(* reorders: recvline hears the ends of no more outputs than commands were typed  *)
(* into it, and of one sender no more than that has streams, except for one with   *)
(* every repeated datagram.                                                         *)
THEOREM AnswersWereAskedFor == Spec => []AnswersAreAskedFor
  <1>1. Received /\ Answers => AnswersAreAskedFor
    <2> SUFFICES ASSUME Received, Answers PROVE AnswersAreAskedFor
      OBVIOUS
    <2>1. Cardinality(Ends) <= cmds + dups
      BY AnswersTypes DEF Answers
    <2>2. \A s \in Senders : Cardinality(EndsFrom(s)) <= FdLimit + dups
      BY AnswersTypes DEF Answers
    <2> QED BY <2>1, <2>2 DEF AnswersAreAskedFor
  <1> QED BY <1>1, ReceivedInit, ReceivedNext, AnswersInit, AnswersNext, PTL DEF Spec

=============================================================================
