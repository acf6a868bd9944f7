-------------------------- MODULE EchoServers_proofs --------------------------
(* Proofs about the servers of EchoServers, for every number of clients, every *)
(* limit and every size of a buffer.                                            *)
EXTENDS EchoServers, SequenceTheorems, FiniteSetTheorems, FunctionTheorems,
        WellFoundedInduction, TLAPS

AcceptTypes ==
  /\ rlimit \in Limits
  /\ server \in {"running", "aborted", "killed"}
  /\ cur \in Conns \cup {NoConn} /\ step \in {"idle", "read", "write"}
  /\ backlog \in Seq(Conns)
  /\ link \in [Conns -> {"new", "backlog", "up", "over", "refused"}]
  /\ fd \in [Conns -> Int]
  /\ peer \in [Conns -> {"open", "fin", "reset", "finreset"}]
  /\ input \in [Conns -> BOOLEAN] /\ output \in [Conns -> BOOLEAN]

(* The strengthening of ServedInLifetime that a step preserves: a client that *)
(* was ever served keeps a descriptor of its own among those do_accept lets    *)
(* through, after free_fd_state too; and only a client with an fd_state is in   *)
(* the hands of a handler, so that none becomes "over" that was never served.   *)
Served == {c \in Conns : link[c] \in {"up", "over"}}
LastFd == IF rlimit <= FD_SETSIZE THEN rlimit - 1 ELSE FD_SETSIZE
InHandler == step # "idle" => cur \in Conns /\ link[cur] = "up"
OwnDescriptor ==
  /\ \A c \in Served : fd[c] \in FirstFd..LastFd
  /\ \A c, d \in Served : fd[c] = fd[d] => c = d

AcceptStep == Accept!Next \/ UNCHANGED Accept!vars
AcceptInv == AcceptTypes /\ InHandler /\ OwnDescriptor

-----------------------------------------------------------------------------

(* What the proofs use of the constants. *)
LEMMA Constants ==
  /\ NoConn \notin Conns /\ IsFiniteSet(Conns)
  /\ FD_SETSIZE \in Nat /\ FirstFd \in Nat /\ FirstFd <= FD_SETSIZE
  /\ \A l \in Limits : l \in Nat /\ FirstFd <= l
  <1>1. Accept!IsFiniteSet(Conns) <=> IsFiniteSet(Conns)
    BY DEF Accept!IsFiniteSet, IsFiniteSet
  <1> QED BY <1>1, EchoServersAssumption DEF EchoServersAssumption, Accept!AcceptAssumption

-----------------------------------------------------------------------------
(* The rot13 server across its connections.                                 *)

(* A non-empty set of natural numbers has a least member. *)
LEMMA LeastExists ==
  ASSUME NEW T \in SUBSET Nat, T # {}
  PROVE  \E k \in T : \A m \in T : k <= m
  <1>1. PICK k \in T : \A m \in T : ~ (<<m, k>> \in OpToRel(<, Nat))
    BY WFMin, NatLessThanWellFounded, Zenon
  <1>2. \A m \in T : ~ (m < k)
    BY <1>1 DEF OpToRel
  <1> QED BY <1>2

(* accept returns a descriptor that is free, below the limit and not used by  *)
(* the program itself.                                                        *)
LEMMA NewFdIsFree ==
  ASSUME AcceptTypes, Accept!FreeFds # {}
  PROVE  /\ Accept!NewFd \in FirstFd..(rlimit - 1)
         /\ \A c \in Conns : fd[c] # -1 => fd[c] # Accept!NewFd
  <1>1. Accept!FreeFds \in SUBSET Nat
    BY Constants DEF Accept!FreeFds, AcceptTypes
  <1>2. Accept!NewFd \in Accept!FreeFds
    BY <1>1, LeastExists DEF Accept!NewFd
  <1> QED BY <1>2 DEF Accept!FreeFds, Accept!Open

LEMMA AcceptInvInit == Accept!Init => AcceptInv
  <1> SUFFICES ASSUME Accept!Init PROVE AcceptInv
    OBVIOUS
  <1>1. AcceptTypes
    BY EmptySeq DEF Accept!Init, AcceptTypes
  <1>2. Served = {} /\ step = "idle"
    BY DEF Accept!Init, Served
  <1> QED BY <1>1, <1>2 DEF AcceptInv, InHandler, OwnDescriptor

LEMMA AcceptTypesNext == AcceptInv /\ AcceptStep => AcceptTypes'
  <1> SUFFICES ASSUME AcceptInv, AcceptStep PROVE AcceptTypes'
    OBVIOUS
  <1> USE Constants DEF AcceptInv, AcceptTypes, InHandler
  <1>1. ASSUME NEW c \in Conns,
               Accept!Connect(c) \/ Accept!ClientSend(c) \/ Accept!ClientFin(c) \/ Accept!ClientReset(c)
        PROVE  AcceptTypes'
    <2>1. Append(backlog, c) \in Seq(Conns)
      BY AppendProperties
    <2> QED BY <1>1, <2>1 DEF Accept!Connect, Accept!ClientSend, Accept!ClientFin, Accept!ClientReset, Accept!Gone, Accept!client
  <1>2. ASSUME Accept!Accepting PROVE Head(backlog) \in Conns /\ backlog' \in Seq(Conns)
    BY <1>2, HeadTailProperties DEF Accept!Accepting
  <1>3. CASE Accept!AcceptCloses
    BY <1>2, <1>3 DEF Accept!AcceptCloses
  <1>4. CASE Accept!AcceptOpens
    <2>1. Accept!NewFd \in Int
      BY <1>4, NewFdIsFree DEF Accept!AcceptOpens, Accept!Accepting
    <2> QED BY <1>2, <1>4, <2>1 DEF Accept!AcceptOpens
  <1>5. ASSUME NEW c \in Conns, Accept!StartRead(c) \/ Accept!StartWrite(c) PROVE AcceptTypes'
    BY <1>5 DEF Accept!StartRead, Accept!StartWrite, Accept!client
  <1>6. CASE Accept!RecvSome \/ Accept!RecvAgain \/ Accept!RecvEnd
    BY <1>6 DEF Accept!RecvSome, Accept!RecvAgain, Accept!RecvEnd, Accept!free_fd_state, Accept!Return, Accept!client
  <1>7. CASE Accept!SendDone \/ Accept!SendAgain \/ Accept!SendError \/ Accept!SendSigpipe
    BY <1>7 DEF Accept!SendDone, Accept!SendAgain, Accept!SendError, Accept!SendSigpipe, Accept!free_fd_state, Accept!Return, Accept!client
  <1>8. CASE Accept!AcceptFails \/ Accept!SendPart \/ UNCHANGED Accept!vars
    BY <1>8 DEF Accept!AcceptFails, Accept!SendPart, Accept!vars, Accept!client
  <1> QED BY <1>1, <1>3, <1>4, <1>5, <1>6, <1>7, <1>8
          DEF AcceptStep, Accept!Next, Accept!do_accept, Accept!do_read, Accept!do_write

LEMMA DescriptorNext == AcceptInv /\ AcceptStep => InHandler' /\ OwnDescriptor'
  <1> SUFFICES ASSUME AcceptInv, AcceptStep PROVE InHandler' /\ OwnDescriptor'
    OBVIOUS
  <1> USE Constants DEF AcceptInv, AcceptTypes, InHandler, OwnDescriptor
  <1>0. ASSUME UNCHANGED <<rlimit, fd>>, \A c \in Conns : c \in Served' <=> c \in Served
        PROVE  OwnDescriptor'
    BY <1>0 DEF Served, LastFd
  <1>1. ASSUME NEW c \in Conns,
               Accept!Connect(c) \/ Accept!ClientSend(c) \/ Accept!ClientFin(c) \/ Accept!ClientReset(c)
        PROVE  InHandler' /\ OwnDescriptor'
    <2>1. UNCHANGED <<rlimit, fd, step, cur>>
      BY <1>1 DEF Accept!Connect, Accept!ClientSend, Accept!ClientFin, Accept!ClientReset, Accept!client
    <2>2. \A d \in Conns : /\ d \in Served' <=> d \in Served
                           /\ link[d] = "up" => link'[d] = "up"
      BY <1>1 DEF Accept!Connect, Accept!ClientSend, Accept!ClientFin, Accept!ClientReset, Accept!client, Served
    <2> QED BY <1>0, <2>1, <2>2
  <1>2. ASSUME Accept!Accepting PROVE Head(backlog) \in Conns /\ step = "idle"
    BY <1>2, HeadTailProperties DEF Accept!Accepting
  <1>3. CASE Accept!AcceptCloses
    <2> DEFINE c == Head(backlog)
    <2>1. UNCHANGED <<rlimit, fd, step>> /\ link' = [link EXCEPT ![c] = "refused"]
      BY <1>3 DEF Accept!AcceptCloses
    <2>2. Served' \subseteq Served
      BY <1>2, <1>3, <2>1 DEF Accept!AcceptCloses, Served
    <2> QED BY <1>2, <1>3, <2>1, <2>2 DEF Accept!AcceptCloses, LastFd
  <1>4. CASE Accept!AcceptOpens
    <2>0. PICK c \in Conns : c = Head(backlog)
      BY <1>2, <1>4 DEF Accept!AcceptOpens
    <2>1. /\ UNCHANGED <<rlimit, step>> /\ step = "idle"
          /\ fd' = [fd EXCEPT ![c] = Accept!NewFd] /\ link' = [link EXCEPT ![c] = "up"]
          /\ Accept!NewFd <= FD_SETSIZE /\ Accept!FreeFds # {}
      BY <1>2, <1>4, <2>0 DEF Accept!AcceptOpens, Accept!Accepting
    <2>2. Accept!NewFd \in FirstFd..LastFd /\ \A d \in Conns : fd[d] # -1 => fd[d] # Accept!NewFd
      BY <2>1, NewFdIsFree DEF LastFd
    <2>3. Served' = Served \cup {c}
      BY <2>1 DEF Served
    <2>4. fd'[c] = Accept!NewFd /\ \A d \in Conns \ {c} : fd'[d] = fd[d]
      BY <2>1
    <2>5. \A d \in Served : fd[d] # -1 /\ d \in Conns
      BY DEF Served
    <2> QED BY <2>1, <2>2, <2>3, <2>4, <2>5 DEF LastFd
  <1>5. ASSUME NEW c \in Conns, Accept!StartRead(c) \/ Accept!StartWrite(c)
        PROVE  InHandler' /\ OwnDescriptor'
    BY <1>0, <1>5 DEF Accept!StartRead, Accept!StartWrite, Accept!client, Served
  <1>6. CASE Accept!RecvEnd \/ Accept!SendError
    <2>1. /\ step # "idle" /\ link' = [link EXCEPT ![cur] = "over"] /\ step' = "idle"
          /\ UNCHANGED <<rlimit, fd>>
      BY <1>6 DEF Accept!RecvEnd, Accept!SendError, Accept!free_fd_state, Accept!Return
    <2>2. \A d \in Conns : d \in Served' <=> d \in Served
      BY <2>1 DEF Served
    <2> QED BY <1>0, <2>1, <2>2
  <1>7. CASE Accept!RecvSome \/ Accept!RecvAgain \/ Accept!SendDone \/ Accept!SendAgain \/ Accept!SendSigpipe
    <2>1. /\ UNCHANGED <<rlimit, link, fd>>
          /\ step' = "idle" \/ UNCHANGED <<step, cur>>
      BY <1>7 DEF Accept!RecvSome, Accept!RecvAgain, Accept!SendDone, Accept!SendAgain, Accept!SendSigpipe, Accept!Return, Accept!client
    <2> QED BY <1>0, <2>1 DEF Served
  <1>8. CASE Accept!AcceptFails \/ Accept!SendPart \/ UNCHANGED Accept!vars
    <2>1. UNCHANGED <<rlimit, link, fd, step, cur>>
      BY <1>8 DEF Accept!AcceptFails, Accept!SendPart, Accept!vars, Accept!client
    <2> QED BY <1>0, <2>1 DEF Served
  <1> QED BY <1>1, <1>3, <1>4, <1>5, <1>6, <1>7, <1>8
          DEF AcceptStep, Accept!Next, Accept!do_accept, Accept!do_read, Accept!do_write

(* The server that does not run does nothing.                                *)
LEMMA OnlyOneRuns ==
  ASSUME [Next]_vars
  PROVE  /\ AcceptStep
         /\ Line!Next \/ UNCHANGED line
         /\ Reverse!Next \/ UNCHANGED reverse
  <1>1. UNCHANGED accept => UNCHANGED Accept!vars
    BY DEF accept, Accept!vars, Accept!client
  <1> QED BY <1>1 DEF AcceptStep, Next, vars, AcceptRuns, LineRuns, ReverseRuns

LEMMA SameCardinality == \A S : Accept!Cardinality(S) = Cardinality(S)
  <1>1. \A S : Accept!IsFiniteSet(S) = IsFiniteSet(S)
    BY DEF Accept!IsFiniteSet, IsFiniteSet
  <1> QED BY <1>1 DEF Accept!Cardinality, Cardinality

(* free_fd_state closes nothing, so that the clients do_accept ever takes,    *)
(* however many come, are no more than the descriptors between the program's   *)
(* own and RLIMIT_NOFILE or FD_SETSIZE.                                        *)
THEOREM ServesNoMoreThanDescriptors == Spec => []ServedInLifetime
  <1>1. AcceptInv => ServedInLifetime
    <2> SUFFICES ASSUME AcceptInv
                 PROVE  Cardinality(Served) <= LastFd - FirstFd + 1
      BY SameCardinality DEF ServedInLifetime, Accept!ServedInLifetime, Served, LastFd
    <2> DEFINE f == [c \in Served |-> fd[c]]
    <2>1. f \in Injection(Served, FirstFd..LastFd)
      BY Fun_IsInj DEF AcceptInv, OwnDescriptor
    <2>2. FirstFd \in Int /\ LastFd \in Int /\ FirstFd <= LastFd + 1
      BY Constants DEF AcceptInv, AcceptTypes, LastFd
    <2>3. /\ IsFiniteSet(FirstFd..LastFd)
          /\ Cardinality(FirstFd..LastFd) = LastFd - FirstFd + 1
      BY <2>2, FS_Interval
    <2> QED BY <2>1, <2>3, FS_Injection
  <1>2. Init => AcceptInv
    BY AcceptInvInit DEF Init
  <1>3. AcceptInv /\ [Next]_vars => AcceptInv'
    BY OnlyOneRuns, AcceptTypesNext, DescriptorNext DEF AcceptInv
  <1> QED BY <1>1, <1>2, <1>3, PTL DEF Spec

-----------------------------------------------------------------------------
(* What two definitions compute, byte by byte: Broken of the line server and  *)
(* Sifted of the reversing one.                                                *)

Column(b, byte) == IF byte = "nl" THEN 0 ELSE b.column + 1
After(b, byte) ==
  IF Column(b, byte) = MAX_LINE
  THEN [text |-> b.text \o <<byte, "nl">>, column |-> 0]
  ELSE [text |-> Append(b.text, byte), column |-> Column(b, byte)]

With(b, byte) ==
  CASE byte = Reverse!CR -> [b EXCEPT !.cr = @ + 1]
    [] byte = Reverse!LF -> [b EXCEPT !.lf = @ + 1]
    [] OTHER -> [b EXCEPT !.kept = Append(@, byte)]

Start(what) == IF what = "broken" THEN [text |-> <<>>, column |-> 0]
               ELSE [kept |-> <<>>, cr |-> 0, lf |-> 0]
Step(what, b, byte) == IF what = "broken" THEN After(b, byte) ELSE With(b, byte)

Solves(what, s, n, f) ==
  f = [k \in 0..n |-> IF k = 0 THEN Start(what) ELSE Step(what, f[k - 1], s[k])]
Solution(what, s) == CHOOSE f : Solves(what, s, Len(s), f)
Computed(what, s) == Solution(what, s)[Len(s)]

LEMMA BrokenIs == \A s : Line!Broken(s) = Computed("broken", s)
  BY DEF Line!Broken, Computed, Solution, Solves, Step, After, Column, Start

LEMMA SiftedIs == \A s : Reverse!Sifted(s) = Computed("sifted", s)
  <1>1. "sifted" # "broken"
    OBVIOUS
  <1> QED BY <1>1 DEF Reverse!Sifted, Computed, Solution, Solves, Step, With, Start

LEMMA SolvesAre ==
  ASSUME NEW what, NEW s, NEW n \in Nat, NEW f, Solves(what, s, n, f)
  PROVE  /\ f[0] = Start(what)
         /\ \A k \in 1..n : f[k] = Step(what, f[k - 1], s[k])
  BY DEF Solves

LEMMA SolutionExists ==
  ASSUME NEW what, NEW s, NEW n \in Nat
  PROVE  \E f : Solves(what, s, n, f)
  <1> DEFINE T == {m \in Nat : ~\E f : Solves(what, s, m, f)}
  <1> SUFFICES T = {}
    OBVIOUS
  <1> SUFFICES ASSUME T # {} PROVE FALSE
    OBVIOUS
  <1>1. PICK m \in T : \A k \in T : m <= k
    <2>1. T \in SUBSET Nat
      OBVIOUS
    <2> HIDE DEF T
    <2> QED BY <2>1, LeastExists
  <1>2. m \in Nat /\ ~\E f : Solves(what, s, m, f)
    BY <1>1
  <1>3. CASE m = 0
    <2> DEFINE f == [k \in 0..0 |-> Start(what)]
    <2>1. f = [k \in 0..0 |-> IF k = 0 THEN Start(what) ELSE Step(what, f[k - 1], s[k])]
      <3>1. \A k \in 0..0 : k = 0
        OBVIOUS
      <3> QED BY <3>1
    <2> QED BY <1>2, <1>3, <2>1 DEF Solves
  <1>4. CASE m # 0
    <2>1. m - 1 \in Nat /\ ~(m <= m - 1)
      BY <1>2, <1>4
    <2>2. PICK f : Solves(what, s, m - 1, f)
      BY <1>1, <2>1
    <2> DEFINE g == [k \in 0..m |-> IF k = m THEN Step(what, f[m - 1], s[m]) ELSE f[k]]
    <2>3. \A k \in 0..m - 1 : g[k] = f[k] /\ k # m /\ k \in 0..m
      BY <2>1
    <2>4. g[m] = Step(what, f[m - 1], s[m])
      BY <1>2
    <2>5. f[0] = Start(what) /\ \A k \in 1..m - 1 : f[k] = Step(what, f[k - 1], s[k])
      <3> DEFINE i == m - 1
      <3>1. i \in Nat /\ Solves(what, s, i, f)
        BY <2>1, <2>2
      <3> HIDE DEF i
      <3>2. f[0] = Start(what) /\ \A k \in 1..i : f[k] = Step(what, f[k - 1], s[k])
        BY <3>1 DEF Solves
      <3> QED BY <3>2 DEF i
    <2>6. g = [k \in 0..m |-> g[k]]
      OBVIOUS
    <2> HIDE DEF g
    <2>7. \A k \in 0..m : g[k] = IF k = 0 THEN Start(what) ELSE Step(what, g[k - 1], s[k])
      <3> SUFFICES ASSUME NEW k \in 0..m
                   PROVE  g[k] = IF k = 0 THEN Start(what) ELSE Step(what, g[k - 1], s[k])
        OBVIOUS
      <3>1. CASE k = 0
        BY <1>2, <1>4, <2>3, <2>5, <3>1
      <3>2. CASE k = m
        <4>1. m - 1 \in 0..m - 1
          BY <2>1
        <4> QED BY <1>4, <2>3, <2>4, <3>2, <4>1
      <3>3. CASE k # 0 /\ k # m
        <4>1. k \in 0..m - 1 /\ k \in 1..m - 1 /\ k - 1 \in 0..m - 1
          BY <1>2, <3>3
        <4> QED BY <2>3, <2>5, <3>3, <4>1
      <3> QED BY <3>1, <3>2, <3>3
    <2>8. g = [k \in 0..m |-> IF k = 0 THEN Start(what) ELSE Step(what, g[k - 1], s[k])]
      BY <2>6, <2>7
    <2> QED BY <1>2, <2>8 DEF Solves
  <1> QED BY <1>3, <1>4

(* A stream with one byte more is computed one step further.                 *)
LEMMA ComputedAppend ==
  ASSUME NEW what, NEW S, NEW s \in Seq(S), NEW byte \in S
  PROVE  /\ Computed(what, <<>>) = Start(what)
         /\ Computed(what, Append(s, byte)) = Step(what, Computed(what, s), byte)
  <1> DEFINE longer == Append(s, byte)
             n == Len(s)
             f == Solution(what, s)
             g == Solution(what, longer)
             T == {k \in Nat : k <= n /\ f[k] # g[k]}
  <1>1. n \in Nat /\ Len(longer) = n + 1 /\ longer[n + 1] = byte
    BY LenProperties, AppendProperties
  <1>2. \A k \in 1..n : longer[k] = s[k]
    OBVIOUS
  <1>3. Solves(what, s, n, f) /\ Solves(what, longer, n + 1, g)
    <2>1. n + 1 \in Nat
      BY <1>1
    <2>2. (\E h : Solves(what, s, n, h)) /\ (\E h : Solves(what, longer, n + 1, h))
      BY <1>1, <2>1, SolutionExists
    <2> QED BY <1>1, <2>2 DEF Solution
  <1> HIDE DEF f, g, longer
  <1>4. /\ f[0] = Start(what) /\ g[0] = Start(what)
        /\ \A k \in 1..n : f[k] = Step(what, f[k - 1], s[k])
        /\ \A k \in 1..n + 1 : g[k] = Step(what, g[k - 1], longer[k])
    <2>1. f[0] = Start(what) /\ \A k \in 1..n : f[k] = Step(what, f[k - 1], s[k])
      BY <1>1, <1>3, SolvesAre
    <2> DEFINE i == n + 1
    <2>2. i \in Nat /\ Solves(what, longer, i, g)
      BY <1>1, <1>3
    <2> HIDE DEF i
    <2>3. g[0] = Start(what) /\ \A k \in 1..i : g[k] = Step(what, g[k - 1], longer[k])
      BY <2>2 DEF Solves
    <2> QED BY <2>1, <2>3 DEF i
  <1>5. f[n] = g[n]
    <2> SUFFICES ASSUME T # {} PROVE FALSE
      BY <1>1
    <2>1. PICK m \in T : \A k \in T : m <= k
      <3>1. T \in SUBSET Nat
        OBVIOUS
      <3> HIDE DEF T
      <3> QED BY <3>1, LeastExists
    <2>2. m \in 1..n /\ m \in 1..n + 1 /\ f[m] # g[m]
      BY <1>1, <1>4, <2>1
    <2>3. m - 1 \in Nat /\ m - 1 <= n /\ ~(m <= m - 1)
      BY <1>1, <2>2
    <2>4. f[m - 1] = g[m - 1]
      BY <2>1, <2>3
    <2> QED BY <1>2, <1>4, <2>2, <2>4
  <1>6. g[n + 1] = Step(what, g[n], byte)
    <2>1. n + 1 \in 1..n + 1 /\ n + 1 - 1 = n
      BY <1>1
    <2> QED BY <1>1, <1>4, <2>1
  <1>7. Computed(what, longer) = g[n + 1] /\ Computed(what, s) = f[n]
    BY <1>1 DEF f, g, Computed
  <1>8. Computed(what, <<>>) = Start(what)
    <2>1. Len(<<>>) = 0 /\ 0 \in Nat
      OBVIOUS
    <2>2. Solves(what, <<>>, 0, Solution(what, <<>>))
      <3>1. \E h : Solves(what, <<>>, 0, h)
        BY <2>1, SolutionExists
      <3> QED BY <2>1, <3>1 DEF Solution
    <2> QED BY <2>1, <2>2, SolvesAre DEF Computed
  <1> QED BY <1>5, <1>6, <1>7, <1>8 DEF longer

LEMMA BrokenAppend ==
  ASSUME NEW S, NEW s \in Seq(S), NEW byte \in S
  PROVE  /\ Line!Broken(<<>>) = [text |-> <<>>, column |-> 0]
         /\ Line!Broken(Append(s, byte)) = After(Line!Broken(s), byte)
  BY ComputedAppend, BrokenIs DEF Start, Step

LEMMA SiftedAppend ==
  ASSUME NEW S, NEW s \in Seq(S), NEW byte \in S
  PROVE  /\ Reverse!Sifted(<<>>) = [kept |-> <<>>, cr |-> 0, lf |-> 0]
         /\ Reverse!Sifted(Append(s, byte)) = With(Reverse!Sifted(s), byte)
  <1>1. "sifted" # "broken"
    OBVIOUS
  <1> QED BY <1>1, ComputedAppend, SiftedIs DEF Start, Step

-----------------------------------------------------------------------------
(* The line server.                                                         *)

(* A part of a sequence, and the sequence cut in two.                        *)
LEMMA PartOf ==
  ASSUME NEW S, NEW s \in Seq(S), NEW m \in Nat, NEW n \in Nat, m <= n, n <= Len(s)
  PROVE  /\ SubSeq(s, m + 1, n) \in Seq(S)
         /\ Len(SubSeq(s, m + 1, n)) = n - m
         /\ \A k \in 1..n - m : SubSeq(s, m + 1, n)[k] = s[m + k]
  <1> DEFINE a == m + 1
  <1>1. a \in Int /\ n \in Int /\ \A k \in a..n : s[k] \in S
    BY LenProperties, ElementOfSeq
  <1>2. /\ Len(SubSeq(s, m + 1, n)) = n - m
        /\ \A k \in 1..n - m : SubSeq(s, m + 1, n)[k] = s[m + k]
    BY LenProperties
  <1> HIDE DEF a
  <1>3. SubSeq(s, a, n) \in Seq(S)
    BY <1>1, SubSeqProperties
  <1> QED BY <1>2, <1>3 DEF a

LEMMA CutInTwo ==
  ASSUME NEW S, NEW s \in Seq(S), NEW n \in Nat, n <= Len(s)
  PROVE  /\ SubSeq(s, 1, n) \in Seq(S) /\ Len(SubSeq(s, 1, n)) = n
         /\ \A k \in 1..n : SubSeq(s, 1, n)[k] = s[k]
         /\ SubSeq(s, n + 1, Len(s)) \in Seq(S) /\ Len(SubSeq(s, n + 1, Len(s))) = Len(s) - n
         /\ \A k \in 1..Len(s) - n : SubSeq(s, n + 1, Len(s))[k] = s[n + k]
         /\ SubSeq(s, 1, n) \o SubSeq(s, n + 1, Len(s)) = s
  <1> DEFINE u == SubSeq(s, 1, n)
             v == SubSeq(s, n + 1, Len(s))
             l == Len(s)
             z == 0
  <1>1. l \in Nat /\ z \in Nat /\ z <= n
    BY LenProperties
  <1>2. SubSeq(s, z + 1, n) \in Seq(S) /\ Len(SubSeq(s, z + 1, n)) = n - z
        /\ \A k \in 1..n - z : SubSeq(s, z + 1, n)[k] = s[z + k]
    <2> HIDE DEF z
    <2> QED BY <1>1, PartOf
  <1>3. u \in Seq(S) /\ Len(u) = n /\ \A k \in 1..n : u[k] = s[k]
    BY <1>2
  <1>4. v \in Seq(S) /\ Len(v) = l - n /\ \A k \in 1..l - n : v[k] = s[n + k]
    BY <1>1, PartOf
  <1> HIDE DEF u, v
  <1>5. u \o v \in Seq(S) /\ Len(u \o v) = l
    <2>1. u \o v \in Seq(S) /\ Len(u \o v) = Len(u) + Len(v)
      BY <1>3, <1>4, ConcatProperties
    <2> QED BY <1>1, <1>3, <1>4, <2>1
  <1>6. \A k \in 1..n + (l - n) : (u \o v)[k] = IF k <= n THEN u[k] ELSE v[k - n]
    BY <1>3, <1>4, ConcatProperties
  <1>7. \A k \in 1..l : (u \o v)[k] = s[k]
    BY <1>1, <1>3, <1>4, <1>6
  <1>8. u \o v = s
    <2>1. \A k \in 1..Len(u \o v) : (u \o v)[k] = s[k]
      BY <1>5, <1>7
    <2>2. Len(u \o v) = Len(s)
      BY <1>5
    <2> QED BY <1>5, <2>1, <2>2, SeqEqual
  <1> QED BY <1>3, <1>4, <1>8 DEF u, v

LEMMA Rebracket ==
  ASSUME NEW S, NEW a \in Seq(S), NEW b \in Seq(S), NEW c \in Seq(S), NEW d \in Seq(S)
  PROVE  (a \o b) \o (c \o d) = a \o ((b \o c) \o d)
  <1>1. c \o d \in Seq(S)
    BY ConcatProperties
  <1>2. (a \o b) \o (c \o d) = a \o (b \o (c \o d))
    BY <1>1, ConcatAssociative, SMTT(30)
  <1>3. b \o (c \o d) = (b \o c) \o d
    BY ConcatAssociative, SMTT(30)
  <1> QED BY <1>2, <1>3

(* The last newline is the one with none behind it.                          *)
LEMMA LastNewlineIs ==
  ASSUME NEW S, NEW s \in Seq(S)
  PROVE  /\ Line!LastNewline(s) \in 0..Len(s)
         /\ Line!LastNewline(s) > 0 => s[Line!LastNewline(s)] = "nl"
         /\ \A k \in 1..Len(s) : s[k] = "nl" => k <= Line!LastNewline(s)
  <1> DEFINE n == Len(s)
             ends == {k \in 1..n : s[k] = "nl"}
             T == {n - k : k \in ends}
  <1>1. n \in Nat
    BY LenProperties
  <1>2. Line!LastNewline(s) = IF ends = {} THEN 0
                              ELSE CHOOSE k \in ends : \A m \in ends : m <= k
    BY DEF Line!LastNewline
  <1>3. CASE ends # {}
    <2>1. T \in SUBSET Nat /\ T # {}
      BY <1>1, <1>3
    <2>2. PICK d \in T : \A e \in T : d <= e
      <3> HIDE DEF T
      <3> QED BY <2>1, LeastExists
    <2>3. PICK k \in ends : d = n - k
      BY <2>2
    <2>4. \A m \in ends : m <= k
      <3> SUFFICES ASSUME NEW m \in ends PROVE m <= k
        OBVIOUS
      <3>1. n - k <= n - m
        BY <2>2, <2>3
      <3> QED BY <1>1, <3>1
    <2> HIDE DEF ends
    <2>5. /\ Line!LastNewline(s) \in ends
          /\ \A m \in ends : m <= Line!LastNewline(s)
      BY <1>2, <1>3, <2>3, <2>4
    <2> USE DEF ends
    <2> QED BY <1>1, <2>5
  <1>4. CASE ends = {}
    BY <1>1, <1>2, <1>4
  <1> QED BY <1>3, <1>4

LEMMA LastNewlineAt ==
  ASSUME NEW S, NEW s \in Seq(S), NEW n \in 0..Len(s),
         n > 0 => s[n] = "nl", \A k \in n + 1..Len(s) : s[k] # "nl"
  PROVE  /\ Line!LastNewline(s) = n
         /\ Line!Complete(s) = SubSeq(s, 1, n)
         /\ Line!Partial(s) = SubSeq(s, n + 1, Len(s))
  <1> DEFINE m == Line!LastNewline(s)
  <1>1. /\ Len(s) \in Nat /\ m \in 0..Len(s) /\ (m > 0 => s[m] = "nl")
        /\ \A k \in 1..Len(s) : s[k] = "nl" => k <= m
    BY LenProperties, LastNewlineIs
  <1> HIDE DEF m
  <1>2. m = n
    <2>1. CASE m > n
      BY <1>1, <2>1
    <2>2. CASE n > m
      BY <1>1, <2>2
    <2> QED BY <1>1, <2>1, <2>2
  <1> QED BY <1>2 DEF m, Line!Complete, Line!Partial

(* What read_callback takes and leaves, with the limit not reached by far.    *)
NoNewline(s) == \A k \in 1..Len(s) : s[k] # "nl"
Ended(s) == s = <<>> \/ s[Len(s)] = "nl"
Taken(s) == Line!read_callback(s).out
Left(s) == Line!read_callback(s).in

LEMMA CallbackTakes ==
  ASSUME NEW S, "nl" \in S, MAX_LINE \in Nat, MAX_LINE > 0,
         NEW s \in Seq(S), Len(s) < MAX_LINE
  PROVE  /\ Taken(s) = SubSeq(s, 1, Line!LastNewline(s))
         /\ Left(s) = SubSeq(s, Line!LastNewline(s) + 1, Len(s))
         /\ Taken(s) \o Left(s) = s
  <1> DEFINE p == Line!LastNewline(s)
  <1>1. Len(s) \in Nat /\ p \in 0..Len(s)
    BY LenProperties, LastNewlineIs
  <1>2. Line!Partial(s) = SubSeq(s, p + 1, Len(s)) /\ Line!Complete(s) = SubSeq(s, 1, p)
    BY DEF Line!Partial, Line!Complete
  <1> HIDE DEF p
  <1>3. Len(Line!Partial(s)) = Len(s) - p
    BY <1>1, <1>2, CutInTwo
  <1>4. ~(Len(Line!Partial(s)) >= MAX_LINE)
    BY <1>1, <1>3
  <1>5. Line!read_callback(s) = [in |-> Line!Partial(s), out |-> Line!Complete(s)]
    BY <1>4 DEF Line!read_callback
  <1>6. SubSeq(s, 1, p) \o SubSeq(s, p + 1, Len(s)) = s
    <2>1. p \in Nat /\ p <= Len(s)
      BY <1>1
    <2> QED BY <2>1, CutInTwo
  <1>7. Taken(s) = Line!Complete(s) /\ Left(s) = Line!Partial(s)
    BY <1>5 DEF Taken, Left
  <1>8. Taken(s) = SubSeq(s, 1, p) /\ Left(s) = SubSeq(s, p + 1, Len(s))
    BY <1>2, <1>7
  <1>9. Taken(s) \o Left(s) = s
    BY <1>6, <1>8
  <1> QED BY <1>8, <1>9 DEF p

(* One byte more: what read_callback makes of it is what Broken makes of it.  *)
LEMMA CallbackAfter ==
  ASSUME NEW S, "nl" \in S, MAX_LINE \in Nat, MAX_LINE > 0, NEW w \in Seq(S),
         NEW s \in Seq(S), Len(s) < MAX_LINE, NEW byte \in S, NEW b,
         b = [text |-> w \o s, column |-> Len(Left(s))]
  PROVE  LET t == Append(s, byte)
         IN  /\ After(b, byte) = [text |-> w \o (Taken(t) \o Left(t)), column |-> Len(Left(t))]
             /\ NoNewline(Left(t)) /\ Len(Left(t)) < MAX_LINE /\ Ended(Taken(t))
             /\ Taken(t) \in Seq(S) /\ Left(t) \in Seq(S)
  <1> DEFINE t == Append(s, byte)
             p == Line!LastNewline(s)
             n == Len(s)
  <1>1. n \in Nat /\ t \in Seq(S) /\ Len(t) = n + 1 /\ t[n + 1] = byte
    BY LenProperties, AppendProperties
  <1>2. \A k \in 1..n : t[k] = s[k]
    OBVIOUS
  <1>3. /\ p \in 0..n /\ (p > 0 => s[p] = "nl")
        /\ \A k \in 1..n : s[k] = "nl" => k <= p
    BY LastNewlineIs
  <1>4. Left(s) = SubSeq(s, p + 1, n)
    BY CallbackTakes
  <1>5. t = s \o <<byte>> /\ <<byte>> \in Seq(S) /\ <<"nl">> \in Seq(S)
    BY AppendIsConcat
  <1> HIDE DEF p, t, n
  <1>6. Len(Left(s)) = n - p
    BY <1>1, <1>3, <1>4 DEF n
  <1>7. Append(w \o s, byte) = w \o t
    <2>1. w \o s \in Seq(S)
      BY ConcatProperties
    <2>2. Append(w \o s, byte) = (w \o s) \o <<byte>>
      BY <2>1, AppendIsConcat
    <2> QED BY <1>5, <2>2, ConcatAssociative
  <1>8. CASE byte = "nl"
    <2>1. /\ n + 1 \in 0..Len(t) /\ (n + 1 > 0 => t[n + 1] = "nl")
          /\ \A k \in n + 1 + 1..Len(t) : t[k] # "nl"
      BY <1>1, <1>8
    <2> DEFINE m == n + 1
    <2>2. m \in 0..Len(t) /\ (m > 0 => t[m] = "nl") /\ \A k \in m + 1..Len(t) : t[k] # "nl"
      BY <2>1
    <2> HIDE DEF m
    <2>3. Line!Complete(t) = SubSeq(t, 1, m) /\ Line!Partial(t) = SubSeq(t, m + 1, Len(t))
      BY <1>1, <2>2, LastNewlineAt
    <2>4. SubSeq(t, 1, m) = t
      BY <1>1, SubSeqFull DEF m
    <2>5. SubSeq(t, m + 1, Len(t)) = <<>>
      BY <1>1 DEF m
    <2>6. Line!read_callback(t) = [in |-> <<>>, out |-> t]
      <3>1. ~(Len(Line!Partial(t)) >= MAX_LINE)
        <4>1. Line!Partial(t) = <<>>
          BY <2>3, <2>5
        <4>2. Len(<<>>) = 0
          OBVIOUS
        <4> QED BY <4>1, <4>2
      <3> QED BY <2>3, <2>4, <2>5, <3>1 DEF Line!read_callback
    <2>7. Taken(t) = t /\ Left(t) = <<>>
      BY <2>6 DEF Taken, Left
    <2>8. After(b, byte) = [text |-> w \o t, column |-> 0]
      <3>1. Column(b, byte) = 0 /\ Column(b, byte) # MAX_LINE
        BY <1>8 DEF Column
      <3>2. Append(b.text, byte) = w \o t
        BY <1>7
      <3> QED BY <3>1, <3>2 DEF After
    <2>9. t \o <<>> = t
      BY <1>1, ConcatEmptySeq
    <2>10. /\ NoNewline(<<>>) /\ Len(<<>>) = 0 /\ <<>> \in Seq(S) /\ Ended(t)
      BY <1>1, <1>8, EmptySeq DEF NoNewline, Ended
    <2> QED BY <1>1, <2>7, <2>8, <2>9, <2>10 DEF t
  <1>9. CASE byte # "nl"
    <2>1. p \in 0..Len(t) /\ (p > 0 => t[p] = "nl") /\ \A k \in p + 1..Len(t) : t[k] # "nl"
      <3>1. \A k \in p + 1..n + 1 : k = n + 1 \/ (k \in 1..n /\ ~(k <= p))
        BY <1>1, <1>3
      <3>2. p > 0 => p \in 1..n
        BY <1>1, <1>3
      <3>3. p > 0 => t[p] = "nl"
        BY <1>2, <1>3, <3>2
      <3>4. \A k \in p + 1..n + 1 : t[k] # "nl"
        BY <1>1, <1>2, <1>3, <1>9, <3>1
      <3> QED BY <1>1, <1>3, <3>3, <3>4
    <2>2. Line!Complete(t) = SubSeq(t, 1, p) /\ Line!Partial(t) = SubSeq(t, p + 1, n + 1)
      BY <1>1, <2>1, LastNewlineAt
    <2>3. Len(SubSeq(t, p + 1, n + 1)) = n - p + 1
      BY <1>1, <1>3
    <2>4. Column(b, byte) = n - p + 1
      BY <1>6, <1>9 DEF Column
    <2>5. CASE n - p + 1 = MAX_LINE
      <3>1. p = 0
        BY <1>1, <1>3, <2>5 DEF n
      <3>2. Taken(t) = t \o <<"nl">> /\ Left(t) = <<>>
        <4>1. Len(Line!Partial(t)) >= MAX_LINE
          <5>1. Len(Line!Partial(t)) = MAX_LINE
            BY <2>2, <2>3, <2>5
          <5> QED BY <5>1
        <4> QED BY <4>1 DEF Line!read_callback, Taken, Left
      <3>3. After(b, byte) = [text |-> (w \o s) \o <<byte, "nl">>, column |-> 0]
        BY <2>4, <2>5 DEF After
      <3>4. (w \o s) \o <<byte, "nl">> = w \o (t \o <<"nl">>)
        <4>1. <<byte, "nl">> = <<byte>> \o <<"nl">>
          OBVIOUS
        <4>2. (w \o s) \o (<<byte>> \o <<"nl">>) = w \o ((s \o <<byte>>) \o <<"nl">>)
          BY <1>5, Rebracket, SMTT(30)
        <4> QED BY <1>5, <4>1, <4>2, Zenon
      <3>5. /\ t \o <<"nl">> \in Seq(S) /\ Ended(t \o <<"nl">>)
            /\ (t \o <<"nl">>) \o <<>> = t \o <<"nl">>
        <4>1. t \o <<"nl">> \in Seq(S) /\ Len(t \o <<"nl">>) = n + 1 + 1
          BY <1>1, <1>5, ConcatProperties
        <4>2. (t \o <<"nl">>)[n + 1 + 1] = "nl"
          <5> DEFINE l == Len(t) + 1
          <5>1. Len(<<"nl">>) = 1 /\ <<"nl">>[1] = "nl" /\ Len(t) \in Nat
            BY <1>1
          <5>2. l \in 1..Len(t) + Len(<<"nl">>) /\ ~(l <= Len(t)) /\ l - Len(t) = 1
            BY <5>1
          <5> HIDE DEF l
          <5>3. (t \o <<"nl">>)[l] = <<"nl">>[l - Len(t)]
            BY <1>1, <1>5, <5>2, ConcatProperties
          <5>4. (t \o <<"nl">>)[l] = "nl"
            BY <5>1, <5>2, <5>3
          <5> QED BY <1>1, <5>4 DEF l
        <4> QED BY <4>1, <4>2, ConcatEmptySeq DEF Ended
      <3>6. NoNewline(<<>>) /\ Len(<<>>) = 0 /\ <<>> \in Seq(S)
        BY EmptySeq DEF NoNewline
      <3> QED BY <3>2, <3>3, <3>4, <3>5, <3>6 DEF t
    <2>6. CASE n - p + 1 # MAX_LINE
      <3>1. n - p + 1 < MAX_LINE
        <4>1. n < MAX_LINE
          BY DEF n
        <4> QED BY <1>1, <1>3, <2>6, <4>1
      <3>2. Taken(t) = SubSeq(t, 1, p) /\ Left(t) = SubSeq(t, p + 1, n + 1)
        <4>1. ~(Len(Line!Partial(t)) >= MAX_LINE)
          BY <1>1, <1>3, <2>2, <2>3, <3>1
        <4> QED BY <2>2, <4>1 DEF Line!read_callback, Taken, Left
      <3>3. After(b, byte) = [text |-> w \o t, column |-> n - p + 1]
        BY <1>7, <2>4, <2>6 DEF After
      <3>4. Taken(t) \o Left(t) = t
        <4>1. p \in Nat /\ p <= Len(t)
          BY <1>1, <1>3
        <4>2. SubSeq(t, 1, p) \o SubSeq(t, p + 1, Len(t)) = t
          BY <1>1, <4>1, CutInTwo
        <4> QED BY <1>1, <3>2, <4>2
      <3>5. Taken(t) \in Seq(S) /\ Left(t) \in Seq(S)
        BY <1>1, <1>3, <3>2, CutInTwo
      <3>6. NoNewline(Left(t))
        <4>1. \A k \in 1..n - p + 1 : SubSeq(t, p + 1, n + 1)[k] = t[p + k] /\ p + k \in p + 1..Len(t)
          BY <1>1, <1>3
        <4> QED BY <2>1, <2>3, <3>2, <4>1 DEF NoNewline
      <3>7. Ended(Taken(t))
        <4>1. CASE p = 0
          BY <3>2, <4>1 DEF Ended
        <4>2. CASE p > 0
          <5>1. Len(SubSeq(t, 1, p)) = p /\ SubSeq(t, 1, p)[p] = t[p]
            BY <1>1, <1>3, <4>2
          <5> QED BY <2>1, <3>2, <4>2, <5>1 DEF Ended
        <4> QED BY <1>3, <4>1, <4>2
      <3> QED BY <2>3, <3>1, <3>2, <3>3, <3>4, <3>5, <3>6, <3>7 DEF t
    <2> QED BY <2>5, <2>6
  <1> QED BY <1>8, <1>9 DEF t

LEMMA OneMore ==
  ASSUME NEW S, NEW a \in Seq(S), NEW x \in Seq(S), NEW j \in Nat, j < Len(x)
  PROVE  /\ x[j + 1] \in S /\ a \o SubSeq(x, 1, j) \in Seq(S)
         /\ Len(a \o SubSeq(x, 1, j)) = Len(a) + j
         /\ a \o SubSeq(x, 1, j + 1) = Append(a \o SubSeq(x, 1, j), x[j + 1])
  <1> DEFINE i == j + 1
             u == SubSeq(x, 1, j)
             e == x[i]
  <1>1. Len(a) \in Nat /\ Len(x) \in Nat /\ i \in 1..Len(x) /\ 1 \in 1..Len(x) /\ i - 1 = j
    BY LenProperties
  <1>2. u \in Seq(S) /\ Len(u) = j
    BY <1>1, CutInTwo
  <1>3. e \in S
    <2> HIDE DEF i
    <2> QED BY <1>1, ElementOfSeq
  <1>4. SubSeq(x, 1, i) = SubSeq(x, 1, i - 1) \o <<e>>
    <2>1. i \in 1..Len(x)
      BY <1>1
    <2> HIDE DEF i
    <2> QED BY <1>1, <2>1, SubSeqRecursiveSecond DEF e
  <1>5. SubSeq(x, 1, i) = u \o <<e>>
    BY <1>1, <1>4
  <1> HIDE DEF u, e, i
  <1>6. <<e>> \in Seq(S) /\ a \o u \in Seq(S) /\ Len(a \o u) = Len(a) + Len(u)
    <2>1. <<e>> \in Seq(S)
      BY <1>3
    <2> QED BY <1>2, <2>1, ConcatProperties
  <1>7. a \o (u \o <<e>>) = (a \o u) \o <<e>>
    BY <1>2, <1>6, ConcatAssociative
  <1>8. (a \o u) \o <<e>> = Append(a \o u, e)
    BY <1>3, <1>6, AppendIsConcat
  <1> QED BY <1>2, <1>3, <1>5, <1>6, <1>7, <1>8 DEF u, e, i

(* What the callback makes of all a buffer holds is what Broken makes of the  *)
(* bytes one by one: where a line is broken does not depend on how it came.    *)
Told(w, s) == [text |-> w \o (Taken(s) \o Left(s)), column |-> Len(Left(s))]
Tidy(S, s) ==
  /\ NoNewline(Left(s)) /\ Len(Left(s)) < MAX_LINE /\ Ended(Taken(s))
  /\ Taken(s) \in Seq(S) /\ Left(s) \in Seq(S)

LEMMA ChunkRead ==
  ASSUME NEW S, "nl" \in S, MAX_LINE \in Nat, MAX_LINE > 0,
         NEW before \in Seq(S), NEW w \in Seq(S), NEW s \in Seq(S), NEW x \in Seq(S),
         NoNewline(s), Len(s) < MAX_LINE, Len(s) + Len(x) <= MAX_LINE,
         Line!Broken(before) = [text |-> w \o s, column |-> Len(s)]
  PROVE  Line!Broken(before \o x) = Told(w, s \o x) /\ Tidy(S, s \o x)
  <1> DEFINE Good(j) == LET y == s \o SubSeq(x, 1, j)
                        IN  Line!Broken(before \o SubSeq(x, 1, j)) = Told(w, y) /\ Tidy(S, y)
             T == {j \in Nat : j <= Len(x) /\ ~Good(j)}
  <1>0. Len(s) \in Nat /\ Len(x) \in Nat
    BY LenProperties
  <1>1. Good(0)
    <2>1. SubSeq(x, 1, 0) = <<>> /\ before \o <<>> = before /\ s \o <<>> = s
      BY ConcatEmptySeq, SubSeqEmpty
    <2>2. 0 \in 0..Len(s) /\ \A k \in 0 + 1..Len(s) : s[k] # "nl"
      BY <1>0 DEF NoNewline
    <2> DEFINE z == 0
    <2>3. z \in 0..Len(s) /\ (z > 0 => s[z] = "nl") /\ \A k \in z + 1..Len(s) : s[k] # "nl"
      BY <2>2
    <2> HIDE DEF z
    <2>4. Line!LastNewline(s) = z
      BY <2>3, LastNewlineAt
    <2>5. Taken(s) = SubSeq(s, 1, 0) /\ Left(s) = SubSeq(s, 1, Len(s)) /\ Taken(s) \o Left(s) = s
      <3>1. /\ Taken(s) = SubSeq(s, 1, z) /\ Left(s) = SubSeq(s, z + 1, Len(s))
            /\ Taken(s) \o Left(s) = s
        BY <2>4, CallbackTakes
      <3> QED BY <3>1 DEF z
    <2>6. Taken(s) = <<>> /\ Left(s) = s
      BY <2>5, SubSeqFull, SubSeqEmpty
    <2>7. Told(w, s) = [text |-> w \o s, column |-> Len(s)]
      BY <2>5, <2>6 DEF Told
    <2>8. Tidy(S, s)
      BY <2>6, EmptySeq DEF Tidy, Ended
    <2> QED BY <2>1, <2>7, <2>8
  <1>2. ASSUME NEW j \in Nat, j < Len(x), Good(j) PROVE Good(j + 1)
    <2> DEFINE y == s \o SubSeq(x, 1, j)
               e == x[j + 1]
               done == before \o SubSeq(x, 1, j)
    <2>1. /\ e \in S /\ y \in Seq(S) /\ Len(y) = Len(s) + j
          /\ s \o SubSeq(x, 1, j + 1) = Append(y, e)
      <3>1. j \in Nat /\ j < Len(x)
        BY <1>2
      <3> QED BY <3>1, OneMore, SMTT(30)
    <2>2. done \in Seq(S) /\ before \o SubSeq(x, 1, j + 1) = Append(done, e)
      BY <1>2, OneMore
    <2>3. Line!Broken(done) = Told(w, y)
      BY <1>2
    <2> HIDE DEF y, e, done, Good
    <2>4. Len(y) < MAX_LINE
      BY <1>0, <1>2, <2>1
    <2>5. Taken(y) \o Left(y) = y
      BY <2>1, <2>4, CallbackTakes
    <2>6. Line!Broken(done) = [text |-> w \o y, column |-> Len(Left(y))]
      BY <2>3, <2>5 DEF Told
    <2>7. After(Line!Broken(done), e) = Told(w, Append(y, e)) /\ Tidy(S, Append(y, e))
      BY <2>1, <2>4, <2>6, CallbackAfter DEF Told, Tidy
    <2>8. Line!Broken(Append(done, e)) = After(Line!Broken(done), e)
      BY <2>1, <2>2, BrokenAppend
    <2> QED BY <2>1, <2>2, <2>7, <2>8 DEF Good
  <1>3. T = {}
    <2> HIDE DEF Good
    <2> SUFFICES ASSUME T # {} PROVE FALSE
      OBVIOUS
    <2>1. PICK j \in T : \A k \in T : j <= k
      <3>1. T \in SUBSET Nat
        OBVIOUS
      <3> HIDE DEF T
      <3> QED BY <3>1, LeastExists
    <2>2. j \in Nat /\ j <= Len(x) /\ ~Good(j)
      BY <2>1
    <2>3. j # 0
      BY <1>1, <2>2
    <2> DEFINE i == j - 1
    <2>4. i \in Nat /\ i < Len(x) /\ i <= Len(x) /\ ~(j <= i) /\ i + 1 = j
      BY <1>0, <2>2, <2>3
    <2> HIDE DEF i
    <2>5. Good(i)
      BY <2>1, <2>4
    <2>6. Good(i + 1)
      BY <1>2, <2>4, <2>5
    <2> QED BY <2>2, <2>4, <2>6
  <1>4. Good(Len(x))
    <2> HIDE DEF Good
    <2> DEFINE n == Len(x)
    <2>1. n \notin T
      <3> HIDE DEF T
      <3> QED BY <1>3
    <2>2. n \in Nat /\ n <= Len(x)
      BY <1>0
    <2> HIDE DEF n
    <2>3. Good(n)
      BY <2>1, <2>2
    <2> QED BY <2>3 DEF n
  <1>5. SubSeq(x, 1, Len(x)) = x
    BY SubSeqFull
  <1> QED BY <1>4, <1>5

(* The echo of a stream is what of it has been put out.                      *)
LEMMA EchoIs ==
  ASSUME NEW S, NEW s, NEW w \in Seq(S), NEW left \in Seq(S), Ended(w), NoNewline(left),
         Line!Broken(s).text = w \o left
  PROVE  Line!Echo(s) = w
  <1> DEFINE t == w \o left
             n == Len(w)
  <1>1. n \in Nat /\ Len(left) \in Nat /\ t \in Seq(S) /\ Len(t) = n + Len(left)
    BY LenProperties, ConcatProperties
  <1>2. \A k \in 1..Len(w) + Len(left) : t[k] = IF k <= Len(w) THEN w[k] ELSE left[k - Len(w)]
    BY ConcatProperties
  <1>3. SubSeq(t, 1, n) = w
    <2>1. SubSeq(t, 1, n) \in Seq(S) /\ Len(SubSeq(t, 1, n)) = n
          /\ \A k \in 1..n : SubSeq(t, 1, n)[k] = t[k]
      <3> HIDE DEF t, n
      <3>1. n <= Len(t)
        BY <1>1
      <3> QED BY <1>1, <3>1, CutInTwo
    <2>2. \A k \in 1..n : t[k] = w[k]
      BY <1>1, <1>2
    <2> HIDE DEF t
    <2> QED BY <2>1, <2>2, SeqEqual
  <1>4. /\ n \in 0..Len(t) /\ (n > 0 => t[n] = "nl")
        /\ \A k \in n + 1..Len(t) : t[k] # "nl"
    <2>1. n \in 0..Len(t)
      BY <1>1
    <2>2. n > 0 => t[n] = "nl"
      <3>1. n > 0 => t[n] = w[n]
        BY <1>1, <1>2
      <3>2. n > 0 => w # <<>>
        OBVIOUS
      <3> QED BY <3>1, <3>2 DEF Ended
    <2>3. \A k \in n + 1..Len(t) : t[k] # "nl"
      <3> SUFFICES ASSUME NEW k \in n + 1..Len(t) PROVE t[k] # "nl"
        OBVIOUS
      <3>1. k - n \in 1..Len(left) /\ k \in 1..Len(w) + Len(left) /\ ~(k <= Len(w))
        BY <1>1
      <3>2. t[k] = left[k - n]
        BY <1>2, <3>1
      <3> QED BY <3>1, <3>2 DEF NoNewline
    <2> QED BY <2>1, <2>2, <2>3
  <1> HIDE DEF t, n
  <1>5. Line!Complete(t) = SubSeq(t, 1, n)
    BY <1>1, <1>4, LastNewlineAt
  <1> QED BY <1>3, <1>5 DEF Line!Echo, t

(* What the line server keeps for a client: the types, and the strengthening  *)
(* of EchoOfWhatWasRead that a step preserves.  The lines put out and what the  *)
(* input buffer holds are the stream with its long lines broken, and the buffer  *)
(* holds how far it is into its last line: always less than the watermark, or     *)
(* the next read would be told in another way.                                     *)
LineTypes ==
  /\ lineLink \in [Clients -> {"new", "backlog", "up", "refused", "freed"}]
  /\ in \in [Clients -> Seq(LineBytes)] /\ out \in [Clients -> Seq(LineBytes)]
  /\ inq \in [Clients -> Seq(LineBytes)]
  /\ took \in [Clients -> Seq(LineBytes)] /\ gave \in [Clients -> Seq(LineBytes)]

PutOut(c) == gave[c] \o out[c]
Untouched(c) == in[c] = <<>> /\ out[c] = <<>> /\ took[c] = <<>> /\ gave[c] = <<>>
EchoSoFar(c) ==
  /\ Line!Broken(took[c]) = [text |-> PutOut(c) \o in[c], column |-> Len(in[c])]
  /\ Ended(PutOut(c)) /\ NoNewline(in[c]) /\ Len(in[c]) < MAX_LINE
ClientEcho(c) ==
  /\ lineLink[c] \in {"new", "backlog"} => Untouched(c)
  /\ lineLink[c] = "up" => EchoSoFar(c)
LineInv == LineTypes /\ \A c \in Clients : ClientEcho(c)

LEMMA EndedTogether ==
  ASSUME NEW S, NEW w \in Seq(S), NEW t \in Seq(S), Ended(w), Ended(t)
  PROVE  Ended(w \o t)
  <1>1. CASE t = <<>>
    BY <1>1, ConcatEmptySeq
  <1>2. CASE t # <<>>
    <2> DEFINE l == Len(w) + Len(t)
    <2>1. Len(t) \in Nat /\ Len(t) > 0 /\ Len(w) \in Nat
      BY <1>2, LenProperties, EmptySeq
    <2>2. l \in 1..Len(w) + Len(t) /\ ~(l <= Len(w)) /\ l - Len(w) = Len(t)
      BY <2>1
    <2>3. Len(w \o t) = l
      BY ConcatProperties
    <2> HIDE DEF l
    <2>4. (w \o t)[l] = t[l - Len(w)]
      BY <2>2, ConcatProperties
    <2> QED BY <1>2, <2>2, <2>3, <2>4 DEF Ended
  <1> QED BY <1>1, <1>2

LEMMA LineConstants == "nl" \in LineBytes /\ MAX_LINE \in Nat /\ MAX_LINE > 0
  BY EchoServersAssumption DEF EchoServersAssumption, Line!LineServerAssumption

LEMMA LineInvInit == Line!Init => LineInv
  <1> SUFFICES ASSUME Line!Init PROVE LineInv
    OBVIOUS
  <1>1. LineTypes
    BY EmptySeq DEF Line!Init, Line!None, LineTypes
  <1>2. \A c \in Clients : ClientEcho(c)
    BY DEF Line!Init, Line!None, ClientEcho, Untouched
  <1> QED BY <1>1, <1>2 DEF LineInv

(* A client whose part of the state a step leaves alone.                     *)
LEMMA LeftAlone ==
  ASSUME LineInv, NEW c \in Clients,
         in'[c] = in[c], out'[c] = out[c], took'[c] = took[c], gave'[c] = gave[c],
         lineLink'[c] = lineLink[c]
           \/ lineLink'[c] \in {"refused", "freed"}
           \/ (lineLink[c] = "new" /\ lineLink'[c] = "backlog")
  PROVE  ClientEcho(c)'
  <1>1. ClientEcho(c)
    BY DEF LineInv
  <1>2. EchoSoFar(c) => EchoSoFar(c)'
    BY DEF EchoSoFar, PutOut
  <1>3. Untouched(c) => Untouched(c)'
    BY DEF Untouched
  <1> QED BY <1>1, <1>2, <1>3 DEF ClientEcho

(* The bytes of the client that a read takes.                                *)
LEMMA ReadNext ==
  ASSUME LineInv, NEW c \in Clients, NEW n \in 1..MAX_LINE, Line!ReadEvent(c, n)
  PROVE  LineInv'
  <1> DEFINE chunk == SubSeq(inq[c], 1, n)
             s == in[c] \o chunk
             w == PutOut(c)
  <1> USE LineConstants
  <1>1. /\ in[c] \in Seq(LineBytes) /\ out[c] \in Seq(LineBytes) /\ inq[c] \in Seq(LineBytes)
        /\ took[c] \in Seq(LineBytes) /\ gave[c] \in Seq(LineBytes) /\ lineLink[c] = "up"
        /\ n \in Nat /\ n <= Len(inq[c]) /\ Len(in[c]) + n <= MAX_LINE
    BY DEF LineInv, LineTypes, Line!ReadEvent, Line!Up
  <1>2. /\ chunk \in Seq(LineBytes) /\ Len(chunk) = n
        /\ SubSeq(inq[c], n + 1, Len(inq[c])) \in Seq(LineBytes)
    <2> DEFINE q == inq[c]
    <2>1. q \in Seq(LineBytes) /\ n <= Len(q) /\ n \in Nat
      BY <1>1
    <2> HIDE DEF q
    <2>2. /\ SubSeq(q, 1, n) \in Seq(LineBytes) /\ Len(SubSeq(q, 1, n)) = n
          /\ SubSeq(q, n + 1, Len(q)) \in Seq(LineBytes)
      BY <2>1, CutInTwo
    <2> QED BY <2>2 DEF q
  <1>3. EchoSoFar(c)
    BY <1>1 DEF LineInv, ClientEcho
  <1>4. w \in Seq(LineBytes)
    BY <1>1, ConcatProperties DEF PutOut
  <1>5. /\ lineLink' = lineLink
        /\ in' = [in EXCEPT ![c] = Left(s)]
        /\ out' = [out EXCEPT ![c] = out[c] \o Taken(s)]
        /\ took' = [took EXCEPT ![c] = took[c] \o chunk]
        /\ inq' = [inq EXCEPT ![c] = SubSeq(inq[c], n + 1, Len(inq[c]))]
        /\ gave' = gave
    BY DEF Line!ReadEvent, Left, Taken
  <1>6. /\ Line!Broken(took[c] \o chunk) = Told(w, s)
        /\ Tidy(LineBytes, s)
    <2> DEFINE S == LineBytes
               before == took[c]
               held == in[c]
    <2>1. /\ before \in Seq(S) /\ held \in Seq(S) /\ chunk \in Seq(S) /\ w \in Seq(S)
          /\ NoNewline(held) /\ Len(held) < MAX_LINE /\ Len(held) + Len(chunk) <= MAX_LINE
          /\ Line!Broken(before) = [text |-> w \o held, column |-> Len(held)]
      BY <1>1, <1>2, <1>3, <1>4 DEF EchoSoFar
    <2> HIDE DEF before, held, chunk, w, S
    <2>2. "nl" \in S
      BY DEF S
    <2>3. Line!Broken(before \o chunk) = Told(w, held \o chunk) /\ Tidy(S, held \o chunk)
      BY <2>1, <2>2, ChunkRead
    <2> QED BY <2>3 DEF S, before, held
  <1> HIDE DEF chunk, s
  <1>7. /\ Taken(s) \in Seq(LineBytes) /\ Left(s) \in Seq(LineBytes)
        /\ NoNewline(Left(s)) /\ Len(Left(s)) < MAX_LINE /\ Ended(Taken(s))
    BY <1>6 DEF Tidy
  <1>8. /\ took[c] \o chunk \in Seq(LineBytes) /\ out[c] \o Taken(s) \in Seq(LineBytes)
    BY <1>1, <1>2, <1>7, ConcatProperties
  <1>9. LineTypes'
    BY <1>2, <1>5, <1>7, <1>8 DEF LineInv, LineTypes
  <1>10. /\ in'[c] = Left(s) /\ out'[c] = out[c] \o Taken(s)
         /\ took'[c] = took[c] \o chunk /\ gave'[c] = gave[c] /\ lineLink'[c] = "up"
    BY <1>1, <1>5 DEF LineInv, LineTypes
  <1>11. PutOut(c)' = w \o Taken(s)
    <2> DEFINE g == gave[c]
               o == out[c]
               t == Taken(s)
               S == LineBytes
    <2>1. g \in Seq(S) /\ o \in Seq(S) /\ t \in Seq(S)
      BY <1>1, <1>7
    <2>2. PutOut(c)' = g \o (o \o t) /\ w = g \o o
      BY <1>10 DEF PutOut
    <2> HIDE DEF g, o, t, S, w
    <2>3. g \o (o \o t) = (g \o o) \o t
      BY <2>1, ConcatAssociative
    <2> QED BY <2>2, <2>3 DEF t
  <1>12. (w \o Taken(s)) \o Left(s) = w \o (Taken(s) \o Left(s))
    <2> DEFINE t == Taken(s)
               v == Left(s)
               S == LineBytes
    <2>1. w \in Seq(S) /\ t \in Seq(S) /\ v \in Seq(S)
      BY <1>4, <1>7
    <2> HIDE DEF t, v, S, w
    <2>2. (w \o t) \o v = w \o (t \o v)
      BY <2>1, ConcatAssociative
    <2> QED BY <2>2 DEF t, v
  <1>13. Ended(PutOut(c)')
    <2> DEFINE t == Taken(s)
    <2>1. w \in Seq(LineBytes) /\ t \in Seq(LineBytes) /\ Ended(t) /\ Ended(w)
      BY <1>3, <1>4, <1>7 DEF EchoSoFar
    <2> HIDE DEF w, t
    <2>2. Ended(w \o t)
      BY <2>1, EndedTogether
    <2> QED BY <1>11, <2>2 DEF t
  <1>14. EchoSoFar(c)'
    <2>1. Line!Broken(took'[c]) = [text |-> (w \o Taken(s)) \o Left(s), column |-> Len(Left(s))]
      BY <1>6, <1>10, <1>12 DEF Told
    <2>2. Line!Broken(took'[c]) = [text |-> PutOut(c)' \o in'[c], column |-> Len(in'[c])]
      BY <1>10, <1>11, <2>1
    <2> QED BY <1>7, <1>10, <1>13, <2>2 DEF EchoSoFar
  <1>15. ASSUME NEW d \in Clients PROVE ClientEcho(d)'
    <2>1. CASE d = c
      BY <1>10, <1>14, <2>1 DEF ClientEcho
    <2>2. CASE d # c
      <3>1. /\ in'[d] = in[d] /\ out'[d] = out[d] /\ took'[d] = took[d] /\ gave'[d] = gave[d]
            /\ lineLink'[d] = lineLink[d]
        BY <1>5, <2>2 DEF LineInv, LineTypes
      <3> QED BY <3>1, LeftAlone
    <2> QED BY <2>1, <2>2
  <1> QED BY <1>9, <1>15 DEF LineInv

LEMMA WriteNext ==
  ASSUME LineInv, NEW c \in Clients, NEW n \in 1..SndBuf, Line!WriteEvent(c, n)
  PROVE  LineInv'
  <1> DEFINE o == out[c]
             g == gave[c]
             S == LineBytes
  <1>1. /\ o \in Seq(S) /\ g \in Seq(S) /\ n \in Nat /\ n <= Len(o)
    <2>1. SndBuf \in Nat
      BY EchoServersAssumption DEF EchoServersAssumption, Line!LineServerAssumption
    <2> QED BY <2>1 DEF LineInv, LineTypes, Line!WriteEvent
  <1>2. /\ out' = [out EXCEPT ![c] = SubSeq(o, n + 1, Len(o))]
        /\ gave' = [gave EXCEPT ![c] = g \o SubSeq(o, 1, n)]
        /\ UNCHANGED <<in, lineLink, inq, took>>
    BY DEF Line!WriteEvent
  <1>3. /\ SubSeq(o, n + 1, Len(o)) \in Seq(S) /\ g \o SubSeq(o, 1, n) \in Seq(S)
        /\ (g \o SubSeq(o, 1, n)) \o SubSeq(o, n + 1, Len(o)) = g \o o
    <2> DEFINE u == SubSeq(o, 1, n)
               v == SubSeq(o, n + 1, Len(o))
    <2> HIDE DEF o, g, S
    <2>1. u \o v = o
      BY <1>1, CutInTwo
    <2>2. u \in Seq(S) /\ v \in Seq(S)
      BY <1>1, CutInTwo
    <2> HIDE DEF u, v
    <2>3. g \o u \in Seq(S)
      BY <1>1, <2>2, ConcatProperties
    <2>4. (g \o u) \o v = g \o (u \o v)
      <3>1. g \in Seq(S)
        BY <1>1
      <3> QED BY <2>2, <3>1, ConcatAssociative
    <2> QED BY <2>1, <2>2, <2>3, <2>4 DEF u, v
  <1>4. LineTypes'
    BY <1>2, <1>3 DEF LineInv, LineTypes
  <1>5. PutOut(c)' = PutOut(c)
    BY <1>2, <1>3 DEF PutOut, LineInv, LineTypes
  <1>6. ASSUME NEW d \in Clients PROVE ClientEcho(d)'
    <2>1. CASE d = c
      <3>1. lineLink[c] = "up" /\ lineLink'[c] = "up"
        BY <1>2 DEF Line!WriteEvent, Line!Up
      <3>2. EchoSoFar(c)
        BY <3>1 DEF LineInv, ClientEcho
      <3>3. EchoSoFar(c)'
        BY <1>2, <1>5, <3>2 DEF EchoSoFar
      <3> QED BY <2>1, <3>1, <3>3 DEF ClientEcho
    <2>2. CASE d # c
      <3>1. /\ in'[d] = in[d] /\ out'[d] = out[d] /\ took'[d] = took[d] /\ gave'[d] = gave[d]
            /\ lineLink'[d] = lineLink[d]
        BY <1>2, <2>2 DEF LineInv, LineTypes
      <3> QED BY <3>1, LeftAlone
    <2> QED BY <2>1, <2>2
  <1> QED BY <1>4, <1>6 DEF LineInv

LEMMA AcceptNext ==
  ASSUME LineInv, NEW c \in Clients, Line!do_accept(c)
  PROVE  LineInv'
  <1>1. UNCHANGED <<in, out, inq, took, gave>> /\ lineLink[c] = "backlog"
    BY DEF Line!do_accept, Line!CanAccept, Line!buffers
      , Line!history
  <1>2. \E l \in {"refused", "up"} : lineLink' = [lineLink EXCEPT ![c] = l]
    BY DEF Line!do_accept
  <1>3. LineTypes'
    BY <1>1, <1>2 DEF LineInv, LineTypes
  <1>4. Untouched(c)
    BY <1>1 DEF LineInv, ClientEcho
  <1>5. EchoSoFar(c)'
    <2>1. <<>> \in Seq(LineBytes) /\ <<>> \o <<>> = <<>>
      BY EmptySeq, ConcatEmptySeq
    <2>2. in'[c] = <<>> /\ took'[c] = <<>> /\ PutOut(c)' = <<>>
      BY <1>1, <1>4, <2>1 DEF Untouched, PutOut
    <2>3. Line!Broken(<<>>) = [text |-> <<>>, column |-> 0]
      <3>1. "nl" \in LineBytes
        BY LineConstants
      <3> QED BY <2>1, <3>1, BrokenAppend
    <2>4. Len(<<>>) = 0 /\ Ended(<<>>) /\ NoNewline(<<>>)
      BY DEF Ended, NoNewline
    <2> QED BY <2>1, <2>2, <2>3, <2>4, LineConstants DEF EchoSoFar
  <1>6. ASSUME NEW d \in Clients PROVE ClientEcho(d)'
    <2>1. CASE d = c
      BY <1>2, <1>5, <2>1 DEF ClientEcho, LineInv, LineTypes
    <2>2. CASE d # c
      <3>1. /\ in'[d] = in[d] /\ out'[d] = out[d] /\ took'[d] = took[d] /\ gave'[d] = gave[d]
            /\ lineLink'[d] = lineLink[d]
        BY <1>1, <1>2, <2>2 DEF LineInv, LineTypes
      <3> QED BY <3>1, LeftAlone
    <2> QED BY <2>1, <2>2
  <1> QED BY <1>3, <1>6 DEF LineInv

(* Whatever it is that frees it, a client gets no more.                      *)
LEMMA FreeNext ==
  ASSUME LineInv, NEW c \in Clients, Line!error_callback(c)
  PROVE  LineInv'
  <1>1. /\ lineLink' = [lineLink EXCEPT ![c] = "freed"]
        /\ in' = [in EXCEPT ![c] = <<>>] /\ out' = [out EXCEPT ![c] = <<>>]
        /\ UNCHANGED <<inq, took, gave>>
    BY DEF Line!error_callback, Line!history
  <1>2. LineTypes'
    BY <1>1, EmptySeq DEF LineInv, LineTypes
  <1>3. ASSUME NEW d \in Clients PROVE ClientEcho(d)'
    <2>1. CASE d = c
      BY <1>1, <2>1 DEF ClientEcho, LineInv, LineTypes
    <2>2. CASE d # c
      <3>1. /\ in'[d] = in[d] /\ out'[d] = out[d] /\ took'[d] = took[d] /\ gave'[d] = gave[d]
            /\ lineLink'[d] = lineLink[d]
        BY <1>1, <2>2 DEF LineInv, LineTypes
      <3> QED BY <3>1, LeftAlone
    <2> QED BY <2>1, <2>2
  <1> QED BY <1>2, <1>3 DEF LineInv

(* Clients and the kernel touch nothing of what the server has read or put out. *)
LEMMA OutsideNext ==
  ASSUME LineInv, LineTypes', UNCHANGED <<in, out, took, gave>>,
         \A c \in Clients : \/ lineLink'[c] = lineLink[c]
                            \/ lineLink[c] = "new" /\ lineLink'[c] = "backlog"
  PROVE  LineInv'
  <1>1. \A c \in Clients : ClientEcho(c)'
    <2> SUFFICES ASSUME NEW c \in Clients PROVE ClientEcho(c)'
      OBVIOUS
    <2>1. in'[c] = in[c] /\ out'[c] = out[c] /\ took'[c] = took[c] /\ gave'[c] = gave[c]
      OBVIOUS
    <2> QED BY <2>1, LeftAlone
  <1> QED BY <1>1 DEF LineInv

LEMMA LineClientNext ==
  ASSUME LineInv, NEW c \in Clients, Line!Client(c)
  PROVE  LineInv'
  <1> USE DEF Line!server, Line!buffers, Line!history
  <1>1. CASE Line!Connect(c)
    <2>1. /\ lineLink[c] = "new" /\ lineLink' = [lineLink EXCEPT ![c] = "backlog"]
          /\ UNCHANGED <<in, out, inq, took, gave>>
      BY <1>1 DEF Line!Connect
    <2>2. LineTypes'
      BY <2>1 DEF LineInv, LineTypes
    <2>3. \A d \in Clients : \/ lineLink'[d] = lineLink[d]
                             \/ lineLink[d] = "new" /\ lineLink'[d] = "backlog"
      BY <2>1 DEF LineInv, LineTypes
    <2> QED BY <2>1, <2>2, <2>3, OutsideNext
  <1>2. ASSUME NEW b \in LineBytes, Line!ClientSend(c, b) PROVE LineInv'
    <2>1. /\ UNCHANGED <<in, out, lineLink, took, gave>>
          /\ inq' = [inq EXCEPT ![c] = Append(@, b)]
      BY <1>2 DEF Line!ClientSend
    <2>2. Append(inq[c], b) \in Seq(LineBytes)
      BY AppendProperties DEF LineInv, LineTypes
    <2>3. LineTypes'
      BY <2>1, <2>2 DEF LineInv, LineTypes
    <2> QED BY <2>1, <2>3, OutsideNext
  <1>3. CASE Line!ClientClose(c)
    <2>1. /\ UNCHANGED <<in, out, lineLink, took, gave>>
          /\ inq' = inq \/ \E rest \in {inq[c], <<>>} : inq' = [inq EXCEPT ![c] = rest]
      BY <1>3 DEF Line!ClientClose
    <2>2. inq' \in [Clients -> Seq(LineBytes)]
      <3>1. inq \in [Clients -> Seq(LineBytes)] /\ <<>> \in Seq(LineBytes)
        BY EmptySeq DEF LineInv, LineTypes
      <3>2. CASE inq' = inq
        BY <3>1, <3>2
      <3>3. ASSUME NEW rest \in {inq[c], <<>>}, inq' = [inq EXCEPT ![c] = rest]
            PROVE  inq' \in [Clients -> Seq(LineBytes)]
        BY <3>1, <3>3
      <3> QED BY <2>1, <3>2, <3>3
    <2>4. LineTypes'
      BY <2>1, <2>2 DEF LineInv, LineTypes
    <2> QED BY <2>1, <2>4, OutsideNext
  <1>4. CASE Line!ClientRecv(c) \/ Line!ClientShutdown(c)
    <2>1. UNCHANGED <<in, out, lineLink, inq, took, gave>>
      BY <1>4 DEF Line!ClientRecv, Line!ClientShutdown
    <2>2. LineTypes'
      BY <2>1 DEF LineInv, LineTypes
    <2> QED BY <2>1, <2>2, OutsideNext
  <1> QED BY <1>1, <1>2, <1>3, <1>4 DEF Line!Client

LEMMA LineNext == LineInv /\ (Line!Next \/ UNCHANGED line) => LineInv'
  <1> SUFFICES ASSUME LineInv, Line!Next \/ UNCHANGED line PROVE LineInv'
    OBVIOUS
  <1>1. ASSUME NEW c \in Clients, Line!Serve(c) PROVE LineInv'
    <2>1. CASE Line!do_accept(c)
      BY <2>1, AcceptNext
    <2>2. CASE \E n \in 1..MAX_LINE : Line!ReadEvent(c, n)
      BY <2>2, ReadNext
    <2>3. CASE \E n \in 1..SndBuf : Line!WriteEvent(c, n)
      BY <2>3, WriteNext
    <2>4. CASE Line!EndEvent(c) \/ Line!WriteError(c)
      BY <2>4, FreeNext DEF Line!EndEvent, Line!WriteError
    <2>5. CASE Line!Sigpipe(c)
      <3>1. UNCHANGED <<in, out, lineLink, inq, took, gave>>
        BY <2>5 DEF Line!Sigpipe, Line!buffers, Line!kernel, Line!history
      <3>2. LineTypes'
        BY <3>1 DEF LineInv, LineTypes
      <3> QED BY <3>1, <3>2, OutsideNext
    <2> QED BY <1>1, <2>1, <2>2, <2>3, <2>4, <2>5 DEF Line!Serve
  <1>2. ASSUME NEW c \in Clients, Line!Client(c) PROVE LineInv'
    BY <1>2, LineClientNext
  <1>3. CASE Line!read_stdin \/ Line!sig_int_handler \/ Line!LoopExit \/ UNCHANGED line
    <2>1. UNCHANGED <<in, out, lineLink, inq, took, gave>>
      BY <1>3 DEF Line!read_stdin, Line!sig_int_handler, Line!LoopExit, Line!buffers,
         Line!kernel, Line!history, line
    <2>2. LineTypes'
      BY <2>1 DEF LineInv, LineTypes
    <2> QED BY <2>1, <2>2, OutsideNext
  <1> QED BY <1>1, <1>2, <1>3 DEF Line!Next

(* However a client's stream is cut into reads and writes, for any number of   *)
(* clients, streams of any length and every MAX_LINE: what the server has put    *)
(* out for it is the echo of what it has read, with the long lines broken where    *)
(* they would be had it all come at once.                                           *)
THEOREM CuttingDoesNotShow == Spec => []EchoOfWhatWasRead
  <1>1. LineInv => EchoOfWhatWasRead
    <2> SUFFICES ASSUME LineInv, NEW c \in Clients, lineLink[c] = "up"
                 PROVE  PutOut(c) = Line!Echo(took[c])
      BY DEF EchoOfWhatWasRead, Line!EchoOfWhatWasRead, PutOut
    <2>1. EchoSoFar(c)
      BY DEF LineInv, ClientEcho
    <2>2. PutOut(c) \in Seq(LineBytes) /\ in[c] \in Seq(LineBytes)
      BY ConcatProperties DEF LineInv, LineTypes, PutOut
    <2>3. Line!Broken(took[c]).text = PutOut(c) \o in[c]
      <3> DEFINE b == Line!Broken(took[c])
                 t == PutOut(c) \o in[c]
                 n == Len(in[c])
      <3>1. b = [text |-> t, column |-> n]
        BY <2>1 DEF EchoSoFar
      <3> HIDE DEF b, t, n
      <3>2. b.text = t
        BY <3>1
      <3> QED BY <3>2 DEF b, t
    <2> QED BY <2>1, <2>2, <2>3, EchoIs DEF EchoSoFar
  <1>2. Init => LineInv
    BY LineInvInit DEF Init
  <1>3. LineInv /\ [Next]_vars => LineInv'
    BY OnlyOneRuns, LineNext
  <1> QED BY <1>1, <1>2, <1>3, PTL DEF Spec

-----------------------------------------------------------------------------
(* The reversing server: what its operators make of a buffer of numbers.     *)

LEMMA ReverseConstants ==
  /\ Reverse!Bytes \subseteq Nat /\ SIZE \in Nat /\ SIZE > 0
  /\ \A c \in Letters : c # 0 /\ c # Reverse!LF /\ c # Reverse!CR
  /\ Reverse!NUL = 0 /\ Reverse!LF = 10 /\ Reverse!CR = 13
  BY EchoServersAssumption
  DEF EchoServersAssumption, Reverse!ReverseEchoAssumption, Reverse!Bytes, Reverse!NUL,
      Reverse!LF, Reverse!CR

(* Two sequences joined, byte by byte.                                       *)
LEMMA JoinAt ==
  ASSUME NEW S, NEW a \in Seq(S), NEW b \in Seq(S)
  PROVE  /\ a \o b \in Seq(S) /\ Len(a \o b) = Len(a) + Len(b)
         /\ \A k \in 1..Len(a) : (a \o b)[k] = a[k]
         /\ \A k \in Len(a) + 1..Len(a) + Len(b) : (a \o b)[k] = b[k - Len(a)]
  <1>1. Len(a) \in Nat /\ Len(b) \in Nat
    BY LenProperties
  <1>2. a \o b \in Seq(S) /\ Len(a \o b) = Len(a) + Len(b)
    BY ConcatProperties
  <1>3. \A k \in 1..Len(a) + Len(b) : (a \o b)[k] = IF k <= Len(a) THEN a[k] ELSE b[k - Len(a)]
    BY ConcatProperties
  <1>4. \A k \in 1..Len(a) : (a \o b)[k] = a[k]
    BY <1>1, <1>3
  <1>5. \A k \in Len(a) + 1..Len(a) + Len(b) : (a \o b)[k] = b[k - Len(a)]
    BY <1>1, <1>3
  <1> QED BY <1>2, <1>4, <1>5

LEMMA ZerosAre ==
  ASSUME NEW k \in Nat, k <= SIZE
  PROVE  /\ Reverse!Zeros(k) \in Seq(Nat) /\ Len(Reverse!Zeros(k)) = k
         /\ \A j \in 1..k : Reverse!Zeros(k)[j] = 0
  <1> DEFINE row == [j \in 1..SIZE |-> 0]
  <1>1. row \in Seq(Nat) /\ Len(row) = SIZE /\ \A j \in 1..SIZE : row[j] = 0
    BY ReverseConstants
  <1>2. Reverse!NoBytes = row \o <<>>
    BY ReverseConstants DEF Reverse!NoBytes
  <1> HIDE DEF row
  <1>3. Reverse!NoBytes = row
    BY <1>1, <1>2, ConcatEmptySeq
  <1>4. /\ SubSeq(row, 1, k) \in Seq(Nat) /\ Len(SubSeq(row, 1, k)) = k
        /\ \A j \in 1..k : SubSeq(row, 1, k)[j] = row[j]
    BY <1>1, CutInTwo
  <1>5. \A j \in 1..k : row[j] = 0
    BY <1>1, ReverseConstants
  <1> QED BY <1>3, <1>4, <1>5 DEF Reverse!Zeros

(* strlen is where the first zero is.                                        *)
LEMMA StrLenIs ==
  ASSUME NEW b \in Seq(Nat)
  PROVE  /\ Reverse!StrLen(b) \in 0..Len(b)
         /\ \A k \in 1..Reverse!StrLen(b) : b[k] # 0
         /\ Reverse!StrLen(b) < Len(b) => b[Reverse!StrLen(b) + 1] = 0
  <1> DEFINE n == Len(b)
             ends == {k \in 1..n : b[k] = 0}
  <1>1. n \in Nat
    BY LenProperties
  <1>2. Reverse!StrLen(b) = IF ends = {} THEN n ELSE Reverse!Min(ends) - 1
    BY ReverseConstants DEF Reverse!StrLen
  <1>3. CASE ends = {}
    <2>1. \A k \in 1..n : b[k] # 0
      BY <1>3
    <2> QED BY <1>1, <1>2, <1>3, <2>1
  <1>4. CASE ends # {}
    <2>1. ends \in SUBSET Nat
      BY <1>1
    <2>2. PICK z \in ends : \A m \in ends : z <= m
      <3> HIDE DEF ends
      <3> QED BY <1>4, <2>1, LeastExists
    <2>3. Reverse!Min(ends) \in ends /\ \A m \in ends : Reverse!Min(ends) <= m
      <3> HIDE DEF ends
      <3> QED BY <2>2 DEF Reverse!Min
    <2> DEFINE y == Reverse!Min(ends)
    <2>4. y \in 1..n /\ b[y] = 0 /\ \A m \in 1..n : b[m] = 0 => y <= m
      BY <2>3
    <2>5. Reverse!StrLen(b) = y - 1
      BY <1>2, <1>4
    <2> HIDE DEF y, ends
    <2> QED BY <1>1, <2>4, <2>5
  <1> QED BY <1>3, <1>4

LEMMA StrLenAt ==
  ASSUME NEW b \in Seq(Nat), NEW n \in 0..Len(b),
         \A k \in 1..n : b[k] # 0, n < Len(b) => b[n + 1] = 0
  PROVE  Reverse!StrLen(b) = n
  <1> DEFINE m == Reverse!StrLen(b)
  <1>1. /\ Len(b) \in Nat /\ m \in 0..Len(b) /\ \A k \in 1..m : b[k] # 0
        /\ m < Len(b) => b[m + 1] = 0
    BY LenProperties, StrLenIs
  <1> HIDE DEF m
  <1>2. ~(m < n)
    <2> SUFFICES ASSUME m < n PROVE FALSE
      OBVIOUS
    <2>1. m + 1 \in 1..n /\ m < Len(b)
      BY <1>1
    <2> QED BY <1>1, <2>1
  <1>3. ~(n < m)
    <2> SUFFICES ASSUME n < m PROVE FALSE
      OBVIOUS
    <2>1. n + 1 \in 1..m /\ n < Len(b)
      BY <1>1
    <2> QED BY <1>1, <2>1
  <1> QED BY <1>1, <1>2, <1>3 DEF m

LEMMA BufferIs ==
  ASSUME NEW p \in Seq(Nat), Len(p) <= SIZE
  PROVE  LET b == Reverse!Buffer(p)
         IN  /\ b \in Seq(Nat) /\ Len(b) = SIZE
             /\ \A k \in 1..Len(p) : b[k] = p[k]
             /\ \A k \in Len(p) + 1..SIZE : b[k] = 0
  <1> DEFINE n == Len(p)
             d == SIZE - n
             z == Reverse!Zeros(d)
  <1>1. n \in Nat /\ SIZE \in Nat
    BY LenProperties, ReverseConstants
  <1>2. d \in Nat /\ d <= SIZE
    BY <1>1
  <1> HIDE DEF d
  <1>3. z \in Seq(Nat) /\ Len(z) = d /\ \A j \in 1..d : z[j] = 0
    BY <1>2, ZerosAre
  <1> HIDE DEF z
  <1>4. /\ p \o z \in Seq(Nat) /\ Len(p \o z) = Len(p) + Len(z)
        /\ \A k \in 1..Len(p) : (p \o z)[k] = p[k]
        /\ \A k \in Len(p) + 1..Len(p) + Len(z) : (p \o z)[k] = z[k - Len(p)]
    BY <1>3, JoinAt
  <1>5. Len(p) + Len(z) = SIZE
    BY <1>1, <1>3 DEF d
  <1>6. \A k \in Len(p) + 1..SIZE : (p \o z)[k] = 0
    <2> SUFFICES ASSUME NEW k \in Len(p) + 1..SIZE PROVE (p \o z)[k] = 0
      OBVIOUS
    <2>1. k - n \in 1..d
      BY <1>1 DEF d
    <2> QED BY <1>3, <1>4, <1>5, <2>1
  <1>7. Reverse!Buffer(p) = p \o z
    BY DEF Reverse!Buffer, z, d
  <1> QED BY <1>4, <1>5, <1>6, <1>7

LEMMA SwapIs ==
  ASSUME NEW b \in Seq(Nat), NEW m \in Nat, m <= Len(b)
  PROVE  LET w == Reverse!Swap(b, m)
         IN  /\ w \in Seq(Nat) /\ Len(w) = Len(b)
             /\ \A k \in 1..m : w[k] = b[m + 1 - k]
             /\ \A k \in m + 1..Len(b) : w[k] = b[k]
  <1> DEFINE u == SubSeq(b, 1, m)
             v == SubSeq(b, m + 1, Len(b))
             r == Reverse!Reverse(u)
  <1>1. Len(b) \in Nat
    BY LenProperties
  <1>2. /\ u \in Seq(Nat) /\ Len(u) = m /\ \A k \in 1..m : u[k] = b[k]
        /\ v \in Seq(Nat) /\ Len(v) = Len(b) - m /\ \A k \in 1..Len(b) - m : v[k] = b[m + k]
    BY CutInTwo
  <1> HIDE DEF u, v
  <1>3. r = [k \in 1..m |-> u[(m - k) + 1]]
    BY <1>2 DEF Reverse!Reverse
  <1> HIDE DEF r
  <1>4. \A k \in 1..m : r[k] = b[m + 1 - k] /\ r[k] \in Nat
    <2> SUFFICES ASSUME NEW k \in 1..m PROVE r[k] = b[m + 1 - k] /\ r[k] \in Nat
      OBVIOUS
    <2> DEFINE i == (m - k) + 1
    <2>1. i \in 1..m /\ i = m + 1 - k
      OBVIOUS
    <2> HIDE DEF i
    <2>2. r[k] = u[i]
      BY <1>3 DEF i
    <2>3. u[i] \in Nat
      BY <1>2, <2>1, ElementOfSeq
    <2> QED BY <1>2, <2>1, <2>2, <2>3
  <1>5. r \in Seq(Nat) /\ Len(r) = m
    <2>1. r \in [1..m -> Nat]
      BY <1>3, <1>4
    <2> QED BY <2>1
  <1>6. /\ r \o v \in Seq(Nat) /\ Len(r \o v) = Len(r) + Len(v)
        /\ \A k \in 1..Len(r) : (r \o v)[k] = r[k]
        /\ \A k \in Len(r) + 1..Len(r) + Len(v) : (r \o v)[k] = v[k - Len(r)]
    BY <1>2, <1>5, JoinAt, ZenonT(40)
  <1>7. Len(r) + Len(v) = Len(b)
    BY <1>1, <1>2, <1>5
  <1>8. \A k \in m + 1..Len(b) : (r \o v)[k] = b[k]
    <2> SUFFICES ASSUME NEW k \in m + 1..Len(b) PROVE (r \o v)[k] = b[k]
      OBVIOUS
    <2> DEFINE i == k - m
    <2>1. i \in 1..Len(b) - m /\ m + i = k
      BY <1>1
    <2>2. (r \o v)[k] = v[i]
      BY <1>5, <1>6, <1>7
    <2> HIDE DEF i
    <2>3. v[i] = b[m + i]
      BY <1>2, <2>1
    <2> QED BY <2>1, <2>2, <2>3
  <1>9. Reverse!Swap(b, m) = r \o v
    BY DEF Reverse!Swap, r, u, v
  <1>10. \A k \in 1..m : (r \o v)[k] = b[m + 1 - k]
    BY <1>4, <1>5, <1>6
  <1> QED BY <1>6, <1>7, <1>8, <1>9, <1>10

(* What holds of no bytes, and with one byte more if it held before, holds of  *)
(* every sequence.                                                              *)
LEMMA ByteByByte ==
  ASSUME NEW S, NEW G, <<>> \in G,
         \A x \in Seq(S) : \A e \in S : x \in G => Append(x, e) \in G,
         NEW s \in Seq(S)
  PROVE  s \in G
  <1> DEFINE T == {j \in Nat : j <= Len(s) /\ SubSeq(s, 1, j) \notin G}
  <1>1. Len(s) \in Nat /\ SubSeq(s, 1, Len(s)) = s
    BY LenProperties, SubSeqFull
  <1>2. SubSeq(s, 1, 0) = <<>>
    BY SubSeqEmpty
  <1>3. T = {}
    <2> SUFFICES ASSUME T # {} PROVE FALSE
      OBVIOUS
    <2>1. PICK j \in T : \A k \in T : j <= k
      <3>1. T \in SUBSET Nat
        OBVIOUS
      <3> HIDE DEF T
      <3> QED BY <3>1, LeastExists
    <2>2. j \in Nat /\ j <= Len(s) /\ SubSeq(s, 1, j) \notin G
      BY <2>1
    <2>3. j # 0
      BY <1>2, <2>2
    <2> DEFINE i == j - 1
    <2>4. i \in Nat /\ i < Len(s) /\ i <= Len(s) /\ ~(j <= i) /\ i + 1 = j
      BY <1>1, <2>2, <2>3
    <2> HIDE DEF i
    <2>5. SubSeq(s, 1, i) \in G
      BY <2>1, <2>4
    <2> HIDE DEF T
    <2>6. /\ s[i + 1] \in S /\ <<>> \o SubSeq(s, 1, i) \in Seq(S)
          /\ <<>> \o SubSeq(s, 1, i + 1) = Append(<<>> \o SubSeq(s, 1, i), s[i + 1])
      <3> DEFINE a == <<>>
      <3>1. a \in Seq(S)
        BY EmptySeq
      <3> HIDE DEF a
      <3>2. /\ s[i + 1] \in S /\ a \o SubSeq(s, 1, i) \in Seq(S)
            /\ a \o SubSeq(s, 1, i + 1) = Append(a \o SubSeq(s, 1, i), s[i + 1])
        BY <2>4, <3>1, OneMore
      <3> QED BY <3>2 DEF a
    <2>7. SubSeq(s, 1, i) \in Seq(S) /\ SubSeq(s, 1, i + 1) \in Seq(S)
      <3>1. SubSeq(s, 1, i) \in Seq(S)
        BY <2>4, CutInTwo
      <3>2. SubSeq(s, 1, j) \in Seq(S)
        BY <2>2, CutInTwo
      <3> QED BY <2>4, <3>1, <3>2
    <2>8. SubSeq(s, 1, i + 1) = Append(SubSeq(s, 1, i), s[i + 1])
      <3>1. <<>> \o SubSeq(s, 1, i) = SubSeq(s, 1, i)
        BY <2>7, ConcatEmptySeq
      <3>2. <<>> \o SubSeq(s, 1, i + 1) = SubSeq(s, 1, i + 1)
        BY <2>7, ConcatEmptySeq
      <3> QED BY <2>6, <3>1, <3>2
    <2>9. SubSeq(s, 1, j) \in G
      BY <2>4, <2>5, <2>6, <2>7, <2>8
    <2> QED BY <2>2, <2>9
  <1> DEFINE n == Len(s)
  <1>4. n \in Nat /\ n <= Len(s) /\ n \notin T
    <2>1. n \notin T
      <3> HIDE DEF T
      <3> QED BY <1>3
    <2> QED BY <1>1, <2>1
  <1> HIDE DEF n
  <1>5. SubSeq(s, 1, n) \in G
    BY <1>4
  <1> QED BY <1>1, <1>5 DEF n

(* What is kept of a string and how many controls there were in it.          *)
Sieved(x) ==
  LET s == Reverse!Sifted(x)
  IN  /\ s \in [kept : Seq(Nat), cr : Nat, lf : Nat]
      /\ Len(s.kept) + s.cr + s.lf = Len(x)
      /\ (\A k \in 1..Len(x) : x[k] # 0) => \A k \in 1..Len(s.kept) : s.kept[k] # 0
      /\ s.cr = 0 <=> \A k \in 1..Len(x) : x[k] # Reverse!CR
      /\ s.lf = 0 <=> \A k \in 1..Len(x) : x[k] # Reverse!LF

LEMMA SievedNext ==
  ASSUME NEW x \in Seq(Nat), NEW e \in Nat, Sieved(x)
  PROVE  Sieved(Append(x, e))
  <1> DEFINE s == Reverse!Sifted(x)
             y == Append(x, e)
             t == Reverse!Sifted(y)
             n == Len(x)
  <1>1. /\ s \in [kept : Seq(Nat), cr : Nat, lf : Nat]
        /\ Len(s.kept) + s.cr + s.lf = n
        /\ (\A k \in 1..n : x[k] # 0) => \A k \in 1..Len(s.kept) : s.kept[k] # 0
        /\ s.cr = 0 <=> \A k \in 1..n : x[k] # Reverse!CR
        /\ s.lf = 0 <=> \A k \in 1..n : x[k] # Reverse!LF
    BY DEF Sieved
  <1>2. t = With(s, e)
    BY SiftedAppend
  <1>3. n \in Nat /\ Len(y) = n + 1 /\ y[n + 1] = e /\ \A k \in 1..n : y[k] = x[k]
    BY LenProperties, AppendProperties
  <1>4. Reverse!CR # Reverse!LF /\ Reverse!CR # 0 /\ Reverse!LF # 0
    BY ReverseConstants
  <1> HIDE DEF s, t, y, n
  <1>5. /\ s.kept \in Seq(Nat) /\ s.cr \in Nat /\ s.lf \in Nat /\ Len(s.kept) \in Nat
        /\ s = [kept |-> s.kept, cr |-> s.cr, lf |-> s.lf]
    BY <1>1, LenProperties
  <1>6. \A c : (\A k \in 1..n + 1 : y[k] # c) <=> (\A k \in 1..n : x[k] # c) /\ e # c
    <2> SUFFICES ASSUME NEW c
                 PROVE  (\A k \in 1..n + 1 : y[k] # c) <=> (\A k \in 1..n : x[k] # c) /\ e # c
      OBVIOUS
    <2>1. 1..n + 1 = 1..n \cup {n + 1}
      BY <1>3
    <2> QED BY <1>3, <2>1
  <1>7. CASE e = Reverse!CR
    <2>1. t = [s EXCEPT !.cr = @ + 1]
      BY <1>2, <1>4, <1>7 DEF With
    <2>2. t = [kept |-> s.kept, cr |-> s.cr + 1, lf |-> s.lf]
      BY <1>5, <2>1
    <2>3. t.kept = s.kept /\ t.cr = s.cr + 1 /\ t.lf = s.lf
      BY <2>2
    <2>4. t \in [kept : Seq(Nat), cr : Nat, lf : Nat] /\ Len(t.kept) + t.cr + t.lf = n + 1
      <3>1. t \in [kept : Seq(Nat), cr : Nat, lf : Nat]
        BY <1>5, <2>2
      <3> DEFINE a == Len(s.kept)
                 b == s.cr
                 c == s.lf
      <3>2. a \in Nat /\ b \in Nat /\ c \in Nat /\ a + b + c = n
        BY <1>1, <1>5
      <3>3. Len(t.kept) + t.cr + t.lf = a + (b + 1) + c
        BY <2>3
      <3> HIDE DEF a, b, c
      <3>4. a + (b + 1) + c = n + 1
        BY <1>3, <3>2
      <3> QED BY <3>1, <3>3, <3>4
    <2>5. t.cr # 0 /\ ~(\A k \in 1..n + 1 : y[k] # Reverse!CR)
      <3>1. \A c \in Nat : c + 1 # 0
        OBVIOUS
      <3>2. t.cr # 0
        BY <1>5, <2>3, <3>1
      <3> QED BY <1>6, <1>7, <3>2
    <2>6. t.lf = 0 <=> \A k \in 1..n + 1 : y[k] # Reverse!LF
      BY <1>1, <1>4, <1>6, <1>7, <2>3
    <2>7. (\A k \in 1..n + 1 : y[k] # 0) => \A k \in 1..Len(t.kept) : t.kept[k] # 0
      BY <1>1, <1>6, <2>3
    <2> QED BY <1>3, <2>4, <2>5, <2>6, <2>7 DEF Sieved, t, y
  <1>8. CASE e = Reverse!LF
    <2>1. t = [s EXCEPT !.lf = @ + 1]
      BY <1>2, <1>4, <1>8 DEF With
    <2>2. t = [kept |-> s.kept, cr |-> s.cr, lf |-> s.lf + 1]
      BY <1>5, <2>1
    <2>3. t.kept = s.kept /\ t.cr = s.cr /\ t.lf = s.lf + 1
      BY <2>2
    <2>4. t \in [kept : Seq(Nat), cr : Nat, lf : Nat] /\ Len(t.kept) + t.cr + t.lf = n + 1
      <3>1. t \in [kept : Seq(Nat), cr : Nat, lf : Nat]
        BY <1>5, <2>2
      <3> DEFINE a == Len(s.kept)
                 b == s.cr
                 c == s.lf
      <3>2. a \in Nat /\ b \in Nat /\ c \in Nat /\ a + b + c = n
        BY <1>1, <1>5
      <3>3. Len(t.kept) + t.cr + t.lf = a + b + (c + 1)
        BY <2>3
      <3> HIDE DEF a, b, c
      <3>4. a + b + (c + 1) = n + 1
        BY <1>3, <3>2
      <3> QED BY <3>1, <3>3, <3>4
    <2>5. t.lf # 0 /\ ~(\A k \in 1..n + 1 : y[k] # Reverse!LF)
      <3>1. \A c \in Nat : c + 1 # 0
        OBVIOUS
      <3>2. t.lf # 0
        BY <1>5, <2>3, <3>1
      <3> QED BY <1>6, <1>8, <3>2
    <2>6. t.cr = 0 <=> \A k \in 1..n + 1 : y[k] # Reverse!CR
      BY <1>1, <1>4, <1>6, <1>8, <2>3
    <2>7. (\A k \in 1..n + 1 : y[k] # 0) => \A k \in 1..Len(t.kept) : t.kept[k] # 0
      BY <1>1, <1>6, <2>3
    <2> QED BY <1>3, <2>4, <2>5, <2>6, <2>7 DEF Sieved, t, y
  <1>9. CASE e # Reverse!CR /\ e # Reverse!LF
    <2> DEFINE kept == Append(s.kept, e)
    <2>1. t = [s EXCEPT !.kept = Append(@, e)]
      BY <1>2, <1>9 DEF With
    <2>2. t = [kept |-> kept, cr |-> s.cr, lf |-> s.lf]
      BY <1>5, <2>1
    <2>3. t.kept = kept /\ t.cr = s.cr /\ t.lf = s.lf
      BY <2>2
    <2>4. /\ kept \in Seq(Nat) /\ Len(kept) = Len(s.kept) + 1 /\ kept[Len(s.kept) + 1] = e
          /\ \A k \in 1..Len(s.kept) : kept[k] = s.kept[k]
      BY <1>5, AppendProperties
    <2> HIDE DEF kept
    <2>5. t \in [kept : Seq(Nat), cr : Nat, lf : Nat] /\ Len(t.kept) + t.cr + t.lf = n + 1
      BY <1>1, <1>5, <2>2, <2>3, <2>4
    <2>6. /\ t.lf = 0 <=> \A k \in 1..n + 1 : y[k] # Reverse!LF
          /\ t.cr = 0 <=> \A k \in 1..n + 1 : y[k] # Reverse!CR
      BY <1>1, <1>6, <1>9, <2>3
    <2>7. (\A k \in 1..n + 1 : y[k] # 0) => \A k \in 1..Len(t.kept) : t.kept[k] # 0
      <3> SUFFICES ASSUME \A k \in 1..n + 1 : y[k] # 0
                   PROVE  \A k \in 1..Len(s.kept) + 1 : kept[k] # 0
        BY <2>3, <2>4
      <3>1. e # 0 /\ \A k \in 1..Len(s.kept) : s.kept[k] # 0
        BY <1>1, <1>6
      <3>2. 1..Len(s.kept) + 1 = 1..Len(s.kept) \cup {Len(s.kept) + 1}
        BY <1>5
      <3> QED BY <2>4, <3>1, <3>2
    <2> QED BY <1>3, <2>5, <2>6, <2>7 DEF Sieved, t, y
  <1> QED BY <1>7, <1>8, <1>9

LEMMA SievedAll == \A x \in Seq(Nat) : Sieved(x)
  <1> DEFINE G == {x \in Seq(Nat) : Sieved(x)}
  <1>1. <<>> \in G
    <2> DEFINE s == Reverse!Sifted(<<>>)
    <2>1. s = [kept |-> <<>>, cr |-> 0, lf |-> 0]
      <3>1. <<>> \in Seq(Nat) /\ 0 \in Nat
        OBVIOUS
      <3> QED BY <3>1, SiftedAppend
    <2>2. Len(<<>>) = 0 /\ <<>> \in Seq(Nat)
      OBVIOUS
    <2> HIDE DEF s
    <2>3. /\ s \in [kept : Seq(Nat), cr : Nat, lf : Nat]
          /\ s.kept = <<>> /\ s.cr = 0 /\ s.lf = 0
      BY <2>1, <2>2
    <2> QED BY <2>2, <2>3 DEF Sieved, s
  <1>2. \A x \in Seq(Nat) : \A e \in Nat : x \in G => Append(x, e) \in G
    BY SievedNext, AppendProperties
  <1> HIDE DEF G
  <1>3. \A s \in Seq(Nat) : s \in G
    BY <1>1, <1>2, ByteByByte
  <1> QED BY <1>3 DEF G

(* Nothing is taken out of a line's letters.                                 *)
LEMMA LettersStay ==
  ASSUME NEW s \in Seq(Nat), \A k \in 1..Len(s) : s[k] # Reverse!CR /\ s[k] # Reverse!LF
  PROVE  Reverse!Sifted(s) = [kept |-> s, cr |-> 0, lf |-> 0]
  <1> DEFINE Plain(x) == \A k \in 1..Len(x) : x[k] # Reverse!CR /\ x[k] # Reverse!LF
             Whole(x) == [kept |-> x, cr |-> 0, lf |-> 0]
             G == {x \in Seq(Nat) : Plain(x) => Reverse!Sifted(x) = Whole(x)}
  <1>1. <<>> \in G
    <2>1. <<>> \in Seq(Nat) /\ 0 \in Nat
      OBVIOUS
    <2> QED BY <2>1, SiftedAppend
  <1>2. ASSUME NEW x \in Seq(Nat), NEW e \in Nat, x \in G PROVE Append(x, e) \in G
    <2> DEFINE y == Append(x, e)
    <2>1. Len(x) \in Nat /\ Len(y) = Len(x) + 1 /\ y[Len(x) + 1] = e /\ y \in Seq(Nat)
      BY LenProperties, AppendProperties
    <2>2. \A k \in 1..Len(x) : y[k] = x[k]
      OBVIOUS
    <2>3. Reverse!Sifted(y) = With(Reverse!Sifted(x), e)
      BY SiftedAppend
    <2>4. ASSUME Plain(y) PROVE Reverse!Sifted(y) = Whole(y)
      <3> HIDE DEF y
      <3>1. e # Reverse!CR /\ e # Reverse!LF
        <4>1. Len(x) + 1 \in 1..Len(y)
          BY <2>1
        <4> QED BY <2>1, <2>4, <4>1
      <3>2. Plain(x)
        <4>1. \A k \in 1..Len(x) : k \in 1..Len(y)
          BY <2>1
        <4> QED BY <2>2, <2>4, <4>1
      <3>3. Reverse!Sifted(x) = Whole(x)
        BY <1>2, <3>2
      <3>4. With(Whole(x), e) = [Whole(x) EXCEPT !.kept = Append(@, e)]
        BY <3>1 DEF With
      <3> QED BY <2>3, <3>3, <3>4 DEF y
    <2> HIDE DEF y, Plain, Whole
    <2>5. y \in G
      BY <2>1, <2>4
    <2> QED BY <2>5 DEF y
  <1> HIDE DEF G
  <1>3. s \in G
    BY <1>1, <1>2, ByteByByte
  <1> QED BY <1>3 DEF G

(* The string in the buffer, and what the sieve says of it.                  *)
Held(b) == SubSeq(b, 1, Reverse!StrLen(b))
Sieve(b) == Reverse!Sifted(Held(b))

LEMMA HeldIs ==
  ASSUME NEW b \in Seq(Nat)
  PROVE  /\ Held(b) \in Seq(Nat) /\ Len(Held(b)) = Reverse!StrLen(b)
         /\ \A k \in 1..Reverse!StrLen(b) : Held(b)[k] = b[k] /\ Held(b)[k] # 0
         /\ Sieved(Held(b))
         /\ Sieve(b).kept \in Seq(Nat) /\ Sieve(b).cr \in Nat /\ Sieve(b).lf \in Nat
         /\ Len(Sieve(b).kept) \in Nat
         /\ Len(Sieve(b).kept) + Sieve(b).cr + Sieve(b).lf = Reverse!StrLen(b)
         /\ \A k \in 1..Len(Sieve(b).kept) : Sieve(b).kept[k] # 0
  <1> DEFINE l == Reverse!StrLen(b)
             s == Sieve(b)
             h == Held(b)
  <1>1. l \in Nat /\ l <= Len(b) /\ \A k \in 1..l : b[k] # 0
    BY LenProperties, StrLenIs
  <1> HIDE DEF l
  <1>2. h \in Seq(Nat) /\ Len(h) = l /\ \A k \in 1..l : h[k] = b[k]
    <2>1. /\ SubSeq(b, 1, l) \in Seq(Nat) /\ Len(SubSeq(b, 1, l)) = l
          /\ \A k \in 1..l : SubSeq(b, 1, l)[k] = b[k]
      BY <1>1, CutInTwo
    <2> QED BY <2>1 DEF l, Held
  <1> HIDE DEF h
  <1>3. Sieved(h)
    BY <1>2, SievedAll
  <1>4. /\ s \in [kept : Seq(Nat), cr : Nat, lf : Nat]
        /\ Len(s.kept) + s.cr + s.lf = l
        /\ (\A k \in 1..l : h[k] # 0) => \A k \in 1..Len(s.kept) : s.kept[k] # 0
    BY <1>2, <1>3 DEF Sieved, Sieve, h
  <1> HIDE DEF s
  <1>5. \A k \in 1..l : h[k] # 0
    BY <1>1, <1>2
  <1>6. s.kept \in Seq(Nat) /\ s.cr \in Nat /\ s.lf \in Nat /\ Len(s.kept) \in Nat
    BY <1>4, LenProperties
  <1> QED BY <1>2, <1>3, <1>4, <1>5, <1>6 DEF l, s, h

LEMMA SqueezeIs ==
  ASSUME NEW b \in Seq(Nat), Len(b) = SIZE
  PROVE  LET q == Reverse!Squeeze(b)
             l == Reverse!StrLen(b)
             kept == Sieve(b).kept
         IN  /\ q \in Seq(Nat) /\ Len(q) = SIZE
             /\ \A k \in 1..Len(kept) : q[k] = kept[k]
             /\ \A k \in Len(kept) + 1..l : q[k] = 0
             /\ \A k \in l + 1..SIZE : q[k] = b[k]
  <1> DEFINE l == Reverse!StrLen(b)
             kept == Sieve(b).kept
             n == Len(kept)
             d == l - n
             z == Reverse!Zeros(d)
             v == SubSeq(b, l + 1, Len(b))
             a == kept \o z
  <1>1. SIZE \in Nat /\ l \in Nat /\ l <= Len(b) /\ l <= SIZE
    BY ReverseConstants, StrLenIs
  <1>2. kept \in Seq(Nat) /\ n \in Nat /\ n <= l
    <2>1. /\ kept \in Seq(Nat) /\ n \in Nat /\ Sieve(b).cr \in Nat /\ Sieve(b).lf \in Nat
          /\ n + Sieve(b).cr + Sieve(b).lf = l
      BY HeldIs
    <2> DEFINE x == Sieve(b).cr
               y == Sieve(b).lf
    <2>2. x \in Nat /\ y \in Nat /\ n \in Nat /\ n + x + y = l
      BY <2>1
    <2> HIDE DEF n, kept, l, x, y
    <2>3. n <= l
      BY <2>2
    <2> QED BY <2>1, <2>3
  <1>3. Reverse!Squeeze(b) = a \o v
    BY DEF Reverse!Squeeze, Sieve, Held
  <1> HIDE DEF l, kept
  <1>4. d \in Nat /\ d <= SIZE
    BY <1>1, <1>2
  <1> HIDE DEF d
  <1>5. z \in Seq(Nat) /\ Len(z) = d /\ \A j \in 1..d : z[j] = 0
    BY <1>4, ZerosAre
  <1>6. v \in Seq(Nat) /\ Len(v) = SIZE - l /\ \A k \in 1..SIZE - l : v[k] = b[l + k]
    BY <1>1, CutInTwo, ZenonT(40)
  <1> HIDE DEF z, v
  <1>7. /\ a \in Seq(Nat) /\ Len(a) = Len(kept) + Len(z)
        /\ \A k \in 1..Len(kept) : a[k] = kept[k]
        /\ \A k \in Len(kept) + 1..Len(kept) + Len(z) : a[k] = z[k - Len(kept)]
    BY <1>2, <1>5, JoinAt
  <1>8. Len(kept) + Len(z) = l
    BY <1>1, <1>2, <1>5 DEF d
  <1> HIDE DEF a
  <1>9. /\ a \o v \in Seq(Nat) /\ Len(a \o v) = Len(a) + Len(v)
        /\ \A k \in 1..Len(a) : (a \o v)[k] = a[k]
        /\ \A k \in Len(a) + 1..Len(a) + Len(v) : (a \o v)[k] = v[k - Len(a)]
    <2>1. a \in Seq(Nat)
      BY <1>7
    <2>2. v \in Seq(Nat)
      BY <1>6
    <2> QED BY <2>1, <2>2, JoinAt
  <1>10. Len(a) = l /\ Len(a) + Len(v) = SIZE
    <2>1. Len(a) = l
      BY <1>7, <1>8
    <2>2. Len(v) = SIZE - l
      BY <1>6
    <2> QED BY <1>1, <2>1, <2>2
  <1>11. \A k \in 1..n : (a \o v)[k] = kept[k]
    BY <1>1, <1>2, <1>7, <1>9, <1>10
  <1>12. \A k \in n + 1..l : (a \o v)[k] = 0
    <2> SUFFICES ASSUME NEW k \in n + 1..l PROVE (a \o v)[k] = 0
      OBVIOUS
    <2>1. k \in 1..l /\ k - n \in 1..d
      BY <1>1, <1>2 DEF d
    <2>2. a[k] = z[k - n]
      BY <1>7, <1>8
    <2> QED BY <1>5, <1>9, <1>10, <2>1, <2>2
  <1>13. \A k \in l + 1..SIZE : (a \o v)[k] = b[k]
    <2> SUFFICES ASSUME NEW k \in l + 1..SIZE PROVE (a \o v)[k] = b[k]
      OBVIOUS
    <2>1. k - l \in 1..SIZE - l /\ l + (k - l) = k
      BY <1>1
    <2>2. (a \o v)[k] = v[k - l]
      BY <1>9, <1>10
    <2> QED BY <1>6, <2>1, <2>2
  <1> QED BY <1>3, <1>9, <1>10, <1>11, <1>12, <1>13 DEF l, kept

(* A control put at the end of a string that ends two bytes before the end of *)
(* the buffer or earlier, and then a zero behind the next zero.                *)
LEMMA PutEndInside ==
  ASSUME NEW b \in Seq(Nat), Len(b) = SIZE, NEW c \in Nat, c # 0,
         NEW n \in Nat, n <= SIZE - 2, \A k \in n + 1..SIZE : b[k] = 0,
         NEW z \in 1..n, b[z] = 0
  PROVE  LET r == Reverse!PutEnd(b, c)
         IN  /\ r # <<>> /\ r \in Seq(Nat) /\ Len(r) = SIZE
             /\ \A k \in n + 1..SIZE : r[k] = 0
             /\ \A y \in z + 1..n : b[y] = 0 => r[y] = 0
  <1> DEFINE p == Reverse!StrLen(b)
             ended == [b EXCEPT ![p + 1] = c]
             q == Reverse!StrLen(ended)
             r == [ended EXCEPT ![q + 2] = 0]
  <1>1. SIZE \in Nat /\ p \in 0..SIZE /\ \A k \in 1..p : b[k] # 0
    BY ReverseConstants, StrLenIs
  <1>2. p < z
    BY <1>1
  <1>3. p + 1 \in 1..n /\ p + 1 \in 1..Len(b) /\ p < Len(b)
    BY <1>1, <1>2
  <1> HIDE DEF p
  <1>4. /\ ended \in Seq(Nat) /\ Len(ended) = SIZE
        /\ \A k \in 1..SIZE : ended[k] = IF k = p + 1 THEN c ELSE b[k]
    <2> DEFINE i == p + 1
    <2>1. i \in 1..Len(b)
      BY <1>3
    <2> HIDE DEF i
    <2>2. /\ [b EXCEPT ![i] = c] \in Seq(Nat) /\ Len([b EXCEPT ![i] = c]) = Len(b)
          /\ \A j \in 1..Len(b) : [b EXCEPT ![i] = c][j] = IF j = i THEN c ELSE b[j]
      BY <2>1, ExceptSeq
    <2> QED BY <2>2 DEF i
  <1>5. Reverse!PutEnd(b, c) = IF q + 1 < Len(ended) THEN r ELSE <<>>
    BY <1>3, ReverseConstants DEF Reverse!PutEnd, Reverse!ReplaceAt, p
  <1> HIDE DEF ended
  <1>6. q \in 0..SIZE /\ \A k \in 1..q : ended[k] # 0
    BY <1>4, StrLenIs
  <1>7. q <= n
    <2>1. n + 1 \in 1..SIZE /\ n + 1 # p + 1
      BY <1>1, <1>3
    <2>2. ended[n + 1] = 0
      BY <1>4, <2>1
    <2> DEFINE m == q
    <2>3. m \in Nat /\ \A k \in 1..m : ended[k] # 0
      BY <1>1, <1>6
    <2> HIDE DEF m
    <2>4. ~(n + 1 \in 1..m)
      BY <2>2, <2>3
    <2>5. m <= n
      BY <2>3, <2>4
    <2> QED BY <2>5 DEF m
  <1>8. q + 1 < SIZE /\ q + 2 \in 1..Len(ended)
    <2> DEFINE m == q
    <2>1. m \in Nat /\ m <= n
      BY <1>1, <1>6, <1>7
    <2> HIDE DEF m
    <2>2. m + 1 < SIZE /\ m + 2 \in 1..SIZE
      BY <1>1, <2>1
    <2>3. Len(ended) = SIZE
      BY <1>4
    <2> QED BY <2>2, <2>3 DEF m
  <1> HIDE DEF q
  <1>9. /\ r \in Seq(Nat) /\ Len(r) = SIZE
        /\ \A k \in 1..SIZE : r[k] = IF k = q + 2 THEN 0 ELSE ended[k]
    <2> DEFINE i == q + 2
               e == 0
    <2>1. i \in 1..Len(ended) /\ e \in Nat
      BY <1>8
    <2> HIDE DEF i, e
    <2>2. /\ [ended EXCEPT ![i] = e] \in Seq(Nat) /\ Len([ended EXCEPT ![i] = e]) = Len(ended)
          /\ \A j \in 1..Len(ended) : [ended EXCEPT ![i] = e][j] = IF j = i THEN e ELSE ended[j]
      BY <1>4, <2>1, ExceptSeq
    <2> QED BY <1>4, <2>2 DEF i, e
  <1> HIDE DEF r
  <1>10. Reverse!PutEnd(b, c) = r
    BY <1>4, <1>5, <1>8
  <1>11. \A k \in 1..SIZE : k # p + 1 /\ b[k] = 0 => r[k] = 0
    BY <1>4, <1>9
  <1>12. \A k \in n + 1..SIZE : r[k] = 0
    BY <1>1, <1>3, <1>11
  <1>13. \A y \in z + 1..n : b[y] = 0 => r[y] = 0
    BY <1>1, <1>2, <1>11
  <1>14. r # <<>>
    <2>1. Len(r) # 0
      BY <1>8, <1>9, <1>6
    <2> QED BY <2>1
  <1> QED BY <1>9, <1>10, <1>12, <1>13, <1>14


(* The bytes that are swapped: what is left of n when the controls, and a zero *)
(* behind the string, are taken off.                                           *)
Swappable(b, n) ==
  n - (Sieve(b).cr + Sieve(b).lf + IF Reverse!StrLen(b) # n THEN 1 ELSE 0)
Swapped(b, n) == Reverse!Swap(Reverse!Squeeze(b), Swappable(b, n))

LEMMA SwappedIs ==
  ASSUME NEW b \in Seq(Nat), Len(b) = SIZE, NEW n \in Nat, n <= SIZE, Reverse!StrLen(b) <= n
  PROVE  LET w == Swapped(b, n)
             m == Swappable(b, n)
             l == Reverse!StrLen(b)
             kept == Sieve(b).kept
         IN  /\ m \in Nat /\ Len(kept) <= m /\ m <= n /\ (n <= l + 1 => m = Len(kept))
             /\ w \in Seq(Nat) /\ Len(w) = SIZE
             /\ \A k \in 1..m : m + 1 - k <= Len(kept) => w[k] = kept[m + 1 - k]
             /\ \A k \in 1..m : m + 1 - k \in Len(kept) + 1..l => w[k] = 0
             /\ \A k \in m + 1..SIZE : k <= l => w[k] = 0
             /\ \A k \in m + 1..SIZE : k > l => w[k] = b[k]
  <1> DEFINE w == Swapped(b, n)
             m == Swappable(b, n)
             l == Reverse!StrLen(b)
             kept == Sieve(b).kept
             i == Len(kept)
             x == Sieve(b).cr
             y == Sieve(b).lf
             h == IF l # n THEN 1 ELSE 0
             q == Reverse!Squeeze(b)
  <1>1. /\ SIZE \in Nat /\ l \in Nat /\ i \in Nat /\ x \in Nat /\ y \in Nat
        /\ i + x + y = l /\ l <= n
    BY ReverseConstants, StrLenIs, HeldIs
  <1>2. m = n - (x + y + h)
    BY DEF Swappable
  <1>3. /\ q \in Seq(Nat) /\ Len(q) = SIZE
        /\ \A k \in 1..i : q[k] = kept[k]
        /\ \A k \in i + 1..l : q[k] = 0
        /\ \A k \in l + 1..SIZE : q[k] = b[k]
    BY SqueezeIs
  <1>4. w = Reverse!Swap(q, m)
    BY DEF Swapped
  <1>5. h \in {0, 1} /\ (l # n => h = 1) /\ (l = n => h = 0)
    OBVIOUS
  <1> HIDE DEF w, m, l, i, x, y, h, q
  <1>6. m \in Nat /\ i <= m /\ m <= n /\ (n <= l + 1 => m = i) /\ m <= SIZE
    <2>1. CASE l = n
      <3>1. m = n - (x + y + 0)
        BY <1>2, <1>5, <2>1
      <3> QED BY <1>1, <2>1, <3>1
    <2>2. CASE l # n
      <3>1. m = n - (x + y + 1)
        BY <1>2, <1>5, <2>2
      <3> QED BY <1>1, <2>2, <3>1
    <2> QED BY <2>1, <2>2
  <1>7. /\ w \in Seq(Nat) /\ Len(w) = SIZE
        /\ \A k \in 1..m : w[k] = q[m + 1 - k]
        /\ \A k \in m + 1..SIZE : w[k] = q[k]
    <2>1. m <= Len(q)
      BY <1>3, <1>6
    <2>2. /\ Reverse!Swap(q, m) \in Seq(Nat) /\ Len(Reverse!Swap(q, m)) = Len(q)
          /\ \A k \in 1..m : Reverse!Swap(q, m)[k] = q[m + 1 - k]
          /\ \A k \in m + 1..Len(q) : Reverse!Swap(q, m)[k] = q[k]
      BY <1>3, <1>6, <2>1, SwapIs
    <2> QED BY <1>3, <1>4, <2>2
  <1>8. \A k \in 1..m : m + 1 - k <= i => w[k] = kept[m + 1 - k]
    <2> SUFFICES ASSUME NEW k \in 1..m, m + 1 - k <= i PROVE w[k] = kept[m + 1 - k]
      OBVIOUS
    <2>1. m + 1 - k \in 1..i
      BY <1>1, <1>6
    <2> QED BY <1>3, <1>7, <2>1
  <1>9. \A k \in 1..m : m + 1 - k \in i + 1..l => w[k] = 0
    BY <1>3, <1>7
  <1>10. \A k \in m + 1..SIZE : k <= l => w[k] = 0
    <2> SUFFICES ASSUME NEW k \in m + 1..SIZE, k <= l PROVE w[k] = 0
      OBVIOUS
    <2>1. k \in i + 1..l
      BY <1>1, <1>6
    <2> QED BY <1>3, <1>7, <2>1
  <1>11. \A k \in m + 1..SIZE : k > l => w[k] = b[k]
    <2> SUFFICES ASSUME NEW k \in m + 1..SIZE, k > l PROVE w[k] = b[k]
      OBVIOUS
    <2>1. k \in l + 1..SIZE
      BY <1>1, <1>6
    <2> QED BY <1>3, <1>7, <2>1
  <1> QED BY <1>6, <1>7, <1>8, <1>9, <1>10, <1>11 DEF w, m, l, i

(* Every control that is put back finds a zero of its own within the piece.  *)
LEMMA RoomForControls ==
  ASSUME NEW b \in Seq(Nat), Len(b) = SIZE, NEW n \in Nat, n <= SIZE, Reverse!StrLen(b) <= n
  PROVE  LET w == Swapped(b, n)
         IN  /\ Sieve(b).cr > 0 \/ Sieve(b).lf > 0 => \E z \in 1..n : w[z] = 0
             /\ Sieve(b).cr > 0 /\ Sieve(b).lf > 0 =>
                  \E z \in 1..n : \E y \in z + 1..n : w[z] = 0 /\ w[y] = 0
  <1> DEFINE w == Swapped(b, n)
             m == Swappable(b, n)
             l == Reverse!StrLen(b)
             i == Len(Sieve(b).kept)
             cr == Sieve(b).cr
             lf == Sieve(b).lf
  <1>1. /\ SIZE \in Nat /\ l \in Nat /\ i \in Nat /\ cr \in Nat /\ lf \in Nat
        /\ i + cr + lf = l /\ l <= n
    BY ReverseConstants, StrLenIs, HeldIs
  <1>2. /\ m \in Nat /\ i <= m /\ m <= n
        /\ \A k \in 1..m : m + 1 - k \in i + 1..l => w[k] = 0
        /\ \A k \in m + 1..SIZE : k <= l => w[k] = 0
    BY SwappedIs
  <1> HIDE DEF w, m, l, i, cr, lf
  <1>3. i + 1 <= l => IF m = i THEN i + 1 \in 1..n /\ w[i + 1] = 0
                      ELSE m - i \in 1..m /\ w[m - i] = 0
    <2> SUFFICES ASSUME i + 1 <= l
                 PROVE  /\ m = i => i + 1 \in 1..n /\ w[i + 1] = 0
                        /\ m # i => m - i \in 1..m /\ w[m - i] = 0
      OBVIOUS
    <2>1. CASE m = i
      <3>1. i + 1 \in m + 1..SIZE /\ i + 1 <= l /\ i + 1 \in 1..n
        BY <1>1, <2>1
      <3> QED BY <1>2, <2>1, <3>1
    <2>2. CASE m # i
      <3>1. m - i \in 1..m /\ m + 1 - (m - i) \in i + 1..l
        BY <1>1, <1>2, <2>2
      <3> QED BY <1>2, <2>2, <3>1
    <2> QED BY <2>1, <2>2
  <1>4. cr > 0 \/ lf > 0 => i + 1 <= l
    BY <1>1
  <1>5. cr > 0 \/ lf > 0 => \E z \in 1..n : w[z] = 0
    <2> SUFFICES ASSUME cr > 0 \/ lf > 0 PROVE \E z \in 1..n : w[z] = 0
      OBVIOUS
    <2>1. CASE m = i
      BY <1>3, <1>4, <2>1
    <2>2. CASE m # i
      <3>1. m - i \in 1..n /\ w[m - i] = 0
        BY <1>1, <1>2, <1>3, <1>4, <2>2
      <3> QED BY <3>1
    <2> QED BY <2>1, <2>2
  <1>6. cr > 0 /\ lf > 0 => \E z \in 1..n : \E y \in z + 1..n : w[z] = 0 /\ w[y] = 0
    <2> SUFFICES ASSUME cr > 0, lf > 0
                 PROVE  \E z \in 1..n : \E y \in z + 1..n : w[z] = 0 /\ w[y] = 0
      OBVIOUS
    <2>1. i + 2 <= l
      BY <1>1
    <2>2. CASE m = i
      <3>1. i + 1 \in 1..n /\ w[i + 1] = 0
        BY <1>3, <1>4, <2>2
      <3>2. i + 2 \in m + 1..SIZE /\ i + 2 <= l /\ i + 2 \in (i + 1) + 1..n
        BY <1>1, <2>1, <2>2
      <3>3. w[i + 2] = 0
        BY <1>2, <3>2
      <3> QED BY <3>1, <3>2, <3>3
    <2>3. CASE m = i + 1
      <3>1. 1 \in 1..m /\ m + 1 - 1 \in i + 1..l /\ 1 \in 1..n
        BY <1>1, <1>2, <2>1, <2>3
      <3>2. i + 2 \in m + 1..SIZE /\ i + 2 <= l /\ i + 2 \in 1 + 1..n
        BY <1>1, <2>1, <2>3
      <3>3. w[1] = 0 /\ w[i + 2] = 0
        BY <1>2, <3>1, <3>2
      <3> QED BY <3>1, <3>2, <3>3
    <2>4. CASE m >= i + 2
      <3> DEFINE z == m - i - 1
      <3>1. z \in 1..m /\ m + 1 - z \in i + 1..l /\ z \in 1..n
        BY <1>1, <1>2, <2>1, <2>4
      <3>2. z + 1 \in 1..m /\ m + 1 - (z + 1) \in i + 1..l /\ z + 1 \in z + 1..n
        BY <1>1, <1>2, <2>1, <2>4
      <3> HIDE DEF z
      <3>3. w[z] = 0 /\ w[z + 1] = 0
        BY <1>2, <3>1, <3>2
      <3> QED BY <3>1, <3>2, <3>3
    <2> QED BY <1>1, <1>2, <2>2, <2>3, <2>4
  <1> QED BY <1>5, <1>6 DEF w, cr, lf

LEMMA ReversedIs ==
  ASSUME NEW b, NEW n
  PROVE  LET cr == IF Sieve(b).cr > 0 THEN Reverse!PutEnd(Swapped(b, n), 13)
                   ELSE Swapped(b, n)
         IN  Reverse!Reversed(b, n) = IF Sieve(b).lf > 0 THEN Reverse!PutEnd(cr, 10) ELSE cr
  BY ReverseConstants DEF Reverse!Reversed, Swapped, Swappable, Sieve, Held

(* A piece that leaves two bytes of the buffer free is answered inside it.   *)
LEMMA AnsweredInside ==
  ASSUME NEW p \in Seq(Nat), Len(p) <= SIZE - 2
  PROVE  LET b == Reverse!Buffer(p)
         IN  Reverse!StrLen(b) # SIZE /\ Reverse!Reversed(b, Len(p)) # <<>>
  <1> DEFINE b == Reverse!Buffer(p)
             n == Len(p)
             w == Swapped(b, n)
             cr == Sieve(b).cr
             lf == Sieve(b).lf
             v == IF cr > 0 THEN Reverse!PutEnd(w, 13) ELSE w
  <1>1. SIZE \in Nat /\ SIZE > 0 /\ n \in Nat /\ n <= SIZE - 2 /\ n <= SIZE
    BY LenProperties, ReverseConstants
  <1>2. b \in Seq(Nat) /\ Len(b) = SIZE /\ \A k \in n + 1..SIZE : b[k] = 0
    BY <1>1, BufferIs
  <1> HIDE DEF b, n
  <1>3. Reverse!StrLen(b) \in Nat /\ Reverse!StrLen(b) <= n
    <2> DEFINE l == Reverse!StrLen(b)
    <2>1. l \in Nat /\ \A k \in 1..l : b[k] # 0
      BY <1>1, <1>2, StrLenIs
    <2> HIDE DEF l
    <2>2. ~(n + 1 \in 1..l)
      <3>1. n + 1 \in n + 1..SIZE
        BY <1>1
      <3> QED BY <1>2, <2>1, <3>1
    <2>3. l <= n
      BY <1>1, <2>1, <2>2
    <2> QED BY <2>1, <2>3 DEF l
  <1>4. /\ w \in Seq(Nat) /\ Len(w) = SIZE
        /\ \A k \in n + 1..SIZE : w[k] = 0
    <2> DEFINE m == Swappable(b, n)
               l == Reverse!StrLen(b)
    <2>1. /\ w \in Seq(Nat) /\ Len(w) = SIZE /\ m \in Nat /\ m <= n
          /\ \A k \in m + 1..SIZE : k <= l => w[k] = 0
          /\ \A k \in m + 1..SIZE : k > l => w[k] = b[k]
      BY <1>1, <1>2, <1>3, SwappedIs
    <2> HIDE DEF m, w
    <2>2. \A k \in n + 1..SIZE : k \in m + 1..SIZE /\ k > l
      BY <1>1, <1>3, <2>1
    <2> QED BY <1>2, <2>1, <2>2
  <1>5. /\ cr > 0 \/ lf > 0 => \E z \in 1..n : w[z] = 0
        /\ cr > 0 /\ lf > 0 => \E z \in 1..n : \E y \in z + 1..n : w[z] = 0 /\ w[y] = 0
    BY <1>1, <1>2, <1>3, RoomForControls
  <1>6. Reverse!Reversed(b, n) = IF lf > 0 THEN Reverse!PutEnd(v, 10) ELSE v
    BY ReversedIs
  <1> HIDE DEF w, cr, lf
  <1>7. ASSUME cr > 0
        PROVE  /\ v # <<>> /\ v \in Seq(Nat) /\ Len(v) = SIZE
               /\ \A k \in n + 1..SIZE : v[k] = 0
               /\ lf > 0 => \E y \in 1..n : v[y] = 0
    <2> DEFINE c == 13
               r == Reverse!PutEnd(w, c)
    <2>1. v = r
      BY <1>7
    <2>2. c \in Nat /\ c # 0
      OBVIOUS
    <2> HIDE DEF c, v
    <2>3. ASSUME NEW z \in 1..n, w[z] = 0
          PROVE  /\ r # <<>> /\ r \in Seq(Nat) /\ Len(r) = SIZE
                 /\ \A k \in n + 1..SIZE : r[k] = 0
                 /\ \A y \in z + 1..n : w[y] = 0 => r[y] = 0
      BY <1>1, <1>4, <2>2, <2>3, PutEndInside, ZenonT(40)
    <2> HIDE DEF r
    <2>4. PICK z \in 1..n : w[z] = 0 /\ (lf > 0 => \E y \in z + 1..n : w[y] = 0)
      BY <1>5, <1>7
    <2>5. lf > 0 => \E y \in 1..n : r[y] = 0
      <3> SUFFICES ASSUME lf > 0 PROVE \E y \in 1..n : r[y] = 0
        OBVIOUS
      <3>1. PICK y \in z + 1..n : w[y] = 0
        BY <2>4
      <3>2. y \in 1..n
        BY <1>1
      <3> QED BY <2>3, <2>4, <3>1, <3>2
    <2> QED BY <2>1, <2>3, <2>4, <2>5
  <1>8. /\ v # <<>> /\ v \in Seq(Nat) /\ Len(v) = SIZE
        /\ \A k \in n + 1..SIZE : v[k] = 0
        /\ lf > 0 => \E y \in 1..n : v[y] = 0
    <2>1. CASE cr > 0
      BY <1>7, <2>1
    <2>2. CASE ~(cr > 0)
      <3>1. v = w
        BY <2>2
      <3> HIDE DEF v
      <3>2. w # <<>>
        <4>1. Len(w) # 0
          BY <1>1, <1>4
        <4> QED BY <4>1
      <3> QED BY <1>4, <1>5, <3>1, <3>2
    <2> QED BY <2>1, <2>2
  <1> HIDE DEF v
  <1>9. lf > 0 => Reverse!PutEnd(v, 10) # <<>>
    <2> SUFFICES ASSUME lf > 0 PROVE Reverse!PutEnd(v, 10) # <<>>
      OBVIOUS
    <2> DEFINE c == 10
    <2>1. c \in Nat /\ c # 0
      OBVIOUS
    <2>2. PICK z \in 1..n : v[z] = 0
      BY <1>8
    <2> HIDE DEF c
    <2>3. Reverse!PutEnd(v, c) # <<>>
      BY <1>1, <1>8, <2>1, <2>2, PutEndInside
    <2> QED BY <2>3 DEF c
  <1>10. Reverse!Reversed(b, n) # <<>>
    BY <1>6, <1>8, <1>9
  <1>11. Reverse!StrLen(b) # SIZE
    BY <1>1, <1>3
  <1> QED BY <1>10, <1>11 DEF b, n


(* The invariant: what the server holds are numbers, a piece fits in the       *)
(* buffer; while it runs, its last reply is what the operators make of its last *)
(* piece, and it left the buffer only for a piece that filled it but for a byte. *)
ReverseTypes ==
  /\ rin \in Seq(Nat) /\ rinq \in Seq(Nat)
  /\ piece \in Seq(Nat) /\ Len(piece) <= SIZE
  /\ state \in {"running", "undefined"}
Answer(p) == Reverse!Reversed(Reverse!Buffer(p), Len(p))
Answered ==
  state = "running" =>
    \/ piece = <<>> /\ reply = <<>>
    \/ /\ Reverse!StrLen(Reverse!Buffer(piece)) # SIZE
       /\ Answer(piece) # <<>>
       /\ reply = SubSeq(Answer(piece), 1, Len(piece))
ReverseInv == ReverseTypes /\ Answered /\ InsideWithTwoToSpare

LEMMA ReverseInvInit == Reverse!Init => ReverseInv
  <1> SUFFICES ASSUME Reverse!Init PROVE ReverseInv
    OBVIOUS
  <1>1. ReverseTypes
    <2>1. Len(<<>>) = 0 /\ <<>> \in Seq(Nat)
      OBVIOUS
    <2> QED BY <2>1, ReverseConstants DEF Reverse!Init, ReverseTypes
  <1>2. Answered /\ InsideWithTwoToSpare
    BY DEF Reverse!Init, Answered, InsideWithTwoToSpare, Reverse!InsideWithTwoToSpare
  <1> QED BY <1>1, <1>2 DEF ReverseInv

LEMMA ReadPiece ==
  ASSUME ReverseInv, Reverse!read_cb
  PROVE  ReverseInv'
  <1> DEFINE n == Reverse!PieceLen
             p == SubSeq(rin, 1, n)
             b == Reverse!Buffer(p)
             r == Reverse!Reversed(b, n)
  <1>1. /\ rin \in Seq(Nat) /\ rinq \in Seq(Nat) /\ state = "running"
        /\ SIZE \in Nat /\ Len(rin) \in Nat
    BY ReverseConstants, LenProperties
    DEF ReverseInv, ReverseTypes, Reverse!read_cb, Reverse!TakePiece, Reverse!Up
  <1>2. n \in Nat /\ n <= Len(rin) /\ n <= SIZE
    BY <1>1 DEF Reverse!PieceLen
  <1>3. piece' = p /\ rin' = SubSeq(rin, n + 1, Len(rin)) /\ rinq' = rinq
    BY DEF Reverse!read_cb, Reverse!TakePiece
  <1>4. IF Reverse!StrLen(b) = SIZE \/ r = <<>>
        THEN state' = "undefined"
        ELSE reply' = SubSeq(r, 1, n) /\ state' = state
    BY <1>3 DEF Reverse!read_cb
  <1> HIDE DEF n
  <1>5. /\ p \in Seq(Nat) /\ Len(p) = n
        /\ SubSeq(rin, n + 1, Len(rin)) \in Seq(Nat)
    BY <1>1, <1>2, CutInTwo
  <1> HIDE DEF p
  <1>6. r = Answer(p)
    BY <1>5 DEF Answer
  <1> HIDE DEF b, r
  <1>7. ReverseTypes'
    BY <1>1, <1>2, <1>3, <1>4, <1>5 DEF ReverseTypes
  <1>8. Answered'
    <2> SUFFICES ASSUME state' = "running"
                 PROVE  /\ Reverse!StrLen(Reverse!Buffer(p)) # SIZE
                        /\ Answer(p) # <<>>
                        /\ reply' = SubSeq(Answer(p), 1, Len(p))
      BY <1>3 DEF Answered
    <2>1. Reverse!StrLen(b) # SIZE /\ r # <<>> /\ reply' = SubSeq(r, 1, n)
      BY <1>4
    <2> QED BY <1>5, <1>6, <2>1 DEF b
  <1>9. InsideWithTwoToSpare'
    <2> SUFFICES ASSUME state' = "undefined", ~(n >= SIZE - 1) PROVE FALSE
      BY <1>3, <1>5 DEF InsideWithTwoToSpare, Reverse!InsideWithTwoToSpare
    <2>1. Len(p) <= SIZE - 2
      BY <1>1, <1>2, <1>5
    <2>2. Reverse!StrLen(Reverse!Buffer(p)) # SIZE /\ Answer(p) # <<>>
      BY <1>5, <2>1, AnsweredInside DEF Answer
    <2>3. state' = state
      BY <1>4, <1>6, <2>2 DEF b
    <2> QED BY <1>1, <2>3
  <1> QED BY <1>7, <1>8, <1>9 DEF ReverseInv

LEMMA ReverseNext == ReverseInv /\ (Reverse!Next \/ UNCHANGED reverse) => ReverseInv'
  <1> SUFFICES ASSUME ReverseInv, Reverse!Next \/ UNCHANGED reverse PROVE ReverseInv'
    OBVIOUS
  <1>1. ASSUME rin' \in Seq(Nat), rinq' \in Seq(Nat), UNCHANGED <<state, piece, reply>>
        PROVE  ReverseInv'
    <2>1. ReverseTypes'
      BY <1>1 DEF ReverseInv, ReverseTypes
    <2>2. Answered' /\ InsideWithTwoToSpare'
      BY <1>1 DEF ReverseInv, Answered, InsideWithTwoToSpare, Reverse!InsideWithTwoToSpare
    <2> QED BY <2>1, <2>2 DEF ReverseInv
  <1>2. rin \in Seq(Nat) /\ rinq \in Seq(Nat) /\ Len(rinq) \in Nat
    BY LenProperties DEF ReverseInv, ReverseTypes
  <1>3. ASSUME NEW c \in Reverse!Bytes, Reverse!ClientSend(c) PROVE ReverseInv'
    <2>1. rinq' = Append(rinq, c) /\ rin' = rin /\ UNCHANGED <<state, piece, reply>>
      BY <1>3 DEF Reverse!ClientSend
    <2>2. Append(rinq, c) \in Seq(Nat)
      BY <1>2, AppendProperties, ReverseConstants
    <2> QED BY <1>1, <1>2, <2>1, <2>2
  <1>4. CASE Reverse!Arrive
    <2>1. PICK n \in 1..Len(rinq) :
            rin' = SubSeq(rinq, 1, n) /\ rinq' = SubSeq(rinq, n + 1, Len(rinq))
      BY <1>4 DEF Reverse!Arrive
    <2>2. SubSeq(rinq, 1, n) \in Seq(Nat) /\ SubSeq(rinq, n + 1, Len(rinq)) \in Seq(Nat)
      BY <1>2, CutInTwo
    <2>3. UNCHANGED <<state, piece, reply>>
      BY <1>4 DEF Reverse!Arrive
    <2> QED BY <1>1, <2>1, <2>2, <2>3
  <1>5. CASE \/ Reverse!ClientRecv \/ Reverse!ClientClose \/ Reverse!Write
             \/ Reverse!event_cb \/ UNCHANGED reverse
    <2>1. UNCHANGED <<rin, rinq, state, piece, reply>>
      BY <1>5 DEF Reverse!ClientRecv, Reverse!ClientClose, Reverse!Write, Reverse!event_cb, reverse
    <2> QED BY <1>1, <1>2, <2>1
  <1> QED BY <1>3, <1>4, <1>5, ReadPiece DEF Reverse!Next

(* For every buffer size and every piece, zeros and controls anywhere in it:   *)
(* the string functions and the zeros that read_cb puts behind the controls    *)
(* stay in the buffer as long as the piece leaves two of its bytes free.         *)
THEOREM TwoBytesAreEnough == Spec => []InsideWithTwoToSpare
  <1>1. ReverseInv => InsideWithTwoToSpare
    BY DEF ReverseInv
  <1>2. Init => ReverseInv
    BY ReverseInvInit DEF Init
  <1>3. ReverseInv /\ [Next]_vars => ReverseInv'
    BY OnlyOneRuns, ReverseNext
  <1> QED BY <1>1, <1>2, <1>3, PTL DEF Spec


-----------------------------------------------------------------------------
(* Lines come back reversed.                                                 *)

LEMMA MirrorIs ==
  ASSUME NEW u \in Seq(Nat)
  PROVE  /\ Reverse!Reverse(u) \in Seq(Nat) /\ Len(Reverse!Reverse(u)) = Len(u)
         /\ \A k \in 1..Len(u) : Reverse!Reverse(u)[k] = u[Len(u) + 1 - k]
  <1> DEFINE n == Len(u)
             r == Reverse!Reverse(u)
  <1>1. n \in Nat
    BY LenProperties
  <1>2. r = [k \in 1..n |-> u[(n - k) + 1]]
    BY DEF Reverse!Reverse
  <1> HIDE DEF r, n
  <1>3. \A k \in 1..n : r[k] = u[n + 1 - k] /\ r[k] \in Nat
    <2> SUFFICES ASSUME NEW k \in 1..n PROVE r[k] = u[n + 1 - k] /\ r[k] \in Nat
      OBVIOUS
    <2> DEFINE i == (n - k) + 1
    <2>1. i \in 1..n /\ i = n + 1 - k
      BY <1>1
    <2> HIDE DEF i
    <2>2. r[k] = u[i]
      BY <1>2 DEF i
    <2>3. u[i] \in Nat
      BY <2>1, ElementOfSeq DEF n
    <2> QED BY <2>1, <2>2, <2>3
  <1>4. r \in [1..n -> Nat]
    BY <1>2, <1>3
  <1>5. r \in Seq(Nat) /\ Len(r) = n
    BY <1>1, <1>4
  <1> QED BY <1>3, <1>5 DEF r, n

(* A buffer that holds the string u, and zeros behind it.                    *)
Shape(b, u) ==
  /\ b \in Seq(Nat) /\ Len(b) = SIZE /\ u \in Seq(Nat) /\ Len(u) <= SIZE
  /\ \A k \in 1..Len(u) : b[k] = u[k] /\ u[k] # 0
  /\ \A k \in Len(u) + 1..SIZE : b[k] = 0

LEMMA ShapeLen ==
  ASSUME NEW b, NEW u, Shape(b, u)
  PROVE  Reverse!StrLen(b) = Len(u)
  <1> DEFINE n == Len(u)
  <1>1. /\ b \in Seq(Nat) /\ Len(b) = SIZE /\ n \in Nat /\ n <= SIZE /\ SIZE \in Nat
        /\ \A k \in 1..n : b[k] # 0
        /\ \A k \in n + 1..SIZE : b[k] = 0
    BY LenProperties, ReverseConstants DEF Shape
  <1> HIDE DEF n
  <1>2. n \in 0..Len(b) /\ (n < Len(b) => b[n + 1] = 0)
    <2>1. n < SIZE => n + 1 \in n + 1..SIZE
      BY <1>1
    <2> QED BY <1>1, <2>1
  <1>3. Reverse!StrLen(b) = n
    BY <1>1, <1>2, StrLenAt
  <1> QED BY <1>3 DEF n

(* Unless its zero falls out of the buffer, a control put at the end of the    *)
(* string makes it one byte longer.                                            *)
LEMMA PutEndShape ==
  ASSUME NEW b, NEW u, Shape(b, u), Len(u) < SIZE, NEW c \in Nat, c # 0,
         Reverse!PutEnd(b, c) # <<>>
  PROVE  Shape(Reverse!PutEnd(b, c), Append(u, c))
  <1> DEFINE n == Len(u)
             i == n + 1
             v == Append(u, c)
             ended == [b EXCEPT ![i] = c]
             j == i + 2
             e == 0
             r == [ended EXCEPT ![j] = e]
  <1>1. /\ b \in Seq(Nat) /\ Len(b) = SIZE /\ u \in Seq(Nat) /\ n \in Nat /\ n < SIZE
        /\ SIZE \in Nat
        /\ \A k \in 1..n : b[k] = u[k] /\ u[k] # 0
        /\ \A k \in n + 1..SIZE : b[k] = 0
    BY LenProperties, ReverseConstants DEF Shape
  <1>2. Reverse!StrLen(b) = n
    BY ShapeLen
  <1>3. v \in Seq(Nat) /\ Len(v) = n + 1 /\ v[n + 1] = c /\ \A k \in 1..n : v[k] = u[k]
    BY <1>1, AppendProperties
  <1> HIDE DEF v, n
  <1>4. i \in 1..Len(b) /\ i \in Nat /\ i <= SIZE /\ n < Len(b)
    BY <1>1
  <1>5. Reverse!PutEnd(b, c) =
          IF Reverse!StrLen(ended) + 1 < Len(b)
            THEN [ended EXCEPT ![Reverse!StrLen(ended) + 2] = 0] ELSE <<>>
    BY <1>2, <1>4, ReverseConstants DEF Reverse!PutEnd, Reverse!ReplaceAt
  <1> HIDE DEF i
  <1>6. /\ ended \in Seq(Nat) /\ Len(ended) = Len(b)
        /\ \A k \in 1..Len(b) : ended[k] = IF k = i THEN c ELSE b[k]
    BY <1>1, <1>4, ExceptSeq
  <1> HIDE DEF ended
  <1>7. Shape(ended, v)
    <2>1. Len(v) = i /\ Len(ended) = SIZE /\ Len(v) <= SIZE
      BY <1>1, <1>3, <1>4, <1>6 DEF i
    <2>2. \A k \in 1..i : ended[k] = v[k] /\ v[k] # 0
      <3> SUFFICES ASSUME NEW k \in 1..i PROVE ended[k] = v[k] /\ v[k] # 0
        OBVIOUS
      <3>1. CASE k = i
        <4>1. v[k] = c
          BY <1>3, <3>1 DEF i
        <4>2. ended[k] = c
          BY <1>4, <1>6, <3>1
        <4> QED BY <4>1, <4>2
      <3>2. CASE k # i
        <4>1. k \in 1..n /\ k \in 1..Len(b)
          BY <1>1, <1>4, <3>2 DEF i
        <4> QED BY <1>1, <1>3, <1>6, <3>2, <4>1
      <3> QED BY <3>1, <3>2
    <2>3. \A k \in i + 1..SIZE : ended[k] = 0
      <3> SUFFICES ASSUME NEW k \in i + 1..SIZE PROVE ended[k] = 0
        OBVIOUS
      <3>1. k \in n + 1..SIZE /\ k # i /\ k \in 1..Len(b)
        BY <1>1, <1>4 DEF i
      <3> QED BY <1>1, <1>6, <3>1
    <2> QED BY <1>3, <1>6, <2>1, <2>2, <2>3 DEF Shape
  <1>8. Reverse!StrLen(ended) = i
    <2>1. Reverse!StrLen(ended) = Len(v)
      BY <1>7, ShapeLen
    <2> QED BY <1>3, <2>1 DEF i
  <1>9. Reverse!PutEnd(b, c) = r /\ j \in 1..Len(ended)
    <2>1. i + 1 < Len(b)
      BY <1>5, <1>8
    <2>2. j \in 1..Len(b)
      BY <1>1, <1>4, <2>1
    <2> QED BY <1>5, <1>6, <1>8, <2>1, <2>2
  <1> HIDE DEF j
  <1>10. /\ r \in Seq(Nat) /\ Len(r) = Len(ended)
         /\ \A k \in 1..Len(ended) : r[k] = IF k = j THEN e ELSE ended[k]
    <2>1. e \in Nat
      OBVIOUS
    <2> HIDE DEF e
    <2> QED BY <1>6, <1>9, <2>1, ExceptSeq
  <1> HIDE DEF r
  <1>11. Shape(r, v)
    <2>1. Len(v) = i
      BY <1>3 DEF i
    <2>2. \A k \in 1..i : r[k] = v[k] /\ v[k] # 0
      <3> SUFFICES ASSUME NEW k \in 1..i PROVE r[k] = v[k] /\ v[k] # 0
        OBVIOUS
      <3>1. k \in 1..Len(ended) /\ k # j
        BY <1>1, <1>4, <1>6 DEF j
      <3> QED BY <1>7, <1>10, <2>1, <3>1 DEF Shape
    <2>3. \A k \in i + 1..SIZE : r[k] = 0
      <3> SUFFICES ASSUME NEW k \in i + 1..SIZE PROVE r[k] = 0
        OBVIOUS
      <3>1. k \in 1..Len(ended)
        BY <1>1, <1>4, <1>6
      <3>2. ended[k] = 0
        BY <1>7, <2>1 DEF Shape
      <3> QED BY <1>10, <3>1, <3>2
    <2> QED BY <1>1, <1>6, <1>7, <1>10, <2>1, <2>2, <2>3 DEF Shape
  <1> QED BY <1>9, <1>11 DEF v

(* What the first n bytes of such a buffer are.                              *)
LEMMA ShapeCut ==
  ASSUME NEW b, NEW u, Shape(b, u), NEW n \in Nat, Len(u) <= n, n <= SIZE
  PROVE  SubSeq(b, 1, n) = u \o Reverse!Zeros(n - Len(u))
  <1> DEFINE l == Len(u)
             d == n - l
             z == Reverse!Zeros(d)
             a == SubSeq(b, 1, n)
             w == u \o z
  <1>1. /\ b \in Seq(Nat) /\ Len(b) = SIZE /\ u \in Seq(Nat) /\ l \in Nat
        /\ SIZE \in Nat
        /\ \A k \in 1..l : b[k] = u[k]
        /\ \A k \in l + 1..SIZE : b[k] = 0
    BY LenProperties, ReverseConstants DEF Shape
  <1>2. d \in Nat /\ d <= SIZE
    BY <1>1
  <1>3. a \in Seq(Nat) /\ Len(a) = n /\ \A k \in 1..n : a[k] = b[k]
    BY <1>1, CutInTwo, ZenonT(40)
  <1> HIDE DEF a, d
  <1>4. z \in Seq(Nat) /\ Len(z) = d /\ \A k \in 1..d : z[k] = 0
    BY <1>2, ZerosAre
  <1> HIDE DEF z
  <1>5. /\ w \in Seq(Nat) /\ Len(w) = Len(u) + Len(z)
        /\ \A k \in 1..Len(u) : w[k] = u[k]
        /\ \A k \in Len(u) + 1..Len(u) + Len(z) : w[k] = z[k - Len(u)]
    <2>1. u \in Seq(Nat)
      BY <1>1
    <2>2. z \in Seq(Nat)
      BY <1>4
    <2> QED BY <2>1, <2>2, JoinAt
  <1> HIDE DEF w, l
  <1>6. Len(w) = n
    <2>1. Len(w) = l + d
      BY <1>4, <1>5 DEF l
    <2> QED BY <1>1, <2>1 DEF d
  <1>7. \A k \in 1..n : a[k] = w[k]
    <2> SUFFICES ASSUME NEW k \in 1..n PROVE a[k] = w[k]
      OBVIOUS
    <2>1. CASE k <= l
      <3>1. k \in 1..l
        BY <2>1
      <3>2. w[k] = u[k]
        BY <1>5, <3>1 DEF l
      <3> QED BY <1>1, <1>3, <3>1, <3>2
    <2>2. CASE ~(k <= l)
      <3>1. k \in l + 1..l + d /\ k \in l + 1..SIZE /\ k - l \in 1..d
        BY <1>1, <2>2 DEF d
      <3>2. w[k] = z[k - l]
        BY <1>4, <1>5, <3>1 DEF l
      <3> QED BY <1>1, <1>3, <1>4, <3>1, <3>2
    <2> QED BY <2>1, <2>2
  <1>8. a = w
    BY <1>3, <1>5, <1>6, <1>7, SeqEqual
  <1> QED BY <1>8 DEF a, w, z, d, l


(* A piece that is a string, or a string and a zero.                         *)
LEMMA BufferShape ==
  ASSUME NEW p \in Seq(Nat), NEW u \in Seq(Nat), NEW t \in {<<>>, << 0 >>}, p = u \o t,
         \A k \in 1..Len(u) : u[k] # 0, Len(p) <= SIZE
  PROVE  /\ Shape(Reverse!Buffer(p), u)
         /\ Len(p) \in Nat /\ Len(u) \in Nat /\ Len(u) <= Len(p) /\ Len(p) <= Len(u) + 1
  <1> DEFINE b == Reverse!Buffer(p)
             n == Len(p)
             l == Len(u)
  <1>1. n \in Nat /\ l \in Nat /\ SIZE \in Nat
    BY LenProperties, ReverseConstants
  <1>2. b \in Seq(Nat) /\ Len(b) = SIZE /\ (\A k \in 1..n : b[k] = p[k])
        /\ \A k \in n + 1..SIZE : b[k] = 0
    BY BufferIs
  <1>3. /\ t \in Seq(Nat) /\ (Len(t) = 0 \/ Len(t) = 1) /\ \A k \in 1..Len(t) : t[k] = 0
    <2>1. CASE t = <<>>
      BY <2>1
    <2>2. CASE t = << 0 >>
      BY <2>2
    <2> QED BY <2>1, <2>2
  <1>4. /\ Len(u \o t) = Len(u) + Len(t)
        /\ \A k \in 1..Len(u) : (u \o t)[k] = u[k]
        /\ \A k \in Len(u) + 1..Len(u) + Len(t) : (u \o t)[k] = t[k - Len(u)]
    BY <1>3, JoinAt
  <1> DEFINE d == Len(t)
  <1>5. /\ n = l + d /\ (d = 0 \/ d = 1)
        /\ \A k \in 1..l : p[k] = u[k]
        /\ \A k \in l + 1..l + d : p[k] = t[k - l]
    BY <1>3, <1>4
  <1> HIDE DEF b, n, l, d
  <1>6. l <= n /\ n <= l + 1 /\ n <= SIZE
    BY <1>1, <1>5 DEF n
  <1>7. \A k \in 1..l : b[k] = u[k] /\ u[k] # 0
    <2>1. \A k \in 1..l : k \in 1..n
      BY <1>1, <1>6
    <2> QED BY <1>2, <1>5, <2>1 DEF l
  <1>8. \A k \in l + 1..SIZE : b[k] = 0
    <2> SUFFICES ASSUME NEW k \in l + 1..SIZE PROVE b[k] = 0
      OBVIOUS
    <2>1. CASE k <= n
      <3>1. k = l + 1 /\ d = 1 /\ k - l = 1 /\ k \in l + 1..l + d /\ k \in 1..n
        BY <1>1, <1>5, <1>6, <2>1
      <3>2. t[1] = 0
        BY <1>3, <3>1 DEF d
      <3> QED BY <1>2, <1>5, <3>1, <3>2
    <2>2. CASE ~(k <= n)
      <3>1. k \in n + 1..SIZE
        BY <1>1, <2>2
      <3> QED BY <1>2, <3>1
    <2> QED BY <2>1, <2>2
  <1> QED BY <1>1, <1>2, <1>6, <1>7, <1>8 DEF Shape, b, n, l

LEMMA SwappedShape ==
  ASSUME NEW b, NEW u, Shape(b, u), NEW n \in Nat, n <= SIZE, Len(u) <= n, n <= Len(u) + 1
  PROVE  LET s == Reverse!Sifted(u)
         IN  /\ Sieve(b) = s /\ s.kept \in Seq(Nat) /\ s.cr \in Nat /\ s.lf \in Nat
             /\ Len(s.kept) \in Nat /\ Len(s.kept) + s.cr + s.lf = Len(u)
             /\ Shape(Swapped(b, n), Reverse!Reverse(s.kept))
  <1> DEFINE h == Held(b)
             kept == Sieve(b).kept
             i == Len(kept)
             l == Len(u)
             r == Reverse!Reverse(kept)
             w == Swapped(b, n)
             m == Swappable(b, n)
  <1>1. /\ b \in Seq(Nat) /\ Len(b) = SIZE /\ u \in Seq(Nat) /\ l \in Nat
        /\ SIZE \in Nat
        /\ \A k \in 1..l : b[k] = u[k]
        /\ \A k \in l + 1..SIZE : b[k] = 0
    BY LenProperties, ReverseConstants DEF Shape
  <1>2. Reverse!StrLen(b) = l
    BY ShapeLen
  <1>3. /\ h \in Seq(Nat) /\ Len(h) = l /\ \A k \in 1..l : h[k] = b[k]
        /\ kept \in Seq(Nat) /\ Sieve(b).cr \in Nat /\ Sieve(b).lf \in Nat /\ i \in Nat
        /\ i + Sieve(b).cr + Sieve(b).lf = l
        /\ \A k \in 1..i : kept[k] # 0
    BY <1>1, <1>2, HeldIs
  <1>4. h = u
    <2>1. \A k \in 1..Len(h) : h[k] = u[k]
      BY <1>1, <1>3
    <2> HIDE DEF h
    <2> QED BY <1>1, <1>3, <2>1, SeqEqual
  <1>5. Sieve(b) = Reverse!Sifted(u)
    BY <1>4 DEF Sieve
  <1>6. /\ m \in Nat /\ m = i
        /\ w \in Seq(Nat) /\ Len(w) = SIZE
        /\ \A k \in 1..m : m + 1 - k <= i => w[k] = kept[m + 1 - k]
        /\ \A k \in m + 1..SIZE : k <= l => w[k] = 0
        /\ \A k \in m + 1..SIZE : k > l => w[k] = b[k]
    BY <1>1, <1>2, SwappedIs
  <1> DEFINE x == Sieve(b).cr
             y == Sieve(b).lf
  <1>7. i \in Nat /\ x \in Nat /\ y \in Nat /\ i + x + y = l
    BY <1>3
  <1>8. r \in Seq(Nat) /\ Len(r) = i /\ \A k \in 1..i : r[k] = kept[i + 1 - k]
    BY <1>3, MirrorIs
  <1> HIDE DEF h, kept, i, l, r, w, m, x, y
  <1>9. \A k \in 1..i : w[k] = r[k] /\ r[k] # 0
    <2> SUFFICES ASSUME NEW k \in 1..i PROVE w[k] = r[k] /\ r[k] # 0
      OBVIOUS
    <2>1. i + 1 - k \in 1..i /\ i + 1 - k <= i
      BY <1>7
    <2> QED BY <1>3, <1>6, <1>8, <2>1, ZenonT(40)
  <1>10. \A k \in i + 1..SIZE : w[k] = 0
    <2> SUFFICES ASSUME NEW k \in i + 1..SIZE PROVE w[k] = 0
      OBVIOUS
    <2>1. CASE k <= l
      BY <1>6, <2>1
    <2>2. CASE ~(k <= l)
      <3>1. k > l /\ k \in l + 1..SIZE
        BY <1>1, <1>7, <2>2
      <3> QED BY <1>1, <1>6, <3>1
    <2> QED BY <2>1, <2>2
  <1>11. i <= SIZE
    <2>1. i <= l /\ l <= SIZE
      <3>1. l <= SIZE
        BY DEF l, Shape
      <3> QED BY <1>7, <3>1
    <2> QED BY <1>1, <1>7, <2>1
  <1>12. Shape(w, r)
    BY <1>6, <1>8, <1>9, <1>10, <1>11 DEF Shape
  <1> QED BY <1>3, <1>5, <1>12 DEF r, w, kept, i, l

LEMMA PutEndNothing ==
  ASSUME NEW c
  PROVE  Reverse!PutEnd(<<>>, c) = <<>>
  <1> DEFINE z == <<>>
  <1>1. z \in Seq(Nat) /\ Len(z) = 0
    OBVIOUS
  <1> HIDE DEF z
  <1>2. Reverse!StrLen(z) = 0
    <2>1. Reverse!StrLen(z) \in 0..Len(z)
      BY <1>1, StrLenIs
    <2> QED BY <1>1, <2>1
  <1>3. ~(0 < Len(z)) /\ ~(0 + 1 < Len(z))
    BY <1>1
  <1>4. Reverse!PutEnd(z, c) = <<>>
    BY <1>2, <1>3 DEF Reverse!PutEnd
  <1> QED BY <1>4 DEF z

(* The controls that are put behind what was kept.                           *)
Ends(s) == (IF s.cr > 0 THEN <<13>> ELSE <<>>) \o (IF s.lf > 0 THEN <<10>> ELSE <<>>)

LEMMA EndsBehind ==
  ASSUME NEW r \in Seq(Nat), NEW s
  PROVE  LET x == IF s.cr > 0 THEN Append(r, 13) ELSE r
         IN  /\ Ends(s) \in Seq(Nat)
             /\ (IF s.lf > 0 THEN Append(x, 10) ELSE x) = r \o Ends(s)
  <1> DEFINE e == IF s.cr > 0 THEN <<13>> ELSE <<>>
             f == IF s.lf > 0 THEN <<10>> ELSE <<>>
             x == IF s.cr > 0 THEN Append(r, 13) ELSE r
             y == IF s.lf > 0 THEN Append(x, 10) ELSE x
  <1>1. e \in Seq(Nat) /\ f \in Seq(Nat)
    OBVIOUS
  <1>2. x = r \o e
    BY AppendIsConcat, ConcatEmptySeq
  <1>3. x \in Seq(Nat)
    BY AppendProperties
  <1>4. Ends(s) = e \o f
    BY DEF Ends
  <1> HIDE DEF x, e
  <1>7. y = x \o f
    BY <1>3, AppendIsConcat, ConcatEmptySeq
  <1> HIDE DEF f, y
  <1>5. (r \o e) \o f = r \o (e \o f)
    <2> DEFINE S == Nat
    <2>1. r \in Seq(S) /\ e \in Seq(S) /\ f \in Seq(S)
      BY <1>1
    <2> HIDE DEF S
    <2> QED BY <2>1, ConcatAssociative
  <1>6. e \o f \in Seq(Nat)
    BY <1>1, ConcatProperties
  <1> QED BY <1>2, <1>4, <1>5, <1>6, <1>7 DEF x, y

(* The answer to such a piece: the letters reversed, one of each kind of       *)
(* control there was, and zeros.                                               *)
LEMMA StringAnswered ==
  ASSUME NEW p \in Seq(Nat), NEW u \in Seq(Nat), NEW t \in {<<>>, << 0 >>}, p = u \o t,
         \A k \in 1..Len(u) : u[k] # 0, Len(p) <= SIZE,
         Reverse!StrLen(Reverse!Buffer(p)) # SIZE, Answer(p) # <<>>
  PROVE  LET s == Reverse!Sifted(u)
             said == Reverse!Reverse(s.kept) \o Ends(s)
         IN  /\ s.kept \in Seq(Nat) /\ Ends(s) \in Seq(Nat)
             /\ Len(said) = Len(s.kept) + Len(Ends(s))
             /\ SubSeq(Answer(p), 1, Len(p)) = said \o Reverse!Zeros(Len(p) - Len(said))
  <1> DEFINE b == Reverse!Buffer(p)
             n == Len(p)
             l == Len(u)
             s == Reverse!Sifted(u)
             cr == s.cr
             lf == s.lf
             i == Len(s.kept)
             r == Reverse!Reverse(s.kept)
             w == Swapped(b, n)
             v == IF cr > 0 THEN Reverse!PutEnd(w, 13) ELSE w
             x == IF cr > 0 THEN Append(r, 13) ELSE r
             y == IF lf > 0 THEN Append(x, 10) ELSE x
  <1>1. /\ Shape(b, u) /\ n \in Nat /\ l \in Nat /\ l <= n /\ n <= l + 1
        /\ SIZE \in Nat /\ n <= SIZE
    BY BufferShape, ReverseConstants
  <1>2. /\ Sieve(b) = s /\ s.kept \in Seq(Nat) /\ cr \in Nat /\ lf \in Nat
        /\ i \in Nat /\ i + cr + lf = l
        /\ Shape(w, r)
    BY <1>1, SwappedShape
  <1>3. l < SIZE
    <2>1. Reverse!StrLen(b) = l
      BY <1>1, ShapeLen
    <2> QED BY <1>1, <2>1
  <1>4. Answer(p) = IF lf > 0 THEN Reverse!PutEnd(v, 10) ELSE v
    BY <1>2, ReversedIs DEF Answer
  <1>5. r \in Seq(Nat) /\ Len(r) = i
    BY <1>2, MirrorIs
  <1> HIDE DEF b, n, l, cr, lf, i, r, w
  <1>6. x \in Seq(Nat) /\ Len(x) \in Nat /\ Len(x) <= i + cr
    <2>1. CASE cr > 0
      <3>1. Append(r, 13) \in Seq(Nat) /\ Len(Append(r, 13)) = i + 1
        BY <1>5, AppendProperties
      <3> QED BY <1>2, <2>1, <3>1
    <2>2. CASE ~(cr > 0)
      BY <1>2, <1>5, <2>2
    <2> QED BY <2>1, <2>2
  <1>7. v # <<>>
    BY <1>4, PutEndNothing
  <1>8. Shape(v, x)
    <2>1. CASE cr > 0
      <3> DEFINE c == 13
      <3>1. c \in Nat /\ c # 0
        OBVIOUS
      <3>2. Reverse!PutEnd(w, c) # <<>>
        BY <1>7, <2>1
      <3>3. Len(r) < SIZE
        BY <1>1, <1>2, <1>3, <1>5
      <3> HIDE DEF c
      <3>4. Shape(Reverse!PutEnd(w, c), Append(r, c))
        BY <1>2, <3>1, <3>2, <3>3, PutEndShape
      <3> QED BY <2>1, <3>4 DEF c
    <2>2. CASE ~(cr > 0)
      BY <1>2, <2>2
    <2> QED BY <2>1, <2>2
  <1> HIDE DEF v, x
  <1>9. Len(y) \in Nat /\ Len(y) <= l /\ Shape(Answer(p), y)
    <2>1. CASE lf > 0
      <3> DEFINE c == 10
      <3>1. c \in Nat /\ c # 0
        OBVIOUS
      <3>2. Reverse!PutEnd(v, c) # <<>> /\ Answer(p) = Reverse!PutEnd(v, c)
        BY <1>4, <2>1
      <3>3. Len(x) < SIZE /\ Len(x) + 1 <= l
        BY <1>1, <1>2, <1>3, <1>6, <2>1
      <3>4. y = Append(x, c)
        BY <2>1
      <3>5. Len(Append(x, 10)) = Len(x) + 1
        BY <1>6, AppendProperties
      <3>6. Len(y) \in Nat /\ Len(y) <= l
        BY <1>6, <3>3, <3>4, <3>5
      <3> HIDE DEF c, y
      <3>7. Shape(Reverse!PutEnd(v, c), Append(x, c))
        BY <1>8, <3>1, <3>2, <3>3, PutEndShape
      <3> QED BY <3>2, <3>4, <3>6, <3>7
    <2>2. CASE ~(lf > 0)
      <3>1. Answer(p) = v /\ y = x
        BY <1>4, <2>2
      <3> HIDE DEF y
      <3> QED BY <1>1, <1>2, <1>6, <1>8, <2>2, <3>1
    <2> QED BY <2>1, <2>2
  <1>10. y = r \o Ends(s) /\ Ends(s) \in Seq(Nat)
    BY <1>5, EndsBehind DEF x, cr, lf
  <1> HIDE DEF y
  <1>11. Len(r \o Ends(s)) = i + Len(Ends(s))
    BY <1>5, <1>10, ConcatProperties
  <1>12. SubSeq(Answer(p), 1, n) = y \o Reverse!Zeros(n - Len(y))
    <2>1. Len(y) <= n
      BY <1>1, <1>9
    <2> QED BY <1>1, <1>9, <2>1, ShapeCut
  <1> QED BY <1>2, <1>10, <1>11, <1>12 DEF n, r, i


LEMMA TwoControls == <<13>> \o <<10>> = <<13, 10>> /\ <<>> \o <<10>> = <<10>> /\ <<>> \o <<>> = <<>>
  <1>1. <<13>> \o <<10>> = <<13, 10>>
    <2> DEFINE x == <<13>>
               y == <<10>>
               z == <<13, 10>>
    <2>1. /\ x \in Seq(Nat) /\ Len(x) = 1 /\ x[1] = 13
          /\ y \in Seq(Nat) /\ Len(y) = 1 /\ y[1] = 10
      OBVIOUS
    <2>2. z \in Seq(Nat) /\ Len(z) = 2 /\ z[1] = 13 /\ z[2] = 10
      OBVIOUS
    <2> HIDE DEF x, y, z
    <2>3. /\ x \o y \in Seq(Nat) /\ Len(x \o y) = Len(x) + Len(y)
          /\ \A k \in 1..Len(x) : (x \o y)[k] = x[k]
          /\ \A k \in Len(x) + 1..Len(x) + Len(y) : (x \o y)[k] = y[k - Len(x)]
      BY <2>1, JoinAt, ZenonT(40)
    <2>4. Len(x \o y) = 2 /\ (x \o y)[1] = 13 /\ (x \o y)[2] = 10
      <3>1. 1 \in 1..1 /\ 2 \in 1 + 1..1 + 1 /\ 2 - 1 = 1 /\ 1 + 1 = 2
        OBVIOUS
      <3> QED BY <2>1, <2>3, <3>1
    <2>5. \A k \in 1..2 : (x \o y)[k] = z[k]
      <3>1. \A k \in 1..2 : k = 1 \/ k = 2
        OBVIOUS
      <3> QED BY <2>2, <2>4, <3>1
    <2>6. x \o y = z
      BY <2>2, <2>3, <2>4, <2>5, SeqEqual
    <2> QED BY <2>6 DEF x, y, z
  <1>2. <<>> \o <<10>> = <<10>> /\ <<>> \o <<>> = <<>>
    OBVIOUS
  <1> QED BY <1>1, <1>2

(* A line: letters, and what ends it; a zero may follow.                     *)
LineEnds == {<<>>, <<10>>, <<13, 10>>}
NoneOrZero == {<<>>, << 0 >>}
Tails == {<<>>, <<10>>, <<13, 10>>, <<13, 10, 0>>, <<10, 0>>, << 0 >>}

LEMMA LineSifted ==
  ASSUME NEW body \in Seq(Nat), NEW end \in LineEnds,
         \A k \in 1..Len(body) : body[k] \in Letters
  PROVE  LET u == body \o end
         IN  /\ u \in Seq(Nat) /\ end \in Seq(Nat)
             /\ \A k \in 1..Len(u) : u[k] # 0
             /\ Reverse!Sifted(u).kept = body /\ Ends(Reverse!Sifted(u)) = end
  <1> DEFINE u == body \o end
             one == Append(body, 13)
             lf == Append(body, 10)
             both == Append(one, 10)
  <1>1. Reverse!CR = 13 /\ Reverse!LF = 10
    BY ReverseConstants
  <1>2. \A k \in 1..Len(body) : body[k] # 0 /\ body[k] # Reverse!CR /\ body[k] # Reverse!LF
    BY ReverseConstants
  <1>3. Reverse!Sifted(body) = [kept |-> body, cr |-> 0, lf |-> 0]
    BY <1>2, LettersStay
  <1>4. end \in Seq(Nat) /\ \A k \in 1..Len(end) : end[k] # 0
    <2>1. CASE end = <<>>
      BY <2>1
    <2>2. CASE end = <<10>>
      BY <2>2
    <2>3. CASE end = <<13, 10>>
      <3>1. <<13, 10>> \in Seq(Nat) /\ Len(<<13, 10>>) = 2
        OBVIOUS
      <3>2. \A k \in 1..2 : <<13, 10>>[k] # 0
        OBVIOUS
      <3> QED BY <2>3, <3>1, <3>2
    <2> QED BY <2>1, <2>2, <2>3 DEF LineEnds
  <1>5. /\ u \in Seq(Nat) /\ Len(u) = Len(body) + Len(end)
        /\ \A k \in 1..Len(body) : u[k] = body[k]
        /\ \A k \in Len(body) + 1..Len(body) + Len(end) : u[k] = end[k - Len(body)]
    BY <1>4, JoinAt
  <1>6. \A k \in 1..Len(u) : u[k] # 0
    <2> DEFINE n == Len(body)
               m == Len(end)
    <2>1. n \in Nat /\ m \in Nat /\ Len(u) = n + m
      BY <1>4, <1>5, LenProperties
    <2> SUFFICES ASSUME NEW k \in 1..n + m PROVE u[k] # 0
      BY <2>1
    <2>2. CASE k <= n
      <3>1. k \in 1..n
        BY <2>2
      <3> HIDE DEF u
      <3> QED BY <1>2, <1>5, <3>1
    <2>3. CASE ~(k <= n)
      <3>1. k \in n + 1..n + m /\ k - n \in 1..m
        BY <2>1, <2>3
      <3> HIDE DEF u
      <3> QED BY <1>4, <1>5, <3>1
    <2> QED BY <2>2, <2>3
  <1>7. /\ one \in Seq(Nat) /\ lf \in Seq(Nat)
        /\ lf = body \o <<10>> /\ one = body \o <<13>> /\ both = one \o <<10>>
    <2>1. \A x \in Seq(Nat), e \in Nat : Append(x, e) \in Seq(Nat) /\ Append(x, e) = x \o <<e>>
      BY AppendProperties, AppendIsConcat
    <2>2. 10 \in Nat /\ 13 \in Nat
      OBVIOUS
    <2>3. one \in Seq(Nat) /\ one = body \o <<13>>
      BY <2>1, <2>2
    <2>4. lf \in Seq(Nat) /\ lf = body \o <<10>>
      BY <2>1, <2>2
    <2> HIDE DEF one, lf
    <2>5. both = one \o <<10>>
      BY <2>1, <2>2, <2>3
    <2> QED BY <2>3, <2>4, <2>5
  <1>8. Reverse!Sifted(one) = [kept |-> body, cr |-> 1, lf |-> 0]
    <2> DEFINE e == 13
    <2>1. e \in Nat /\ e = Reverse!CR /\ e # Reverse!LF
      BY <1>1
    <2> HIDE DEF e
    <2>2. Reverse!Sifted(Append(body, e)) = With(Reverse!Sifted(body), e)
      BY <2>1, SiftedAppend
    <2>3. With(Reverse!Sifted(body), e) = [Reverse!Sifted(body) EXCEPT !.cr = @ + 1]
      BY <2>1 DEF With
    <2>4. [Reverse!Sifted(body) EXCEPT !.cr = @ + 1] = [kept |-> body, cr |-> 1, lf |-> 0]
      BY <1>3
    <2> QED BY <2>2, <2>3, <2>4 DEF e
  <1>9. /\ Reverse!Sifted(lf) = [kept |-> body, cr |-> 0, lf |-> 1]
        /\ Reverse!Sifted(both) = [kept |-> body, cr |-> 1, lf |-> 1]
    <2> DEFINE e == 10
    <2>1. e \in Nat /\ e = Reverse!LF /\ e # Reverse!CR
      BY <1>1
    <2> HIDE DEF e, one
    <2>2. /\ Reverse!Sifted(Append(body, e)) = With(Reverse!Sifted(body), e)
          /\ Reverse!Sifted(Append(one, e)) = With(Reverse!Sifted(one), e)
      BY <1>7, <2>1, SiftedAppend
    <2>3. /\ With(Reverse!Sifted(body), e) = [kept |-> body, cr |-> 0, lf |-> 1]
          /\ With(Reverse!Sifted(one), e) = [kept |-> body, cr |-> 1, lf |-> 1]
      BY <1>3, <1>8, <2>1 DEF With
    <2> QED BY <2>2, <2>3 DEF e
  <1>10. Reverse!Sifted(u).kept = body /\ Ends(Reverse!Sifted(u)) = end
    <2> DEFINE s == Reverse!Sifted(u)
    <2>1. CASE end = <<>>
      <3>1. u = body
        BY <2>1, ConcatEmptySeq
      <3> HIDE DEF u
      <3>2. s = [kept |-> body, cr |-> 0, lf |-> 0]
        BY <1>3, <3>1
      <3> HIDE DEF s
      <3>3. s.kept = body /\ ~(s.cr > 0) /\ ~(s.lf > 0)
        BY <3>2
      <3>4. Ends(s) = <<>> \o <<>>
        BY <3>3 DEF Ends
      <3> QED BY <2>1, <3>3, <3>4, TwoControls DEF s
    <2>2. CASE end = <<10>>
      <3>1. u = lf
        BY <1>7, <2>2
      <3> HIDE DEF u, lf
      <3>2. s = [kept |-> body, cr |-> 0, lf |-> 1]
        BY <1>9, <3>1
      <3> HIDE DEF s
      <3>3. s.kept = body /\ ~(s.cr > 0) /\ s.lf > 0
        BY <3>2
      <3>4. Ends(s) = <<>> \o <<10>>
        BY <3>3 DEF Ends
      <3> QED BY <2>2, <3>3, <3>4, TwoControls DEF s
    <2>3. CASE end = <<13, 10>>
      <3>1. u = both
        <4> DEFINE x == <<13>>
                   y == <<10>>
                   S == Nat
        <4>1. x \in Seq(S) /\ y \in Seq(S) /\ body \in Seq(S)
          OBVIOUS
        <4>2. both = (body \o x) \o y
          BY <1>7
        <4>3. u = body \o (x \o y)
          BY <2>3, TwoControls
        <4> HIDE DEF x, y, S, u, both
        <4>4. (body \o x) \o y = body \o (x \o y)
          BY <4>1, ConcatAssociative
        <4> QED BY <4>2, <4>3, <4>4
      <3> HIDE DEF u, both
      <3>2. s = [kept |-> body, cr |-> 1, lf |-> 1]
        BY <1>9, <3>1
      <3> HIDE DEF s
      <3>3. s.kept = body /\ s.cr > 0 /\ s.lf > 0
        BY <3>2
      <3>4. Ends(s) = <<13>> \o <<10>>
        BY <3>3 DEF Ends
      <3> QED BY <2>3, <3>3, <3>4, TwoControls DEF s
    <2> QED BY <2>1, <2>2, <2>3 DEF LineEnds
  <1> QED BY <1>4, <1>5, <1>6, <1>10

LEMMA FewZeros ==
  ASSUME NEW t \in NoneOrZero, Len(t) <= SIZE
  PROVE  t \in Seq(Nat) /\ Len(t) \in Nat /\ Reverse!Zeros(Len(t)) = t
  <1> DEFINE n == Len(t)
             z == Reverse!Zeros(n)
  <1>1. t \in Seq(Nat) /\ n \in Nat /\ \A k \in 1..n : t[k] = 0
    <2>1. CASE t = <<>>
      BY <2>1
    <2>2. CASE t = << 0 >>
      BY <2>2
    <2> QED BY <2>1, <2>2 DEF NoneOrZero
  <1>2. z \in Seq(Nat) /\ Len(z) = n /\ \A k \in 1..n : z[k] = 0
    <2>1. n <= SIZE
      OBVIOUS
    <2> HIDE DEF n
    <2> QED BY <1>1, <2>1, ZerosAre
  <1> HIDE DEF z
  <1>3. \A k \in 1..Len(z) : z[k] = t[k]
    BY <1>1, <1>2
  <1>4. z = t
    BY <1>1, <1>2, <1>3, SeqEqual
  <1> QED BY <1>1, <1>4 DEF z

LEMMA Regrouped == \A x, y, z \in Seq(Nat) : x \o (y \o z) = (x \o y) \o z
  <1> DEFINE S == Nat
  <1> HIDE DEF S
  <1>1. \A x, y, z \in Seq(S) : x \o (y \o z) = (x \o y) \o z
    BY ConcatAssociative, SMTT(30)
  <1> QED BY <1>1 DEF S

(* A line, with a zero behind it or without, is answered with its letters     *)
(* reversed and what ended it.                                                 *)
LEMMA LineAnswered ==
  ASSUME NEW p \in Seq(Nat), NEW body \in Seq(Nat),
         NEW end \in LineEnds, NEW t \in NoneOrZero,
         p = body \o (end \o t), \A k \in 1..Len(body) : body[k] \in Letters,
         Len(p) <= SIZE, Reverse!StrLen(Reverse!Buffer(p)) # SIZE, Answer(p) # <<>>
  PROVE  SubSeq(Answer(p), 1, Len(p)) = Reverse!Reverse(body) \o (end \o t)
  <1> DEFINE u == body \o end
             r == Reverse!Reverse(body)
             said == r \o end
  <1>1. /\ u \in Seq(Nat) /\ end \in Seq(Nat) /\ \A k \in 1..Len(u) : u[k] # 0
        /\ Reverse!Sifted(u).kept = body /\ Ends(Reverse!Sifted(u)) = end
    BY LineSifted
  <1>2. t \in Seq(Nat) /\ Len(t) \in Nat
    <2>1. CASE t = <<>>
      BY <2>1
    <2>2. CASE t = << 0 >>
      BY <2>2
    <2> QED BY <2>1, <2>2 DEF NoneOrZero
  <1>3. r \in Seq(Nat) /\ Len(r) = Len(body)
    BY MirrorIs
  <1>4. body \in Seq(Nat) /\ end \in Seq(Nat) /\ t \in Seq(Nat) /\ r \in Seq(Nat)
    BY <1>1, <1>2, <1>3
  <1> HIDE DEF u, r
  <1>5. body \o (end \o t) = (body \o end) \o t /\ r \o (end \o t) = (r \o end) \o t
    <2>1. body \o (end \o t) = (body \o end) \o t
      BY <1>4, Regrouped, SMTT(30)
    <2>2. r \o (end \o t) = (r \o end) \o t
      BY <1>4, Regrouped, SMTT(30)
    <2> QED BY <2>1, <2>2, Zenon
  <1>6. p = u \o t
    BY <1>5 DEF u
  <1>7. SubSeq(Answer(p), 1, Len(p)) = said \o Reverse!Zeros(Len(p) - Len(said))
    BY <1>1, <1>6, StringAnswered DEF r, NoneOrZero
  <1>8. Len(p) = Len(u) + Len(t) /\ Len(u) = Len(body) + Len(end)
    <2>1. Len(u \o t) = Len(u) + Len(t)
      BY <1>1, <1>2, ConcatProperties
    <2>2. Len(body \o end) = Len(body) + Len(end)
      BY <1>1, ConcatProperties
    <2> QED BY <1>6, <2>1, <2>2 DEF u
  <1>9. Len(said) = Len(u) /\ Len(u) \in Nat
    <2>1. Len(r \o end) = Len(r) + Len(end)
      BY <1>4, ConcatProperties
    <2> QED BY <1>1, <1>3, <1>8, <2>1, LenProperties
  <1>10. Len(p) - Len(said) = Len(t) /\ Len(t) <= SIZE
    <2> DEFINE a == Len(p)
               b == Len(u)
               c == Len(t)
    <2>1. a = b + c /\ b \in Nat /\ c \in Nat /\ a <= SIZE /\ SIZE \in Nat
      BY <1>2, <1>8, <1>9, ReverseConstants
    <2> HIDE DEF a, b, c
    <2>2. a - b = c /\ c <= SIZE
      BY <2>1
    <2> QED BY <1>9, <2>2 DEF a, b, c
  <1>11. Reverse!Zeros(Len(t)) = t
    BY <1>10, FewZeros
  <1>12. SubSeq(Answer(p), 1, Len(p)) = (r \o end) \o t
    BY <1>7, <1>10, <1>11
  <1> QED BY <1>5, <1>12 DEF r


(* Before the first piece the reply is the answer to no bytes.               *)
LEMMA NothingAnswered ==
  /\ Reverse!StrLen(Reverse!Buffer(<<>>)) # SIZE /\ Answer(<<>>) # <<>>
  /\ SubSeq(Answer(<<>>), 1, Len(<<>>)) = <<>>
  <1> DEFINE p == <<>>
             t == <<>>
             b == Reverse!Buffer(p)
             n == 0
             w == Swapped(b, n)
  <1>1. /\ p \in Seq(Nat) /\ t \in {<<>>, << 0 >>} /\ p = p \o t /\ Len(p) = n
        /\ (\A k \in 1..Len(p) : p[k] # 0) /\ n \in Nat
    OBVIOUS
  <1>2. SIZE \in Nat /\ SIZE > 0 /\ n <= SIZE /\ SIZE # 0
    BY ReverseConstants
  <1> HIDE DEF p, t, n
  <1>3. Shape(b, p)
    BY <1>1, <1>2, BufferShape
  <1>4. Reverse!StrLen(b) = n
    BY <1>1, <1>3, ShapeLen
  <1>5. /\ Sieve(b).cr \in Nat /\ Sieve(b).lf \in Nat
        /\ Len(Reverse!Sifted(p).kept) \in Nat
        /\ Len(Reverse!Sifted(p).kept) + Sieve(b).cr + Sieve(b).lf = n
        /\ Shape(w, Reverse!Reverse(Reverse!Sifted(p).kept))
    <2>1. Len(p) <= n /\ n <= Len(p) + 1
      BY <1>1
    <2> QED BY <1>1, <1>2, <1>3, <2>1, SwappedShape
  <1>6. ~(Sieve(b).cr > 0) /\ ~(Sieve(b).lf > 0)
    <2> DEFINE x == Sieve(b).cr
               y == Sieve(b).lf
               i == Len(Reverse!Sifted(p).kept)
    <2>1. x \in Nat /\ y \in Nat /\ i \in Nat /\ i + x + y = 0
      BY <1>5 DEF n
    <2> HIDE DEF x, y, i
    <2>2. ~(x > 0) /\ ~(y > 0)
      BY <2>1
    <2> QED BY <2>2 DEF x, y
  <1>7. Answer(p) = w
    BY <1>1, <1>6, ReversedIs DEF Answer
  <1> HIDE DEF w
  <1>8. w \in Seq(Nat) /\ Len(w) = SIZE
    BY <1>5 DEF Shape
  <1>9. w # <<>>
    BY <1>2, <1>8
  <1>10. SubSeq(w, 1, 0) = <<>>
    BY <1>8, SubSeqEmpty
  <1>11. Reverse!StrLen(b) # SIZE /\ Answer(p) # <<>> /\ SubSeq(Answer(p), 1, Len(p)) = <<>>
    <2>1. n # SIZE
      BY <1>2 DEF n
    <2>2. Len(p) = 0
      BY <1>1 DEF n
    <2> QED BY <1>4, <1>7, <1>9, <1>10, <2>1, <2>2
  <1> QED BY <1>11 DEF p

LEMMA LastAnswer ==
  ASSUME ReverseInv, state = "running"
  PROVE  /\ piece \in Seq(Nat) /\ Len(piece) <= SIZE /\ Len(piece) \in Nat
         /\ Reverse!StrLen(Reverse!Buffer(piece)) # SIZE /\ Answer(piece) # <<>>
         /\ reply = SubSeq(Answer(piece), 1, Len(piece))
  <1>1. piece \in Seq(Nat) /\ Len(piece) <= SIZE /\ Len(piece) \in Nat
    BY LenProperties DEF ReverseInv, ReverseTypes
  <1>2. CASE piece = <<>> /\ reply = <<>>
    BY <1>1, <1>2, NothingAnswered
  <1>3. CASE ~(piece = <<>> /\ reply = <<>>)
    BY <1>1, <1>3 DEF ReverseInv, Answered
  <1> QED BY <1>2, <1>3

LEMMA ZeroBehind ==
  ASSUME NEW x \in Seq(Nat), NEW z \in Seq(Nat), Len(z) = Len(x) + 1,
         \A k \in 1..Len(x) : z[k] = x[k], z[Len(x) + 1] = 0
  PROVE  x \o << 0 >> = z
  <1> DEFINE y == Append(x, 0)
  <1>1. /\ y \in Seq(Nat) /\ Len(y) = Len(x) + 1 /\ y[Len(x) + 1] = 0
        /\ \A k \in 1..Len(x) : y[k] = x[k]
    BY AppendProperties
  <1>2. y = x \o << 0 >>
    BY AppendIsConcat
  <1> HIDE DEF y
  <1>3. \A k \in 1..Len(y) : y[k] = z[k]
    <2>1. Len(x) \in Nat
      BY LenProperties
    <2> DEFINE n == Len(x)
               m == Len(y)
    <2>3. n \in Nat /\ m = n + 1
      BY <1>1, <2>1
    <2> HIDE DEF n, m
    <2>4. 1..m = 1..n \cup {n + 1}
      BY <2>3
    <2>2. 1..Len(y) = 1..Len(x) \cup {Len(x) + 1}
      BY <2>4 DEF n, m
    <2> QED BY <1>1, <2>2
  <1>4. y = z
    BY <1>1, <1>3, SeqEqual
  <1> QED BY <1>2, <1>4

(* The six ends of a line are three with a zero behind them or without.      *)
LEMMA TailIs ==
  ASSUME NEW tail \in Tails
  PROVE  \E end \in LineEnds : \E t \in NoneOrZero : tail = end \o t
  <1> DEFINE ends == {<<>>, <<10>>, <<13, 10>>}
  <1>1. \A x \in ends : x \o <<>> = x
    <2>1. \A x \in ends : x \in Seq(Nat)
      <3>1. <<>> \in Seq(Nat) /\ <<10>> \in Seq(Nat) /\ <<13, 10>> \in Seq(Nat)
        OBVIOUS
      <3> QED BY <3>1, Zenon
    <2> HIDE DEF ends
    <2> QED BY <2>1, ConcatEmptySeq
  <1>2. /\ <<>> \o << 0 >> = << 0 >> /\ <<10>> \o << 0 >> = <<10, 0>>
        /\ <<13, 10>> \o << 0 >> = <<13, 10, 0>>
    <2>1. <<>> \o << 0 >> = << 0 >>
      OBVIOUS
    <2>2. <<10>> \o << 0 >> = <<10, 0>>
      <3> DEFINE x == <<10>>
                 z == <<10, 0>>
      <3>1. x \in Seq(Nat) /\ z \in Seq(Nat) /\ Len(x) = 1 /\ Len(z) = 2
        OBVIOUS
      <3>2. x[1] = 10 /\ z[1] = 10 /\ z[2] = 0
        OBVIOUS
      <3> HIDE DEF x, z
      <3>3. Len(z) = Len(x) + 1 /\ (\A k \in 1..Len(x) : z[k] = x[k]) /\ z[Len(x) + 1] = 0
        BY <3>1, <3>2
      <3>4. x \o << 0 >> = z
        BY <3>1, <3>3, ZeroBehind
      <3> QED BY <3>4 DEF x, z
    <2>3. <<13, 10>> \o << 0 >> = <<13, 10, 0>>
      <3> DEFINE x == <<13, 10>>
                 z == <<13, 10, 0>>
      <3>1. x \in Seq(Nat) /\ z \in Seq(Nat) /\ Len(x) = 2 /\ Len(z) = 3
        OBVIOUS
      <3>2. x[1] = 13 /\ x[2] = 10 /\ z[1] = 13 /\ z[2] = 10 /\ z[3] = 0
        OBVIOUS
      <3> HIDE DEF x, z
      <3>3. Len(z) = Len(x) + 1 /\ (\A k \in 1..Len(x) : z[k] = x[k]) /\ z[Len(x) + 1] = 0
        <4>1. \A k \in 1..2 : k = 1 \/ k = 2
          OBVIOUS
        <4> QED BY <3>1, <3>2, <4>1
      <3>4. x \o << 0 >> = z
        BY <3>1, <3>3, ZeroBehind
      <3> QED BY <3>4 DEF x, z
    <2> QED BY <2>1, <2>2, <2>3
  <1>3. CASE tail \in ends
    BY <1>1, <1>3 DEF LineEnds, NoneOrZero
  <1>4. CASE tail = << 0 >>
    BY <1>2, <1>4 DEF LineEnds, NoneOrZero
  <1>5. CASE tail = <<10, 0>>
    BY <1>2, <1>5 DEF LineEnds, NoneOrZero
  <1>6. CASE tail = <<13, 10, 0>>
    BY <1>2, <1>6 DEF LineEnds, NoneOrZero
  <1> QED BY <1>3, <1>4, <1>5, <1>6 DEF Tails

LEMMA LinesReversed ==
  ASSUME ReverseInv, state = "running",
         NEW tail \in Tails,
         NEW n, n = Len(piece) - Len(tail), n >= 0,
         NEW body, body = SubSeq(piece, 1, n),
         piece = body \o tail, \A k \in 1..n : body[k] \in Letters
  PROVE  reply = Reverse!Reverse(body) \o tail
  <1>1. /\ piece \in Seq(Nat) /\ Len(piece) <= SIZE /\ Len(piece) \in Nat
        /\ Reverse!StrLen(Reverse!Buffer(piece)) # SIZE /\ Answer(piece) # <<>>
        /\ reply = SubSeq(Answer(piece), 1, Len(piece))
    BY LastAnswer
  <1>2. Len(tail) \in Nat
    BY LenProperties
  <1>3. n \in Nat /\ n <= Len(piece)
    BY <1>1, <1>2
  <1>4. body \in Seq(Nat) /\ Len(body) = n
    BY <1>1, <1>3, CutInTwo
  <1>5. PICK end \in LineEnds : \E t \in NoneOrZero : tail = end \o t
    BY TailIs
  <1>6. PICK t \in NoneOrZero : tail = end \o t
    BY <1>5
  <1>7. piece = body \o (end \o t) /\ \A k \in 1..Len(body) : body[k] \in Letters
    BY <1>4, <1>6
  <1>8. SubSeq(Answer(piece), 1, Len(piece)) = Reverse!Reverse(body) \o (end \o t)
    BY <1>1, <1>4, <1>7, LineAnswered, Zenon
  <1> QED BY <1>1, <1>6, <1>8

LEMMA StringsReversed ==
  ASSUME ReverseInv, state = "running", \A k \in 1..Len(piece) : piece[k] # 0
  PROVE  LET s == Reverse!Sifted(piece)
         IN  /\ reply = (Reverse!Reverse(s.kept) \o Ends(s))
                          \o Reverse!Zeros(Len(piece) - Len(s.kept) - Len(Ends(s)))
             /\ s.cr > 0 <=> \E k \in 1..Len(piece) : piece[k] = Reverse!CR
             /\ s.lf > 0 <=> \E k \in 1..Len(piece) : piece[k] = Reverse!LF
  <1> DEFINE s == Reverse!Sifted(piece)
             said == Reverse!Reverse(s.kept) \o Ends(s)
             t == <<>>
  <1>1. /\ piece \in Seq(Nat) /\ Len(piece) <= SIZE /\ Len(piece) \in Nat
        /\ Reverse!StrLen(Reverse!Buffer(piece)) # SIZE /\ Answer(piece) # <<>>
        /\ reply = SubSeq(Answer(piece), 1, Len(piece))
    BY LastAnswer
  <1>2. t \in {<<>>, << 0 >>} /\ piece = piece \o t
    BY <1>1, ConcatEmptySeq
  <1> HIDE DEF t
  <1>3. /\ s.kept \in Seq(Nat) /\ Ends(s) \in Seq(Nat)
        /\ Len(said) = Len(s.kept) + Len(Ends(s))
        /\ SubSeq(Answer(piece), 1, Len(piece)) = said \o Reverse!Zeros(Len(piece) - Len(said))
    BY <1>1, <1>2, StringAnswered
  <1>4. /\ s.cr \in Nat /\ s.lf \in Nat
        /\ s.cr = 0 <=> \A k \in 1..Len(piece) : piece[k] # Reverse!CR
        /\ s.lf = 0 <=> \A k \in 1..Len(piece) : piece[k] # Reverse!LF
    BY <1>1, SievedAll DEF Sieved
  <1>5. Len(piece) - Len(said) = Len(piece) - Len(s.kept) - Len(Ends(s))
    <2> DEFINE a == Len(piece)
               b == Len(s.kept)
               c == Len(Ends(s))
    <2>1. a \in Nat /\ b \in Nat /\ c \in Nat /\ Len(said) = b + c
      BY <1>1, <1>3, LenProperties
    <2> HIDE DEF a, b, c, said
    <2>2. a - (b + c) = a - b - c
      BY <2>1
    <2> QED BY <2>1, <2>2 DEF a, b, c
  <1> DEFINE cr == s.cr
             lf == s.lf
  <1>6. cr \in Nat /\ lf \in Nat
    BY <1>4
  <1> HIDE DEF s, said
  <1>7. (cr > 0 <=> ~(cr = 0)) /\ (lf > 0 <=> ~(lf = 0))
    <2> HIDE DEF cr, lf
    <2> QED BY <1>6
  <1>8. /\ s.cr > 0 <=> \E k \in 1..Len(piece) : piece[k] = Reverse!CR
        /\ s.lf > 0 <=> \E k \in 1..Len(piece) : piece[k] = Reverse!LF
    BY <1>4, <1>7
  <1>9. reply = said \o Reverse!Zeros(Len(piece) - Len(s.kept) - Len(Ends(s)))
    <2>1. reply = said \o Reverse!Zeros(Len(piece) - Len(said))
      BY <1>1, <1>3
    <2> QED BY <1>5, <2>1
  <1> QED BY <1>8, <1>9 DEF s, said

(* For every buffer size and every piece read_cb has answered: a line comes    *)
(* back with its letters reversed and with what ended it, a zero behind it as   *)
(* well; of controls anywhere in a piece without zeros one of each kind comes    *)
(* back, behind the letters, and zeros make up the length.                        *)
THEOREM LinesComeBackReversed == Spec => []EchoIsReversed
  <1>1. ReverseInv => EchoIsReversed
    <2> SUFFICES ASSUME ReverseInv, state = "running" PROVE Reverse!EchoIsReversed
      BY DEF EchoIsReversed, Reverse!EchoIsReversed
    <2>1. Reverse!CR = 13 /\ Reverse!LF = 10 /\ Reverse!NUL = 0
      BY ReverseConstants
    <2> DEFINE tails == {<<>>, <<Reverse!LF>>, <<Reverse!CR, Reverse!LF>>,
                         <<Reverse!CR, Reverse!LF, Reverse!NUL>>,
                         <<Reverse!LF, Reverse!NUL>>, <<Reverse!NUL>>}
               Said(tail) ==
                 LET n == Len(piece) - Len(tail)
                     body == SubSeq(piece, 1, n)
                 IN  (n >= 0 /\ piece = body \o tail /\ \A k \in 1..n : body[k] \in Letters)
                       => reply = Reverse!Reverse(body) \o tail
               ends == (IF Reverse!CR \in Reverse!Range(piece) THEN <<Reverse!CR>> ELSE <<>>)
                         \o (IF Reverse!LF \in Reverse!Range(piece) THEN <<Reverse!LF>> ELSE <<>>)
               kept == Reverse!Sifted(piece).kept
    <2>2. ASSUME NEW tail \in tails PROVE Said(tail)
      <3> DEFINE n == Len(piece) - Len(tail)
                 body == SubSeq(piece, 1, n)
      <3>1. tail \in Tails
        BY <2>1 DEF Tails
      <3> SUFFICES ASSUME n >= 0, piece = body \o tail, \A k \in 1..n : body[k] \in Letters
                   PROVE  reply = Reverse!Reverse(body) \o tail
        OBVIOUS
      <3> QED BY <3>1, LinesReversed
    <2>3. ASSUME Reverse!NUL \notin Reverse!Range(piece)
          PROVE  reply = Reverse!Reverse(kept) \o ends
                           \o Reverse!Zeros(Len(piece) - Len(kept) - Len(ends))
      <3> DEFINE s == Reverse!Sifted(piece)
      <3>1. piece \in Seq(Nat)
        BY DEF ReverseInv, ReverseTypes
      <3>2. \A c : c \in Reverse!Range(piece) <=> \E k \in 1..Len(piece) : piece[k] = c
        <4>1. DOMAIN piece = 1..Len(piece)
          BY <3>1
        <4> QED BY <4>1 DEF Reverse!Range
      <3>3. \A k \in 1..Len(piece) : piece[k] # 0
        BY <2>1, <2>3, <3>2
      <3>4. /\ reply = (Reverse!Reverse(s.kept) \o Ends(s))
                         \o Reverse!Zeros(Len(piece) - Len(s.kept) - Len(Ends(s)))
            /\ s.cr > 0 <=> \E k \in 1..Len(piece) : piece[k] = Reverse!CR
            /\ s.lf > 0 <=> \E k \in 1..Len(piece) : piece[k] = Reverse!LF
        BY <3>3, StringsReversed
      <3>5. ends = Ends(s)
        <4>1. /\ Reverse!CR \in Reverse!Range(piece) <=> s.cr > 0
              /\ Reverse!LF \in Reverse!Range(piece) <=> s.lf > 0
          BY <3>2, <3>4
        <4> QED BY <2>1, <4>1 DEF Ends
      <3> QED BY <3>4, <3>5
    <2>4. (\A tail \in tails : Said(tail)) /\
            (Reverse!NUL \notin Reverse!Range(piece)
               => reply = Reverse!Reverse(kept) \o ends
                            \o Reverse!Zeros(Len(piece) - Len(kept) - Len(ends)))
      BY <2>2, <2>3
    <2> QED BY <2>4 DEF Reverse!EchoIsReversed
  <1>2. Init => ReverseInv
    BY ReverseInvInit DEF Init
  <1>3. ReverseInv /\ [Next]_vars => ReverseInv'
    BY OnlyOneRuns, ReverseNext
  <1> QED BY <1>1, <1>2, <1>3, PTL DEF Spec

=============================================================================
