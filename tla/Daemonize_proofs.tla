-------------------------- MODULE Daemonize_proofs --------------------------
(* Proofs about Daemonize, for every size of the descriptor table that has    *)
(* room for the server, every way to start it and any number of SIGHUPs.       *)
EXTENDS Daemonize, SequenceTheorems, FiniteSetTheorems, WellFoundedInduction, TLAPS

Kinds == {"tty", "free", "log", "null"} \cup Server
Logging == {"log1", "log2", "log3"}
Dups == {"dup0", "dup1", "dup2", "closenull"}
(* Up to event_init the process has no descriptor of the server. *)
Before == {"options", "log1", "fork1", "signal", "fork2", "close", "null", "log2", "event_init"} \cup Dups
After == {"listen1", "listen2", "serve", "log3"}

TypeOK ==
  /\ logger \in BOOLEAN /\ pc \in Before \cup After /\ i \in 0..MAXFD
  /\ fds \in [Numbers -> Kinds] /\ logfd \in Numbers \cup {-1}
  /\ lock \in {"none", "main", "hup", "term"} /\ stack \in Seq({"hup", "term"})
  /\ hups \in Nat /\ nulled \in BOOLEAN /\ trespass \in BOOLEAN

(* The strengthening of StuckNeedsHangup: without a SIGHUP nothing but main   *)
(* and SIGTERM's handler can hold the lock, and main does so only outside of    *)
(* event_dispatch.                                                              *)
Hangup ==
  /\ lock = "main" => pc \in Logging
  /\ term = "serving" => pc = "serve"
  /\ hups = 0 => stack \in {<<>>, <<"term">>} /\ lock # "hup"
  /\ StuckNeedsHangup

(* The strengthening of LogKeepsToItself: while syslog may have lost its       *)
(* connection there is no descriptor of the server, and it finds the loss in     *)
(* main's second call, before there is one.                                      *)
Settled == \/ logfd = -1 /\ ~logger
           \/ logfd # -1 /\ fds[logfd] = "log"
Finding ==
  /\ pc \in Before => \A n \in Numbers : fds[n] \notin Server
  /\ pc \in {"event_init"} \cup After => Settled
  /\ pc = "log2" /\ lock = "main" => Settled
  /\ logfd # -1 => logger

(* A descriptor can always be opened: there is a bound on the numbers in use.  *)
FreeFrom(k) == \A n \in k..MAXFD-1 : fds[n] = "free"
Room ==
  /\ pc \in Before => FreeFrom(4) /\ (fds[3] # "free" => fds[3] = "log" /\ logfd = 3)
  /\ pc = "listen1" => FreeFrom(7)
  /\ pc = "listen2" => FreeFrom(8)
  /\ pc = "serve" => \A n \in 9..MAXFD-1 : fds[n] \in {"free", "client"}

(* The strengthening of SocketsAboveStdio: what 0, 1 and 2 are while daemonize *)
(* closes them, opens /dev/null and copies it, with syslog's handlers taking     *)
(* the lowest number whenever they find that theirs is gone.                     *)
Stdio == 0..2
Taken(n) == fds[n] # "free"
LogMayHaveZero == fds[0] # "free" => fds[0] = "log" /\ logfd = 0
TerminalLeft ==
  pc \in {"options", "log1", "fork1", "signal", "fork2"} =>
    (\A n \in Stdio : Taken(n)) /\ logfd \notin Stdio
Closing ==
  pc = "close" =>
    /\ \A n \in Stdio : n >= i => Taken(n)
    /\ logfd \notin {1, 2} /\ (logfd = 0 => fds[0] = "log" /\ i > 0)
    /\ i > 0 => LogMayHaveZero
    /\ \A n \in {1, 2} : n < i => ~Taken(n)
Closed ==
  pc = "null" =>
    /\ logfd \notin {1, 2} /\ (logfd = 0 => fds[0] = "log")
    /\ LogMayHaveZero /\ ~Taken(1)
Copying ==
  /\ pc \in Dups => i \in {0, 1} /\ fds[i] = "null" /\ logfd # i
  /\ pc = "dup1" => Taken(0)
  /\ pc = "dup2" => Taken(0) /\ Taken(1)
  /\ pc = "closenull" => \A n \in Stdio : Taken(n)
OneMissing ==
  pc \in {"log2", "event_init"} /\ nulled =>
    \E z \in Stdio : \A n \in Stdio \ {z} : Taken(n)
Serving ==
  pc \in After /\ nulled => \A n \in Stdio : fds[n] \notin {"free", "listen", "client"}
LowNumbers == TerminalLeft /\ Closing /\ Closed /\ Copying /\ OneMissing /\ Serving

Inv == TypeOK /\ Hangup /\ Finding /\ Room /\ LowNumbers /\ LogKeepsToItself
-----------------------------------------------------------------------------

LEMMA Constants ==
  /\ MAXFD \in Nat /\ MAXFD >= 9 /\ MaxClients \in Nat /\ MAXFD >= 9 + MaxClients
  /\ Stdio \subseteq Numbers /\ 0..8 \subseteq Numbers
  /\ \A n \in Numbers : n \in Nat /\ n < MAXFD
  BY DaemonizeAssumption DEF Numbers, Stdio

LEMMA LeastExists ==
  ASSUME NEW T \in SUBSET Nat, T # {}
  PROVE  \E m \in T : \A k \in T : m <= k
  <1>1. PICK m \in T : \A k \in T : ~(<<k, m>> \in OpToRel(<, Nat))
    BY WFMin, NatLessThanWellFounded
  <1>2. \A k \in T : ~ (k < m)
    BY <1>1 DEF OpToRel
  <1> QED BY <1>2

(* What the descriptor table gives: the lowest free number, when one is free.  *)
LEMMA LowestIsLeast ==
  ASSUME NEW t, NEW k \in Numbers, t[k] = "free"
  PROVE  /\ Lowest(t) \in Numbers /\ Lowest(t) <= k /\ t[Lowest(t)] = "free"
         /\ \A m \in 0..Lowest(t)-1 : t[m] # "free"
  <1> DEFINE T == {n \in Numbers : t[n] = "free"}
  <1>1. T \in SUBSET Nat /\ k \in T
    BY Constants
  <1>2. PICK n \in T : \A m \in T : n <= m
    BY <1>1, LeastExists
  <1>3. n \in Numbers /\ t[n] = "free"
    OBVIOUS
  <1>4. \A m \in 0..n-1 : m \in Numbers /\ ~(n <= m)
    BY <1>3, Constants DEF Numbers
  <1>5. \A m \in 0..n-1 : t[m] # "free"
    BY <1>2, <1>4
  <1>6. Lowest(t) \in Numbers /\ t[Lowest(t)] = "free" /\ \A m \in 0..Lowest(t)-1 : t[m] # "free"
    BY <1>3, <1>5 DEF Lowest
  <1>7. ~(k < Lowest(t))
    <2>1. k < Lowest(t) => k \in 0..Lowest(t)-1
      BY <1>6, Constants
    <2> QED BY <2>1, <1>6
  <1>8. k \in Nat /\ Lowest(t) \in Nat
    BY <1>6, Constants
  <1> QED BY <1>6, <1>7, <1>8

LEMMA Opened ==
  ASSUME NEW t \in [Numbers -> Kinds], NEW k \in Numbers, t[k] = "free", NEW what \in Kinds
  PROVE  /\ Open(t, what) \in [Numbers -> Kinds]
         /\ Lowest(t) \in Numbers /\ Lowest(t) <= k /\ t[Lowest(t)] = "free"
         /\ \A m \in 0..Lowest(t)-1 : t[m] # "free"
         /\ Open(t, what)[Lowest(t)] = what
         /\ \A n \in Numbers : t[n] # "free" => Open(t, what)[n] = t[n]
         /\ \A n \in Numbers : n # Lowest(t) => Open(t, what)[n] = t[n]
         /\ \A n \in Numbers : n > k => Open(t, what)[n] = t[n]
  <1>1. /\ Lowest(t) \in Numbers /\ Lowest(t) <= k /\ t[Lowest(t)] = "free"
        /\ \A m \in 0..Lowest(t)-1 : t[m] # "free"
    BY LowestIsLeast
  <1>2. \A n \in Numbers : n > k => n # Lowest(t)
    BY <1>1, Constants
  <1> QED BY <1>1, <1>2 DEF Open

LEMMA TypeInit == Init => TypeOK
  <1> SUFFICES ASSUME Init PROVE TypeOK
    OBVIOUS
  <1>1. stack \in Seq({"hup", "term"})
    BY EmptySeq DEF Init
  <1>2. fds \in [Numbers -> Kinds]
    BY DEF Init, Kinds
  <1>3. i \in 0..MAXFD /\ hups \in Nat
    BY Constants DEF Init
  <1>4. /\ logger \in BOOLEAN /\ pc \in Before \cup After /\ logfd \in Numbers \cup {-1}
        /\ lock \in {"none", "main", "hup", "term"} /\ nulled \in BOOLEAN /\ trespass \in BOOLEAN
    BY DEF Init, Before
  <1> QED BY <1>1, <1>2, <1>3, <1>4 DEF TypeOK

-----------------------------------------------------------------------------
(* syslog.                                                                  *)

(* What happens when syslog connects, or connects again: in between, the       *)
(* number it used to have is free.                                             *)
Reconnect ==
  /\ ~Settled /\ pc \in Before /\ logger
  /\ fds' \in [Numbers -> Kinds]
  /\ logfd' \in 0..3 /\ fds'[logfd'] = "log"
  /\ logfd' = logfd \/ fds[logfd'] = "free"
  /\ \A n \in Numbers : n # logfd /\ n # logfd' => fds'[n] = fds[n]
  /\ logfd \in Numbers /\ logfd' # logfd => fds'[logfd] = "free"
  /\ \A m \in 0..logfd'-1 : m # logfd /\ fds[m] # "free"
  /\ UNCHANGED trespass

LEMMA SendEffect ==
  ASSUME TypeOK, Finding, Room, Send
  PROVE  (Settled /\ UNCHANGED <<logfd, fds, trespass>>) \/ Reconnect
  <1>1. CASE Settled
    <2>1. CASE logfd = -1 /\ ~logger
      BY <2>1, <1>1 DEF Send, TypeOK
    <2>2. CASE logfd # -1 /\ fds[logfd] = "log"
      BY <2>2, <1>1 DEF Send
    <2> QED BY <1>1, <2>1, <2>2 DEF Settled
  <1>2. CASE ~Settled
    <2>1. pc \in Before /\ logger
      BY <1>2 DEF Finding, Settled, TypeOK, After
    <2>2. FreeFrom(4) /\ (fds[3] # "free" => fds[3] = "log" /\ logfd = 3)
      BY <2>1 DEF Room
    <2>3. fds[3] = "free"
      BY <1>2, <2>2 DEF Settled
    <2>4. PICK t : t = IF logfd = -1 THEN fds ELSE Close(fds, logfd)
      OBVIOUS
    <2>5. ~(logfd # -1 /\ fds[logfd] = "log")
      BY <1>2 DEF Settled
    <2>6. /\ trespass' = (trespass \/ (logfd # -1 /\ fds[logfd] \in Server))
          /\ logfd' = Lowest(t) /\ fds' = Open(t, "log")
      BY <2>1, <2>4, <2>5 DEF Send
    <2>7. /\ t \in [Numbers -> Kinds] /\ 3 \in Numbers /\ t[3] = "free" /\ "log" \in Kinds
          /\ \A n \in Numbers : n # logfd => t[n] = fds[n]
          /\ logfd \in Numbers => t[logfd] = "free"
      BY <2>3, <2>4, Constants DEF TypeOK, Close, Kinds
    <2>8. /\ fds' \in [Numbers -> Kinds]
          /\ logfd' \in Numbers /\ logfd' <= 3 /\ t[logfd'] = "free"
          /\ \A m \in 0..logfd'-1 : t[m] # "free"
          /\ fds'[logfd'] = "log"
          /\ \A n \in Numbers : n # logfd' => fds'[n] = t[n]
      BY <2>6, <2>7, Opened
    <2>9. \A m \in 0..logfd'-1 : m # logfd /\ fds[m] # "free"
      <3>1. \A low \in Numbers : \A m \in 0..low-1 : m \in Numbers /\ m # low
        <4>1. \A low \in 0..MAXFD-1 : \A m \in 0..low-1 : m \in 0..MAXFD-1 /\ m # low
          BY Constants
        <4> QED BY <4>1 DEF Numbers
      <3>2. \A m \in 0..logfd'-1 : m \in Numbers /\ m # logfd'
        BY <3>1, <2>8, Zenon
      <3> QED BY <2>7, <2>8, <3>2
    <2>10. UNCHANGED trespass
      BY <2>1, <2>6 DEF Finding, TypeOK
    <2>11. logfd' \in 0..3
      BY <2>8, Constants
    <2> QED BY <1>2, <2>1, <2>7, <2>8, <2>9, <2>10, <2>11 DEF Reconnect
  <1> QED BY <1>1, <1>2

LEMMA SendSettles ==
  ASSUME TypeOK, Finding, Room, Send, UNCHANGED logger
  PROVE  Settled'
  <1>1. CASE Settled /\ UNCHANGED <<logfd, fds, trespass>>
    BY <1>1 DEF Settled
  <1>2. CASE Reconnect
    BY <1>2 DEF Reconnect, Settled
  <1> QED BY <1>1, <1>2, SendEffect


-----------------------------------------------------------------------------
(* What start_server opens.                                                 *)

(* A server with room for a client has a free number for it.                 *)
LEMMA RoomForClient ==
  ASSUME TypeOK, Room, pc = "serve",
         Cardinality({n \in Numbers : fds[n] = "client"}) < MaxClients
  PROVE  \E k \in Numbers : fds[k] = "free"
  <1> SUFFICES ASSUME \A k \in Numbers : fds[k] # "free" PROVE FALSE
    OBVIOUS
  <1> DEFINE Clients == {n \in Numbers : fds[n] = "client"}
  <1>1. 9 \in Int /\ MAXFD-1 \in Int /\ MAXFD - 9 \in Nat /\ MAXFD - 9 >= MaxClients
    BY Constants
  <1>2. /\ IsFiniteSet(9..MAXFD-1)
        /\ Cardinality(9..MAXFD-1) = IF 9 > MAXFD-1 THEN 0 ELSE (MAXFD-1) - 9 + 1
    BY <1>1, FS_Interval
  <1>3. Cardinality(9..MAXFD-1) = MAXFD - 9
    BY <1>1, <1>2, Constants
  <1>4. 9..MAXFD-1 \subseteq Clients
    <2>1. 9..MAXFD-1 \subseteq Numbers
      BY Constants DEF Numbers
    <2> QED BY <2>1 DEF Room
  <1>5. IsFiniteSet(Clients)
    <2>1. IsFiniteSet(Numbers)
      BY Constants, FS_Interval DEF Numbers
    <2> QED BY <2>1, FS_Subset
  <1>6. Cardinality(9..MAXFD-1) <= Cardinality(Clients)
    BY <1>4, <1>5, FS_Subset
  <1>7. Cardinality(Clients) \in Nat
    BY <1>5, FS_CardinalityType
  <1> QED BY <1>1, <1>3, <1>6, <1>7, Constants

LEMMA EventInitOpens ==
  ASSUME TypeOK, Room, EventInit
  PROVE  /\ fds' \in [Numbers -> Kinds]
         /\ \A n \in Numbers : fds[n] # "free" => fds'[n] = fds[n]
         /\ \A n \in Numbers : n > 6 => fds'[n] = fds[n]
         /\ \E low \in Numbers : /\ fds[low] = "free" /\ fds'[low] # "free"
                                 /\ \A m \in 0..low-1 : fds[m] # "free"
         /\ \A n \in Numbers : fds'[n] = fds[n] \/ fds'[n] = "event"
  <1>1. pc = "event_init" /\ FreeFrom(4)
    BY DEF EventInit, At, Room, Before
  <1>2. /\ fds \in [Numbers -> Kinds] /\ "event" \in Kinds
        /\ {4, 5, 6} \subseteq Numbers /\ \A k \in {4, 5, 6} : fds[k] = "free"
        /\ \A n \in Numbers : n > 6 => n > 4 /\ n > 5
    <2>1. 4 \in 4..MAXFD-1 /\ 5 \in 4..MAXFD-1 /\ 6 \in 4..MAXFD-1
      BY Constants
    <2> QED BY <1>1, <2>1, Constants DEF TypeOK, Kinds, Server, FreeFrom, Numbers
  <1>3. PICK one, two, three :
          /\ one = Open(fds, "event") /\ two = Open(one, "event") /\ three = Open(two, "event")
          /\ fds' \in {one, two, three}
    BY DEF EventInit
  <1>4. /\ one \in [Numbers -> Kinds] /\ one[5] = "free" /\ one[6] = "free"
        /\ \A n \in Numbers : fds[n] # "free" => one[n] = fds[n]
        /\ \A n \in Numbers : n > 4 => one[n] = fds[n]
        /\ \A n \in Numbers : one[n] = fds[n] \/ one[n] = "event"
        /\ Lowest(fds) \in Numbers /\ fds[Lowest(fds)] = "free" /\ one[Lowest(fds)] = "event"
        /\ \A m \in 0..Lowest(fds)-1 : fds[m] # "free"
    <2>1. 4 \in Numbers /\ fds[4] = "free"
      BY <1>2
    <2>2. /\ one \in [Numbers -> Kinds]
          /\ \A n \in Numbers : fds[n] # "free" => one[n] = fds[n]
          /\ \A n \in Numbers : n > 4 => one[n] = fds[n]
          /\ Lowest(fds) \in Numbers /\ fds[Lowest(fds)] = "free" /\ one[Lowest(fds)] = "event"
          /\ \A m \in 0..Lowest(fds)-1 : fds[m] # "free"
          /\ \A n \in Numbers : n # Lowest(fds) => one[n] = fds[n]
      BY <1>2, <1>3, <2>1, Opened
    <2>3. 5 > 4 /\ 6 > 4
      OBVIOUS
    <2> QED BY <1>2, <2>2, <2>3
  <1>5. /\ two \in [Numbers -> Kinds] /\ two[6] = "free"
        /\ \A n \in Numbers : one[n] # "free" => two[n] = one[n]
        /\ \A n \in Numbers : n > 5 => two[n] = one[n]
        /\ \A n \in Numbers : two[n] = one[n] \/ two[n] = "event"
    <2>1. /\ one \in [Numbers -> Kinds] /\ 5 \in Numbers /\ one[5] = "free"
          /\ "event" \in Kinds /\ two = Open(one, "event")
      BY <1>2, <1>3, <1>4
    <2>2. /\ two \in [Numbers -> Kinds]
          /\ \A n \in Numbers : one[n] # "free" => two[n] = one[n]
          /\ \A n \in Numbers : n > 5 => two[n] = one[n]
          /\ Lowest(one) \in Numbers /\ two[Lowest(one)] = "event"
          /\ \A n \in Numbers : n # Lowest(one) => two[n] = one[n]
      BY <2>1, Opened
    <2>3. \A n \in Numbers : two[n] = one[n] \/ two[n] = "event"
      BY <2>2
    <2>4. two[6] = "free"
      <3>1. 6 \in Numbers /\ 6 > 5
        BY <1>2
      <3> QED BY <3>1, <1>4, <2>2
    <2> QED BY <2>2, <2>3, <2>4
  <1>6. /\ three \in [Numbers -> Kinds]
        /\ \A n \in Numbers : two[n] # "free" => three[n] = two[n]
        /\ \A n \in Numbers : n > 6 => three[n] = two[n]
        /\ \A n \in Numbers : three[n] = two[n] \/ three[n] = "event"
    <2>1. /\ two \in [Numbers -> Kinds] /\ 6 \in Numbers /\ two[6] = "free"
          /\ "event" \in Kinds /\ three = Open(two, "event")
      BY <1>2, <1>3, <1>5
    <2>2. /\ three \in [Numbers -> Kinds]
          /\ \A n \in Numbers : two[n] # "free" => three[n] = two[n]
          /\ \A n \in Numbers : n > 6 => three[n] = two[n]
          /\ Lowest(two) \in Numbers /\ three[Lowest(two)] = "event"
          /\ \A n \in Numbers : n # Lowest(two) => three[n] = two[n]
      BY <2>1, Opened
    <2>3. \A n \in Numbers : three[n] = two[n] \/ three[n] = "event"
      BY <2>2
    <2> QED BY <2>2, <2>3
  <1>7. fds' = one \/ fds' = two \/ fds' = three
    BY <1>3
  <1>8. fds'[Lowest(fds)] # "free"
    <2>1. "event" # "free"
      OBVIOUS
    <2> QED BY <1>4, <1>5, <1>6, <1>7, <2>1
  <1>9. /\ fds' \in [Numbers -> Kinds]
        /\ \A n \in Numbers : fds[n] # "free" => fds'[n] = fds[n]
    BY <1>4, <1>5, <1>6, <1>7
  <1>10. \A n \in Numbers : n > 6 => fds'[n] = fds[n]
    BY <1>2, <1>4, <1>5, <1>6, <1>7
  <1>11. \A n \in Numbers : fds'[n] = fds[n] \/ fds'[n] = "event"
    BY <1>4, <1>5, <1>6, <1>7
  <1> QED BY <1>4, <1>8, <1>9, <1>10, <1>11

LEMMA ListenOpens ==
  ASSUME TypeOK, Room, At(pc), pc \in {"listen1", "listen2"}, fds' = Open(fds, "listen")
  PROVE  /\ fds' \in [Numbers -> Kinds]
         /\ \A n \in Numbers : fds[n] # "free" => fds'[n] = fds[n]
         /\ pc = "listen1" => \A n \in Numbers : n > 7 => fds'[n] = fds[n]
         /\ pc = "listen2" => \A n \in Numbers : n > 8 => fds'[n] = fds[n]
  <1>1. fds \in [Numbers -> Kinds] /\ "listen" \in Kinds
    BY DEF TypeOK, Kinds, Server
  <1>2. 7 \in Numbers /\ 8 \in Numbers /\ 7 \in 7..MAXFD-1 /\ 8 \in 8..MAXFD-1
    BY Constants
  <1>3. pc = "listen1" => fds[7] = "free"
    BY <1>2 DEF Room, FreeFrom
  <1>4. pc = "listen2" => fds[8] = "free"
    BY <1>2 DEF Room, FreeFrom
  <1> QED BY <1>1, <1>2, <1>3, <1>4, Opened

(* start_server leaves alone what it has not opened for a client itself.      *)
Kept == \A n \in Numbers : fds[n] \notin {"free", "client"} => fds'[n] = fds[n]
LEMMA ServerKeeps ==
  ASSUME TypeOK, Room, start_server
  PROVE  Kept /\ fds' \in [Numbers -> Kinds]
  <1>0. fds \in [Numbers -> Kinds]
    BY DEF TypeOK
  <1>1. CASE EventInit
    BY <1>1, EventInitOpens DEF Kept
  <1>2. CASE Listen
    <2>1. CASE UNCHANGED fds
      BY <2>1, <1>0 DEF Kept
    <2>2. CASE fds' = Open(fds, "listen")
      BY <1>2, <2>2, ListenOpens DEF Kept, Listen
    <2> QED BY <1>2, <2>1, <2>2 DEF Listen
  <1>3. CASE Serve
    <2>1. CASE /\ Cardinality({n \in Numbers : fds[n] = "client"}) < MaxClients
               /\ fds' = Open(fds, "client")
      <3>1. pc = "serve" /\ "client" \in Kinds
        BY <1>3 DEF Serve, At, Kinds, Server
      <3>2. PICK k \in Numbers : fds[k] = "free"
        BY <2>1, <3>1, RoomForClient
      <3> QED BY <1>0, <2>1, <3>1, <3>2, Opened DEF Kept
    <2>2. CASE \E n \in Numbers : fds[n] = "client" /\ fds' = Close(fds, n)
      BY <2>2, <1>0 DEF Kept, Close, Kinds
    <2> QED BY <1>3, <2>1, <2>2 DEF Serve
  <1> QED BY <1>1, <1>2, <1>3 DEF start_server


-----------------------------------------------------------------------------
(* daemonize opens /dev/null.                                               *)

LEMMA NullOpens ==
  ASSUME TypeOK, Room, pc = "null"
  PROVE  /\ Open(fds, "null") \in [Numbers -> Kinds]
         /\ Lowest(fds) \in Numbers /\ fds[Lowest(fds)] = "free"
         /\ \A m \in 0..Lowest(fds)-1 : fds[m] # "free"
         /\ Open(fds, "null")[Lowest(fds)] = "null"
         /\ \A n \in Numbers : n # Lowest(fds) => Open(fds, "null")[n] = fds[n]
  <1>1. 4 \in Numbers /\ 4 \in 4..MAXFD-1 /\ "null" \in Kinds
    BY Constants DEF Kinds
  <1>2. fds[4] = "free"
    BY <1>1 DEF Room, FreeFrom, Before
  <1> QED BY <1>1, <1>2, Opened DEF TypeOK

(* An action of main or a handler that leaves the descriptor table, syslog's   *)
(* number and daemonize's own state alone.                                      *)
Calm == UNCHANGED <<fds, logfd, trespass, i, nulled, logger, pc>>

LEMMA CalmSteps ==
  ASSUME \/ UNCHANGED vars \/ Deliver("hup") \/ Deliver("term") \/ Kill \/ HandlerDone
         \/ HandlerLog /\ UNCHANGED <<log, fds, trespass>>
  PROVE  Calm
  BY DEF vars, log, signals, Deliver, Kill, HandlerDone, HandlerLog, Calm

LEMMA TypeStack ==
  ASSUME TypeOK, [Next]_vars
  PROVE  /\ stack' \in Seq({"hup", "term"}) /\ hups' \in Nat
         /\ lock' \in {"none", "main", "hup", "term"}
  <1> DEFINE Hs == {"hup", "term"}
  <1>0. stack \in Seq(Hs) /\ hups \in Nat /\ lock \in {"none", "main"} \cup Hs
    BY DEF TypeOK
  <1>1. \A s \in Hs : Append(stack, s) \in Seq(Hs)
    BY <1>0, AppendProperties
  <1>2. ASSUME stack # <<>> PROVE Front(stack) \in Seq(Hs) /\ Top \in Hs
    BY <1>0, <1>2, SubSeqProperties, ElementOfSeq, LenProperties, EmptySeq DEF Top, Front
  <1>3. CASE SyslogEnter \/ SyslogLeave
    BY <1>0, <1>3 DEF SyslogEnter, SyslogLeave, signals
  <1>4. CASE Options \/ daemonize \/ start_server
    BY <1>0, <1>4 DEF daemonize, start_server, Options, Fork1, Signal, Fork2, CloseAll, OpenNull,
       DupAll, Dup2, CloseNull, EventInit, Listen, Serve, log, signals
  <1>5. CASE Deliver("hup") \/ Deliver("term") \/ Kill
    BY <1>0, <1>1, <1>5 DEF Deliver, Kill, log
  <1>6. CASE HandlerLog
    BY <1>0, <1>2, <1>6 DEF HandlerLog, log, signals
  <1>7. CASE HandlerDone
    BY <1>0, <1>2, <1>7 DEF HandlerDone
  <1>8. CASE UNCHANGED vars
    BY <1>0, <1>8 DEF vars, log, signals
  <1> QED BY <1>3, <1>4, <1>5, <1>6, <1>7, <1>8 DEF Next, signal_handler

LEMMA TypeDescriptors ==
  ASSUME TypeOK, Finding, Room, LowNumbers, [Next]_vars
  PROVE  /\ fds' \in [Numbers -> Kinds] /\ logfd' \in Numbers \cup {-1}
         /\ trespass' \in BOOLEAN /\ logger' \in BOOLEAN
  <1>0. /\ fds \in [Numbers -> Kinds] /\ logfd \in Numbers \cup {-1}
        /\ trespass \in BOOLEAN /\ logger \in BOOLEAN /\ i \in 0..MAXFD
    BY DEF TypeOK
  <1>1. CASE Send /\ UNCHANGED logger
    <2>1. CASE UNCHANGED <<logfd, fds, trespass>>
      BY <1>0, <1>1, <2>1
    <2>2. CASE Reconnect
      <3>1. 0..3 \subseteq Numbers
        BY Constants
      <3> QED BY <1>0, <1>1, <2>2, <3>1 DEF Reconnect
    <2> QED BY <1>1, <2>1, <2>2, SendEffect
  <1>2. CASE UNCHANGED <<fds, logfd, trespass, logger>>
    BY <1>0, <1>2
  <1>3. CASE SyslogEnter
    BY <1>1, <1>3 DEF SyslogEnter
  <1>4. CASE Options \/ SyslogLeave \/ Fork1 \/ Signal \/ Fork2
    BY <1>0, <1>4 DEF Options, SyslogLeave, Fork1, Signal, Fork2, log
  <1>5. CASE CloseAll \/ DupAll \/ CloseNull
    <2>1. "free" \in Kinds
      BY DEF Kinds
    <2>2. CASE CloseAll
      BY <1>0, <2>1, <2>2 DEF CloseAll, Close, log
    <2>3. CASE CloseNull
      BY <1>0, <2>1, <2>3 DEF CloseNull, Close, log
    <2>4. CASE DupAll
      <3>1. pc \in Dups
        BY <2>4 DEF DupAll, Dup2, At, Dups
      <3>2. fds[i] \in Kinds
        BY <1>0, <3>1, Constants DEF LowNumbers, Copying
      <3> QED BY <1>0, <2>4, <3>2 DEF DupAll, Dup2, log
    <2> QED BY <1>5, <2>2, <2>3, <2>4
  <1>6. CASE OpenNull
    BY <1>0, <1>6, NullOpens DEF OpenNull, At, log
  <1>7. CASE start_server
    BY <1>0, <1>7, ServerKeeps DEF start_server, EventInit, Listen, Serve, log
  <1>8. CASE HandlerLog
    BY <1>1, <1>2, <1>8 DEF HandlerLog, log
  <1>9. CASE UNCHANGED vars \/ Deliver("hup") \/ Deliver("term") \/ Kill \/ HandlerDone
    BY <1>2, <1>9, CalmSteps DEF Calm
  <1> QED BY <1>3, <1>4, <1>5, <1>6, <1>7, <1>8, <1>9 DEF Next, daemonize, signal_handler

LEMMA TypeNext == TypeOK /\ Finding /\ Room /\ LowNumbers /\ [Next]_vars => TypeOK'
  <1> SUFFICES ASSUME TypeOK, Finding, Room, LowNumbers, [Next]_vars PROVE TypeOK'
    OBVIOUS
  <1>1. pc' \in Before \cup After /\ nulled' \in BOOLEAN
    <2>1. pc \in Before \cup After /\ nulled \in BOOLEAN
      BY DEF TypeOK
    <2>2. CASE Options \/ SyslogEnter \/ SyslogLeave
      BY <2>1, <2>2 DEF Options, SyslogEnter, SyslogLeave, Goto, Before, After
    <2>3. CASE daemonize
      BY <2>1, <2>3 DEF daemonize, Fork1, Signal, Fork2, CloseAll, OpenNull, DupAll, Dup2,
         CloseNull, Goto, Before, After, Dups
    <2>4. CASE start_server
      BY <2>1, <2>4 DEF start_server, EventInit, Listen, Serve, Goto, After
    <2>5. CASE HandlerLog
      BY <2>1, <2>5 DEF HandlerLog
    <2>6. CASE UNCHANGED vars \/ Deliver("hup") \/ Deliver("term") \/ Kill \/ HandlerDone
      BY <2>1, <2>6, CalmSteps DEF Calm
    <2> QED BY <2>2, <2>3, <2>4, <2>5, <2>6 DEF Next, signal_handler
  <1>2. i' \in 0..MAXFD
    <2>1. i \in 0..MAXFD /\ MAXFD \in Nat
      BY Constants DEF TypeOK
    <2>2. CASE UNCHANGED i
      BY <2>1, <2>2
    <2>3. CASE Fork2
      BY <2>1, <2>3 DEF Fork2
    <2>4. CASE CloseAll
      BY <2>1, <2>4 DEF CloseAll
    <2>5. CASE OpenNull
      <3>1. \A n \in Numbers : n \in 0..MAXFD
        BY Constants
      <3>2. CASE i' = Lowest(fds)
        <4>1. Lowest(fds) \in 0..MAXFD
          BY <2>5, <3>1, NullOpens DEF OpenNull, At
        <4> QED BY <3>2, <4>1
      <3> QED BY <2>2, <2>5, <3>2 DEF OpenNull
    <2>6. CASE Options \/ SyslogEnter \/ SyslogLeave \/ start_server \/ HandlerLog
      BY <2>2, <2>6 DEF Options, SyslogEnter, SyslogLeave, start_server, EventInit, Listen, Serve,
         HandlerLog
    <2>7. CASE Fork1 \/ Signal \/ DupAll \/ CloseNull
      BY <2>2, <2>7 DEF Fork1, Signal, DupAll, Dup2, CloseNull
    <2>8. CASE UNCHANGED vars \/ Deliver("hup") \/ Deliver("term") \/ Kill \/ HandlerDone
      BY <2>2, <2>8, CalmSteps DEF Calm
    <2> QED BY <2>3, <2>4, <2>5, <2>6, <2>7, <2>8 DEF Next, daemonize, signal_handler
  <1> QED BY <1>1, <1>2, TypeStack, TypeDescriptors DEF TypeOK

-----------------------------------------------------------------------------
(* StuckNeedsHangup.                                                        *)

LEMMA HangupInit == Init => Hangup
  BY DEF Init, Hangup, StuckNeedsHangup

LEMMA HangupNext == TypeOK /\ Hangup /\ [Next]_vars => Hangup'
  <1> SUFFICES ASSUME TypeOK, Hangup, [Next]_vars PROVE Hangup'
    OBVIOUS
  <1>0. hups \in Nat /\ lock \in {"none", "main", "hup", "term"}
    BY DEF TypeOK
  <1>1. CASE SyslogEnter \/ SyslogLeave
    <2>1. UNCHANGED <<stack, hups, term>> /\ proc = "runs" /\ proc' # "stuck"
      BY <1>1 DEF SyslogEnter, SyslogLeave, signals, At, Exit
    <2>2. CASE SyslogEnter
      BY <1>0, <2>1, <2>2 DEF Hangup, StuckNeedsHangup, SyslogEnter, Logging
    <2>3. CASE SyslogLeave
      BY <1>0, <2>1, <2>3 DEF Hangup, StuckNeedsHangup, SyslogLeave, Logging
    <2> QED BY <1>1, <2>2, <2>3
  <1>2. CASE Options \/ daemonize \/ start_server
    <2>1. UNCHANGED <<stack, hups, term, lock>> /\ proc' # "stuck"
      BY <1>2 DEF daemonize, start_server, Options, Fork1, Signal, Fork2, CloseAll, OpenNull,
         DupAll, Dup2, CloseNull, EventInit, Listen, Serve, log, signals, At, Exit
    <2>2. pc \notin Logging
      BY <1>2 DEF daemonize, start_server, Options, Fork1, Signal, Fork2, CloseAll, OpenNull,
         DupAll, Dup2, CloseNull, EventInit, Listen, Serve, At, Logging
    <2>3. pc = "serve" => pc' = "serve"
      BY <1>2 DEF daemonize, start_server, Options, Fork1, Signal, Fork2, CloseAll, OpenNull,
         DupAll, Dup2, CloseNull, EventInit, Listen, Serve, At
    <2> QED BY <1>0, <2>1, <2>2, <2>3 DEF Hangup, StuckNeedsHangup
  <1>3. CASE Deliver("hup") \/ Kill
    <2>1. CASE hups' = hups + 1 /\ UNCHANGED term
      <3>1. hups' # 0 /\ hups' > 0
        BY <1>0, <2>1
      <3> QED BY <1>3, <2>1, <3>1 DEF Hangup, StuckNeedsHangup, Deliver, Kill, log
    <2>2. CASE Kill
      BY <1>0, <2>2 DEF Hangup, StuckNeedsHangup, Kill, Exit, log
    <2> QED BY <1>3, <2>1, <2>2 DEF Deliver
  <1>4. CASE Deliver("term")
    <2>1. stack' = Append(stack, "term") /\ ~Contains(stack, "term")
      BY <1>4 DEF Deliver
    <2>2. stack = <<>> => stack' = <<"term">>
      BY <2>1
    <2>3. stack # <<"term">>
      <3>1. Contains(<<"term">>, "term")
        BY DEF Contains
      <3> QED BY <2>1, <3>1
    <2> QED BY <1>0, <1>4, <2>2, <2>3 DEF Hangup, StuckNeedsHangup, Deliver, log
  <1>5. CASE HandlerLog
    <2>1. hups = 0 => Top = "term" /\ lock # "hup"
      BY <1>5 DEF HandlerLog, Hangup, Top
    <2>2. UNCHANGED <<stack, hups, term, pc>> /\ lock # Top
      BY <1>5 DEF HandlerLog, signals
    <2>3. CASE lock = "none"
      <3>1. Top \in {"hup", "term"}
        BY <1>5, ElementOfSeq, LenProperties, EmptySeq DEF TypeOK, HandlerLog, Top
      <3> QED BY <1>0, <1>5, <2>1, <2>2, <2>3, <3>1 DEF Hangup, StuckNeedsHangup, HandlerLog
    <2>4. CASE lock # "none"
      <3>1. hups = 0 => lock = "main"
        BY <1>0, <2>1, <2>2, <2>4
      <3>2. hups = 0 => term # "serving"
        BY <3>1 DEF Hangup, Logging
      <3> QED BY <1>0, <1>5, <2>2, <2>4, <3>2 DEF Hangup, StuckNeedsHangup, HandlerLog, log
    <2> QED BY <2>3, <2>4
  <1>6. CASE HandlerDone
    <2>1. hups = 0 => Top = "term"
      BY <1>6 DEF HandlerDone, Hangup, Top
    <2> QED BY <1>0, <1>6, <2>1 DEF Hangup, StuckNeedsHangup, HandlerDone, Exit
  <1>7. CASE UNCHANGED vars
    BY <1>7 DEF Hangup, StuckNeedsHangup, vars, log, signals
  <1> QED BY <1>1, <1>2, <1>3, <1>4, <1>5, <1>6, <1>7 DEF Next, signal_handler

-----------------------------------------------------------------------------
(* LogKeepsToItself, and the room there is.                                 *)

LEMMA FindingInit == Init => Finding /\ LogKeepsToItself
  BY DEF Init, Finding, LogKeepsToItself, Server, Before, After, Dups

(* The calls of daemonize that close and copy descriptors.                    *)
LEMMA DaemonizeHasNoServer ==
  ASSUME TypeOK, Finding, Room, LowNumbers, CloseAll \/ OpenNull \/ DupAll \/ CloseNull
  PROVE  /\ pc \in Before /\ pc' \in Before \ {"event_init"} /\ pc \notin Logging
         /\ \A n \in Numbers : fds'[n] \notin Server
         /\ UNCHANGED <<logfd, lock, logger, trespass>>
  <1>0. fds \in [Numbers -> Kinds] /\ "free" \notin Server /\ "null" \notin Server
    BY DEF TypeOK, Server
  <1>1. /\ pc \in Before /\ pc' \in Before \ {"event_init"} /\ pc \notin Logging
        /\ UNCHANGED <<logfd, lock, logger, trespass>>
    BY DEF CloseAll, OpenNull, DupAll, Dup2, CloseNull, At, Goto, log, Before, Dups, Logging
  <1>2. \A n \in Numbers : fds[n] \notin Server
    BY <1>1 DEF Finding
  <1>3. CASE CloseAll
    BY <1>0, <1>1, <1>2, <1>3 DEF CloseAll, Close
  <1>4. CASE OpenNull
    <2>1. pc = "null" /\ (UNCHANGED fds \/ fds' = Open(fds, "null"))
      BY <1>4 DEF OpenNull, At
    <2>2. /\ \A n \in Numbers : n # Lowest(fds) => Open(fds, "null")[n] = fds[n]
          /\ Open(fds, "null")[Lowest(fds)] = "null"
      BY <2>1, NullOpens
    <2> QED BY <1>0, <1>1, <1>2, <2>1, <2>2
  <1>5. CASE DupAll
    <2>1. pc \in Dups
      BY <1>5 DEF DupAll, Dup2, At, Dups
    <2>2. fds[i] \notin Server
      BY <1>2, <2>1, Constants DEF LowNumbers, Copying
    <2> QED BY <1>0, <1>1, <1>2, <1>5, <2>2 DEF DupAll, Dup2
  <1>6. CASE CloseNull
    BY <1>0, <1>1, <1>2, <1>6 DEF CloseNull, Close
  <1> QED BY <1>1, <1>3, <1>4, <1>5, <1>6

LEMMA FindingNext ==
  ASSUME TypeOK, Hangup, Finding, Room, LowNumbers, LogKeepsToItself, [Next]_vars
  PROVE  Finding' /\ LogKeepsToItself'
  <1>1. CASE Send /\ UNCHANGED <<logger, pc>>
    <2>1. Settled'
      BY <1>1, SendSettles
    <2>2. CASE UNCHANGED <<logfd, fds, trespass>>
      BY <1>1, <2>1, <2>2 DEF Finding, LogKeepsToItself
    <2>3. CASE Reconnect
      <3>1. \A n \in Numbers : fds'[n] \notin Server
        <4>1. "log" \notin Server /\ "free" \notin Server
          BY DEF Server
        <4>2. \A n \in Numbers : fds[n] \notin Server
          BY <2>3 DEF Reconnect, Finding
        <4> QED BY <2>3, <4>1, <4>2 DEF Reconnect
      <3>2. logger' /\ UNCHANGED trespass
        BY <1>1, <2>3 DEF Reconnect
      <3> QED BY <1>1, <2>1, <3>1, <3>2 DEF Finding, LogKeepsToItself
    <2> QED BY <1>1, <2>2, <2>3, SendEffect
  <1>2. CASE /\ UNCHANGED <<fds, logfd, trespass, logger>>
             /\ pc' \in Before => pc \in Before
             /\ pc' \in {"event_init"} \cup After =>
                  pc \in {"event_init"} \cup After \/ (pc = "log2" /\ lock = "main")
             /\ pc' = "log2" /\ lock' = "main" => pc = "log2" /\ lock = "main"
    BY <1>2 DEF Finding, LogKeepsToItself, Settled
  <1>3. CASE SyslogEnter
    BY <1>1, <1>3 DEF SyslogEnter
  <1>4. CASE Options \/ SyslogLeave \/ Fork1 \/ Signal \/ Fork2
    <2>1. /\ UNCHANGED <<fds, logfd, trespass, logger>>
          /\ lock' = "none" \/ (lock' = lock /\ pc \notin Logging)
          /\ pc' \in Before => pc \in Before
          /\ pc' \in {"event_init"} \cup After =>
               pc \in {"event_init"} \cup After \/ (pc = "log2" /\ lock = "main")
      <3>1. CASE Options \/ Fork1 \/ Signal \/ Fork2
        BY <3>1 DEF Options, Fork1, Signal, Fork2, At, Goto, log, Logging, Before, After, Dups
      <3>2. CASE SyslogLeave
        BY <3>2 DEF SyslogLeave, At, Goto, Logging, Before, After, Dups
      <3> QED BY <1>4, <3>1, <3>2
    <2>2. lock' # "main"
      BY <2>1 DEF Hangup
    <2> QED BY <1>2, <2>1, <2>2
  <1>5. CASE CloseAll \/ OpenNull \/ DupAll \/ CloseNull
    <2>1. /\ pc \in Before /\ pc' \in Before \ {"event_init"} /\ pc \notin Logging
          /\ \A n \in Numbers : fds'[n] \notin Server
          /\ UNCHANGED <<logfd, lock, logger, trespass>>
      BY <1>5, DaemonizeHasNoServer
    <2>2. lock' # "main" /\ pc' \notin {"event_init"} \cup After
      BY <2>1 DEF Hangup, Before, After, Dups
    <2> QED BY <2>1, <2>2 DEF Finding, LogKeepsToItself
  <1>6. CASE start_server
    <2>1. /\ UNCHANGED <<logfd, trespass, logger, lock>>
          /\ pc \in {"event_init"} \cup After /\ pc' \in After
      BY <1>6 DEF start_server, EventInit, Listen, Serve, At, Goto, log, After
    <2>2. Settled'
      <3>1. Settled /\ "log" \notin {"free", "client"}
        BY <2>1 DEF Finding
      <3>2. logfd \in Numbers /\ fds[logfd] = "log" => fds'[logfd] = "log"
        BY <1>6, <3>1, ServerKeeps DEF Kept
      <3>3. logfd \in Numbers \cup {-1}
        BY DEF TypeOK
      <3> QED BY <2>1, <3>1, <3>2, <3>3 DEF Settled
    <2>3. pc' \notin Before /\ pc' # "log2"
      BY <2>1 DEF After, Before, Dups
    <2> QED BY <2>1, <2>2, <2>3 DEF Finding, LogKeepsToItself
  <1>7. CASE HandlerLog
    <2>1. CASE lock = "none"
      BY <1>1, <1>7, <2>1 DEF HandlerLog
    <2>2. CASE lock # "none"
      BY <1>2, <1>7, <2>2 DEF HandlerLog, log
    <2> QED BY <2>1, <2>2
  <1>8. CASE UNCHANGED vars \/ Deliver("hup") \/ Deliver("term") \/ Kill \/ HandlerDone
    <2>1. Calm
      BY <1>8, CalmSteps
    <2>2. lock' = "main" => lock = "main"
      BY <1>8 DEF vars, log, Deliver, Kill, HandlerDone
    <2> QED BY <1>2, <2>1, <2>2 DEF Calm
  <1> QED BY <1>3, <1>4, <1>5, <1>6, <1>7, <1>8 DEF Next, daemonize, signal_handler

LEMMA RoomInit == Init => Room
  <1> SUFFICES ASSUME Init PROVE Room
    OBVIOUS
  <1>1. \A n \in Numbers : n >= 3 => fds[n] = "free"
    BY Constants DEF Init
  <1>2. 3 \in Numbers /\ \A n \in 4..MAXFD-1 : n \in Numbers /\ n >= 3
    BY Constants DEF Numbers
  <1> QED BY <1>1, <1>2 DEF Init, Room, FreeFrom

LEMMA RoomNext ==
  ASSUME TypeOK, Finding, Room, LowNumbers, [Next]_vars
  PROVE  Room'
  <1>0. /\ fds \in [Numbers -> Kinds] /\ logfd \in Numbers \cup {-1} /\ 3 \in Numbers
        /\ \A n \in 4..MAXFD-1 : n \in Numbers /\ n > 3 /\ n # 3
        /\ 0..3 \subseteq Numbers
    BY Constants DEF TypeOK, Numbers
  <1>a. \A n \in 0..3 : n \notin 4..MAXFD-1
    BY Constants
  <1>1. CASE UNCHANGED <<fds, logfd>> /\ (pc' = pc \/ (pc' \in Before /\ pc \in Before) \/ pc' = "log3")
    BY <1>1 DEF Room, FreeFrom, Before, Dups
  <1>2. CASE Send /\ UNCHANGED pc
    <2>1. CASE UNCHANGED <<logfd, fds>>
      BY <1>1, <1>2, <2>1
    <2>2. CASE Reconnect
      <3>1. /\ pc' \in Before /\ pc' \notin After /\ logfd' \in 0..3
            /\ FreeFrom(4) /\ (fds[3] # "free" => fds[3] = "log" /\ logfd = 3)
        BY <1>2, <2>2 DEF Reconnect, Room, Before, After, Dups
      <3>2. fds[3] = "free"
        BY <1>0, <2>2, <3>1 DEF Reconnect, Settled
      <3>3. \A n \in 4..MAXFD-1 : n # logfd' /\ n \in Numbers
        BY <1>0, <1>a, <3>1
      <3>4. \A n \in Numbers : n # logfd' => fds'[n] = fds[n] \/ fds'[n] = "free"
        BY <2>2 DEF Reconnect
      <3>5. FreeFrom(4)'
        BY <3>1, <3>3, <3>4 DEF FreeFrom
      <3>6. fds'[3] # "free" => fds'[3] = "log" /\ logfd' = 3
        BY <1>0, <2>2, <3>2, <3>4 DEF Reconnect
      <3> QED BY <3>1, <3>5, <3>6 DEF Room, After
    <2> QED BY <1>2, <2>1, <2>2, SendEffect
  <1>3. CASE SyslogEnter
    BY <1>2, <1>3 DEF SyslogEnter
  <1>4. CASE Options \/ SyslogLeave \/ Fork1 \/ Signal \/ Fork2
    <2>1. CASE Options \/ Fork1 \/ Signal \/ Fork2
      BY <1>1, <2>1 DEF Options, Fork1, Signal, Fork2, At, Goto, log, Before, Dups
    <2>2. CASE SyslogLeave
      BY <1>1, <2>2 DEF SyslogLeave, Goto, Before, Dups
    <2> QED BY <1>4, <2>1, <2>2
  <1>5. CASE CloseAll \/ OpenNull \/ DupAll \/ CloseNull
    <2>1. pc \in Before /\ pc' \in Before /\ pc' \notin After /\ UNCHANGED logfd
      <3>1. \A l \in Before : l \notin After
        BY DEF Before, After, Dups
      <3> QED BY <1>5, <3>1, DaemonizeHasNoServer
    <2>2. FreeFrom(4) /\ (fds[3] # "free" => fds[3] = "log" /\ logfd = 3)
      BY <2>1 DEF Room
    <2>3. /\ \A n \in 4..MAXFD-1 : fds'[n] = fds[n] \/ fds'[n] = "free"
          /\ fds'[3] = fds[3] \/ fds'[3] = "free"
      <3>1. CASE CloseAll
        BY <1>0, <3>1 DEF CloseAll, Close
      <3>2. CASE CloseNull
        BY <1>0, <3>2 DEF CloseNull, Close
      <3>3. CASE OpenNull
        <4>1. pc = "null" /\ (UNCHANGED fds \/ fds' = Open(fds, "null"))
          BY <3>3 DEF OpenNull, At
        <4>2. 1 \in Numbers /\ fds[1] = "free" /\ \A n \in Numbers : n >= 3 => ~(n <= 1)
          BY <4>1, Constants DEF LowNumbers, Closed, Taken
        <4>3. Lowest(fds) \in Numbers /\ Lowest(fds) <= 1
          BY <4>2, LowestIsLeast
        <4>4. \A n \in Numbers : n >= 3 => Open(fds, "null")[n] = fds[n]
          BY <4>1, <4>2, <4>3, NullOpens
        <4>5. \A n \in 4..MAXFD-1 : n >= 3
          BY Constants
        <4> QED BY <1>0, <4>1, <4>4, <4>5
      <3>4. CASE DupAll
        <4>1. 3 \notin {0, 1, 2} /\ \A n \in 4..MAXFD-1 : n \notin {0, 1, 2}
          BY Constants
        <4> QED BY <1>0, <3>4, <4>1 DEF DupAll, Dup2
      <3> QED BY <1>5, <3>1, <3>2, <3>3, <3>4
    <2>4. "free" # "log"
      OBVIOUS
    <2> QED BY <2>1, <2>2, <2>3, <2>4 DEF Room, FreeFrom, After
  <1>6. CASE EventInit
    <2>1. pc = "event_init" /\ pc' = "listen1" /\ FreeFrom(4)
      BY <1>6 DEF EventInit, At, Goto, Room, Before
    <2>2. \A n \in 7..MAXFD-1 : n \in Numbers /\ n > 6 /\ n \in 4..MAXFD-1
      BY Constants DEF Numbers
    <2>3. FreeFrom(7)'
      BY <1>6, <2>1, <2>2, EventInitOpens DEF FreeFrom
    <2> QED BY <2>1, <2>3 DEF Room, Before, Dups
  <1>7. CASE Listen
    <2>1. CASE UNCHANGED fds /\ pc' = "log3"
      BY <1>7, <2>1 DEF Room, Before, Dups
    <2>2. CASE pc = "listen1" /\ fds' = Open(fds, "listen") /\ pc' = "listen2"
      <3>1. \A n \in 8..MAXFD-1 : n \in Numbers /\ n > 7 /\ n \in 7..MAXFD-1
        BY Constants DEF Numbers
      <3>2. FreeFrom(8)'
        BY <1>7, <2>2, <3>1, ListenOpens DEF Listen, Room, FreeFrom
      <3> QED BY <2>2, <3>2 DEF Room, Before, Dups
    <2>3. CASE pc = "listen2" /\ fds' = Open(fds, "listen") /\ pc' = "serve"
      <3>1. \A n \in 9..MAXFD-1 : n \in Numbers /\ n > 8 /\ n \in 8..MAXFD-1
        BY Constants DEF Numbers
      <3>2. \A n \in 9..MAXFD-1 : fds'[n] = "free"
        BY <1>7, <2>3, <3>1, ListenOpens DEF Listen, Room, FreeFrom
      <3> QED BY <2>3, <3>2 DEF Room, Before, Dups
    <2> QED BY <1>7, <2>1, <2>2, <2>3 DEF Listen, Goto
  <1>8. CASE Serve
    <2>1. pc = "serve" /\ pc' = "serve"
      BY <1>8 DEF Serve, At
    <2>2. \A n \in 9..MAXFD-1 : n \in Numbers /\ fds[n] \in {"free", "client"}
      BY <2>1, Constants DEF Room, Numbers
    <2>3. CASE /\ Cardinality({n \in Numbers : fds[n] = "client"}) < MaxClients
               /\ fds' = Open(fds, "client")
      <3>1. PICK k \in Numbers : fds[k] = "free"
        BY <2>1, <2>3, RoomForClient
      <3>2. \A n \in Numbers : fds'[n] = fds[n] \/ fds'[n] = "client"
        <4>1. "client" \in Kinds /\ fds \in [Numbers -> Kinds]
          BY <1>0 DEF Kinds, Server
        <4>2. /\ Open(fds, "client")[Lowest(fds)] = "client"
              /\ \A n \in Numbers : n # Lowest(fds) => Open(fds, "client")[n] = fds[n]
          BY <3>1, <4>1, Opened
        <4> QED BY <2>3, <4>2
      <3> QED BY <2>1, <2>2, <3>2 DEF Room, Before, Dups
    <2>4. CASE \E n \in Numbers : fds[n] = "client" /\ fds' = Close(fds, n)
      BY <1>0, <2>1, <2>2, <2>4 DEF Close, Room, Before, Dups
    <2> QED BY <1>8, <2>3, <2>4 DEF Serve
  <1>9. CASE HandlerLog
    BY <1>1, <1>2, <1>9 DEF HandlerLog, log
  <1>10. CASE UNCHANGED vars \/ Deliver("hup") \/ Deliver("term") \/ Kill \/ HandlerDone
    BY <1>1, <1>10, CalmSteps DEF Calm
  <1> QED BY <1>3, <1>4, <1>5, <1>6, <1>7, <1>8, <1>9, <1>10
      DEF Next, daemonize, start_server, signal_handler

-----------------------------------------------------------------------------
(* SocketsAboveStdio.                                                       *)

LEMMA LowNumbersInit == Init => LowNumbers
  <1> SUFFICES ASSUME Init PROVE LowNumbers
    OBVIOUS
  <1>1. pc = "options" /\ logfd = -1 /\ \A n \in Stdio : fds[n] = "tty"
    BY Constants DEF Init, Stdio
  <1> QED BY <1>1 DEF LowNumbers, TerminalLeft, Closing, Closed, Copying, OneMissing, Serving,
      Stdio, Taken, Dups, After

(* What syslog changes among 0, 1 and 2.  It takes the lowest free number, so  *)
(* that a closed one is filled from below.                                      *)
LEMMA ReconnectLow ==
  ASSUME TypeOK, Reconnect
  PROVE  /\ \A n \in Stdio : Taken(n) /\ n # logfd => fds'[n] = fds[n]
         /\ \A n \in Stdio : ~Taken(n) /\ n # logfd' => ~Taken(n)'
         /\ \A n \in Stdio : n < logfd' => Taken(n) /\ n # logfd
         /\ fds'[logfd'] # "free"
         /\ logfd' = logfd \/ fds[logfd'] = "free"
  <1>1. Stdio \subseteq Numbers /\ logfd \in Numbers \cup {-1} /\ logfd' \in Int
    BY Constants DEF TypeOK, Reconnect
  <1>2. \A n \in Stdio : n < logfd' => n \in 0..logfd'-1
    <2>1. \A l \in Int : \A n \in Stdio : n < l => n \in 0..l-1
      BY DEF Stdio
    <2> QED BY <1>1, <2>1, Zenon
  <1>3. \A n \in Stdio : Taken(n) /\ n # logfd => fds'[n] = fds[n]
    BY <1>1 DEF Reconnect, Taken
  <1>4. \A n \in Stdio : ~Taken(n) /\ n # logfd' => ~Taken(n)'
    BY <1>1 DEF Reconnect, Taken
  <1>5. \A n \in Stdio : n < logfd' => Taken(n) /\ n # logfd
    BY <1>2 DEF Reconnect, Taken
  <1>6. fds'[logfd'] # "free" /\ (logfd' = logfd \/ fds[logfd'] = "free")
    BY DEF Reconnect
  <1> QED BY <1>3, <1>4, <1>5, <1>6 DEF Taken

LEMMA ReconnectKeepsLow ==
  ASSUME TypeOK, LowNumbers, Reconnect, UNCHANGED <<i, pc, nulled>>
  PROVE  LowNumbers'
  <1>0. Stdio = {0, 1, 2} /\ logfd' \in 0..3 /\ fds'[logfd'] = "log" /\ ~Settled
    BY DEF Stdio, Reconnect
  <1>1. TerminalLeft'
    <2> SUFFICES ASSUME pc \in {"options", "log1", "fork1", "signal", "fork2"}
                 PROVE  (\A n \in Stdio : Taken(n)') /\ logfd' \notin Stdio
      BY DEF TerminalLeft
    <2>1. (\A n \in Stdio : Taken(n)) /\ logfd \notin Stdio
      BY DEF LowNumbers, TerminalLeft
    <2> QED BY <2>1, ReconnectLow DEF Taken
  <1>2. ASSUME LogMayHaveZero, ~Taken(1), logfd \notin {1, 2}, logfd = 0 => fds[0] = "log"
        PROVE  /\ logfd' = 0 /\ LogMayHaveZero'
               /\ \A n \in {1, 2} : ~Taken(n) => ~Taken(n)'
               /\ \A n \in {1, 2} : Taken(n) => Taken(n)'
    <2>1. logfd # 0 /\ ~Taken(0)
      BY <1>0, <1>2 DEF LogMayHaveZero, Settled, Taken
    <2>2. logfd' = 0
      BY <1>0, <2>1, ReconnectLow
    <2>3. \A n \in {1, 2} : (~Taken(n) => ~Taken(n)') /\ (Taken(n) => Taken(n)')
      <3>1. \A n \in {1, 2} : n \in Stdio /\ n # logfd' /\ n # logfd
        BY <1>0, <1>2, <2>2
      <3> QED BY <3>1, ReconnectLow DEF Taken
    <2> QED BY <1>0, <2>2, <2>3 DEF LogMayHaveZero
  <1>3. Closing'
    <2> SUFFICES ASSUME pc = "close" PROVE Closing'
      BY DEF Closing
    <2>0. i \in Nat /\ Closing
      BY Constants DEF TypeOK, LowNumbers
    <2>1. CASE i = 0
      <3>1. (\A n \in Stdio : Taken(n)) /\ logfd \notin Stdio
        BY <1>0, <2>0, <2>1 DEF Closing
      <3>2. (\A n \in Stdio : Taken(n)') /\ logfd' \notin Stdio
        BY <3>1, ReconnectLow DEF Taken
      <3> QED BY <1>0, <2>1, <3>2 DEF Closing
    <2>2. CASE i > 0
      <3>1. logfd # 0 /\ ~Taken(0) /\ logfd \notin {1, 2}
        BY <1>0, <2>0, <2>2 DEF Closing, LogMayHaveZero, Settled, Taken
      <3>2. logfd' = 0
        BY <1>0, <3>1, ReconnectLow
      <3>3. \A n \in {1, 2} : n \in Stdio /\ n # logfd' /\ n # logfd
        BY <1>0, <3>1, <3>2
      <3>4. \A n \in {1, 2} : (~Taken(n) => ~Taken(n)') /\ (Taken(n) => Taken(n)')
        BY <3>3, ReconnectLow DEF Taken
      <3>5. \A n \in Stdio : n >= i => n \in {1, 2} /\ Taken(n)
        BY <1>0, <2>0, <2>2 DEF Closing
      <3>6. \A n \in {1, 2} : n < i => ~Taken(n)
        BY <2>0 DEF Closing
      <3>7. LogMayHaveZero' /\ logfd' \notin {1, 2} /\ fds'[0] = "log"
        BY <1>0, <3>2 DEF LogMayHaveZero
      <3>8. \A n \in Stdio : n >= i => Taken(n)'
        BY <3>4, <3>5
      <3>9. \A n \in {1, 2} : n < i => ~Taken(n)'
        BY <3>4, <3>6
      <3> QED BY <2>2, <3>7, <3>8, <3>9 DEF Closing
    <2> QED BY <2>0, <2>1, <2>2
  <1>4. Closed'
    BY <1>0, <1>2 DEF LowNumbers, Closed
  <1>5. Copying'
    <2> SUFFICES ASSUME pc \in Dups PROVE Copying'
      BY DEF Copying, Dups
    <2>1. i \in {0, 1} /\ fds[i] = "null" /\ logfd # i
      BY DEF LowNumbers, Copying
    <2>2. i \in Stdio /\ Taken(i)
      BY <1>0, <2>1 DEF Taken
    <2>3. fds'[i] = "null" /\ logfd' # i
      BY <2>1, <2>2, ReconnectLow DEF Taken
    <2>4. ASSUME NEW n \in Stdio, Taken(n), \A m \in Stdio : m < n => Taken(m)
          PROVE  Taken(n)'
      <3>1. CASE n # logfd
        BY <2>4, <3>1, ReconnectLow DEF Taken
      <3>2. CASE n = logfd
        <4>1. logfd' < n => logfd' \in Stdio
          BY <1>0
        <4>2. ~(logfd' < n)
          BY <2>4, <4>1, <3>2, <1>0, ReconnectLow DEF Taken
        <4>3. ~(n < logfd')
          BY <3>2, ReconnectLow
        <4>4. n = logfd'
          BY <1>0, <4>2, <4>3
        <4> QED BY <4>4, ReconnectLow DEF Taken
      <3> QED BY <3>1, <3>2
    <2>5. pc = "dup1" => Taken(0)'
      <3>1. pc = "dup1" => 0 \in Stdio /\ Taken(0) /\ \A m \in Stdio : m < 0 => Taken(m)
        BY <1>0 DEF LowNumbers, Copying
      <3> QED BY <2>4, <3>1
    <2>6. pc = "dup2" => Taken(0)' /\ Taken(1)'
      <3>1. pc = "dup2" => \A n \in {0, 1} : n \in Stdio /\ Taken(n) /\ \A m \in Stdio : m < n => Taken(m)
        BY <1>0 DEF LowNumbers, Copying
      <3> QED BY <2>4, <3>1
    <2>7. pc = "closenull" => \A n \in Stdio : Taken(n)'
      BY <2>4 DEF LowNumbers, Copying
    <2> QED BY <2>1, <2>3, <2>5, <2>6, <2>7 DEF Copying
  <1>6. OneMissing'
    <2> SUFFICES ASSUME pc \in {"log2", "event_init"}, nulled
                 PROVE  \E z \in Stdio : \A n \in Stdio \ {z} : Taken(n)'
      BY DEF OneMissing
    <2>1. PICK z \in Stdio : \A n \in Stdio \ {z} : Taken(n)
      BY DEF LowNumbers, OneMissing
    <2>2. CASE logfd \in Stdio \ {z} /\ logfd' # logfd
      <3>1. ~(logfd < logfd')
        BY <2>2, ReconnectLow
      <3>2. logfd' \in Stdio /\ ~Taken(logfd')
        BY <1>0, <2>2, <3>1, ReconnectLow DEF Taken
      <3>3. logfd' = z
        BY <2>1, <3>2
      <3>4. Taken(z)'
        BY <3>3, ReconnectLow DEF Taken
      <3>5. \A n \in Stdio \ {z} : n # logfd => Taken(n)'
        BY <2>1, ReconnectLow DEF Taken
      <3> QED BY <2>2, <3>4, <3>5
    <2>3. CASE ~(logfd \in Stdio \ {z} /\ logfd' # logfd)
      <3>1. \A n \in Stdio \ {z} : n # logfd => Taken(n)'
        BY <2>1, ReconnectLow DEF Taken
      <3>2. \A n \in Stdio \ {z} : n = logfd => Taken(n)'
        BY <2>3, ReconnectLow DEF Taken
      <3> QED BY <3>1, <3>2
    <2> QED BY <2>2, <2>3
  <1>7. Serving'
    BY DEF Reconnect, Serving, Before, After, Dups
  <1> QED BY <1>1, <1>3, <1>4, <1>5, <1>6, <1>7 DEF LowNumbers

LEMMA CloseKeepsLow ==
  ASSUME TypeOK, LowNumbers, CloseAll
  PROVE  LowNumbers'
  <1>0. /\ pc = "close" /\ i \in Nat /\ Closing /\ UNCHANGED <<logfd, nulled>>
        /\ Stdio = {0, 1, 2} /\ Stdio \subseteq Numbers /\ fds \in [Numbers -> Kinds]
        /\ MAXFD \in Nat /\ MAXFD >= 9
    BY Constants DEF CloseAll, At, TypeOK, LowNumbers, log, Stdio
  <1>1. CASE i < MAXFD /\ i' = i + 1 /\ fds' = Close(fds, i) /\ UNCHANGED pc
    <2>1. /\ \A n \in Stdio : n # i => fds'[n] = fds[n]
          /\ \A n \in Stdio : n = i => fds'[n] = "free"
      BY <1>0, <1>1 DEF Close
    <2>2. /\ \A n \in Stdio : n >= i' => n # i /\ n >= i
          /\ \A n \in {1, 2} : n < i' => n = i \/ n < i
          /\ i' > 0
      BY <1>0, <1>1
    <2>3. \A n \in Stdio : n >= i' => Taken(n)'
      BY <1>0, <2>1, <2>2 DEF Closing, Taken
    <2>4. \A n \in {1, 2} : n < i' => ~Taken(n)'
      <3>1. \A n \in {1, 2} : n < i => ~Taken(n) /\ n # i /\ n \in Stdio
        BY <1>0 DEF Closing
      <3>2. \A n \in {1, 2} : n = i => ~Taken(n)'
        BY <1>0, <2>1 DEF Taken
      <3> QED BY <2>1, <2>2, <3>1, <3>2 DEF Taken
    <2>5. LogMayHaveZero' /\ (logfd = 0 => fds'[0] = "log")
      <3>1. CASE i = 0
        BY <1>0, <2>1, <3>1 DEF Closing, LogMayHaveZero
      <3>2. CASE i > 0
        BY <1>0, <2>1, <3>2 DEF Closing, LogMayHaveZero
      <3> QED BY <1>0, <3>1, <3>2
    <2>6. Closing'
      BY <1>0, <1>1, <2>2, <2>3, <2>4, <2>5 DEF Closing
    <2> QED BY <1>0, <1>1, <2>6
        DEF LowNumbers, TerminalLeft, Closed, Copying, OneMissing, Serving, Dups, After
  <1>2. CASE ~(i < MAXFD) /\ pc' = "null" /\ UNCHANGED <<i, fds>>
    <2>1. i > 0 /\ 1 < i
      BY <1>0, <1>2
    <2>2. Closed'
      BY <1>0, <1>2, <2>1 DEF Closing, Closed, LogMayHaveZero, Taken
    <2> QED BY <1>2, <2>2
        DEF LowNumbers, TerminalLeft, Closing, Copying, OneMissing, Serving, Dups, After
  <1> QED BY <1>1, <1>2 DEF CloseAll, Goto

LEMMA NullKeepsLow ==
  ASSUME TypeOK, Room, LowNumbers, OpenNull
  PROVE  LowNumbers'
  <1>0. /\ pc = "null" /\ Closed /\ UNCHANGED logfd
        /\ Stdio = {0, 1, 2} /\ Stdio \subseteq Numbers
    BY Constants DEF OpenNull, At, LowNumbers, log, Stdio
  <1>1. CASE i' = Lowest(fds) /\ fds' = Open(fds, "null") /\ pc' = "dup0"
    <2>1. 1 \in Numbers /\ fds[1] = "free"
      BY <1>0 DEF Closed, Taken
    <2>2. Lowest(fds) \in Numbers /\ Lowest(fds) <= 1 /\ fds[Lowest(fds)] = "free"
      BY <2>1, LowestIsLeast
    <2>3. Lowest(fds) \in {0, 1}
      BY <2>2, Constants
    <2>4. logfd # Lowest(fds)
      BY <1>0, <2>2, <2>3 DEF Closed
    <2>5. Open(fds, "null")[Lowest(fds)] = "null"
      BY <1>0, NullOpens
    <2>6. i' \in {0, 1} /\ fds'[i'] = "null" /\ logfd' # i'
      BY <1>0, <1>1, <2>3, <2>4, <2>5
    <2> QED BY <1>1, <2>6
        DEF LowNumbers, TerminalLeft, Closing, Closed, Copying, OneMissing, Serving, After
  <1>2. CASE pc' = "log2" /\ nulled' = FALSE
    BY <1>2
    DEF LowNumbers, TerminalLeft, Closing, Closed, Copying, OneMissing, Serving, Dups, After
  <1> QED BY <1>1, <1>2 DEF OpenNull, Goto

LEMMA DupKeepsLow ==
  ASSUME TypeOK, LowNumbers, DupAll \/ CloseNull
  PROVE  LowNumbers'
  <1>0. /\ pc \in Dups /\ i \in {0, 1} /\ fds[i] = "null" /\ logfd # i
        /\ UNCHANGED <<i, logfd, nulled>>
        /\ Stdio = {0, 1, 2} /\ Stdio \subseteq Numbers /\ fds \in [Numbers -> Kinds]
    <2>1. pc \in Dups /\ UNCHANGED <<i, logfd, nulled>>
      BY DEF DupAll, Dup2, CloseNull, At, Dups, log
    <2> QED BY <2>1, Constants DEF LowNumbers, Copying, TypeOK, Stdio
  <1>1. ASSUME NEW to \in Stdio, fds' = [fds EXCEPT ![to] = fds[i]]
        PROVE  /\ fds'[i] = "null" /\ Taken(to)'
               /\ \A n \in Stdio : Taken(n) => Taken(n)'
    <2>1. fds'[to] = "null" /\ \A n \in Stdio : n # to => fds'[n] = fds[n]
      BY <1>0, <1>1
    <2> QED BY <1>0, <2>1 DEF Taken
  <1>2. CASE Dup2("dup0", 0, "dup1")
    <2>1. pc' = "dup1" /\ fds' = [fds EXCEPT ![0] = fds[i]] /\ 0 \in Stdio
      BY <1>0, <1>2 DEF Dup2, Goto
    <2>2. Copying'
      BY <1>0, <1>1, <2>1 DEF Copying
    <2> QED BY <2>1, <2>2
        DEF LowNumbers, TerminalLeft, Closing, Closed, OneMissing, Serving, After
  <1>3. CASE Dup2("dup1", 1, "dup2")
    <2>1. pc = "dup1" /\ pc' = "dup2" /\ fds' = [fds EXCEPT ![1] = fds[i]] /\ 1 \in Stdio
      BY <1>0, <1>3 DEF Dup2, Goto, At
    <2>2. Taken(0)
      BY <2>1 DEF LowNumbers, Copying
    <2>3. Copying'
      BY <1>0, <1>1, <2>1, <2>2 DEF Copying
    <2> QED BY <2>1, <2>3
        DEF LowNumbers, TerminalLeft, Closing, Closed, OneMissing, Serving, After
  <1>4. CASE Dup2("dup2", 2, "closenull")
    <2>1. pc = "dup2" /\ pc' = "closenull" /\ fds' = [fds EXCEPT ![2] = fds[i]] /\ 2 \in Stdio
      BY <1>0, <1>4 DEF Dup2, Goto, At
    <2>2. Taken(0) /\ Taken(1)
      BY <2>1 DEF LowNumbers, Copying
    <2>3. Copying'
      BY <1>0, <1>1, <2>1, <2>2 DEF Copying
    <2> QED BY <2>1, <2>3
        DEF LowNumbers, TerminalLeft, Closing, Closed, OneMissing, Serving, After
  <1>5. CASE CloseNull
    <2>1. pc = "closenull" /\ pc' = "log2" /\ fds' = Close(fds, i)
      BY <1>0, <1>5 DEF CloseNull, Goto, At
    <2>2. \A n \in Stdio \ {i} : Taken(n)'
      BY <1>0, <2>1 DEF LowNumbers, Copying, Close, Taken
    <2>3. i \in Stdio
      BY <1>0
    <2>4. OneMissing'
      BY <2>2, <2>3 DEF OneMissing, Taken
    <2> QED BY <2>1, <2>4
        DEF LowNumbers, TerminalLeft, Closing, Closed, Copying, Serving, Dups, After
  <1> QED BY <1>2, <1>3, <1>4, <1>5 DEF DupAll

LEMMA ServerKeepsLow ==
  ASSUME TypeOK, Finding, Room, LowNumbers, start_server
  PROVE  LowNumbers'
  <1>0. /\ Stdio = {0, 1, 2} /\ Stdio \subseteq Numbers
        /\ pc \in {"event_init"} \cup After /\ pc' \in After /\ UNCHANGED nulled
    BY Constants DEF start_server, EventInit, Listen, Serve, At, Goto, After, Stdio
  <1>1. SUFFICES ASSUME nulled PROVE \A n \in Stdio : fds'[n] \notin {"free", "listen", "client"}
    BY <1>0 DEF LowNumbers, TerminalLeft, Closing, Closed, Copying, OneMissing, Serving, Dups, After
  <1>2. CASE EventInit
    <2>1. pc = "event_init" /\ \A n \in Numbers : fds[n] \notin Server
      BY <1>2 DEF EventInit, At, Finding, Before
    <2>2. PICK z \in Stdio : \A n \in Stdio \ {z} : Taken(n)
      BY <1>1, <2>1 DEF LowNumbers, OneMissing
    <2>3. /\ \A n \in Numbers : fds[n] # "free" => fds'[n] = fds[n]
          /\ \A n \in Numbers : fds'[n] = fds[n] \/ fds'[n] = "event"
      BY <1>2, EventInitOpens
    <2>4. PICK low \in Numbers : /\ fds[low] = "free" /\ fds'[low] # "free"
                                 /\ \A m \in 0..low-1 : fds[m] # "free"
      BY <1>2, EventInitOpens
    <2>5. fds[z] = "free" => z = low
      <3>1. \A n \in Stdio : ~(n \in 0..low-1) => n >= low
        BY <1>0, Constants
      <3>2. fds[z] = "free" => z >= low
        BY <2>4, <3>1
      <3>3. low <= z => low \in Stdio
        BY <1>0, Constants
      <3>4. z >= low => low <= z
        BY <1>0, Constants
      <3> QED BY <2>2, <2>4, <3>2, <3>3, <3>4 DEF Taken
    <2>6. \A n \in Stdio : fds'[n] # "free"
      BY <1>0, <2>2, <2>3, <2>4, <2>5 DEF Taken
    <2> QED BY <1>0, <2>1, <2>3, <2>6 DEF Server
  <1>3. CASE ~EventInit
    <2>1. pc \in After
      BY <1>3 DEF start_server, Listen, Serve, At, After
    <2>2. \A n \in Stdio : fds[n] \notin {"free", "listen", "client"}
      BY <1>1, <2>1 DEF LowNumbers, Serving
    <2> QED BY <1>0, <2>2, ServerKeeps DEF Kept
  <1> QED BY <1>2, <1>3

LEMMA LowNumbersNext ==
  ASSUME TypeOK, Finding, Room, LowNumbers, [Next]_vars
  PROVE  LowNumbers'
  <1>1. CASE Calm
    BY <1>1 DEF Calm, LowNumbers, TerminalLeft, Closing, Closed, Copying, OneMissing, Serving,
       LogMayHaveZero, Taken
  <1>2. CASE Send /\ UNCHANGED <<i, pc, nulled>>
    <2>1. CASE UNCHANGED <<logfd, fds, trespass>>
      BY <1>2, <2>1 DEF LowNumbers, TerminalLeft, Closing, Closed, Copying, OneMissing, Serving,
         LogMayHaveZero, Taken
    <2> QED BY <1>2, <2>1, SendEffect, ReconnectKeepsLow
  <1>3. CASE SyslogEnter
    BY <1>2, <1>3 DEF SyslogEnter
  <1>4. CASE Options \/ SyslogLeave \/ Fork1 \/ Signal
    <2>1. UNCHANGED <<fds, logfd, i, nulled>>
      BY <1>4 DEF Options, SyslogLeave, Fork1, Signal, log
    <2>2. CASE pc' = pc
      BY <2>1, <2>2 DEF LowNumbers, TerminalLeft, Closing, Closed, Copying, OneMissing, Serving,
         LogMayHaveZero, Taken
    <2>3. CASE /\ pc \in {"options", "log1", "fork1", "signal"}
               /\ pc' \in {"log1", "fork1", "signal", "fork2"}
      BY <2>1, <2>3 DEF LowNumbers, TerminalLeft, Closing, Closed, Copying, OneMissing, Serving,
         Taken, Dups, After
    <2>4. CASE pc \in {"log1", "fork1"} /\ pc' = "log2"
      <3>1. 0 \in Stdio /\ \A n \in Stdio \ {0} : Taken(n)'
        BY <2>1, <2>4 DEF LowNumbers, TerminalLeft, Taken, Stdio
      <3>2. OneMissing'
        BY <3>1 DEF OneMissing, Taken
      <3> QED BY <2>4, <3>2 DEF LowNumbers, TerminalLeft, Closing, Closed, Copying, Serving, Dups, After
    <2>5. CASE pc = "log2" /\ pc' = "event_init"
      BY <2>1, <2>5 DEF LowNumbers, TerminalLeft, Closing, Closed, Copying, OneMissing, Serving,
         Taken, Dups, After
    <2>6. pc' = pc \/ (pc \in {"log1", "fork1"} /\ pc' = "log2") \/ (pc = "log2" /\ pc' = "event_init")
          \/ (/\ pc \in {"options", "log1", "fork1", "signal"}
              /\ pc' \in {"log1", "fork1", "signal", "fork2"})
      <3>1. CASE SyslogLeave
        BY <3>1 DEF SyslogLeave, Goto
      <3>2. CASE Options \/ Fork1 \/ Signal
        BY <3>2 DEF Options, Fork1, Signal, At, Goto
      <3> QED BY <1>4, <3>1, <3>2
    <2> QED BY <2>2, <2>3, <2>4, <2>5, <2>6
  <1>5. CASE Fork2
    <2>1. /\ pc = "fork2" /\ pc' = "close" /\ i' = 0 /\ UNCHANGED <<fds, logfd>>
          /\ 1 \in Stdio /\ 2 \in Stdio /\ 0 \in Stdio
      BY <1>5 DEF Fork2, At, Goto, log, Stdio
    <2>2. (\A n \in Stdio : Taken(n)) /\ logfd \notin Stdio
      BY <2>1 DEF LowNumbers, TerminalLeft
    <2>3. Closing'
      BY <2>1, <2>2 DEF Closing, Taken
    <2> QED BY <2>1, <2>3
        DEF LowNumbers, TerminalLeft, Closed, Copying, OneMissing, Serving, Dups, After
  <1>6. CASE HandlerLog
    <2>1. CASE lock = "none"
      BY <1>2, <1>6, <2>1 DEF HandlerLog
    <2>2. CASE lock # "none"
      BY <1>1, <1>6, <2>2, CalmSteps DEF HandlerLog
    <2> QED BY <2>1, <2>2
  <1>7. CASE UNCHANGED vars \/ Deliver("hup") \/ Deliver("term") \/ Kill \/ HandlerDone
    BY <1>1, <1>7, CalmSteps
  <1> QED BY <1>3, <1>4, <1>5, <1>6, <1>7, CloseKeepsLow, NullKeepsLow, DupKeepsLow, ServerKeepsLow
      DEF Next, daemonize, signal_handler

-----------------------------------------------------------------------------

LEMMA Invariance == Spec => []Inv
  <1>1. Init => Inv
    BY TypeInit, HangupInit, FindingInit, RoomInit, LowNumbersInit DEF Inv
  <1>2. Inv /\ [Next]_vars => Inv'
    BY TypeNext, HangupNext, FindingNext, RoomNext, LowNumbersNext DEF Inv
  <1> QED BY <1>1, <1>2, PTL DEF Spec

(* SIGTERM alone never hangs a server that serves: signal_handler waits for    *)
(* syslog's lock for ever only behind main's own syslog, which it calls outside *)
(* of event_dispatch, or behind the handler of a SIGHUP.                         *)
THEOREM TerminationNeedsAHangup == Spec => []StuckNeedsHangup
  BY Invariance, PTL DEF Inv, Hangup

(* syslog never sends on, or closes, a descriptor the server opened, for every   *)
(* size of the descriptor table and however often handlers log while daemonize   *)
(* closes descriptors behind its back.                                           *)
THEOREM LogFindsItsLossInTime == Spec => []LogKeepsToItself
  BY Invariance, PTL DEF Inv

(* With /dev/null, 0, 1 and 2 are never a listening socket or a client,           *)
(* although daemonize closes the descriptor of /dev/null when it is 0 or 1.       *)
THEOREM NoSocketBelowThree == Spec => []SocketsAboveStdio
  <1>1. Inv => SocketsAboveStdio
    <2> SUFFICES ASSUME Inv, nulled, NEW n \in Stdio PROVE fds[n] \notin {"listen", "client"}
      BY DEF SocketsAboveStdio, Stdio
    <2>1. CASE pc \in Before
      BY <2>1, Constants DEF Inv, Finding, Server
    <2>2. CASE pc \in After
      BY <2>2 DEF Inv, LowNumbers, Serving
    <2> QED BY <2>1, <2>2 DEF Inv, TypeOK
  <1> QED BY <1>1, Invariance, PTL

=============================================================================
