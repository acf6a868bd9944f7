--------------------------- MODULE Programs_proofs ---------------------------
(* Proofs about the programs of Programs, for all values of the constants:    *)
(* any number of sleeps and ticks, senders, and lines typed.                    *)
EXTENDS Programs, SequenceTheorems, FiniteSetTheorems, WellFoundedInduction, TLAPS

(* The strengthening of NoHalfOutput: the output exists only while main is     *)
(* between fopen and fclose, and nothing kills it there.                         *)
OutputWhileOpen ==
  /\ program # "sigwait" => out = "absent"
  /\ out = "partial" => main \in {"opened", "waiting", "joining", "joined"}

(* The strengthening of UseAfterFreeNeedsLateSigint: once main has left the    *)
(* loop the thread is past its own loopbreak, or asleep and cancelled, and will   *)
(* not touch the base; unless a late SIGINT broke the loop.                       *)
OutOfLoop == main \in {"cancelling", "freeing"} \/ (main = "looping" /\ loopBreak)
PastLoopbreak ==
  \/ lateCancel
  \/ thread \in {"broke", "ended", "cancelled"}
  \/ thread = "asleep" /\ cancel
ThreadAndBase ==
  /\ program # "timer" => badUse = FALSE /\ base = "live"
  /\ program = "timer" =>
       /\ thread \in {"none", "asleep", "awake", "broke", "ended", "cancelled"}
       /\ base \in {"live", "freed"} /\ cancel \in BOOLEAN
       /\ thread = "none" => main \in {"start", "killed"}
       /\ OutOfLoop => PastLoopbreak
       /\ base = "freed" => main \in {"freeing", "exited", "killed"}
       /\ Timer!UseAfterFreeNeedsLateSigint

(* The strengthening of HealthyService: as long as nobody hurts the service,   *)
(* every datagram on its way is something a sender has said, or the answer to     *)
(* something the sender it goes to has said.                                       *)
SaidOrAnswered(d) ==
  \/ d.from \in Senders /\ d.to = Receiver /\ d.data \in said[d.from]
  \/ d.from = Receiver /\ d.to \in Senders /\ \E text \in said[d.to] : d.data = Udp!Answer(text)
Service ==
  /\ said \in [Senders -> SUBSET SenderTyped]
  /\ ssoc \in [Senders -> {"open", "closed", "ended"}]
  /\ DOMAIN shown = Senders
  /\ hurt \in BOOLEAN
  /\ ~hurt => \A d \in net : SaidOrAnswered(d)
  /\ HealthyService


-----------------------------------------------------------------------------
(* thread/.                                                                 *)

LEMMA OutputInit == Init => OutputWhileOpen
  BY DEF Init, Sigwait!Init, OutputWhileOpen

LEMMA OutputNext == OutputWhileOpen /\ [Next]_vars => OutputWhileOpen'
  <1> SUFFICES ASSUME OutputWhileOpen, [Next]_vars PROVE OutputWhileOpen'
    OBVIOUS
  <1>1. CASE SigwaitRuns /\ Sigwait!Next
    <2>0. program = "sigwait" /\ program' = "sigwait"
      BY <1>1 DEF SigwaitRuns
    <2>1. CASE \E s \in External : Sigwait!Signal(s)
      <3>1. PICK s \in External : Sigwait!Signal(s)
        BY <2>1
      <3>2. s \in Sigwait!signals
        BY ProgramsAssumption DEF ProgramsAssumption, Sigwait!signals
      <3> QED BY <2>0, <3>1, <3>2 DEF OutputWhileOpen, Sigwait!Signal
    <2>2. CASE Sigwait!Main
      BY <2>0, <2>2 DEF OutputWhileOpen, Sigwait!Main, Sigwait!Mask, Sigwait!Open, Sigwait!Create,
         Sigwait!Sigwait, Sigwait!Join, Sigwait!Finish
    <2>3. CASE Sigwait!main_thread
      BY <2>0, <2>3 DEF OutputWhileOpen, Sigwait!main_thread, Sigwait!Sleep, Sigwait!Cancelled,
         Sigwait!Raise, Sigwait!Exit
    <2> QED BY <1>1, <2>1, <2>2, <2>3 DEF Sigwait!Next
  <1>2. CASE TimerRuns
    BY <1>2 DEF OutputWhileOpen, TimerRuns, sigwait
  <1>3. CASE HelperRuns \/ ClientRuns \/ UdpRuns \/ TermRuns \/ UNCHANGED vars
    BY <1>3 DEF OutputWhileOpen, HelperRuns, ClientRuns, UdpRuns, TermRuns, vars, threads, sigwait
  <1> QED BY <1>1, <1>2, <1>3 DEF Next

(* However the program of thread/ ends, by itself or by a signal, for any       *)
(* number of sleeps and any of the four signals: no output is left half done.     *)
THEOREM OutputIsWholeOrNone == Spec => []NoHalfOutput
  <1>1. OutputWhileOpen => NoHalfOutput
    BY DEF OutputWhileOpen, NoHalfOutput, Sigwait!NoHalfOutput, Sigwait!Ended
  <1> QED BY <1>1, OutputInit, OutputNext, PTL DEF Spec

-----------------------------------------------------------------------------
(* timer/.                                                                  *)

LEMMA BaseInit == Init => ThreadAndBase
  BY DEF Init, Timer!Init, ThreadAndBase, OutOfLoop, Timer!UseAfterFreeNeedsLateSigint

LEMMA BaseNext == ThreadAndBase /\ [Next]_vars => ThreadAndBase'
  <1> SUFFICES ASSUME ThreadAndBase, [Next]_vars PROVE ThreadAndBase'
    OBVIOUS
  <1>1. CASE TimerRuns /\ Timer!Next
    <2> USE DEF OutOfLoop, PastLoopbreak, Timer!UseAfterFreeNeedsLateSigint
    <2>0. program = "timer" /\ program' = "timer"
      BY <1>1 DEF TimerRuns
    <2>1. CASE Timer!Create \/ Timer!AddEvents \/ Timer!Dispatch \/ Timer!timer_handler
      BY <2>0, <2>1 DEF ThreadAndBase, Timer!Create, Timer!AddEvents, Timer!Dispatch,
         Timer!timer_handler
    <2>2. CASE Timer!sigint_handler
      BY <2>0, <2>2 DEF ThreadAndBase, Timer!sigint_handler, Timer!Cancellable
    <2>3. CASE Timer!LoopEnds
      BY <2>0, <2>3 DEF ThreadAndBase, Timer!LoopEnds
    <2>4. CASE Timer!Cancel
      <3>1. PastLoopbreak'
        BY <2>0, <2>4 DEF ThreadAndBase, Timer!Cancel
      <3>2. cancel' \in BOOLEAN
        BY <2>0, <2>4 DEF ThreadAndBase, Timer!Cancel, Timer!Cancellable
      <3> QED BY <2>0, <2>4, <3>1, <3>2 DEF ThreadAndBase, Timer!Cancel
    <2>5. CASE Timer!Free \/ Timer!Exit
      BY <2>0, <2>5 DEF ThreadAndBase, Timer!Free, Timer!Exit
    <2>6. CASE Timer!Wake
      BY <2>0, <2>6 DEF ThreadAndBase, Timer!Wake
    <2>7. CASE Timer!Cancelled
      BY <2>0, <2>7 DEF ThreadAndBase, Timer!Cancelled
    <2>8. CASE Timer!ThreadExit
      BY <2>0, <2>8 DEF ThreadAndBase, Timer!ThreadExit
    <2>9. CASE Timer!BreakLoop
      <3>1. base = "freed" => lateCancel
        BY <2>0, <2>9 DEF ThreadAndBase, Timer!BreakLoop, Timer!Ended
      <3> QED BY <2>0, <2>9, <3>1 DEF ThreadAndBase, Timer!BreakLoop
    <2>10. CASE Timer!Sigint
      BY <2>0, <2>10 DEF ThreadAndBase, Timer!Sigint
    <2> QED BY <1>1, <2>1, <2>2, <2>3, <2>4, <2>5, <2>6, <2>7, <2>8, <2>9, <2>10
        DEF Timer!Next, Timer!Main, Timer!thread_func
  <1>2. CASE SigwaitRuns
    BY <1>2 DEF ThreadAndBase, SigwaitRuns, timer
  <1>3. CASE HelperRuns \/ ClientRuns \/ UdpRuns \/ TermRuns \/ UNCHANGED vars
    BY <1>3 DEF ThreadAndBase, OutOfLoop, PastLoopbreak, Timer!UseAfterFreeNeedsLateSigint,
       HelperRuns, ClientRuns, UdpRuns, TermRuns, vars, threads, timer
  <1> QED BY <1>1, <1>2, <1>3 DEF Next

(* However often the timer fires and whenever SIGINT comes: the thread touches   *)
(* the base after main freed it only if the handler cancelled it in the instants  *)
(* between its sleep and its loopbreak.                                           *)
THEOREM FreedBaseNeedsLateSigint == Spec => []UseAfterFreeNeedsLateSigint
  <1>1. ThreadAndBase => UseAfterFreeNeedsLateSigint
    BY DEF ThreadAndBase, UseAfterFreeNeedsLateSigint, Timer!UseAfterFreeNeedsLateSigint
  <1> QED BY <1>1, BaseInit, BaseNext, PTL DEF Spec

-----------------------------------------------------------------------------
(* network/.  The first line of an answer.                                  *)

LEMMA LeastExists ==
  ASSUME NEW T \in SUBSET Nat, T # {}
  PROVE  \E m \in T : \A k \in T : m <= k
  <1>1. PICK m \in T : \A k \in T : ~(<<k, m>> \in OpToRel(<, Nat))
    BY WFMin, NatLessThanWellFounded
  <1>2. \A k \in T : ~ (k < m)
    BY <1>1 DEF OpToRel
  <1> QED BY <1>2

(* What strpbrk leaves of a datagram has no newline.                          *)
LEMMA FirstLineHasNoNewline ==
  ASSUME NEW S, NEW data \in Seq(S)
  PROVE  /\ Udp!FirstLine(data) \in Seq(S)
         /\ \A k \in 1..Len(Udp!FirstLine(data)) : Udp!FirstLine(data)[k] # "nl"
  <1> DEFINE ends == {k \in 1..Len(data) : data[k] = "nl"}
  <1>0. Len(data) \in Nat /\ \A k \in 1..Len(data) : data[k] \in S
    BY LenProperties, ElementOfSeq
  <1>1. CASE ends = {}
    <2>1. Udp!FirstLine(data) = data
      BY <1>1 DEF Udp!FirstLine
    <2> QED BY <1>1, <2>1
  <1>2. CASE ends # {}
    <2>1. ends \in SUBSET Nat
      BY <1>0
    <2>2. \E k \in ends : \A m \in ends : k <= m
      BY <1>2, <2>1, LeastExists
    <2>3. PICK first : first = CHOOSE k \in ends : \A m \in ends : k <= m
      OBVIOUS
    <2>4. first \in ends /\ \A m \in ends : first <= m
      BY <2>2, <2>3
    <2>5. first \in Nat /\ first >= 1 /\ first <= Len(data)
      BY <1>0, <2>4
    <2>6. Udp!FirstLine(data) = SubSeq(data, 1, first - 1)
      BY <1>2, <2>3 DEF Udp!FirstLine
    <2>7. first - 1 \in Int /\ \A k \in 1..(first - 1) : k \in 1..Len(data) /\ ~(first <= k)
      BY <1>0, <2>5
    <2>8. /\ SubSeq(data, 1, first - 1) \in Seq(S)
          /\ Len(SubSeq(data, 1, first - 1)) = first - 1
          /\ \A k \in 1..(first - 1) : SubSeq(data, 1, first - 1)[k] = data[k]
      <3>1. \A k \in 1..(first - 1) : data[k] \in S
        BY <1>0, <2>7
      <3> QED BY <2>5, <2>7, <3>1, SubSeqProperties
    <2>9. \A k \in 1..(first - 1) : data[k] # "nl"
      BY <2>4, <2>7
    <2> QED BY <2>6, <2>8, <2>9
  <1> QED BY <1>1, <1>2

(* A sender that shows the first line of an answer shows the line that was     *)
(* answered, with ":OK".                                                       *)
LEMMA FirstLineOfAnswer ==
  ASSUME NEW S, "ok" \in S, "nl" \in S, NEW data \in Seq(S)
  PROVE  /\ Udp!Answer(data) # <<>>
         /\ Udp!FirstLine(Udp!Answer(data)) = Append(Udp!FirstLine(data), "ok")
  <1>1. PICK line \in Seq(S) : line = Udp!FirstLine(data)
    BY FirstLineHasNoNewline
  <1>2. Len(line) \in Nat /\ \A k \in 1..Len(line) : line[k] # "nl"
    BY <1>1, FirstLineHasNoNewline, LenProperties
  <1>3. PICK answer : answer = line \o <<"ok", "nl">>
    OBVIOUS
  <1>4. /\ answer \in Seq(S) /\ Len(answer) = Len(line) + 2
        /\ \A k \in 1..Len(line) : answer[k] = line[k]
        /\ answer[Len(line) + 1] = "ok" /\ answer[Len(line) + 2] = "nl"
    <2>1. <<"ok", "nl">> \in Seq(S) /\ Len(<<"ok", "nl">>) = 2
      OBVIOUS
    <2>2. /\ answer \in Seq(S) /\ Len(answer) = Len(line) + 2
          /\ \A k \in 1..Len(line) + 2 :
               answer[k] = IF k <= Len(line) THEN line[k] ELSE <<"ok", "nl">>[k - Len(line)]
      BY <1>3, <2>1, ConcatProperties
    <2>3. /\ (Len(line) + 1) - Len(line) = 1 /\ (Len(line) + 2) - Len(line) = 2
          /\ Len(line) + 1 \in 1..Len(line) + 2 /\ Len(line) + 2 \in 1..Len(line) + 2
          /\ ~(Len(line) + 1 <= Len(line)) /\ ~(Len(line) + 2 <= Len(line))
      BY <1>2
    <2>4. \A k \in 1..Len(line) : k \in 1..Len(line) + 2 /\ k <= Len(line)
      BY <1>2
    <2> QED BY <2>2, <2>3, <2>4
  <1>5. {k \in 1..Len(answer) : answer[k] = "nl"} = {Len(line) + 2}
    <2>1. \A k \in 1..Len(answer) : k \in 1..Len(line) \/ k = Len(line) + 1 \/ k = Len(line) + 2
      BY <1>2, <1>4
    <2>2. Len(line) + 2 \in 1..Len(answer)
      BY <1>2, <1>4
    <2> QED BY <1>2, <1>4, <2>1, <2>2
  <1>6. Udp!FirstLine(answer) = SubSeq(answer, 1, Len(line) + 1)
    <2>1. (CHOOSE k \in {Len(line) + 2} : \A m \in {Len(line) + 2} : k <= m) = Len(line) + 2
      BY <1>2
    <2>2. (Len(line) + 2) - 1 = Len(line) + 1
      BY <1>2
    <2>3. Udp!FirstLine(answer) = SubSeq(answer, 1, (Len(line) + 2) - 1)
      BY <1>5, <2>1 DEF Udp!FirstLine
    <2> QED BY <2>2, <2>3
  <1>7. SubSeq(answer, 1, Len(line) + 1) = Append(line, "ok")
    <2>1. /\ SubSeq(answer, 1, Len(line) + 1) \in Seq(S)
          /\ Len(SubSeq(answer, 1, Len(line) + 1)) = Len(line) + 1
          /\ \A k \in 1..Len(line) + 1 : SubSeq(answer, 1, Len(line) + 1)[k] = answer[k]
      <3>1. \A k \in 1..Len(line) + 1 : answer[k] \in S
        BY <1>2, <1>4, ElementOfSeq
      <3> QED BY <1>2, <3>1, SubSeqProperties
    <2>2. /\ Append(line, "ok") \in Seq(S) /\ Len(Append(line, "ok")) = Len(line) + 1
          /\ \A k \in 1..Len(line) : Append(line, "ok")[k] = line[k]
          /\ Append(line, "ok")[Len(line) + 1] = "ok"
      BY <1>2, AppendProperties
    <2>3. \A k \in 1..Len(line) + 1 : SubSeq(answer, 1, Len(line) + 1)[k] = Append(line, "ok")[k]
      <3>1. \A k \in 1..Len(line) + 1 : k \in 1..Len(line) \/ k = Len(line) + 1
        BY <1>2
      <3> QED BY <1>4, <2>1, <2>2, <3>1
    <2>4. Len(SubSeq(answer, 1, Len(line) + 1)) = Len(Append(line, "ok"))
      BY <2>1, <2>2
    <2> QED BY <2>1, <2>2, <2>3, <2>4, SeqEqual
  <1>8. answer # <<>>
    BY <1>2, <1>4, EmptySeq
  <1> QED BY <1>1, <1>3, <1>6, <1>7, <1>8 DEF Udp!Answer

LEMMA AnswersAreShown ==
  ASSUME NEW data \in SenderTyped
  PROVE  /\ data # <<>> /\ Udp!Answer(data) # <<>>
         /\ Udp!FirstLine(Udp!Answer(data)) = Append(Udp!FirstLine(data), "ok")
  <1> DEFINE S == STRING \cup {"ok", "nl"}
  <1>1. data \in Seq(STRING) /\ data # <<>>
    BY ProgramsAssumption DEF ProgramsAssumption
  <1>2. \A A, B : A \subseteq B => \A s \in Seq(A) : s \in Seq(B)
    OBVIOUS
  <1>3. data \in Seq(S)
    <2>1. STRING \subseteq S
      OBVIOUS
    <2> HIDE DEF S
    <2> QED BY <1>1, <1>2, <2>1
  <1>4. "ok" \in S /\ "nl" \in S
    OBVIOUS
  <1> HIDE DEF S
  <1> QED BY <1>1, <1>3, <1>4, FirstLineOfAnswer

LEMMA ServiceInit == Init => Service
  BY DEF Init, Udp!Init, Service, HealthyService, Udp!HealthyService

(* What an arrival leaves in the network.                                    *)
LEMMA DeliverLeaves ==
  ASSUME NEW d, NEW answers, Udp!Deliver(d, answers)
  PROVE  net' \subseteq net \cup answers
  BY DEF Udp!Deliver

(* A step keeps the network honest if what it adds is honest: nobody forgets   *)
(* what it has said.                                                          *)
LEMMA StaysHonest ==
  ASSUME Service, ~hurt, NEW answers, net' \subseteq net \cup answers,
         \A s \in Senders : said[s] \subseteq said'[s],
         \A d \in answers : SaidOrAnswered(d)'
  PROVE  \A d \in net' : SaidOrAnswered(d)'
  <1>1. \A d \in net : SaidOrAnswered(d) => SaidOrAnswered(d)'
    BY DEF SaidOrAnswered
  <1> QED BY <1>1 DEF Service

LEMMA StaysHonestAlone ==
  ASSUME Service, ~hurt, net' \subseteq net, \A s \in Senders : said[s] \subseteq said'[s]
  PROVE  \A d \in net' : SaidOrAnswered(d)'
  <1>1. \A d \in net : SaidOrAnswered(d) => SaidOrAnswered(d)'
    BY DEF SaidOrAnswered
  <1> QED BY <1>1 DEF Service

LEMMA ServiceNext == Service /\ [Next]_vars => Service'
  <1> SUFFICES ASSUME Service, [Next]_vars PROVE Service'
    OBVIOUS
  <1>1. CASE UdpRuns /\ Udp!Next
    <2> DEFINE ToReceiver(d) == d.from \in Senders /\ d.data \in said[d.from]
    <2>a. ASSUME hurt', said' \in [Senders -> SUBSET SenderTyped], hurt' \in BOOLEAN,
                 ssoc' \in [Senders -> {"open", "closed", "ended"}], DOMAIN shown' = Senders
          PROVE  Service'
      BY <2>a DEF Service, HealthyService, Udp!HealthyService
    <2>b. /\ said \in [Senders -> SUBSET SenderTyped] /\ hurt \in BOOLEAN
          /\ ssoc \in [Senders -> {"open", "closed", "ended"}] /\ DOMAIN shown = Senders
      BY DEF Service
    <2>c. ~hurt => /\ \A d \in net : SaidOrAnswered(d)
                   /\ rsoc = "closed" \/ status # "running" => told
                   /\ \A s \in Senders :
                        /\ ssoc[s] # "closed"
                        /\ \A line \in shown[s] :
                             \E text \in said[s] : line = Append(Udp!FirstLine(text), "ok")
      BY DEF Service, HealthyService, Udp!HealthyService
    <2>d. ASSUME NEW d \in net, d.to = Receiver, ~hurt
          PROVE  d.from \in Senders /\ d.data \in said[d.from] /\ d.data \in SenderTyped
      BY <2>b, <2>c, <2>d, ProgramsAssumption DEF ProgramsAssumption, SaidOrAnswered
    <2>e. ASSUME NEW d \in net, NEW s \in Senders, d.to = s, ~hurt
          PROVE  \E text \in said[s] : text \in SenderTyped /\ d.data = Udp!Answer(text)
      BY <2>b, <2>c, <2>e, ProgramsAssumption DEF ProgramsAssumption, SaidOrAnswered
    <2>1. CASE \E d \in net : Udp!Lose(d)
      <3>1. /\ UNCHANGED <<rsoc, status, told, ssoc, shown, said, hurt>>
            /\ net' \subseteq net
        BY <2>1 DEF Udp!Lose, Udp!receiver, Udp!sender
      <3>2. ~hurt => \A d \in net' : SaidOrAnswered(d)'
        BY <3>1, StaysHonestAlone
      <3> QED BY <2>b, <2>c, <3>1, <3>2 DEF Service, HealthyService, Udp!HealthyService
    <2>2. CASE \E d \in net : Udp!recv_handler(d)
      <3>1. PICK d \in net : Udp!recv_handler(d)
        BY <2>2
      <3>2. UNCHANGED <<ssoc, shown, said, hurt>> /\ d.to = Receiver
        BY <3>1 DEF Udp!recv_handler, Udp!sender
      <3>3. CASE d.data = <<>> \/ Udp!FirstLine(d.data) = <<"shutdown">>
        <4>1. Udp!Deliver(d, {}) /\ (d.data # <<>> => told' = TRUE)
          BY <3>1, <3>3 DEF Udp!recv_handler
        <4>2. ~hurt => told'
          BY <2>d, <3>2, <4>1, AnswersAreShown
        <4>3. ~hurt => \A e \in net' : SaidOrAnswered(e)'
          <5>1. net' \subseteq net
            BY <4>1, DeliverLeaves
          <5> QED BY <3>2, <5>1, StaysHonestAlone
        <4> QED BY <2>b, <2>c, <3>2, <4>2, <4>3 DEF Service, HealthyService, Udp!HealthyService
      <3>4. CASE ~(d.data = <<>> \/ Udp!FirstLine(d.data) = <<"shutdown">>)
        <4>1. /\ Udp!Deliver(d, {Udp!Datagram(Receiver, d.from, Udp!Answer(d.data))})
              /\ UNCHANGED <<rsoc, status, told>>
          BY <3>1, <3>4 DEF Udp!recv_handler, Udp!receiver
        <4>2. ASSUME ~hurt PROVE SaidOrAnswered(Udp!Datagram(Receiver, d.from, Udp!Answer(d.data)))'
          BY <2>d, <3>2, <4>2 DEF SaidOrAnswered, Udp!Datagram
        <4>3. ~hurt => \A e \in net' : SaidOrAnswered(e)'
          BY <3>2, <4>1, <4>2, DeliverLeaves, StaysHonest
        <4> QED BY <2>b, <2>c, <3>2, <4>1, <4>3 DEF Service, HealthyService, Udp!HealthyService
      <3> QED BY <3>3, <3>4
    <2>3. CASE Udp!recv_handler_fails \/ (\E d \in net : Udp!recv_handler_sendto_fails(d))
               \/ \E to \in Senders \cup {Receiver} : Udp!Empty(to)
      <3>1. hurt' = TRUE /\ UNCHANGED <<ssoc, shown, said>>
        BY <2>3 DEF Udp!recv_handler_fails, Udp!recv_handler_sendto_fails, Udp!Empty, Udp!Hurts,
           Udp!sender
      <3> QED BY <2>a, <2>b, <3>1
    <2>4. CASE \E s \in Senders : Udp!sender_recv_fails(s)
      <3>1. hurt' = TRUE /\ UNCHANGED <<shown, said>>
        BY <2>4 DEF Udp!sender_recv_fails, Udp!Hurts
      <3>2. ssoc' \in [Senders -> {"open", "closed", "ended"}]
        BY <2>b, <2>4 DEF Udp!sender_recv_fails
      <3> QED BY <2>a, <2>b, <3>1, <3>2
    <2>5. CASE \E s \in Senders : Udp!stdin_handler_fails(s)
      <3>1. PICK s \in Senders : Udp!stdin_handler_fails(s)
        BY <2>5
      <3>2. UNCHANGED <<net, rsoc, status, told, shown, said>>
        BY <3>1 DEF Udp!stdin_handler_fails, Udp!receiver
      <3>3. ssoc' \in [Senders -> {"open", "closed", "ended"}]
        BY <2>b, <3>1 DEF Udp!stdin_handler_fails
      <3>4. hurt' = TRUE \/ (UNCHANGED hurt /\ ssoc[s] = "closed")
        BY <3>1 DEF Udp!stdin_handler_fails, Udp!Hurts
      <3>5. CASE hurt' = TRUE
        BY <2>a, <2>b, <3>2, <3>3, <3>5
      <3>6. CASE UNCHANGED hurt /\ ssoc[s] = "closed"
        BY <2>a, <2>b, <2>c, <3>2, <3>3, <3>6
      <3> QED BY <3>4, <3>5, <3>6
    <2>6. CASE \E s \in Senders : Udp!sender_sig_int(s)
      <3>1. PICK s \in Senders : Udp!sender_sig_int(s)
        BY <2>6
      <3>2. UNCHANGED <<net, rsoc, status, told, shown, said, hurt>>
        BY <3>1 DEF Udp!sender_sig_int, Udp!receiver
      <3>3. /\ ssoc' \in [Senders -> {"open", "closed", "ended"}]
            /\ \A r \in Senders : ssoc[r] # "closed" => ssoc'[r] # "closed"
        BY <2>b, <3>1 DEF Udp!sender_sig_int
      <3> QED BY <2>b, <2>c, <3>2, <3>3 DEF Service, HealthyService, Udp!HealthyService, SaidOrAnswered
    <2>7. CASE \E s \in Senders, text \in SenderTyped : Udp!stdin_handler(s, text)
      <3>1. PICK s \in Senders, text \in SenderTyped : Udp!stdin_handler(s, text)
        BY <2>7
      <3>2. UNCHANGED <<rsoc, status, told, ssoc, shown, hurt>>
        BY <3>1 DEF Udp!stdin_handler, Udp!receiver, Udp!sender
      <3>3. /\ said' \in [Senders -> SUBSET SenderTyped] /\ text \in said'[s]
            /\ \A r \in Senders : said[r] \subseteq said'[r]
        BY <2>b, <3>1 DEF Udp!stdin_handler
      <3>4. net' = net \cup {Udp!Datagram(s, Receiver, text)}
        BY <3>1 DEF Udp!stdin_handler
      <3>5. SaidOrAnswered(Udp!Datagram(s, Receiver, text))'
        BY <3>3 DEF SaidOrAnswered, Udp!Datagram
      <3>6. ~hurt => \A d \in net' : SaidOrAnswered(d)'
        <4>1. PICK new : new = Udp!Datagram(s, Receiver, text)
          OBVIOUS
        <4>2. \A d \in net : SaidOrAnswered(d) => SaidOrAnswered(d)'
          BY <3>3 DEF SaidOrAnswered
        <4>3. \A d \in net' : d \in net \/ d = new
          BY <3>4, <4>1
        <4> QED BY <2>c, <3>5, <4>1, <4>2, <4>3
      <3> QED BY <2>b, <2>c, <3>2, <3>3, <3>6 DEF Service, HealthyService, Udp!HealthyService
    <2>8. CASE \E s \in Senders, d \in net : Udp!sender_recv_handler(s, d)
      <3>1. PICK s \in Senders, d \in net : Udp!sender_recv_handler(s, d)
        BY <2>8
      <3>2. UNCHANGED <<rsoc, status, told, said, hurt>> /\ d.to = s /\ Udp!Deliver(d, {})
        BY <3>1 DEF Udp!sender_recv_handler, Udp!receiver
      <3>3. ssoc' \in [Senders -> {"open", "closed", "ended"}] /\ DOMAIN shown' = Senders
        BY <2>b, <3>1 DEF Udp!sender_recv_handler
      <3>4. ~hurt => \A e \in net' : SaidOrAnswered(e)'
        BY <3>2, DeliverLeaves, StaysHonest
      <3>5. ASSUME ~hurt
            PROVE  /\ UNCHANGED ssoc
                   /\ \A r \in Senders : \A line \in shown'[r] :
                        \E text \in said[r] : line = Append(Udp!FirstLine(text), "ok")
        <4>1. PICK text \in said[s] : text \in SenderTyped /\ d.data = Udp!Answer(text)
          BY <2>e, <3>2, <3>5
        <4>2. d.data # <<>> /\ Udp!FirstLine(d.data) = Append(Udp!FirstLine(text), "ok")
          BY <4>1, AnswersAreShown
        <4>3. /\ UNCHANGED ssoc
              /\ shown' = [shown EXCEPT ![s] = @ \cup {Udp!FirstLine(d.data)}]
          BY <3>1, <4>2 DEF Udp!sender_recv_handler
        <4>4. \A r \in Senders : shown'[r] \subseteq shown[r] \/ (r = s /\ shown'[r] \subseteq shown[r] \cup {Udp!FirstLine(d.data)})
          BY <2>b, <4>3
        <4> QED BY <2>c, <3>5, <4>1, <4>2, <4>3, <4>4
      <3> QED BY <2>b, <2>c, <3>2, <3>3, <3>4, <3>5 DEF Service, HealthyService, Udp!HealthyService
    <2>9. CASE Udp!Exit
      <3>1. UNCHANGED <<net, ssoc, shown, said, hurt>> /\ told' = TRUE
        BY <2>9 DEF Udp!Exit, Udp!sender
      <3> QED BY <2>b, <2>c, <3>1 DEF Service, HealthyService, Udp!HealthyService, SaidOrAnswered
    <2> QED BY <1>1, <2>1, <2>2, <2>3, <2>4, <2>5, <2>6, <2>7, <2>8, <2>9 DEF Udp!Next
  <1>2. CASE UNCHANGED udp
    BY <1>2 DEF Service, HealthyService, Udp!HealthyService, SaidOrAnswered, udp
  <1> QED BY <1>1, <1>2
      DEF Next, SigwaitRuns, TimerRuns, HelperRuns, ClientRuns, TermRuns, vars

(* For any number of senders and lines, and whatever the network loses, repeats  *)
(* or reorders: without an empty datagram or a socket error the receiver serves    *)
(* until it is told to end, and each sender shows answers to its own lines only.   *)
THEOREM UnhurtServiceIsHealthy == Spec => []HealthyService
  <1>1. Service => HealthyService
    BY DEF Service
  <1> QED BY <1>1, ServiceInit, ServiceNext, PTL DEF Spec

-----------------------------------------------------------------------------
(* common.c.  The calls of each helper, one by one.                         *)

Names == {"getaddrinfo", "getnameinfo", "socket", "setsockopt", "bind", "listen", "connect",
          "IP_MULTICAST_IF", "IP_MULTICAST_TTL", "IP_MULTICAST_LOOP", "IP_ADD_MEMBERSHIP"}
Items == [name : Names, undo : SUBSET {"soc", "info"}]
Item(name, undo) == Helpers!Call(name, undo)
All == {"soc", "info"}

LEMMA ItemsAre ==
  \A name \in Names, undo \in SUBSET All :
    Item(name, undo) \in Items /\ Item(name, undo).name = name /\ Item(name, undo).undo = undo
  BY DEF Item, Items, All, Helpers!Call

LEMMA Joined ==
  ASSUME NEW S, NEW s \in Seq(S), NEW t \in Seq(S)
  PROVE  /\ s \o t \in Seq(S) /\ Len(s \o t) = Len(s) + Len(t)
         /\ \A k \in 1..Len(s) : (s \o t)[k] = s[k]
         /\ \A k \in 1..Len(t) : (s \o t)[Len(s) + k] = t[k]
  <1>1. /\ s \o t \in Seq(S) /\ Len(s \o t) = Len(s) + Len(t)
        /\ \A k \in 1..Len(s) + Len(t) : (s \o t)[k] = IF k <= Len(s) THEN s[k] ELSE t[k - Len(s)]
    BY ConcatProperties
  <1>2. Len(s) \in Nat /\ Len(t) \in Nat
    BY LenProperties
  <1>3. \A k \in 1..Len(s) : k \in 1..Len(s) + Len(t) /\ k <= Len(s)
    BY <1>2
  <1>4. \A k \in 1..Len(t) : /\ Len(s) + k \in 1..Len(s) + Len(t) /\ ~(Len(s) + k <= Len(s))
                             /\ (Len(s) + k) - Len(s) = k
    BY <1>2
  <1> QED BY <1>1, <1>3, <1>4

(* The pieces.                                                              *)
LEMMA Pieces ==
  /\ Helpers!Lookup \in Seq(Items) /\ Len(Helpers!Lookup) = 2
  /\ Helpers!Lookup[1] = Item("getaddrinfo", {}) /\ Helpers!Lookup[2] = Item("getnameinfo", {"info"})
  /\ Helpers!Socket \in Seq(Items) /\ Len(Helpers!Socket) = 2
  /\ Helpers!Socket[1] = Item("socket", {"info"}) /\ Helpers!Socket[2] = Item("setsockopt", All)
  /\ Helpers!Bind \in Seq(Items) /\ Len(Helpers!Bind) = 1 /\ Helpers!Bind[1] = Item("bind", All)
  /\ Helpers!Multicast \in Seq(Items) /\ Len(Helpers!Multicast) = 3
  /\ Helpers!Multicast[1] = Item("IP_MULTICAST_IF", All)
  /\ Helpers!Multicast[2] = Item("IP_MULTICAST_TTL", All)
  /\ Helpers!Multicast[3] = Item("IP_MULTICAST_LOOP", All)
  /\ Helpers!sender_begins \in Seq(Items) /\ Len(Helpers!sender_begins) = 3
  /\ Helpers!sender_begins[1] = Item("socket", {"info"})
  /\ Helpers!sender_begins[2] = Item("setsockopt", {})
  /\ Helpers!sender_begins[3] = Item("getaddrinfo", {})
  <1>1. /\ Item("getaddrinfo", {}) \in Items /\ Item("getnameinfo", {"info"}) \in Items
        /\ Item("socket", {"info"}) \in Items /\ Item("setsockopt", All) \in Items
        /\ Item("bind", All) \in Items /\ Item("IP_MULTICAST_IF", All) \in Items
        /\ Item("IP_MULTICAST_TTL", All) \in Items /\ Item("IP_MULTICAST_LOOP", All) \in Items
        /\ Item("setsockopt", {}) \in Items
    BY DEF Item, Items, Helpers!Call, All, Names
  <1>2. /\ Helpers!Lookup = <<Item("getaddrinfo", {}), Item("getnameinfo", {"info"})>>
        /\ Helpers!Socket = <<Item("socket", {"info"}), Item("setsockopt", All)>>
        /\ Helpers!Bind = <<Item("bind", All)>>
        /\ Helpers!Multicast = <<Item("IP_MULTICAST_IF", All), Item("IP_MULTICAST_TTL", All),
                                 Item("IP_MULTICAST_LOOP", All)>>
        /\ Helpers!sender_begins = <<Item("socket", {"info"}), Item("setsockopt", {}),
                                     Item("getaddrinfo", {})>>
    BY DEF Helpers!Lookup, Helpers!Socket, Helpers!Bind, Helpers!Multicast, Helpers!sender_begins,
       Helpers!Both, Item, All
  <1>3. \A a \in Items : <<a>> \in Seq(Items) /\ Len(<<a>>) = 1 /\ <<a>>[1] = a
    OBVIOUS
  <1>4. \A a, b \in Items : /\ <<a, b>> \in Seq(Items) /\ Len(<<a, b>>) = 2
                            /\ <<a, b>>[1] = a /\ <<a, b>>[2] = b
    OBVIOUS
  <1>5. \A a, b, c \in Items : /\ <<a, b, c>> \in Seq(Items) /\ Len(<<a, b, c>>) = 3
                               /\ <<a, b, c>>[1] = a /\ <<a, b, c>>[2] = b /\ <<a, b, c>>[3] = c
    OBVIOUS
  <1>6. /\ Helpers!Lookup \in Seq(Items) /\ Len(Helpers!Lookup) = 2
        /\ Helpers!Lookup[1] = Item("getaddrinfo", {})
        /\ Helpers!Lookup[2] = Item("getnameinfo", {"info"})
        /\ Helpers!Socket \in Seq(Items) /\ Len(Helpers!Socket) = 2
        /\ Helpers!Socket[1] = Item("socket", {"info"}) /\ Helpers!Socket[2] = Item("setsockopt", All)
    BY <1>1, <1>2, <1>4
  <1>7. /\ Helpers!Bind \in Seq(Items) /\ Len(Helpers!Bind) = 1 /\ Helpers!Bind[1] = Item("bind", All)
    BY <1>1, <1>2, <1>3
  <1>8. /\ Helpers!Multicast \in Seq(Items) /\ Len(Helpers!Multicast) = 3
        /\ Helpers!Multicast[1] = Item("IP_MULTICAST_IF", All)
        /\ Helpers!Multicast[2] = Item("IP_MULTICAST_TTL", All)
        /\ Helpers!Multicast[3] = Item("IP_MULTICAST_LOOP", All)
    BY <1>1, <1>2, <1>5
  <1>9. /\ Helpers!sender_begins \in Seq(Items) /\ Len(Helpers!sender_begins) = 3
        /\ Helpers!sender_begins[1] = Item("socket", {"info"})
        /\ Helpers!sender_begins[2] = Item("setsockopt", {})
        /\ Helpers!sender_begins[3] = Item("getaddrinfo", {})
    BY <1>1, <1>2, <1>5
  <1> QED BY <1>6, <1>7, <1>8, <1>9

(* What NothingLeftBehind needs to know of a helper's calls: where the socket  *)
(* and the list come from, and that a later call undoes them.  first is the     *)
(* place of its first call that cleans up.                                      *)
TidyCalls(calls, socket, list, first) ==
  /\ calls \in Seq(Items) /\ socket \in Nat /\ list \in 1..Len(calls)
  /\ \A k \in 1..Len(calls) :
       /\ calls[k].name = "socket" <=> k = socket
       /\ calls[k].name = "getaddrinfo" <=> k = list
       /\ k >= first => /\ "soc" \in calls[k].undo <=> k > socket
                        /\ "info" \in calls[k].undo <=> k > list

LEMMA LookupTidy == TidyCalls(Helpers!Lookup, 9, 1, 1)
  BY Pieces DEF TidyCalls, Item, Helpers!Call
LEMMA BeginsTidy == TidyCalls(Helpers!sender_begins, 1, 3, 4)
  BY Pieces DEF TidyCalls, Item, Helpers!Call

(* Calls that come after the list and the socket undo both.                    *)
LEMMA MoreTidy ==
  ASSUME NEW calls, NEW socket, NEW list, NEW first, TidyCalls(calls, socket, list, first),
         socket <= Len(calls), first \in Nat,
         NEW more \in Seq(Items),
         \A k \in 1..Len(more) : more[k].name \notin {"socket", "getaddrinfo"} /\ more[k].undo = All
  PROVE  TidyCalls(calls \o more, socket, list, first) /\ socket <= Len(calls \o more)
  <1> DEFINE both == calls \o more
  <1>1. /\ calls \in Seq(Items) /\ Len(calls) \in Nat /\ Len(more) \in Nat
        /\ socket \in Nat /\ list \in 1..Len(calls)
    BY LenProperties DEF TidyCalls
  <1>2. /\ both \in Seq(Items) /\ Len(both) = Len(calls) + Len(more)
        /\ \A k \in 1..Len(calls) : both[k] = calls[k]
        /\ \A k \in 1..Len(more) : both[Len(calls) + k] = more[k]
    BY <1>1, Joined
  <1>3. ASSUME NEW k \in 1..Len(both)
        PROVE  /\ both[k].name = "socket" <=> k = socket
               /\ both[k].name = "getaddrinfo" <=> k = list
               /\ k >= first => /\ "soc" \in both[k].undo <=> k > socket
                                /\ "info" \in both[k].undo <=> k > list
    <2>1. CASE k <= Len(calls)
      <3>1. k \in 1..Len(calls)
        BY <1>1, <1>2, <2>1
      <3> QED BY <1>2, <3>1 DEF TidyCalls
    <2>2. CASE ~(k <= Len(calls))
      <3>1. k - Len(calls) \in 1..Len(more) /\ Len(calls) + (k - Len(calls)) = k
        BY <1>1, <1>2, <2>2
      <3>2. both[k].name \notin {"socket", "getaddrinfo"} /\ both[k].undo = All
        BY <1>2, <3>1
      <3>3. k # socket /\ k # list /\ k > socket /\ k > list
        BY <1>1, <1>2, <2>2
      <3> QED BY <3>2, <3>3 DEF All
    <2> QED BY <2>1, <2>2
  <1>4. list \in 1..Len(both) /\ socket <= Len(both)
    BY <1>1, <1>2
  <1> HIDE DEF both
  <1>5. TidyCalls(both, socket, list, first)
    BY <1>1, <1>2, <1>3, <1>4 DEF TidyCalls
  <1> QED BY <1>4, <1>5 DEF both


(* The lookup, then a socket and one call on it.                               *)
LEMMA SocketTidy ==
  ASSUME NEW pair \in Seq(Items), Len(pair) = 2,
         pair[1].name = "socket", pair[1].undo = {"info"},
         pair[2].name \notin {"socket", "getaddrinfo"}, pair[2].undo = All
  PROVE  /\ TidyCalls(Helpers!Lookup \o pair, 3, 1, 1)
         /\ Helpers!Lookup \o pair \in Seq(Items) /\ Len(Helpers!Lookup \o pair) = 4
  <1> DEFINE first == Helpers!Lookup
             both == first \o pair
  <1>1. /\ first \in Seq(Items) /\ Len(first) = 2
        /\ first[1].name = "getaddrinfo" /\ first[1].undo = {}
        /\ first[2].name = "getnameinfo" /\ first[2].undo = {"info"}
    <2>1. {} \in SUBSET All /\ {"info"} \in SUBSET All
      BY DEF All
    <2>2. {"getaddrinfo", "getnameinfo"} \subseteq Names
      BY DEF Names
    <2> QED BY <2>1, <2>2, ItemsAre, Pieces
  <1> HIDE DEF first
  <1>2. /\ both \in Seq(Items) /\ Len(both) = Len(first) + Len(pair)
        /\ \A k \in 1..Len(first) : both[k] = first[k]
        /\ \A k \in 1..Len(pair) : both[Len(first) + k] = pair[k]
    <2>1. first \in Seq(Items) /\ pair \in Seq(Items)
      BY <1>1
    <2> QED BY <2>1, Joined, SMTT(30)
  <1> HIDE DEF both
  <1>3. 1 \in 1..2 /\ 2 \in 1..2 /\ 2 + 1 = 3 /\ 2 + 2 = 4
    OBVIOUS
  <1>4. /\ Len(both) = 4
        /\ both[1] = first[1] /\ both[2] = first[2] /\ both[3] = pair[1] /\ both[4] = pair[2]
    BY <1>1, <1>2, <1>3
  <1>5. \A k \in 1..4 : k = 1 \/ k = 2 \/ k = 3 \/ k = 4
    OBVIOUS
  <1>6. \A k \in 1..4 :
          /\ both[k].name = "socket" <=> k = 3
          /\ both[k].name = "getaddrinfo" <=> k = 1
          /\ "soc" \in both[k].undo <=> k > 3
          /\ "info" \in both[k].undo <=> k > 1
    BY <1>1, <1>4, <1>5 DEF All
  <1>7. TidyCalls(both, 3, 1, 1)
    <2>1. both \in Seq(Items)
      BY <1>2
    <2>2. Len(both) = 4
      BY <1>4
    <2> QED BY <1>6, <2>1, <2>2 DEF TidyCalls
  <1> QED BY <1>2, <1>4, <1>7 DEF both, first

(* Single calls that undo both, and sequences of them.                         *)
Harmless(more) ==
  /\ more \in Seq(Items)
  /\ \A k \in 1..Len(more) : more[k].name \notin {"socket", "getaddrinfo"} /\ more[k].undo = All

LEMMA HarmlessCalls ==
  /\ Harmless(Helpers!Bind) /\ Harmless(Helpers!Multicast)
  /\ Harmless(<<Helpers!Call("listen", Helpers!Both)>>)
  /\ Harmless(<<Helpers!Call("IP_ADD_MEMBERSHIP", Helpers!Both)>>)
  <1>1. Harmless(Helpers!Bind)
    BY Pieces DEF Harmless, Item, Helpers!Call
  <1>2. \A k \in 1..3 : k = 1 \/ k = 2 \/ k = 3
    OBVIOUS
  <1>3. Harmless(Helpers!Multicast)
    BY <1>2, Pieces DEF Harmless, Item, Helpers!Call
  <1>4. ASSUME NEW c \in Items, c.name \notin {"socket", "getaddrinfo"}, c.undo = All
        PROVE  Harmless(<<c>>)
    <2>1. <<c>> \in Seq(Items) /\ Len(<<c>>) = 1 /\ <<c>>[1] = c
      OBVIOUS
    <2> QED BY <1>4, <2>1 DEF Harmless
  <1>5. /\ Helpers!Call("listen", Helpers!Both) = Item("listen", All)
        /\ Helpers!Call("IP_ADD_MEMBERSHIP", Helpers!Both) = Item("IP_ADD_MEMBERSHIP", All)
    BY DEF Item, Helpers!Both, All
  <1>6. /\ Item("listen", All) \in Items /\ Item("IP_ADD_MEMBERSHIP", All) \in Items
        /\ Item("listen", All).name = "listen" /\ Item("listen", All).undo = All
        /\ Item("IP_ADD_MEMBERSHIP", All).name = "IP_ADD_MEMBERSHIP"
        /\ Item("IP_ADD_MEMBERSHIP", All).undo = All
    BY ItemsAre DEF Names
  <1> QED BY <1>1, <1>3, <1>4, <1>5, <1>6

(* The place of a helper's call of socket and of getaddrinfo, and of its first  *)
(* call that cleans up.  get_sockaddr_info opens no socket.                       *)
SocketAt(h) ==
  IF h = "get_sockaddr_info" THEN 9 ELSE IF h \in Helpers!SenderHelpers THEN 1 ELSE 3
ListAt(h) == IF h \in Helpers!SenderHelpers THEN 3 ELSE 1
CleansUpAt(h) == IF h \in Helpers!SenderHelpers THEN 4 ELSE 1
Tidy(h) ==
  /\ TidyCalls(Helpers!Calls[h], SocketAt(h), ListAt(h), CleansUpAt(h))
  /\ SocketAt(h) <= Len(Helpers!Calls[h]) <=> h # "get_sockaddr_info"

LEMMA CallsOf ==
  /\ DOMAIN Helpers!Calls =
       {"get_sockaddr_info", "server_socket", "client_socket", "receiver_socket",
        "receiver_socket_multicast", "sender_socket", "sender_socket_client",
        "sender_socket_client_multicast"}
  /\ Helpers!Calls["get_sockaddr_info"] = Helpers!get_sockaddr_info
  /\ Helpers!Calls["server_socket"] = Helpers!server_socket
  /\ Helpers!Calls["client_socket"] = Helpers!client_socket
  /\ Helpers!Calls["receiver_socket"] = Helpers!receiver_socket
  /\ Helpers!Calls["receiver_socket_multicast"] = Helpers!receiver_socket_multicast
  /\ Helpers!Calls["sender_socket"] = Helpers!sender_socket
  /\ Helpers!Calls["sender_socket_client"] = Helpers!sender_socket_client
  /\ Helpers!Calls["sender_socket_client_multicast"] = Helpers!sender_socket_client_multicast
  BY DEF Helpers!Calls


(* MoreTidy for one more harmless piece.                                       *)
LEMMA AlsoTidy ==
  ASSUME NEW calls, NEW more, NEW socket, NEW list, NEW first \in Nat,
         TidyCalls(calls, socket, list, first), socket <= Len(calls), Harmless(more)
  PROVE  TidyCalls(calls \o more, socket, list, first) /\ socket <= Len(calls \o more)
  BY MoreTidy DEF Harmless

LEMMA AllTidy == \A h \in DOMAIN Helpers!Calls : Tidy(h)
  <1> DEFINE open == Helpers!Lookup \o Helpers!Socket
             pair == <<Helpers!Call("socket", {"info"}), Helpers!Call("connect", Helpers!Both)>>
  <1>1. TidyCalls(open, 3, 1, 1) /\ 3 <= Len(open)
    <2>1. /\ "socket" \in Names /\ "setsockopt" \in Names
          /\ {"info"} \in SUBSET All /\ All \in SUBSET All
      BY DEF Names, All
    <2>2. /\ Helpers!Socket \in Seq(Items) /\ Len(Helpers!Socket) = 2
          /\ Helpers!Socket[1].name = "socket" /\ Helpers!Socket[1].undo = {"info"}
          /\ Helpers!Socket[2].name = "setsockopt" /\ Helpers!Socket[2].undo = All
      BY <2>1, ItemsAre, Pieces
    <2>3. TidyCalls(open, 3, 1, 1) /\ Len(open) = 4
      BY <2>2, SocketTidy
    <2> QED BY <2>3
  <1>2. TidyCalls(Helpers!Lookup \o pair, 3, 1, 1) /\ 3 <= Len(Helpers!Lookup \o pair)
    <2>1. /\ "socket" \in Names /\ "connect" \in Names
          /\ {"info"} \in SUBSET All /\ All \in SUBSET All
      BY DEF Names, All
    <2>2. \A a, b \in Items : /\ <<a, b>> \in Seq(Items) /\ Len(<<a, b>>) = 2
                              /\ <<a, b>>[1] = a /\ <<a, b>>[2] = b
      OBVIOUS
    <2>3. pair = <<Item("socket", {"info"}), Item("connect", All)>>
      BY DEF Item, Helpers!Both, All
    <2> HIDE DEF pair
    <2>4. /\ pair \in Seq(Items) /\ Len(pair) = 2
          /\ pair[1].name = "socket" /\ pair[1].undo = {"info"}
          /\ pair[2].name = "connect" /\ pair[2].undo = All
      BY <2>1, <2>2, <2>3, ItemsAre
    <2>5. TidyCalls(Helpers!Lookup \o pair, 3, 1, 1) /\ Len(Helpers!Lookup \o pair) = 4
      BY <2>4, SocketTidy
    <2> QED BY <2>5
  <1> HIDE DEF open
  <1>3. TidyCalls(open \o Helpers!Bind, 3, 1, 1) /\ 3 <= Len(open \o Helpers!Bind)
    BY <1>1, AlsoTidy, HarmlessCalls
  <1>4. /\ TidyCalls(Helpers!sender_begins, 1, 3, 4) /\ 1 <= Len(Helpers!sender_begins)
    BY BeginsTidy, Pieces
  <1>5. /\ TidyCalls(Helpers!sender_begins \o Helpers!Bind, 1, 3, 4)
        /\ 1 <= Len(Helpers!sender_begins \o Helpers!Bind)
    BY <1>4, AlsoTidy, HarmlessCalls
  <1>6. Tidy("get_sockaddr_info")
    <2>1. Helpers!Calls["get_sockaddr_info"] = Helpers!Lookup
      BY CallsOf DEF Helpers!get_sockaddr_info
    <2> QED BY <2>1, LookupTidy, Pieces
            DEF Tidy, SocketAt, ListAt, CleansUpAt, Helpers!SenderHelpers
  <1>7. ASSUME NEW h \in {"server_socket", "client_socket", "receiver_socket",
                          "receiver_socket_multicast"},
               TidyCalls(Helpers!Calls[h], 3, 1, 1), 3 <= Len(Helpers!Calls[h])
        PROVE  Tidy(h)
    BY <1>7 DEF Tidy, SocketAt, ListAt, CleansUpAt, Helpers!SenderHelpers
  <1>8. ASSUME NEW h \in Helpers!SenderHelpers,
               TidyCalls(Helpers!Calls[h], 1, 3, 4), 1 <= Len(Helpers!Calls[h])
        PROVE  Tidy(h)
    BY <1>8 DEF Tidy, SocketAt, ListAt, CleansUpAt, Helpers!SenderHelpers
  <1>9. Tidy("receiver_socket")
    BY <1>3, <1>7, CallsOf DEF Helpers!receiver_socket, open
  <1>10. Tidy("receiver_socket_multicast")
    <2> DEFINE last == <<Helpers!Call("IP_ADD_MEMBERSHIP", Helpers!Both)>>
    <2>1. Helpers!Calls["receiver_socket_multicast"] = (open \o Helpers!Bind) \o last
      BY CallsOf DEF Helpers!receiver_socket_multicast, Helpers!receiver_socket, open
    <2>2. Harmless(last)
      BY HarmlessCalls
    <2> HIDE DEF last
    <2> QED BY <1>3, <1>7, <2>1, <2>2, AlsoTidy
  <1>11. Tidy("server_socket")
    <2> DEFINE last == <<Helpers!Call("listen", Helpers!Both)>>
    <2>1. Helpers!Calls["server_socket"] = (open \o Helpers!Bind) \o last
      BY CallsOf DEF Helpers!server_socket, open
    <2>2. Harmless(last)
      BY HarmlessCalls
    <2> HIDE DEF last
    <2> QED BY <1>3, <1>7, <2>1, <2>2, AlsoTidy
  <1>12. Tidy("client_socket")
    <2>1. Helpers!Calls["client_socket"] = Helpers!Lookup \o pair
      BY CallsOf DEF Helpers!client_socket
    <2> QED BY <1>2, <1>7, <2>1
  <1>13. Tidy("sender_socket")
    <2>1. /\ TidyCalls((Helpers!sender_begins \o Helpers!Bind) \o Helpers!Multicast, 1, 3, 4)
          /\ 1 <= Len((Helpers!sender_begins \o Helpers!Bind) \o Helpers!Multicast)
      BY <1>5, AlsoTidy, HarmlessCalls
    <2> QED BY <1>8, <2>1, CallsOf DEF Helpers!sender_socket, Helpers!SenderHelpers
  <1>14. Tidy("sender_socket_client")
    BY <1>4, <1>8, CallsOf DEF Helpers!sender_socket_client, Helpers!SenderHelpers
  <1>15. Tidy("sender_socket_client_multicast")
    <2>1. /\ TidyCalls(Helpers!sender_begins \o Helpers!Multicast, 1, 3, 4)
          /\ 1 <= Len(Helpers!sender_begins \o Helpers!Multicast)
      BY <1>4, AlsoTidy, HarmlessCalls
    <2> QED BY <1>8, <2>1, CallsOf DEF Helpers!sender_socket_client_multicast, Helpers!SenderHelpers
  <1> QED BY <1>6, <1>9, <1>10, <1>11, <1>12, <1>13, <1>14, <1>15, CallsOf

(* The strengthening of NothingLeftBehind: while a helper runs, its socket is   *)
(* open once the call of socket is behind it, its list live once getaddrinfo      *)
(* is; with AllTidy the call that fails then undoes exactly what is there.         *)
Progress ==
  /\ helper \in DOMAIN Helpers!Calls
  /\ at \in 0..Len(Helpers!Calls[helper])
  /\ result \in {"none", "ok", "failed"}
  /\ result = "none" =>
       /\ wild = FALSE
       /\ soc = IF at >= SocketAt(helper) THEN "open" ELSE "none"
       /\ info = IF at >= ListAt(helper) THEN "live" ELSE "unset"
  /\ NothingLeftBehind


LEMMA ProgressInit == Init => Progress
  <1> SUFFICES ASSUME Init PROVE Progress
    OBVIOUS
  <1>1. /\ helper \in DOMAIN Helpers!Calls /\ at = 0 /\ soc = "none" /\ info = "unset"
        /\ result = "none" /\ wild = FALSE
    BY DEF Init, Helpers!Init
  <1>2. Tidy(helper)
    BY <1>1, AllTidy
  <1>3. SocketAt(helper) > 0 /\ ListAt(helper) > 0
    BY DEF SocketAt, ListAt
  <1>4. Len(Helpers!Calls[helper]) \in Nat
    BY <1>2, LenProperties DEF Tidy, TidyCalls
  <1>5. ~(0 >= SocketAt(helper)) /\ ~(0 >= ListAt(helper))
    BY <1>3 DEF SocketAt, ListAt
  <1> QED BY <1>1, <1>4, <1>5 DEF Progress, NothingLeftBehind, Helpers!NothingLeftBehind

(* What is left to do, and the next of it.                                     *)
LEMMA NextCall ==
  ASSUME NEW calls \in Seq(Items), NEW n \in 0..Len(calls)
  PROVE  /\ SubSeq(calls, n + 1, Len(calls)) = <<>> <=> n = Len(calls)
         /\ n < Len(calls) => Head(SubSeq(calls, n + 1, Len(calls))) = calls[n + 1]
  <1> DEFINE todo == SubSeq(calls, n + 1, Len(calls))
  <1>1. Len(calls) \in Nat
    BY LenProperties
  <1>2. /\ todo \in Seq(Items)
        /\ Len(todo) = IF n + 1 <= Len(calls) THEN Len(calls) - n ELSE 0
        /\ \A k \in 1..Len(calls) - n : todo[k] = calls[n + k]
    BY <1>1, SubSeqProperties
  <1> HIDE DEF todo
  <1>3. CASE n = Len(calls)
    <2>1. Len(todo) = 0
      BY <1>1, <1>2, <1>3
    <2> QED BY <1>1, <1>2, <1>3, <2>1, EmptySeq DEF todo
  <1>4. CASE n < Len(calls)
    <2>1. Len(todo) = Len(calls) - n /\ Len(todo) # 0 /\ 1 \in 1..Len(calls) - n
      BY <1>1, <1>2, <1>4
    <2>2. todo # <<>> /\ todo[1] = calls[n + 1]
      BY <1>2, <2>1
    <2>3. Head(todo) = todo[1]
      BY <1>2, <2>2
    <2> QED BY <1>1, <1>4, <2>2, <2>3 DEF todo
  <1> QED BY <1>1, <1>3, <1>4


LEMMA ProgressNext == Progress /\ [Next]_vars => Progress'
  <1> SUFFICES ASSUME Progress, [Next]_vars PROVE Progress'
    OBVIOUS
  <1> DEFINE calls == Helpers!Calls[helper]
             place == SocketAt(helper)
             list == ListAt(helper)
             first == CleansUpAt(helper)
  <1>1. /\ helper \in DOMAIN Helpers!Calls /\ at \in 0..Len(calls)
        /\ result \in {"none", "ok", "failed"}
        /\ result = "none" => /\ wild = FALSE
                              /\ soc = IF at >= place THEN "open" ELSE "none"
                              /\ info = IF at >= list THEN "live" ELSE "unset"
    BY DEF Progress
  <1>2. /\ calls \in Seq(Items) /\ place \in Nat /\ list \in 1..Len(calls) /\ first \in Nat
        /\ \A k \in 1..Len(calls) :
             /\ calls[k].name = "socket" <=> k = place
             /\ calls[k].name = "getaddrinfo" <=> k = list
             /\ k >= first => /\ "soc" \in calls[k].undo <=> k > place
                              /\ "info" \in calls[k].undo <=> k > list
        /\ place <= Len(calls) <=> helper # "get_sockaddr_info"
    <2>1. Tidy(helper)
      BY <1>1, AllTidy
    <2>2. first \in Nat
      BY DEF CleansUpAt
    <2> QED BY <2>1, <2>2 DEF Tidy, TidyCalls
  <1>3. /\ Helpers!Todo = <<>> <=> at = Len(calls)
        /\ at < Len(calls) => Head(Helpers!Todo) = calls[at + 1]
    BY <1>1, <1>2, NextCall DEF Helpers!Todo
  <1>4. Len(calls) \in Nat
    BY <1>2, LenProperties
  <1>5. first <= 4 /\ (first > 1 => first = 4 /\ helper \in Helpers!SenderHelpers)
    BY DEF CleansUpAt
  <1>6. CASE HelperRuns /\ Helpers!Succeeds
    <2>1. helper' = helper /\ result' = result /\ wild' = wild /\ result = "none" /\ at' = at + 1
      BY <1>6 DEF Helpers!Succeeds, Helpers!Running
    <2>2. at < Len(calls) /\ at + 1 \in 1..Len(calls)
      BY <1>1, <1>3, <1>4, <1>6 DEF Helpers!Succeeds
    <2>3. /\ soc' = IF calls[at + 1].name = "socket" THEN "open" ELSE soc
          /\ info' = IF calls[at + 1].name = "getaddrinfo" THEN "live" ELSE info
      BY <1>3, <1>6, <2>2 DEF Helpers!Succeeds
    <2>4. soc' = IF at + 1 >= place THEN "open" ELSE "none"
      BY <1>1, <1>2, <2>1, <2>2, <2>3
    <2>5. info' = IF at + 1 >= list THEN "live" ELSE "unset"
      BY <1>1, <1>2, <2>1, <2>2, <2>3
    <2>6. at' \in 0..Len(calls)
      BY <2>1, <2>2
    <2>7. NothingLeftBehind'
      BY <2>1 DEF NothingLeftBehind, Helpers!NothingLeftBehind
    <2> QED BY <1>1, <2>1, <2>4, <2>5, <2>6, <2>7 DEF Progress
  <1>7. CASE HelperRuns /\ Helpers!Fails
    <2>1. helper' = helper /\ at' = at /\ result = "none" /\ result' = "failed"
      BY <1>7 DEF Helpers!Fails, Helpers!Running
    <2>2. at < Len(calls) /\ at + 1 \in 1..Len(calls)
      BY <1>1, <1>3, <1>4, <1>7 DEF Helpers!Fails
    <2>3. /\ soc' = IF "soc" \in calls[at + 1].undo THEN "closed" ELSE soc
          /\ info' = IF "info" \in calls[at + 1].undo THEN "freed" ELSE info
          /\ wild' = ("info" \in calls[at + 1].undo /\ info = "unset")
      BY <1>3, <1>7, <2>2 DEF Helpers!Fails
    <2>4. ASSUME at + 1 >= first
          PROVE  soc' # "open" /\ info' # "live" /\ ~wild'
      <3>1. soc' # "open"
        BY <1>1, <1>2, <2>1, <2>2, <2>3, <2>4
      <3>2. info' # "live"
        BY <1>1, <1>2, <2>1, <2>2, <2>3, <2>4
      <3>3. ~("info" \in calls[at + 1].undo /\ info = "unset")
        BY <1>1, <1>2, <2>1, <2>2, <2>4
      <3> QED BY <2>3, <3>1, <3>2, <3>3
    <2>5. ASSUME ~(at + 1 >= first)
          PROVE  helper \in Helpers!SenderHelpers /\ at < 3
      BY <1>1, <1>2, <1>4, <1>5, <2>5
    <2>6. NothingLeftBehind'
      BY <2>1, <2>4, <2>5 DEF NothingLeftBehind, Helpers!NothingLeftBehind, Helpers!SenderHelpers
    <2> QED BY <1>1, <2>1, <2>6 DEF Progress
  <1>8. CASE HelperRuns /\ Helpers!Returns
    <2>1. /\ helper' = helper /\ at' = at /\ soc' = soc /\ result = "none"
          /\ info' = "freed" /\ result' = "ok"
      BY <1>8 DEF Helpers!Returns, Helpers!Running
    <2>2. at = Len(calls)
      BY <1>3, <1>8 DEF Helpers!Returns
    <2>3. soc' = "open" <=> helper # "get_sockaddr_info"
      BY <1>1, <1>2, <2>1, <2>2
    <2>4. NothingLeftBehind'
      BY <2>1, <2>3 DEF NothingLeftBehind, Helpers!NothingLeftBehind
    <2> QED BY <1>1, <2>1, <2>4 DEF Progress
  <1>9. CASE UNCHANGED helpers
    BY <1>9 DEF Progress, NothingLeftBehind, Helpers!NothingLeftBehind, helpers
  <1> QED BY <1>6, <1>7, <1>8, <1>9
      DEF Next, HelperRuns, SigwaitRuns, TimerRuns, ClientRuns, UdpRuns, TermRuns, vars, Helpers!Next

(* Whichever call of a helper of common.c fails, at whatever place: the socket    *)
(* and the address list it had are released, once and not before they existed,       *)
(* except by a sender among its first three calls.                                     *)
THEOREM HelpersCleanUp == Spec => []NothingLeftBehind
  <1>1. Progress => NothingLeftBehind
    BY DEF Progress
  <1> QED BY <1>1, ProgressInit, ProgressNext, PTL DEF Spec


-----------------------------------------------------------------------------
(* myterm.  What the bytes from each place on show; the scan of the rest of a  *)
(* text is the rest of its scan.                                                *)

Rest(s, k) == SubSeq(s, k, Len(s))
ShownFrom(s, f, k) ==
  IF Len(s) - k + 1 < 3 THEN <<>>
  ELSE Term!Show(Term!lex(Rest(s, k))) \o f[k + Term!lex(Rest(s, k)).len]
Scan(s) == CHOOSE f : f = [k \in 1..Len(s)+1 |-> ShownFrom(s, f, k)]

LEMMA ShowsIs == \A s : Term!Shows(s) = Scan(s)[1]
  BY DEF Term!Shows, Scan, ShownFrom, Rest, Term!Longest

LEMMA TokenLength == \A s : Term!lex(s).len \in 1..3
  BY DEF Term!lex

LEMMA ScanExists ==
  ASSUME NEW S, NEW s \in Seq(S)
  PROVE  \A k \in 1..Len(s)+1 : Scan(s)[k] = ShownFrom(s, Scan(s), k)
  <1> DEFINE n == Len(s)
             Solves(f, m) == f = [k \in n+2-m..n+1 |-> ShownFrom(s, f, k)]
             T == {m \in Nat : m <= n+1 /\ ~\E f : Solves(f, m)}
  <1>1. n \in Nat
    BY LenProperties
  <1>2. T = {}
    <2> SUFFICES ASSUME T # {} PROVE FALSE
      OBVIOUS
    <2>1. T \in SUBSET Nat
      OBVIOUS
    <2>2. PICK m \in T : \A k \in T : m <= k
      BY <2>1, LeastExists
    <2>3. m \in Nat /\ m <= n+1 /\ ~\E f : Solves(f, m)
      BY <2>2
    <2>4. CASE m = 0
      <3> DEFINE f == [k \in {} |-> <<>>]
      <3>1. n+2-0..n+1 = {}
        BY <1>1
      <3>2. f = [k \in n+2-0..n+1 |-> ShownFrom(s, f, k)]
        BY <3>1
      <3> QED BY <2>3, <2>4, <3>2
    <2>5. CASE m # 0
      <3>1. m-1 \in Nat /\ m-1 <= n+1 /\ ~(m <= m-1)
        BY <1>1, <2>3, <2>5
      <3> HIDE DEF T
      <3>a. m-1 \notin T
        BY <2>2, <3>1
      <3> USE DEF T
      <3>2. PICK f : Solves(f, m-1)
        BY <3>1, <3>a
      <3> DEFINE p == n+2-m
                 h == [k \in p..n+1 |-> IF k = p THEN ShownFrom(s, f, k) ELSE f[k]]
      <3>3. p \in Nat /\ p >= 1 /\ p <= n+1 /\ n+2-(m-1) = p+1
        BY <1>1, <2>3, <2>5
      <3>4. f = [k \in p+1..n+1 |-> ShownFrom(s, f, k)]
        BY <3>2, <3>3
      <3> HIDE DEF p
      <3>5. \A k \in p+1..n+1 : h[k] = f[k] /\ f[k] = ShownFrom(s, f, k)
        <4>1. \A k \in p+1..n+1 : k \in p..n+1 /\ k # p
          BY <1>1, <3>3
        <4>2. \A k \in p+1..n+1 : h[k] = f[k]
          BY <4>1
        <4>3. \A k \in p+1..n+1 : f[k] = ShownFrom(s, f, k)
          BY <3>4
        <4> QED BY <4>2, <4>3
      <3>6. h[p] = ShownFrom(s, f, p)
        BY <1>1, <3>3
      <3> HIDE DEF h
      <3>7. ASSUME NEW k \in p..n+1 PROVE ShownFrom(s, h, k) = ShownFrom(s, f, k)
        <4>1. CASE n - k + 1 < 3
          BY <4>1 DEF ShownFrom
        <4>2. CASE ~(n - k + 1 < 3)
          <5> DEFINE l == Term!lex(Rest(s, k)).len
          <5>1. l \in 1..3
            BY TokenLength
          <5> HIDE DEF l
          <5>2. k + l \in p+1..n+1
            BY <1>1, <3>3, <4>2, <5>1
          <5>3. h[k + l] = f[k + l]
            BY <3>5, <5>2
          <5> QED BY <5>3 DEF ShownFrom, l
        <4> QED BY <4>1, <4>2
      <3>8. \A k \in p..n+1 : h[k] = ShownFrom(s, h, k)
        <4>1. \A k \in p..n+1 : k = p \/ k \in p+1..n+1
          BY <1>1, <3>3
        <4> QED BY <3>5, <3>6, <3>7, <4>1
      <3>9. h = [k \in p..n+1 |-> h[k]]
        BY DEF h
      <3>10. h = [k \in p..n+1 |-> ShownFrom(s, h, k)]
        BY <3>8, <3>9
      <3> QED BY <2>3, <3>10 DEF p
    <2> QED BY <2>4, <2>5
  <1>3. \E f : f = [k \in 1..n+1 |-> ShownFrom(s, f, k)]
    <2>1. n+1 \in Nat /\ n+1 <= n+1 /\ n+2-(n+1) = 1
      BY <1>1
    <2>2. \E f : Solves(f, n+1)
      BY <1>2, <2>1
    <2> QED BY <2>1, <2>2
  <1>4. Scan(s) = [k \in 1..n+1 |-> ShownFrom(s, Scan(s), k)]
    BY <1>3 DEF Scan
  <1> QED BY <1>4

Printed == {"a", "LF"}

LEMMA ShowType == \A token : Term!Show(token) \in Seq(Printed)
  <1> TAKE token
  <1>1. CASE Term!Prints(token.c)
    <2> DEFINE c == token.c
    <2>1. c \in Printed
      BY <1>1 DEF Term!Prints, Printed
    <2> HIDE DEF c
    <2>2. <<c>> \in Seq(Printed)
      BY <2>1
    <2> QED BY <1>1, <2>2 DEF Term!Show, c
  <1>2. CASE ~Term!Prints(token.c)
    <2>1. <<>> \in Seq(Printed)
      OBVIOUS
    <2> QED BY <1>2, <2>1 DEF Term!Show
  <1> QED BY <1>1, <1>2

LEMMA ScanType ==
  ASSUME NEW S, NEW s \in Seq(S)
  PROVE  \A k \in 1..Len(s)+1 : Scan(s)[k] \in Seq(Printed)
  <1> DEFINE n == Len(s)
             Bad == {j \in Nat : j <= n /\ Scan(s)[n+1-j] \notin Seq(Printed)}
  <1>1. n \in Nat
    BY LenProperties
  <1>2. Bad = {}
    <2> SUFFICES ASSUME Bad # {} PROVE FALSE
      OBVIOUS
    <2>1. Bad \in SUBSET Nat
      OBVIOUS
    <2>2. PICK j \in Bad : \A i0 \in Bad : j <= i0
      BY <2>1, LeastExists
    <2> DEFINE k == n+1-j
               l == Term!lex(Rest(s, k)).len
    <2>3. j \in Nat /\ j <= n /\ Scan(s)[k] \notin Seq(Printed)
      BY <2>2
    <2>4. k \in 1..n+1 /\ n - k + 1 = j
      BY <1>1, <2>3
    <2>5. l \in 1..3
      BY TokenLength
    <2> HIDE DEF k, l
    <2>6. Scan(s)[k] = ShownFrom(s, Scan(s), k)
      BY <2>4, ScanExists
    <2>7. CASE j < 3
      BY <2>3, <2>4, <2>6, <2>7 DEF ShownFrom
    <2>8. CASE ~(j < 3)
      <3>1. Scan(s)[k] = Term!Show(Term!lex(Rest(s, k))) \o Scan(s)[k + l]
        BY <2>3, <2>4, <2>6, <2>8 DEF ShownFrom, l
      <3>2. j-l \in Nat /\ j-l <= n /\ ~(j <= j-l) /\ n+1-(j-l) = k+l
        BY <1>1, <2>3, <2>4, <2>5, <2>8
      <3> HIDE DEF Bad
      <3>3. j-l \notin Bad
        BY <2>2, <3>2
      <3> USE DEF Bad
      <3>4. Scan(s)[k + l] \in Seq(Printed)
        BY <3>2, <3>3
      <3> QED BY <2>3, <3>1, <3>4, ShowType
    <2> QED BY <2>7, <2>8
  <1>3. ASSUME NEW k \in 1..n+1 PROVE Scan(s)[k] \in Seq(Printed)
    <2>1. n+1-k \in Nat /\ n+1-k <= n /\ n+1-(n+1-k) = k
      BY <1>1, <1>3
    <2> QED BY <1>2, <2>1
  <1> QED BY <1>3

LEMMA ShowsType ==
  ASSUME NEW S, NEW s \in Seq(S)
  PROVE  Term!Shows(s) \in Seq(Printed)
  <1>1. 1 \in 1..Len(s)+1
    BY LenProperties
  <1> QED BY <1>1, ScanType, ShowsIs

LEMMA RestIs ==
  ASSUME NEW S, NEW s \in Seq(S), NEW a \in 1..Len(s)+1
  PROVE  /\ Rest(s, a) \in Seq(S) /\ Len(Rest(s, a)) = Len(s) - a + 1
         /\ \A k \in 1..Len(s)-a+1 : Rest(s, a)[k] = s[a+k-1]
  <1> DEFINE n == Len(s)
  <1>1. n \in Nat /\ a \in Int /\ a <= n+1
    BY LenProperties
  <1>2. \A k \in a..n : s[k] \in S
    BY <1>1, ElementOfSeq
  <1> HIDE DEF n
  <1>3. /\ SubSeq(s, a, n) \in Seq(S)
        /\ Len(SubSeq(s, a, n)) = IF a <= n THEN n-a+1 ELSE 0
        /\ \A k \in 1..n-a+1 : SubSeq(s, a, n)[k] = s[a+k-1]
    BY <1>1, <1>2, SubSeqProperties
  <1>4. (IF a <= n THEN n-a+1 ELSE 0) = n-a+1
    BY <1>1
  <1> QED BY <1>3, <1>4 DEF Rest, n

LEMMA RestOfRest ==
  ASSUME NEW S, NEW s \in Seq(S), NEW a \in 1..Len(s)+1, NEW k \in 1..Len(s)-a+2
  PROVE  Rest(Rest(s, a), k) = Rest(s, a+k-1)
  <1> DEFINE n == Len(s)
             t == Rest(s, a)
             b == a+k-1
  <1>1. n \in Nat /\ a \in 1..n+1 /\ k \in 1..n-a+2
    BY LenProperties
  <1>2. t \in Seq(S) /\ Len(t) = n-a+1 /\ \A x \in 1..n-a+1 : t[x] = s[a+x-1]
    BY RestIs
  <1>3. b \in 1..n+1 /\ b = a+k-1 /\ n-a+1-k+1 = n-b+1
    BY <1>1
  <1> HIDE DEF t, b
  <1>4. /\ Rest(s, b) \in Seq(S) /\ Len(Rest(s, b)) = n-b+1
        /\ \A x \in 1..n-b+1 : Rest(s, b)[x] = s[b+x-1]
    BY <1>3, RestIs
  <1>5. /\ Rest(t, k) \in Seq(S) /\ Len(Rest(t, k)) = n-b+1
        /\ \A x \in 1..n-b+1 : Rest(t, k)[x] = t[k+x-1]
    <2>1. k \in 1..Len(t)+1
      BY <1>1, <1>2
    <2>2. Len(t)-k+1 = n-b+1
      BY <1>1, <1>2, <1>3
    <2> QED BY <1>2, <2>1, <2>2, RestIs
  <1>6. ASSUME NEW x \in 1..n-b+1 PROVE Rest(t, k)[x] = Rest(s, b)[x]
    <2>1. k+x-1 \in 1..n-a+1 /\ a+(k+x-1)-1 = b+x-1
      BY <1>1, <1>3
    <2>2. t[k+x-1] = s[a+(k+x-1)-1]
      BY <1>2, <2>1
    <2> QED BY <1>4, <1>5, <2>1, <2>2
  <1>7. Rest(t, k) = Rest(s, b)
    BY <1>4, <1>5, <1>6, SeqEqual
  <1> QED BY <1>7 DEF t, b

LEMMA ScanOfRest ==
  ASSUME NEW S, NEW s \in Seq(S), NEW l \in Nat, l <= Len(s),
         NEW t, t = Rest(s, l+1)
  PROVE  \A k \in 1..Len(t)+1 : Scan(t)[k] = Scan(s)[k+l]
  <1> DEFINE n == Len(s)
             m == n - l
             Bad == {j \in Nat : j <= m /\ Scan(t)[m+1-j] # Scan(s)[n+1-j]}
  <1>1. n \in Nat /\ m \in Nat /\ l+1 \in 1..n+1 /\ n = m + l
    BY LenProperties
  <1>2. t \in Seq(S) /\ Len(t) = m
    <2> DEFINE a == l+1
    <2>1. a \in 1..Len(s)+1 /\ Len(s)-a+1 = m
      BY <1>1
    <2>2. t = Rest(s, a)
      OBVIOUS
    <2> HIDE DEF a, m
    <2> QED BY <2>1, <2>2, RestIs
  <1> HIDE DEF m
  <1>3. Bad = {}
    <2> SUFFICES ASSUME Bad # {} PROVE FALSE
      OBVIOUS
    <2>1. Bad \in SUBSET Nat
      OBVIOUS
    <2>2. PICK j \in Bad : \A i0 \in Bad : j <= i0
      BY <2>1, LeastExists
    <2> DEFINE k == m+1-j
               d == Term!lex(Rest(t, k)).len
    <2>3. j \in Nat /\ j <= m /\ Scan(t)[m+1-j] # Scan(s)[n+1-j]
      BY <2>2
    <2>4. k \in 1..m+1 /\ k + l \in 1..n+1 /\ m - k + 1 = j /\ n - (k+l) + 1 = j /\ n+1-j = k+l
      BY <1>1, <2>3
    <2>5. d \in 1..3
      BY TokenLength
    <2>6. Scan(t)[k] = ShownFrom(t, Scan(t), k)
      <3>1. k \in 1..Len(t)+1
        BY <1>2, <2>4
      <3> HIDE DEF k
      <3> QED BY <1>2, <3>1, ScanExists
    <2> HIDE DEF k, d
    <2>7. Scan(s)[k+l] = ShownFrom(s, Scan(s), k+l)
      <3> DEFINE kk == k+l
      <3>1. kk \in 1..Len(s)+1
        BY <2>4
      <3> HIDE DEF kk
      <3>2. Scan(s)[kk] = ShownFrom(s, Scan(s), kk)
        BY <3>1, ScanExists
      <3> QED BY <3>2 DEF kk
    <2>8. Scan(t)[k] # Scan(s)[k+l]
      BY <2>3, <2>4 DEF k
    <2>9. CASE j < 3
      <3>1. ShownFrom(t, Scan(t), k) = <<>>
        BY <1>2, <2>4, <2>9 DEF ShownFrom
      <3>2. ShownFrom(s, Scan(s), k+l) = <<>>
        BY <2>4, <2>9 DEF ShownFrom
      <3> QED BY <2>6, <2>7, <2>8, <3>1, <3>2
    <2>10. CASE ~(j < 3)
      <3>1. Rest(t, k) = Rest(s, k+l)
        <4> DEFINE a == l+1
        <4>1. a \in 1..Len(s)+1 /\ k \in 1..Len(s)-a+2 /\ a+k-1 = k+l
          BY <1>1, <2>4
        <4>2. t = Rest(s, a)
          OBVIOUS
        <4> HIDE DEF a
        <4> QED BY <4>1, <4>2, RestOfRest
      <3>2. Scan(t)[k] = Term!Show(Term!lex(Rest(t, k))) \o Scan(t)[k + d]
        BY <1>2, <2>3, <2>4, <2>6, <2>10 DEF ShownFrom, d
      <3>3. Scan(s)[k+l] = Term!Show(Term!lex(Rest(t, k))) \o Scan(s)[(k+l) + d]
        BY <2>3, <2>4, <2>7, <2>10, <3>1 DEF ShownFrom, d
      <3>4. /\ j-d \in Nat /\ j-d <= m /\ ~(j <= j-d)
            /\ m+1-(j-d) = k+d /\ n+1-(j-d) = (k+l)+d
        <4>1. j \in Nat /\ j <= m /\ k \in Int /\ m-k+1 = j /\ n+1-j = k+l /\ ~(j < 3)
          BY <2>3, <2>4, <2>10
        <4>2. d \in 1..3
          BY <2>5
        <4>3. m \in Nat /\ n \in Nat /\ l \in Nat
          BY <1>1
        <4> HIDE DEF n
        <4>4. j-d \in Nat /\ j-d <= m /\ ~(j <= j-d)
          BY <4>1, <4>2, <4>3
        <4>5. m+1-(j-d) = k+d
          BY <4>1, <4>2, <4>3
        <4>6. n+1-(j-d) = (k+l)+d
          BY <4>1, <4>2, <4>3
        <4> QED BY <4>4, <4>5, <4>6
      <3> HIDE DEF Bad
      <3>5. j-d \notin Bad
        BY <2>2, <3>4
      <3> USE DEF Bad
      <3>6. Scan(t)[k+d] = Scan(s)[(k+l)+d]
        BY <3>4, <3>5
      <3> QED BY <2>8, <3>2, <3>3, <3>6
    <2> QED BY <2>9, <2>10
  <1>4. ASSUME NEW k \in 1..m+1 PROVE Scan(t)[k] = Scan(s)[k+l]
    <2>1. m+1-k \in Nat /\ m+1-k <= m /\ m+1-(m+1-k) = k /\ n+1-(m+1-k) = k+l
      BY <1>1, <1>4
    <2> QED BY <1>3, <2>1
  <1> QED BY <1>2, <1>4

LEMMA ShowsUnfolds ==
  ASSUME NEW S, NEW s \in Seq(S), ~(Len(s) < 3)
  PROVE  Term!Shows(s) = Term!Show(Term!lex(s)) \o Term!Shows(Term!After(s, Term!lex(s)))
  <1> DEFINE n == Len(s)
             l == Term!lex(s).len
             t == Rest(s, l+1)
  <1>1. n \in Nat /\ l \in 1..3 /\ ~(n < 3) /\ l \in Nat /\ l <= n
    BY TokenLength, LenProperties
  <1>2. Rest(s, 1) = s
    <2>1. 1 \in 1..Len(s)+1 /\ Len(s)-1+1 = Len(s)
      BY <1>1
    <2>2. /\ Rest(s, 1) \in Seq(S) /\ Len(Rest(s, 1)) = Len(s)
          /\ \A k \in 1..Len(s) : Rest(s, 1)[k] = s[1+k-1]
      BY <2>1, RestIs
    <2>3. \A k \in 1..Len(s) : 1+k-1 = k
      BY <1>1
    <2> QED BY <2>2, <2>3, SeqEqual
  <1>3. Scan(s)[1] = Term!Show(Term!lex(s)) \o Scan(s)[1+l]
    <2>1. 1 \in 1..Len(s)+1 /\ ~(Len(s)-1+1 < 3)
      BY <1>1
    <2>2. Scan(s)[1] = ShownFrom(s, Scan(s), 1)
      BY <2>1, ScanExists
    <2> QED BY <1>2, <2>1, <2>2 DEF ShownFrom
  <1>4. Scan(t)[1] = Scan(s)[1+l]
    <2> DEFINE l0 == l
    <2>1. l0 \in Nat /\ l0 <= Len(s) /\ t = Rest(s, l0+1)
      BY <1>1
    <2> HIDE DEF l0, t
    <2>2. \A k \in 1..Len(t)+1 : Scan(t)[k] = Scan(s)[k+l0]
      BY <2>1, ScanOfRest
    <2>3. t \in Seq(S)
      <3> DEFINE a == l0+1
      <3>1. a \in 1..Len(s)+1 /\ t = Rest(s, a)
        BY <1>1, <2>1
      <3> HIDE DEF a
      <3> QED BY <3>1, RestIs
    <2>4. 1 \in 1..Len(t)+1
      BY <2>3, LenProperties
    <2> QED BY <2>2, <2>4 DEF l0
  <1>5. Term!After(s, Term!lex(s)) = t
    BY DEF Term!After, Rest
  <1> QED BY <1>3, <1>4, <1>5, ShowsIs

LEMMA ShowsNothing ==
  ASSUME NEW S, NEW s \in Seq(S), Len(s) < 3
  PROVE  Term!Shows(s) = <<>>
  <1>1. 1 \in 1..Len(s)+1 /\ Len(s)-1+1 < 3
    BY LenProperties
  <1>2. Scan(s)[1] = ShownFrom(s, Scan(s), 1)
    BY <1>1, ScanExists
  <1> QED BY <1>1, <1>2, ShowsIs DEF ShownFrom

(* A token of three bytes or more does not depend on what comes after.        *)
LEMMA TokenOfLonger ==
  ASSUME NEW S, NEW s \in Seq(S), ~(Len(s) < 3), NEW x \in Seq(S)
  PROVE  /\ Term!lex(s \o x) = Term!lex(s)
         /\ Term!After(s \o x, Term!lex(s)) = Term!After(s, Term!lex(s)) \o x
         /\ Term!After(s, Term!lex(s)) \in Seq(S)
         /\ Len(Term!After(s, Term!lex(s))) \in 0..Len(s)-1
         /\ ~(Len(s \o x) < 3)
  <1> DEFINE n == Len(s)
             m == Len(x)
             a == Term!lex(s).len + 1
             y == s \o x
             t == Rest(s, a)
  <1>1. n \in Nat /\ m \in Nat /\ ~(n < 3) /\ a \in 2..4 /\ a \in 1..n+1 /\ a \in 1..(n+m)+1
    BY TokenLength, LenProperties
  <1>2. /\ y \in Seq(S) /\ Len(y) = n+m
        /\ \A k \in 1..n+m : y[k] = IF k <= n THEN s[k] ELSE x[k-n]
    BY ConcatProperties
  <1>3. y[1] = s[1] /\ y[2] = s[2] /\ y[3] = s[3]
    <2>1. {1, 2, 3} \subseteq 1..n+m /\ 1 <= n /\ 2 <= n /\ 3 <= n
      BY <1>1
    <2> QED BY <1>2, <2>1
  <1>4. Term!lex(y) = Term!lex(s)
    BY <1>3 DEF Term!lex
  <1>5. t \in Seq(S) /\ Len(t) = n-a+1 /\ \A k \in 1..n-a+1 : t[k] = s[a+k-1]
    <2> HIDE DEF a
    <2> QED BY <1>1, RestIs
  <1>6. /\ Rest(y, a) \in Seq(S) /\ Len(Rest(y, a)) = n+m-a+1
        /\ \A k \in 1..n+m-a+1 : Rest(y, a)[k] = y[a+k-1]
    <2> HIDE DEF a, y, n, m
    <2>1. y \in Seq(S) /\ a \in 1..Len(y)+1 /\ Len(y) = n+m
      BY <1>1, <1>2
    <2>2. /\ Rest(y, a) \in Seq(S) /\ Len(Rest(y, a)) = Len(y)-a+1
          /\ \A k \in 1..Len(y)-a+1 : Rest(y, a)[k] = y[a+k-1]
      BY <2>1, RestIs
    <2>3. Len(y)-a+1 = n+m-a+1
      <3>1. Len(y) = n+m /\ n \in Nat /\ m \in Nat /\ a \in Nat
        BY <1>1, <2>1
      <3> QED BY <3>1
    <2> QED BY <2>1, <2>2, <2>3
  <1>7. /\ t \o x \in Seq(S) /\ Len(t \o x) = (n-a+1)+m
        /\ \A k \in 1..(n-a+1)+m : (t \o x)[k] = IF k <= n-a+1 THEN t[k] ELSE x[k-(n-a+1)]
    <2>1. m = Len(x)
      OBVIOUS
    <2> HIDE DEF a, t, n, m
    <2>2. /\ t \o x \in Seq(S) /\ Len(t \o x) = Len(t)+Len(x)
          /\ \A k \in 1..Len(t)+Len(x) : (t \o x)[k] = IF k <= Len(t) THEN t[k] ELSE x[k-Len(t)]
      BY <1>5, ConcatProperties
    <2> QED BY <1>5, <2>1, <2>2
  <1> HIDE DEF n, m, a, y, t
  <1>8. n+m-a+1 = (n-a+1)+m
    BY <1>1
  <1>9. ASSUME NEW k \in 1..(n-a+1)+m PROVE Rest(y, a)[k] = (t \o x)[k]
    <2>1. k \in 1..n+m-a+1 /\ a+k-1 \in 1..n+m
      BY <1>1
    <2>2. CASE k <= n-a+1
      <3>1. k \in 1..n-a+1 /\ a+k-1 <= n
        BY <1>1, <2>2
      <3> QED BY <1>2, <1>5, <1>6, <1>7, <2>1, <2>2, <3>1
    <2>3. CASE ~(k <= n-a+1)
      <3>1. ~(a+k-1 <= n) /\ (a+k-1)-n = k-(n-a+1)
        BY <1>1, <2>3
      <3> QED BY <1>2, <1>6, <1>7, <2>1, <2>3, <3>1
    <2> QED BY <2>2, <2>3
  <1>10. Rest(y, a) = t \o x
    BY <1>6, <1>7, <1>8, <1>9, SeqEqual
  <1>11. Term!After(y, Term!lex(s)) = Rest(y, a) /\ Term!After(s, Term!lex(s)) = t
    BY DEF Term!After, Rest, a, t
  <1>12. n-a+1 \in 0..n-1 /\ ~(n+m < 3)
    BY <1>1
  <1> QED BY <1>2, <1>4, <1>5, <1>10, <1>11, <1>12 DEF y, n

-----------------------------------------------------------------------------
(* The invariant of AllButTwoShown: whatever may still come, one scan of all   *)
(* bytes shows what was shown and what a scan of the rest held would show.      *)

WhateverComes ==
  \A x \in Seq(Term!Byte) : Term!Shows(received \o x) = display \o Term!Shows(buf \o x)
Scanned ==
  /\ {debug, scanning} \subseteq BOOLEAN
  /\ buf \in Seq(Term!Byte) /\ received \in Seq(Term!Byte) /\ display \in Seq(Printed)
  /\ Len(buf) <= BufSize - 1
  /\ ~scanning => Len(buf) < BufSize - 1 /\ (~debug => Len(buf) < 3)
  /\ ~debug => WhateverComes

LEMMA ScannedInit == Init => Scanned
  <1> SUFFICES ASSUME Init PROVE Scanned
    OBVIOUS
  <1>1. /\ debug \in BOOLEAN /\ scanning = FALSE
        /\ buf = <<>> /\ display = <<>> /\ received = <<>>
    BY DEF Init, Term!Init
  <1>2. <<>> \in Seq(Term!Byte) /\ <<>> \in Seq(Printed) /\ Len(<<>>) = 0
    OBVIOUS
  <1>3. 0 < BufSize - 1 /\ 0 <= BufSize - 1
    BY ProgramsAssumption DEF ProgramsAssumption
  <1>4. ASSUME NEW x \in Seq(Term!Byte)
        PROVE  Term!Shows(received \o x) = display \o Term!Shows(buf \o x)
    <2>1. <<>> \o x = x
      BY ConcatEmptySeq
    <2> DEFINE y == Term!Shows(x)
    <2>2. y \in Seq(Printed)
      BY ShowsType
    <2> HIDE DEF y
    <2>3. <<>> \o y = y
      BY <2>2, ConcatEmptySeq
    <2> QED BY <1>1, <2>1, <2>3 DEF y
  <1>5. WhateverComes
    BY <1>4 DEF WhateverComes
  <1>6. Len(buf) <= BufSize - 1 /\ Len(buf) < BufSize - 1 /\ Len(buf) < 3
    BY <1>1, <1>2, <1>3
  <1> QED BY <1>1, <1>2, <1>5, <1>6 DEF Scanned

LEMMA ScannedRead ==
  ASSUME Scanned, NEW n \in 1..BufSize, Term!Read(n)
  PROVE  Scanned'
  <1>1. /\ n <= BufSize - Len(buf) - 1 /\ scanning' = TRUE
        /\ UNCHANGED <<debug, display>>
        /\ \E bytes \in [1..n -> Term!Byte] : buf' = buf \o bytes /\ received' = received \o bytes
    BY DEF Term!Read, Term!Room
  <1>2. PICK bytes \in [1..n -> Term!Byte] : buf' = buf \o bytes /\ received' = received \o bytes
    BY <1>1
  <1>3. BufSize \in Nat /\ n \in Nat
    BY ProgramsAssumption DEF ProgramsAssumption
  <1>4. bytes \in Seq(Term!Byte) /\ Len(bytes) = n
    BY <1>2, <1>3
  <1>5. buf \in Seq(Term!Byte) /\ received \in Seq(Term!Byte) /\ display \in Seq(Printed)
        /\ {debug, scanning} \subseteq BOOLEAN /\ (~debug => WhateverComes)
    BY DEF Scanned
  <1>6. buf' \in Seq(Term!Byte) /\ Len(buf') = Len(buf) + n
    BY <1>2, <1>4, <1>5, ConcatProperties
  <1>7. received' \in Seq(Term!Byte)
    BY <1>2, <1>4, <1>5, ConcatProperties
  <1>8. Len(buf') <= BufSize - 1
    <2>1. Len(buf) \in Nat
      BY <1>5, LenProperties
    <2> QED BY <1>1, <1>3, <1>6, <2>1
  <1>9. ASSUME ~debug' PROVE WhateverComes'
    <2> SUFFICES ASSUME NEW x \in Seq(Term!Byte)
                 PROVE  Term!Shows(received' \o x) = display' \o Term!Shows(buf' \o x)
      BY DEF WhateverComes
    <2> DEFINE y == bytes \o x
    <2>1. y \in Seq(Term!Byte)
      BY <1>4, ConcatProperties
    <2>2. received' \o x = received \o y /\ buf' \o x = buf \o y
      <3>1. bytes \in Seq(Term!Byte) /\ received \in Seq(Term!Byte) /\ buf \in Seq(Term!Byte)
        BY <1>4, <1>5
      <3>2. (received \o bytes) \o x = received \o (bytes \o x)
        BY <3>1, ConcatAssociative, SMTT(30)
      <3>3. (buf \o bytes) \o x = buf \o (bytes \o x)
        BY <3>1, ConcatAssociative, SMTT(30)
      <3> QED BY <1>2, <3>2, <3>3
    <2> HIDE DEF y
    <2>3. Term!Shows(received \o y) = display \o Term!Shows(buf \o y)
      BY <1>1, <1>5, <1>9, <2>1 DEF WhateverComes
    <2> QED BY <1>1, <2>2, <2>3
  <1>10. {debug', scanning'} \subseteq BOOLEAN /\ display' \in Seq(Printed)
    BY <1>1, <1>5
  <1> QED BY <1>1, <1>6, <1>7, <1>8, <1>9, <1>10 DEF Scanned

(* A token taken off the buffer.                                              *)
LEMMA ScannedToken ==
  ASSUME Scanned, Term!Token
  PROVE  Scanned'
  <1> DEFINE token == Term!lex(buf)
             rest == Term!After(buf, token)
  <1>1. /\ scanning /\ ~(Len(buf) < 3) /\ buf' = rest /\ display' = display \o Term!Show(token)
        /\ UNCHANGED <<debug, scanning, received>>
    <2>1. Len(buf) >= 3 /\ Len(buf) \in Nat
      BY LenProperties DEF Scanned, Term!Token, Term!Longest
    <2> QED BY <2>1 DEF Term!Token
  <1>2. buf \in Seq(Term!Byte) /\ received \in Seq(Term!Byte) /\ display \in Seq(Printed)
        /\ {debug, scanning} \subseteq BOOLEAN /\ (~debug => WhateverComes)
        /\ Len(buf) <= BufSize - 1
    BY DEF Scanned
  <1>3. Term!Show(token) \in Seq(Printed)
    BY ShowType
  <1>4. \A x \in Seq(Term!Byte) :
          /\ Term!lex(buf \o x) = token
          /\ Term!After(buf \o x, token) = rest \o x
          /\ rest \in Seq(Term!Byte) /\ Len(rest) \in 0..Len(buf)-1
          /\ ~(Len(buf \o x) < 3)
    BY <1>1, <1>2, TokenOfLonger
  <1>5. rest \in Seq(Term!Byte) /\ Len(rest) \in 0..Len(buf)-1
    <2>1. <<>> \in Seq(Term!Byte)
      OBVIOUS
    <2> QED BY <1>4, <2>1
  <1> HIDE DEF token, rest
  <1>6. Len(buf') <= BufSize - 1
    <2>1. Len(buf) \in Nat /\ BufSize \in Nat
      BY <1>2, LenProperties, ProgramsAssumption DEF ProgramsAssumption
    <2> QED BY <1>1, <1>2, <1>5, <2>1
  <1>7. display' \in Seq(Printed)
    BY <1>1, <1>2, <1>3, ConcatProperties
  <1>8. ASSUME ~debug' PROVE WhateverComes'
    <2> SUFFICES ASSUME NEW x \in Seq(Term!Byte)
                 PROVE  Term!Shows(received' \o x) = display' \o Term!Shows(buf' \o x)
      BY DEF WhateverComes
    <2> DEFINE y == buf \o x
               z == Term!Shows(rest \o x)
    <2>1. Term!Shows(received \o x) = display \o Term!Shows(y)
      BY <1>1, <1>2, <1>8 DEF WhateverComes
    <2>2. y \in Seq(Term!Byte) /\ rest \o x \in Seq(Term!Byte)
      BY <1>2, <1>5, ConcatProperties
    <2>3. Term!Shows(y) = Term!Show(token) \o z
      <3>1. Term!lex(y) = token /\ Term!After(y, token) = rest \o x /\ ~(Len(y) < 3)
        BY <1>4
      <3> HIDE DEF y
      <3>2. Term!Shows(y) = Term!Show(Term!lex(y)) \o Term!Shows(Term!After(y, Term!lex(y)))
        BY <2>2, <3>1, ShowsUnfolds
      <3> QED BY <3>1, <3>2
    <2>4. z \in Seq(Printed)
      <3> DEFINE r == rest \o x
      <3>1. r \in Seq(Term!Byte)
        BY <2>2
      <3> HIDE DEF r
      <3>2. Term!Shows(r) \in Seq(Printed)
        BY <3>1, ShowsType
      <3> QED BY <3>2 DEF r
    <2> HIDE DEF y, z
    <2> DEFINE w == Term!Show(token)
    <2>5. w \in Seq(Printed)
      BY <1>3
    <2> HIDE DEF w
    <2>6. (display \o w) \o z = display \o (w \o z)
      BY <1>2, <2>4, <2>5, ConcatAssociative, SMTT(30)
    <2>7. Term!Shows(received' \o x) = display \o (w \o z)
      BY <1>1, <2>1, <2>3 DEF w
    <2>8. display' \o Term!Shows(buf' \o x) = (display \o w) \o z
      BY <1>1 DEF w, z
    <2> QED BY <2>6, <2>7, <2>8
  <1>9. buf' \in Seq(Term!Byte)'
    BY <1>1, <1>5 DEF Term!Byte
  <1> QED BY <1>1, <1>2, <1>6, <1>7, <1>8, <1>9 DEF Scanned

LEMMA ScannedNext == Scanned /\ [Next]_vars => Scanned'
  <1> SUFFICES ASSUME Scanned, [Next]_vars PROVE Scanned'
    OBVIOUS
  <1>1. BufSize \in Nat /\ BufSize > 3 /\ Len(buf) \in Nat
    BY LenProperties, ProgramsAssumption DEF Scanned, ProgramsAssumption
  <1>2. CASE UNCHANGED term
    BY <1>2 DEF Scanned, WhateverComes, term
  <1>3. CASE Term!Next
    <2>1. CASE \E n \in 1..BufSize : Term!Read(n)
      BY <2>1, ScannedRead
    <2>2. CASE Term!Token
      BY <2>2, ScannedToken
    <2>3. CASE Term!ReadFails
      <3>1. UNCHANGED <<debug, scanning, buf, display, received>>
        BY <2>3 DEF Term!ReadFails
      <3> QED BY <3>1 DEF Scanned, WhateverComes
    <2>4. CASE Term!ForceBreak
      <3> DEFINE rest == Term!After(buf, Term!lex(buf))
      <3>1. /\ debug /\ debug' = debug /\ scanning' = FALSE /\ ~(Len(buf) < 3)
            /\ buf' = rest /\ UNCHANGED <<display, received>>
        BY <1>1, <2>4 DEF Term!ForceBreak, Term!Longest
      <3>2. <<>> \in Seq(Term!Byte) /\ buf \in Seq(Term!Byte)
        BY DEF Scanned
      <3>3. rest \in Seq(Term!Byte) /\ Len(rest) \in 0..Len(buf)-1
        BY <3>1, <3>2, TokenOfLonger
      <3> HIDE DEF rest
      <3>4. Len(buf') <= BufSize - 1 /\ Len(buf') < BufSize - 1
        <4>1. Len(buf) <= BufSize - 1
          BY DEF Scanned
        <4> QED BY <1>1, <3>1, <3>3, <4>1
      <3> QED BY <3>1, <3>3, <3>4 DEF Scanned
    <2>5. CASE Term!Leave
      <3>1. Len(buf) < 3 /\ scanning' = FALSE /\ UNCHANGED <<debug, buf, display, received>>
        BY <2>5 DEF Term!Leave, Term!Longest
      <3>2. Len(buf) < BufSize - 1
        BY <1>1, <3>1
      <3> QED BY <3>1, <3>2 DEF Scanned, WhateverComes
    <2> QED BY <1>3, <2>1, <2>2, <2>3, <2>4, <2>5 DEF Term!Next
  <1> QED BY <1>2, <1>3
      DEF Next, HelperRuns, SigwaitRuns, TimerRuns, ClientRuns, UdpRuns, TermRuns, vars

(* Wherever the reads of myterm cut what the port sends, and however long it   *)
(* is: between two calls of port_handler there is room for another byte, and      *)
(* but for the debug mode all was shown that one scan of the whole would show.    *)
THEOREM CutsMakeNoDifference == Spec => []AllButTwoShown
  <1>1. Scanned => AllButTwoShown
    <2> SUFFICES ASSUME Scanned, ~scanning
                 PROVE  /\ BufSize - Len(buf) - 1 > 0
                        /\ ~debug => Len(buf) < 3 /\ display = Term!Shows(received)
      BY DEF AllButTwoShown, Term!AllButTwoShown, Term!Room, Term!Longest
    <2>1. BufSize \in Nat /\ Len(buf) \in Nat /\ Len(buf) < BufSize - 1
      BY LenProperties, ProgramsAssumption DEF Scanned, ProgramsAssumption
    <2>2. BufSize - Len(buf) - 1 > 0
      BY <2>1
    <2>3. ASSUME ~debug PROVE Len(buf) < 3 /\ display = Term!Shows(received)
      <3>1. Len(buf) < 3 /\ WhateverComes
        BY <2>3 DEF Scanned
      <3>2. /\ buf \in Seq(Term!Byte) /\ received \in Seq(Term!Byte) /\ display \in Seq(Printed)
            /\ <<>> \in Seq(Term!Byte)
        BY DEF Scanned
      <3>3. Term!Shows(received \o <<>>) = display \o Term!Shows(buf \o <<>>)
        BY <3>1, <3>2 DEF WhateverComes
      <3>4. received \o <<>> = received /\ buf \o <<>> = buf /\ display \o <<>> = display
        BY <3>2, ConcatEmptySeq
      <3>5. Term!Shows(buf) = <<>>
        BY <3>1, <3>2, ShowsNothing
      <3> QED BY <3>1, <3>3, <3>4, <3>5
    <2> QED BY <2>2, <2>3
  <1> QED BY <1>1, ScannedInit, ScannedNext, PTL DEF Spec

-----------------------------------------------------------------------------
(* daemon/client.  The invariant of PatientUserHearsAnswers: the last line is *)
(* all that is on its way, typed, sent or answered; or it was lost; or all were   *)
(* answered.  A line that fills the buffer leaves its newline for another read.   *)

Shown == STRING \cup {"ok", "nl"}
HasNoEnd(line) == \A k \in 1..Len(line) : line[k] # "nl"
Patient == kind = "daemon" /\ spoilt \cap {"hasty", "long", "torn"} = {}
LastLine == typed[Len(typed)]
Silence == toServer = <<>> /\ toClient = <<>>
NewlineAtMost == tty \in {<<>>, <<"nl">>}
Missing ==
  /\ Len(typed) > 0 /\ LastLine # <<>> /\ Len(LastLine) <= BufLen
  /\ Len(heard) + 1 = Cardinality(Client!Asked)

AllHeard == NewlineAtMost /\ Silence /\ Len(heard) = Cardinality(Client!Asked)
Unread == tty = Append(LastLine, "nl") /\ Silence /\ Missing
Asking == NewlineAtMost /\ toServer = LastLine /\ toClient = <<>> /\ Missing
Answering == NewlineAtMost /\ toServer = <<>> /\ toClient = LastLine \o <<"ok", "nl">> /\ Missing
Lost == NewlineAtMost /\ Silence /\ Missing

AnswersInOrder ==
  \A k \in 1..Len(heard) : \E j \in Client!Asked :
    Cardinality({m \in Client!Asked : m <= j}) = k /\ heard[k] = Append(typed[j], "ok")
Talk ==
  /\ typed \in Seq(ClientTyped)
  /\ Patient => /\ heard \in Seq(Seq(Shown)) /\ AnswersInOrder /\ "overrun" \notin spoilt
                /\ AllHeard \/ Unread \/ Asking \/ Answering \/ Lost

LEMMA ClientLines ==
  /\ \A line \in ClientTyped : line \in Seq(Shown) /\ HasNoEnd(line)
  /\ BufLen \in Nat /\ BufLen > 0 /\ RecvSize \in Nat /\ BufLen + 2 < RecvSize
  <1>1. ClientTyped \subseteq Seq(STRING) /\ \A line \in ClientTyped : HasNoEnd(line)
    BY ProgramsAssumption DEF ProgramsAssumption, HasNoEnd
  <1>2. BufLen \in Nat \ {0} /\ RecvSize \in Nat \ {0} /\ BufLen + 2 < RecvSize
    BY ProgramsAssumption DEF ProgramsAssumption
  <1>3. \A A, B : A \subseteq B => \A s \in Seq(A) : s \in Seq(B)
    OBVIOUS
  <1>4. STRING \subseteq Shown
    BY DEF Shown
  <1>5. \A s \in Seq(STRING) : s \in Seq(Shown)
    BY <1>3, <1>4
  <1> QED BY <1>1, <1>2, <1>5

(* The client's module has a Cardinality of its own: it is the same.         *)
LEMMA SameCardinality == \A S : Client!Cardinality(S) = Cardinality(S)
  <1>1. \A S : Client!IsFiniteSet(S) = IsFiniteSet(S)
    BY DEF Client!IsFiniteSet, IsFiniteSet
  <1> QED BY <1>1 DEF Client!Cardinality, Cardinality

LEMMA TalkInit == Init => Talk
  <1> SUFFICES ASSUME Init PROVE Talk
    OBVIOUS
  <1>1. /\ tty = <<>> /\ toServer = <<>> /\ toClient = <<>> /\ typed = <<>> /\ heard = <<>>
        /\ spoilt = {}
    BY DEF Init, Client!Init
  <1>2. Len(<<>>) = 0 /\ 1..0 = {} /\ <<>> \in Seq(ClientTyped) /\ <<>> \in Seq(Seq(Shown))
    OBVIOUS
  <1>3. Client!Asked = {} /\ AnswersInOrder
    BY <1>1, <1>2 DEF Client!Asked, AnswersInOrder
  <1>4. Cardinality({}) = 0
    BY FS_EmptySet
  <1> QED BY <1>1, <1>2, <1>3, <1>4 DEF Talk, AllHeard, NewlineAtMost, Silence

(* What strpbrk finds in a line, and in its answer.                          *)
LEMMA NothingToCut ==
  ASSUME NEW line, HasNoEnd(line)
  PROVE  Client!FirstLine(line) = line /\ Udp!FirstLine(line) = line
  BY DEF HasNoEnd, Client!FirstLine, Client!Newlines, Udp!FirstLine

LEMMA AnswerCut ==
  ASSUME NEW S, "ok" \in S, "nl" \in S, NEW line \in Seq(S), HasNoEnd(line)
  PROVE  Client!FirstLine(line \o <<"ok", "nl">>) = Append(line, "ok")
  <1>1. Udp!Answer(line) = line \o <<"ok", "nl">>
    BY NothingToCut DEF Udp!Answer
  <1>2. Udp!FirstLine(line \o <<"ok", "nl">>) = Append(line, "ok")
    BY <1>1, NothingToCut, FirstLineOfAnswer
  <1>3. \A s : Client!FirstLine(s) = Udp!FirstLine(s)
    BY DEF Client!FirstLine, Client!Newlines, Client!FirstNewline, Udp!FirstLine
  <1> QED BY <1>2, <1>3

LEMMA AnswerEnds ==
  ASSUME NEW S, "ok" \in S, "nl" \in S, NEW line \in Seq(S), HasNoEnd(line)
  PROVE  LET answer == line \o <<"ok", "nl">>
         IN  /\ answer \in Seq(S) /\ Len(answer) = Len(line) + 2
             /\ \A k \in 1..Len(answer) : answer[k] = "nl" => k = Len(answer)
  <1> DEFINE end == <<"ok", "nl">>
             answer == line \o end
  <1>1. end \in Seq(S) /\ Len(end) = 2 /\ end[1] = "ok"
    OBVIOUS
  <1>2. Len(line) \in Nat
    BY LenProperties
  <1> HIDE DEF end
  <1>3. /\ answer \in Seq(S) /\ Len(answer) = Len(line) + Len(end)
        /\ \A k \in 1..Len(line) : answer[k] = line[k]
        /\ \A k \in 1..Len(end) : answer[Len(line) + k] = end[k]
    <2>1. end \in Seq(S)
      BY <1>1
    <2> QED BY <2>1, Joined
  <1>4. ASSUME NEW k \in 1..Len(line) + 2, answer[k] = "nl" PROVE k = Len(line) + 2
    <2>1. k \notin 1..Len(line)
      BY <1>3, <1>4 DEF HasNoEnd
    <2>2. k # Len(line) + 1
      <3>1. 1 \in 1..Len(end)
        BY <1>1
      <3>2. answer[Len(line) + 1] = "ok"
        BY <1>1, <1>3, <3>1
      <3> QED BY <1>4, <3>2
    <2> QED BY <1>2, <2>1, <2>2
  <1> QED BY <1>1, <1>3, <1>4 DEF end

(* All but the last of a sequence, and the last.                            *)
LEMMA ButLast ==
  ASSUME NEW S, NEW t \in Seq(S), NEW n \in Nat, Len(t) = n + 1
  PROVE  /\ SubSeq(t, 1, n) \in Seq(S) /\ Len(SubSeq(t, 1, n)) = n
         /\ \A k \in 1..n : SubSeq(t, 1, n)[k] = t[k]
         /\ SubSeq(t, n + 1, n + 1) = <<t[n + 1]>>
  <1>1. \A k \in 1..(n + 1) : t[k] \in S
    BY ElementOfSeq
  <1>2. \A k \in 1..n : t[k] \in S
    BY <1>1
  <1>3. SubSeq(t, 1, n) \in Seq(S) /\ Len(SubSeq(t, 1, n)) = n
        /\ \A k \in 1..n : SubSeq(t, 1, n)[k] = t[k]
    BY <1>2, SubSeqProperties
  <1> DEFINE u == SubSeq(t, n + 1, n + 1)
  <1>4. \A k \in (n + 1)..(n + 1) : t[k] \in S
    BY <1>1
  <1>5. u \in Seq(S) /\ Len(u) = 1 /\ u[1] = t[n + 1]
    BY <1>4, SubSeqProperties
  <1>6. t[n + 1] \in S
    BY <1>1
  <1> HIDE DEF u
  <1>7. u = <<t[n + 1]>>
    BY <1>5, <1>6, SeqEqual
  <1> QED BY <1>3, <1>7 DEF u

(* A line that fits is read at once, but for its newline if it fills the buffer. *)
LEMMA LineRead ==
  ASSUME NEW S, "nl" \in S, NEW line \in Seq(S), HasNoEnd(line), Len(line) <= BufLen,
         tty = Append(line, "nl")
  PROVE  /\ Client!Text = line
         /\ Client!Unread = IF Len(line) < BufLen THEN <<>> ELSE <<"nl">>
  <1> DEFINE n == Len(line)
  <1>0. n \in Nat /\ BufLen \in Nat /\ n <= BufLen
    BY LenProperties, ClientLines
  <1>1. /\ tty \in Seq(S) /\ Len(tty) = n + 1 /\ tty[n + 1] = "nl"
        /\ \A k \in 1..n : tty[k] = line[k]
    BY AppendProperties
  <1>2. \A k \in 1..n : line[k] # "nl" /\ line[k] \in S
    BY ElementOfSeq DEF HasNoEnd
  <1> HIDE DEF n
  <1>3. Client!Newlines(tty) = {n + 1}
    <2>1. \A k \in 1..(n + 1) : k \in 1..n \/ k = n + 1
      BY <1>0
    <2>2. n + 1 \in 1..(n + 1)
      BY <1>0
    <2> QED BY <1>1, <1>2, <2>1, <2>2 DEF Client!Newlines
  <1>4. Client!FirstNewline(tty) = n + 1
    <2>1. (CHOOSE k \in {n + 1} : \A m \in {n + 1} : k <= m) = n + 1
      BY <1>0
    <2> QED BY <1>3, <2>1 DEF Client!FirstNewline
  <1>5. SubSeq(tty, 1, n) = line
    <2>1. n \in Nat /\ tty \in Seq(S) /\ Len(tty) = n + 1
      BY <1>0, <1>1
    <2>2. /\ SubSeq(tty, 1, n) \in Seq(S) /\ Len(SubSeq(tty, 1, n)) = n
          /\ \A k \in 1..n : SubSeq(tty, 1, n)[k] = tty[k]
      BY <2>1, ButLast
    <2> QED BY <1>1, <2>2, SeqEqual DEF n
  <1>6. CASE n < BufLen
    <2>1. Client!Least(n + 1, BufLen) = n + 1
      BY <1>0, <1>6 DEF Client!Least
    <2>2. Client!Chunk = tty
      BY <1>1, <1>4, <2>1, SubSeqFull DEF Client!Chunk
    <2>3. Client!FirstLine(tty) = line
      <3>1. (n + 1) - 1 = n
        BY <1>0
      <3>2. Client!FirstLine(tty) = SubSeq(tty, 1, (n + 1) - 1)
        BY <1>3, <1>4 DEF Client!FirstLine
      <3> QED BY <1>5, <3>1, <3>2
    <2>4. Client!Unread = <<>>
      <3>1. Client!Unread = SubSeq(tty, (n + 1) + 1, n + 1)
        BY <1>1, <2>2 DEF Client!Unread
      <3> QED BY <1>0, <3>1, SubSeqEmpty
    <2> QED BY <1>6, <2>2, <2>3, <2>4 DEF Client!Text, n
  <1>7. CASE n = BufLen
    <2>1. Client!Least(n + 1, BufLen) = n
      BY <1>0, <1>7 DEF Client!Least
    <2>2. Client!Chunk = line
      BY <1>4, <1>5, <2>1 DEF Client!Chunk
    <2>3. Client!Text = line
      BY <2>2, NothingToCut DEF Client!Text
    <2>4. Client!Unread = SubSeq(tty, n + 1, n + 1)
      BY <1>1, <2>2 DEF Client!Unread, n
    <2>5. n \in Nat /\ tty \in Seq(S) /\ Len(tty) = n + 1
      BY <1>0, <1>1
    <2>6. SubSeq(tty, n + 1, n + 1) = <<tty[n + 1]>>
      BY <2>5, ButLast
    <2> QED BY <1>0, <1>1, <1>7, <2>3, <2>4, <2>6 DEF n
  <1> QED BY <1>0, <1>6, <1>7

LEMMA NewlineRead ==
  ASSUME tty = <<"nl">>
  PROVE  Client!Text = <<>> /\ Client!Unread = <<>>
  <1>1. /\ <<>> \in Seq({"nl"}) /\ HasNoEnd(<<>>) /\ Len(<<>>) = 0 /\ <<"nl">> = Append(<<>>, "nl")
    BY DEF HasNoEnd
  <1>2. 0 <= BufLen /\ 0 < BufLen
    BY ClientLines
  <1> QED BY <1>1, <1>2, LineRead

(* One more line is one more asked, unless it is empty.                      *)
LEMMA AskedMore ==
  ASSUME typed \in Seq(ClientTyped), NEW line \in ClientTyped, typed' = Append(typed, line)
  PROVE  /\ typed' \in Seq(ClientTyped) /\ Len(typed') > 0 /\ LastLine' = line
         /\ Cardinality(Client!Asked) \in Nat
         /\ Cardinality(Client!Asked') =
              Cardinality(Client!Asked) + (IF line = <<>> THEN 0 ELSE 1)
         /\ AnswersInOrder /\ heard' = heard => AnswersInOrder'
  <1> DEFINE n == Len(typed)
             a == Client!Asked
             b == Client!Asked'
  <1>1. /\ n \in Nat /\ typed' \in Seq(ClientTyped) /\ Len(typed') = n + 1
        /\ typed'[n + 1] = line /\ \A k \in 1..n : typed'[k] = typed[k]
    BY LenProperties, AppendProperties
  <1>2. a = {k \in 1..n : typed[k] # <<>>}
    BY DEF Client!Asked
  <1>3. b = {k \in 1..(n + 1) : typed'[k] # <<>>}
    BY <1>1 DEF Client!Asked
  <1>4. LastLine' = line
    BY <1>1 DEF LastLine
  <1>5. IsFiniteSet(a) /\ Cardinality(a) \in Nat
    <2>1. IsFiniteSet(1..n)
      BY <1>1, FS_Interval
    <2> QED BY <1>2, <2>1, FS_Subset, FS_CardinalityType
  <1> HIDE DEF n, a, b
  <1>6. b = IF line = <<>> THEN a ELSE a \cup {n + 1}
    <2>1. \A k : k \in 1..(n + 1) <=> k \in 1..n \/ k = n + 1
      BY <1>1
    <2> QED BY <1>1, <1>2, <1>3, <2>1
  <1>7. n + 1 \notin a /\ \A j \in a : j \in Nat /\ j <= n /\ typed'[j] = typed[j]
    BY <1>1, <1>2
  <1>8. Cardinality(b) = Cardinality(a) + (IF line = <<>> THEN 0 ELSE 1)
    <2>1. Cardinality(a \cup {n + 1}) = Cardinality(a) + 1
      BY <1>5, <1>7, FS_AddElement
    <2>2. Cardinality(a) + 0 = Cardinality(a)
      BY <1>5
    <2> QED BY <1>6, <2>1, <2>2
  <1>9. ASSUME AnswersInOrder, heard' = heard PROVE AnswersInOrder'
    <2> SUFFICES ASSUME NEW k \in 1..Len(heard)
                 PROVE  \E j \in b : /\ Cardinality({m \in b : m <= j}) = k
                                     /\ heard[k] = Append(typed'[j], "ok")
      BY <1>9 DEF AnswersInOrder, b
    <2>1. PICK j \in a : Cardinality({m \in a : m <= j}) = k /\ heard[k] = Append(typed[j], "ok")
      BY <1>9 DEF AnswersInOrder, a
    <2>2. {m \in b : m <= j} = {m \in a : m <= j}
      <3>1. ~(n + 1 <= j)
        BY <1>1, <1>7
      <3> QED BY <1>6, <3>1
    <2>3. j \in b /\ typed'[j] = typed[j]
      BY <1>6, <1>7
    <2> QED BY <2>1, <2>2, <2>3
  <1> QED BY <1>1, <1>4, <1>5, <1>8, <1>9 DEF a, b, n

(* The answer to the last line is the next to be heard.                      *)
LEMMA HeardMore ==
  ASSUME typed \in Seq(ClientTyped), heard \in Seq(Seq(Shown)), AnswersInOrder, Missing,
         UNCHANGED typed, heard' = Append(heard, Append(LastLine, "ok"))
  PROVE  /\ heard' \in Seq(Seq(Shown)) /\ AnswersInOrder'
         /\ Len(heard') = Cardinality(Client!Asked')
  <1> DEFINE h == Len(heard)
             n == Len(typed)
             a == Client!Asked
             last == Append(LastLine, "ok")
  <1>1. n \in Nat /\ n > 0 /\ h \in Nat /\ h + 1 = Cardinality(a) /\ LastLine # <<>>
    BY LenProperties DEF Missing
  <1>2. LastLine \in Seq(Shown)
    BY <1>1, ElementOfSeq, ClientLines DEF LastLine
  <1>3. last \in Seq(Shown)
    BY <1>2, AppendProperties DEF Shown
  <1>4. Client!Asked' = a
    BY DEF Client!Asked
  <1>5. n \in a /\ {m \in a : m <= n} = a /\ last = Append(typed[n], "ok")
    BY <1>1 DEF Client!Asked, LastLine
  <1> HIDE DEF h, n, a, last
  <1>6. /\ heard' \in Seq(Seq(Shown)) /\ Len(heard') = h + 1 /\ heard'[h + 1] = last
        /\ \A k \in 1..h : heard'[k] = heard[k]
    BY <1>3, AppendProperties DEF h, last
  <1>7. ASSUME NEW k \in 1..Len(heard')
        PROVE  \E j \in a : Cardinality({m \in a : m <= j}) = k /\ heard'[k] = Append(typed[j], "ok")
    <2>1. CASE k \in 1..h
      BY <1>6, <2>1 DEF AnswersInOrder, a, h
    <2>2. CASE k = h + 1
      <3>1. heard'[k] = Append(typed[n], "ok")
        BY <1>5, <1>6, <2>2
      <3>2. Cardinality({m \in a : m <= n}) = k
        BY <1>1, <1>5, <2>2, Zenon
      <3> QED BY <1>5, <3>1, <3>2
    <2>3. k \in 1..h \/ k = h + 1
      BY <1>1, <1>6
    <2> QED BY <2>1, <2>2, <2>3
  <1>8. AnswersInOrder'
    BY <1>4, <1>7 DEF AnswersInOrder
  <1> QED BY <1>1, <1>4, <1>6, <1>8 DEF a

(* The cases of Talk say nothing of what such a step changes.                *)
lines_said == <<kind, typed, heard>>

LEMMA TalkGoesOn ==
  ASSUME Talk, UNCHANGED lines_said, spoilt \subseteq spoilt',
         "overrun" \in spoilt' => "overrun" \in spoilt,
         Patient' => AllHeard' \/ Unread' \/ Asking' \/ Answering' \/ Lost'
  PROVE  Talk'
  <1>1. UNCHANGED <<kind, typed, heard>>
    BY DEF lines_said
  <1>2. Patient' => Patient
    BY <1>1 DEF Patient
  <1>3. AnswersInOrder => AnswersInOrder'
    BY <1>1 DEF AnswersInOrder, Client!Asked
  <1> QED BY <1>1, <1>2, <1>3 DEF Talk

LEMMA MissingStays == Missing /\ UNCHANGED <<typed, heard>> => Missing' /\ LastLine' = LastLine
  BY DEF Missing, LastLine, Client!Asked

(* The user types. *)
LEMMA TalkType ==
  ASSUME Talk, NEW line \in ClientTyped, Client!Type(line)
  PROVE  Talk'
  <1>1. /\ tty' = tty \o Append(line, "nl") /\ typed' = Append(typed, line)
        /\ UNCHANGED <<kind, toServer, toClient, heard>>
        /\ spoilt' = spoilt \cup (IF Client!Fits(line) THEN {} ELSE {"long"})
                            \cup (IF kind = "network" \/ Client!Quiet THEN {} ELSE {"hasty"})
    BY DEF Client!Type, Client!shown
  <1>2. typed \in Seq(ClientTyped)
    BY DEF Talk
  <1>3. typed' \in Seq(ClientTyped) /\ Len(typed') > 0 /\ LastLine' = line
    BY <1>1, <1>2, AskedMore
  <1>4. ASSUME Patient'
        PROVE  /\ heard' \in Seq(Seq(Shown)) /\ AnswersInOrder' /\ "overrun" \notin spoilt'
               /\ AllHeard' \/ Unread'
    <2>1. Patient /\ Client!Fits(line) /\ Client!Quiet
      BY <1>1, <1>4 DEF Patient
    <2>2. heard \in Seq(Seq(Shown)) /\ AnswersInOrder /\ "overrun" \notin spoilt
      BY <2>1 DEF Talk
    <2>3. /\ Cardinality(Client!Asked) \in Nat
          /\ Cardinality(Client!Asked') = Cardinality(Client!Asked) + (IF line = <<>> THEN 0 ELSE 1)
          /\ AnswersInOrder'
      BY <1>1, <1>2, <2>2, AskedMore
    <2>4. tty = <<>> /\ Len(heard) = Cardinality(Client!Asked)
      BY <2>1, SameCardinality DEF Client!Quiet
    <2>5. Silence
      BY <2>1, <2>3, <2>4 DEF Talk, AllHeard, Unread, Asking, Answering, Lost, Missing
    <2>6. tty' = Append(line, "nl")
      <3>1. line \in Seq(Shown) /\ "nl" \in Shown
        BY ClientLines DEF Shown
      <3>2. Append(line, "nl") \in Seq(Shown)
        BY <3>1, AppendProperties
      <3> QED BY <1>1, <2>4, <3>2, ConcatEmptySeq
    <2>7. Len(line) <= BufLen
      <3>1. Len(line) \in Nat
        BY ClientLines, LenProperties
      <3> QED BY <2>1, <3>1 DEF Client!Fits, Patient
    <2>8. AllHeard' \/ Unread'
      <3>1. CASE line = <<>>
        <4>1. tty' = <<"nl">>
          BY <2>6, <3>1
        <4> QED BY <1>1, <2>3, <2>4, <2>5, <3>1, <4>1 DEF AllHeard, NewlineAtMost, Silence
      <3>2. CASE line # <<>>
        BY <1>1, <1>3, <2>3, <2>4, <2>5, <2>6, <2>7, <3>2 DEF Unread, Missing, Silence
      <3> QED BY <3>1, <3>2
    <2> QED BY <1>1, <2>2, <2>3, <2>8
  <1> QED BY <1>3, <1>4 DEF Talk

(* What is typed is read, and sent or not.                                   *)
LEMMA TalkRead ==
  ASSUME Talk, tty # <<>>, tty' = Client!Unread,
         UNCHANGED lines_said, UNCHANGED <<spoilt, toClient>>,
         toServer' = toServer \/ toServer' = toServer \o Client!Text
  PROVE  Talk'
  <1>0. UNCHANGED <<kind, typed, heard>>
    BY DEF lines_said
  <1> SUFFICES ASSUME Patient
               PROVE  AllHeard' \/ Unread' \/ Asking' \/ Answering' \/ Lost'
    BY <1>0, TalkGoesOn DEF Patient
  <1>1. AllHeard \/ Unread \/ Asking \/ Answering \/ Lost
    BY DEF Talk
  <1>2. Missing => Missing' /\ LastLine' = LastLine /\ LastLine \in Seq(Shown) /\ HasNoEnd(LastLine)
    <2>1. typed \in Seq(ClientTyped)
      BY DEF Talk
    <2>2. Missing => LastLine \in ClientTyped
      BY <2>1, LenProperties, ElementOfSeq DEF Missing, LastLine
    <2> QED BY <1>0, <2>2, ClientLines, MissingStays
  <1>3. CASE tty = <<"nl">> /\ ~Unread
    <2>1. Client!Text = <<>> /\ tty' = <<>>
      BY <1>3, NewlineRead
    <2>2. NewlineAtMost'
      BY <2>1 DEF NewlineAtMost
    <2>3. CASE AllHeard
      <3>1. toServer' = <<>>
        BY <2>1, <2>3 DEF AllHeard, Silence
      <3> QED BY <1>0, <2>2, <2>3, <3>1 DEF AllHeard, Silence, Client!Asked
    <2>4. CASE Asking
      <3>1. LastLine \o <<>> = LastLine
        BY <1>2, <2>4, ConcatEmptySeq DEF Asking
      <3>2. toServer' = LastLine
        BY <2>1, <2>4, <3>1 DEF Asking
      <3> QED BY <1>2, <2>2, <2>4, <3>2 DEF Asking
    <2>5. CASE Answering \/ Lost
      <3>1. toServer' = <<>>
        BY <2>1, <2>5 DEF Answering, Lost, Silence
      <3> QED BY <1>2, <2>2, <2>5, <3>1 DEF Answering, Lost, Silence
    <2> QED BY <1>1, <1>3, <2>3, <2>4, <2>5
  <1>4. CASE Unread
    <2>1. Client!Text = LastLine /\ tty' \in {<<>>, <<"nl">>}
      <3>1. /\ "nl" \in Shown /\ LastLine \in Seq(Shown) /\ HasNoEnd(LastLine)
            /\ Len(LastLine) <= BufLen /\ tty = Append(LastLine, "nl")
        BY <1>2, <1>4 DEF Unread, Missing, Shown
      <3> QED BY <3>1, LineRead
    <2>2. toServer = <<>> /\ toClient' = <<>> /\ Missing' /\ LastLine' = LastLine
      BY <1>2, <1>4 DEF Unread, Silence
    <2>3. <<>> \o LastLine = LastLine
      BY <1>2, <1>4, ConcatEmptySeq DEF Unread
    <2>4. toServer' = <<>> \/ toServer' = LastLine
      BY <2>1, <2>2, <2>3
    <2> QED BY <2>1, <2>2, <2>4 DEF Asking, Lost, NewlineAtMost, Silence
  <1>5. tty = <<"nl">> \/ Unread
    BY <1>1 DEF AllHeard, Asking, Answering, Lost, NewlineAtMost
  <1> QED BY <1>3, <1>4, <1>5

(* The answer is heard, all of it at once or the talk is torn.               *)
LEMMA TalkHeard ==
  ASSUME Talk, NEW n \in 1..Len(toClient), Client!recv_handler(n)
  PROVE  Talk'
  <1>1. /\ n <= Client!Least(Len(toClient), RecvSize)
        /\ heard' = Append(heard, Client!FirstLine(SubSeq(toClient, 1, n)))
        /\ spoilt' = spoilt \cup (IF n = RecvSize THEN {"overrun"} ELSE {})
                            \cup (IF SubSeq(toClient, 1, n)[n] # "nl" THEN {"torn"} ELSE {})
        /\ toClient' = SubSeq(toClient, n + 1, Len(toClient))
        /\ UNCHANGED <<kind, tty, typed, toServer>>
    BY DEF Client!recv_handler, Client!Reads, Client!user
  <1>2. typed' \in Seq(ClientTyped)
    BY <1>1 DEF Talk
  <1>3. ASSUME Patient'
        PROVE  /\ heard' \in Seq(Seq(Shown)) /\ AnswersInOrder' /\ "overrun" \notin spoilt'
               /\ AllHeard'
    <2>1. Patient /\ SubSeq(toClient, 1, n)[n] = "nl"
      BY <1>1, <1>3 DEF Patient
    <2>2. /\ typed \in Seq(ClientTyped) /\ heard \in Seq(Seq(Shown)) /\ AnswersInOrder
          /\ "overrun" \notin spoilt
      BY <2>1 DEF Talk
    <2>3. toClient # <<>>
      <3>1. toClient = <<>> => 1..Len(toClient) = {}
        OBVIOUS
      <3> QED BY <3>1
    <2>4. Answering
      BY <2>1, <2>3 DEF Talk, AllHeard, Unread, Asking, Lost, Silence
    <2>5. /\ NewlineAtMost /\ toServer = <<>> /\ toClient = LastLine \o <<"ok", "nl">>
          /\ Missing /\ Len(LastLine) <= BufLen
      BY <2>4 DEF Answering, Missing
    <2>6. LastLine \in ClientTyped
      BY <2>2, <2>5, LenProperties, ElementOfSeq DEF Missing, LastLine
    <2>7. LastLine \in Seq(Shown) /\ HasNoEnd(LastLine) /\ "ok" \in Shown /\ "nl" \in Shown
      BY <2>6, ClientLines DEF Shown
    <2>8. Client!FirstLine(toClient) = Append(LastLine, "ok")
      BY <2>5, <2>7, AnswerCut
    <2>9. /\ toClient \in Seq(Shown) /\ Len(toClient) = Len(LastLine) + 2
          /\ \A k \in 1..Len(toClient) : toClient[k] = "nl" => k = Len(toClient)
      BY <2>5, <2>7, AnswerEnds
    <2>10. Len(LastLine) \in Nat
      BY <2>7, LenProperties
    <2> HIDE DEF LastLine
    <2>11. n = Len(toClient)
      <3>1. SubSeq(toClient, 1, n)[n] = toClient[n]
        <4> DEFINE t == toClient
        <4>1. t \in Seq(Shown) /\ n \in 1..Len(t)
          BY <2>9
        <4> HIDE DEF t
        <4>2. SubSeq(t, 1, n)[n] = t[n]
          BY <4>1
        <4> QED BY <4>2 DEF t
      <3> QED BY <2>1, <2>9, <3>1
    <2>12. SubSeq(toClient, 1, n) = toClient /\ toClient' = <<>>
      <3> DEFINE t == toClient
      <3>1. t \in Seq(Shown) /\ n = Len(t) /\ n \in Nat
        BY <2>9, <2>10, <2>11
      <3>2. toClient' = SubSeq(t, n + 1, n)
        BY <1>1, <3>1
      <3> HIDE DEF t
      <3>3. SubSeq(t, 1, n) = t
        BY <3>1, SubSeqFull
      <3>4. n + 1 \in Int /\ n \in Int /\ n < n + 1
        BY <3>1
      <3>5. SubSeq(t, n + 1, n) = <<>>
        BY <3>4, SubSeqEmpty
      <3> QED BY <3>2, <3>3, <3>5 DEF t
    <2>13. n # RecvSize
      BY <2>5, <2>9, <2>10, <2>11, ClientLines
    <2>14. heard' = Append(heard, Append(LastLine, "ok"))
      BY <1>1, <2>8, <2>12
    <2>15. /\ heard' \in Seq(Seq(Shown)) /\ AnswersInOrder'
           /\ Len(heard') = Cardinality(Client!Asked')
      BY <1>1, <2>2, <2>5, <2>14, HeardMore
    <2>16. "overrun" \notin spoilt'
      BY <1>1, <2>2, <2>13
    <2> QED BY <1>1, <2>5, <2>12, <2>15, <2>16 DEF AllHeard, NewlineAtMost, Silence
  <1> QED BY <1>2, <1>3 DEF Talk

(* The server answers, all that was sent at once or the talk is torn.        *)
LEMMA TalkAnswered ==
  ASSUME Talk, NEW n \in 1..Len(toServer), Client!DaemonAnswers(n)
  PROVE  Talk'
  <1> DEFINE line == Client!FirstLine(SubSeq(toServer, 1, n))
             unread == SubSeq(toServer, n + 1, Len(toServer))
  <1>1. /\ \/ toServer' = <<>> /\ UNCHANGED toClient
           \/ toClient' = toClient \o line \o <<"ok", "nl">> /\ toServer' = unread
        /\ spoilt' = spoilt \cup (IF unread = <<>> THEN {} ELSE {"torn"})
        /\ UNCHANGED <<kind, tty, typed, heard>>
    BY DEF Client!DaemonAnswers, Client!Leaves, Client!user, Client!shown
  <1> HIDE DEF line, unread
  <1> SUFFICES ASSUME Patient'
               PROVE  AllHeard' \/ Unread' \/ Asking' \/ Answering' \/ Lost'
    BY <1>1, TalkGoesOn DEF lines_said
  <1>2. Patient /\ unread = <<>>
    BY <1>1 DEF Patient
  <1>3. toServer # <<>>
    <2>1. toServer = <<>> => 1..Len(toServer) = {}
      OBVIOUS
    <2> QED BY <2>1
  <1>4. Asking
    BY <1>2, <1>3 DEF Talk, AllHeard, Unread, Answering, Lost, Silence
  <1>5. NewlineAtMost /\ toServer = LastLine /\ toClient = <<>> /\ Missing
    BY <1>4 DEF Asking
  <1>6. LastLine \in ClientTyped
    BY <1>5, LenProperties, ElementOfSeq DEF Missing, LastLine, Talk
  <1>7. LastLine \in Seq(Shown) /\ HasNoEnd(LastLine) /\ "ok" \in Shown /\ "nl" \in Shown
    BY <1>6, ClientLines DEF Shown
  <1>8. Missing' /\ LastLine' = LastLine /\ NewlineAtMost'
    BY <1>1, <1>5, MissingStays DEF NewlineAtMost
  <1>9. line = LastLine
    <2> DEFINE t == toServer
               m == Len(t)
    <2>1. t \in Seq(Shown) /\ m \in Nat /\ n \in 1..m
      BY <1>5, <1>7, LenProperties
    <2>2. SubSeq(t, n + 1, m) = <<>>
      BY <1>2 DEF unread
    <2>3. n = m
      <3> SUFFICES ASSUME n < m PROVE FALSE
        BY <2>1
      <3> HIDE DEF m
      <3>1. \A k \in n + 1..m : t[k] \in Shown
        BY <2>1, ElementOfSeq DEF m
      <3>2. n + 1 \in Int /\ m \in Int /\ n + 1 <= m /\ m - (n + 1) + 1 > 0
        BY <2>1
      <3> HIDE DEF t
      <3>3. Len(SubSeq(t, n + 1, m)) = m - (n + 1) + 1
        BY <3>1, <3>2, SubSeqProperties
      <3>4. Len(SubSeq(t, n + 1, m)) = 0
        <4>1. Len(<<>>) = 0
          OBVIOUS
        <4> QED BY <2>2, <4>1
      <3>5. m - (n + 1) + 1 = 0
        BY <3>3, <3>4
      <3> QED BY <3>2, <3>5
    <2>4. SubSeq(t, 1, n) = t
      BY <2>1, <2>3, SubSeqFull
    <2> QED BY <1>5, <1>7, <2>4, NothingToCut DEF line
  <1>10. CASE toServer' = <<>> /\ UNCHANGED toClient
    BY <1>5, <1>8, <1>10 DEF Lost, Silence
  <1>11. CASE toClient' = toClient \o line \o <<"ok", "nl">> /\ toServer' = unread
    <2>1. <<>> \o LastLine = LastLine
      BY <1>7, ConcatEmptySeq
    <2>2. toClient' = LastLine \o <<"ok", "nl">>
      BY <1>5, <1>9, <1>11, <2>1
    <2> QED BY <1>2, <1>8, <1>11, <2>2 DEF Answering
  <1> QED BY <1>1, <1>10, <1>11

LEMMA TalkStays ==
  ASSUME Talk, UNCHANGED <<kind, tty, toServer, toClient, typed, heard, spoilt>>
  PROVE  Talk'
  <1>1. LastLine' = LastLine /\ Client!Asked' = Client!Asked
    BY DEF LastLine, Client!Asked
  <1>2. Missing' = Missing /\ Silence' = Silence /\ NewlineAtMost' = NewlineAtMost
    BY <1>1 DEF Missing, Silence, NewlineAtMost
  <1>3. Patient => AllHeard' \/ Unread' \/ Asking' \/ Answering' \/ Lost'
    BY <1>1, <1>2 DEF Talk, AllHeard, Unread, Asking, Answering, Lost
  <1> QED BY <1>3, TalkGoesOn DEF lines_said, Patient

LEMMA TalkNext == Talk /\ [Next]_vars => Talk'
  <1> SUFFICES ASSUME Talk, [Next]_vars PROVE Talk'
    OBVIOUS
  <1>1. CASE UNCHANGED tcp
    <2>1. UNCHANGED <<kind, tty, toServer, toClient, typed, heard, spoilt>>
      BY <1>1 DEF tcp
    <2> QED BY <2>1, TalkStays
  <1>2. CASE Client!Next
    <2>0. \A line \in ClientTyped : Client!Type(line) => Talk'
      BY TalkType
    <2>1. CASE Client!read_stdin
      <3>1. /\ tty # <<>> /\ tty' = Client!Unread
            /\ UNCHANGED <<kind, typed, heard, spoilt, toClient>>
            /\ toServer' = toServer \/ toServer' = toServer \o Client!Text
        BY <2>1 DEF Client!read_stdin, Client!Sends, Client!shown
      <3> QED BY <3>1, TalkRead DEF lines_said
    <2>2. CASE Client!read_stdin_fails \/ Client!Sigpipe
      <3>1. /\ tty # <<>> /\ tty' = Client!Unread
            /\ UNCHANGED <<kind, typed, heard, spoilt, toClient, toServer>>
        BY <2>2 DEF Client!read_stdin_fails, Client!Sigpipe, Client!shown
      <3> QED BY <3>1, TalkRead DEF lines_said
    <2>3. CASE Client!stdin_handler
      <3>1. kind' = "network" /\ UNCHANGED typed
        BY <2>3 DEF Client!stdin_handler
      <3> QED BY <3>1 DEF Talk, Patient
    <2>4. CASE Client!stdin_handler_fails
      <3>1. kind' = "network" /\ UNCHANGED typed
        BY <2>4 DEF Client!stdin_handler_fails
      <3> QED BY <3>1 DEF Talk, Patient
    <2>5. CASE Client!recv_handler_end \/ Client!ReadsReset
      <3>1. UNCHANGED <<kind, tty, toServer, toClient, typed, heard, spoilt>>
        BY <2>5 DEF Client!recv_handler_end, Client!ReadsReset, Client!user, Client!shown
      <3> QED BY <3>1, TalkStays
    <2>6. CASE Client!sig_int_handler
      <3>1. UNCHANGED <<kind, tty, toServer, toClient, typed, heard, spoilt>>
        BY <2>6 DEF Client!sig_int_handler, Client!user, Client!shown
      <3> QED BY <3>1, TalkStays
    <2>7. CASE Client!ServerGoes
      <3>1. toServer' = <<>> /\ UNCHANGED <<kind, tty, typed, toClient, heard, spoilt>>
        BY <2>7 DEF Client!ServerGoes, Client!Leaves, Client!user, Client!shown
      <3>2. ASSUME Patient PROVE AllHeard' \/ Unread' \/ Asking' \/ Answering' \/ Lost'
        <4>1. AllHeard \/ Unread \/ Asking \/ Answering \/ Lost
          BY <3>2 DEF Talk
        <4>2. Missing => Missing' /\ LastLine' = LastLine
          BY <3>1, MissingStays
        <4>3. CASE AllHeard
          BY <3>1, <4>3 DEF AllHeard, NewlineAtMost, Silence, Client!Asked
        <4>4. CASE Unread
          BY <3>1, <4>2, <4>4 DEF Unread, Silence
        <4>5. CASE Answering
          BY <3>1, <4>2, <4>5 DEF Answering, NewlineAtMost
        <4>6. CASE Asking \/ Lost
          BY <3>1, <4>2, <4>6 DEF Asking, Lost, NewlineAtMost, Silence
        <4> QED BY <4>1, <4>3, <4>4, <4>5, <4>6
      <3> QED BY <3>1, <3>2, TalkGoesOn DEF lines_said, Patient
    <2>8. ASSUME NEW n \in 1..Len(toClient), Client!recv_handler(n) PROVE Talk'
      BY <2>8, TalkHeard
    <2>9. ASSUME NEW n \in 1..Len(toClient), Client!recv_callback(n) PROVE Talk'
      <3>1. kind' = "network" /\ UNCHANGED typed
        BY <2>9 DEF Client!recv_callback, Client!user
      <3> QED BY <3>1 DEF Talk, Patient
    <2>10. ASSUME NEW n \in 1..Len(toServer), Client!DaemonAnswers(n) PROVE Talk'
      BY <2>10, TalkAnswered
    <2>11. ASSUME NEW n \in 1..Len(toServer), Client!LinesEchoed(n) PROVE Talk'
      <3>1. kind' = "network" /\ UNCHANGED typed
        BY <2>11 DEF Client!LinesEchoed, Client!user
      <3> QED BY <3>1 DEF Talk, Patient
    <2> QED BY <1>2, <2>0, <2>1, <2>2, <2>3, <2>4, <2>5, <2>6, <2>7, <2>8, <2>9, <2>10, <2>11
            DEF Client!Next, Client!Handles
  <1> QED BY <1>1, <1>2
      DEF Next, HelperRuns, SigwaitRuns, TimerRuns, ClientRuns, UdpRuns, TermRuns, vars

(* Whoever waits for each answer of daemon/src sees the answer to each line    *)
(* typed into daemon/client, in order, and recv_handler's buffer holds it: for    *)
(* any lines that fit read_stdin's buffer and come in one piece, and whenever      *)
(* the server goes.                                                                *)
THEOREM WaitingUserIsAnswered == Spec => []PatientUserHearsAnswers
  <1>1. Talk => PatientUserHearsAnswers
    BY SameCardinality DEF Talk, Patient, AnswersInOrder, PatientUserHearsAnswers,
                           Client!PatientUserHearsAnswers
  <1> QED BY <1>1, TalkInit, TalkNext, PTL DEF Spec

-----------------------------------------------------------------------------
(* network/client.  Split, one byte at a time.                              *)

NothingYet == [lines |-> <<>>, rest |-> <<>>]
WithByte(before, byte) ==
  IF byte = "nl" THEN [lines |-> Append(before.lines, before.rest), rest |-> <<>>]
  ELSE [before EXCEPT !.rest = Append(@, byte)]
Splits(s, n, f) == f = [k \in 0..n |-> IF k = 0 THEN NothingYet ELSE WithByte(f[k - 1], s[k])]
Splitting(s) == CHOOSE f : Splits(s, Len(s), f)

LEMMA SplitIs == \A s : Client!Split(s) = Splitting(s)[Len(s)]
  BY DEF Client!Split, Splitting, Splits, WithByte, NothingYet

LEMMA SplitsAre ==
  ASSUME NEW s, NEW n \in Nat, NEW f, Splits(s, n, f)
  PROVE  f[0] = NothingYet /\ \A k \in 1..n : f[k] = WithByte(f[k - 1], s[k])
  BY DEF Splits

LEMMA SplittingExists ==
  ASSUME NEW s, NEW n \in Nat
  PROVE  \E f : Splits(s, n, f)
  <1> DEFINE T == {m \in Nat : ~\E f : Splits(s, m, f)}
  <1> SUFFICES ASSUME T # {} PROVE FALSE
    OBVIOUS
  <1>1. PICK m \in T : \A k \in T : m <= k
    <2>1. T \in SUBSET Nat
      OBVIOUS
    <2> HIDE DEF T
    <2> QED BY <2>1, LeastExists
  <1>2. m \in Nat /\ ~\E f : Splits(s, m, f)
    BY <1>1
  <1>3. CASE m = 0
    <2> DEFINE f == [k \in 0..0 |-> NothingYet]
    <2>1. f = [k \in 0..0 |-> IF k = 0 THEN NothingYet ELSE WithByte(f[k - 1], s[k])]
      <3>1. \A k \in 0..0 : k = 0
        OBVIOUS
      <3> QED BY <3>1
    <2> QED BY <1>2, <1>3, <2>1 DEF Splits
  <1>4. CASE m # 0
    <2>1. m - 1 \in Nat /\ ~(m <= m - 1)
      BY <1>2, <1>4
    <2>2. PICK f : Splits(s, m - 1, f)
      BY <1>1, <2>1
    <2> DEFINE g == [k \in 0..m |-> IF k = m THEN WithByte(f[m - 1], s[m]) ELSE f[k]]
    <2>3. \A k \in 0..m - 1 : g[k] = f[k] /\ k # m /\ k \in 0..m
      BY <2>1
    <2>4. g[m] = WithByte(f[m - 1], s[m])
      BY <1>2
    <2>5. f[0] = NothingYet /\ \A k \in 1..m - 1 : f[k] = WithByte(f[k - 1], s[k])
      <3> DEFINE ix == m - 1
      <3>1. ix \in Nat /\ Splits(s, ix, f)
        BY <2>1, <2>2
      <3> HIDE DEF ix
      <3>2. f[0] = NothingYet /\ \A k \in 1..ix : f[k] = WithByte(f[k - 1], s[k])
        BY <3>1, SplitsAre
      <3> QED BY <3>2 DEF ix
    <2>6. g = [k \in 0..m |-> g[k]]
      OBVIOUS
    <2> HIDE DEF g
    <2>7. \A k \in 0..m : g[k] = IF k = 0 THEN NothingYet ELSE WithByte(g[k - 1], s[k])
      <3> SUFFICES ASSUME NEW k \in 0..m
                   PROVE  g[k] = IF k = 0 THEN NothingYet ELSE WithByte(g[k - 1], s[k])
        OBVIOUS
      <3>1. CASE k = 0
        BY <1>2, <1>4, <2>3, <2>5, <3>1
      <3>2. CASE k = m
        <4>1. m - 1 \in 0..m - 1
          BY <2>1
        <4> QED BY <1>4, <2>3, <2>4, <3>2, <4>1
      <3>3. CASE k # 0 /\ k # m
        <4>1. k \in 0..m - 1 /\ k \in 1..m - 1 /\ k - 1 \in 0..m - 1
          BY <1>2, <3>3
        <4> QED BY <2>3, <2>5, <3>3, <4>1
      <3> QED BY <3>1, <3>2, <3>3
    <2>8. g = [k \in 0..m |-> IF k = 0 THEN NothingYet ELSE WithByte(g[k - 1], s[k])]
      BY <2>6, <2>7
    <2> QED BY <1>2, <2>8 DEF Splits
  <1> QED BY <1>3, <1>4

(* A text with one byte more is split one step further.                     *)
LEMMA SplitAppend ==
  ASSUME NEW s \in Seq(Shown), NEW byte \in Shown
  PROVE  /\ Client!Split(<<>>) = NothingYet
         /\ Client!Split(Append(s, byte)) = WithByte(Client!Split(s), byte)
  <1> DEFINE longer == Append(s, byte)
             n == Len(s)
             f == Splitting(s)
             g == Splitting(longer)
             T == {k \in Nat : k <= n /\ f[k] # g[k]}
  <1>1. n \in Nat /\ Len(longer) = n + 1 /\ longer[n + 1] = byte
    BY LenProperties, AppendProperties
  <1>2. \A k \in 1..n : longer[k] = s[k]
    OBVIOUS
  <1>3. Splits(s, n, f) /\ Splits(longer, n + 1, g)
    <2>1. n + 1 \in Nat
      BY <1>1
    <2>2. (\E h : Splits(s, n, h)) /\ (\E h : Splits(longer, n + 1, h))
      BY <1>1, <2>1, SplittingExists
    <2> QED BY <1>1, <2>2 DEF Splitting
  <1> HIDE DEF f, g, longer
  <1>4. /\ f[0] = NothingYet /\ g[0] = NothingYet
        /\ \A k \in 1..n : f[k] = WithByte(f[k - 1], s[k])
        /\ \A k \in 1..n + 1 : g[k] = WithByte(g[k - 1], longer[k])
    <2>1. f[0] = NothingYet /\ \A k \in 1..n : f[k] = WithByte(f[k - 1], s[k])
      BY <1>1, <1>3, SplitsAre
    <2> DEFINE ix == n + 1
    <2>2. ix \in Nat /\ Splits(longer, ix, g)
      BY <1>1, <1>3
    <2> HIDE DEF ix
    <2>3. g[0] = NothingYet /\ \A k \in 1..ix : g[k] = WithByte(g[k - 1], longer[k])
      BY <2>2, SplitsAre
    <2> QED BY <2>1, <2>3 DEF ix
  <1>5. f[n] = g[n]
    <2> SUFFICES ASSUME T # {} PROVE FALSE
      BY <1>1
    <2>1. PICK m \in T : \A k \in T : m <= k
      <3>1. T \in SUBSET Nat
        OBVIOUS
      <3> HIDE DEF T
      <3> QED BY <3>1, LeastExists
    <2>2. m \in 1..n /\ m \in 1..n + 1 /\ f[m] # g[m]
      BY <1>1, <1>4, <2>1
    <2>3. m - 1 \in Nat /\ m - 1 <= n /\ ~(m <= m - 1)
      BY <1>1, <2>2
    <2>4. f[m - 1] = g[m - 1]
      BY <2>1, <2>3
    <2> QED BY <1>2, <1>4, <2>2, <2>4
  <1>6. g[n + 1] = WithByte(g[n], byte)
    <2>1. n + 1 \in 1..n + 1 /\ n + 1 - 1 = n
      BY <1>1
    <2> QED BY <1>1, <1>4, <2>1
  <1>7. Client!Split(longer) = g[n + 1] /\ Client!Split(s) = f[n]
    BY <1>1, SplitIs DEF f, g
  <1>8. Client!Split(<<>>) = NothingYet
    <2>1. Len(<<>>) = 0 /\ 0 \in Nat
      OBVIOUS
    <2>2. Splits(<<>>, 0, Splitting(<<>>))
      <3>1. \E h : Splits(<<>>, 0, h)
        BY <2>1, SplittingExists
      <3> QED BY <2>1, <3>1 DEF Splitting
    <2> QED BY <2>1, <2>2, SplitsAre, SplitIs
  <1> QED BY <1>5, <1>6, <1>7, <1>8 DEF longer

(* A part of a sequence, a sequence cut in two, and built byte by byte.      *)
LEMMA PartOf ==
  ASSUME NEW S, NEW s \in Seq(S), NEW m \in Nat, NEW n \in Nat, m <= n, n <= Len(s)
  PROVE  /\ SubSeq(s, m + 1, n) \in Seq(S)
         /\ Len(SubSeq(s, m + 1, n)) = n - m
         /\ \A k \in 1..n - m : SubSeq(s, m + 1, n)[k] = s[m + k]
  <1> DEFINE a == m + 1
  <1>1. a \in Int /\ n \in Int /\ \A k \in a..n : s[k] \in S
    BY LenProperties, ElementOfSeq
  <1>2. /\ Len(SubSeq(s, m + 1, n)) = n - m
        /\ \A k \in 1..n - m : SubSeq(s, m + 1, n)[k] = s[m + k]
    BY LenProperties
  <1> HIDE DEF a
  <1>3. SubSeq(s, a, n) \in Seq(S)
    BY <1>1, SubSeqProperties
  <1> QED BY <1>2, <1>3 DEF a

LEMMA CutInTwo ==
  ASSUME NEW S, NEW s \in Seq(S), NEW n \in Nat, n <= Len(s)
  PROVE  /\ SubSeq(s, 1, n) \in Seq(S) /\ Len(SubSeq(s, 1, n)) = n
         /\ \A k \in 1..n : SubSeq(s, 1, n)[k] = s[k]
         /\ SubSeq(s, n + 1, Len(s)) \in Seq(S) /\ Len(SubSeq(s, n + 1, Len(s))) = Len(s) - n
         /\ \A k \in 1..Len(s) - n : SubSeq(s, n + 1, Len(s))[k] = s[n + k]
         /\ SubSeq(s, 1, n) \o SubSeq(s, n + 1, Len(s)) = s
  <1> DEFINE u == SubSeq(s, 1, n)
             v == SubSeq(s, n + 1, Len(s))
             l == Len(s)
             z == 0
  <1>1. l \in Nat /\ z \in Nat /\ z <= n
    BY LenProperties
  <1>2. SubSeq(s, z + 1, n) \in Seq(S) /\ Len(SubSeq(s, z + 1, n)) = n - z
        /\ \A k \in 1..n - z : SubSeq(s, z + 1, n)[k] = s[z + k]
    <2> HIDE DEF z
    <2> QED BY <1>1, PartOf
  <1>3. u \in Seq(S) /\ Len(u) = n /\ \A k \in 1..n : u[k] = s[k]
    BY <1>2
  <1>4. v \in Seq(S) /\ Len(v) = l - n /\ \A k \in 1..l - n : v[k] = s[n + k]
    BY <1>1, PartOf
  <1> HIDE DEF u, v
  <1>5. u \o v \in Seq(S) /\ Len(u \o v) = l
    <2>1. u \o v \in Seq(S) /\ Len(u \o v) = Len(u) + Len(v)
      BY <1>3, <1>4, ConcatProperties
    <2> QED BY <1>1, <1>3, <1>4, <2>1
  <1>6. \A k \in 1..n + (l - n) : (u \o v)[k] = IF k <= n THEN u[k] ELSE v[k - n]
    BY <1>3, <1>4, ConcatProperties
  <1>7. \A k \in 1..l : (u \o v)[k] = s[k]
    <2> SUFFICES ASSUME NEW k \in 1..l PROVE (u \o v)[k] = s[k]
      OBVIOUS
    <2>1. k \in 1..n + (l - n) /\ (~(k <= n) => k - n \in 1..l - n /\ n + (k - n) = k)
      BY <1>1
    <2>2. CASE k <= n
      BY <1>1, <1>3, <1>6, <2>1, <2>2
    <2>3. CASE ~(k <= n)
      BY <1>4, <1>6, <2>1, <2>3
    <2> QED BY <2>2, <2>3
  <1>8. u \o v = s
    <2>1. \A k \in 1..Len(u \o v) : (u \o v)[k] = s[k]
      BY <1>5, <1>7
    <2>2. Len(u \o v) = Len(s)
      BY <1>5
    <2> QED BY <1>5, <2>1, <2>2, SeqEqual
  <1> QED BY <1>3, <1>4, <1>8 DEF u, v

LEMMA OneMore ==
  ASSUME NEW S, NEW a \in Seq(S), NEW x \in Seq(S), NEW j \in Nat, j < Len(x)
  PROVE  /\ x[j + 1] \in S /\ a \o SubSeq(x, 1, j) \in Seq(S)
         /\ Len(a \o SubSeq(x, 1, j)) = Len(a) + j
         /\ a \o SubSeq(x, 1, j + 1) = Append(a \o SubSeq(x, 1, j), x[j + 1])
  <1> DEFINE ix == j + 1
             u == SubSeq(x, 1, j)
             e == x[ix]
  <1>1. Len(a) \in Nat /\ Len(x) \in Nat /\ ix \in 1..Len(x) /\ 1 \in 1..Len(x) /\ ix - 1 = j
    BY LenProperties
  <1>2. u \in Seq(S) /\ Len(u) = j
    BY <1>1, CutInTwo
  <1>3. e \in S
    <2> HIDE DEF ix
    <2> QED BY <1>1, ElementOfSeq
  <1>4. SubSeq(x, 1, ix) = SubSeq(x, 1, ix - 1) \o <<e>>
    <2>1. ix \in 1..Len(x)
      BY <1>1
    <2> HIDE DEF ix
    <2> QED BY <1>1, <2>1, SubSeqRecursiveSecond DEF e
  <1>5. SubSeq(x, 1, ix) = u \o <<e>>
    BY <1>1, <1>4
  <1> HIDE DEF u, e, ix
  <1>6. <<e>> \in Seq(S) /\ a \o u \in Seq(S) /\ Len(a \o u) = Len(a) + Len(u)
    <2>1. <<e>> \in Seq(S)
      BY <1>3
    <2> QED BY <1>2, <2>1, ConcatProperties
  <1>7. a \o (u \o <<e>>) = (a \o u) \o <<e>>
    BY <1>2, <1>6, ConcatAssociative
  <1>8. (a \o u) \o <<e>> = Append(a \o u, e)
    BY <1>3, <1>6, AppendIsConcat
  <1> QED BY <1>2, <1>3, <1>5, <1>6, <1>7, <1>8 DEF u, e, ix

LEMMA ByteByByte ==
  ASSUME NEW S, NEW G, <<>> \in G,
         \A x \in Seq(S) : \A e \in S : x \in G => Append(x, e) \in G,
         NEW s \in Seq(S)
  PROVE  s \in G
  <1> DEFINE T == {j \in Nat : j <= Len(s) /\ SubSeq(s, 1, j) \notin G}
  <1>1. Len(s) \in Nat /\ SubSeq(s, 1, Len(s)) = s
    BY LenProperties, SubSeqFull
  <1>2. SubSeq(s, 1, 0) = <<>>
    BY SubSeqEmpty
  <1>3. T = {}
    <2> SUFFICES ASSUME T # {} PROVE FALSE
      OBVIOUS
    <2>1. PICK j \in T : \A k \in T : j <= k
      <3>1. T \in SUBSET Nat
        OBVIOUS
      <3> HIDE DEF T
      <3> QED BY <3>1, LeastExists
    <2>2. j \in Nat /\ j <= Len(s) /\ SubSeq(s, 1, j) \notin G
      BY <2>1
    <2>3. j # 0
      BY <1>2, <2>2
    <2> DEFINE ix == j - 1
    <2>4. ix \in Nat /\ ix < Len(s) /\ ix <= Len(s) /\ ~(j <= ix) /\ ix + 1 = j
      BY <1>1, <2>2, <2>3
    <2> HIDE DEF ix
    <2>5. SubSeq(s, 1, ix) \in G
      BY <2>1, <2>4
    <2> HIDE DEF T
    <2>6. /\ s[ix + 1] \in S /\ <<>> \o SubSeq(s, 1, ix) \in Seq(S)
          /\ <<>> \o SubSeq(s, 1, ix + 1) = Append(<<>> \o SubSeq(s, 1, ix), s[ix + 1])
      <3> DEFINE a == <<>>
      <3>1. a \in Seq(S)
        BY EmptySeq
      <3> HIDE DEF a
      <3>2. /\ s[ix + 1] \in S /\ a \o SubSeq(s, 1, ix) \in Seq(S)
            /\ a \o SubSeq(s, 1, ix + 1) = Append(a \o SubSeq(s, 1, ix), s[ix + 1])
        BY <2>4, <3>1, OneMore
      <3> QED BY <3>2 DEF a
    <2>7. SubSeq(s, 1, ix) \in Seq(S) /\ SubSeq(s, 1, ix + 1) \in Seq(S)
      <3>1. SubSeq(s, 1, ix) \in Seq(S)
        BY <2>4, CutInTwo
      <3>2. SubSeq(s, 1, j) \in Seq(S)
        BY <2>2, CutInTwo
      <3> QED BY <2>4, <3>1, <3>2
    <2>8. SubSeq(s, 1, ix + 1) = Append(SubSeq(s, 1, ix), s[ix + 1])
      <3>1. <<>> \o SubSeq(s, 1, ix) = SubSeq(s, 1, ix)
        BY <2>7, ConcatEmptySeq
      <3>2. <<>> \o SubSeq(s, 1, ix + 1) = SubSeq(s, 1, ix + 1)
        BY <2>7, ConcatEmptySeq
      <3> QED BY <2>6, <3>1, <3>2
    <2>9. SubSeq(s, 1, j) \in G
      BY <2>4, <2>5, <2>6, <2>7, <2>8
    <2> QED BY <2>2, <2>9
  <1> DEFINE n == Len(s)
  <1>4. n \in Nat /\ n <= Len(s) /\ n \notin T
    <2>1. n \notin T
      <3> HIDE DEF T
      <3> QED BY <1>3
    <2> QED BY <1>1, <2>1
  <1> HIDE DEF n
  <1>5. SubSeq(s, 1, n) \in G
    BY <1>4
  <1> QED BY <1>1, <1>5 DEF n

(* The lines of a text and what is behind the last, with one byte more.     *)
LEMMA LineByLine ==
  ASSUME NEW s \in Seq(Shown)
  PROVE  /\ Client!LinesOf(s) \in Seq(Seq(Shown)) /\ Client!Rest(s) \in Seq(Shown)
         /\ Client!LinesOf(<<>>) = <<>> /\ Client!Rest(<<>>) = <<>>
         /\ \A byte \in Shown :
              IF byte = "nl"
              THEN /\ Client!LinesOf(Append(s, byte)) = Append(Client!LinesOf(s), Client!Rest(s))
                   /\ Client!Rest(Append(s, byte)) = <<>>
              ELSE /\ Client!LinesOf(Append(s, byte)) = Client!LinesOf(s)
                   /\ Client!Rest(Append(s, byte)) = Append(Client!Rest(s), byte)
  <1> DEFINE Cuts == [lines : Seq(Seq(Shown)), rest : Seq(Shown)]
             G == {x \in Seq(Shown) : Client!Split(x) \in Cuts}
  <1>1. ASSUME NEW c \in Cuts, NEW byte \in Shown
        PROVE  /\ WithByte(c, byte) \in Cuts
               /\ IF byte = "nl"
                  THEN WithByte(c, byte).lines = Append(c.lines, c.rest) /\ WithByte(c, byte).rest = <<>>
                  ELSE WithByte(c, byte).lines = c.lines /\ WithByte(c, byte).rest = Append(c.rest, byte)
    <2>1. /\ c.lines \in Seq(Seq(Shown)) /\ c.rest \in Seq(Shown)
          /\ c = [lines |-> c.lines, rest |-> c.rest]
      OBVIOUS
    <2>2. /\ Append(c.lines, c.rest) \in Seq(Seq(Shown)) /\ Append(c.rest, byte) \in Seq(Shown)
          /\ <<>> \in Seq(Shown)
      BY <2>1, AppendProperties, EmptySeq
    <2>3. CASE byte = "nl"
      BY <2>2, <2>3 DEF WithByte
    <2>4. CASE byte # "nl"
      <3>1. WithByte(c, byte) = [lines |-> c.lines, rest |-> Append(c.rest, byte)]
        BY <2>1, <2>4 DEF WithByte
      <3> QED BY <2>1, <2>2, <2>4, <3>1
    <2> QED BY <2>3, <2>4
  <1>2. Client!Split(<<>>) = NothingYet
    <2>1. <<>> \in Seq(Shown) /\ "nl" \in Shown
      BY EmptySeq DEF Shown
    <2> QED BY <2>1, SplitAppend
  <1>3. <<>> \in G
    <2>1. NothingYet \in Cuts
      BY EmptySeq DEF NothingYet
    <2> QED BY <1>2, <2>1, EmptySeq
  <1>4. \A x \in Seq(Shown) : \A byte \in Shown : x \in G => Append(x, byte) \in G
    <2> SUFFICES ASSUME NEW x \in Seq(Shown), NEW byte \in Shown, x \in G
                 PROVE  Append(x, byte) \in G
      OBVIOUS
    <2>1. Client!Split(x) \in Cuts
      OBVIOUS
    <2> HIDE DEF Cuts
    <2>2. WithByte(Client!Split(x), byte) \in Cuts
      BY <1>1, <2>1
    <2> QED BY <2>2, SplitAppend, AppendProperties
  <1>5. s \in G
    <2> HIDE DEF G
    <2> QED BY <1>3, <1>4, ByteByByte
  <1>6. Client!Split(s) \in Cuts
    BY <1>5
  <1>7. \A byte \in Shown : Client!Split(Append(s, byte)) = WithByte(Client!Split(s), byte)
    BY SplitAppend
  <1>8. Client!LinesOf(s) \in Seq(Seq(Shown)) /\ Client!Rest(s) \in Seq(Shown)
    BY <1>6 DEF Client!LinesOf, Client!Rest
  <1>9. Client!LinesOf(<<>>) = <<>> /\ Client!Rest(<<>>) = <<>>
    BY <1>2 DEF Client!LinesOf, Client!Rest, NothingYet
  <1> HIDE DEF Cuts, G
  <1>10. ASSUME NEW byte \in Shown
         PROVE  IF byte = "nl"
                THEN /\ Client!LinesOf(Append(s, byte)) = Append(Client!LinesOf(s), Client!Rest(s))
                     /\ Client!Rest(Append(s, byte)) = <<>>
                ELSE /\ Client!LinesOf(Append(s, byte)) = Client!LinesOf(s)
                     /\ Client!Rest(Append(s, byte)) = Append(Client!Rest(s), byte)
    <2> DEFINE c == Client!Split(s)
               d == Client!Split(Append(s, byte))
    <2>1. d = WithByte(c, byte) /\ c \in Cuts
      BY <1>6, <1>7
    <2> HIDE DEF c, d
    <2>2. IF byte = "nl" THEN d.lines = Append(c.lines, c.rest) /\ d.rest = <<>>
          ELSE d.lines = c.lines /\ d.rest = Append(c.rest, byte)
      BY <1>1, <2>1
    <2> QED BY <2>2 DEF c, d, Client!LinesOf, Client!Rest
  <1> QED BY <1>8, <1>9, <1>10

(* The sequences the next proofs put together.                              *)
LEMMA Together ==
  ASSUME NEW S, NEW a \in Seq(S), NEW b \in Seq(S), NEW e \in S
  PROVE  /\ a \o b \in Seq(S) /\ Append(a, e) \in Seq(S) /\ <<e>> \in Seq(S)
         /\ a \o <<>> = a /\ <<>> \o a = a /\ Append(a, e) = a \o <<e>>
         /\ a \o Append(b, e) = Append(a \o b, e)
         /\ Len(a) \in Nat /\ Len(a \o b) = Len(a) + Len(b) /\ Len(Append(a, e)) = Len(a) + 1
         /\ Append(a, e)[Len(a) + 1] = e /\ \A k \in 1..Len(a) : Append(a, e)[k] = a[k]
  <1>1. <<e>> \in Seq(S)
    OBVIOUS
  <1>2. a \o (b \o <<e>>) = (a \o b) \o <<e>>
    BY <1>1, ConcatAssociative
  <1>3. a \o b \in Seq(S) /\ Len(a \o b) = Len(a) + Len(b)
    BY ConcatProperties
  <1>4. \A x \in Seq(S) : Append(x, e) = x \o <<e>>
    BY AppendIsConcat
  <1>5. a \o Append(b, e) = Append(a \o b, e)
    BY <1>2, <1>3, <1>4
  <1>6. a \o <<>> = a /\ <<>> \o a = a
    BY ConcatEmptySeq
  <1>7. /\ Len(a) \in Nat /\ Append(a, e) \in Seq(S) /\ Len(Append(a, e)) = Len(a) + 1
        /\ Append(a, e)[Len(a) + 1] = e /\ \A k \in 1..Len(a) : Append(a, e)[k] = a[k]
    OBVIOUS
  <1> QED BY <1>1, <1>3, <1>4, <1>5, <1>6, <1>7

LEMMA Regroup ==
  /\ \A a, b, c \in Seq(Shown) : a \o (b \o c) = (a \o b) \o c /\ a \o b \in Seq(Shown)
  /\ \A a, b, c \in Seq(Seq(Shown)) :
       a \o (b \o c) = (a \o b) \o c /\ a \o b \in Seq(Seq(Shown))
  <1>1. ASSUME NEW S, NEW a \in Seq(S), NEW b \in Seq(S), NEW c \in Seq(S)
        PROVE  a \o (b \o c) = (a \o b) \o c /\ a \o b \in Seq(S)
    BY ConcatAssociative, ConcatProperties
  <1> QED BY <1>1

Joint(a, b) == a \o b
LEMMA RegroupTexts ==
  ASSUME NEW a \in Seq(Shown), NEW b \in Seq(Shown), NEW c \in Seq(Shown)
  PROVE  Joint(a, Joint(b, c)) = Joint(Joint(a, b), c)
  BY ConcatAssociative, SMTT(30) DEF Joint

LEMMA TextsJoin ==
  ASSUME NEW a \in Seq(Shown), NEW b \in Seq(Shown)
  PROVE  Joint(a, b) \in Seq(Shown)
  BY ConcatProperties DEF Joint

(* A text behind another: what was behind the last line of the one goes       *)
(* before the first line of the other.                                          *)
Whole(text) == Client!Rest(text) = <<>>
Carried(before, text) ==
  LET n    == Len(Client!LinesOf(before))
      all  == Client!LinesOf(before \o text)
      more == Client!LinesOf(text)
      over == Client!Rest(before)
  IN  /\ Len(all) = n + Len(more)
      /\ \A k \in 1..n : all[k] = Client!LinesOf(before)[k]
      /\ \A k \in 1..Len(more) : all[n + k] = (IF k = 1 THEN over ELSE <<>>) \o more[k]
      /\ Client!Rest(before \o text) = (IF more = <<>> THEN over ELSE <<>>) \o Client!Rest(text)

LEMMA CarriedNext ==
  ASSUME NEW p \in Seq(Shown), NEW t \in Seq(Shown), NEW e \in Shown, Carried(p, t)
  PROVE  Carried(p, Append(t, e))
  <1> DEFINE n == Len(Client!LinesOf(p))
             all == Client!LinesOf(p \o t)
             more == Client!LinesOf(t)
             over == Client!Rest(p)
             rest == Client!Rest(t)
             long == Client!Rest(p \o t)
             t2 == Append(t, e)
             m == Len(more)
  <1> SUFFICES Carried(p, t2)
    OBVIOUS
  <1>1. p \o t \in Seq(Shown) /\ t2 \in Seq(Shown) /\ p \o t2 = Append(p \o t, e)
    BY Together
  <1>2. /\ all \in Seq(Seq(Shown)) /\ more \in Seq(Seq(Shown)) /\ Client!LinesOf(p) \in Seq(Seq(Shown))
        /\ over \in Seq(Shown) /\ rest \in Seq(Shown) /\ long \in Seq(Shown)
    BY <1>1, LineByLine
  <1>3. /\ Len(all) = n + m
        /\ \A k \in 1..n : all[k] = Client!LinesOf(p)[k]
        /\ \A k \in 1..m : all[n + k] = (IF k = 1 THEN over ELSE <<>>) \o more[k]
        /\ long = (IF more = <<>> THEN over ELSE <<>>) \o rest
    BY DEF Carried
  <1>4. n \in Nat /\ m \in Nat /\ (more = <<>> <=> m = 0)
    BY <1>2, LenProperties, EmptySeq
  <1>5. /\ IF e = "nl" THEN Client!LinesOf(t2) = Append(more, rest) /\ Client!Rest(t2) = <<>>
           ELSE Client!LinesOf(t2) = more /\ Client!Rest(t2) = Append(rest, e)
        /\ IF e = "nl" THEN /\ Client!LinesOf(p \o t2) = Append(all, long)
                            /\ Client!Rest(p \o t2) = <<>>
           ELSE Client!LinesOf(p \o t2) = all /\ Client!Rest(p \o t2) = Append(long, e)
    <2> DEFINE pt == p \o t
    <2>1. IF e = "nl" THEN Client!LinesOf(t2) = Append(more, rest) /\ Client!Rest(t2) = <<>>
          ELSE Client!LinesOf(t2) = more /\ Client!Rest(t2) = Append(rest, e)
      BY LineByLine
    <2>2. pt \in Seq(Shown) /\ p \o t2 = Append(pt, e)
      BY <1>1
    <2> HIDE DEF pt, t2
    <2>3. IF e = "nl" THEN /\ Client!LinesOf(p \o t2) = Append(Client!LinesOf(pt), Client!Rest(pt))
                           /\ Client!Rest(p \o t2) = <<>>
          ELSE /\ Client!LinesOf(p \o t2) = Client!LinesOf(pt)
               /\ Client!Rest(p \o t2) = Append(Client!Rest(pt), e)
      BY <2>2, LineByLine
    <2> QED BY <2>1, <2>3 DEF pt
  <1> DEFINE l == Client!LinesOf(p)
             all2 == Client!LinesOf(p \o t2)
             rest2 == Client!Rest(t2)
             long2 == Client!Rest(p \o t2)
             more2 == Client!LinesOf(t2)
  <1>6. ASSUME /\ Len(all2) = n + Len(more2)
               /\ \A k \in 1..n : all2[k] = l[k]
               /\ \A k \in 1..Len(more2) : all2[n + k] = (IF k = 1 THEN over ELSE <<>>) \o more2[k]
               /\ long2 = (IF more2 = <<>> THEN over ELSE <<>>) \o rest2
        PROVE  Carried(p, t2)
    BY <1>6 DEF Carried
  <1> HIDE DEF all, over, rest, long, t2, all2, rest2, long2, more2
  <1>7. CASE e # "nl"
    <2>1. long2 = (IF more = <<>> THEN over ELSE <<>>) \o Append(rest, e)
      <3>1. \A x \in Seq(Shown) : x \o Append(rest, e) = Append(x \o rest, e)
        BY <1>2, Together, SMTT(30)
      <3>2. <<>> \in Seq(Shown)
        BY EmptySeq
      <3> QED BY <1>2, <1>3, <1>5, <1>7, <3>1, <3>2 DEF all2, long2, more2, rest2
    <2>2. all2 = all /\ more2 = more /\ rest2 = Append(rest, e)
      BY <1>5, <1>7 DEF all2, more2, rest2
    <2> HIDE DEF n, m, l, more
    <2>3. /\ \A k \in 1..n : all[k] = l[k]
          /\ \A k \in 1..Len(more) : all[n + k] = (IF k = 1 THEN over ELSE <<>>) \o more[k]
          /\ Len(all) = n + Len(more)
      BY <1>3 DEF m, l
    <2>4. /\ Len(all2) = n + Len(more2)
          /\ \A k \in 1..n : all2[k] = l[k]
          /\ \A k \in 1..Len(more2) : all2[n + k] = (IF k = 1 THEN over ELSE <<>>) \o more2[k]
          /\ long2 = (IF more2 = <<>> THEN over ELSE <<>>) \o rest2
      BY <2>1, <2>2, <2>3
    <2> QED BY <1>6, <2>4
  <1>8. CASE e = "nl"
    <2>1. all2 = Append(all, long) /\ more2 = Append(more, rest) /\ rest2 = <<>> /\ long2 = <<>>
      BY <1>5, <1>8 DEF all2, more2, rest2, long2
    <2> HIDE DEF n, m, l, more
    <2>2. /\ Len(all2) = n + m + 1 /\ all2[n + m + 1] = long
          /\ \A k \in 1..n + m : all2[k] = all[k]
      <3>1. Len(all) = n + m
        BY <1>3
      <3> QED BY <1>2, <2>1, <3>1, Together
    <2>3. /\ Len(more2) = m + 1 /\ more2[m + 1] = rest
          /\ \A k \in 1..m : more2[k] = more[k]
      BY <1>2, <2>1, Together DEF m
    <2>4. more2 # <<>>
      <3>1. m + 1 # 0 /\ Len(<<>>) = 0
        BY <1>4
      <3> QED BY <2>3, <3>1
    <2>5. long2 = <<>> \o rest2
      BY <2>1
    <2>6. \A k \in 1..n : all2[k] = l[k]
      <3>1. \A k \in 1..n : k \in 1..n + m
        BY <1>4
      <3> QED BY <1>3, <2>2, <3>1 DEF l
    <2>7. ASSUME NEW k \in 1..m + 1
          PROVE  all2[n + k] = (IF k = 1 THEN over ELSE <<>>) \o more2[k]
      <3>1. CASE k = m + 1
        <4>1. n + k = n + m + 1 /\ (k = 1 <=> m = 0)
          BY <1>4, <3>1
        <4> QED BY <1>3, <1>4, <2>2, <2>3, <3>1, <4>1
      <3>2. CASE k # m + 1
        <4>1. k \in 1..m /\ n + k \in 1..n + m
          BY <1>4, <3>2
        <4> QED BY <1>3, <2>2, <2>3, <4>1
      <3> QED BY <3>1, <3>2
    <2>8. Len(all2) = n + (m + 1)
      BY <1>4, <2>2
    <2>9. /\ Len(all2) = n + Len(more2)
          /\ \A k \in 1..n : all2[k] = l[k]
          /\ \A k \in 1..Len(more2) : all2[n + k] = (IF k = 1 THEN over ELSE <<>>) \o more2[k]
          /\ long2 = (IF more2 = <<>> THEN over ELSE <<>>) \o rest2
      BY <2>3, <2>4, <2>5, <2>6, <2>7, <2>8
    <2> QED BY <1>6, <2>9
  <1> QED BY <1>7, <1>8

LEMMA LinesCarried ==
  ASSUME NEW p \in Seq(Shown), NEW t \in Seq(Shown)
  PROVE  Carried(p, t)
  <1> DEFINE G == {x \in Seq(Shown) : Carried(p, x)}
  <1>1. <<>> \in G
    <2>1. /\ Client!LinesOf(<<>>) = <<>> /\ Client!Rest(<<>>) = <<>>
          /\ Client!LinesOf(p) \in Seq(Seq(Shown)) /\ Client!Rest(p) \in Seq(Shown)
      BY LineByLine
    <2>2. p \o <<>> = p /\ Client!Rest(p) \o <<>> = Client!Rest(p)
      BY <2>1, ConcatEmptySeq
    <2>3. Len(<<>>) = 0 /\ 1..0 = {} /\ Len(Client!LinesOf(p)) + 0 = Len(Client!LinesOf(p))
      BY <2>1, LenProperties
    <2>4. Client!LinesOf(p \o <<>>) = Client!LinesOf(p)
      BY <2>2
    <2>5. Client!Rest(p \o <<>>) = Client!Rest(p) \o Client!Rest(<<>>)
      BY <2>1, <2>2
    <2>6. Carried(p, <<>>)
      <3> DEFINE n == Len(Client!LinesOf(p))
                 all == Client!LinesOf(p \o <<>>)
                 more == Client!LinesOf(<<>>)
                 over == Client!Rest(p)
      <3>1. n \in Nat /\ more = <<>> /\ Len(more) = 0 /\ all = Client!LinesOf(p)
        BY <2>1, <2>4, LenProperties
      <3>2. Client!Rest(p \o <<>>) = (IF more = <<>> THEN over ELSE <<>>) \o Client!Rest(<<>>)
        BY <2>5, <3>1
      <3>3. Len(all) = n + Len(more)
        BY <2>4, <3>1
      <3>4. \A k \in 1..n : all[k] = Client!LinesOf(p)[k]
        BY <3>1
      <3>5. \A k \in 1..Len(more) : all[n + k] = (IF k = 1 THEN over ELSE <<>>) \o more[k]
        BY <3>1
      <3> QED BY <3>2, <3>3, <3>4, <3>5 DEF Carried
    <2> QED BY <2>6, EmptySeq
  <1>2. \A x \in Seq(Shown) : \A e \in Shown : x \in G => Append(x, e) \in G
    BY CarriedNext, AppendProperties
  <1> HIDE DEF G
  <1>3. t \in G
    BY <1>1, <1>2, ByteByByte
  <1> QED BY <1>3 DEF G

(* Behind whole lines a text is split as if it stood alone.                  *)
LEMMA WholeLines ==
  ASSUME NEW a \in Seq(Shown), NEW x \in Seq(Shown), Whole(a)
  PROVE  /\ Client!LinesOf(a \o x) = Client!LinesOf(a) \o Client!LinesOf(x)
         /\ Client!Rest(a \o x) = Client!Rest(x)
  <1> DEFINE l == Client!LinesOf(a)
             m == Client!LinesOf(x)
             all == Client!LinesOf(a \o x)
  <1>1. a \o x \in Seq(Shown)
    BY ConcatProperties
  <1>2. /\ l \in Seq(Seq(Shown)) /\ m \in Seq(Seq(Shown)) /\ Client!Rest(x) \in Seq(Shown)
        /\ all \in Seq(Seq(Shown))
    BY <1>1, LineByLine
  <1>3. /\ Len(all) = Len(l) + Len(m)
        /\ \A k \in 1..Len(l) : all[k] = l[k]
        /\ \A k \in 1..Len(m) : all[Len(l) + k] = (IF k = 1 THEN <<>> ELSE <<>>) \o m[k]
        /\ Client!Rest(a \o x) = (IF m = <<>> THEN <<>> ELSE <<>>) \o Client!Rest(x)
    <2> DEFINE over == Client!Rest(a)
    <2>1. over = <<>>
      BY DEF Whole
    <2>2. /\ Len(all) = Len(l) + Len(m)
          /\ \A k \in 1..Len(l) : all[k] = l[k]
          /\ \A k \in 1..Len(m) : all[Len(l) + k] = (IF k = 1 THEN over ELSE <<>>) \o m[k]
          /\ Client!Rest(a \o x) = (IF m = <<>> THEN over ELSE <<>>) \o Client!Rest(x)
      BY LinesCarried DEF Carried
    <2> HIDE DEF over
    <2> QED BY <2>1, <2>2
  <1> HIDE DEF l, m, all
  <1>4. Client!Rest(a \o x) = Client!Rest(x)
    BY <1>2, <1>3, ConcatEmptySeq
  <1>5. \A k \in 1..Len(m) : all[Len(l) + k] = m[k]
    <2> SUFFICES ASSUME NEW k \in 1..Len(m) PROVE all[Len(l) + k] = m[k]
      OBVIOUS
    <2>1. m[k] \in Seq(Shown)
      BY <1>2, ElementOfSeq
    <2>2. <<>> \o m[k] = m[k]
      BY <2>1, ConcatEmptySeq
    <2> QED BY <1>3, <2>2
  <1>6. /\ l \o m \in Seq(Seq(Shown)) /\ Len(l \o m) = Len(l) + Len(m)
        /\ \A k \in 1..Len(l) : (l \o m)[k] = l[k]
        /\ \A k \in 1..Len(m) : (l \o m)[Len(l) + k] = m[k]
    BY <1>2, Joined
  <1>7. Len(l) \in Nat /\ Len(m) \in Nat
    BY <1>2, LenProperties
  <1>8. \A k \in 1..Len(l) + Len(m) : all[k] = (l \o m)[k]
    <2> SUFFICES ASSUME NEW k \in 1..Len(l) + Len(m) PROVE all[k] = (l \o m)[k]
      OBVIOUS
    <2>1. CASE k \in 1..Len(l)
      BY <1>3, <1>6, <2>1
    <2>2. CASE k \notin 1..Len(l)
      <3>1. k - Len(l) \in 1..Len(m) /\ Len(l) + (k - Len(l)) = k
        BY <1>7, <2>2
      <3> QED BY <1>5, <1>6, <3>1
    <2> QED BY <2>1, <2>2
  <1>9. all = l \o m
    <2>1. Len(all) = Len(l \o m) /\ \A k \in 1..Len(all) : all[k] = (l \o m)[k]
      BY <1>3, <1>6, <1>8
    <2> HIDE DEF all
    <2> QED BY <1>2, <1>6, <2>1, SeqEqual
  <1> QED BY <1>4, <1>9 DEF l, m, all

(* Without a newline there is no line; with one behind it there is one.      *)
LEMMA NoLineYet ==
  ASSUME NEW s \in Seq(Shown), HasNoEnd(s)
  PROVE  Client!LinesOf(s) = <<>> /\ Client!Rest(s) = s
  <1> DEFINE G == {x \in Seq(Shown) : HasNoEnd(x) => Client!LinesOf(x) = <<>> /\ Client!Rest(x) = x}
  <1>1. <<>> \in G
    BY LineByLine, EmptySeq
  <1>2. ASSUME NEW x \in Seq(Shown), NEW e \in Shown, x \in G PROVE Append(x, e) \in G
    <2>1. ASSUME HasNoEnd(Append(x, e)) PROVE HasNoEnd(x) /\ e # "nl"
      <3>1. /\ Len(x) \in Nat /\ Len(Append(x, e)) = Len(x) + 1 /\ Append(x, e)[Len(x) + 1] = e
            /\ \A k \in 1..Len(x) : Append(x, e)[k] = x[k]
        BY Together
      <3>2. Len(x) + 1 \in 1..Len(Append(x, e)) /\ \A k \in 1..Len(x) : k \in 1..Len(Append(x, e))
        BY <3>1
      <3> QED BY <2>1, <3>1, <3>2 DEF HasNoEnd
    <2>2. Append(x, e) \in Seq(Shown)
      BY AppendProperties
    <2> QED BY <1>2, <2>1, <2>2, LineByLine
  <1> HIDE DEF G
  <1>3. s \in G
    BY <1>1, <1>2, ByteByByte
  <1> QED BY <1>3 DEF G

LEMMA OneLine ==
  ASSUME NEW line \in Seq(Shown), HasNoEnd(line)
  PROVE  Client!LinesOf(Append(line, "nl")) = <<line>> /\ Whole(Append(line, "nl"))
  <1>1. "nl" \in Shown
    BY DEF Shown
  <1>2. /\ Client!LinesOf(Append(line, "nl")) = Append(Client!LinesOf(line), Client!Rest(line))
        /\ Client!Rest(Append(line, "nl")) = <<>>
    BY <1>1, LineByLine
  <1>3. Append(<<>>, line) = <<line>>
    OBVIOUS
  <1> QED BY <1>2, <1>3, NoLineYet DEF Whole

(* A text is its whole lines and its rest.                                   *)
LEMMA WholeAndRest ==
  ASSUME NEW s \in Seq(Shown)
  PROVE  /\ Client!Complete(s) \in Seq(Shown) /\ Client!Rest(s) \in Seq(Shown)
         /\ s = Client!Complete(s) \o Client!Rest(s)
         /\ Whole(Client!Complete(s)) /\ Client!LinesOf(Client!Complete(s)) = Client!LinesOf(s)
  <1> DEFINE Parts(x, u) == x = u \o Client!Rest(x) /\ Whole(u) /\ Client!LinesOf(u) = Client!LinesOf(x)
             G == {x \in Seq(Shown) : \E u \in Seq(Shown) : Parts(x, u)}
  <1>1. <<>> \in G
    <2>1. <<>> \in Seq(Shown) /\ <<>> \o <<>> = <<>>
      BY EmptySeq, ConcatEmptySeq
    <2>2. Client!Rest(<<>>) = <<>>
      BY <2>1, LineByLine
    <2>3. Parts(<<>>, <<>>)
      BY <2>1, <2>2 DEF Whole
    <2> QED BY <2>1, <2>3
  <1>2. ASSUME NEW x \in Seq(Shown), NEW e \in Shown, x \in G PROVE Append(x, e) \in G
    <2> DEFINE y == Append(x, e)
    <2>0. y \in Seq(Shown)
      BY AppendProperties
    <2>1. PICK u \in Seq(Shown) : Parts(x, u)
      BY <1>2
    <2>2. Client!Rest(x) \in Seq(Shown)
      BY LineByLine
    <2>3. CASE e = "nl"
      <3>1. Client!Rest(y) = <<>> /\ y \o <<>> = y
        BY <2>0, <2>3, LineByLine, ConcatEmptySeq
      <3>2. Parts(y, y)
        BY <3>1 DEF Whole
      <3> QED BY <2>0, <3>2
    <2>4. CASE e # "nl"
      <3>1. Client!Rest(y) = Append(Client!Rest(x), e) /\ Client!LinesOf(y) = Client!LinesOf(x)
        BY <2>4, LineByLine
      <3>2. u \o Append(Client!Rest(x), e) = Append(u \o Client!Rest(x), e)
        BY <2>2, Together
      <3>3. Parts(y, u)
        BY <2>1, <3>1, <3>2
      <3> QED BY <2>0, <3>3
    <2> QED BY <2>3, <2>4
  <1>3. s \in G
    <2> HIDE DEF G
    <2> QED BY <1>1, <1>2, ByteByByte
  <1>4. PICK u \in Seq(Shown) : Parts(s, u)
    BY <1>3
  <1> DEFINE r == Client!Rest(s)
  <1>5. r \in Seq(Shown)
    BY LineByLine
  <1> HIDE DEF r
  <1>6. /\ Len(u) \in Nat /\ Len(r) \in Nat /\ Len(s) = Len(u) + Len(r)
        /\ \A k \in 1..Len(u) : s[k] = u[k]
    BY <1>4, <1>5, LenProperties, Joined DEF r
  <1>7. Client!Complete(s) = SubSeq(s, 1, Len(u))
    <2>1. Len(s) - Len(r) = Len(u)
      BY <1>6
    <2> QED BY <2>1 DEF Client!Complete, r
  <1>8. SubSeq(s, 1, Len(u)) = u
    <2> DEFINE n == Len(u)
               v == SubSeq(s, 1, n)
    <2>1. n \in Nat /\ n <= Len(s)
      BY <1>6
    <2> HIDE DEF n
    <2>2. v \in Seq(Shown) /\ Len(v) = n /\ \A k \in 1..n : v[k] = s[k]
      BY <2>1, CutInTwo
    <2> HIDE DEF v
    <2>3. v = u
      BY <1>6, <2>2, SeqEqual DEF n
    <2> QED BY <2>3 DEF v, n
  <1> QED BY <1>4, <1>5, <1>7, <1>8 DEF r

(* Of whole lines the end is whole lines, the first of them cut short.       *)
LEMMA EndOfWhole ==
  ASSUME NEW p \in Seq(Shown), NEW t \in Seq(Shown), Whole(p \o t)
  PROVE  /\ Whole(t)
         /\ \A k \in 1..Len(Client!LinesOf(t)) :
              \E j \in 1..Len(Client!LinesOf(p \o t)) : \E q \in Seq(Shown) :
                Client!LinesOf(p \o t)[j] = q \o Client!LinesOf(t)[k]
  <1> DEFINE n == Len(Client!LinesOf(p))
             all == Client!LinesOf(p \o t)
             more == Client!LinesOf(t)
             over == Client!Rest(p)
             rest == Client!Rest(t)
  <1>1. /\ Len(all) = n + Len(more)
        /\ \A k \in 1..Len(more) : all[n + k] = (IF k = 1 THEN over ELSE <<>>) \o more[k]
        /\ Client!Rest(p \o t) = (IF more = <<>> THEN over ELSE <<>>) \o rest
    BY LinesCarried DEF Carried
  <1>2. /\ n \in Nat /\ Len(more) \in Nat /\ over \in Seq(Shown) /\ rest \in Seq(Shown)
        /\ <<>> \in Seq(Shown)
    BY LineByLine, LenProperties, EmptySeq
  <1> HIDE DEF n, all, more, over, rest
  <1>3. rest = <<>>
    <2>1. PICK x \in Seq(Shown) : x \o rest = <<>>
      BY <1>1, <1>2 DEF Whole
    <2>2. Len(x) \in Nat /\ Len(rest) \in Nat /\ Len(x \o rest) = Len(x) + Len(rest) /\ Len(<<>>) = 0
      BY <1>2, LenProperties, ConcatProperties
    <2>3. Len(rest) = 0
      BY <2>1, <2>2
    <2> QED BY <1>2, <2>3, EmptySeq
  <1>4. ASSUME NEW k \in 1..Len(more)
        PROVE  \E j \in 1..Len(all) : \E q \in Seq(Shown) : all[j] = q \o more[k]
    <2>1. n + k \in 1..Len(all)
      BY <1>1, <1>2
    <2> QED BY <1>1, <1>2, <2>1
  <1> QED BY <1>3, <1>4 DEF Whole, all, more, rest

(* The first of whole lines.                                                 *)
LEMMA FirstOfWhole ==
  ASSUME NEW t \in Seq(Shown), t # <<>>, Whole(t)
  PROVE  \E line \in Seq(Shown), u \in Seq(Shown) :
           /\ t = Append(line, "nl") \o u /\ HasNoEnd(line)
           /\ Client!FirstNewline(t) = Len(line) + 1
           /\ Whole(u) /\ Client!LinesOf(t) = <<line>> \o Client!LinesOf(u)
  <1> DEFINE ends == Client!Newlines(t)
             n == Len(t)
  <1>1. n \in Nat /\ ends = {k \in 1..n : t[k] = "nl"}
    BY LenProperties DEF Client!Newlines
  <1>2. ends # {}
    <2> SUFFICES ASSUME ends = {} PROVE FALSE
      OBVIOUS
    <2>1. HasNoEnd(t)
      BY <1>1 DEF HasNoEnd
    <2> QED BY <2>1, NoLineYet DEF Whole
  <1>3. PICK p \in ends : \A m \in ends : p <= m
    <2>1. ends \in SUBSET Nat
      BY <1>1
    <2> HIDE DEF ends
    <2> QED BY <1>2, <2>1, LeastExists
  <1>4. p \in 1..n /\ t[p] = "nl" /\ \A k \in 1..n : t[k] = "nl" => p <= k
    BY <1>1, <1>3
  <1>5. Client!FirstNewline(t) = p
    <2>1. \A k \in ends : k \in Nat
      BY <1>1
    <2> HIDE DEF ends
    <2>2. \A k \in ends : (\A m \in ends : k <= m) => k = p
      BY <1>3, <2>1
    <2>3. (CHOOSE k \in ends : \A m \in ends : k <= m) = p
      BY <1>3, <2>2
    <2> QED BY <2>3 DEF ends, Client!FirstNewline
  <1> HIDE DEF ends, n
  <1> DEFINE l == p - 1
             line == SubSeq(t, 1, l)
             u == SubSeq(t, p + 1, n)
             first == SubSeq(t, 1, p)
  <1>6. l \in Nat /\ l <= n /\ p \in Nat /\ p <= n /\ l + 1 = p
    BY <1>1, <1>4
  <1>7. line \in Seq(Shown) /\ Len(line) = l /\ \A k \in 1..l : line[k] = t[k]
    <2> HIDE DEF l
    <2> QED BY <1>6, CutInTwo DEF n
  <1>8. /\ first \in Seq(Shown) /\ Len(first) = p /\ \A k \in 1..p : first[k] = t[k]
        /\ u \in Seq(Shown) /\ t = first \o u
    BY <1>6, CutInTwo DEF n
  <1>9. HasNoEnd(line)
    <2>1. \A k \in 1..l : k \in 1..n /\ ~(p <= k)
      BY <1>1, <1>4
    <2> HIDE DEF line
    <2> QED BY <1>4, <1>7, <2>1 DEF HasNoEnd
  <1> HIDE DEF line, u, first, l
  <1>10. "nl" \in Shown
    BY DEF Shown
  <1>11. first = Append(line, "nl")
    <2>1. /\ Append(line, "nl") \in Seq(Shown) /\ Len(Append(line, "nl")) = l + 1
          /\ Append(line, "nl")[l + 1] = "nl" /\ \A k \in 1..l : Append(line, "nl")[k] = line[k]
      BY <1>7, <1>10, Together
    <2>2. \A k \in 1..p : Append(line, "nl")[k] = first[k]
      <3>1. \A k \in 1..p : k \in 1..l \/ k = l + 1
        BY <1>6
      <3> QED BY <1>4, <1>6, <1>7, <1>8, <2>1, <3>1
    <2> QED BY <1>6, <1>8, <2>1, <2>2, SeqEqual
  <1>12. Client!LinesOf(first) = <<line>> /\ Whole(first)
    BY <1>7, <1>9, <1>11, OneLine
  <1>13. Client!LinesOf(t) = <<line>> \o Client!LinesOf(u) /\ Whole(u)
    BY <1>8, <1>12, WholeLines DEF Whole
  <1>14. Client!FirstNewline(t) = Len(line) + 1
    BY <1>5, <1>6, <1>7
  <1> QED BY <1>7, <1>8, <1>9, <1>11, <1>13, <1>14

-----------------------------------------------------------------------------
(* The invariant of TypedLinesArrive.  The stack buffer holds whole lines, each  *)
(* the end of a line typed, so that what is sent behind the line just read adds   *)
(* nothing but ends of lines; what was sent and not shown is on its way, in      *)
(* order, in the client's input, the two directions and the server's input.       *)

Unspoilt == kind = "network" /\ spoilt = {}
EndsOf(all, lines) ==
  \A k \in 1..Len(lines) : \E j \in 1..Len(all) : \E q \in Seq(Shown) : all[j] = q \o lines[k]
Texts ==
  /\ tty \in Seq(Shown) /\ frame \in Seq(Shown) /\ sent \in Seq(Shown) /\ in \in Seq(Shown)
  /\ toServer \in Seq(Shown) /\ toClient \in Seq(Shown) /\ held \in Seq(Shown)
AllFit == \A k \in 1..Len(typed) : Len(typed[k]) + 1 <= BufLen
WholeLinesOf(text) == Whole(text) /\ EndsOf(typed, Client!LinesOf(text))
ReadIsSent ==
  \E read \in Seq(ClientTyped) :
    /\ typed = read \o Client!LinesOf(tty)
    /\ server = "up" => Client!ComeIn(read, Client!LinesOf(sent))
Way(a, b, c, d) == Joint(a, Joint(b, Joint(c, d)))
OnItsWay ==
  \E a \in Seq(Shown), z \in Seq(Shown) :
    /\ sent = Way(a, in, toClient, z)
    /\ Whole(a) /\ Client!LinesOf(a) = heard
    /\ server = "up" => z = Joint(held, toServer)
Arrives ==
  /\ typed \in Seq(ClientTyped)
  /\ Unspoilt => /\ Texts /\ AllFit /\ ReadIsSent /\ OnItsWay
                 /\ Whole(tty) /\ WholeLinesOf(frame) /\ WholeLinesOf(sent)

LEMMA ArrivesInit == Init => Arrives
  <1> SUFFICES ASSUME Init PROVE Arrives
    OBVIOUS
  <1>1. /\ tty = <<>> /\ frame = <<>> /\ toServer = <<>> /\ toClient = <<>> /\ held = <<>>
        /\ in = <<>> /\ typed = <<>> /\ sent = <<>> /\ heard = <<>>
    BY DEF Init, Client!Init
  <1>2. /\ <<>> \in Seq(Shown) /\ <<>> \in Seq(ClientTyped) /\ <<>> \o <<>> = <<>>
        /\ Len(<<>>) = 0 /\ 1..0 = {}
    BY EmptySeq, ConcatEmptySeq
  <1>3. Client!LinesOf(<<>>) = <<>> /\ Client!Rest(<<>>) = <<>>
    BY <1>2, LineByLine
  <1>4. Client!ComeIn(<<>>, <<>>)
    <2> DEFINE place == [k \in 1..0 |-> 0]
    <2>1. place \in [1..Len(<<>>) -> 1..Len(<<>>)]
      BY <1>2
    <2>2. \A k \in 1..Len(<<>>) : FALSE
      BY <1>2
    <2> QED BY <2>1, <2>2 DEF Client!ComeIn
  <1>5. ReadIsSent
    BY <1>1, <1>2, <1>3, <1>4 DEF ReadIsSent
  <1>6. OnItsWay
    <2>1. <<>> = <<>> \o (<<>> \o (<<>> \o <<>>))
      BY <1>2
    <2> QED BY <1>1, <1>2, <1>3, <2>1 DEF OnItsWay, Whole, Way, Joint
  <1>7. Texts /\ AllFit /\ Whole(tty) /\ WholeLinesOf(frame) /\ WholeLinesOf(sent)
    BY <1>1, <1>2, <1>3 DEF Texts, AllFit, Whole, WholeLinesOf, EndsOf
  <1> QED BY <1>1, <1>2, <1>5, <1>6, <1>7 DEF Arrives

(* One line more, in its place.                                             *)
LEMMA LineBetween ==
  ASSUME NEW S, NEW lines \in Seq(S), NEW line \in S, NEW more \in Seq(S)
  PROVE  LET all == lines \o (<<line>> \o more)
         IN  /\ Len(all) \in Nat /\ Len(lines) + 1 <= Len(all) /\ all[Len(lines) + 1] = line
             /\ \A k \in 1..Len(lines) : all[k] = lines[k]
  <1> DEFINE one == <<line>>
             b == one \o more
             n == Len(lines)
             all == lines \o b
  <1>1. /\ one \in Seq(S) /\ Len(one) = 1 /\ one[1] = line /\ Len(more) \in Nat
        /\ n \in Nat
    BY LenProperties
  <1> HIDE DEF one
  <1>2. b \in Seq(S) /\ Len(b) = Len(one) + Len(more) /\ \A k \in 1..Len(one) : b[k] = one[k]
    BY <1>1, Joined
  <1>3. b \in Seq(S) /\ Len(b) = 1 + Len(more) /\ b[1] = line
    BY <1>1, <1>2
  <1> HIDE DEF b
  <1>4. /\ Len(all) = n + Len(b)
        /\ \A k \in 1..n : all[k] = lines[k]
        /\ \A k \in 1..Len(b) : all[n + k] = b[k]
    <2>1. b \in Seq(S)
      BY <1>3
    <2> QED BY <2>1, Joined
  <1> HIDE DEF n, all
  <1>5. 1 \in 1..Len(b) /\ n + 1 <= n + Len(b) /\ n + Len(b) \in Nat
    BY <1>1, <1>3
  <1>6. all[n + 1] = line
    BY <1>3, <1>4, <1>5
  <1> QED BY <1>4, <1>5, <1>6 DEF all, b, one, n

LEMMA OneMoreComesIn ==
  ASSUME NEW S, NEW some \in Seq(S), NEW lines \in Seq(S), NEW line \in S, NEW more \in Seq(S),
         Client!ComeIn(some, lines)
  PROVE  Client!ComeIn(Append(some, line), lines \o (<<line>> \o more))
  <1> DEFINE m == Len(some)
             n == Len(lines)
             new == Append(some, line)
             all == lines \o (<<line>> \o more)
  <1>1. /\ m \in Nat /\ n \in Nat /\ Len(new) = m + 1 /\ new[m + 1] = line
        /\ \A k \in 1..m : new[k] = some[k]
    BY Together
  <1>2. /\ Len(all) \in Nat /\ n + 1 <= Len(all) /\ all[n + 1] = line
        /\ \A k \in 1..n : all[k] = lines[k]
    BY LineBetween
  <1>3. PICK place \in [1..m -> 1..n] :
          /\ \A k \in 1..m : lines[place[k]] = some[k]
          /\ \A k, j \in 1..m : k < j => place[k] < place[j]
    BY DEF Client!ComeIn
  <1> DEFINE next == [k \in 1..m + 1 |-> IF k = m + 1 THEN n + 1 ELSE place[k]]
  <1> HIDE DEF m, n, new, all
  <1>4. \A k \in 1..m + 1 : IF k = m + 1 THEN next[k] = n + 1
                            ELSE k \in 1..m /\ next[k] = place[k] /\ place[k] \in 1..n
    BY <1>1, <1>3
  <1>5. next \in [1..Len(new) -> 1..Len(all)]
    <2>1. \A k \in 1..m + 1 : next[k] \in 1..Len(all)
      BY <1>1, <1>2, <1>4
    <2> QED BY <1>1, <2>1
  <1> HIDE DEF next
  <1>6. \A k \in 1..Len(new) : all[next[k]] = new[k]
    BY <1>1, <1>2, <1>3, <1>4
  <1>7. ASSUME NEW k \in 1..Len(new), NEW j \in 1..Len(new), k < j PROVE next[k] < next[j]
    <2>1. k \in 1..m + 1 /\ j \in 1..m + 1 /\ k # m + 1 /\ k \in 1..m
      BY <1>1, <1>7
    <2>2. CASE j = m + 1
      <3>1. next[k] = place[k] /\ place[k] \in 1..n
        BY <1>4, <2>1
      <3>2. next[j] = n + 1
        BY <1>4, <2>1, <2>2
      <3>3. place[k] < n + 1
        BY <1>1, <3>1
      <3> QED BY <3>1, <3>2, <3>3
    <2>3. CASE j # m + 1
      <3>1. j \in 1..m /\ next[j] = place[j] /\ next[k] = place[k]
        BY <1>4, <2>1, <2>3
      <3> QED BY <1>3, <1>7, <2>1, <3>1
    <2> QED BY <2>2, <2>3
  <1>8. Client!ComeIn(new, all)
    BY <1>5, <1>6, <1>7 DEF Client!ComeIn
  <1> QED BY <1>8 DEF new, all

(* Lines that are ends of others: of more, together, one of them, and ends of ends. *)
LEMMA EndsOfMore ==
  ASSUME NEW S, NEW all \in Seq(S), NEW line \in S, NEW lines, EndsOf(all, lines)
  PROVE  EndsOf(Append(all, line), lines)
  <1> DEFINE more == Append(all, line)
  <1>1. Len(all) \in Nat /\ Len(more) = Len(all) + 1 /\ \A k \in 1..Len(all) : more[k] = all[k]
    BY Together
  <1> HIDE DEF more
  <1>2. ASSUME NEW k \in 1..Len(lines)
        PROVE  \E j \in 1..Len(more) : \E q \in Seq(Shown) : more[j] = q \o lines[k]
    <2>1. PICK j \in 1..Len(all) : \E q \in Seq(Shown) : all[j] = q \o lines[k]
      BY DEF EndsOf
    <2>2. j \in 1..Len(more) /\ more[j] = all[j]
      BY <1>1
    <2> QED BY <2>1, <2>2
  <1>3. EndsOf(more, lines)
    BY <1>2 DEF EndsOf
  <1> QED BY <1>3 DEF more

LEMMA EndsTogether ==
  ASSUME NEW all, NEW x \in Seq(Seq(Shown)), NEW y \in Seq(Seq(Shown)),
         EndsOf(all, x), EndsOf(all, y)
  PROVE  EndsOf(all, x \o y)
  <1>1. /\ Len(x) \in Nat /\ Len(y) \in Nat /\ Len(x \o y) = Len(x) + Len(y)
        /\ \A k \in 1..Len(x) : (x \o y)[k] = x[k]
        /\ \A k \in 1..Len(y) : (x \o y)[Len(x) + k] = y[k]
    BY Joined, LenProperties
  <1> DEFINE xy == x \o y
  <1> HIDE DEF xy
  <1>2. ASSUME NEW k \in 1..Len(xy)
        PROVE  \E j \in 1..Len(all) : \E q \in Seq(Shown) : all[j] = q \o xy[k]
    <2>1. CASE k \in 1..Len(x)
      <3>1. xy[k] = x[k]
        BY <1>1, <2>1 DEF xy
      <3> QED BY <2>1, <3>1 DEF EndsOf
    <2>2. CASE k \notin 1..Len(x)
      <3>1. k - Len(x) \in 1..Len(y) /\ Len(x) + (k - Len(x)) = k
        BY <1>1, <2>2 DEF xy
      <3>2. xy[k] = y[k - Len(x)]
        BY <1>1, <3>1 DEF xy
      <3> QED BY <3>1, <3>2 DEF EndsOf
    <2> QED BY <2>1, <2>2
  <1>3. EndsOf(all, xy)
    BY <1>2 DEF EndsOf
  <1> QED BY <1>3 DEF xy

LEMMA EndsOfOne ==
  ASSUME NEW all, NEW j \in 1..Len(all), NEW line \in Seq(Shown), all[j] = line
  PROVE  EndsOf(all, <<line>>)
  <1>1. <<>> \in Seq(Shown) /\ <<>> \o line = line
    BY EmptySeq, ConcatEmptySeq
  <1>2. Len(<<line>>) = 1 /\ <<line>>[1] = line /\ \A k \in 1..1 : k = 1
    OBVIOUS
  <1>3. \A k \in 1..Len(<<line>>) : all[j] = <<>> \o <<line>>[k]
    BY <1>1, <1>2
  <1> QED BY <1>1, <1>3 DEF EndsOf

LEMMA EndsOfEnds ==
  ASSUME NEW all, NEW x, EndsOf(all, x), NEW y \in Seq(Seq(Shown)), EndsOf(x, y)
  PROVE  EndsOf(all, y)
  <1>1. ASSUME NEW k \in 1..Len(y)
        PROVE  \E j \in 1..Len(all) : \E q \in Seq(Shown) : all[j] = q \o y[k]
    <2>1. PICK ix \in 1..Len(x), q \in Seq(Shown) : x[ix] = q \o y[k]
      BY DEF EndsOf
    <2>2. PICK j \in 1..Len(all), r \in Seq(Shown) : all[j] = r \o x[ix]
      BY DEF EndsOf
    <2>3. y[k] \in Seq(Shown)
      BY ElementOfSeq
    <2>4. r \o (q \o y[k]) = (r \o q) \o y[k] /\ r \o q \in Seq(Shown)
      <3> DEFINE z == y[k]
      <3>1. z \in Seq(Shown)
        BY <2>3
      <3> HIDE DEF z
      <3> QED BY <3>1, Regroup DEF z
    <2> QED BY <2>1, <2>2, <2>4
  <1> QED BY <1>1 DEF EndsOf

(* What a read of the terminal takes is the first line not yet read, all of it. *)
LEMMA OneLineRead ==
  ASSUME Arrives, Unspoilt, tty # <<>>
  PROVE  \E line \in ClientTyped, read \in Seq(ClientTyped) :
           /\ Client!Chunk = Append(line, "nl")
           /\ Client!Unread \in Seq(Shown) /\ Whole(Client!Unread)
           /\ typed = Append(read, line) \o Client!LinesOf(Client!Unread)
           /\ server = "up" => Client!ComeIn(read, Client!LinesOf(sent))
           /\ \E j \in 1..Len(typed) : typed[j] = line
  <1>1. typed \in Seq(ClientTyped) /\ tty \in Seq(Shown) /\ Whole(tty) /\ AllFit /\ ReadIsSent
    BY DEF Arrives, Texts
  <1>2. PICK line \in Seq(Shown), u \in Seq(Shown) :
          /\ tty = Append(line, "nl") \o u /\ Client!FirstNewline(tty) = Len(line) + 1
          /\ Whole(u) /\ Client!LinesOf(tty) = <<line>> \o Client!LinesOf(u)
    BY <1>1, FirstOfWhole
  <1>3. PICK read \in Seq(ClientTyped) :
          /\ typed = read \o Client!LinesOf(tty)
          /\ server = "up" => Client!ComeIn(read, Client!LinesOf(sent))
    BY <1>1 DEF ReadIsSent
  <1> DEFINE m == Client!LinesOf(u)
             n == Len(line) + 1
             chunk == Append(line, "nl")
  <1>4. m \in Seq(Seq(Shown)) /\ "nl" \in Shown
    BY LineByLine DEF Shown
  <1>5. \A x \in ClientTyped : x \in Seq(Shown)
    BY ClientLines
  <1>6. read \in Seq(Seq(Shown)) /\ read \o (<<line>> \o m) \in Seq(Seq(Shown))
    <2>1. read \in Seq(Seq(Shown))
      BY <1>5
    <2>2. <<line>> \in Seq(Seq(Shown))
      OBVIOUS
    <2> HIDE DEF m
    <2>3. <<line>> \o m \in Seq(Seq(Shown))
      BY <1>4, <2>2, ConcatProperties
    <2> QED BY <2>1, <2>3, ConcatProperties
  <1> HIDE DEF m, chunk, n
  <1>7. Len(read) + 1 \in 1..Len(typed) /\ typed[Len(read) + 1] = line
    <2>1. /\ Len(typed) \in Nat /\ Len(read) + 1 <= Len(typed) /\ typed[Len(read) + 1] = line
          /\ Len(read) \in Nat
      BY <1>2, <1>3, <1>4, <1>6, LineBetween, LenProperties DEF m
    <2> QED BY <2>1
  <1>8. line \in ClientTyped /\ Len(line) + 1 <= BufLen
    <2>1. line \in ClientTyped
      BY <1>1, <1>7, ElementOfSeq
    <2> QED BY <1>1, <1>7, <2>1 DEF AllFit
  <1>9. chunk \in Seq(Shown) /\ Len(chunk) = n /\ n \in Nat /\ n <= BufLen /\ BufLen \in Nat
    BY <1>4, <1>8, Together, ClientLines DEF chunk, n
  <1>10. /\ tty = chunk \o u /\ Len(tty) = n + Len(u) /\ Len(u) \in Nat
         /\ \A k \in 1..n : tty[k] = chunk[k]
         /\ \A k \in 1..Len(u) : tty[n + k] = u[k]
    <2>1. chunk \in Seq(Shown) /\ tty = chunk \o u
      BY <1>2, <1>9 DEF chunk
    <2>2. /\ Len(chunk \o u) = Len(chunk) + Len(u)
          /\ \A k \in 1..Len(chunk) : (chunk \o u)[k] = chunk[k]
          /\ \A k \in 1..Len(u) : (chunk \o u)[Len(chunk) + k] = u[k]
      BY <2>1, Joined
    <2> QED BY <1>9, <2>1, <2>2, LenProperties
  <1>11. /\ SubSeq(tty, 1, n) = chunk /\ SubSeq(tty, n + 1, Len(tty)) = u
    <2> DEFINE v == SubSeq(tty, 1, n)
               w == SubSeq(tty, n + 1, Len(tty))
    <2>1. n <= Len(tty) /\ Len(tty) - n = Len(u)
      BY <1>9, <1>10
    <2>2. /\ v \in Seq(Shown) /\ Len(v) = n /\ \A k \in 1..n : v[k] = tty[k]
          /\ w \in Seq(Shown) /\ Len(w) = Len(u) /\ \A k \in 1..Len(u) : w[k] = tty[n + k]
      BY <1>1, <1>9, <2>1, CutInTwo
    <2> HIDE DEF v, w
    <2>3. v = chunk
      BY <1>9, <1>10, <2>2, SeqEqual
    <2>4. w = u
      BY <1>10, <2>2, SeqEqual
    <2> QED BY <2>3, <2>4 DEF v, w
  <1>12. Client!Chunk = chunk
    <2>1. Client!Least(n, BufLen) = n
      BY <1>9 DEF Client!Least
    <2> QED BY <1>2, <1>11, <2>1 DEF Client!Chunk, n
  <1>13. Client!Unread = u
    BY <1>9, <1>11, <1>12 DEF Client!Unread
  <1>14. typed = Append(read, line) \o m
    <2>1. typed = read \o (<<line>> \o m)
      BY <1>2, <1>3 DEF m
    <2>2. <<line>> \in Seq(Seq(Shown)) /\ Append(read, line) = read \o <<line>>
      BY <1>6, Together
    <2>3. read \o (<<line>> \o m) = (read \o <<line>>) \o m
      BY <1>4, <1>6, <2>2, ConcatAssociative, SMTT(30)
    <2> QED BY <2>1, <2>2, <2>3
  <1> QED BY <1>2, <1>3, <1>7, <1>8, <1>12, <1>13, <1>14 DEF chunk, m

(* A line is typed.                                                         *)
LEMMA ArrivesTyped ==
  ASSUME Arrives, NEW line \in ClientTyped, Client!Type(line)
  PROVE  Arrives'
  <1>1. /\ tty' = tty \o Append(line, "nl") /\ typed' = Append(typed, line)
        /\ spoilt' = spoilt \cup (IF Client!Fits(line) THEN {} ELSE {"long"})
                            \cup (IF kind = "network" \/ Client!Quiet THEN {} ELSE {"hasty"})
        /\ UNCHANGED <<kind, frame, toServer, toClient, held, in, heard, server, sent>>
    BY DEF Client!Type, Client!shown
  <1>2. typed \in Seq(ClientTyped) /\ typed' \in Seq(ClientTyped)
    BY <1>1, AppendProperties DEF Arrives
  <1> SUFFICES ASSUME Unspoilt'
               PROVE  /\ Texts' /\ AllFit' /\ ReadIsSent' /\ OnItsWay'
                      /\ Whole(tty)' /\ WholeLinesOf(frame)' /\ WholeLinesOf(sent)'
    BY <1>2 DEF Arrives
  <1>3. Unspoilt /\ Client!Fits(line) /\ kind = "network" /\ kind' = "network"
    BY <1>1 DEF Unspoilt
  <1>4. /\ Texts /\ AllFit /\ ReadIsSent /\ OnItsWay
        /\ Whole(tty) /\ WholeLinesOf(frame) /\ WholeLinesOf(sent)
    BY <1>3 DEF Arrives
  <1> DEFINE new == Append(line, "nl")
             l == Client!LinesOf(tty)
  <1>5. /\ line \in Seq(Shown) /\ new \in Seq(Shown) /\ tty \in Seq(Shown) /\ tty' \in Seq(Shown)
        /\ Client!LinesOf(new) = <<line>> /\ Whole(new) /\ l \in Seq(Seq(Shown))
    <2>1. "nl" \in Shown /\ line \in Seq(Shown) /\ HasNoEnd(line) /\ tty \in Seq(Shown)
      BY <1>4, ClientLines DEF Shown, Texts
    <2>2. new \in Seq(Shown)
      BY <2>1, Together
    <2>3. Client!LinesOf(new) = <<line>> /\ Whole(new)
      BY <2>1, OneLine
    <2> HIDE DEF new
    <2>4. tty \o new \in Seq(Shown)
      BY <2>1, <2>2, ConcatProperties
    <2> QED BY <1>1, <2>1, <2>2, <2>3, <2>4, LineByLine DEF new
  <1> HIDE DEF new, l
  <1>6. tty' = tty \o new
    BY <1>1 DEF new
  <1>7. Client!LinesOf(tty') = l \o <<line>> /\ Whole(tty')
    BY <1>4, <1>5, <1>6, WholeLines DEF Whole, l
  <1>8. Texts'
    BY <1>1, <1>4, <1>5 DEF Texts
  <1>9. AllFit'
    <2>1. /\ Len(typed) \in Nat /\ Len(typed') = Len(typed) + 1 /\ typed'[Len(typed) + 1] = line
          /\ \A j \in 1..Len(typed) : typed'[j] = typed[j]
      BY <1>1, <1>2, Together
    <2>2. Len(line) + 1 <= BufLen
      BY <1>3 DEF Client!Fits
    <2>3. \A k \in 1..Len(typed') : k \in 1..Len(typed) \/ k = Len(typed) + 1
      BY <2>1
    <2> QED BY <1>4, <2>1, <2>2, <2>3 DEF AllFit
  <1>10. ReadIsSent'
    <2>1. PICK read \in Seq(ClientTyped) :
            /\ typed = read \o l
            /\ server = "up" => Client!ComeIn(read, Client!LinesOf(sent))
      BY <1>4 DEF ReadIsSent, l
    <2>2. \A x \in ClientTyped : x \in Seq(Shown)
      BY ClientLines
    <2>3. read \in Seq(Seq(Shown)) /\ <<line>> \in Seq(Seq(Shown))
      BY <1>5, <2>2
    <2>4. typed' = typed \o <<line>>
      BY <1>1, <1>2, AppendIsConcat
    <2>5. (read \o l) \o <<line>> = read \o (l \o <<line>>)
      BY <1>5, <2>3, Regroup
    <2>6. typed' = read \o Client!LinesOf(tty')
      BY <1>7, <2>1, <2>4, <2>5
    <2>7. server' = "up" => Client!ComeIn(read, Client!LinesOf(sent'))
      BY <1>1, <2>1
    <2> QED BY <2>6, <2>7 DEF ReadIsSent
  <1>11. OnItsWay'
    BY <1>1, <1>4 DEF OnItsWay
  <1>12. WholeLinesOf(frame)' /\ WholeLinesOf(sent)'
    <2>1. \A lines : EndsOf(typed, lines) => EndsOf(typed', lines)
      BY <1>1, <1>2, EndsOfMore
    <2>2. frame' = frame /\ sent' = sent
      BY <1>1
    <2>3. /\ Whole(frame') /\ EndsOf(typed', Client!LinesOf(frame'))
          /\ Whole(sent') /\ EndsOf(typed', Client!LinesOf(sent'))
      BY <1>4, <2>1, <2>2 DEF WholeLinesOf
    <2> QED BY <2>3 DEF WholeLinesOf, Whole, EndsOf
  <1>13. Whole(tty)'
    BY <1>7 DEF Whole
  <1> QED BY <1>8, <1>9, <1>10, <1>11, <1>12, <1>13

(* The buffer after a read: the line read, and the end of what was there.    *)
LEMMA FrameRead ==
  ASSUME Arrives, Unspoilt, NEW line \in Seq(Shown), HasNoEnd(line),
         Client!Chunk = Append(line, "nl"), NEW j \in 1..Len(typed), typed[j] = line
  PROVE  LET text == Client!Over(frame)
             more == Client!LinesOf(SubSeq(frame, Len(Append(line, "nl")) + 1, Len(frame)))
         IN  /\ text \in Seq(Shown) /\ WholeLinesOf(text)
             /\ more \in Seq(Seq(Shown)) /\ Client!LinesOf(text) = <<line>> \o more
  <1> DEFINE chunk == Append(line, "nl")
             n == Len(chunk)
             t == SubSeq(frame, n + 1, Len(frame))
             p == SubSeq(frame, 1, n)
             more == Client!LinesOf(t)
             text == Client!Over(frame)
  <1>1. frame \in Seq(Shown) /\ WholeLinesOf(frame)
    BY DEF Arrives, Texts
  <1>2. chunk \in Seq(Shown) /\ n \in Nat /\ Len(frame) \in Nat /\ <<line>> \in Seq(Seq(Shown))
    <2>1. "nl" \in Shown
      BY DEF Shown
    <2> QED BY <1>1, <2>1, Together, LenProperties
  <1>3. Client!LinesOf(chunk) = <<line>> /\ Whole(chunk)
    BY OneLine
  <1>4. text = chunk \o t
    BY DEF Client!Over
  <1> HIDE DEF chunk, n, t, p, more, text
  <1>5. t \in Seq(Shown) /\ Whole(t) /\ EndsOf(Client!LinesOf(frame), Client!LinesOf(t))
    <2>1. CASE n <= Len(frame)
      <3>1. p \in Seq(Shown) /\ t \in Seq(Shown) /\ p \o t = frame
        BY <1>1, <1>2, <2>1, CutInTwo DEF p, t
      <3>2. Whole(p \o t)
        BY <1>1, <3>1 DEF WholeLinesOf
      <3>3. /\ Whole(t)
            /\ \A k \in 1..Len(Client!LinesOf(t)) :
                 \E m \in 1..Len(Client!LinesOf(p \o t)) : \E q \in Seq(Shown) :
                   Client!LinesOf(p \o t)[m] = q \o Client!LinesOf(t)[k]
        BY <3>1, <3>2, EndOfWhole
      <3>4. EndsOf(Client!LinesOf(p \o t), Client!LinesOf(t))
        BY <3>3 DEF EndsOf
      <3>5. EndsOf(Client!LinesOf(frame), Client!LinesOf(t))
        BY <3>1, <3>4
      <3> QED BY <3>1, <3>3, <3>5
    <2>2. CASE ~(n <= Len(frame))
      <3>1. t = <<>>
        BY <1>2, <2>2, SubSeqEmpty DEF t
      <3>2. /\ <<>> \in Seq(Shown) /\ Client!LinesOf(<<>>) = <<>> /\ Client!Rest(<<>>) = <<>>
            /\ 1..Len(<<>>) = {}
        BY LineByLine, EmptySeq, SMTT(30)
      <3> QED BY <3>1, <3>2 DEF Whole, EndsOf
    <2> QED BY <2>1, <2>2
  <1>6. more \in Seq(Seq(Shown))
    BY <1>5, LineByLine DEF more
  <1>7. EndsOf(typed, more)
    BY <1>1, <1>5, <1>6, EndsOfEnds DEF WholeLinesOf, more
  <1>8. EndsOf(typed, <<line>>)
    BY EndsOfOne
  <1>9. text \in Seq(Shown)
    BY <1>2, <1>4, <1>5, ConcatProperties
  <1>10. Client!LinesOf(text) = <<line>> \o more /\ Whole(text)
    BY <1>2, <1>3, <1>4, <1>5, WholeLines DEF Whole, more
  <1>11. EndsOf(typed, <<line>> \o more)
    BY <1>2, <1>6, <1>7, <1>8, EndsTogether
  <1> QED BY <1>6, <1>9, <1>10, <1>11 DEF WholeLinesOf, text, more, t, n, chunk

(* What is sent comes behind what is on its way.                            *)
LEMMA Behind ==
  ASSUME NEW a \in Seq(Shown), NEW b \in Seq(Shown), NEW c \in Seq(Shown),
         NEW z \in Seq(Shown), NEW t \in Seq(Shown)
  PROVE  Joint(Way(a, b, c, z), t) = Way(a, b, c, Joint(z, t))
  <1> DEFINE cz == Joint(c, z)
             bcz == Joint(b, cz)
  <1>1. Joint(c, Joint(z, t)) = Joint(cz, t)
    BY RegroupTexts
  <1>2. cz \in Seq(Shown)
    BY TextsJoin
  <1> HIDE DEF cz
  <1>3. Joint(b, Joint(cz, t)) = Joint(bcz, t)
    BY <1>2, RegroupTexts
  <1>4. bcz \in Seq(Shown)
    BY <1>2, TextsJoin
  <1> HIDE DEF bcz
  <1>5. Joint(a, Joint(bcz, t)) = Joint(Joint(a, bcz), t)
    BY <1>4, RegroupTexts
  <1> QED BY <1>1, <1>3, <1>5 DEF cz, bcz, Way

LEMMA MoreOnItsWay ==
  ASSUME Texts, OnItsWay, server = "up", Client!stdin_handler,
         NEW text \in Seq(Shown), Client!Sends(text)
  PROVE  OnItsWay'
  <1>1. PICK a \in Seq(Shown), z \in Seq(Shown) :
          /\ sent = Way(a, in, toClient, z)
          /\ Whole(a) /\ Client!LinesOf(a) = heard
          /\ z = Joint(held, toServer)
    BY DEF OnItsWay
  <1>2. /\ in \in Seq(Shown) /\ toClient \in Seq(Shown) /\ held \in Seq(Shown)
        /\ toServer \in Seq(Shown)
    BY DEF Texts
  <1>3. Joint(Way(a, in, toClient, z), text) = Way(a, in, toClient, Joint(z, text))
    BY <1>1, <1>2, Behind
  <1>4. Joint(held, Joint(toServer, text)) = Joint(Joint(held, toServer), text)
    BY <1>2, RegroupTexts
  <1>5. Joint(z, text) \in Seq(Shown)
    BY <1>1, TextsJoin
  <1>6. /\ sent' = Joint(sent, text) /\ toServer' = Joint(toServer, text)
        /\ UNCHANGED <<in, toClient, held, heard, server>>
    BY DEF Joint, Client!stdin_handler, Client!Sends, Client!shown
  <1> DEFINE y == Joint(z, text)
  <1>7. y \in Seq(Shown) /\ sent' = Way(a, in, toClient, y) /\ y = Joint(held, toServer')
    BY <1>1, <1>3, <1>4, <1>5, <1>6
  <1> HIDE DEF y
  <1> QED BY <1>1, <1>6, <1>7 DEF OnItsWay

(* The line read is sent, with what the buffer holds behind it.              *)
LEMMA ArrivesSent ==
  ASSUME Arrives, Client!stdin_handler
  PROVE  Arrives'
  <1>1. /\ tty # <<>> /\ kind = "network"
        /\ \E old \in {frame, Client!Junk} : Client!SendsFrame(old)
        /\ UNCHANGED <<kind, toClient, held, in, heard, typed>>
    BY DEF Client!stdin_handler, Client!shown
  <1>2. typed \in Seq(ClientTyped)
    BY DEF Arrives
  <1> SUFFICES ASSUME Unspoilt'
               PROVE  /\ Texts' /\ AllFit' /\ ReadIsSent' /\ OnItsWay'
                      /\ Whole(tty)' /\ WholeLinesOf(frame)' /\ WholeLinesOf(sent)'
    BY <1>1, <1>2 DEF Arrives
  <1> DEFINE text == Client!Over(frame)
  <1>3. /\ spoilt = {} /\ frame' = text /\ tty' = Client!Unread /\ Client!Sends(text)
    BY <1>1 DEF Client!SendsFrame, Unspoilt
  <1>4. Unspoilt
    BY <1>1, <1>3 DEF Unspoilt
  <1>5. /\ Texts /\ AllFit /\ ReadIsSent /\ OnItsWay
        /\ Whole(tty) /\ WholeLinesOf(frame) /\ WholeLinesOf(sent)
    BY <1>4 DEF Arrives
  <1>6. PICK line \in ClientTyped, read \in Seq(ClientTyped) :
           /\ Client!Chunk = Append(line, "nl")
           /\ Client!Unread \in Seq(Shown) /\ Whole(Client!Unread)
           /\ typed = Append(read, line) \o Client!LinesOf(Client!Unread)
           /\ server = "up" => Client!ComeIn(read, Client!LinesOf(sent))
           /\ \E j \in 1..Len(typed) : typed[j] = line
    BY <1>1, <1>4, OneLineRead
  <1>7. line \in Seq(Shown) /\ HasNoEnd(line) /\ read \in Seq(Seq(Shown))
        /\ Append(read, line) \in Seq(ClientTyped)
    <2>1. \A x \in ClientTyped : x \in Seq(Shown)
      BY ClientLines
    <2> QED BY <1>6, <2>1, ClientLines, AppendProperties
  <1>8. PICK more \in Seq(Seq(Shown)) :
          /\ text \in Seq(Shown) /\ WholeLinesOf(text) /\ Client!LinesOf(text) = <<line>> \o more
    BY <1>4, <1>6, <1>7, FrameRead
  <1> HIDE DEF text
  <1>9. /\ sent \in Seq(Shown) /\ in \in Seq(Shown) /\ toServer \in Seq(Shown)
        /\ toClient \in Seq(Shown) /\ held \in Seq(Shown)
    BY <1>5 DEF Texts
  <1>10. AllFit' /\ Whole(tty)' /\ WholeLinesOf(frame)'
    BY <1>1, <1>3, <1>5, <1>6, <1>8 DEF AllFit, Whole, WholeLinesOf, EndsOf
  <1>11. CASE server = "up"
    <2>1. sent' = sent \o text /\ toServer' = toServer \o text /\ server' = server
      BY <1>3, <1>11 DEF Client!Sends
    <2>2. sent' \in Seq(Shown) /\ toServer' \in Seq(Shown)
      BY <1>8, <1>9, <2>1, ConcatProperties
    <2>3. Texts'
      BY <1>1, <1>3, <1>6, <1>8, <1>9, <2>2 DEF Texts
    <2>4. OnItsWay'
      BY <1>3, <1>5, <1>8, <1>11, MoreOnItsWay
    <2>5. /\ Client!LinesOf(sent') = Client!LinesOf(sent) \o (<<line>> \o more)
          /\ Whole(sent')
      <3>1. Whole(sent) /\ Whole(text)
        BY <1>5, <1>8 DEF WholeLinesOf
      <3>2. /\ Client!LinesOf(sent \o text) = Client!LinesOf(sent) \o Client!LinesOf(text)
            /\ Client!Rest(sent \o text) = Client!Rest(text)
        BY <1>8, <1>9, <3>1, WholeLines
      <3> QED BY <1>8, <2>1, <3>1, <3>2 DEF Whole
    <2>6. EndsOf(typed, Client!LinesOf(sent'))
      <3>1. EndsOf(typed, Client!LinesOf(sent)) /\ EndsOf(typed, Client!LinesOf(text))
        BY <1>5, <1>8 DEF WholeLinesOf
      <3>2. Client!LinesOf(sent) \in Seq(Seq(Shown)) /\ Client!LinesOf(text) \in Seq(Seq(Shown))
        BY <1>8, <1>9, LineByLine
      <3>3. EndsOf(typed, Client!LinesOf(sent) \o Client!LinesOf(text))
        BY <3>1, <3>2, EndsTogether
      <3> QED BY <1>8, <2>5, <3>3
    <2>7. WholeLinesOf(sent)'
      BY <1>1, <2>5, <2>6 DEF WholeLinesOf, Whole, EndsOf
    <2>8. Client!ComeIn(Append(read, line), Client!LinesOf(sent'))
      <3>1. Client!LinesOf(sent) \in Seq(Seq(Shown))
        BY <1>9, LineByLine
      <3>2. Client!ComeIn(read, Client!LinesOf(sent))
        BY <1>6, <1>11
      <3>3. Client!ComeIn(Append(read, line), Client!LinesOf(sent) \o (<<line>> \o more))
        BY <1>7, <1>8, <3>1, <3>2, OneMoreComesIn
      <3> QED BY <2>5, <3>3
    <2>9. ReadIsSent'
      <3>1. typed' = Append(read, line) \o Client!LinesOf(tty')
        BY <1>1, <1>3, <1>6
      <3> QED BY <1>7, <2>8, <3>1 DEF ReadIsSent
    <2> QED BY <1>10, <2>3, <2>4, <2>7, <2>9
  <1>12. CASE server # "up"
    <2>1. sent' = sent /\ toServer' = toServer /\ server' # "up"
      BY <1>3, <1>12 DEF Client!Sends
    <2>2. Texts'
      BY <1>1, <1>3, <1>6, <1>8, <1>9, <2>1 DEF Texts
    <2>3. OnItsWay'
      BY <1>1, <1>5, <2>1 DEF OnItsWay
    <2>4. WholeLinesOf(sent)'
      BY <1>1, <1>5, <2>1 DEF WholeLinesOf, Whole, EndsOf
    <2>5. ReadIsSent'
      <3>1. typed' = Append(read, line) \o Client!LinesOf(tty')
        BY <1>1, <1>3, <1>6
      <3> QED BY <1>7, <2>1, <3>1 DEF ReadIsSent
    <2> QED BY <1>10, <2>2, <2>3, <2>4, <2>5
  <1> QED BY <1>11, <1>12

(* A part of what waits at one place goes on to the next.                    *)
LEMMA Handed ==
  ASSUME NEW b \in Seq(Shown), NEW x \in Seq(Shown), NEW y \in Seq(Shown),
         NEW u \in Seq(Shown), NEW r \in Seq(Shown), Joint(b, x) = Joint(u, r)
  PROVE  Joint(b, Joint(x, y)) = Joint(u, Joint(r, y))
  <1>1. Joint(b, Joint(x, y)) = Joint(Joint(b, x), y)
    BY RegroupTexts
  <1>2. Joint(u, Joint(r, y)) = Joint(Joint(u, r), y)
    BY RegroupTexts
  <1> QED BY <1>1, <1>2

(* A queue is what is taken from it and what stays; what is taken makes whole *)
(* lines with what was held, and a new rest is held.                           *)
LEMMA Taking ==
  ASSUME NEW queue \in Seq(Shown), NEW n \in 1..Len(queue), NEW before \in Seq(Shown)
  PROVE  LET x == SubSeq(queue, 1, n)
             y == SubSeq(queue, n + 1, Len(queue))
             bytes == before \o x
         IN  /\ x \in Seq(Shown) /\ y \in Seq(Shown) /\ queue = Joint(x, y)
             /\ bytes \in Seq(Shown)
             /\ Client!Complete(bytes) \in Seq(Shown) /\ Client!Rest(bytes) \in Seq(Shown)
             /\ Joint(before, x) = Joint(Client!Complete(bytes), Client!Rest(bytes))
             /\ Whole(Client!Complete(bytes))
             /\ Client!LinesOf(Client!Complete(bytes)) = Client!LinesOf(bytes)
  <1> DEFINE x == SubSeq(queue, 1, n)
             y == SubSeq(queue, n + 1, Len(queue))
             bytes == before \o x
  <1>1. n \in Nat /\ n <= Len(queue)
    BY LenProperties
  <1>2. x \in Seq(Shown) /\ y \in Seq(Shown) /\ queue = Joint(x, y)
    BY <1>1, CutInTwo DEF Joint
  <1> HIDE DEF x, y
  <1>3. bytes \in Seq(Shown) /\ bytes = Joint(before, x)
    BY <1>2, TextsJoin DEF Joint
  <1> HIDE DEF bytes
  <1>4. /\ Client!Complete(bytes) \in Seq(Shown) /\ Client!Rest(bytes) \in Seq(Shown)
        /\ bytes = Joint(Client!Complete(bytes), Client!Rest(bytes))
        /\ Whole(Client!Complete(bytes))
        /\ Client!LinesOf(Client!Complete(bytes)) = Client!LinesOf(bytes)
    BY <1>3, WholeAndRest DEF Joint
  <1> QED BY <1>2, <1>3, <1>4 DEF x, y, bytes

(* The client shows the lines that have come.                               *)
LEMMA ArrivesShown ==
  ASSUME Arrives, NEW n \in 1..Len(toClient), Client!recv_callback(n)
  PROVE  Arrives'
  <1> DEFINE x == SubSeq(toClient, 1, n)
             y == SubSeq(toClient, n + 1, Len(toClient))
             bytes == in \o x
             u == Client!Complete(bytes)
             r == Client!Rest(bytes)
  <1>1. /\ heard' = heard \o Client!LinesOf(bytes) /\ in' = r /\ toClient' = y
        /\ UNCHANGED <<kind, tty, typed, frame, toServer, held, server, sent, spoilt>>
    BY DEF Client!recv_callback, Client!user
  <1> SUFFICES ASSUME Unspoilt
               PROVE  Texts' /\ OnItsWay'
    BY <1>1 DEF Arrives, Unspoilt, AllFit, ReadIsSent, Whole, WholeLinesOf, EndsOf
  <1>2. Texts /\ OnItsWay
    BY DEF Arrives
  <1>3. /\ tty \in Seq(Shown) /\ frame \in Seq(Shown) /\ sent \in Seq(Shown) /\ in \in Seq(Shown)
        /\ toServer \in Seq(Shown) /\ toClient \in Seq(Shown) /\ held \in Seq(Shown)
    BY <1>2 DEF Texts
  <1>4. /\ x \in Seq(Shown) /\ y \in Seq(Shown) /\ toClient = Joint(x, y) /\ bytes \in Seq(Shown)
        /\ u \in Seq(Shown) /\ r \in Seq(Shown) /\ Joint(in, x) = Joint(u, r)
        /\ Whole(u) /\ Client!LinesOf(u) = Client!LinesOf(bytes)
    BY <1>3, Taking
  <1> HIDE DEF x, y, bytes, u, r
  <1>5. Texts'
    BY <1>1, <1>3, <1>4 DEF Texts
  <1>6. PICK a \in Seq(Shown), z \in Seq(Shown) :
          /\ sent = Way(a, in, toClient, z)
          /\ Whole(a) /\ Client!LinesOf(a) = heard
          /\ server = "up" => z = Joint(held, toServer)
    BY <1>2 DEF OnItsWay
  <1> DEFINE b == Joint(a, u)
  <1>7. Way(a, in, Joint(x, y), z) = Way(b, r, y, z)
    <2>1. /\ a \in Seq(Shown) /\ z \in Seq(Shown) /\ in \in Seq(Shown)
          /\ x \in Seq(Shown) /\ y \in Seq(Shown) /\ u \in Seq(Shown) /\ r \in Seq(Shown)
      BY <1>3, <1>4, <1>6
    <2>2. Joint(in, x) = Joint(u, r)
      BY <1>4
    <2> DEFINE w == Joint(y, z)
               v == Joint(r, w)
    <2>3. Joint(Joint(x, y), z) = Joint(x, w)
      BY <2>1, RegroupTexts
    <2>4. w \in Seq(Shown)
      BY <2>1, TextsJoin
    <2> HIDE DEF w
    <2>5. Joint(in, Joint(x, w)) = Joint(u, v)
      BY <2>1, <2>2, <2>4, Handed
    <2>6. v \in Seq(Shown)
      BY <2>1, <2>4, TextsJoin
    <2> HIDE DEF v
    <2>7. Joint(a, Joint(u, v)) = Joint(Joint(a, u), v)
      BY <2>1, <2>6, RegroupTexts
    <2> QED BY <2>3, <2>5, <2>7 DEF w, v, Way
  <1>8. b \in Seq(Shown)
    BY <1>4, <1>6, TextsJoin
  <1>9. Client!LinesOf(b) = Client!LinesOf(a) \o Client!LinesOf(u) /\ Whole(b)
    BY <1>4, <1>6, WholeLines DEF Joint, Whole
  <1> HIDE DEF b
  <1>10. sent' = Way(b, in', toClient', z)
    BY <1>1, <1>4, <1>6, <1>7
  <1>11. Client!LinesOf(b) = heard'
    BY <1>1, <1>4, <1>6, <1>9
  <1>12. server' = "up" => z = Joint(held', toServer')
    BY <1>1, <1>6
  <1>13. OnItsWay'
    BY <1>6, <1>8, <1>9, <1>10, <1>11, <1>12 DEF OnItsWay
  <1> QED BY <1>5, <1>13

(* The server sends the lines back.                                         *)
LEMMA ArrivesEchoed ==
  ASSUME Arrives, NEW n \in 1..Len(toServer), Client!LinesEchoed(n)
  PROVE  Arrives'
  <1> DEFINE x == SubSeq(toServer, 1, n)
             y == SubSeq(toServer, n + 1, Len(toServer))
             bytes == held \o x
             u == Client!Complete(bytes)
             r == Client!Rest(bytes)
  <1>1. /\ server = "up" /\ toClient' = toClient \o u /\ held' = r /\ toServer' = y
        /\ UNCHANGED <<kind, tty, typed, frame, in, heard, server, sent, spoilt>>
    BY DEF Client!LinesEchoed, Client!user, Client!shown
  <1> SUFFICES ASSUME Unspoilt
               PROVE  Texts' /\ OnItsWay'
    BY <1>1 DEF Arrives, Unspoilt, AllFit, ReadIsSent, Whole, WholeLinesOf, EndsOf
  <1>2. Texts /\ OnItsWay
    BY DEF Arrives
  <1>3. /\ tty \in Seq(Shown) /\ frame \in Seq(Shown) /\ sent \in Seq(Shown) /\ in \in Seq(Shown)
        /\ toServer \in Seq(Shown) /\ toClient \in Seq(Shown) /\ held \in Seq(Shown)
    BY <1>2 DEF Texts
  <1>4. /\ x \in Seq(Shown) /\ y \in Seq(Shown) /\ toServer = Joint(x, y)
        /\ u \in Seq(Shown) /\ r \in Seq(Shown) /\ Joint(held, x) = Joint(u, r)
    BY <1>3, Taking
  <1> HIDE DEF x, y, bytes, u, r
  <1>5. toClient' = Joint(toClient, u)
    BY <1>1 DEF Joint
  <1>6. toClient' \in Seq(Shown)
    BY <1>3, <1>4, <1>5, TextsJoin
  <1>7. Texts'
    BY <1>1, <1>3, <1>4, <1>6 DEF Texts
  <1>8. PICK a \in Seq(Shown), z \in Seq(Shown) :
          /\ sent = Way(a, in, toClient, z)
          /\ Whole(a) /\ Client!LinesOf(a) = heard
          /\ z = Joint(held, toServer)
    BY <1>1, <1>2 DEF OnItsWay
  <1> DEFINE w == Joint(r, y)
  <1>9. w \in Seq(Shown)
    BY <1>4, TextsJoin
  <1>10. Joint(held, Joint(x, y)) = Joint(u, w)
    <2>1. /\ held \in Seq(Shown) /\ x \in Seq(Shown) /\ y \in Seq(Shown)
          /\ u \in Seq(Shown) /\ r \in Seq(Shown)
      BY <1>3, <1>4
    <2>2. Joint(held, x) = Joint(u, r)
      BY <1>4
    <2> QED BY <2>1, <2>2, Handed DEF w
  <1> HIDE DEF w
  <1>11. Joint(toClient, Joint(u, w)) = Joint(Joint(toClient, u), w)
    BY <1>3, <1>4, <1>9, RegroupTexts
  <1>12. sent' = Way(a, in', toClient', w)
    BY <1>1, <1>4, <1>5, <1>8, <1>10, <1>11 DEF Way
  <1>13. w = Joint(held', toServer')
    BY <1>1 DEF w
  <1>14. Whole(a) /\ Client!LinesOf(a) = heard'
    BY <1>1, <1>8
  <1>15. OnItsWay'
    BY <1>8, <1>9, <1>12, <1>13, <1>14 DEF OnItsWay
  <1> QED BY <1>7, <1>15

(* The line read is not sent: the connection is gone, and the send fails or  *)
(* SIGPIPE ends the client.                                                  *)
LEMMA ArrivesLost ==
  ASSUME Arrives, tty # <<>>, tty' = Client!Unread,
         server # "up", server' # "up", frame' = frame \/ frame' = Client!Over(frame),
         UNCHANGED <<kind, typed, toServer, toClient, held, in, heard, sent, spoilt>>
  PROVE  Arrives'
  <1> SUFFICES ASSUME Unspoilt
               PROVE  /\ Texts' /\ ReadIsSent' /\ OnItsWay' /\ Whole(tty')
                      /\ WholeLinesOf(frame)'
    BY DEF Arrives, Unspoilt, AllFit, Whole, WholeLinesOf, EndsOf
  <1>1. Texts /\ OnItsWay /\ WholeLinesOf(frame)
    BY DEF Arrives
  <1>2. PICK line \in ClientTyped, read \in Seq(ClientTyped) :
           /\ Client!Chunk = Append(line, "nl")
           /\ Client!Unread \in Seq(Shown) /\ Whole(Client!Unread)
           /\ typed = Append(read, line) \o Client!LinesOf(Client!Unread)
           /\ \E j \in 1..Len(typed) : typed[j] = line
    BY OneLineRead
  <1>3. frame' \in Seq(Shown) /\ WholeLinesOf(frame')
    <2>1. line \in Seq(Shown) /\ HasNoEnd(line)
      BY <1>2, ClientLines
    <2>2. Client!Over(frame) \in Seq(Shown) /\ WholeLinesOf(Client!Over(frame))
      BY <1>2, <2>1, FrameRead
    <2> QED BY <1>1, <2>2 DEF Texts
  <1>4. Texts' /\ WholeLinesOf(frame)'
    BY <1>1, <1>2, <1>3 DEF Texts, WholeLinesOf, Whole, EndsOf
  <1>5. Append(read, line) \in Seq(ClientTyped)
    BY AppendProperties
  <1>6. typed' = Append(read, line) \o Client!LinesOf(tty')
    BY <1>2
  <1>7. ReadIsSent'
    BY <1>5, <1>6 DEF ReadIsSent
  <1>8. OnItsWay'
    BY <1>1 DEF OnItsWay
  <1> QED BY <1>2, <1>4, <1>7, <1>8

(* The server goes, and what was on its way to it is lost.                   *)
LEMMA ArrivesGone ==
  ASSUME Arrives, Client!ServerGoes
  PROVE  Arrives'
  <1>1. /\ server' # "up" /\ toServer' = <<>>
        /\ UNCHANGED <<kind, tty, typed, frame, toClient, held, in, heard, sent, spoilt>>
    BY DEF Client!ServerGoes, Client!Leaves, Client!user, Client!shown
  <1> SUFFICES ASSUME Unspoilt
               PROVE  Texts' /\ ReadIsSent' /\ OnItsWay'
    BY <1>1 DEF Arrives, Unspoilt, AllFit, Whole, WholeLinesOf, EndsOf
  <1>2. Texts /\ ReadIsSent /\ OnItsWay
    BY DEF Arrives
  <1>3. Texts'
    BY <1>1, <1>2, EmptySeq DEF Texts
  <1>4. ReadIsSent'
    BY <1>1, <1>2 DEF ReadIsSent
  <1>5. OnItsWay'
    BY <1>1, <1>2 DEF OnItsWay
  <1> QED BY <1>3, <1>4, <1>5

(* The client is told.                                                       *)
LEMMA ArrivesAway ==
  ASSUME Arrives, server # "up", server' # "up",
         UNCHANGED <<kind, tty, typed, frame, toServer, toClient, held, in, heard, sent,
                     spoilt>>
  PROVE  Arrives'
  BY DEF Arrives, Unspoilt, Texts, AllFit, ReadIsSent, OnItsWay, Whole, WholeLinesOf, EndsOf

LEMMA ArrivesStays ==
  ASSUME Arrives,
         UNCHANGED <<kind, tty, typed, frame, toServer, toClient, held, in, heard, server,
                     sent, spoilt>>
  PROVE  Arrives'
  BY DEF Arrives, Unspoilt, Texts, AllFit, ReadIsSent, OnItsWay, Whole, WholeLinesOf, EndsOf

LEMMA ArrivesNext == Arrives /\ [Next]_vars => Arrives'
  <1> SUFFICES ASSUME Arrives, [Next]_vars PROVE Arrives'
    OBVIOUS
  <1>0. ASSUME UNCHANGED typed, ~Unspoilt' PROVE Arrives'
    BY <1>0 DEF Arrives
  <1>1. CASE UNCHANGED tcp
    <2>1. UNCHANGED <<kind, tty, typed, frame, toServer, toClient, held, in, heard, server,
                      sent, spoilt>>
      BY <1>1 DEF tcp
    <2> QED BY <2>1, ArrivesStays
  <1>2. CASE Client!Next
    <2>0. \A line \in ClientTyped : Client!Type(line) => Arrives'
      BY ArrivesTyped
    <2>1. CASE Client!read_stdin
      <3>1. kind' = "daemon" /\ UNCHANGED typed
        BY <2>1 DEF Client!read_stdin
      <3> QED BY <1>0, <3>1 DEF Unspoilt
    <2>2. CASE Client!read_stdin_fails
      <3>1. kind' = "daemon" /\ UNCHANGED typed
        BY <2>2 DEF Client!read_stdin_fails
      <3> QED BY <1>0, <3>1 DEF Unspoilt
    <2>3. CASE Client!stdin_handler
      BY <2>3, ArrivesSent
    <2>4. CASE Client!stdin_handler_fails
      <3>1. /\ tty # <<>> /\ tty' = Client!Unread
            /\ UNCHANGED <<kind, typed, toServer, toClient, held, in, heard, sent>>
        BY <2>4 DEF Client!stdin_handler_fails, Client!shown
      <3>2. CASE ~Unspoilt'
        BY <1>0, <3>1, <3>2
      <3>3. CASE Unspoilt'
        <4>1. /\ server = "reset" /\ server' = "rst" /\ spoilt = {} /\ spoilt' = {}
              /\ frame' = Client!Over(frame)
          BY <2>4, <3>3 DEF Client!stdin_handler_fails, Unspoilt
        <4> QED BY <3>1, <4>1, ArrivesLost
      <3> QED BY <3>2, <3>3
    <2>5. CASE Client!Sigpipe
      <3>1. /\ tty # <<>> /\ server = "rst" /\ tty' = Client!Unread
            /\ UNCHANGED <<kind, typed, frame, toServer, toClient, held, in, heard, server,
                           sent, spoilt>>
        BY <2>5 DEF Client!Sigpipe, Client!shown
      <3> QED BY <3>1, ArrivesLost
    <2>13. CASE Client!ReadsReset
      <3>1. /\ server # "up" /\ server' # "up"
            /\ UNCHANGED <<kind, tty, typed, frame, toServer, toClient, held, in, heard,
                           sent, spoilt>>
        BY <2>13 DEF Client!ReadsReset, Client!user, Client!shown
      <3> QED BY <3>1, ArrivesAway
    <2>6. CASE Client!recv_handler_end
      <3>1. kind' = "daemon" /\ UNCHANGED typed
        BY <2>6 DEF Client!recv_handler_end, Client!user
      <3> QED BY <1>0, <3>1 DEF Unspoilt
    <2>7. CASE Client!sig_int_handler
      <3>1. UNCHANGED <<kind, tty, typed, frame, toServer, toClient, held, in, heard, server,
                        sent, spoilt>>
        BY <2>7 DEF Client!sig_int_handler, Client!user, Client!shown
      <3> QED BY <3>1, ArrivesStays
    <2>8. CASE Client!ServerGoes
      BY <2>8, ArrivesGone
    <2>9. ASSUME NEW n \in 1..Len(toClient), Client!recv_handler(n) PROVE Arrives'
      <3>1. kind' = "daemon" /\ UNCHANGED typed
        BY <2>9 DEF Client!recv_handler, Client!user
      <3> QED BY <1>0, <3>1 DEF Unspoilt
    <2>10. ASSUME NEW n \in 1..Len(toClient), Client!recv_callback(n) PROVE Arrives'
      BY <2>10, ArrivesShown
    <2>11. ASSUME NEW n \in 1..Len(toServer), Client!DaemonAnswers(n) PROVE Arrives'
      <3>1. kind' = "daemon" /\ UNCHANGED typed
        BY <2>11 DEF Client!DaemonAnswers, Client!user
      <3> QED BY <1>0, <3>1 DEF Unspoilt
    <2>12. ASSUME NEW n \in 1..Len(toServer), Client!LinesEchoed(n) PROVE Arrives'
      BY <2>12, ArrivesEchoed
    <2> QED BY <1>2, <2>0, <2>1, <2>2, <2>3, <2>4, <2>5, <2>6, <2>7, <2>8, <2>9, <2>10,
               <2>11, <2>12, <2>13 DEF Client!Next, Client!Handles
  <1> QED BY <1>1, <1>2
      DEF Next, HelperRuns, SigwaitRuns, TimerRuns, ClientRuns, UdpRuns, TermRuns, vars

(* Parts of a sequence put together, by their place.                         *)
LEMMA Parts ==
  ASSUME NEW S, NEW a \in Seq(S), NEW b \in Seq(S)
  PROVE  /\ SubSeq(a \o b, 1, Len(a)) = a
         /\ SubSeq(a \o b, Len(a) + 1, Len(a \o b)) = b
  <1> DEFINE s == a \o b
             n == Len(a)
             v == SubSeq(s, 1, n)
             w == SubSeq(s, n + 1, Len(s))
  <1>1. /\ s \in Seq(S) /\ Len(s) = n + Len(b) /\ n \in Nat /\ Len(b) \in Nat
        /\ \A k \in 1..n : s[k] = a[k]
        /\ \A k \in 1..Len(b) : s[n + k] = b[k]
    BY Joined, LenProperties
  <1>2. n <= Len(s) /\ Len(s) - n = Len(b)
    BY <1>1
  <1> HIDE DEF s, n
  <1>3. /\ v \in Seq(S) /\ Len(v) = n /\ \A k \in 1..n : v[k] = s[k]
        /\ w \in Seq(S) /\ Len(w) = Len(b) /\ \A k \in 1..Len(b) : w[k] = s[n + k]
    BY <1>1, <1>2, CutInTwo
  <1> HIDE DEF v, w
  <1>4. v = a
    BY <1>1, <1>3, SeqEqual DEF n
  <1>5. w = b
    BY <1>1, <1>3, SeqEqual
  <1> QED BY <1>4, <1>5 DEF v, w, n, s

LEMMA EndIsSuffix ==
  ASSUME NEW q \in Seq(Shown), NEW line \in Seq(Shown)
  PROVE  line \in Client!Suffixes(q \o line)
  <1> DEFINE s == q \o line
             l == Len(q) + 1
  <1>1. CASE line = <<>>
    BY <1>1 DEF Client!Suffixes
  <1>2. CASE line # <<>>
    <2>1. Len(s) = Len(q) + Len(line) /\ Len(q) \in Nat /\ Len(line) \in Nat
      BY Joined, LenProperties
    <2>2. Len(line) # 0
      BY <1>2, EmptySeq
    <2>3. SubSeq(s, l, Len(s)) = line
      BY Parts
    <2> HIDE DEF s
    <2>4. l \in 1..Len(s)
      BY <2>1, <2>2
    <2> HIDE DEF l
    <2>5. line \in {SubSeq(s, m, Len(s)) : m \in 1..Len(s)}
      BY <2>3, <2>4
    <2>6. line \in Client!Suffixes(s)
      BY <2>5 DEF Client!Suffixes
    <2> QED BY <2>6 DEF s
  <1> QED BY <1>1, <1>2

(* The lines that stdin_handler of network/client has read are among the lines *)
(* it has sent, whole and in order, while the server is up; what it sends between *)
(* them are ends of lines typed; and what recv_callback shows is a beginning of    *)
(* what was sent.  For any lines that fit stdin_handler's buffer, while nothing    *)
(* else writes over that buffer and the kernel takes what is sent; however the      *)
(* bytes are cut up between read_callback and recv_callback, and whenever the        *)
(* server goes.                                                                     *)
THEOREM TypedLinesComeThrough == Spec => []TypedLinesArrive
  <1>1. ASSUME Arrives, Unspoilt
        PROVE  LET lines == Client!LinesOf(sent)
                   read == SubSeq(typed, 1, Len(typed) - Len(Client!LinesOf(tty)))
               IN  /\ server = "up" => Client!ComeIn(read, lines)
                   /\ \A k \in 1..Len(lines) : \E j \in 1..Len(typed) :
                        lines[k] \in Client!Suffixes(typed[j])
                   /\ Client!IsPrefix(heard, lines)
    <2> DEFINE lines == Client!LinesOf(sent)
               l == Client!LinesOf(tty)
    <2>1. Texts /\ ReadIsSent /\ OnItsWay /\ WholeLinesOf(sent)
      BY <1>1 DEF Arrives
    <2>2. /\ sent \in Seq(Shown) /\ in \in Seq(Shown) /\ toClient \in Seq(Shown)
          /\ lines \in Seq(Seq(Shown)) /\ l \in Seq(Seq(Shown))
      BY <2>1, LineByLine DEF Texts
    <2> HIDE DEF lines, l
    <2>3. server = "up" => Client!ComeIn(SubSeq(typed, 1, Len(typed) - Len(l)), lines)
      <3>1. PICK read \in Seq(ClientTyped) :
              /\ typed = read \o l
              /\ server = "up" => Client!ComeIn(read, lines)
        BY <2>1 DEF ReadIsSent, lines, l
      <3>2. \A x \in ClientTyped : x \in Seq(Shown)
        BY ClientLines
      <3>3. read \in Seq(Seq(Shown))
        BY <3>2
      <3>4. Len(typed) = Len(read) + Len(l) /\ Len(read) \in Nat /\ Len(l) \in Nat
        BY <2>2, <3>1, <3>3, ConcatProperties, LenProperties
      <3>5. SubSeq(typed, 1, Len(read)) = read
        BY <2>2, <3>1, <3>3, Parts
      <3>6. Len(typed) - Len(l) = Len(read)
        BY <3>4
      <3> QED BY <3>1, <3>5, <3>6
    <2>4. ASSUME NEW k \in 1..Len(lines)
          PROVE  \E j \in 1..Len(typed) : lines[k] \in Client!Suffixes(typed[j])
      <3>1. PICK j \in 1..Len(typed), q \in Seq(Shown) : typed[j] = q \o lines[k]
        BY <2>1 DEF WholeLinesOf, EndsOf, lines
      <3>2. lines[k] \in Seq(Shown)
        BY <2>2, ElementOfSeq
      <3>3. lines[k] \in Client!Suffixes(q \o lines[k])
        BY <3>2, EndIsSuffix
      <3> QED BY <3>1, <3>3
    <2>5. Client!IsPrefix(heard, lines)
      <3>1. PICK a \in Seq(Shown), z \in Seq(Shown) :
              /\ sent = Way(a, in, toClient, z)
              /\ Whole(a) /\ Client!LinesOf(a) = heard
        BY <2>1 DEF OnItsWay
      <3> DEFINE y == Joint(toClient, z)
                 x == Joint(in, y)
                 more == Client!LinesOf(x)
      <3>2. y \in Seq(Shown)
        BY <2>2, <3>1, TextsJoin
      <3>3. sent = Joint(a, x)
        BY <3>1 DEF Way
      <3> HIDE DEF y
      <3>4. x \in Seq(Shown)
        BY <2>2, <3>2, TextsJoin
      <3> HIDE DEF x
      <3>5. lines = heard \o more
        BY <3>1, <3>3, <3>4, WholeLines DEF Joint, lines
      <3>6. heard \in Seq(Seq(Shown)) /\ more \in Seq(Seq(Shown))
        BY <3>1, <3>4, LineByLine
      <3> HIDE DEF more
      <3>7. /\ SubSeq(lines, 1, Len(heard)) = heard /\ SubSeq(heard, 1, Len(heard)) = heard
            /\ Len(heard) <= Len(lines)
        <4>1. SubSeq(lines, 1, Len(heard)) = heard
          BY <3>5, <3>6, Parts
        <4>2. SubSeq(heard, 1, Len(heard)) = heard
          BY <3>6, SubSeqFull
        <4>3. Len(lines) = Len(heard) + Len(more) /\ Len(heard) \in Nat /\ Len(more) \in Nat
          BY <3>5, <3>6, ConcatProperties, LenProperties
        <4> QED BY <4>1, <4>2, <4>3
      <3> QED BY <3>7 DEF Client!IsPrefix
    <2> QED BY <2>3, <2>4, <2>5 DEF lines, l
  <1>2. Arrives => TypedLinesArrive
    <2> SUFFICES ASSUME Arrives, kind = "network", spoilt = {}
                 PROVE  LET lines == Client!LinesOf(sent)
                            read == SubSeq(typed, 1, Len(typed) - Len(Client!LinesOf(tty)))
                        IN  /\ server = "up" => Client!ComeIn(read, lines)
                            /\ \A k \in 1..Len(lines) : \E j \in 1..Len(typed) :
                                 lines[k] \in Client!Suffixes(typed[j])
                            /\ Client!IsPrefix(heard, lines)
      BY DEF TypedLinesArrive, Client!TypedLinesArrive
    <2> QED BY <1>1 DEF Unspoilt
  <1> QED BY <1>2, ArrivesInit, ArrivesNext, PTL DEF Spec

=============================================================================
