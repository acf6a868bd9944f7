-------------------------------- MODULE UdpEcho --------------------------------
(***************************************************************************)
(* network/receiver and network/sender: the receiver answers a datagram    *)
(* with its first line and ":OK", the senders send what is typed and show  *)
(* the answers.  The network loses, duplicates and reorders, and a stranger *)
(* may send an empty datagram.  One that sends lines to the receiver is one  *)
(* more sender here; one that sends lines to a sender, which would show them  *)
(* as an answer, is left out.  Handlers run to completion, so each is one     *)
(* step.                                                                     *)
(***************************************************************************)
EXTENDS Integers, Sequences

CONSTANTS
  Senders,   \* the sender processes
  Typed,     \* what one read of a sender's terminal may return
  MaxTyped,  \* bound: reads of the terminals
  MaxDup,    \* bound: duplicated datagrams
  MayHurt,   \* bound: a stranger may send one empty datagram, or a socket fail once
  Receiver, Stranger

VARIABLES
  net,       \* the datagrams in flight: from, to, data
  status,    \* the receiver: "running", "ended", or "undefined" once it has
             \* freed its event, which is not on the heap
  rsoc,      \* its socket and event: "open" or "closed"
  ssoc,      \* ssoc[s]: the socket of sender s, "open", "closed" (its event
             \* stays) or "ended" with its process
  said,      \* said[s]: history: what s has sent
  shown,     \* shown[s]: history: what s has shown
  typed, dups,  \* counters of the bounds
  told,      \* history: the receiver was told to end
  hurt       \* history: an empty datagram was sent or a socket failed

receiver == <<status, rsoc, told>>
sender == <<ssoc, shown>>
vars == <<net, receiver, sender, said, typed, dups, hurt>>

Init ==
  /\ net = {} /\ status = "running" /\ rsoc = "open"
  /\ ssoc = [s \in Senders |-> "open"]
  /\ said = [s \in Senders |-> {}] /\ shown = [s \in Senders |-> {}]
  /\ typed = 0 /\ dups = 0 /\ told = FALSE /\ hurt = FALSE

-----------------------------------------------------------------------------
(* The network and the strangers (external).                                *)

Datagram(from, to, data) == [from |-> from, to |-> to, data |-> data]

Lose(d) ==
  /\ net' = net \ {d}
  /\ UNCHANGED <<receiver, sender, said, typed, dups, hurt>>

(* d arrives, with what its receiver sends; a copy may stay behind. *)
Deliver(d, answers) ==
  \/ net' = (net \ {d}) \cup answers /\ UNCHANGED dups
  \/ dups < MaxDup /\ dups' = dups + 1 /\ net' = net \cup answers

Hurts == MayHurt /\ ~hurt /\ hurt' = TRUE

Empty(to) ==
  /\ Hurts
  /\ net' = net \cup {Datagram(Stranger, to, <<>>)}
  /\ UNCHANGED <<receiver, sender, said, typed, dups>>

-----------------------------------------------------------------------------

(* strpbrk cuts what was received at its first newline. *)
FirstLine(data) ==
  LET ends == {k \in 1..Len(data) : data[k] = "nl"}
  IN  IF ends = {} THEN data
      ELSE SubSeq(data, 1, (CHOOSE k \in ends : \A m \in ends : k <= m) - 1)

Answer(data) == FirstLine(data) \o <<"ok", "nl">>

-----------------------------------------------------------------------------
(* receiver                                                                 *)

Up == status = "running" /\ rsoc = "open"

(* Mutant: a blank line is taken for the end of the input. *)
recv_handler_blank(d) ==
  /\ Up /\ d.to = Receiver
  /\ IF FirstLine(d.data) \in {<<>>, <<"shutdown">>}
     THEN /\ rsoc' = "closed" /\ Deliver(d, {})
          /\ IF FirstLine(d.data) # <<>> THEN status' = "ended" /\ told' = TRUE
                                         ELSE UNCHANGED <<status, told>>
     ELSE Deliver(d, {Datagram(Receiver, d.from, Answer(d.data))}) /\ UNCHANGED receiver
  /\ UNCHANGED <<sender, said, typed, hurt>>

(* recvfrom returns a datagram.  An empty one is taken for the end of the    *)
(* input, which closes the socket and leaves the loop running.                *)
recv_handler(d) ==
  /\ Up /\ d.to = Receiver
  /\ IF d.data = <<>> \/ FirstLine(d.data) = <<"shutdown">>
     THEN /\ rsoc' = "closed" /\ Deliver(d, {})
          /\ IF d.data # <<>> THEN status' = "ended" /\ told' = TRUE
                              ELSE UNCHANGED <<status, told>>
     ELSE Deliver(d, {Datagram(Receiver, d.from, Answer(d.data))}) /\ UNCHANGED receiver
  /\ UNCHANGED <<sender, said, typed, hurt>>

(* sendto fails: the event and the socket go. *)
recv_handler_sendto_fails(d) ==
  /\ Hurts /\ Up /\ d.to = Receiver
  /\ d.data # <<>> /\ FirstLine(d.data) # <<"shutdown">>
  /\ rsoc' = "closed"
  /\ Deliver(d, {})
  /\ UNCHANGED <<status, told, sender, said, typed>>

(* recvfrom fails: the event, a variable of main, is freed as well. *)
recv_handler_fails ==
  /\ Hurts /\ Up
  /\ rsoc' = "closed" /\ status' = "undefined"
  /\ UNCHANGED <<net, told, sender, said, typed, dups>>

(* read_stdin reads "exit", or SIGINT comes. *)
Exit ==
  /\ status = "running" /\ status' = "ended" /\ told' = TRUE
  /\ UNCHANGED <<net, rsoc, sender, said, typed, dups, hurt>>

-----------------------------------------------------------------------------
(* sender                                                                   *)

(* What read returned goes out as it is, several lines too if the terminal   *)
(* is a pipe. *)
stdin_handler(s, text) ==
  /\ ssoc[s] = "open" /\ typed < MaxTyped
  /\ typed' = typed + 1
  /\ net' = net \cup {Datagram(s, Receiver, text)}
  /\ said' = [said EXCEPT ![s] = @ \cup {text}]
  /\ UNCHANGED <<receiver, sender, dups, hurt>>

(* recv: an empty datagram closes the socket and leaves its event. *)
sender_recv_handler(s, d) ==
  /\ ssoc[s] = "open" /\ d.to = s
  /\ IF d.data = <<>>
     THEN ssoc' = [ssoc EXCEPT ![s] = "closed"] /\ UNCHANGED shown
     ELSE shown' = [shown EXCEPT ![s] = @ \cup {FirstLine(d.data)}] /\ UNCHANGED ssoc
  /\ Deliver(d, {})
  /\ UNCHANGED <<receiver, said, typed, hurt>>

(* recv or sendto fails, the latter on a closed socket, too:                 *)
(* event_loopexit(NULL) is for the base of event_init, which this program     *)
(* never made.                                                                *)
sender_recv_fails(s) ==
  /\ Hurts /\ ssoc[s] = "open"
  /\ ssoc' = [ssoc EXCEPT ![s] = "closed"]
  /\ UNCHANGED <<net, receiver, shown, said, typed, dups>>

stdin_handler_fails(s) ==
  /\ \/ ssoc[s] = "open" /\ Hurts
     \/ ssoc[s] = "closed" /\ UNCHANGED hurt
  /\ typed < MaxTyped /\ typed' = typed + 1
  /\ \E end \in {ssoc[s], "ended"} : ssoc' = [ssoc EXCEPT ![s] = end]
  /\ UNCHANGED <<net, receiver, shown, said, dups>>

sender_sig_int(s) ==
  /\ ssoc[s] # "ended" /\ ssoc' = [ssoc EXCEPT ![s] = "ended"]
  /\ UNCHANGED <<net, receiver, shown, said, typed, dups, hurt>>

Next ==
  \/ \E s \in Senders : sender_recv_fails(s) \/ stdin_handler_fails(s) \/ sender_sig_int(s)
  \/ \E d \in net : Lose(d) \/ recv_handler(d) \/ recv_handler_sendto_fails(d)
  \/ \E to \in Senders \cup {Receiver} : Empty(to)
  \/ \E s \in Senders, text \in Typed : stdin_handler(s, text)
  \/ \E s \in Senders, d \in net : sender_recv_handler(s, d)
  \/ recv_handler_fails \/ Exit

-----------------------------------------------------------------------------

(* As long as no empty datagram comes and no socket fails, whatever is lost, *)
(* repeated or overtaken, the receiver serves until it is told to end, every   *)
(* sender hears until it is ended, and what a sender shows is the answer to the  *)
(* first line of something it sent itself: of the lines behind the first in     *)
(* one datagram it hears nothing.                                                *)
HealthyService ==
  ~hurt =>
    /\ rsoc = "closed" \/ status # "running" => told
    /\ \A s \in Senders :
         /\ ssoc[s] # "closed"
         /\ \A line \in shown[s] : \E text \in said[s] : line = Append(FirstLine(text), "ok")
=============================================================================
