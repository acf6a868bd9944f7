----------------------------- MODULE SocketHelpers -----------------------------
(***************************************************************************)
(* The functions of common.c that open a socket for the network programs.  *)
(* Each makes a few calls one after the other; the first that fails undoes *)
(* what the function has done so far and returns -1, and when all have     *)
(* succeeded the address list is freed and the socket returned.  A function *)
(* is therefore a sequence of calls, each with what its failure releases.   *)
(***************************************************************************)
EXTENDS Integers, Sequences

VARIABLES
  helper,  \* the function that runs
  at,      \* how many of its calls have succeeded
  soc,     \* its socket: "none", "open" or "closed"
  info,    \* its address list: "unset", "live" or "freed"
  result,  \* "none" yet, "ok" or "failed"
  wild     \* history: freeaddrinfo of a pointer that was never set

vars == <<helper, at, soc, info, result, wild>>

-----------------------------------------------------------------------------

Call(name, undo) == [name |-> name, undo |-> undo]
Both == {"soc", "info"}

Lookup == <<Call("getaddrinfo", {}), Call("getnameinfo", {"info"})>>
Socket == <<Call("socket", {"info"}), Call("setsockopt", Both)>>

(* Mutant: a bind that fails frees the list and leaves the socket. *)
BindLeaks == <<Call("bind", {"info"})>>

Bind == <<Call("bind", Both)>>
Multicast ==
  <<Call("IP_MULTICAST_IF", Both), Call("IP_MULTICAST_TTL", Both),
    Call("IP_MULTICAST_LOOP", Both)>>

get_sockaddr_info == Lookup
server_socket == Lookup \o Socket \o Bind \o <<Call("listen", Both)>>
client_socket == Lookup \o <<Call("socket", {"info"}), Call("connect", Both)>>
receiver_socket == Lookup \o Socket \o Bind
receiver_socket_multicast == receiver_socket \o <<Call("IP_ADD_MEMBERSHIP", Both)>>

(* The sender looks the address up only after it has its socket. *)
sender_begins ==
  <<Call("socket", {"info"}), Call("setsockopt", {}), Call("getaddrinfo", {})>>
sender_socket == sender_begins \o Bind \o Multicast

(* The sender in the common.c of the clients does not bind, and may do without *)
(* the multicast settings.                                                      *)
sender_socket_client == sender_begins
sender_socket_client_multicast == sender_begins \o Multicast

Calls ==
  [get_sockaddr_info |-> get_sockaddr_info, server_socket |-> server_socket,
   client_socket |-> client_socket, receiver_socket |-> receiver_socket,
   receiver_socket_multicast |-> receiver_socket_multicast,
   sender_socket |-> sender_socket, sender_socket_client |-> sender_socket_client,
   sender_socket_client_multicast |-> sender_socket_client_multicast]

SenderHelpers == {"sender_socket", "sender_socket_client", "sender_socket_client_multicast"}

-----------------------------------------------------------------------------

Init ==
  /\ helper \in DOMAIN Calls
  /\ at = 0 /\ soc = "none" /\ info = "unset" /\ result = "none" /\ wild = FALSE

Running == result = "none"
Todo == SubSeq(Calls[helper], at + 1, Len(Calls[helper]))

Succeeds ==
  /\ Running /\ Todo # <<>>
  /\ at' = at + 1
  /\ soc' = IF Head(Todo).name = "socket" THEN "open" ELSE soc
  /\ info' = IF Head(Todo).name = "getaddrinfo" THEN "live" ELSE info
  /\ UNCHANGED <<helper, result, wild>>

Fails ==
  /\ Running /\ Todo # <<>>
  /\ LET undo == Head(Todo).undo
     IN  /\ soc' = IF "soc" \in undo THEN "closed" ELSE soc
         /\ info' = IF "info" \in undo THEN "freed" ELSE info
         /\ wild' = ("info" \in undo /\ info = "unset")
  /\ result' = "failed"
  /\ UNCHANGED <<helper, at>>

(* The last lines: freeaddrinfo, and the socket is returned. *)
Returns ==
  /\ Running /\ Todo = <<>>
  /\ info' = "freed" /\ result' = "ok"
  /\ UNCHANGED <<helper, at, soc, wild>>

Next == Succeeds \/ Fails \/ Returns

-----------------------------------------------------------------------------

(* Whichever call fails, neither a descriptor nor an address list is left    *)
(* behind, and what is returned is open.  The exception is the sender, which   *)
(* does not clean up before it has both: its first call to fail may free a      *)
(* pointer that was never set, the next two leave the socket open.              *)
NothingLeftBehind ==
  /\ result = "ok" => info = "freed" /\ (soc = "open" <=> helper # "get_sockaddr_info")
  /\ result = "failed" => \/ soc # "open" /\ info # "live" /\ ~wild
                          \/ helper \in SenderHelpers /\ at < 3
=============================================================================
