---------------------------- MODULE MCEchoServers ----------------------------
(* Small instances of EchoServers.                                            *)
EXTENDS EchoServers

CONSTANTS c1, c2, c3

(* Three clients of the rot13 server, and a limit below and above FD_SETSIZE. *)
MCConns == {c1, c2, c3}
MCLimits == {2, 5}

(* One client of the line server with a stream of bytes, and one that only    *)
(* comes and goes.                                                             *)
MCClients == {c1, c2}
MCLineMaxBytes == [c \in MCClients |-> IF c = c1 THEN 4 ELSE 0]

(* Two letters, to tell an order. *)
MCLetters == {97, 98}
=============================================================================
