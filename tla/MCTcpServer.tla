----------------------------- MODULE MCTcpServer -----------------------------
(* Small instances of TcpServer. *)
EXTENDS TcpServer

CONSTANTS p1, p2, k1

MCPlain == {p1, p2}
MCCmd == {k1}

(* Two service clients that wait for their replies and send a line with its  *)
(* end, a word without, or the command that stops it all; one client of       *)
(* either port that does as it likes and can fill the buffer at once; and a    *)
(* service client that sends without waiting, so that requests arrive merged,  *)
(* cut anywhere, more than the buffer holds, and "shutdown" in two parts.       *)
MCWorlds ==
  {[clients |-> MCPlain, requests |-> {<<"t", "nl">>, <<"t">>, <<"shut", "down">>},
    maxReq |-> 2, polite |-> TRUE, split |-> FALSE, allocMayFail |-> FALSE],
   [clients |-> {p1, k1}, requests |-> {<<"t", "t", "t">>, <<"shut", "down">>},
    maxReq |-> 1, polite |-> FALSE, split |-> TRUE, allocMayFail |-> TRUE],
   [clients |-> {p1}, requests |-> {<<"t", "nl">>, <<"shut">>, <<"down", "t">>},
    maxReq |-> 3, polite |-> FALSE, split |-> TRUE, allocMayFail |-> FALSE]}

(* The world of waiting clients is as the theorem about them assumes. *)
ASSUME PoliteWorlds
=============================================================================
