----------------------------- MODULE MCRot13Conn -----------------------------
(***************************************************************************)
(* Small instances of Rot13Conn: a letter that rot13 moves, and the        *)
(* newline.  The history variable `patient' tells the clients that wait for  *)
(* each echo from the others.                                               *)
(***************************************************************************)
EXTENDS Rot13Conn

VARIABLE patient  \* history: every line was begun when all before it had come
                  \* back, and none is longer than MAX_LINE - 1 bytes

MCChar == {97, 10}
MCJunk == 255

(* The bytes sent since the last newline. *)
LineSoFar(s) ==
  LET ends == {k \in 1..Len(s) : s[k] = NL}
  IN  Len(s) - (IF ends = {} THEN 0 ELSE CHOOSE k \in ends : \A m \in ends : m <= k)

(* The next byte the client sends belongs to a line it may send by now. *)
Waits ==
  /\ LineSoFar(input) = 0 => Len(got) = Len(input)
  /\ LineSoFar(input) + 1 = MAX_LINE - 1 => input'[Len(input')] = NL

MCInit == Init /\ patient = TRUE
MCNext == Next /\ patient' = (patient /\ (input' # input => Waits))
MCSpec == MCInit /\ [][MCNext]_<<vars, patient>> /\ Fairness

(* A client that waits for the echo of each line loses nothing if its lines  *)
(* fit MAX_LINE - 1 bytes (one less than the buffer: the rewind goes to 1).  *)
PatientClientLosesNothing == patient => ~dropped
=============================================================================
