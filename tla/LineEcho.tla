------------------------------- MODULE LineEcho -------------------------------
(***************************************************************************)
(* What one connection of the rot13 server promises: the bytes it takes    *)
(* come back in order, none twice, and only up to the last released point, *)
(* which is where a newline last arrived.                                  *)
(***************************************************************************)
EXTENDS Integers, Sequences

CONSTANT Out        \* the bytes that may be taken, as they are stored

VARIABLES
  taken,            \* the bytes taken so far
  released,         \* how many of them may go out
  out               \* the bytes that went out

Init == taken = <<>> /\ released = 0 /\ out = <<>>

(* A byte is taken; a newline releases everything up to itself. *)
Take(c) ==
  /\ taken' = Append(taken, c)
  /\ released' = IF c = 10 THEN Len(taken) + 1 ELSE released
  /\ UNCHANGED out

(* A newline that could not be taken still releases what came before it. *)
Release ==
  /\ released' = Len(taken)
  /\ UNCHANGED <<taken, out>>

(* Some of the released bytes go out. *)
Emit(n) ==
  /\ Len(out) + n <= released
  /\ out' = out \o [k \in 1..n |-> taken[Len(out) + k]]
  /\ UNCHANGED <<taken, released>>

Next ==
  \/ \E c \in Out : Take(c)
  \/ Release
  \/ \E n \in 1..released : Emit(n)

Spec == Init /\ [][Next]_<<taken, released, out>>
=============================================================================
