------------------------------ MODULE MCPrograms ------------------------------
(* A small instance of Programs.                                              *)
EXTENDS Programs

CONSTANTS s1, s2

MCSenders == {s1, s2}

(* Lines that are empty, short, one longer than the other, and longer than    *)
(* the buffer; the two words that mean something.                              *)
MCClientTyped ==
  {<<>>, <<"a">>, <<"a", "b">>, <<"a", "b", "a", "a">>, <<"exit">>, <<"shutdown">>}

(* A line, two in one read, a blank one, and the word. *)
MCSenderTyped ==
  {<<"a", "nl">>, <<"b", "nl", "a", "nl">>, <<"nl">>, <<"shutdown", "nl">>}
=============================================================================
