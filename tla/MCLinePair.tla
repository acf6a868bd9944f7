------------------------------ MODULE MCLinePair ------------------------------
(* Small instances of LinePair: a line, one that is longer than the receiver's *)
(* buffer, a line end in the middle, a zero, and "shutdown"; commands that     *)
(* print nothing, a line, or more than the receiver takes.                     *)
EXTENDS LinePair

CONSTANTS s1, s2

MCSymmetry == Permutations({s1, s2})
MCSenders == {s1, s2}
MCTyped == {<<"x", "nl">>, <<"x", "x", "nl">>, <<"nl", "x">>, <<"x", "nul">>, <<"shut">>}
MCOutputs == {<<>>, <<"x", "nl">>, <<"x", "x", "x">>}
=============================================================================
