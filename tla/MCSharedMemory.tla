--------------------------- MODULE MCSharedMemory ---------------------------
(* A small instance of SharedMemory: lines of up to two characters.          *)
EXTENDS SharedMemory
MCTexts == {<<>>, <<1>>, <<2, 1>>}
=============================================================================
