----------------------------- MODULE SharedMemory -----------------------------
(***************************************************************************)
(* shared_memory: a writer process copies lines from its terminal into a   *)
(* POSIX shared-memory object named "test", and a reader process prints    *)
(* the string it finds there when its terminal says "read".  Nothing       *)
(* synchronises them: sprintf stores the characters in no particular order *)
(* and the zero last, and the reader's fprintf looks for the zero first    *)
(* and then copies.  The writer may end (it unlinks the name), be killed   *)
(* (it does not) and start again.                                          *)
(***************************************************************************)
EXTENDS Integers, Sequences, FiniteSets

CONSTANTS
  Texts,       \* lines that can be typed: sequences of characters
  MaxText,     \* bound: their length (sizeof(buf) - 1 in the code)
  Size,        \* the size the writer gives the object
  Objects,     \* bound: objects that are made, one after another: 1..Objects
  MaxReads     \* bound: what one run of the reader prints

ASSUME SharedMemoryAssumption ==
  /\ \A t \in Texts : t \in Seq(Nat \ {0}) /\ Len(t) <= MaxText
  /\ MaxText \in Nat /\ Size \in Nat /\ MaxText < Size
  /\ Objects \in Nat /\ MaxReads \in Nat

VARIABLES
  name,        \* the object "test" stands for, or 0
  made,        \* how many objects were made
  size,        \* size[o]: 0 until ftruncate
  mem,         \* mem[o]: its bytes
  w, wobj,     \* the writer: "off", "opened" (not mapped yet), "idle" or "copy",
               \* and the object it maps
  text, todo,  \* the line it writes, and the positions it has yet to store
  r, robj,     \* the reader: "off", "idle", "scan", "copy", "failed" (no such
               \* object) or "bus" (SIGBUS), and the object it maps
  pos, len,    \* the position it is at; the length the scan found
  line, reads, \* what it has copied of the string so far; how many it printed
  last,        \* history: last[o]: the last line written completely
  torn,        \* history: torn[o]: a writer was killed in the middle of a line
  quiet        \* history: no store since the reader began this string

writer == <<w, wobj, text, todo>>
reader == <<r, robj, pos, len, line, reads>>
object == <<name, made, size, mem, last, torn>>
vars == <<object, writer, reader, quiet>>

Init ==
  /\ name = 0 /\ made = 0
  /\ size = [o \in 1..Objects |-> 0]
  /\ mem = [o \in 1..Objects |-> [k \in 0..Size-1 |-> 0]]
  /\ w = "off" /\ wobj = 0 /\ text = <<>> /\ todo = {}
  /\ r = "off" /\ robj = 0 /\ pos = 0 /\ len = 0 /\ line = <<>> /\ reads = 0
  /\ last = [o \in 1..Objects |-> <<>>]
  /\ torn = [o \in 1..Objects |-> FALSE]
  /\ quiet = TRUE

-----------------------------------------------------------------------------
(* The writer.                                                              *)

(* shm_open with O_CREAT: the object of that name, or a new empty one. *)
WOpen ==
  /\ w = "off" /\ w' = "opened"
  /\ IF name # 0
     THEN wobj' = name /\ UNCHANGED <<name, made>>
     ELSE /\ made < Objects
          /\ made' = made + 1 /\ name' = made + 1 /\ wobj' = made + 1
  /\ UNCHANGED <<size, mem, last, torn, text, todo, reader, quiet>>

(* ftruncate, fstat and mmap. *)
WMap ==
  /\ w = "opened" /\ w' = "idle"
  /\ size' = [size EXCEPT ![wobj] = Size]
  /\ UNCHANGED <<name, made, mem, last, torn, wobj, text, todo, reader, quiet>>

(* read_stdin: a line has come, and sprintf begins. *)
WLine(t) ==
  /\ w = "idle" /\ w' = "copy"
  /\ text' = t /\ todo' = 1..Len(t)
  /\ UNCHANGED <<object, wobj, reader, quiet>>

(* sprintf stores a character; *)
WStore(k) ==
  /\ w = "copy" /\ k \in todo
  /\ mem' = [mem EXCEPT ![wobj][k - 1] = text[k]]
  /\ todo' = todo \ {k}
  /\ quiet' = (quiet /\ robj # wobj)
  /\ UNCHANGED <<name, made, size, last, torn, w, wobj, text, reader>>

(* Mutant: no zero is stored (memcpy of the length). *)
WNoZero ==
  /\ w = "copy" /\ todo = {} /\ w' = "idle" /\ text' = <<>>
  /\ last' = [last EXCEPT ![wobj] = text]
  /\ torn' = [torn EXCEPT ![wobj] = FALSE]
  /\ UNCHANGED <<name, made, size, mem, wobj, todo, reader, quiet>>

(* and then the zero. *)
WZero ==
  /\ w = "copy" /\ todo = {} /\ w' = "idle" /\ text' = <<>>
  /\ mem' = [mem EXCEPT ![wobj][Len(text)] = 0]
  /\ last' = [last EXCEPT ![wobj] = text]
  /\ torn' = [torn EXCEPT ![wobj] = FALSE]
  /\ quiet' = (quiet /\ robj # wobj)
  /\ UNCHANGED <<name, made, size, wobj, todo, reader>>

(* "exit" or SIGINT ends the loop: the name goes, mappings stay. *)
WEnd ==
  /\ w = "idle" /\ w' = "off" /\ wobj' = 0
  /\ name' = 0
  /\ UNCHANGED <<made, size, mem, last, torn, text, todo, reader, quiet>>

(* Any other signal, at any moment: the name stays. *)
WKilled ==
  /\ w # "off" /\ w' = "off" /\ wobj' = 0 /\ text' = <<>> /\ todo' = {}
  /\ torn' = IF w = "copy" THEN [torn EXCEPT ![wobj] = TRUE] ELSE torn
  /\ UNCHANGED <<name, made, size, mem, last, reader, quiet>>

Writer ==
  \/ WOpen \/ WMap \/ WZero \/ WEnd \/ WKilled
  \/ \E t \in Texts : WLine(t)
  \/ \E k \in 1..MaxText : WStore(k)

-----------------------------------------------------------------------------
(* The reader.                                                              *)

(* shm_open without O_CREAT fails if there is no such name; mmap maps it     *)
(* whatever its size.                                                         *)
ROpen ==
  /\ r = "off"
  /\ IF name = 0 THEN r' = "failed" /\ UNCHANGED robj
                 ELSE r' = "idle" /\ robj' = name
  /\ UNCHANGED <<object, writer, pos, len, line, reads, quiet>>

(* read_stdin: "read". *)
RRead ==
  /\ r = "idle" /\ reads < MaxReads
  /\ r' = "scan" /\ pos' = 0 /\ line' = <<>>
  /\ quiet' = (w # "copy" \/ wobj # robj)
  /\ UNCHANGED <<object, writer, robj, len, reads>>

Readable == pos < size[robj]

(* Mutant: the scan looks for a newline, which sprintf never stores. *)
RScanNewline ==
  /\ r = "scan" /\ Readable
  /\ pos' = pos + 1
  /\ UNCHANGED <<object, writer, r, robj, len, line, reads, quiet>>

(* fprintf "%s": look for the zero, *)
RScan ==
  /\ r = "scan" /\ Readable
  /\ IF mem[robj][pos] = 0
     THEN r' = "copy" /\ len' = pos /\ pos' = 0
     ELSE pos' = pos + 1 /\ UNCHANGED <<r, len>>
  /\ UNCHANGED <<object, writer, robj, line, reads, quiet>>

(* then copy so many bytes, whatever they are by now. *)
RCopy ==
  /\ r = "copy" /\ pos < len
  /\ line' = Append(line, mem[robj][pos]) /\ pos' = pos + 1
  /\ UNCHANGED <<object, writer, r, robj, len, reads, quiet>>

RPrint ==
  /\ r = "copy" /\ pos = len
  /\ r' = "idle" /\ reads' = reads + 1
  /\ UNCHANGED <<object, writer, robj, pos, len, line, quiet>>

(* A byte beyond the object's size: SIGBUS. *)
RBus ==
  /\ r = "scan" /\ ~Readable
  /\ r' = "bus"
  /\ UNCHANGED <<object, writer, robj, pos, len, line, reads, quiet>>

(* "exit", SIGINT, or the failure to open; the reader may be started again. *)
REnd ==
  /\ r \in {"idle", "failed", "bus"}
  /\ r' = "off" /\ robj' = 0 /\ pos' = 0 /\ len' = 0 /\ line' = <<>> /\ reads' = 0
  /\ UNCHANGED <<object, writer, quiet>>

Reader == ROpen \/ RRead \/ RScan \/ RCopy \/ RPrint \/ RBus \/ REnd

Next == Writer \/ Reader

Spec == Init /\ [][Next]_vars

-----------------------------------------------------------------------------

(* The reader's scan ends inside the object, behind no more characters than  *)
(* a line can have, however the stores are ordered and wherever a writer was   *)
(* killed: the only way to run into SIGBUS is an object that its writer has    *)
(* not sized yet, at its first byte.                                           *)
ScanStaysInside ==
  /\ r = "bus" => pos = 0
  /\ r = "copy" => len <= MaxText

(* A string printed while nothing was stored is the last one that a writer   *)
(* wrote completely, unless a writer was killed in the middle of the next.     *)
QuietReadIsLast ==
  (r = "copy" /\ pos = len /\ quiet /\ ~torn[robj]) => line = last[robj]
=============================================================================
