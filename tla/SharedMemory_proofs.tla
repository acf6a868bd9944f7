------------------------- MODULE SharedMemory_proofs -------------------------
(* Proofs about SharedMemory, for every set of lines and every size that is  *)
(* larger than the longest of them.                                           *)
EXTENDS SharedMemory, SequenceTheorems, TLAPS

Objs == 1..Objects
Lines == Texts \cup {<<>>}

ObjectTypes ==
  /\ made \in 0..Objects /\ name \in 0..made
  /\ size \in [Objs -> {0, Size}]
  /\ mem \in [Objs -> [0..Size-1 -> Nat]]
  /\ last \in [Objs -> Lines] /\ torn \in [Objs -> BOOLEAN]
WriterTypes ==
  /\ w \in {"off", "opened", "idle", "copy"} /\ wobj \in 0..Objects
  /\ text \in Lines /\ todo \subseteq 1..Len(text)
ReaderTypes ==
  /\ r \in {"off", "idle", "scan", "copy", "failed", "bus"} /\ robj \in 0..Objects
  /\ pos \in Nat /\ len \in Nat /\ line \in Seq(Nat)
TypeOK == ObjectTypes /\ WriterTypes /\ ReaderTypes /\ quiet \in BOOLEAN

Reading == r \in {"scan", "copy"}
Copying(o) == w = "copy" /\ wobj = o

(* The strengthening of ScanStaysInside that a step preserves: no store goes  *)
(* behind the longest line, so that every object ends in zeros, and a scan has *)
(* met none of them; and it gets beyond the first byte in a sized object only.  *)
Mapped ==
  /\ w # "off" => wobj # 0
  /\ r \in {"idle", "scan", "copy", "bus"} => robj # 0
ZeroBehind == \A o \in Objs : \A k \in MaxText..(Size-1) : mem[o][k] = 0
ScanInside ==
  /\ r = "scan" => pos <= MaxText /\ (pos > 0 => size[robj] = Size)
  /\ r = "copy" => len <= MaxText /\ pos <= len
  /\ r = "bus" => pos = 0

Inside == Mapped /\ ZeroBehind /\ ScanInside

(* The strengthening of QuietReadIsLast: an object nobody is writing holds    *)
(* the last line written, what is stored of a line agrees with it, and a quiet *)
(* reader has so far met and copied what the last line has there.              *)
Holds(o) ==
  /\ \A k \in 1..Len(last[o]) : mem[o][k - 1] = last[o][k]
  /\ mem[o][Len(last[o])] = 0
Written == \A o \in Objs : ~torn[o] /\ ~Copying(o) => Holds(o)
Stored ==
  w = "copy" => \A k \in 1..Len(text) : k \notin todo => mem[wobj][k - 1] = text[k]
QuietRead ==
  /\ Reading /\ quiet /\ ~torn[robj] => Holds(robj)
  /\ r = "scan" /\ quiet => \A k \in 0..(pos - 1) : mem[robj][k] # 0
  /\ r = "scan" => line = <<>>
  /\ r = "copy" => Len(line) = pos
  /\ r = "copy" /\ quiet /\ ~torn[robj] =>
       len = Len(last[robj]) /\ \A k \in 1..pos : line[k] = last[robj][k]

LastLine == Written /\ Stored /\ QuietRead

-----------------------------------------------------------------------------

(* What the proofs use of the constants. *)
LEMMA Constants ==
  /\ MaxText \in Nat /\ Size \in Nat /\ MaxText < Size /\ Objects \in Nat
  /\ \A t \in Lines : t \in Seq(Nat \ {0}) /\ Len(t) \in 0..MaxText
  <1>1. \A t \in Lines : t \in Seq(Nat \ {0}) /\ Len(t) <= MaxText
    <2>1. <<>> \in Seq(Nat \ {0}) /\ Len(<<>>) = 0
      BY EmptySeq
    <2>2. \A t \in Texts : t \in Seq(Nat \ {0}) /\ Len(t) <= MaxText
      BY SharedMemoryAssumption
    <2>3. 0 <= MaxText
      BY SharedMemoryAssumption
    <2> QED BY <2>1, <2>2, <2>3 DEF Lines
  <1>2. \A t \in Lines : Len(t) \in Nat
    BY <1>1, LenProperties
  <1> QED BY <1>1, <1>2, SharedMemoryAssumption

LEMMA TypeInit == Init => TypeOK
  BY Constants, EmptySeq
  DEF Init, TypeOK, ObjectTypes, WriterTypes, ReaderTypes, Objs, Lines

(* What a store changes. *)
LEMMA StoreAt ==
  ASSUME TypeOK, NEW o \in Objs, NEW i \in 0..Size-1, NEW v \in Nat,
         mem' = [mem EXCEPT ![o][i] = v]
  PROVE  /\ mem' \in [Objs -> [0..Size-1 -> Nat]]
         /\ mem'[o][i] = v
         /\ \A p \in Objs \ {o} : mem'[p] = mem[p]
         /\ \A p \in Objs : \A k \in 0..Size-1 :
              <<p, k>> # <<o, i>> => mem'[p][k] = mem[p][k]
  <1>1. mem' = [mem EXCEPT ![o] = [mem[o] EXCEPT ![i] = v]]
    OBVIOUS
  <1>2. mem[o] \in [0..Size-1 -> Nat]
    BY DEF TypeOK, ObjectTypes
  <1>3. [mem[o] EXCEPT ![i] = v] \in [0..Size-1 -> Nat]
    BY <1>2
  <1>4. /\ mem' \in [Objs -> [0..Size-1 -> Nat]] /\ mem'[o] = [mem[o] EXCEPT ![i] = v]
        /\ \A p \in Objs \ {o} : mem'[p] = mem[p]
    BY <1>1, <1>3 DEF TypeOK, ObjectTypes
  <1>5. mem'[o][i] = v /\ \A k \in 0..Size-1 : k # i => mem'[o][k] = mem[o][k]
    BY <1>2, <1>4
  <1> QED BY <1>4, <1>5

(* The place of a character, and that of the zero, are in front of the last   *)
(* byte a line leaves alone.                                                  *)
LEMMA StorePlaces ==
  ASSUME TypeOK
  PROVE  /\ Len(text) \in 0..MaxText /\ Len(text) \in 0..Size-1
         /\ \A k \in todo : k - 1 \in 0..MaxText-1 /\ k - 1 \in 0..Size-1 /\ text[k] \in Nat
  <1>1. text \in Seq(Nat \ {0}) /\ Len(text) \in 0..MaxText
    BY Constants DEF TypeOK, WriterTypes
  <1>2. \A k \in 1..Len(text) : text[k] \in Nat
    BY <1>1, ElementOfSeq
  <1> QED BY <1>1, <1>2, Constants DEF TypeOK, WriterTypes

LEMMA TypeNext == TypeOK /\ Inside /\ [Next]_vars => TypeOK'
  <1> SUFFICES ASSUME TypeOK, Inside, [Next]_vars PROVE TypeOK'
    OBVIOUS
  <1>0. ObjectTypes /\ WriterTypes /\ ReaderTypes /\ quiet \in BOOLEAN /\ Mapped
    BY DEF TypeOK, Inside
  <1>a. UNCHANGED object => ObjectTypes'
    BY <1>0 DEF ObjectTypes, object
  <1>b. UNCHANGED writer => WriterTypes'
    BY <1>0 DEF WriterTypes, writer
  <1>c. UNCHANGED reader => ReaderTypes'
    BY <1>0 DEF ReaderTypes, reader
  <1>d. w # "off" => wobj \in Objs
    BY <1>0, Constants DEF WriterTypes, Mapped, Objs
  <1>1. CASE WOpen
    <2>1. ObjectTypes'
      BY <1>0, <1>1, Constants DEF WOpen, ObjectTypes
    <2>2. WriterTypes'
      BY <1>0, <1>1, Constants DEF WOpen, ObjectTypes, WriterTypes
    <2> QED BY <1>0, <1>1, <1>c, <2>1, <2>2 DEF WOpen, TypeOK
  <1>2. CASE WMap
    <2>1. ObjectTypes'
      BY <1>0, <1>2, <1>d DEF WMap, ObjectTypes
    <2>2. WriterTypes'
      BY <1>0, <1>2 DEF WMap, WriterTypes
    <2> QED BY <1>0, <1>2, <1>c, <2>1, <2>2 DEF WMap, TypeOK
  <1>3. ASSUME NEW t \in Texts, WLine(t) PROVE TypeOK'
    <2>1. WriterTypes'
      BY <1>0, <1>3 DEF WLine, WriterTypes, Lines
    <2> QED BY <1>0, <1>3, <1>a, <1>c, <2>1 DEF WLine, TypeOK
  <1>4. ASSUME NEW k \in 1..MaxText, WStore(k) PROVE TypeOK'
    <2>1. mem' \in [Objs -> [0..Size-1 -> Nat]]
      BY <1>4, <1>d, StorePlaces, StoreAt DEF WStore
    <2>2. ObjectTypes'
      BY <1>0, <1>4, <2>1 DEF WStore, ObjectTypes
    <2>3. WriterTypes'
      BY <1>0, <1>4 DEF WStore, WriterTypes
    <2> QED BY <1>0, <1>4, <1>c, <2>2, <2>3 DEF WStore, TypeOK
  <1>5. CASE WZero
    <2>1. mem' \in [Objs -> [0..Size-1 -> Nat]]
      BY <1>5, <1>d, StorePlaces, StoreAt DEF WZero
    <2>2. ObjectTypes'
      BY <1>0, <1>5, <2>1 DEF WZero, ObjectTypes, WriterTypes
    <2>3. WriterTypes'
      BY <1>0, <1>5 DEF WZero, WriterTypes, Lines
    <2> QED BY <1>0, <1>5, <1>c, <2>2, <2>3 DEF WZero, TypeOK
  <1>6. CASE WEnd
    <2>1. ObjectTypes'
      BY <1>0, <1>6 DEF WEnd, ObjectTypes
    <2>2. WriterTypes'
      BY <1>0, <1>6, Constants DEF WEnd, WriterTypes
    <2> QED BY <1>0, <1>6, <1>c, <2>1, <2>2 DEF WEnd, TypeOK
  <1>7. CASE WKilled
    <2>1. torn' \in [Objs -> BOOLEAN]
      BY <1>0, <1>7 DEF WKilled, ObjectTypes
    <2>2. ObjectTypes'
      BY <1>0, <1>7, <2>1 DEF WKilled, ObjectTypes
    <2>3. WriterTypes'
      BY <1>0, <1>7, Constants DEF WKilled, WriterTypes, Lines
    <2> QED BY <1>0, <1>7, <1>c, <2>2, <2>3 DEF WKilled, TypeOK
  <1>8. CASE Reader
    <2>0. UNCHANGED <<object, writer>>
      BY <1>8 DEF Reader, ROpen, RRead, RScan, RCopy, RPrint, RBus, REnd
    <2>1. quiet' \in BOOLEAN
      BY <1>0, <1>8 DEF Reader, ROpen, RRead, RScan, RCopy, RPrint, RBus, REnd
    <2>2. ReaderTypes'
      <3>1. CASE ROpen
        BY <1>0, <3>1, Constants DEF ROpen, ReaderTypes, ObjectTypes
      <3>2. CASE RRead
        BY <1>0, <3>2, EmptySeq DEF RRead, ReaderTypes
      <3>3. CASE RScan
        BY <1>0, <3>3 DEF RScan, ReaderTypes
      <3>4. CASE RCopy
        <4>1. robj \in Objs /\ pos \in 0..Size-1
          BY <1>0, <3>4, Constants
             DEF RCopy, Objs, Inside, ScanInside, Mapped, ReaderTypes
        <4>2. mem[robj][pos] \in Nat
          BY <1>0, <4>1 DEF ObjectTypes
        <4>3. line' \in Seq(Nat)
          BY <1>0, <3>4, <4>2, AppendProperties DEF RCopy, ReaderTypes
        <4> QED BY <1>0, <3>4, <4>3 DEF RCopy, ReaderTypes
      <3>5. CASE RPrint \/ RBus
        BY <1>0, <3>5 DEF RPrint, RBus, ReaderTypes
      <3>6. CASE REnd
        BY <1>0, <3>6, EmptySeq, Constants DEF REnd, ReaderTypes
      <3> QED BY <1>8, <3>1, <3>2, <3>3, <3>4, <3>5, <3>6 DEF Reader
    <2> QED BY <1>a, <1>b, <2>0, <2>1, <2>2 DEF TypeOK
  <1>9. CASE UNCHANGED vars
    BY <1>0, <1>9, <1>a, <1>b, <1>c DEF vars, TypeOK
  <1> QED BY <1>1, <1>2, <1>3, <1>4, <1>5, <1>6, <1>7, <1>8, <1>9 DEF Next, Writer

-----------------------------------------------------------------------------
(* The scan stays inside the object.                                         *)

LEMMA InsideInit == Init => Inside
  BY Constants DEF Init, Inside, Mapped, ZeroBehind, ScanInside, Objs

LEMMA MappedNext == TypeOK /\ Mapped /\ [Next]_vars => Mapped'
  <1> SUFFICES ASSUME TypeOK, Mapped, [Next]_vars PROVE Mapped'
    OBVIOUS
  <1>1. made \in 0..Objects
    BY DEF TypeOK, ObjectTypes
  <1>2. CASE Writer
    <2>1. UNCHANGED reader
      BY <1>2 DEF Writer, WOpen, WMap, WLine, WStore, WZero, WEnd, WKilled
    <2>2. w' # "off" => wobj' # 0
      <3>1. CASE WOpen
        BY <1>1, <3>1, Constants DEF WOpen
      <3>2. CASE WMap \/ WZero \/ WEnd \/ WKilled
        BY <3>2 DEF Mapped, WMap, WZero, WEnd, WKilled
      <3>3. ASSUME NEW t \in Texts, WLine(t) PROVE w' # "off" => wobj' # 0
        BY <3>3 DEF Mapped, WLine
      <3>4. ASSUME NEW k \in 1..MaxText, WStore(k) PROVE w' # "off" => wobj' # 0
        BY <3>4 DEF Mapped, WStore
      <3> QED BY <1>2, <3>1, <3>2, <3>3, <3>4 DEF Writer
    <2> QED BY <2>1, <2>2 DEF Mapped, reader
  <1>3. CASE Reader
    <2>1. UNCHANGED writer
      BY <1>3 DEF Reader, ROpen, RRead, RScan, RCopy, RPrint, RBus, REnd
    <2>2. r' \in {"idle", "scan", "copy", "bus"} => robj' # 0
      BY <1>3 DEF Mapped, Reader, ROpen, RRead, RScan, RCopy, RPrint, RBus, REnd
    <2> QED BY <2>1, <2>2 DEF Mapped, writer
  <1>4. CASE UNCHANGED vars
    BY <1>4 DEF vars, writer, reader, Mapped
  <1> QED BY <1>2, <1>3, <1>4 DEF Next

LEMMA ZeroBehindNext == TypeOK /\ Mapped /\ ZeroBehind /\ [Next]_vars => ZeroBehind'
  <1> SUFFICES ASSUME TypeOK, Mapped, ZeroBehind, [Next]_vars PROVE ZeroBehind'
    OBVIOUS
  <1>1. ASSUME NEW o \in Objs, NEW i \in 0..Size-1, NEW v \in Nat,
               i < MaxText \/ v = 0, mem' = [mem EXCEPT ![o][i] = v]
        PROVE  ZeroBehind'
    <2> SUFFICES ASSUME NEW p \in Objs, NEW k \in MaxText..(Size-1)
                 PROVE  mem'[p][k] = 0
      BY DEF ZeroBehind
    <2>1. k \in 0..Size-1 /\ mem[p][k] = 0
      BY Constants DEF ZeroBehind
    <2>2. CASE p = o /\ k = i
      <3>1. mem'[o][i] = v
        BY <1>1, StoreAt
      <3>2. v = 0
        BY <1>1, <2>2, Constants
      <3> QED BY <2>2, <3>1, <3>2
    <2>3. CASE <<p, k>> # <<o, i>>
      BY <1>1, <2>1, <2>3, StoreAt
    <2> QED BY <2>2, <2>3
  <1>2. w # "off" => wobj \in Objs
    BY Constants DEF TypeOK, WriterTypes, Mapped, Objs
  <1>3. ASSUME NEW k \in 1..MaxText, WStore(k) PROVE ZeroBehind'
    <2>1. wobj \in Objs /\ k \in todo /\ mem' = [mem EXCEPT ![wobj][k - 1] = text[k]]
      BY <1>2, <1>3 DEF WStore
    <2>2. k - 1 \in 0..Size-1 /\ k - 1 < MaxText /\ text[k] \in Nat
      BY <2>1, StorePlaces, Constants
    <2> QED BY <1>1, <2>1, <2>2
  <1>4. CASE WZero
    <2>1. wobj \in Objs /\ mem' = [mem EXCEPT ![wobj][Len(text)] = 0]
      BY <1>2, <1>4 DEF WZero
    <2> QED BY <1>1, <2>1, StorePlaces
  <1>5. CASE UNCHANGED mem
    BY <1>5 DEF ZeroBehind
  <1>6. WOpen \/ WMap \/ WEnd \/ WKilled \/ Reader \/ UNCHANGED vars => UNCHANGED mem
    BY DEF WOpen, WMap, WEnd, WKilled, Reader, ROpen, RRead, RScan, RCopy,
           RPrint, RBus, REnd, vars, object
  <1>7. \A t \in Texts : WLine(t) => UNCHANGED mem
    BY DEF WLine, object
  <1> QED BY <1>3, <1>4, <1>5, <1>6, <1>7 DEF Next, Writer

LEMMA ScanInsideNext == TypeOK /\ Inside /\ [Next]_vars => ScanInside'
  <1> SUFFICES ASSUME TypeOK, Inside, [Next]_vars PROVE ScanInside'
    OBVIOUS
  <1>0. ScanInside /\ pos \in Nat /\ (r \in {"scan", "copy", "bus"} => robj \in Objs)
    BY Constants DEF Inside, Mapped, TypeOK, ReaderTypes, Objs
  <1>1. CASE Writer
    <2>1. UNCHANGED reader
      BY <1>1 DEF Writer, WOpen, WMap, WLine, WStore, WZero, WEnd, WKilled
    <2>2. ASSUME NEW o \in Objs, size[o] = Size PROVE size'[o] = Size
      <3>1. CASE WMap
        BY <2>2, <3>1 DEF WMap, TypeOK, ObjectTypes
      <3>2. CASE UNCHANGED size
        BY <2>2, <3>2
      <3> QED BY <1>1, <3>1, <3>2
              DEF Writer, WOpen, WLine, WStore, WZero, WEnd, WKilled, object
    <2> QED BY <1>0, <2>1, <2>2 DEF ScanInside, reader
  <1>2. CASE Reader
    <2>0. UNCHANGED size
      BY <1>2 DEF Reader, ROpen, RRead, RScan, RCopy, RPrint, RBus, REnd, object
    <2>1. CASE ROpen \/ RRead \/ RPrint \/ REnd
      BY <2>0, <2>1, Constants DEF ROpen, RRead, RPrint, REnd, ScanInside
    <2>2. CASE RScan
      <3>1. robj \in Objs /\ pos \in 0..MaxText /\ pos < size[robj]
        BY <1>0, <2>2, Constants DEF RScan, Readable, ScanInside
      <3>2. size[robj] = Size
        BY <3>1 DEF TypeOK, ObjectTypes
      <3>3. pos = MaxText => mem[robj][pos] = 0
        BY <3>1, Constants DEF Inside, ZeroBehind
      <3> QED BY <2>0, <2>2, <3>1, <3>2, <3>3, Constants DEF RScan, ScanInside
    <2>3. CASE RCopy
      BY <1>0, <2>0, <2>3 DEF RCopy, ScanInside, TypeOK, ReaderTypes
    <2>4. CASE RBus
      <3>1. robj \in Objs /\ pos \in 0..MaxText /\ ~(pos < size[robj])
            /\ (pos > 0 => size[robj] = Size)
        BY <1>0, <2>4, Constants DEF RBus, Readable, ScanInside
      <3>2. pos = 0
        BY <3>1, Constants
      <3> QED BY <2>4, <3>2 DEF RBus, ScanInside
    <2> QED BY <1>2, <2>1, <2>2, <2>3, <2>4 DEF Reader
  <1>3. CASE UNCHANGED vars
    BY <1>0, <1>3 DEF vars, object, reader, ScanInside
  <1> QED BY <1>1, <1>2, <1>3 DEF Next

LEMMA InsideInvariance == Spec => [](TypeOK /\ Inside)
  <1>1. Init => TypeOK /\ Inside
    BY TypeInit, InsideInit
  <1>2. TypeOK /\ Inside /\ [Next]_vars => (TypeOK /\ Inside)'
    BY TypeNext, MappedNext, ZeroBehindNext, ScanInsideNext DEF Inside
  <1> QED BY <1>1, <1>2, PTL DEF Spec

(* fprintf's search for the zero ends inside the object behind at most as     *)
(* many characters as a line has, whatever the order of sprintf's stores and   *)
(* wherever a writer was killed; only an object without a size stops it, at     *)
(* its first byte.                                                              *)
THEOREM ScanNeverLeavesTheObject == Spec => []ScanStaysInside
  <1>1. TypeOK /\ Inside => ScanStaysInside
    BY DEF Inside, ScanInside, ScanStaysInside
  <1> QED BY <1>1, InsideInvariance, PTL

-----------------------------------------------------------------------------
(* A quiet reader prints the last line.                                      *)

LEMMA LastLineInit == Init => LastLine
  <1> SUFFICES ASSUME Init PROVE LastLine
    OBVIOUS
  <1>1. ASSUME NEW o \in Objs PROVE Holds(o)
    <2>1. last[o] = <<>> /\ mem[o] = [k \in 0..Size-1 |-> 0]
      BY DEF Init, Objs
    <2>2. 0 \in 0..Size-1 /\ Len(<<>>) = 0
      BY Constants, EmptySeq
    <2> QED BY <2>1, <2>2 DEF Holds
  <1> QED BY <1>1 DEF Init, LastLine, Written, Stored, QuietRead, Reading

(* An object whose bytes and last line stay still holds it. *)
LEMMA HoldsFrame ==
  ASSUME NEW o, Holds(o), mem'[o] = mem[o], last'[o] = last[o]
  PROVE  Holds(o)'
  BY DEF Holds

LEMMA StoredNext == TypeOK /\ Mapped /\ Stored /\ [Next]_vars => Stored'
  <1> SUFFICES ASSUME TypeOK, Mapped, Stored, [Next]_vars, w' = "copy",
                      NEW j \in 1..Len(text'), j \notin todo'
               PROVE  mem'[wobj'][j - 1] = text'[j]
    BY DEF Stored
  <1>0. w # "off" => wobj \in Objs
    BY Constants DEF TypeOK, WriterTypes, Mapped, Objs
  <1>1. ASSUME NEW t \in Texts, WLine(t) PROVE FALSE
    BY <1>1 DEF WLine
  <1>2. ASSUME NEW k \in 1..MaxText, WStore(k) PROVE mem'[wobj'][j - 1] = text'[j]
    <2>1. /\ w = "copy" /\ k \in todo /\ todo' = todo \ {k} /\ wobj \in Objs
          /\ mem' = [mem EXCEPT ![wobj][k - 1] = text[k]] /\ UNCHANGED <<wobj, text>>
      BY <1>0, <1>2 DEF WStore
    <2>2. k - 1 \in 0..Size-1 /\ text[k] \in Nat /\ Len(text) \in 0..Size-1
      BY <2>1, StorePlaces
    <2>3. CASE j = k
      <3>1. mem'[wobj][k - 1] = text[k]
        BY <2>1, <2>2, StoreAt
      <3> QED BY <2>1, <2>3, <3>1
    <2>4. CASE j # k
      <3>1. j \in 1..Len(text) /\ j \notin todo
        BY <2>1, <2>4
      <3>2. mem[wobj][j - 1] = text[j]
        BY <2>1, <3>1 DEF Stored
      <3>3. j - 1 \in 0..Size-1 /\ j - 1 # k - 1
        BY <2>1, <2>2, <2>4, <3>1, Constants
      <3>4. mem'[wobj][j - 1] = mem[wobj][j - 1]
        BY <2>1, <2>2, <3>3, StoreAt
      <3> QED BY <2>1, <3>2, <3>4
    <2> QED BY <2>3, <2>4
  <1>3. ~WOpen /\ ~WMap /\ ~WZero /\ ~WEnd /\ ~WKilled
    BY DEF WOpen, WMap, WZero, WEnd, WKilled
  <1>4. CASE Reader \/ UNCHANGED vars
    <2>1. UNCHANGED <<w, wobj, text, todo, mem>>
      BY <1>4 DEF Reader, ROpen, RRead, RScan, RCopy, RPrint, RBus, REnd, vars,
                  writer, object
    <2> QED BY <2>1 DEF Stored
  <1> QED BY <1>1, <1>2, <1>3, <1>4 DEF Next, Writer

LEMMA WrittenNext ==
  TypeOK /\ Mapped /\ Written /\ Stored /\ [Next]_vars => Written'
  <1> SUFFICES ASSUME TypeOK, Mapped, Written, Stored, [Next]_vars,
                      NEW o \in Objs, ~torn'[o], ~Copying(o)'
               PROVE  Holds(o)'
    BY DEF Written
  <1>0. w # "off" => wobj \in Objs
    BY Constants DEF TypeOK, WriterTypes, Mapped, Objs
  <1>a. ASSUME UNCHANGED <<mem, last>>, ~torn[o], ~Copying(o) PROVE Holds(o)'
    BY <1>a, HoldsFrame DEF Written
  <1>1. CASE WOpen \/ WMap \/ WEnd \/ Reader \/ UNCHANGED vars
    <2>1. UNCHANGED <<mem, last, torn>> /\ (Copying(o) => Copying(o)')
      BY <1>1 DEF WOpen, WMap, WEnd, Reader, ROpen, RRead, RScan, RCopy, RPrint,
                  RBus, REnd, vars, object, writer, Copying
    <2> QED BY <1>a, <2>1
  <1>2. ASSUME NEW t \in Texts, WLine(t) PROVE Holds(o)'
    <2>1. UNCHANGED <<mem, last, torn>> /\ ~Copying(o)
      BY <1>2 DEF WLine, object, Copying
    <2> QED BY <1>a, <2>1
  <1>3. ASSUME NEW k \in 1..MaxText, WStore(k) PROVE Holds(o)'
    <2>1. /\ w = "copy" /\ k \in todo /\ wobj \in Objs /\ o # wobj
          /\ mem' = [mem EXCEPT ![wobj][k - 1] = text[k]] /\ UNCHANGED <<last, torn>>
      BY <1>0, <1>3 DEF WStore, Copying
    <2>2. mem'[o] = mem[o]
      BY <2>1, StorePlaces, StoreAt
    <2>3. Holds(o)
      BY <2>1 DEF Written, Copying
    <2> QED BY <2>1, <2>2, <2>3, HoldsFrame
  <1>4. CASE WZero
    <2>1. /\ w = "copy" /\ todo = {} /\ wobj \in Objs
          /\ mem' = [mem EXCEPT ![wobj][Len(text)] = 0]
          /\ last' = [last EXCEPT ![wobj] = text]
          /\ torn' = [torn EXCEPT ![wobj] = FALSE]
      BY <1>0, <1>4 DEF WZero
    <2>2. Len(text) \in 0..Size-1
      BY StorePlaces
    <2>3. CASE o = wobj
      <3>1. last'[o] = text
        BY <2>1, <2>3 DEF TypeOK, ObjectTypes
      <3>2. mem'[o][Len(text)] = 0
        BY <2>1, <2>2, <2>3, StoreAt
      <3>3. ASSUME NEW k \in 1..Len(text) PROVE mem'[o][k - 1] = text[k]
        <4>1. mem[o][k - 1] = text[k]
          BY <2>1, <2>3 DEF Stored
        <4>2. k - 1 \in 0..Size-1 /\ k - 1 # Len(text)
          BY <2>2, Constants
        <4>3. mem'[o][k - 1] = mem[o][k - 1]
          BY <2>1, <2>2, <2>3, <4>2, StoreAt
        <4> QED BY <4>1, <4>3
      <3> QED BY <3>1, <3>2, <3>3 DEF Holds
    <2>4. CASE o # wobj
      <3>1. mem'[o] = mem[o]
        BY <2>1, <2>2, <2>4, StoreAt
      <3>2. last'[o] = last[o] /\ torn'[o] = torn[o]
        BY <2>1, <2>4 DEF TypeOK, ObjectTypes
      <3>3. Holds(o)
        BY <2>4, <3>2 DEF Written, Copying
      <3> QED BY <3>1, <3>2, <3>3, HoldsFrame
    <2> QED BY <2>3, <2>4
  <1>5. CASE WKilled
    <2>1. UNCHANGED <<mem, last>>
      BY <1>5 DEF WKilled
    <2>2. ~Copying(o) /\ ~torn[o]
      BY <1>0, <1>5 DEF WKilled, Copying, TypeOK, ObjectTypes
    <2> QED BY <1>a, <2>1, <2>2
  <1> QED BY <1>1, <1>2, <1>3, <1>4, <1>5 DEF Next, Writer

LEMMA QuietReadNext ==
  TypeOK /\ Inside /\ LastLine /\ [Next]_vars => QuietRead'
  <1> SUFFICES ASSUME TypeOK, Inside, LastLine, [Next]_vars PROVE QuietRead'
    OBVIOUS
  <1>0. /\ w # "off" => wobj \in Objs
        /\ r \in {"idle", "scan", "copy"} => robj \in Objs
        /\ pos \in Nat /\ len \in Nat /\ line \in Seq(Nat)
    BY Constants DEF TypeOK, WriterTypes, ReaderTypes, Inside, Mapped, Objs
  <1>a. ASSUME UNCHANGED reader, quiet' => quiet,
               quiet' /\ Reading =>
                 /\ mem'[robj] = mem[robj] /\ last'[robj] = last[robj]
                 /\ ~torn'[robj] => ~torn[robj]
        PROVE  QuietRead'
    BY <1>a, HoldsFrame DEF LastLine, QuietRead, Reading, reader
  <1>1. CASE WOpen \/ WMap \/ WEnd \/ UNCHANGED vars
    BY <1>1, <1>a DEF WOpen, WMap, WEnd, vars, object
  <1>2. ASSUME NEW t \in Texts, WLine(t) PROVE QuietRead'
    BY <1>2, <1>a DEF WLine, object
  <1>3. ASSUME NEW k \in 1..MaxText, WStore(k) PROVE QuietRead'
    <2>1. /\ w = "copy" /\ k \in todo /\ wobj \in Objs
          /\ mem' = [mem EXCEPT ![wobj][k - 1] = text[k]]
          /\ UNCHANGED <<last, torn, reader>> /\ quiet' = (quiet /\ robj # wobj)
      BY <1>0, <1>3 DEF WStore
    <2>2. ASSUME quiet', Reading PROVE mem'[robj] = mem[robj]
      BY <1>0, <2>1, <2>2, StorePlaces, StoreAt DEF Reading
    <2> QED BY <1>a, <2>1, <2>2
  <1>4. CASE WZero
    <2>1. /\ w = "copy" /\ wobj \in Objs
          /\ mem' = [mem EXCEPT ![wobj][Len(text)] = 0]
          /\ last' = [last EXCEPT ![wobj] = text]
          /\ torn' = [torn EXCEPT ![wobj] = FALSE]
          /\ UNCHANGED reader /\ quiet' = (quiet /\ robj # wobj)
      BY <1>0, <1>4 DEF WZero
    <2>2. ASSUME quiet', Reading
          PROVE mem'[robj] = mem[robj] /\ last'[robj] = last[robj] /\ torn'[robj] = torn[robj]
      <3>1. robj \in Objs \ {wobj}
        BY <1>0, <2>1, <2>2 DEF Reading
      <3>2. mem'[robj] = mem[robj]
        BY <2>1, <3>1, StorePlaces, StoreAt
      <3> QED BY <2>1, <3>1, <3>2 DEF TypeOK, ObjectTypes
    <2> QED BY <1>a, <2>1, <2>2
  <1>5. CASE WKilled
    <2>1. UNCHANGED <<mem, last, reader, quiet>>
      BY <1>5 DEF WKilled
    <2>2. ASSUME Reading PROVE ~torn'[robj] => ~torn[robj]
      BY <1>0, <1>5, <2>2 DEF WKilled, Reading, TypeOK, ObjectTypes
    <2> QED BY <1>a, <2>1, <2>2
  <1>6. CASE Reader
    <2>0. UNCHANGED <<mem, last, torn, w, wobj>>
      BY <1>6 DEF Reader, ROpen, RRead, RScan, RCopy, RPrint, RBus, REnd, object, writer
    <2>1. CASE ROpen \/ RPrint \/ RBus \/ REnd
      BY <2>1 DEF ROpen, RPrint, RBus, REnd, QuietRead, Reading
    <2>2. CASE RRead
      <3>1. /\ r = "idle" /\ r' = "scan" /\ pos' = 0 /\ line' = <<>> /\ UNCHANGED robj
            /\ quiet' = (w # "copy" \/ wobj # robj)
        BY <2>2 DEF RRead
      <3>2. quiet' /\ ~torn'[robj] => Holds(robj)'
        <4>1. quiet' /\ ~torn[robj] => Holds(robj)
          BY <1>0, <3>1 DEF LastLine, Written, Copying
        <4> QED BY <2>0, <3>1, <4>1 DEF Holds
      <3>3. 0..(0 - 1) = {}
        OBVIOUS
      <3> QED BY <3>1, <3>2, <3>3 DEF QuietRead, Reading, Holds
    <2>3. CASE RScan
      <3>1. /\ r = "scan" /\ robj \in Objs /\ line = <<>> /\ UNCHANGED <<robj, line, quiet>>
            /\ quiet /\ ~torn[robj] => Holds(robj)
            /\ quiet => \A k \in 0..(pos - 1) : mem[robj][k] # 0
        BY <1>0, <2>3 DEF RScan, LastLine, QuietRead, Reading
      <3>2. CASE mem[robj][pos] = 0
        <4>1. r' = "copy" /\ len' = pos /\ pos' = 0
          BY <2>3, <3>2 DEF RScan
        <4>2. ASSUME quiet, ~torn[robj] PROVE pos = Len(last[robj])
          <5>1. /\ Holds(robj) /\ last[robj] \in Seq(Nat \ {0}) /\ Len(last[robj]) \in Nat
            BY <3>1, <4>2, Constants DEF TypeOK, ObjectTypes
          <5>2. ~(Len(last[robj]) < pos)
            BY <1>0, <3>1, <4>2, <5>1 DEF Holds
          <5>3. ~(pos < Len(last[robj]))
            <6>1. SUFFICES ASSUME pos < Len(last[robj]) PROVE FALSE
              OBVIOUS
            <6>2. pos + 1 \in 1..Len(last[robj]) /\ (pos + 1) - 1 = pos
              BY <1>0, <5>1, <6>1
            <6>3. last[robj][pos + 1] # 0
              BY <5>1, <6>2, ElementOfSeq
            <6> QED BY <3>2, <5>1, <6>2, <6>3 DEF Holds
          <5> QED BY <1>0, <5>1, <5>2, <5>3
        <4>3. Len(line') = 0 /\ 1..0 = {}
          BY <3>1, EmptySeq
        <4> QED BY <2>0, <3>1, <4>1, <4>2, <4>3 DEF QuietRead, Reading, Holds
      <3>3. CASE mem[robj][pos] # 0
        <4>1. r' = "scan" /\ pos' = pos + 1
          BY <2>3, <3>1, <3>3 DEF RScan
        <4>2. quiet => \A k \in 0..(pos' - 1) : mem'[robj][k] # 0
          BY <1>0, <2>0, <3>1, <3>3, <4>1
        <4> QED BY <2>0, <3>1, <4>1, <4>2 DEF QuietRead, Reading, Holds
      <3> QED BY <3>2, <3>3
    <2>4. CASE RCopy
      <3> DEFINE b == mem[robj][pos]
      <3>1. /\ r = "copy" /\ r' = "copy" /\ pos < len /\ robj \in Objs
            /\ line' = Append(line, b) /\ pos' = pos + 1
            /\ UNCHANGED <<robj, len, quiet>>
        BY <1>0, <2>4 DEF RCopy
      <3>2. /\ Len(line) = pos
            /\ quiet /\ ~torn[robj] =>
                 /\ Holds(robj) /\ len = Len(last[robj])
                 /\ \A k \in 1..pos : line[k] = last[robj][k]
        BY <3>1 DEF LastLine, QuietRead, Reading
      <3>3. b \in Nat
        <4>1. pos \in 0..Size-1
          BY <1>0, <3>1, Constants DEF Inside, ScanInside
        <4> QED BY <3>1, <4>1 DEF TypeOK, ObjectTypes
      <3>4. /\ Len(line') = pos + 1 /\ line'[pos + 1] = b
            /\ \A k \in 1..pos : line'[k] = line[k]
        BY <1>0, <3>1, <3>2, <3>3, AppendProperties
      <3>5. ASSUME quiet, ~torn[robj], NEW k \in 1..(pos + 1)
            PROVE  line'[k] = last[robj][k]
        <4>1. CASE k \in 1..pos
          BY <3>2, <3>4, <3>5, <4>1
        <4>2. CASE k = pos + 1
          <5>1. pos + 1 \in 1..Len(last[robj]) /\ (pos + 1) - 1 = pos
            BY <1>0, <3>1, <3>2, <3>5
          <5>2. b = last[robj][pos + 1]
            BY <3>2, <3>5, <5>1 DEF Holds
          <5> QED BY <3>4, <4>2, <5>2
        <4> QED BY <1>0, <4>1, <4>2
      <3> HIDE DEF b
      <3> QED BY <2>0, <3>1, <3>2, <3>4, <3>5 DEF QuietRead, Reading, Holds
    <2> QED BY <1>6, <2>1, <2>2, <2>3, <2>4 DEF Reader
  <1> QED BY <1>1, <1>2, <1>3, <1>4, <1>5, <1>6 DEF Next, Writer

LEMMA LastLineInvariance == Spec => []LastLine
  <1>1. TypeOK /\ Inside /\ LastLine /\ [Next]_vars => LastLine'
    BY StoredNext, WrittenNext, QuietReadNext DEF LastLine, Inside
  <1> QED BY LastLineInit, InsideInvariance, <1>1, PTL DEF Spec

(* A reader that is not disturbed prints the last line that was written       *)
(* completely: sprintf's zero ends it, and what an earlier, longer line left   *)
(* behind does not show.                                                        *)
THEOREM QuietReadPrintsLastLine == Spec => []QuietReadIsLast
  <1>1. TypeOK /\ Inside /\ LastLine => QuietReadIsLast
    <2> SUFFICES ASSUME TypeOK, Inside, LastLine, r = "copy", pos = len, quiet, ~torn[robj]
                 PROVE  line = last[robj]
      BY DEF QuietReadIsLast
    <2>1. /\ Len(line) = Len(last[robj])
          /\ \A k \in 1..Len(line) : line[k] = last[robj][k]
      BY DEF LastLine, QuietRead
    <2>2. robj \in Objs
      BY Constants DEF Inside, Mapped, TypeOK, ReaderTypes, Objs
    <2>3. last[robj] \in Seq(Nat \ {0}) /\ line \in Seq(Nat)
      BY <2>2, Constants DEF TypeOK, ObjectTypes, ReaderTypes
    <2>4. last[robj] \in Seq(Nat)
      BY <2>3, SeqMonotonic, Nat \ {0} \subseteq Nat
    <2> QED BY <2>1, <2>3, <2>4, SeqEqual
  <1> QED BY <1>1, LastLineInvariance, InsideInvariance, PTL

=============================================================================
