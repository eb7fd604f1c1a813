---------------------------- MODULE ConsoleProofs ----------------------------
(***************************************************************************)
(* Proofs about Console for every set of processes and characters, every   *)
(* size of the ring and every width of the indices that it divides.  The   *)
(* invariants: the types; the order of the indices; Awake, which ties      *)
(* cons.lock and the sleepers to the ring; and, for the refinement of      *)
(* LineDiscipline, Reads, what a read() has copied so far.                 *)
(***************************************************************************)
EXTENDS Console, SequenceTheorems, Remainders

-----------------------------------------------------------------------------
(* The indices.                                                            *)

\* Unsigned subtraction, wrapped around or not.
LEMMA MinusCases ==
  ASSUME NEW x \in Counter, NEW y \in Counter
  PROVE  /\ Minus(x, y) = IF y <= x THEN x - y ELSE x + Width - y
         /\ Minus(x, y) \in Counter
  <1>1. Width \in Nat \ {0} /\ x \in Nat /\ y \in Nat /\ x < Width /\ y < Width
    BY ConsoleAssumption DEF ConsoleAssumption, Counter
  <1>2. CASE y <= x
    <2>1. (x - y) + Width = x + Width - y /\ x - y \in 0..Width - 1
      BY <1>1, <1>2
    <2>2. ((x - y) + Width) % Width = x - y
      BY <1>1, <2>1, ModOnce
    <2> QED
      BY <2>1, <2>2, <1>2 DEF Minus, Counter
  <1>3. CASE x < y
    BY <1>1, <1>3 DEF Minus, Counter
  <1> QED
    BY <1>1, <1>2, <1>3

LEMMA MinusSelf ==
  ASSUME NEW x \in Counter
  PROVE  Minus(x, x) = 0
  <1>1. Minus(x, x) = IF x <= x THEN x - x ELSE x + Width - x
    BY MinusCases
  <1>2. x \in Int
    BY DEF Counter
  <1> QED
    BY <1>1, <1>2

\* Different indices are apart.
LEMMA MinusApart ==
  ASSUME NEW x \in Counter, NEW y \in Counter, x # y
  PROVE  1 \in 0..Minus(x, y)
  <1>1. Width \in Nat /\ x \in 0..Width - 1 /\ y \in 0..Width - 1
    BY ConsoleAssumption DEF ConsoleAssumption, Counter
  <1>2. Minus(x, y) = IF y <= x THEN x - y ELSE x + Width - y
    BY MinusCases
  <1> QED
    BY <1>1, <1>2

\* An index is moved on.
LEMMA PlusCases ==
  ASSUME NEW x \in Counter, NEW i \in 0..Width - 1
  PROVE  /\ Plus(x, i) = IF x + i < Width THEN x + i ELSE x + i - Width
         /\ Plus(x, i) \in Counter
  <1>1. Width \in Nat \ {0} /\ x \in Nat /\ i \in Nat /\ x < Width /\ i < Width
    BY ConsoleAssumption DEF ConsoleAssumption, Counter
  <1>2. CASE x + i >= Width
    <2>1. x + i - Width \in 0..Width - 1 /\ (x + i - Width) + Width = x + i
      BY <1>1, <1>2
    <2>2. ((x + i - Width) + Width) % Width = x + i - Width
      BY <1>1, <2>1, ModOnce
    <2> QED
      BY <1>2, <2>1, <2>2, <1>1 DEF Plus, Counter
  <1>3. CASE x + i < Width
    BY <1>1, <1>3 DEF Plus, Counter
  <1> QED
    BY <1>1, <1>2, <1>3

\* What holds of indices in order around the ring.
Ordered(x, y, z) == Minus(y, x) + Minus(z, y) = Minus(z, x) /\ Minus(z, x) <= INPUT_BUF

\* A character is typed at z, and ends the line or not.
LEMMA TypeOrder ==
  ASSUME NEW x \in Counter, NEW y \in Counter, NEW z \in Counter, Ordered(x, y, z), Minus(z, x) < INPUT_BUF
  PROVE  /\ Minus(Plus(z, 1), x) = Minus(z, x) + 1 /\ Minus(Plus(z, 1), y) = Minus(z, y) + 1
         /\ Ordered(x, y, Plus(z, 1)) /\ Ordered(x, Plus(z, 1), Plus(z, 1))
  <1>1. Width \in Nat /\ INPUT_BUF \in Nat \ {0} /\ INPUT_BUF < Width /\ 1 \in 0..Width - 1
    BY ConsoleAssumption DEF ConsoleAssumption
  <1> DEFINE z1 == Plus(z, 1)
  <1>2. z1 \in Counter /\ z1 = IF z + 1 < Width THEN z + 1 ELSE z + 1 - Width
    BY <1>1, PlusCases
  <1>3. /\ Minus(z1, x) = IF x <= z1 THEN z1 - x ELSE z1 + Width - x
        /\ Minus(z1, y) = IF y <= z1 THEN z1 - y ELSE z1 + Width - y
    BY <1>2, MinusCases
  <1>4. /\ Minus(z, x) = IF x <= z THEN z - x ELSE z + Width - x
        /\ Minus(z, y) = IF y <= z THEN z - y ELSE z + Width - y
        /\ Minus(y, x) = IF x <= y THEN y - x ELSE y + Width - x
    BY MinusCases
  <1> HIDE DEF z1
  <1>0. Minus(z1, z1) = 0
    BY <1>2, MinusSelf
  <1>5. Minus(z1, x) = Minus(z, x) + 1 /\ Minus(z1, y) = Minus(z, y) + 1
    BY <1>1, <1>2, <1>3, <1>4 DEF Counter, Ordered
  <1>6. Ordered(x, y, z1) /\ Ordered(x, z1, z1)
    BY <1>0, <1>1, <1>2, <1>3, <1>4, <1>5 DEF Counter, Ordered
  <1> QED
    BY <1>5, <1>6 DEF z1

\* k characters of the line are erased.
LEMMA EraseOrder ==
  ASSUME NEW x \in Counter, NEW y \in Counter, NEW z \in Counter, Ordered(x, y, z), NEW k \in 0..Minus(z, y)
  PROVE  /\ Minus(z, k) \in Counter /\ Minus(Minus(z, k), y) = Minus(z, y) - k
         /\ Ordered(x, y, Minus(z, k))
  <1>1. Width \in Nat /\ INPUT_BUF \in Nat \ {0} /\ INPUT_BUF < Width
    BY ConsoleAssumption DEF ConsoleAssumption
  <1>2. /\ Minus(z, x) = IF x <= z THEN z - x ELSE z + Width - x
        /\ Minus(z, y) = IF y <= z THEN z - y ELSE z + Width - y
        /\ Minus(y, x) = IF x <= y THEN y - x ELSE y + Width - x
    BY MinusCases
  <1>3. k \in Counter /\ k \in Nat
    BY <1>1, <1>2 DEF Counter, Ordered
  <1> DEFINE z1 == Minus(z, k)
  <1>4. z1 \in Counter /\ z1 = IF k <= z THEN z - k ELSE z + Width - k
    BY <1>3, MinusCases
  <1>5. /\ Minus(z1, x) = IF x <= z1 THEN z1 - x ELSE z1 + Width - x
        /\ Minus(z1, y) = IF y <= z1 THEN z1 - y ELSE z1 + Width - y
    BY <1>4, MinusCases
  <1> HIDE DEF z1
  <1>6. Minus(z1, y) = Minus(z, y) - k
    BY <1>1, <1>2, <1>3, <1>4, <1>5 DEF Counter, Ordered
  <1>7. Minus(z1, x) = Minus(z, x) - k
    BY <1>1, <1>2, <1>3, <1>4, <1>5 DEF Counter, Ordered
  <1>8. Ordered(x, y, z1)
    BY <1>1, <1>2, <1>6, <1>7 DEF Counter, Ordered
  <1> QED
    BY <1>4, <1>6, <1>8 DEF z1

\* A character is taken.
LEMMA TakeOrder ==
  ASSUME NEW x \in Counter, NEW y \in Counter, NEW z \in Counter, Ordered(x, y, z), x # y
  PROVE  /\ Plus(x, 1) \in Counter /\ Minus(y, x) > 0 /\ Minus(y, Plus(x, 1)) = Minus(y, x) - 1
         /\ Ordered(Plus(x, 1), y, z)
  <1>1. Width \in Nat /\ INPUT_BUF \in Nat \ {0} /\ INPUT_BUF < Width /\ 1 \in 0..Width - 1
    BY ConsoleAssumption DEF ConsoleAssumption
  <1>2. /\ Minus(z, x) = IF x <= z THEN z - x ELSE z + Width - x
        /\ Minus(z, y) = IF y <= z THEN z - y ELSE z + Width - y
        /\ Minus(y, x) = IF x <= y THEN y - x ELSE y + Width - x
    BY MinusCases
  <1> DEFINE x1 == Plus(x, 1)
  <1>3. x1 \in Counter /\ x1 = IF x + 1 < Width THEN x + 1 ELSE x + 1 - Width
    BY <1>1, PlusCases
  <1>4. /\ Minus(z, x1) = IF x1 <= z THEN z - x1 ELSE z + Width - x1
        /\ Minus(y, x1) = IF x1 <= y THEN y - x1 ELSE y + Width - x1
    BY <1>3, MinusCases
  <1> HIDE DEF x1
  <1>5. Minus(y, x) > 0 /\ Minus(y, x1) = Minus(y, x) - 1
    BY <1>1, <1>2, <1>3, <1>4 DEF Counter
  <1>6. Minus(z, x1) = Minus(z, x) - 1
    BY <1>1, <1>2, <1>3, <1>4, <1>5 DEF Counter, Ordered
  <1>7. Ordered(x1, y, z)
    BY <1>1, <1>2, <1>5, <1>6 DEF Counter, Ordered
  <1> QED
    BY <1>3, <1>5, <1>7 DEF x1

-----------------------------------------------------------------------------
(* Types.                                                                  *)

\* Places in the ring.
LEMMA PlaceType ==
  ASSUME NEW x \in Counter
  PROVE  x % INPUT_BUF \in Index
  BY ConsoleAssumption DEF ConsoleAssumption, Counter, Index

LEMMA InitConsoleTypes == ConsoleInit => ConsoleTypeOK
  <1> SUFFICES ASSUME ConsoleInit PROVE ConsoleTypeOK
    OBVIOUS
  <1>1. 0 \in Counter /\ 0 \in 0..MaxN /\ <<>> \in Seq(Char \cup {NL})
    BY ConsoleAssumption DEF ConsoleAssumption, Counter
  <1> QED
    BY <1>1 DEF ConsoleInit, ConsoleTypeOK

\* A step of the interrupt handler.
LEMMA IntrTypes == ConsoleTypeOK /\ RingOrder /\ consoleintr => ConsoleTypeOK'
  <1> SUFFICES ASSUME ConsoleTypeOK, RingOrder, consoleintr PROVE ConsoleTypeOK'
    OBVIOUS
  <1> USE DEF ConsoleTypeOK
  <1>1. Ordered(r, w, e) /\ r \in Counter /\ w \in Counter /\ e \in Counter
    BY DEF RingOrder, Ordered
  <1>2. ASSUME NEW c \in Char \cup {NL, EOF}, type(c) PROVE ConsoleTypeOK'
    <2>1. Plus(e, 1) \in Counter
      BY <1>1, PlusCases, ConsoleAssumption DEF ConsoleAssumption
    <2>2. e % INPUT_BUF \in Index /\ buf' \in [Index -> Char \cup {NL, EOF}]
      BY <1>1, <1>2, PlaceType DEF type
    <2>3. e' \in Counter /\ w' \in Counter
      BY <1>1, <1>2, <2>1 DEF type
    <2>4. cpc' \in [Proc -> {"out", "acquire", "loop", "done", "sleep", "asleep"}]
      BY <1>2 DEF type, Woken
    <2>5. UNCHANGED <<r, conslock, n, target, got, killed>>
      BY <1>2 DEF type
    <2> QED
      BY <2>2, <2>3, <2>4, <2>5
  <1>3. ASSUME NEW k \in 0..Minus(e, w), e' = Minus(e, k), UNCHANGED <<buf, r, w, reader, killed>>
        PROVE  ConsoleTypeOK'
    BY <1>1, <1>3, EraseOrder DEF reader
  <1>4. CASE backspace
    <2>1. 1 \in 0..Minus(e, w)
      BY <1>1, <1>4, MinusApart DEF backspace
    <2> QED
      BY <2>1, <1>3, <1>4 DEF backspace
  <1>5. CASE killline
    BY <1>3, <1>5 DEF killline
  <1> QED
    BY <1>2, <1>4, <1>5 DEF consoleintr

LEMMA LeaveTypes ==
  ASSUME NEW p \in Proc, ConsoleTypeOK, Leave(p), r' \in Counter, UNCHANGED <<buf, w, e, killed>>
  PROVE  ConsoleTypeOK'
  <1>1. 0 \in 0..MaxN /\ <<>> \in Seq(Char \cup {NL})
    BY ConsoleAssumption DEF ConsoleAssumption
  <1> QED
    BY <1>1 DEF ConsoleTypeOK, Leave, Move

\* A step of a process.
LEMMA ReaderTypes ==
  ASSUME NEW p \in Proc, ConsoleTypeOK, reading(p) \/ kill(p) \/ exit(p) \/ \E count \in 0..MaxN : consoleread(p, count)
  PROVE  ConsoleTypeOK'
  <1>1. ASSUME NEW count \in 0..MaxN, consoleread(p, count) PROVE ConsoleTypeOK'
    BY <1>1 DEF consoleread, Move, input, ConsoleTypeOK
  <1>2. CASE acquire(p)
    BY <1>2 DEF acquire, Move, input, ConsoleTypeOK
  <1>3. CASE read_done(p) \/ read_killed(p)
    BY <1>3, LeaveTypes DEF read_done, read_killed, input, ConsoleTypeOK
  <1>4. CASE read_wait(p)
    BY <1>4 DEF read_wait, Move, input, ConsoleTypeOK
  <1>5. CASE read_sleep(p)
    BY <1>5 DEF read_sleep, Move, input, ConsoleTypeOK
  <1>6. r \in Counter /\ Plus(r, 1) \in Counter
    BY PlusCases, ConsoleAssumption DEF ConsoleAssumption, ConsoleTypeOK
  <1>7. CASE read_eof(p)
    BY <1>6, <1>7, LeaveTypes DEF read_eof
  <1>8. CASE read_char(p)
    <2>1. r % INPUT_BUF \in Index
      BY <1>6, PlaceType
    <2>2. Front \in Char \cup {NL}
      BY <1>8, <2>1 DEF read_char, Front, ConsoleTypeOK
    <2>3. got' \in [Proc -> Seq(Char \cup {NL})]
      BY <1>8, <2>2 DEF read_char, ConsoleTypeOK
    <2>4. n[p] \in 0..MaxN /\ n[p] > 0
      BY <1>8 DEF read_char, ConsoleTypeOK
    <2>5. n[p] - 1 \in 0..MaxN
      BY <2>4, ConsoleAssumption DEF ConsoleAssumption
    <2>6. n' \in [Proc -> 0..MaxN]
      BY <1>8, <2>5 DEF read_char, ConsoleTypeOK
    <2>7. cpc' \in [Proc -> {"out", "acquire", "loop", "done", "sleep", "asleep"}]
      BY <1>8 DEF read_char, Move, ConsoleTypeOK
    <2> QED
      BY <1>6, <1>8, <2>3, <2>6, <2>7 DEF read_char, ConsoleTypeOK
  <1>9. CASE kill(p)
    BY <1>9 DEF kill, input, ConsoleTypeOK
  <1>10. CASE exit(p)
    BY <1>10 DEF exit, input, reader, ConsoleTypeOK
  <1> QED
    BY <1>1, <1>2, <1>3, <1>4, <1>5, <1>7, <1>8, <1>9, <1>10 DEF reading

-----------------------------------------------------------------------------
(* The order of the indices.                                               *)

IndexInv == ConsoleTypeOK /\ RingOrder

LEMMA NextIndex == IndexInv /\ [ConsoleNext]_convars => IndexInv'
  <1> SUFFICES ASSUME IndexInv, [ConsoleNext]_convars PROVE IndexInv'
    OBVIOUS
  <1>1. Ordered(r, w, e) /\ r \in Counter /\ w \in Counter /\ e \in Counter
    BY DEF IndexInv, ConsoleTypeOK, RingOrder, Ordered
  <1>2. ConsoleTypeOK'
    <2>1. CASE UNCHANGED convars
      BY <2>1 DEF IndexInv, ConsoleTypeOK, convars, input, reader
    <2> QED
      BY <2>1, IntrTypes, ReaderTypes DEF IndexInv, ConsoleNext
  <1>3. ASSUME r' = r, w' = w, e' = e PROVE RingOrder'
    BY <1>3 DEF IndexInv, RingOrder, Minus
  <1>4. ASSUME NEW c \in Char \cup {NL, EOF}, type(c) PROVE RingOrder'
    <2>1. Ordered(r, w, Plus(e, 1)) /\ Ordered(r, Plus(e, 1), Plus(e, 1))
      BY <1>1, <1>4, TypeOrder DEF type
    <2>2. r' = r /\ e' = Plus(e, 1) /\ w' \in {w, Plus(e, 1)}
      BY <1>4 DEF type
    <2>3. Ordered(r', w', e')
      BY <2>1, <2>2
    <2> QED
      BY <2>3 DEF Ordered, RingOrder, Minus
  <1>5. ASSUME NEW k \in 0..Minus(e, w), e' = Minus(e, k), r' = r, w' = w PROVE RingOrder'
    <2>1. Ordered(r, w, Minus(e, k))
      BY <1>1, EraseOrder
    <2>2. Ordered(r', w', e')
      BY <1>5, <2>1
    <2> QED
      BY <2>2 DEF Ordered, RingOrder, Minus
  <1>6. ASSUME backspace PROVE RingOrder'
    <2>1. 1 \in 0..Minus(e, w)
      BY <1>1, <1>6, MinusApart DEF backspace
    <2> QED
      BY <2>1, <1>5, <1>6 DEF backspace
  <1>7. ASSUME killline PROVE RingOrder'
    BY <1>5, <1>7 DEF killline
  <1>8. ASSUME r # w, r' = Plus(r, 1), w' = w, e' = e PROVE RingOrder'
    <2>1. Ordered(Plus(r, 1), w, e)
      BY <1>1, <1>8, TakeOrder
    <2>2. Ordered(r', w', e')
      BY <1>8, <2>1
    <2> QED
      BY <2>2 DEF Ordered, RingOrder, Minus
  <1>9. ASSUME NEW p \in Proc, reading(p) \/ kill(p) \/ exit(p) \/ \E count \in 0..MaxN : consoleread(p, count)
        PROVE  RingOrder'
    <2>1. w' = w /\ e' = e /\ (r' = r \/ (r # w /\ r' = Plus(r, 1)))
      BY <1>9 DEF reading, acquire, read_done, read_killed, read_wait, read_sleep, read_eof, read_char, kill,
                  exit, consoleread, input
    <2> QED
      BY <1>3, <1>8, <2>1
  <1>10. RingOrder'
    BY <1>3, <1>4, <1>6, <1>7, <1>9 DEF ConsoleNext, consoleintr, convars, input
  <1> QED
    BY <1>2, <1>10 DEF IndexInv

LEMMA IndexAlways == ConsoleSpec => []IndexInv
  <1>1. ConsoleInit => IndexInv
    <2> SUFFICES ASSUME ConsoleInit PROVE RingOrder
      BY InitConsoleTypes DEF IndexInv
    <2>1. 0 \in Counter
      BY ConsoleAssumption DEF ConsoleAssumption, Counter
    <2>3. Minus(0, 0) = 0
      BY <2>1, MinusSelf
    <2> QED
      BY <2>3, ConsoleAssumption DEF ConsoleAssumption, ConsoleInit, RingOrder
  <1> QED
    BY <1>1, NextIndex, PTL DEF ConsoleSpec

\* The read, write and edit indices of the input ring stay in order around it,
\* whatever is typed, edited and read (console.c:194-274).
THEOREM ConsoleRingOrder == ConsoleSpec => []RingOrder
  <1>1. IndexInv => RingOrder
    BY DEF IndexInv
  <1> QED
    BY <1>1, IndexAlways, PTL

-----------------------------------------------------------------------------
(* Sleepers.                                                               *)

\* cons.lock is held from the test of the ring to sleep(), and nothing can be read
\* while anybody sleeps.
Awake ==
  \A p \in Proc : /\ cpc[p] \in {"loop", "done", "sleep"} => conslock = p
                  /\ cpc[p] \in {"sleep", "asleep"} => r = w

LEMMA NextAwake == ConsoleTypeOK /\ Awake /\ [ConsoleNext]_convars => Awake'
  <1> SUFFICES ASSUME ConsoleTypeOK, Awake, [ConsoleNext]_convars PROVE Awake'
    OBVIOUS
  <1>0. None \notin Proc /\ cpc \in [Proc -> {"out", "acquire", "loop", "done", "sleep", "asleep"}]
    BY ConsoleAssumption DEF ConsoleAssumption, ConsoleTypeOK
  <1>1. ASSUME NEW c \in Char \cup {NL, EOF}, type(c) PROVE Awake'
    <2>1. CASE Ends(c)
      BY <1>0, <1>1, <2>1 DEF type, Awake, Woken
    <2>2. CASE ~Ends(c)
      BY <1>0, <1>1, <2>2 DEF type, Awake
    <2> QED
      BY <2>1, <2>2
  <1>2. CASE backspace \/ killline
    BY <1>2 DEF backspace, killline, reader, Awake
  <1>3. ASSUME NEW p \in Proc, reading(p) \/ kill(p) \/ exit(p) \/ \E count \in 0..MaxN : consoleread(p, count)
        PROVE  Awake'
    <2> USE <1>0 DEF Awake, Move, InState, input
    <2>1. ASSUME NEW count \in 0..MaxN, consoleread(p, count) PROVE Awake'
      BY <2>1 DEF consoleread
    <2>2. CASE acquire(p)
      BY <2>2 DEF acquire
    <2>3. CASE read_done(p)
      BY <2>3 DEF read_done, Leave
    <2>4. CASE read_killed(p)
      BY <2>4 DEF read_killed, Leave
    <2>5. CASE read_wait(p)
      BY <2>5 DEF read_wait
    <2>6. CASE read_sleep(p)
      BY <2>6 DEF read_sleep
    <2>7. CASE read_eof(p)
      BY <2>7 DEF read_eof, Leave
    <2>8. CASE read_char(p)
      BY <2>8 DEF read_char
    <2>9. CASE kill(p)
      BY <2>9 DEF kill
    <2>10. CASE exit(p)
      BY <2>10 DEF exit, reader
    <2> QED
      BY <1>3, <2>1, <2>2, <2>3, <2>4, <2>5, <2>6, <2>7, <2>8, <2>9, <2>10 DEF reading
  <1>4. CASE UNCHANGED convars
    BY <1>4 DEF convars, input, reader, Awake
  <1> QED
    BY <1>1, <1>2, <1>3, <1>4 DEF ConsoleNext, consoleintr

LEMMA AwakeAlways == ConsoleSpec => []Awake
  <1>1. ConsoleInit => Awake
    BY DEF ConsoleInit, Awake
  <1>2. IndexInv => ConsoleTypeOK
    BY DEF IndexInv
  <1> QED
    BY <1>1, <1>2, NextAwake, IndexAlways, PTL DEF ConsoleSpec

\* Nobody sleeps in consoleread() while a finished line can be read: the line cannot
\* come between the test of the ring and sleep() (console.c:254).
THEOREM ConsoleReaderAwake == ConsoleSpec => []ReaderAwake
  <1>1. Awake => ReaderAwake
    BY DEF Awake, ReaderAwake
  <1> QED
    BY <1>1, AwakeAlways, PTL

-----------------------------------------------------------------------------
(* The contents of the ring.                                               *)

Chars == Char \cup {NL, EOF}

\* k characters of a ring b from index x.
Cut(b, x, k) == [i \in 1..k |-> b[(x + i - 1) % INPUT_BUF]]

\* An index that has wrapped around, and the same distance from another index,
\* lead to the same place.
LEMMA Places ==
  ASSUME NEW x \in Counter, NEW y \in Counter
  PROVE  /\ \A i \in 0..Width - 1 : Plus(x, i) % INPUT_BUF = (x + i) % INPUT_BUF
         /\ \A i \in Nat : (x + Minus(y, x) + i) % INPUT_BUF = (y + i) % INPUT_BUF
         /\ \A i \in Nat : (x + i) % INPUT_BUF \in Index
  <1>1. INPUT_BUF \in Nat \ {0} /\ Width \in Nat /\ Width % INPUT_BUF = 0 /\ x \in 0..Width - 1 /\ y \in 0..Width - 1
    BY ConsoleAssumption DEF ConsoleAssumption, Counter
  <1>2. ASSUME NEW i \in 0..Width - 1 PROVE Plus(x, i) % INPUT_BUF = (x + i) % INPUT_BUF
    <2>1. CASE x + i < Width
      BY <2>1, PlusCases
    <2>2. CASE x + i >= Width
      <3>1. Plus(x, i) = x + i - Width /\ x + i - Width \in Nat /\ (x + i - Width) + Width = x + i
        BY <1>1, <2>2, PlusCases
      <3>2. ((x + i - Width) + Width) % INPUT_BUF = (x + i - Width) % INPUT_BUF
        BY <1>1, <3>1, ModPeriod
      <3> QED
        BY <3>1, <3>2
    <2> QED
      BY <1>1, <2>1, <2>2
  <1>3. ASSUME NEW i \in Nat PROVE (x + Minus(y, x) + i) % INPUT_BUF = (y + i) % INPUT_BUF
    <2>1. CASE x <= y
      <3>1. x + Minus(y, x) + i = y + i
        BY <1>1, <2>1, MinusCases
      <3> QED
        BY <3>1
    <2>2. CASE y < x
      <3>1. x + Minus(y, x) + i = (y + i) + Width /\ y + i \in Nat
        BY <1>1, <2>2, MinusCases
      <3>2. ((y + i) + Width) % INPUT_BUF = (y + i) % INPUT_BUF
        BY <1>1, <3>1, ModPeriod
      <3> QED
        BY <3>1, <3>2
    <2> QED
      BY <1>1, <2>1, <2>2
  <1>4. ASSUME NEW i \in Nat PROVE (x + i) % INPUT_BUF \in Index
    BY <1>1, ModDivides DEF Index
  <1> QED
    BY <1>2, <1>3, <1>4

LEMMA PartIsCut ==
  ASSUME NEW x \in Counter, NEW k \in 0..INPUT_BUF
  PROVE  Part(x, k) = Cut(buf, x, k)
  <1>1. ASSUME NEW i \in 1..k PROVE Plus(x, i - 1) % INPUT_BUF = (x + i - 1) % INPUT_BUF
    <2>1. i - 1 \in 0..Width - 1 /\ x + (i - 1) = x + i - 1
      BY ConsoleAssumption DEF ConsoleAssumption, Counter
    <2> QED
      BY <2>1, Places
  <1> QED
    BY <1>1 DEF Part, Cut

LEMMA CutSeq ==
  ASSUME NEW b \in [Index -> Chars], NEW x \in Counter, NEW k \in Nat
  PROVE  /\ Cut(b, x, k) \in Seq(Chars) /\ Len(Cut(b, x, k)) = k
         /\ \A i \in 1..k : Cut(b, x, k)[i] = b[(x + i - 1) % INPUT_BUF]
  <1>1. ASSUME NEW i \in 1..k PROVE b[(x + i - 1) % INPUT_BUF] \in Chars
    <2>1. i - 1 \in Nat /\ x + (i - 1) = x + i - 1
      BY DEF Counter
    <2>2. (x + i - 1) % INPUT_BUF \in Index
      BY <2>1, Places
    <2> QED
      BY <2>2
  <1>2. Cut(b, x, k) \in [1..k -> Chars]
    BY <1>1 DEF Cut
  <1> QED
    BY <1>2 DEF Cut

\* A character is written behind k others.
LEMMA CutWrite ==
  ASSUME NEW b \in [Index -> Chars], NEW x \in Counter, NEW z \in Counter, NEW c \in Chars,
         Minus(z, x) < INPUT_BUF
  PROVE  LET b1 == [b EXCEPT ![z % INPUT_BUF] = c]
         IN  /\ \A k \in 0..Minus(z, x) : Cut(b1, x, k) = Cut(b, x, k)
             /\ Cut(b1, x, Minus(z, x) + 1) = Append(Cut(b, x, Minus(z, x)), c)
  <1> DEFINE b1 == [b EXCEPT ![z % INPUT_BUF] = c]
             m == Minus(z, x)
  <1>1. m \in Nat /\ m < INPUT_BUF /\ INPUT_BUF \in Nat \ {0} /\ x \in Nat /\ z \in Nat
    BY MinusCases, ConsoleAssumption DEF ConsoleAssumption, Counter
  <1>2. (x + m) % INPUT_BUF = z % INPUT_BUF /\ z % INPUT_BUF \in Index
    <2>1. (x + m + 0) % INPUT_BUF = (z + 0) % INPUT_BUF /\ (z + 0) % INPUT_BUF \in Index
      BY Places
    <2>2. x + m + 0 = x + m /\ z + 0 = z
      BY <1>1
    <2> QED
      BY <2>1, <2>2
  <1> HIDE DEF m
  <1>3. b1 \in [Index -> Chars] /\ b1[z % INPUT_BUF] = c
    BY <1>2
  <1>4. ASSUME NEW i \in 1..m PROVE b1[(x + i - 1) % INPUT_BUF] = b[(x + i - 1) % INPUT_BUF]
    <2>1. x + i - 1 \in Nat /\ m + 1 - i \in 1..INPUT_BUF - 1 /\ (x + i - 1) + (m + 1 - i) = x + m
      BY <1>1
    <2>2. ((x + i - 1) + (m + 1 - i)) % INPUT_BUF # (x + i - 1) % INPUT_BUF
      BY <1>1, <2>1, ModDistinct
    <2>3. (x + i - 1) % INPUT_BUF \in Index
      BY <1>1, <2>1, ModDivides DEF Index
    <2>4. (x + i - 1) % INPUT_BUF # z % INPUT_BUF
      BY <1>2, <2>1, <2>2
    <2> QED
      BY <2>3, <2>4
  <1>5. ASSUME NEW k \in 0..m PROVE Cut(b1, x, k) = Cut(b, x, k)
    <2>1. \A i \in 1..k : i \in 1..m
      BY <1>1
    <2>2. \A i \in 1..k : b1[(x + i - 1) % INPUT_BUF] = b[(x + i - 1) % INPUT_BUF]
      BY <1>4, <2>1
    <2> HIDE DEF b1
    <2> QED
      BY <2>2 DEF Cut
  <1>6. Cut(b1, x, m + 1) = Append(Cut(b, x, m), c)
    <2> HIDE DEF b1
    <2> DEFINE s == Cut(b, x, m)
               t == Cut(b1, x, m + 1)
    <2>0. m + 1 \in Nat
      BY <1>1
    <2>1. /\ s \in Seq(Chars) /\ Len(s) = m /\ \A i \in 1..m : s[i] = b[(x + i - 1) % INPUT_BUF]
          /\ t \in Seq(Chars) /\ Len(t) = m + 1 /\ \A i \in 1..m + 1 : t[i] = b1[(x + i - 1) % INPUT_BUF]
      BY <1>1, <1>3, <2>0, CutSeq
    <2> HIDE DEF s, t
    <2>2. /\ Append(s, c) \in Seq(Chars) /\ Len(Append(s, c)) = m + 1
          /\ \A i \in 1..m : Append(s, c)[i] = s[i]
          /\ Append(s, c)[m + 1] = c
      BY <2>1, AppendProperties
    <2>3. ASSUME NEW i \in 1..m + 1 PROVE t[i] = Append(s, c)[i]
      <3>1. CASE i \in 1..m
        <4>1. i \in 1..m + 1
          BY <1>1, <3>1
        <4>2. t[i] = b[(x + i - 1) % INPUT_BUF]
          BY <1>4, <2>1, <3>1, <4>1
        <4> QED
          BY <2>1, <2>2, <3>1, <4>2
      <3>2. CASE i = m + 1
        <4>1. x + (m + 1) - 1 = x + m /\ m + 1 \in 1..m + 1
          BY <1>1
        <4>2. t[m + 1] = b1[(x + m) % INPUT_BUF]
          BY <2>1, <4>1
        <4> QED
          BY <1>2, <1>3, <2>2, <3>2, <4>2
      <3>0. i \in 1..m \/ i = m + 1
        BY <1>1
      <3> QED
        BY <3>0, <3>1, <3>2
    <2> QED
      <3>1. t = Append(s, c)
        BY <2>1, <2>2, <2>3, SeqEqual
      <3> QED
        BY <3>1 DEF s, t
  <1> QED
    BY <1>5, <1>6 DEF m

\* What lies between x and z is what lies between x and y and between y and z.
LEMMA CutConcat ==
  ASSUME NEW b \in [Index -> Chars], NEW x \in Counter, NEW y \in Counter, NEW z \in Counter, Ordered(x, y, z)
  PROVE  Cut(b, x, Minus(z, x)) = Cut(b, x, Minus(y, x)) \o Cut(b, y, Minus(z, y))
  <1> DEFINE j == Minus(y, x)
             k == Minus(z, y)
             s == Cut(b, x, j)
             t == Cut(b, y, k)
             u == Cut(b, x, j + k)
  <1>1. j \in Nat /\ k \in Nat /\ Minus(z, x) = j + k /\ x \in Nat /\ y \in Nat
    BY MinusCases DEF Counter, Ordered
  <1>2. \A i \in Nat : (x + j + i) % INPUT_BUF = (y + i) % INPUT_BUF
    BY Places
  <1> HIDE DEF j, k
  <1>3. /\ s \in Seq(Chars) /\ Len(s) = j /\ \A i \in 1..j : s[i] = b[(x + i - 1) % INPUT_BUF]
        /\ t \in Seq(Chars) /\ Len(t) = k /\ \A i \in 1..k : t[i] = b[(y + i - 1) % INPUT_BUF]
    BY <1>1, CutSeq
  <1>4. /\ u \in Seq(Chars) /\ Len(u) = j + k /\ \A i \in 1..j + k : u[i] = b[(x + i - 1) % INPUT_BUF]
    <2>1. j + k \in Nat
      BY <1>1
    <2> QED
      BY <2>1, CutSeq
  <1> HIDE DEF s, t, u
  <1>5. /\ s \o t \in Seq(Chars) /\ Len(s \o t) = j + k
        /\ \A i \in 1..j + k : (s \o t)[i] = IF i <= j THEN s[i] ELSE t[i - j]
    <2>1. s \o t \in Seq(Chars) /\ Len(s \o t) = Len(s) + Len(t)
      BY <1>3, ConcatProperties
    <2>2. \A i \in 1..Len(s) + Len(t) : (s \o t)[i] = IF i <= Len(s) THEN s[i] ELSE t[i - Len(s)]
      BY <1>3, ConcatProperties
    <2> QED
      BY <1>3, <2>1, <2>2
  <1>6. ASSUME NEW i \in 1..j + k PROVE u[i] = (s \o t)[i]
    <2>1. CASE i <= j
      <3>1. i \in 1..j
        BY <1>1, <2>1
      <3>2. (s \o t)[i] = s[i]
        BY <1>1, <1>5, <2>1
      <3> QED
        BY <1>3, <1>4, <3>1, <3>2
    <2>2. CASE i > j
      <3>1. i - j \in 1..k /\ i - j - 1 \in Nat /\ x + j + (i - j - 1) = x + i - 1 /\ y + (i - j) - 1 = y + (i - j - 1)
        BY <1>1, <2>2
      <3>2. (x + i - 1) % INPUT_BUF = (y + (i - j) - 1) % INPUT_BUF
        BY <1>2, <3>1
      <3>3. t[i - j] = b[(y + (i - j) - 1) % INPUT_BUF]
        BY <1>3, <3>1
      <3>4. (s \o t)[i] = t[i - j]
        BY <1>1, <1>5, <2>2
      <3> QED
        BY <1>4, <3>2, <3>3, <3>4
    <2>0. i <= j \/ i > j
      BY <1>1
    <2> QED
      BY <2>0, <2>1, <2>2
  <1>7. u = s \o t
    BY <1>4, <1>5, <1>6, SeqEqual
  <1> QED
    BY <1>1, <1>7 DEF j, k, s, t, u

\* The first character is taken away.
LEMMA CutTail ==
  ASSUME NEW b \in [Index -> Chars], NEW x \in Counter, NEW k \in 1..INPUT_BUF
  PROVE  /\ Cut(b, x, k) # <<>> /\ Head(Cut(b, x, k)) = b[x % INPUT_BUF]
         /\ Cut(b, Plus(x, 1), k - 1) = Tail(Cut(b, x, k))
  <1> DEFINE x1 == Plus(x, 1)
             s == Cut(b, x, k)
             t == Cut(b, x1, k - 1)
  <1>1. INPUT_BUF \in Nat \ {0} /\ Width \in Nat /\ INPUT_BUF < Width /\ Width % INPUT_BUF = 0 /\ x \in Nat /\ k \in Nat
    BY ConsoleAssumption DEF ConsoleAssumption, Counter
  <1>2. x1 \in Counter /\ (x1 = x + 1 \/ x1 = x + 1 - Width)
    <2>1. 1 \in 0..Width - 1
      BY <1>1
    <2> QED
      BY <2>1, PlusCases
  <1> HIDE DEF x1
  <1>3. ASSUME NEW i \in Nat PROVE (x1 + i) % INPUT_BUF = (x + 1 + i) % INPUT_BUF
    <2>1. CASE x1 = x + 1
      BY <2>1
    <2>2. CASE x1 = x + 1 - Width
      <3>1. x1 + i \in Nat /\ (x1 + i) + Width = x + 1 + i
        BY <1>1, <1>2, <2>2 DEF Counter
      <3>2. ((x1 + i) + Width) % INPUT_BUF = (x1 + i) % INPUT_BUF
        BY <1>1, <3>1, ModPeriod
      <3> QED
        BY <3>1, <3>2
    <2> QED
      BY <1>2, <2>1, <2>2
  <1>4. /\ s \in Seq(Chars) /\ Len(s) = k /\ \A i \in 1..k : s[i] = b[(x + i - 1) % INPUT_BUF]
    BY <1>1, CutSeq
  <1>5. /\ t \in Seq(Chars) /\ Len(t) = k - 1 /\ \A i \in 1..k - 1 : t[i] = b[(x1 + i - 1) % INPUT_BUF]
    <2>1. k - 1 \in Nat
      OBVIOUS
    <2> QED
      BY <1>2, <2>1, CutSeq
  <1> HIDE DEF s, t
  <1>6. s # <<>>
    BY <1>1, <1>4
  <1>7. Head(s) = b[x % INPUT_BUF]
    <2>1. 1 \in 1..k /\ x + 1 - 1 = x
      BY <1>1
    <2>2. Head(s) = s[1]
      BY <1>4, <1>6
    <2> QED
      BY <1>4, <2>1, <2>2
  <1>8. /\ Tail(s) \in Seq(Chars) /\ Len(Tail(s)) = k - 1 /\ \A i \in 1..k - 1 : Tail(s)[i] = s[i + 1]
    BY <1>4, <1>6, HeadTailProperties
  <1>9. ASSUME NEW i \in 1..k - 1 PROVE t[i] = Tail(s)[i]
    <2>1. i - 1 \in Nat /\ i + 1 \in 1..k /\ x1 + (i - 1) = x1 + i - 1 /\ x + 1 + (i - 1) = x + (i + 1) - 1
      BY <1>1, <1>2 DEF Counter
    <2>2. (x1 + i - 1) % INPUT_BUF = (x + (i + 1) - 1) % INPUT_BUF
      BY <1>3, <2>1
    <2>3. s[i + 1] = b[(x + (i + 1) - 1) % INPUT_BUF]
      BY <1>4, <2>1
    <2> QED
      BY <1>5, <1>8, <2>2, <2>3
  <1>10. t = Tail(s)
    BY <1>5, <1>8, <1>9, SeqEqual
  <1> QED
    BY <1>6, <1>7, <1>10 DEF s, t, x1

\* Characters at the end are taken away.
LEMMA CutFront ==
  ASSUME NEW b \in [Index -> Chars], NEW x \in Counter, NEW k \in Nat, k > 0
  PROVE  Cut(b, x, k) # <<>> /\ Cut(b, x, k - 1) = SubSeq(Cut(b, x, k), 1, Len(Cut(b, x, k)) - 1)
  <1> DEFINE s == Cut(b, x, k)
             t == Cut(b, x, k - 1)
  <1>1. s \in Seq(Chars) /\ Len(s) = k /\ \A i \in 1..k : s[i] = b[(x + i - 1) % INPUT_BUF]
    BY CutSeq
  <1>2. t \in Seq(Chars) /\ Len(t) = k - 1 /\ \A i \in 1..k - 1 : t[i] = b[(x + i - 1) % INPUT_BUF]
    <2>1. k - 1 \in Nat
      OBVIOUS
    <2> QED
      BY <2>1, CutSeq
  <1> HIDE DEF s, t
  <1>3. s # <<>> /\ \A i \in 1..k - 1 : s[i] \in Chars
    BY <1>1
  <1>4. /\ SubSeq(s, 1, k - 1) \in Seq(Chars) /\ Len(SubSeq(s, 1, k - 1)) = k - 1
        /\ \A i \in 1..k - 1 : SubSeq(s, 1, k - 1)[i] = s[i]
    BY <1>1
  <1>5. t = SubSeq(s, 1, k - 1)
    BY <1>1, <1>2, <1>4, SeqEqual
  <1> QED
    BY <1>1, <1>3, <1>5 DEF s, t

-----------------------------------------------------------------------------
(* The line that is typed, and what the readers have got.                  *)

\* The line being typed has no '\n', so that ^U erases all of it.
LineInv == \A i \in 1..Minus(e, w) : buf[(w + i - 1) % INPUT_BUF] # NL

\* What a read() has copied is what is missing in its count, and has no '\n' while
\* the read() goes on.
ReadsAt(p) ==
  /\ cpc[p] = "out" => got[p] = <<>>
  /\ cpc[p] # "out" => Len(got[p]) + n[p] = target[p]
  /\ cpc[p] \in {"acquire", "loop", "sleep", "asleep"} => \A i \in 1..Len(got[p]) : got[p][i] # NL

Reads == \A p \in Proc : ReadsAt(p)

\* What the steps of the interrupt handler do to the ring.
LEMMA TypeStep ==
  ASSUME IndexInv, NEW c \in Chars, type(c)
  PROVE  /\ Minus(e, r) < INPUT_BUF /\ e' = Plus(e, 1) /\ e' \in Counter /\ r' = r
         /\ Minus(e', r) = Minus(e, r) + 1 /\ Minus(e', w) = Minus(e, w) + 1
         /\ Cut(buf', r, Minus(w, r)) = Cut(buf, r, Minus(w, r))
         /\ Cut(buf', r, Minus(e', r)) = Append(Cut(buf, r, Minus(e, r)), c)
         /\ Cut(buf', w, Minus(e', w)) = Append(Cut(buf, w, Minus(e, w)), c)
         /\ Ends(c) <=> (c \in {NL, EOF} \/ Minus(e, r) + 1 = INPUT_BUF)
  <1>1. /\ r \in Counter /\ w \in Counter /\ e \in Counter /\ Ordered(r, w, e) /\ buf \in [Index -> Chars]
        /\ INPUT_BUF \in Nat \ {0} /\ Width \in Nat /\ INPUT_BUF < Width
    BY ConsoleAssumption DEF IndexInv, ConsoleTypeOK, RingOrder, Ordered, Chars, ConsoleAssumption
  <1>2. Minus(e, r) < INPUT_BUF /\ e' = Plus(e, 1) /\ r' = r /\ buf' = [buf EXCEPT ![e % INPUT_BUF] = c]
    BY DEF type
  <1>3. Minus(e', r) = Minus(e, r) + 1 /\ Minus(e', w) = Minus(e, w) + 1
    BY <1>1, <1>2, TypeOrder
  <1>4. e' \in Counter
    <2>1. 1 \in 0..Width - 1
      BY <1>1
    <2> QED
      BY <1>1, <1>2, <2>1, PlusCases
  <1>5. Minus(w, r) \in 0..Minus(e, r) /\ Minus(e, w) < INPUT_BUF
    <2>1. Minus(w, r) \in Nat /\ Minus(e, w) \in Nat /\ Minus(e, r) \in Nat
      BY <1>1, MinusCases DEF Counter
    <2> QED
      BY <1>1, <1>2, <2>1 DEF Ordered
  <1>6. /\ Cut(buf', r, Minus(w, r)) = Cut(buf, r, Minus(w, r))
        /\ Cut(buf', r, Minus(e, r) + 1) = Append(Cut(buf, r, Minus(e, r)), c)
    <2> DEFINE b1 == [buf EXCEPT ![e % INPUT_BUF] = c]
    <2>1. /\ \A k \in 0..Minus(e, r) : Cut(b1, r, k) = Cut(buf, r, k)
          /\ Cut(b1, r, Minus(e, r) + 1) = Append(Cut(buf, r, Minus(e, r)), c)
      BY <1>1, <1>2, CutWrite
    <2>2. buf' = b1
      BY <1>2
    <2> HIDE DEF b1
    <2> QED
      BY <1>5, <2>1, <2>2
  <1>7. Cut(buf', w, Minus(e, w) + 1) = Append(Cut(buf, w, Minus(e, w)), c)
    BY <1>1, <1>2, <1>5, CutWrite
  <1>8. Plus(e, 1) = Plus(r, INPUT_BUF) <=> Minus(e, r) + 1 = INPUT_BUF
    <2>1. 1 \in 0..Width - 1 /\ INPUT_BUF \in 0..Width - 1
      BY <1>1
    <2>2. /\ Plus(e, 1) = IF e + 1 < Width THEN e + 1 ELSE e + 1 - Width
          /\ Plus(r, INPUT_BUF) = IF r + INPUT_BUF < Width THEN r + INPUT_BUF ELSE r + INPUT_BUF - Width
          /\ Minus(e, r) = IF r <= e THEN e - r ELSE e + Width - r
      BY <1>1, <2>1, PlusCases, MinusCases
    <2> QED
      BY <1>1, <1>2, <2>2 DEF Counter
  <1> QED
    BY <1>2, <1>3, <1>4, <1>6, <1>7, <1>8 DEF Ends

LEMMA NextLine ==
  ASSUME IndexInv, LineInv, [ConsoleNext]_convars
  PROVE  LineInv'
  <1>1. r \in Counter /\ w \in Counter /\ e \in Counter /\ Ordered(r, w, e) /\ buf \in [Index -> Chars]
    BY DEF IndexInv, ConsoleTypeOK, RingOrder, Ordered, Chars
  <1>2. Minus(e, w) \in Nat
    BY <1>1, MinusCases DEF Counter
  <1>3. ASSUME buf' = buf, w' = w, e' = e PROVE LineInv'
    BY <1>3 DEF LineInv, Minus
  <1>4. ASSUME NEW c \in Chars, type(c) PROVE LineInv'
    <2>1. CASE Ends(c)
      <3>1. w' = e' /\ e' \in Counter
        BY <1>4, <2>1, TypeStep DEF type
      <3>2. Minus(e', w') = 0
        BY <3>1, MinusSelf
      <3>3. Minus(e', w') = Minus(e, w)'
        BY DEF Minus
      <3> QED
        BY <3>2, <3>3 DEF LineInv
    <2>2. CASE ~Ends(c)
      <3>1. w' = w /\ c # NL
        BY <1>4, <2>2 DEF type, Ends
      <3>2. buf' \in [Index -> Chars]
        BY <1>1, <1>4 DEF type
      <3>3. Minus(e', w) = Minus(e, w) + 1 /\ Cut(buf', w, Minus(e', w)) = Append(Cut(buf, w, Minus(e, w)), c)
        BY <1>4, TypeStep
      <3> DEFINE k == Minus(e, w)
      <3>4. /\ Cut(buf, w, k) \in Seq(Chars) /\ Len(Cut(buf, w, k)) = k
            /\ \A i \in 1..k : Cut(buf, w, k)[i] = buf[(w + i - 1) % INPUT_BUF]
        BY <1>1, <1>2, CutSeq
      <3>5. \A i \in 1..k + 1 : Cut(buf', w, k + 1)[i] = buf'[(w + i - 1) % INPUT_BUF]
        <4>1. k + 1 \in Nat
          BY <1>2
        <4> HIDE DEF k
        <4> QED
          BY <1>1, <3>2, <4>1, CutSeq
      <3>6. \A i \in 1..k : Cut(buf, w, k)[i] # NL
        BY <3>4 DEF LineInv
      <3>7. k \in Nat /\ Cut(buf', w, k + 1) = Append(Cut(buf, w, k), c)
        BY <1>2, <3>3
      <3> HIDE DEF k
      <3>8. \A i \in 1..k + 1 : Append(Cut(buf, w, k), c)[i] # NL
        <4>1. /\ \A i \in 1..k : Append(Cut(buf, w, k), c)[i] = Cut(buf, w, k)[i]
              /\ Append(Cut(buf, w, k), c)[k + 1] = c
          BY <3>4, AppendProperties
        <4>2. \A i \in 1..k + 1 : i \in 1..k \/ i = k + 1
          BY <3>7
        <4> QED
          BY <3>1, <3>6, <4>1, <4>2
      <3>9. \A i \in 1..k + 1 : buf'[(w + i - 1) % INPUT_BUF] # NL
        BY <3>5, <3>7, <3>8
      <3>10. Minus(e, w)' = k + 1
        BY <3>1, <3>3 DEF k, Minus
      <3> QED
        BY <3>1, <3>9, <3>10 DEF LineInv
    <2> QED
      BY <2>1, <2>2
  <1>5. ASSUME NEW k \in 0..Minus(e, w), e' = Minus(e, k), buf' = buf, w' = w PROVE LineInv'
    <2>1. Minus(e', w) = Minus(e, w) - k
      BY <1>1, <1>5, EraseOrder
    <2>2. Minus(e, w)' = Minus(e, w) - k
      BY <1>5, <2>1 DEF Minus
    <2>3. \A i \in 1..(Minus(e, w) - k) : i \in 1..Minus(e, w)
      BY <1>2
    <2> QED
      BY <1>5, <2>2, <2>3 DEF LineInv
  <1>6. ASSUME backspace PROVE LineInv'
    <2>1. 1 \in 0..Minus(e, w)
      BY <1>1, <1>6, MinusApart DEF backspace
    <2> QED
      BY <2>1, <1>5, <1>6 DEF backspace
  <1>7. ASSUME killline PROVE LineInv'
    BY <1>5, <1>7 DEF killline
  <1>8. ASSUME NEW p \in Proc, reading(p) \/ kill(p) \/ exit(p) \/ \E count \in 0..MaxN : consoleread(p, count)
        PROVE  LineInv'
    BY <1>3, <1>8 DEF reading, acquire, read_done, read_killed, read_wait, read_sleep, read_eof, read_char, kill,
                      exit, consoleread, input
  <1> QED
    BY <1>3, <1>4, <1>6, <1>7, <1>8 DEF ConsoleNext, consoleintr, convars, input, Chars

LEMMA NextReads ==
  ASSUME ConsoleTypeOK, Reads, [ConsoleNext]_convars
  PROVE  Reads'
  <1>0. /\ cpc \in [Proc -> {"out", "acquire", "loop", "done", "sleep", "asleep"}]
        /\ n \in [Proc -> 0..MaxN] /\ target \in [Proc -> 0..MaxN] /\ got \in [Proc -> Seq(Char \cup {NL})]
        /\ Len(<<>>) = 0
    BY DEF ConsoleTypeOK
  <1>1. ASSUME NEW c \in Char \cup {NL, EOF}, type(c) PROVE Reads'
    <2>1. n' = n /\ target' = target /\ got' = got /\ (cpc' = Woken \/ cpc' = cpc)
      BY <1>1 DEF type
    <2> QED
      BY <1>0, <2>1 DEF Reads, ReadsAt, Woken
  <1>2. CASE backspace \/ killline
    BY <1>2 DEF backspace, killline, reader, Reads, ReadsAt
  <1>3. ASSUME NEW p \in Proc, reading(p) \/ kill(p) \/ exit(p) \/ \E count \in 0..MaxN : consoleread(p, count)
        PROVE  Reads'
    <2> USE <1>0 DEF Reads, ReadsAt, Move, InState, input
    <2>0. ASSUME Leave(p) PROVE Reads'
      BY <2>0 DEF Leave
    <2>1. ASSUME NEW count \in 0..MaxN, consoleread(p, count) PROVE Reads'
      <3>1. /\ cpc[p] = "out" /\ got[p] = <<>> /\ got' = got /\ cpc' = [cpc EXCEPT ![p] = "acquire"]
            /\ n' = [n EXCEPT ![p] = count] /\ target' = [target EXCEPT ![p] = count]
        BY <2>1 DEF consoleread
      <3>2. Len(<<>>) + count = count
        BY <1>0
      <3>3. got'[p] = <<>> /\ Len(got'[p]) + n'[p] = target'[p] /\ cpc'[p] = "acquire"
        BY <3>1, <3>2
      <3>4. \A i \in 1..Len(got'[p]) : got'[p][i] # NL
        <4>1. got'[p] = <<>> /\ 1..Len(<<>>) = {}
          BY <3>3
        <4> QED
          BY <4>1, Zenon
      <3>5. ASSUME NEW q \in Proc, q # p
            PROVE  got'[q] = got[q] /\ n'[q] = n[q] /\ target'[q] = target[q] /\ cpc'[q] = cpc[q]
        BY <3>1, <3>5
      <3>6. ASSUME NEW q \in Proc, q # p PROVE ReadsAt(q)'
        BY <3>5, <3>6 DEF ReadsAt
      <3>7. ReadsAt(p)'
        BY <3>3, <3>4 DEF ReadsAt
      <3> QED
        BY <3>6, <3>7
    <2>2. CASE acquire(p)
      BY <2>2 DEF acquire
    <2>3. CASE read_done(p) \/ read_killed(p) \/ read_eof(p)
      BY <2>0, <2>3 DEF read_done, read_killed, read_eof
    <2>4. CASE read_wait(p)
      BY <2>4 DEF read_wait
    <2>5. CASE read_sleep(p)
      BY <2>5 DEF read_sleep
    <2>6. CASE read_char(p)
      <3> DEFINE s == got[p]
                 s1 == Append(got[p], Front)
      <3>1. /\ cpc[p] = "loop" /\ n' = [n EXCEPT ![p] = @ - 1] /\ got' = [got EXCEPT ![p] = s1] /\ target' = target
            /\ (Front = NL /\ cpc' = [cpc EXCEPT ![p] = "done"]) \/ (Front # NL /\ cpc' = cpc)
        BY <2>6 DEF read_char
      <3>2. s \in Seq(Char \cup {NL})
        BY DEF ConsoleTypeOK
      <3>3. /\ Len(s1) = Len(s) + 1 /\ Len(s) \in Nat
            /\ \A i \in 1..Len(s) : s1[i] = s[i]
            /\ s1[Len(s) + 1] = Front
        BY <3>2
      <3>4. Len(s) + n[p] = target[p] /\ \A i \in 1..Len(s) : s[i] # NL
        BY <3>1
      <3> HIDE DEF s1
      <3>5. Front # NL => \A i \in 1..Len(s1) : s1[i] # NL
        <4>1. \A i \in 1..Len(s1) : i \in 1..Len(s) \/ i = Len(s) + 1
          BY <3>3
        <4> QED
          BY <3>3, <3>4, <4>1
      <3>6. n[p] \in Int /\ target[p] \in Int /\ Len(s1) + (n[p] - 1) = target[p]
        BY <3>3, <3>4
      <3>7. ASSUME NEW q \in Proc
            PROVE /\ cpc'[q] = "out" => got'[q] = <<>>
                  /\ cpc'[q] # "out" => Len(got'[q]) + n'[q] = target'[q]
                  /\ cpc'[q] \in {"acquire", "loop", "sleep", "asleep"} => \A i \in 1..Len(got'[q]) : got'[q][i] # NL
        <4>1. CASE q = p
          <5>1. got'[q] = s1 /\ n'[q] = n[p] - 1 /\ target'[q] = target[p] /\ cpc'[q] \in {"loop", "done"}
                /\ (cpc'[q] = "loop" => Front # NL)
            BY <3>1, <4>1
          <5> QED
            BY <3>5, <3>6, <5>1
        <4>2. CASE q # p
          <5>1. got'[q] = got[q] /\ n'[q] = n[q] /\ target'[q] = target[q] /\ cpc'[q] = cpc[q]
            BY <3>1, <4>2
          <5> QED
            BY <5>1
        <4> QED
          BY <4>1, <4>2
      <3> QED
        BY <3>7
    <2>7. CASE kill(p)
      BY <2>7 DEF kill
    <2>8. CASE exit(p)
      BY <2>8 DEF exit, reader
    <2> QED
      BY <1>3, <2>1, <2>2, <2>3, <2>4, <2>5, <2>6, <2>7, <2>8 DEF reading
  <1>4. CASE UNCHANGED convars
    BY <1>4 DEF convars, input, reader, Reads, ReadsAt
  <1> QED
    BY <1>1, <1>2, <1>3, <1>4 DEF ConsoleNext, consoleintr

-----------------------------------------------------------------------------
(* The refinement.                                                         *)

Ready == Part(r, Minus(w, r))
Line == Part(w, Minus(e, w))

\* The characters of the ring in order, and where the indices stand.
LEMMA RingIs ==
  ASSUME IndexInv
  PROVE  /\ r \in Counter /\ w \in Counter /\ e \in Counter /\ Ordered(r, w, e) /\ buf \in [Index -> Chars]
         /\ Minus(w, r) \in 0..INPUT_BUF /\ Minus(e, w) \in 0..INPUT_BUF /\ Minus(e, r) \in 0..INPUT_BUF
         /\ Ready = Cut(buf, r, Minus(w, r)) /\ Line = Cut(buf, w, Minus(e, w))
         /\ Ready \in Seq(Chars) /\ Line \in Seq(Chars)
         /\ Len(Ready) = Minus(w, r) /\ Len(Line) = Minus(e, w) /\ Len(Ready) + Len(Line) = Minus(e, r)
  <1>1. r \in Counter /\ w \in Counter /\ e \in Counter /\ Ordered(r, w, e) /\ buf \in [Index -> Chars]
    BY DEF IndexInv, ConsoleTypeOK, RingOrder, Ordered, Chars
  <1>2. Minus(w, r) \in 0..INPUT_BUF /\ Minus(e, w) \in 0..INPUT_BUF /\ Minus(e, r) \in 0..INPUT_BUF
    <2>1. Minus(w, r) \in Nat /\ Minus(e, w) \in Nat /\ Minus(e, r) \in Nat /\ INPUT_BUF \in Nat
      BY <1>1, MinusCases, ConsoleAssumption DEF Counter, ConsoleAssumption
    <2> QED
      BY <1>1, <2>1 DEF Ordered
  <1>3. Ready = Cut(buf, r, Minus(w, r)) /\ Line = Cut(buf, w, Minus(e, w))
    BY <1>1, <1>2, PartIsCut DEF Ready, Line
  <1>4. Minus(w, r) \in Nat /\ Minus(e, w) \in Nat
    BY <1>2
  <1>5. /\ Ready \in Seq(Chars) /\ Line \in Seq(Chars)
        /\ Len(Ready) = Minus(w, r) /\ Len(Line) = Minus(e, w)
    BY <1>1, <1>3, <1>4, CutSeq
  <1> QED
    BY <1>1, <1>2, <1>3, <1>5 DEF Ordered

\* The same of the next state.
LEMMA RingIsNext ==
  ASSUME IndexInv'
  PROVE  /\ Ready' = Cut(buf', r', Minus(w', r')) /\ Line' = Cut(buf', w', Minus(e', w'))
         /\ r' \in Counter /\ w' \in Counter /\ e' \in Counter
  <1>1. (r \in Counter /\ w \in Counter /\ e \in Counter)' /\ Ordered(r', w', e')
    BY DEF IndexInv, ConsoleTypeOK, RingOrder, Ordered, Minus
  <1>2. Minus(w', r') \in 0..INPUT_BUF /\ Minus(e', w') \in 0..INPUT_BUF
    <2>1. Minus(w', r') \in Nat /\ Minus(e', w') \in Nat /\ Minus(e', r') \in Nat /\ INPUT_BUF \in Nat
      BY <1>1, MinusCases, ConsoleAssumption DEF Counter, ConsoleAssumption
    <2> QED
      BY <1>1, <2>1 DEF Ordered
  <1>3. ASSUME NEW x \in Counter, NEW k \in 0..INPUT_BUF
        PROVE  [i \in 1..k |-> buf'[Plus(x, i - 1) % INPUT_BUF]] = Cut(buf', x, k)
    <2>1. ASSUME NEW i \in 1..k PROVE Plus(x, i - 1) % INPUT_BUF = (x + i - 1) % INPUT_BUF
      <3>1. i - 1 \in 0..Width - 1 /\ x + (i - 1) = x + i - 1
        BY ConsoleAssumption DEF ConsoleAssumption, Counter
      <3> QED
        BY <3>1, Places
    <2> QED
      BY <2>1 DEF Cut
  <1>4. /\ Ready' = [i \in 1..Minus(w', r') |-> buf'[Plus(r', i - 1) % INPUT_BUF]]
        /\ Line' = [i \in 1..Minus(e', w') |-> buf'[Plus(w', i - 1) % INPUT_BUF]]
    BY DEF Ready, Line, Part, Minus, Plus
  <1> QED
    BY <1>1, <1>2, <1>3, <1>4

\* The interrupt handler types, erases a character or erases the line.
LEMMA IntrStep ==
  ASSUME IndexInv, IndexInv', LineInv, consoleintr
  PROVE  Lines!Next
  <1> DEFINE Step(c) == /\ Len(Ready) + Len(Line) < INPUT_BUF
                        /\ IF c \in {NL, EOF} \/ Len(Ready) + Len(Line) + 1 = INPUT_BUF
                           THEN Ready' = Ready \o Append(Line, c) /\ Line' = <<>>
                           ELSE Line' = Append(Line, c) /\ UNCHANGED Ready
                        /\ UNCHANGED <<InRead, got>>
  <1>0. InRead' = InRead
    <2>1. cpc' = cpc \/ cpc' = Woken
      BY DEF consoleintr, type, backspace, killline, reader
    <2> QED
      BY <2>1 DEF InRead, Woken
  <1>1. ASSUME NEW c \in Chars, Step(c) PROVE Lines!Next
    BY <1>1 DEF Lines!Next, Lines!Type, Ready, Line, Chars
  <1>2. ASSUME NEW c \in Chars, type(c) PROVE Step(c)
    <2>1. /\ Minus(e, r) < INPUT_BUF /\ e' \in Counter /\ r' = r
          /\ Minus(e', r) = Minus(e, r) + 1 /\ Minus(e', w) = Minus(e, w) + 1
          /\ Cut(buf', r, Minus(w, r)) = Cut(buf, r, Minus(w, r))
          /\ Cut(buf', r, Minus(e', r)) = Append(Cut(buf, r, Minus(e, r)), c)
          /\ Cut(buf', w, Minus(e', w)) = Append(Cut(buf, w, Minus(e, w)), c)
          /\ Ends(c) <=> (c \in {NL, EOF} \/ Minus(e, r) + 1 = INPUT_BUF)
      BY <1>2, TypeStep
    <2>2. Len(Ready) + Len(Line) = Minus(e, r) /\ got' = got
      BY <1>2, RingIs DEF type
    <2>3. CASE Ends(c)
      <3>1. w' = e' /\ r' = r
        BY <1>2, <2>1, <2>3 DEF type
      <3>2. Line' = <<>>
        <4>1. Minus(e', w') = 0
          BY <2>1, <3>1, MinusSelf
        <4>2. Cut(buf', w', 0) = <<>>
          BY DEF Cut
        <4> QED
          BY <4>1, <4>2, RingIsNext
      <3>3. Ready' = Append(Cut(buf, r, Minus(e, r)), c)
        BY <2>1, <3>1, RingIsNext
      <3>4. Cut(buf, r, Minus(e, r)) = Ready \o Line
        <4>1. r \in Counter /\ w \in Counter /\ e \in Counter /\ Ordered(r, w, e) /\ buf \in [Index -> Chars]
          BY RingIs
        <4>2. Cut(buf, r, Minus(e, r)) = Cut(buf, r, Minus(w, r)) \o Cut(buf, w, Minus(e, w))
          BY <4>1, CutConcat
        <4>3. Ready = Cut(buf, r, Minus(w, r)) /\ Line = Cut(buf, w, Minus(e, w))
          BY RingIs
        <4> HIDE DEF Ready, Line
        <4> QED
          BY <4>2, <4>3
      <3>5. Append(Ready \o Line, c) = Ready \o Append(Line, c)
        <4>1. Ready \in Seq(Chars) /\ Line \in Seq(Chars)
          BY RingIs
        <4> HIDE DEF Ready, Line
        <4> QED
          BY <4>1
      <3> QED
        BY <1>0, <2>1, <2>2, <2>3, <3>2, <3>3, <3>4, <3>5
    <2>4. CASE ~Ends(c)
      <3>1. w' = w /\ r' = r
        BY <1>2, <2>4 DEF type
      <3>2. Line' = Append(Line, c)
        BY <2>1, <3>1, RingIs, RingIsNext
      <3>3. Ready' = Ready
        BY <2>1, <3>1, RingIs, RingIsNext
      <3> QED
        BY <1>0, <2>1, <2>2, <2>4, <3>2, <3>3
    <2> QED
      BY <2>3, <2>4
  <1>3. ASSUME NEW k \in 0..Minus(e, w), e' = Minus(e, k), UNCHANGED <<buf, r, w>>
        PROVE  Ready' = Ready /\ Line' = Cut(buf, w, Minus(e, w) - k)
    <2>1. Minus(e', w') = Minus(e, w) - k
      BY <1>3, RingIs, EraseOrder
    <2> QED
      BY <1>3, <2>1, RingIs, RingIsNext
  <1>4. CASE backspace
    <2>1. 1 \in 0..Minus(e, w)
      BY <1>4, RingIs, MinusApart DEF backspace
    <2>2. Ready' = Ready /\ Line' = Cut(buf, w, Minus(e, w) - 1) /\ got' = got
      BY <1>3, <1>4, <2>1 DEF backspace, reader
    <2>3. Minus(e, w) \in Nat /\ Minus(e, w) > 0
      BY <2>1, RingIs
    <2>4. Line # <<>> /\ Line' = SubSeq(Line, 1, Len(Line) - 1)
      BY <2>2, <2>3, RingIs, CutFront
    <2>5. Lines!Erase
      BY <1>0, <2>2, <2>4 DEF Lines!Erase, Ready, Line
    <2> QED
      BY <2>5 DEF Lines!Next
  <1>5. CASE killline
    <2> DEFINE m == Minus(e, w)
               back == {k \in 0..m : \A j \in 1..k : buf[Minus(e, j) % INPUT_BUF] # NL}
    <2>1. PICK k \in back : (\A j \in back : j <= k) /\ e' = Minus(e, k)
      BY <1>5 DEF killline
    <2>2. m \in Nat /\ w \in Counter /\ e \in Counter /\ k \in 0..m /\ m <= INPUT_BUF
      BY RingIs
    <2>3. m \in back
      <3> SUFFICES ASSUME NEW j \in 1..m PROVE buf[Minus(e, j) % INPUT_BUF] # NL
        BY <2>2
      <3>1. m - j + 1 \in 1..m /\ m - j \in Nat /\ w + (m - j + 1) - 1 = w + (m - j)
        BY <2>2 DEF Counter
      <3>2. buf[(w + (m - j)) % INPUT_BUF] # NL
        BY <3>1 DEF LineInv
      <3>3. j \in 0..m
        BY <2>2
      <3>4. Minus(e, j) \in Counter /\ Minus(Minus(e, j), w) = m - j
        BY <2>2, <3>3, RingIs, EraseOrder
      <3>5. (w + (m - j) + 0) % INPUT_BUF = (Minus(e, j) + 0) % INPUT_BUF
        BY <2>2, <3>4, Places
      <3>6. w + (m - j) + 0 = w + (m - j) /\ Minus(e, j) + 0 = Minus(e, j)
        BY <2>2, <3>1, <3>4 DEF Counter
      <3> QED
        BY <3>2, <3>5, <3>6
    <2>4. k = m
      <3>1. m <= k
        BY <2>1, <2>3
      <3> HIDE DEF m
      <3> QED
        BY <2>2, <3>1
    <2>5. Ready' = Ready /\ Line' = Cut(buf, w, m - k) /\ got' = got
      BY <1>3, <1>5, <2>1, <2>2 DEF killline, reader
    <2>6. Line' = <<>>
      <3>1. m - k = 0 /\ Cut(buf, w, 0) = <<>>
        BY <2>2, <2>4 DEF Cut
      <3> QED
        BY <2>5, <3>1
    <2>7. Lines!KillLine
      BY <1>0, <2>5, <2>6 DEF Lines!KillLine, Ready, Line
    <2> QED
      BY <2>7 DEF Lines!Next
  <1> HIDE DEF Step
  <1> QED
    BY <1>1, <1>2, <1>4, <1>5 DEF consoleintr, Chars

\* A process takes a character or an end of file, returns, or changes nothing.
LEMMA ReaderStep ==
  ASSUME IndexInv, IndexInv', Reads, NEW p \in Proc,
         reading(p) \/ kill(p) \/ exit(p) \/ \E count \in 0..MaxN : consoleread(p, count)
  PROVE  Lines!Next \/ UNCHANGED <<Ready, Line, InRead, got>>
  <1>1. ASSUME UNCHANGED <<buf, r, w, e>> PROVE Ready' = Ready /\ Line' = Line
    BY <1>1 DEF Ready, Line, Part, Minus, Plus
  <1>0. cpc \in [Proc -> {"out", "acquire", "loop", "done", "sleep", "asleep"}]
    BY DEF IndexInv, ConsoleTypeOK
  <1>2. ASSUME Leave(p), cpc[p] # "out" PROVE Lines!Leaves(p)
    <2>1. cpc' = [cpc EXCEPT ![p] = "out"] /\ got' = [got EXCEPT ![p] = <<>>]
      BY <1>2 DEF Leave, Move
    <2>2. p \in InRead /\ InRead' = InRead \ {p}
      BY <1>0, <1>2, <2>1 DEF InRead
    <2> QED
      BY <2>1, <2>2 DEF Lines!Leaves
  <1>8. ASSUME UNCHANGED <<buf, r, w, e>>, Leave(p), cpc[p] # "out" PROVE Lines!Next
    <2>1. Lines!Return(p)
      BY <1>1, <1>2, <1>8 DEF Lines!Return, Ready, Line
    <2> QED
      BY <2>1 DEF Lines!Next
  <1>9. ASSUME NEW l \in {"acquire", "loop", "done", "sleep", "asleep"}, Move(p, l), cpc[p] # "out"
        PROVE  InRead' = InRead
    BY <1>0, <1>9 DEF InRead, Move
  <1>10. CASE \E count \in 0..MaxN : consoleread(p, count)
    <2>1. UNCHANGED <<buf, r, w, e, got>> /\ cpc[p] = "out" /\ cpc' = [cpc EXCEPT ![p] = "acquire"]
      BY <1>10 DEF consoleread, input, InState, Move
    <2>2. p \notin InRead /\ InRead' = InRead \cup {p}
      BY <1>0, <2>1 DEF InRead
    <2>3. Lines!Begin(p)
      BY <1>1, <2>1, <2>2 DEF Lines!Begin, Ready, Line
    <2> QED
      BY <2>3 DEF Lines!Next
  <1>3. ASSUME r # w, r' = Plus(r, 1), UNCHANGED <<buf, w, e>>
        PROVE  Ready # <<>> /\ Head(Ready) = Front /\ Ready' = Tail(Ready) /\ Line' = Line
    <2>1. /\ r \in Counter /\ w \in Counter /\ e \in Counter /\ Ordered(r, w, e) /\ buf \in [Index -> Chars]
          /\ Ready = Cut(buf, r, Minus(w, r)) /\ Line = Cut(buf, w, Minus(e, w)) /\ Minus(w, r) \in 0..INPUT_BUF
      BY RingIs
    <2>2. Minus(w, Plus(r, 1)) = Minus(w, r) - 1 /\ Minus(w, r) \in 1..INPUT_BUF
      BY <1>3, <2>1, TakeOrder
    <2>3. Ready' = Cut(buf, Plus(r, 1), Minus(w, r) - 1) /\ Line' = Line
      BY <1>3, <2>1, <2>2, RingIsNext
    <2> QED
      BY <2>1, <2>2, <2>3, CutTail DEF Front
  <1>4. CASE acquire(p) \/ read_wait(p) \/ read_sleep(p) \/ kill(p) \/ exit(p)
    <2>1. UNCHANGED <<buf, r, w, e, got>>
      BY <1>4 DEF acquire, read_wait, read_sleep, kill, exit, input, reader
    <2>2. InRead' = InRead
      <3>1. CASE acquire(p) \/ read_wait(p) \/ read_sleep(p)
        BY <1>9, <3>1 DEF acquire, read_wait, read_sleep, InState
      <3>2. CASE kill(p)
        <4>1. cpc' = [cpc EXCEPT ![p] = "acquire"] \/ cpc' = cpc
          BY <3>2 DEF kill
        <4>2. cpc[p] # "out"
          BY <3>2 DEF kill
        <4> QED
          BY <1>9, <4>1, <4>2 DEF Move, InRead
      <3>3. CASE exit(p)
        BY <3>3 DEF exit, reader, InRead
      <3> QED
        BY <1>4, <3>1, <3>2, <3>3
    <2> QED
      BY <1>1, <2>1, <2>2
  <1>5. CASE read_done(p) \/ read_killed(p)
    BY <1>8, <1>5 DEF read_done, read_killed, InState, input
  <1>6. CASE read_eof(p)
    <2>1. /\ InState(p, "loop") /\ cpc[p] # "out" /\ r # w /\ Front = EOF /\ Leave(p) /\ UNCHANGED <<buf, w, e>>
          /\ r' = IF n[p] < target[p] THEN r ELSE Plus(r, 1)
      BY <1>6 DEF read_eof, InState
    <2>2. CASE n[p] < target[p]
      BY <1>8, <2>1, <2>2
    <2>3. CASE ~(n[p] < target[p])
      <3>1. got[p] \in Seq(Char \cup {NL}) /\ n[p] \in Int /\ target[p] \in Int /\ got \in [Proc -> Seq(Char \cup {NL})]
        <4>1. got \in [Proc -> Seq(Char \cup {NL})] /\ n \in [Proc -> 0..MaxN] /\ target \in [Proc -> 0..MaxN]
          BY DEF IndexInv, ConsoleTypeOK
        <4>2. got[p] \in Seq(Char \cup {NL}) /\ n[p] \in 0..MaxN /\ target[p] \in 0..MaxN
          BY <4>1
        <4> QED
          BY <4>1, <4>2
      <3>2. Len(got[p]) + n[p] = target[p]
        BY <2>1 DEF Reads, ReadsAt, InState
      <3>3. got[p] = <<>>
        BY <2>3, <3>1, <3>2
      <3>4. Lines!EndOfFile(p)
        BY <1>2, <1>3, <2>1, <2>3, <3>3 DEF Lines!EndOfFile, Ready, Line
      <3> QED
        BY <3>4 DEF Lines!Next
    <2> QED
      BY <2>2, <2>3
  <1>7. CASE read_char(p)
    <2>1. /\ InState(p, "loop") /\ r # w /\ Front # EOF /\ got' = [got EXCEPT ![p] = Append(@, Front)]
          /\ UNCHANGED <<buf, w, e>> /\ r' = Plus(r, 1)
      BY <1>7 DEF read_char
    <2>2. \A i \in DOMAIN got[p] : got[p][i] # NL
      <3>1. got[p] \in Seq(Char \cup {NL})
        BY DEF IndexInv, ConsoleTypeOK
      <3> QED
        BY <2>1, <3>1 DEF Reads, ReadsAt, InState
    <2>3. p \in InRead /\ InRead' = InRead
      <3>1. cpc[p] = "loop" /\ (Move(p, "done") \/ UNCHANGED cpc)
        BY <1>7 DEF read_char, InState
      <3> QED
        BY <1>9, <3>1 DEF InRead
    <2>4. Lines!Deliver(p)
      BY <1>3, <2>1, <2>2, <2>3 DEF Lines!Deliver, Ready, Line
    <2> QED
      BY <2>4 DEF Lines!Next
  <1> QED
    BY <1>4, <1>5, <1>6, <1>7, <1>10 DEF reading

LEMMA InitLines == ConsoleInit => Lines!Init
  <1> SUFFICES ASSUME ConsoleInit PROVE Lines!Init
    OBVIOUS
  <1>1. Minus(0, 0) = 0
    BY MinusSelf, ConsoleAssumption DEF ConsoleAssumption, Counter
  <1>2. Part(0, 0) = <<>>
    BY DEF Part
  <1> QED
    BY <1>1, <1>2 DEF ConsoleInit, Lines!Init, InRead

LEMMA LineStep ==
  IndexInv /\ IndexInv' /\ LineInv /\ Reads /\ [ConsoleNext]_convars => [Lines!Next]_(Lines!vars)
  <1> SUFFICES ASSUME IndexInv, IndexInv', LineInv, Reads, [ConsoleNext]_convars
               PROVE  Lines!Next \/ UNCHANGED <<Ready, Line, InRead, got>>
    BY DEF Lines!vars, Ready, Line
  <1>1. CASE UNCHANGED convars
    BY <1>1 DEF convars, input, reader, Ready, Line, InRead, Part, Minus, Plus
  <1>2. CASE consoleintr
    BY <1>2, IntrStep
  <1> QED
    BY <1>1, <1>2, ReaderStep DEF ConsoleNext

\* The ring with its free running indices implements the line discipline, for every
\* number of readers, every size of the ring and every width of the indices that the
\* size divides: what is read is what was typed, edited and finished, each character
\* once and in order across every wrap of the indices (console.c:194-274).
THEOREM ConsoleImplementsLineDiscipline == ConsoleSpec => IsLineDiscipline
  <1>1. ConsoleInit => LineInv /\ Reads
    <2> SUFFICES ASSUME ConsoleInit PROVE LineInv /\ Reads
      OBVIOUS
    <2>1. Minus(0, 0) = 0
      BY MinusSelf, ConsoleAssumption DEF ConsoleAssumption, Counter
    <2> QED
      BY <2>1 DEF ConsoleInit, LineInv, Reads, ReadsAt
  <1>2. IndexInv /\ LineInv /\ Reads /\ [ConsoleNext]_convars => (LineInv /\ Reads)'
    BY NextLine, NextReads DEF IndexInv
  <1>3. ConsoleSpec => [](LineInv /\ Reads)
    BY <1>1, <1>2, IndexAlways, PTL DEF ConsoleSpec
  <1> QED
    BY <1>3, InitLines, LineStep, IndexAlways, PTL DEF ConsoleSpec, IsLineDiscipline, Lines!Spec
=============================================================================
