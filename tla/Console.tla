------------------------------ MODULE Console ------------------------------
(***************************************************************************)
(* Console input (console.c): the interrupt handler edits a line in a ring *)
(* of INPUT_BUF characters, readers take finished lines from it.  The read *)
(* index r, the write index w (end of the finished lines) and the edit     *)
(* index e are unsigned and run freely.                                    *)
(*                                                                         *)
(* Granularity.  The interrupt handler is one step per character.  A       *)
(* reader holds cons.lock from one sleep() to the next; it is cut after    *)
(* each character and between the test of killed and sleep(), because      *)
(* kill() does not need the lock.                                          *)
(***************************************************************************)
EXTENDS Integers, Sequences

CONSTANTS
  Proc, None,
  Char, NL, EOF,    \* ordinary characters, '\n' and ^D
  INPUT_BUF,        \* characters in the ring
  Width,            \* number of values of the indices (2^32 in the kernel)
  MaxN              \* bound on the count argument of read()

ASSUME ConsoleAssumption ==
  /\ None \notin Proc /\ NL # EOF /\ {NL, EOF} \cap Char = {}
  /\ INPUT_BUF \in Nat \ {0} /\ Width \in Nat /\ Width % INPUT_BUF = 0 /\ INPUT_BUF < Width
  /\ MaxN \in Nat

VARIABLES
  buf, r, w, e,      \* struct input
  conslock,          \* cons.lock
  cpc,               \* where each process is in consoleread()
  n, target,         \* n and target there
  got,               \* what it has copied out so far: the result is their number,
                     \* or -1 for a process that was killed
  killed

input == <<buf, r, w, e>>
reader == <<conslock, cpc, n, target, got>>
convars == <<input, reader, killed>>

Index == 0..INPUT_BUF - 1
Counter == 0..Width - 1
\* Subtraction and increment of unsigned counters.
Minus(x, y) == (x + Width - y) % Width
Plus(x, i) == (x + i) % Width

InState(p, l) == cpc[p] = l
Move(p, l) == cpc' = [cpc EXCEPT ![p] = l]

-----------------------------------------------------------------------------
(* consoleintr(), one character.                                           *)

\* wakeup(&input.r).
Woken == [p \in Proc |-> IF cpc[p] = "asleep" THEN "acquire" ELSE cpc[p]]

\* The character makes the line readable; `c' is the last that fits.
Ends(c) == c \in {NL, EOF} \/ Plus(e, 1) = Plus(r, INPUT_BUF)

type(c) ==
  /\ conslock = None
  /\ Minus(e, r) < INPUT_BUF
  /\ buf' = [buf EXCEPT ![e % INPUT_BUF] = c]
  /\ e' = Plus(e, 1)
  /\ IF Ends(c) THEN w' = Plus(e, 1) /\ cpc' = Woken ELSE UNCHANGED <<w, cpc>>
  /\ UNCHANGED <<r, conslock, n, target, got, killed>>

\* MUTANT of backspace: finished lines can be edited.
MutBackspace ==
  /\ conslock = None /\ e # r
  /\ e' = Minus(e, 1)
  /\ UNCHANGED <<buf, r, w, reader, killed>>

backspace ==
  /\ conslock = None /\ e # w
  /\ e' = Minus(e, 1)
  /\ UNCHANGED <<buf, r, w, reader, killed>>

\* C('U'): back to the last '\n', or to w.
killline ==
  /\ conslock = None
  /\ LET back == {k \in 0..Minus(e, w) : \A j \in 1..k : buf[Minus(e, j) % INPUT_BUF] # NL}
     IN \E k \in back : (\A j \in back : j <= k) /\ e' = Minus(e, k)
  /\ UNCHANGED <<buf, r, w, reader, killed>>

-----------------------------------------------------------------------------
(* consoleread().                                                          *)

consoleread(p, count) ==
  /\ InState(p, "out")
  /\ Move(p, "acquire")
  /\ n' = [n EXCEPT ![p] = count] /\ target' = [target EXCEPT ![p] = count]
  /\ UNCHANGED <<input, conslock, got, killed>>

acquire(p) ==
  /\ InState(p, "acquire") /\ conslock = None
  /\ conslock' = p
  /\ Move(p, "loop")
  /\ UNCHANGED <<input, n, target, got, killed>>

\* release(&cons.lock) and the return, which forgets the locals.
Leave(p) ==
  /\ conslock' = None
  /\ n' = [n EXCEPT ![p] = 0] /\ target' = [target EXCEPT ![p] = 0]
  /\ got' = [got EXCEPT ![p] = <<>>]
  /\ Move(p, "out")

read_done(p) ==
  /\ InState(p, "done") \/ (InState(p, "loop") /\ n[p] = 0)
  /\ Leave(p)
  /\ UNCHANGED <<input, killed>>

read_killed(p) ==
  /\ InState(p, "loop") /\ n[p] > 0 /\ r = w /\ killed[p]
  /\ Leave(p)
  /\ UNCHANGED <<input, killed>>

\* MUTANT of read_wait: cons.lock is released before sleep().
MutReadWait(p) ==
  /\ InState(p, "loop") /\ n[p] > 0 /\ r = w /\ ~killed[p]
  /\ Move(p, "sleep")
  /\ conslock' = None
  /\ UNCHANGED <<input, n, target, got, killed>>

read_wait(p) ==
  /\ InState(p, "loop") /\ n[p] > 0 /\ r = w /\ ~killed[p]
  /\ Move(p, "sleep")
  /\ UNCHANGED <<input, conslock, n, target, got, killed>>

\* sleep(&input.r, &cons.lock).
read_sleep(p) ==
  /\ InState(p, "sleep")
  /\ conslock' = None
  /\ Move(p, "asleep")
  /\ UNCHANGED <<input, n, target, got, killed>>

Front == buf[r % INPUT_BUF]

\* MUTANT of read_eof: ^D is taken although something has been read.
MutReadEof(p) ==
  /\ InState(p, "loop") /\ n[p] > 0 /\ r # w /\ Front = EOF
  /\ r' = Plus(r, 1)
  /\ Leave(p)
  /\ UNCHANGED <<buf, w, e, killed>>

\* ^D: taken by a read that has nothing, left for the next one otherwise.
read_eof(p) ==
  /\ InState(p, "loop") /\ n[p] > 0 /\ r # w /\ Front = EOF
  /\ r' = IF n[p] < target[p] THEN r ELSE Plus(r, 1)
  /\ Leave(p)
  /\ UNCHANGED <<buf, w, e, killed>>

\* A character; '\n' ends the read.
read_char(p) ==
  /\ InState(p, "loop") /\ n[p] > 0 /\ r # w /\ Front # EOF
  /\ r' = Plus(r, 1)
  /\ n' = [n EXCEPT ![p] = @ - 1]
  /\ got' = [got EXCEPT ![p] = Append(@, Front)]
  /\ IF Front = NL THEN Move(p, "done") ELSE UNCHANGED cpc
  /\ UNCHANGED <<buf, w, e, conslock, target, killed>>

\* kill(): a sleeping process is woken.
kill(p) ==
  /\ ~killed[p] /\ cpc[p] # "out"
  /\ killed' = [killed EXCEPT ![p] = TRUE]
  /\ cpc' = IF cpc[p] = "asleep" THEN [cpc EXCEPT ![p] = "acquire"] ELSE cpc
  /\ UNCHANGED <<input, conslock, n, target, got>>

\* The killed process exits; another one takes its place.
exit(p) ==
  /\ killed[p] /\ InState(p, "out")
  /\ killed' = [killed EXCEPT ![p] = FALSE]
  /\ UNCHANGED <<input, reader>>

-----------------------------------------------------------------------------

ConsoleInit ==
  /\ buf = [i \in Index |-> NL] /\ r = 0 /\ w = 0 /\ e = 0
  /\ conslock = None
  /\ cpc = [p \in Proc |-> "out"]
  /\ n = [p \in Proc |-> 0] /\ target = [p \in Proc |-> 0]
  /\ got = [p \in Proc |-> <<>>]
  /\ killed = [p \in Proc |-> FALSE]

consoleintr == (\E c \in Char \cup {NL, EOF} : type(c)) \/ backspace \/ killline

reading(p) == \/ acquire(p) \/ read_done(p) \/ read_killed(p) \/ read_wait(p) \/ read_sleep(p)
              \/ read_eof(p) \/ read_char(p)

ConsoleNext ==
  \/ consoleintr
  \/ \E p \in Proc : reading(p) \/ kill(p) \/ exit(p) \/ \E count \in 0..MaxN : consoleread(p, count)

ConsoleSpec == ConsoleInit /\ [][ConsoleNext]_convars

-----------------------------------------------------------------------------
(* Properties.                                                             *)

ConsoleTypeOK ==
  /\ buf \in [Index -> Char \cup {NL, EOF}] /\ {r, w, e} \subseteq Counter
  /\ conslock \in Proc \cup {None}
  /\ cpc \in [Proc -> {"out", "acquire", "loop", "done", "sleep", "asleep"}]
  /\ n \in [Proc -> 0..MaxN] /\ target \in [Proc -> 0..MaxN]
  /\ got \in [Proc -> Seq(Char \cup {NL})]
  /\ killed \in [Proc -> BOOLEAN]

\* The three indices stay in order around the ring: what can be read comes
\* before what is being typed, and both fit.
RingOrder == Minus(w, r) + Minus(e, w) = Minus(e, r) /\ Minus(e, r) <= INPUT_BUF

\* Nobody sleeps while there is a finished line.
ReaderAwake == \A p \in Proc : cpc[p] = "asleep" => r = w

\* Characters from index x, k of them.
Part(x, k) == [i \in 1..k |-> buf[Plus(x, i - 1) % INPUT_BUF]]

\* The processes in consoleread().
InRead == {p \in Proc : cpc[p] # "out"}

Lines == INSTANCE LineDiscipline WITH ready <- Part(r, Minus(w, r)), line <- Part(w, Minus(e, w)),
                                      reads <- InRead, Capacity <- INPUT_BUF

\* The ring is a line discipline: lines are read as they were typed and edited.
IsLineDiscipline == Lines!Spec
=============================================================================
