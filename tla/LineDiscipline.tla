--------------------------- MODULE LineDiscipline ---------------------------
(***************************************************************************)
(* What the console promises to the processes that read it: whole lines,   *)
(* edited as they were typed, each character to one reader, no read() past *)
(* the end of a line, and an end of file that is seen as an empty read.    *)
(* Console.tla is shown to implement this specification.                   *)
(***************************************************************************)
EXTENDS Naturals, Sequences

CONSTANTS Proc, Char, NL, EOF,
          Capacity     \* characters the console keeps

VARIABLES ready,    \* characters that can be read, oldest first
          line,     \* the line that is being typed
          reads,    \* the processes that are in a read()
          got       \* what the read() of each process has received so far

vars == <<ready, line, reads, got>>

Init == ready = <<>> /\ line = <<>> /\ reads = {} /\ got = [p \in Proc |-> <<>>]

\* A character ends the line, or is the last one that fits, or joins the line.
Type(c) ==
  /\ Len(ready) + Len(line) < Capacity
  /\ IF c \in {NL, EOF} \/ Len(ready) + Len(line) + 1 = Capacity
     THEN ready' = ready \o Append(line, c) /\ line' = <<>>
     ELSE line' = Append(line, c) /\ UNCHANGED ready
  /\ UNCHANGED <<reads, got>>

Erase == line # <<>> /\ line' = SubSeq(line, 1, Len(line) - 1) /\ UNCHANGED <<ready, reads, got>>
KillLine == line' = <<>> /\ UNCHANGED <<ready, reads, got>>

Begin(p) == p \notin reads /\ reads' = reads \cup {p} /\ UNCHANGED <<ready, line, got>>

\* The read() returns.
Leaves(p) == p \in reads /\ reads' = reads \ {p} /\ got' = [got EXCEPT ![p] = <<>>]

Return(p) == Leaves(p) /\ UNCHANGED <<ready, line>>

Deliver(p) ==
  /\ p \in reads
  /\ ready # <<>> /\ Head(ready) # EOF
  /\ \A i \in DOMAIN got[p] : got[p][i] # NL
  /\ got' = [got EXCEPT ![p] = Append(@, Head(ready))]
  /\ ready' = Tail(ready)
  /\ UNCHANGED <<line, reads>>

\* An end of file is taken by a read() that has nothing else to return, and that
\* returns with nothing.
EndOfFile(p) ==
  /\ ready # <<>> /\ Head(ready) = EOF /\ got[p] = <<>>
  /\ ready' = Tail(ready)
  /\ Leaves(p)
  /\ UNCHANGED line

Next ==
  \/ \E c \in Char \cup {NL, EOF} : Type(c)
  \/ Erase \/ KillLine
  \/ \E p \in Proc : Begin(p) \/ Return(p) \/ Deliver(p) \/ EndOfFile(p)

Spec == Init /\ [][Next]_vars
=============================================================================
