------------------------------- MODULE FileIO -------------------------------
(***************************************************************************)
(* read(), write() and lseek() on open files (fileread, filewrite and      *)
(* fileseek in file.c, readi and writei in fs.c).  Several struct files    *)
(* refer to one inode, and several processes may share a struct file.  The *)
(* inode is a regular file, or the console, whose reads end in Console.    *)
(*                                                                         *)
(* Granularity.  f->off and ip->size are read and written one access per   *)
(* step, because fileseek() holds no lock (it tests the size and computes  *)
(* the length of the hole from one value); what readi() and writei() do    *)
(* with the inode locked is one step.  Of the bytes only their place is    *)
(* kept.  lseek() and O_TRUNC on the console are left out, and so is the   *)
(* offset of a console file, which nothing uses.                           *)
(***************************************************************************)
EXTENDS Console

CONSTANTS
  File,      \* open struct files
  Modes,     \* the modes they may have been opened in: functions on File
  CHUNK,     \* bytes in one transaction, the max of filewrite()
  PGSIZE,    \* bytes of zeros fileseek() writes at once
  MAXFILE,   \* limit of the size of a file
  MaxOff     \* bound on the offsets lseek() is asked for

ASSUME FileIOAssumption ==
  /\ Modes \subseteq [File -> {"read", "write", "append"}]
  /\ None \notin File \cup 0..MaxOff
  /\ {CHUNK, PGSIZE} \subseteq Nat \ {0} /\ {MAXFILE, MaxOff} \subseteq Nat

VARIABLES
  dev,         \* the inode is the console
  mode,        \* f->readable, f->writable: "append" is a writable file with FILE_APPENDABLE
  off,         \* f->off
  size,        \* ip->size
  ilock,       \* the holder of ip->lock
  pc,          \* where each process is
  file,        \* the struct file of its call
  left,        \* bytes the read or write still has to do
  r_,          \* result of the last readi() or writei()
  tot, hole,   \* tot_offset and new_fbytes of fileseek()
  moved,       \* ghost: where the bytes moved since the last lseek() have brought the offset
  sought,      \* ghost: files in an lseek(), or in a call that has overlapped one
  rough        \* ghost: files whose offset may be behind the end

call == <<pc, file, left, r_, tot, hole>>
ghost == <<moved, sought, rough>>
iovars == <<dev, mode, off, size, ilock, call, ghost, convars>>

At(p, l) == pc[p] = l
Goto(p, l) == pc' = [pc EXCEPT ![p] = l]
f(p) == file[p]

SetOff(p, x) == off' = [off EXCEPT ![f(p)] = x]
Lock(p) == ilock = None /\ ilock' = p
Unlock == ilock' = None

\* Back to user code: the locals of the call are gone.
Return(p) ==
  /\ Goto(p, "out")
  /\ file' = [file EXCEPT ![p] = None] /\ left' = [left EXCEPT ![p] = 0]
  /\ r_' = [r_ EXCEPT ![p] = 0]
  /\ tot' = [tot EXCEPT ![p] = None] /\ hole' = [hole EXCEPT ![p] = 0]

\* readi() or writei() has moved k bytes; not counted while an lseek() is about, and
\* for appending files.
Count(p, k) ==
  moved' = [moved EXCEPT ![f(p)] = IF f(p) \in sought \/ mode[f(p)] = "append" THEN 0 ELSE @ + k]

Seeks(g) == \E p \in Proc : file[p] = g /\ tot[p] # None
LastCall(p) == \A q \in Proc \ {p} : file[q] # f(p)

\* Another process has moved data and not yet advanced the offset.
Between(p) == \E q \in Proc \ {p} : file[q] = f(p) /\ pc[q] \in {"r_advance", "w_advance"}

\* The ghosts when the offset is set: to be lost in another call's advance, or to
\* count from again when no other call is under way.
Blur(p) == rough' = IF Between(p) THEN rough \cup {f(p)} ELSE rough
Settle(p) ==
  IF LastCall(p)
  THEN /\ sought' = sought \ {f(p)}
       /\ moved' = [moved EXCEPT ![f(p)] = IF f(p) \in sought /\ mode[f(p)] # "append" THEN off'[f(p)] ELSE @]
       /\ rough' = IF off'[f(p)] <= size THEN rough \ {f(p)} ELSE rough
  ELSE Blur(p) /\ UNCHANGED <<moved, sought>>

-----------------------------------------------------------------------------
(* The system calls.                                                       *)

Call(p, g, l, count) ==
  /\ At(p, "out")
  /\ Goto(p, l)
  /\ file' = [file EXCEPT ![p] = g]
  /\ left' = [left EXCEPT ![p] = count]
  /\ UNCHANGED <<dev, mode, off, size, ilock, r_, hole, convars>>

sys_read(p, g, count) ==
  /\ Call(p, g, "r_lock", count)
  /\ UNCHANGED <<tot, ghost>>

\* A write of nothing, or to a file that is not writable, does nothing.
sys_write(p, g, count) ==
  /\ mode[g] # "read" /\ count > 0
  /\ Call(p, g, "w_lock", count)
  /\ UNCHANGED <<tot, ghost>>

\* fileseek() up to the test of tot_offset < 0.
sys_lseek(p, g, offset, whence) ==
  LET to == CASE whence = "SET" -> offset [] whence = "CUR" -> off[g] + offset
              [] whence = "END" -> size + offset
  IN /\ ~dev /\ to \in 0..MaxOff
     /\ Call(p, g, "s_test", 0)
     /\ tot' = [tot EXCEPT ![p] = to]
     /\ rough' = IF Seeks(g) THEN rough \cup {g} ELSE rough
     /\ sought' = sought \cup {g} /\ moved' = [moved EXCEPT ![g] = 0]

\* open() with O_TRUNC, through another struct file: offsets are left behind the end,
\* and an lseek() under way has taken its length of the hole from the old size.
open_trunc(p) ==
  /\ At(p, "out") /\ ~dev /\ ilock = None
  /\ size' = 0
  /\ rough' = rough \cup {g \in File : off[g] > 0 \/ Seeks(g)}
  /\ UNCHANGED <<dev, mode, off, ilock, call, moved, sought, convars>>

-----------------------------------------------------------------------------
(* fileread(): ilock, readi, f->off += r, iunlock.                         *)

\* MUTANT of r_lock: the offset is used without the lock of the inode.
MutRLock(p) ==
  /\ At(p, "r_lock") /\ ilock = None /\ UNCHANGED ilock
  /\ Goto(p, "r_read")
  /\ UNCHANGED <<dev, mode, off, size, file, left, r_, tot, hole, ghost, convars>>

r_lock(p) ==
  /\ At(p, "r_lock") /\ Lock(p)
  /\ Goto(p, "r_read")
  /\ UNCHANGED <<dev, mode, off, size, file, left, r_, tot, hole, ghost, convars>>

Smaller(x, y) == IF x < y THEN x ELSE y

\* readi() of a regular file: nothing is read from beyond the end.
readi(p) ==
  /\ At(p, "r_read") /\ ~dev
  /\ LET o == off[f(p)]
         r0 == IF o > size THEN -1 ELSE Smaller(left[p], size - o)
     IN /\ r_' = [r_ EXCEPT ![p] = r0]
        /\ Count(p, IF r0 > 0 THEN r0 ELSE 0)
  /\ Goto(p, "r_advance")
  /\ UNCHANGED <<dev, mode, off, size, ilock, file, left, tot, hole, sought, rough, convars>>

Advance(p) == IF r_[p] > 0 THEN SetOff(p, off[f(p)] + r_[p]) ELSE UNCHANGED off

r_advance(p) ==
  /\ At(p, "r_advance") /\ Advance(p)
  /\ Unlock
  /\ Return(p) /\ Settle(p)
  /\ UNCHANGED <<dev, mode, size, convars>>

\* readi() of the console: consoleread() gives the inode up, and takes it again
\* at the end.
read_console(p) ==
  /\ At(p, "r_read") /\ dev
  /\ consoleread(p, left[p])
  /\ Unlock
  /\ Goto(p, "c_relock") /\ left' = [left EXCEPT ![p] = 0]
  /\ UNCHANGED <<dev, mode, off, size, file, r_, tot, hole, ghost>>

\* writei() of the console: the same, with cons.lock held for the output.
write_console(p) ==
  /\ At(p, "w_write") /\ dev
  /\ Unlock
  /\ Goto(p, "c_write")
  /\ UNCHANGED <<dev, mode, off, size, file, left, r_, tot, hole, ghost, convars>>

consolewrite(p) ==
  /\ At(p, "c_write") /\ conslock = None
  /\ Goto(p, "c_relock") /\ left' = [left EXCEPT ![p] = @ - Smaller(@, CHUNK)]
  /\ UNCHANGED <<dev, mode, off, size, ilock, file, r_, tot, hole, ghost, convars>>

\* ilock() at the end of consoleread() and consolewrite(), and iunlock() of the
\* caller; filewrite() goes on with what is left of a long write.
c_relock(p) ==
  /\ At(p, "c_relock") /\ InState(p, "out") /\ ilock = None
  /\ IF left[p] > 0 THEN Goto(p, "w_lock") /\ UNCHANGED <<file, left, r_, tot, hole>>
                    ELSE Return(p)
  /\ UNCHANGED <<dev, mode, off, size, ilock, ghost, convars>>

-----------------------------------------------------------------------------
(* filewrite(): one transaction for every CHUNK bytes.                     *)

\* MUTANT of w_lock: the inode is not kept locked.
MutWLock(p) ==
  /\ At(p, "w_lock") /\ ilock = None /\ UNCHANGED ilock
  /\ Goto(p, IF mode[f(p)] = "append" THEN "w_append" ELSE "w_write")
  /\ UNCHANGED <<dev, mode, off, size, file, left, r_, tot, hole, ghost, convars>>

w_lock(p) ==
  /\ At(p, "w_lock") /\ Lock(p)
  /\ Goto(p, IF mode[f(p)] = "append" THEN "w_append" ELSE "w_write")
  /\ UNCHANGED <<dev, mode, off, size, file, left, r_, tot, hole, ghost, convars>>

\* fileseek(f, 0, SEEK_END) of an appending file; the size cannot change.
w_append(p) ==
  /\ At(p, "w_append")
  /\ SetOff(p, size)
  /\ Goto(p, "w_write")
  /\ UNCHANGED <<dev, mode, size, ilock, file, left, r_, tot, hole, ghost, convars>>

\* writei() of a regular file.
writei(p) ==
  /\ At(p, "w_write") /\ ~dev
  /\ LET o == off[f(p)]
         n1 == Smaller(left[p], CHUNK)
         ok == o <= size /\ o + n1 <= MAXFILE
     IN /\ r_' = [r_ EXCEPT ![p] = IF ok THEN n1 ELSE -1]
        /\ IF ok THEN /\ size' = IF o + n1 > size THEN o + n1 ELSE size
                      /\ Count(p, n1)
                      /\ UNCHANGED rough
                 ELSE /\ rough' = IF tot[p] # None THEN rough \cup {f(p)} ELSE rough
                      /\ UNCHANGED <<size, moved>>
  /\ Goto(p, "w_advance")
  /\ UNCHANGED <<dev, mode, off, ilock, file, left, tot, hole, sought, convars>>

\* f->off += r, iunlock(), and the next piece; an error ends the write.
w_advance(p) ==
  /\ At(p, "w_advance") /\ Advance(p)
  /\ Unlock
  /\ LET more == IF r_[p] < 0 THEN 0 ELSE left[p] - r_[p]
     IN \/ /\ more = 0 /\ tot[p] = None
           /\ Return(p) /\ Settle(p)
        \/ /\ more > 0 \/ tot[p] # None
           /\ left' = [left EXCEPT ![p] = more]
           /\ Goto(p, IF more > 0 THEN "w_lock" ELSE "s_fill")
           /\ r_' = [r_ EXCEPT ![p] = 0]
           /\ UNCHANGED <<file, tot, hole, ghost>>
  /\ UNCHANGED <<dev, mode, size, convars>>

-----------------------------------------------------------------------------
(* fileseek() from the test of the size on; no lock is held.               *)

s_test(p) ==
  /\ At(p, "s_test")
  /\ IF tot[p] > size THEN hole' = [hole EXCEPT ![p] = tot[p] - size] /\ Goto(p, "s_end")
                      ELSE Goto(p, "s_set") /\ UNCHANGED hole
  /\ UNCHANGED <<dev, mode, off, size, ilock, file, left, r_, tot, ghost, convars>>

\* MUTANT of s_end: the offset is not moved to the end before the hole is filled.
MutSEnd(p) ==
  /\ At(p, "s_end")
  /\ UNCHANGED off
  /\ Goto(p, "s_fill") /\ Blur(p)
  /\ UNCHANGED <<dev, mode, size, ilock, file, left, r_, tot, hole, moved, sought, convars>>

s_end(p) ==
  /\ At(p, "s_end")
  /\ SetOff(p, size)
  /\ Goto(p, "s_fill") /\ Blur(p)
  /\ UNCHANGED <<dev, mode, size, ilock, file, left, r_, tot, hole, moved, sought, convars>>

\* Zeros are written a page at a time; the result of filewrite() is ignored.
s_fill(p) ==
  /\ At(p, "s_fill")
  /\ IF hole[p] > 0 THEN /\ left' = [left EXCEPT ![p] = Smaller(hole[p], PGSIZE)]
                         /\ hole' = [hole EXCEPT ![p] = @ - PGSIZE]
                         /\ Goto(p, IF mode[f(p)] = "read" THEN "s_fill" ELSE "w_lock")
                    ELSE /\ Goto(p, "s_set")
                         /\ UNCHANGED <<left, hole>>
  /\ UNCHANGED <<dev, mode, off, size, ilock, file, r_, tot, ghost, convars>>

s_set(p) ==
  /\ At(p, "s_set")
  /\ SetOff(p, tot[p])
  /\ Return(p) /\ Settle(p)
  /\ UNCHANGED <<dev, mode, size, ilock, convars>>

-----------------------------------------------------------------------------

Init ==
  /\ ConsoleInit
  /\ dev \in BOOLEAN
  /\ mode \in IF dev THEN {[g \in File |-> "write"]} ELSE Modes
  /\ off = [g \in File |-> 0] /\ moved = [g \in File |-> 0]
  /\ size = 0 /\ ilock = None
  /\ pc = [p \in Proc |-> "out"] /\ file = [p \in Proc |-> None]
  /\ left = [p \in Proc |-> 0] /\ r_ = [p \in Proc |-> 0]
  /\ tot = [p \in Proc |-> None] /\ hole = [p \in Proc |-> 0]
  /\ sought = {} /\ rough = {}

reading_file(p) == r_lock(p) \/ readi(p) \/ r_advance(p)
writing(p) == w_lock(p) \/ w_append(p) \/ writei(p) \/ w_advance(p)
console(p) == read_console(p) \/ write_console(p) \/ consolewrite(p) \/ c_relock(p)
fileseek(p) == s_test(p) \/ s_end(p) \/ s_fill(p) \/ s_set(p)

\* What Console does for processes and the keyboard when the inode is the console.
IOAround ==
  /\ dev
  /\ consoleintr \/ \E p \in Proc : reading(p) \/ kill(p) \/ (At(p, "out") /\ exit(p))
  /\ UNCHANGED <<dev, mode, off, size, ilock, call, ghost>>

Whence == {"SET", "CUR", "END"}

Next ==
  \/ \E p \in Proc, g \in File, k \in 0..MaxN : sys_read(p, g, k) \/ sys_write(p, g, k)
  \/ \E p \in Proc, g \in File, offset \in -1..MaxOff, whence \in Whence : sys_lseek(p, g, offset, whence)
  \/ \E p \in Proc : open_trunc(p) \/ reading_file(p) \/ writing(p) \/ console(p) \/ fileseek(p)
  \/ IOAround

Spec == Init /\ [][Next]_iovars

-----------------------------------------------------------------------------
(* Properties.                                                             *)

PC == {"out", "r_lock", "r_read", "r_advance", "c_write", "c_relock", "w_lock", "w_append", "w_write",
       "w_advance", "s_test", "s_end", "s_fill", "s_set"}

\* The state has its type, the console's included: sizes stay below the limit
\* and an inode is locked by the process that is inside (file.c, console.c).
TypeOK ==
  /\ ConsoleTypeOK
  /\ dev \in BOOLEAN /\ mode \in [File -> {"read", "write", "append"}]
  /\ off \in [File -> Nat] /\ size \in 0..MAXFILE
  /\ ilock \in Proc \cup {None}
  /\ pc \in [Proc -> PC] /\ file \in [Proc -> File \cup {None}]
  /\ left \in [Proc -> Nat] /\ r_ \in [Proc -> -1..MAXFILE]
  /\ tot \in [Proc -> 0..MaxOff \cup {None}] /\ hole \in [Proc -> Int]
  /\ moved \in [File -> Nat] /\ sought \subseteq File /\ rough \subseteq File

\* Processes that share a struct file (after fork) share its offset: every read or
\* write starts where the last one, or the last lseek(), left it, so that no byte is
\* read twice or written over; but not calls that an lseek() overlaps, which may lose
\* it (file.c:118, :157, :225).
GoesOn == \A g \in File \ sought : moved'[g] > moved[g] => off[g] = moved[g]
SharedOffset == [][GoesOn]_iovars

\* What is written through a file opened with O_APPEND goes behind what is there,
\* whoever else writes, grows or truncates the file (file.c:153); an lseek() on the
\* same struct file that overlaps the write may move the offset between the steps.
WritesBehind ==
  \A p \in Proc : (/\ At(p, "w_write") /\ ~At(p, "w_write")' /\ ~dev
                   /\ mode[f(p)] = "append" /\ f(p) \notin sought)
                  => off[f(p)] = size
AppendKeeps == [][WritesBehind]_iovars

\* lseek() beyond the end fills the hole: the offset of a file that can be written
\* is never behind the end, whoever reads, writes and extends meanwhile, unless
\* one of the four left it there that the code does not handle: two seeks at once,
\* a seek between another call's data and its offset, a truncation, a hole that
\* could not be filled (file.c:177-234).
OffsetInFile ==
  \A g \in File \ rough : mode[g] # "read" => off[g] <= size
=============================================================================
