---------------------------- MODULE FileIOProofs ----------------------------
(***************************************************************************)
(* Proofs about FileIO for every set of processes and files and every      *)
(* limit.  First that its steps are steps of Console, so that what         *)
(* ConsoleProofs shows of the console holds here.  Then the invariants:    *)
(* the types; Calls, which says what a process that is inside a call has   *)
(* and holds; Append, Moved and Holes for the three properties of offsets. *)
(***************************************************************************)
EXTENDS FileIO, ConsoleProofs

-----------------------------------------------------------------------------
(* Types, and where the processes are.                                     *)

\* TypeOK without the console.
Types ==
  /\ dev \in BOOLEAN /\ mode \in [File -> {"read", "write", "append"}]
  /\ off \in [File -> Nat] /\ size \in 0..MAXFILE
  /\ ilock \in Proc \cup {None}
  /\ pc \in [Proc -> PC] /\ file \in [Proc -> File \cup {None}]
  /\ left \in [Proc -> Nat] /\ r_ \in [Proc -> -1..MAXFILE]
  /\ tot \in [Proc -> 0..MaxOff \cup {None}] /\ hole \in [Proc -> Int]
  /\ moved \in [File -> Nat] /\ sought \subseteq File /\ rough \subseteq File

\* Between ilock() and iunlock(); in fileseek(); in read() or with the console.
Inside == {"r_read", "r_advance", "w_append", "w_write", "w_advance"}
Seeking == {"s_test", "s_end", "s_fill", "s_set"}
NoSeek == {"out", "r_lock", "r_read", "r_advance", "c_write", "c_relock"}

\* What process p has and holds in its call.
InCall(p) ==
  /\ pc[p] # "out" => file[p] \in File
  /\ pc[p] \in Inside => ilock = p
  /\ pc[p] \in Seeking => tot[p] # None
  /\ pc[p] \in NoSeek => tot[p] = None
  /\ tot[p] # None => ~dev /\ file[p] \in sought
  /\ pc[p] = "w_append" => mode[file[p]] = "append"
  /\ pc[p] \in {"r_advance", "w_advance"} => ~dev
  /\ pc[p] = "w_advance" => r_[p] <= left[p]
  /\ pc[p] \in {"r_lock", "r_read"} => left[p] \in 0..MaxN

Calls == Types /\ \A p \in Proc : InCall(p)

\* What process p does leaves the others in their calls.
LEMMA OthersInCall ==
  ASSUME NEW p \in Proc, Calls, dev' = dev, mode' = mode,
         ilock' = ilock \/ ilock \in {None, p},
         NEW q \in Proc, q # p, file[q] \in sought => file[q] \in sought',
         pc'[q] = pc[q], file'[q] = file[q], left'[q] = left[q], r_'[q] = r_[q], tot'[q] = tot[q]
  PROVE  InCall(q)'
  <1>1. InCall(q) /\ None \notin Proc
    BY ConsoleAssumption DEF Calls, ConsoleAssumption
  <1>2. pc[q] \in Inside => ilock' = q
    BY <1>1 DEF InCall
  <1> QED
    BY <1>1, <1>2 DEF InCall

LEMMA InitCalls == Init => Calls
  <1> SUFFICES ASSUME Init PROVE Calls
    OBVIOUS
  <1>1. 0 \in Nat /\ 0 \in 0..MAXFILE /\ 0 \in -1..MAXFILE /\ 0 \in Int
    BY FileIOAssumption DEF FileIOAssumption
  <1>2. mode \in [File -> {"read", "write", "append"}]
    BY FileIOAssumption DEF Init, FileIOAssumption
  <1>3. Types
    BY <1>1, <1>2 DEF Init, Types, PC
  <1>4. ASSUME NEW p \in Proc PROVE InCall(p)
    BY DEF Init, InCall, Inside, Seeking
  <1> QED
    BY <1>3, <1>4 DEF Calls

\* The constants in the form the steps use.
LEMMA Limits ==
  /\ MAXFILE \in Nat /\ MaxOff \in Nat /\ CHUNK \in Nat \ {0} /\ PGSIZE \in Nat \ {0} /\ MaxN \in Nat
  /\ None \notin File /\ None \notin 0..MaxOff /\ None \notin Proc
  BY FileIOAssumption, ConsoleAssumption DEF FileIOAssumption, ConsoleAssumption

\* Everything that belongs to process p alone.
Only(p) ==
  \A q \in Proc \ {p} : pc'[q] = pc[q] /\ file'[q] = file[q] /\ left'[q] = left[q] /\ r_'[q] = r_[q]
                        /\ tot'[q] = tot[q] /\ hole'[q] = hole[q]

\* The end of a call.
LEMMA ReturnCalls ==
  ASSUME NEW p \in Proc, Types, Return(p)
  PROVE  /\ pc' \in [Proc -> PC] /\ file' \in [Proc -> File \cup {None}] /\ left' \in [Proc -> Nat]
         /\ r_' \in [Proc -> -1..MAXFILE] /\ tot' \in [Proc -> 0..MaxOff \cup {None}] /\ hole' \in [Proc -> Int]
         /\ pc'[p] = "out" /\ tot'[p] = None /\ Only(p)
  <1>1. 0 \in Nat /\ 0 \in -1..MAXFILE /\ 0 \in Int
    BY Limits
  <1> QED
    BY <1>1 DEF Return, Types, Goto, PC, Only

LEMMA AdvanceTypes ==
  ASSUME NEW p \in Proc, Types, file[p] \in File, Advance(p)
  PROVE  off' \in [File -> Nat]
  <1>1. off \in [File -> Nat] /\ r_[p] \in Int
    BY Limits DEF Types
  <1>2. CASE r_[p] > 0
    <2>1. off[file[p]] + r_[p] \in Nat
      BY <1>1, <1>2
    <2>2. off' = [off EXCEPT ![file[p]] = off[file[p]] + r_[p]]
      BY <1>2 DEF Advance, SetOff, f
    <2> QED
      BY <1>1, <2>1, <2>2
  <1>3. CASE ~(r_[p] > 0)
    BY <1>1, <1>3 DEF Advance
  <1> QED
    BY <1>2, <1>3

\* The end of a call settles what counts for its file, and leaves the other calls alone.
LEMMA Settled ==
  ASSUME NEW p \in Proc, Types, file[p] \in File, off' \in [File -> Nat], size' = size, Return(p), Settle(p)
  PROVE  /\ moved' \in [File -> Nat] /\ sought' \subseteq File /\ rough' \subseteq File
         /\ \A q \in Proc \ {p} : file[q] \in sought => file[q] \in sought'
         /\ \A g \in File : g \notin sought => g \notin sought' /\ moved'[g] = moved[g]
         /\ \A g \in File : g \in sought /\ g \notin sought' =>
              (\A q \in Proc : file'[q] # g) /\ (mode[g] # "append" => moved'[g] = off'[g])
         /\ \A g \in File : g \in rough /\ g \notin rough' => (\A q \in Proc : file'[q] # g) /\ off'[g] <= size'
         /\ file[p] \in rough' \/ ~Between(p)
  <1>1. /\ moved \in [File -> Nat] /\ sought \subseteq File /\ rough \subseteq File
        /\ file' = [file EXCEPT ![p] = None] /\ file \in [Proc -> File \cup {None}] /\ None \notin File
    BY Limits DEF Types, Return
  <1>2. CASE LastCall(p)
    <2>1. /\ sought' = sought \ {file[p]}
          /\ moved' = [moved EXCEPT ![file[p]] = IF file[p] \in sought /\ mode[file[p]] # "append"
                                                  THEN off'[file[p]] ELSE moved[file[p]]]
          /\ rough' = IF off'[file[p]] <= size THEN rough \ {file[p]} ELSE rough
      BY <1>2 DEF Settle, f
    <2>2. \A q \in Proc \ {p} : file[q] # file[p]
      BY <1>2 DEF LastCall, f
    <2>3. \A q \in Proc : file'[q] # file[p]
      BY <1>1, <2>2
    <2> QED
      BY <1>1, <2>1, <2>2, <2>3 DEF Between, f
  <1>3. CASE ~LastCall(p)
    <2>1. moved' = moved /\ sought' = sought /\ rough' = IF Between(p) THEN rough \cup {file[p]} ELSE rough
      BY <1>3 DEF Settle, Blur, f
    <2> QED
      BY <1>1, <2>1
  <1> QED
    BY <1>2, <1>3

\* The system calls begin.
LEMMA EnterCalls ==
  ASSUME NEW p \in Proc, NEW g \in File, Calls,
         (\E k \in 0..MaxN : sys_read(p, g, k) \/ sys_write(p, g, k))
           \/ \E offset \in -1..MaxOff, whence \in Whence : sys_lseek(p, g, offset, whence)
  PROVE  Calls' /\ Only(p)
  <1>1. PICK l \in {"r_lock", "w_lock", "s_test"}, k \in 0..MaxN : Call(p, g, l, k) /\ (l = "s_test" \/ tot' = tot)
                   /\ (l # "s_test" => sought' = sought /\ moved' = moved)
    <2>1. 0 \in 0..MaxN
      BY Limits
    <2> QED
      BY <2>1 DEF sys_read, sys_write, sys_lseek, ghost
  <1>2. l = "s_test" => /\ ~dev /\ tot'[p] \in 0..MaxOff /\ sought' = sought \cup {g}
                        /\ moved' = [moved EXCEPT ![g] = 0]
                        /\ \E x \in 0..MaxOff : tot' = [tot EXCEPT ![p] = x]
    BY <1>1, Limits DEF sys_read, sys_write, sys_lseek, Call, Goto, Types, Calls
  <1>3. rough' \subseteq File
    BY DEF sys_read, sys_write, sys_lseek, Calls, Types, ghost
  <1>4. tot' \in [Proc -> 0..MaxOff \cup {None}] /\ moved' \in [File -> Nat] /\ sought' \subseteq File /\ sought \subseteq sought'
    BY <1>1, <1>2 DEF Calls, Types
  <1>5. /\ UNCHANGED <<dev, mode, off, size, ilock, r_, hole>>
        /\ pc[p] = "out" /\ pc' = [pc EXCEPT ![p] = l] /\ file' = [file EXCEPT ![p] = g] /\ left' = [left EXCEPT ![p] = k]
    BY <1>1 DEF Call, Goto, At
  <1>6. Types'
    BY <1>3, <1>4, <1>5, Limits DEF Calls, Types, PC
  <1>7. Only(p)
    BY <1>1, <1>2, <1>5 DEF Only, Calls, Types
  <1>8. InCall(p)'
    <2>1. /\ pc'[p] = l /\ file'[p] = g /\ left'[p] = k /\ l \notin Inside
          /\ l = "s_test" => tot'[p] # None /\ ~dev' /\ g \in sought'
          /\ l # "s_test" => tot'[p] = None
      BY <1>1, <1>2, <1>5, Limits DEF Calls, Types, Inside, InCall, NoSeek
    <2> QED
      BY <2>1 DEF InCall, Seeking, NoSeek
  <1> QED
    BY <1>5, <1>4, <1>6, <1>7, <1>8, OthersInCall DEF Calls, Only

\* The steps inside the calls.
LEMMA ReadCalls ==
  ASSUME NEW p \in Proc, Calls, reading_file(p)
  PROVE  Calls' /\ Only(p)
  <1>0. Types /\ InCall(p) /\ None \notin Proc
    BY Limits DEF Calls
  <1>1. CASE r_lock(p)
    <2>1. /\ pc[p] = "r_lock" /\ ilock = None /\ ilock' = p /\ pc' = [pc EXCEPT ![p] = "r_read"]
          /\ UNCHANGED <<dev, mode, off, size, file, left, r_, tot, hole, ghost>>
      BY <1>1 DEF r_lock, At, Lock, Goto
    <2>2. Types' /\ Only(p)
      BY <1>0, <2>1 DEF Types, Only, ghost, PC
    <2>3. InCall(p)'
      BY <1>0, <2>1 DEF Types, InCall, ghost, Inside, Seeking, NoSeek
    <2> QED
      BY <2>1, <2>2, <2>3, OthersInCall DEF Calls, Only, ghost
  <1>2. CASE readi(p)
    <2> DEFINE o == off[file[p]]
               r0 == IF o > size THEN -1 ELSE Smaller(left[p], size - o)
               k0 == IF r0 > 0 THEN r0 ELSE 0
    <2>1. /\ pc[p] = "r_read" /\ ~dev /\ pc' = [pc EXCEPT ![p] = "r_advance"]
          /\ r_' = [r_ EXCEPT ![p] = r0] /\ Count(p, k0)
          /\ UNCHANGED <<dev, mode, off, size, ilock, file, left, tot, hole, sought, rough>>
      BY <1>2 DEF readi, At, Goto, f
    <2>2. o \in Nat /\ size \in 0..MAXFILE /\ left[p] \in Nat /\ file[p] \in File
      BY <1>0, <2>1 DEF Types, InCall
    <2>3. r0 \in -1..MAXFILE /\ k0 \in Nat
      <3> HIDE DEF o
      <3> QED
        BY <2>2, Limits DEF Smaller
    <2> HIDE DEF o, r0, k0
    <2>4. moved' \in [File -> Nat]
      BY <1>0, <2>1, <2>2, <2>3 DEF Count, Types, f
    <2>5. Types' /\ Only(p)
      BY <1>0, <2>1, <2>3, <2>4 DEF Types, Only, PC
    <2>6. InCall(p)'
      BY <1>0, <2>1 DEF Types, InCall, Inside, Seeking, NoSeek
    <2> QED
      BY <2>1, <2>5, <2>6, OthersInCall DEF Calls, Only
  <1>3. CASE r_advance(p)
    <2>1. /\ pc[p] = "r_advance" /\ Advance(p) /\ ilock' = None /\ Return(p) /\ Settle(p)
          /\ UNCHANGED <<dev, mode, size>>
      BY <1>3 DEF r_advance, At, Unlock
    <2>2. ilock = p /\ file[p] \in File
      BY <1>0, <2>1 DEF InCall, Inside
    <2>3. off' \in [File -> Nat]
      BY <1>0, <2>1, <2>2, AdvanceTypes
    <2>4. Types' /\ Only(p)
      BY <1>0, <2>1, <2>2, <2>3, ReturnCalls, Settled DEF Types
    <2>5. InCall(p)'
      BY <1>0, <2>1, ReturnCalls DEF InCall, Inside, Seeking
    <2>6. \A q \in Proc \ {p} : file[q] \in sought => file[q] \in sought'
      BY <1>0, <2>1, <2>2, <2>3, Settled
    <2> QED
      BY <2>1, <2>2, <2>4, <2>5, <2>6, OthersInCall DEF Calls, Only
  <1> QED
    BY <1>1, <1>2, <1>3 DEF reading_file

LEMMA WriteCalls ==
  ASSUME NEW p \in Proc, Calls, writing(p)
  PROVE  Calls' /\ Only(p)
  <1>0. Types /\ InCall(p) /\ None \notin Proc
    BY Limits DEF Calls
  <1>1. CASE w_lock(p)
    <2>1. /\ pc[p] = "w_lock" /\ ilock = None /\ ilock' = p
          /\ pc' = [pc EXCEPT ![p] = IF mode[file[p]] = "append" THEN "w_append" ELSE "w_write"]
          /\ UNCHANGED <<dev, mode, off, size, file, left, r_, tot, hole, ghost>>
      BY <1>1 DEF w_lock, At, Lock, Goto, f
    <2>2. Types' /\ Only(p)
      BY <1>0, <2>1 DEF Types, Only, ghost, PC
    <2>3. InCall(p)'
      BY <1>0, <2>1 DEF Types, InCall, ghost, Inside, Seeking, NoSeek
    <2> QED
      BY <2>1, <2>2, <2>3, OthersInCall DEF Calls, Only, ghost
  <1>2. CASE w_append(p)
    <2>1. /\ pc[p] = "w_append" /\ off' = [off EXCEPT ![file[p]] = size] /\ pc' = [pc EXCEPT ![p] = "w_write"]
          /\ UNCHANGED <<dev, mode, size, ilock, file, left, r_, tot, hole, ghost>>
      BY <1>2 DEF w_append, At, SetOff, Goto, f
    <2>2. size \in Nat
      BY <1>0, Limits DEF Types
    <2>3. Types' /\ Only(p)
      BY <1>0, <2>1, <2>2 DEF Types, Only, ghost, PC
    <2>4. InCall(p)'
      BY <1>0, <2>1 DEF Types, InCall, ghost, Inside, Seeking, NoSeek
    <2> QED
      BY <2>1, <2>3, <2>4, OthersInCall DEF Calls, Only, ghost
  <1>3. CASE writei(p)
    <2> DEFINE o == off[file[p]]
               n1 == Smaller(left[p], CHUNK)
               ok == o <= size /\ o + n1 <= MAXFILE
    <2>1. /\ pc[p] = "w_write" /\ ~dev /\ pc' = [pc EXCEPT ![p] = "w_advance"]
          /\ UNCHANGED <<dev, mode, off, ilock, file, left, tot, hole, sought>>
      BY <1>3 DEF writei, At, Goto
    <2>2. /\ r_' = [r_ EXCEPT ![p] = IF ok THEN n1 ELSE -1]
          /\ IF ok THEN /\ size' = IF o + n1 > size THEN o + n1 ELSE size
                        /\ Count(p, n1)
                        /\ UNCHANGED rough
                   ELSE /\ rough' = IF tot[p] # None THEN rough \cup {file[p]} ELSE rough
                        /\ UNCHANGED <<size, moved>>
      BY <1>3 DEF writei, f
    <2>3. o \in Nat /\ size \in 0..MAXFILE /\ left[p] \in Nat /\ file[p] \in File
      BY <1>0, <2>1 DEF Types, InCall
    <2>4. n1 \in Nat /\ n1 <= left[p]
      BY <2>3, Limits DEF Smaller
    <2> HIDE DEF n1, o
    <2>5. ok => n1 \in -1..MAXFILE /\ size' \in 0..MAXFILE
      BY <2>2, <2>3, <2>4, Limits
    <2>6. moved' \in [File -> Nat] /\ rough' \subseteq File
      <3>1. CASE ok
        BY <1>0, <2>2, <2>3, <2>4, <3>1 DEF Count, Types, f
      <3>2. CASE ~ok
        BY <1>0, <2>2, <2>3, <3>2 DEF Types
      <3> QED
        BY <3>1, <3>2
    <2>7. size' \in 0..MAXFILE
      BY <2>2, <2>3, <2>5
    <2>8. \E x \in -1..MAXFILE : r_' = [r_ EXCEPT ![p] = x] /\ x <= left[p]
      <3>1. CASE ok
        BY <2>2, <2>4, <2>5, <3>1
      <3>2. CASE ~ok
        <4>1. -1 \in -1..MAXFILE /\ -1 <= left[p]
          BY <2>3, Limits
        <4> QED
          BY <2>2, <3>2, <4>1
      <3> QED
        BY <3>1, <3>2
    <2> HIDE DEF ok
    <2>9. Types' /\ Only(p)
      BY <1>0, <2>1, <2>6, <2>7, <2>8 DEF Types, Only, PC
    <2>10. r_'[p] <= left[p]
      BY <1>0, <2>8 DEF Types
    <2>11. InCall(p)'
      BY <1>0, <2>1, <2>10 DEF Types, InCall, Inside, Seeking, NoSeek
    <2> QED
      BY <2>1, <2>9, <2>11, OthersInCall DEF Calls, Only
  <1>4. CASE w_advance(p)
    <2> DEFINE more == IF r_[p] < 0 THEN 0 ELSE left[p] - r_[p]
    <2>1. /\ pc[p] = "w_advance" /\ Advance(p) /\ ilock' = None /\ UNCHANGED <<dev, mode, size>>
      BY <1>4 DEF w_advance, At, Unlock
    <2>2. ilock = p /\ file[p] \in File
      BY <1>0, <2>1 DEF InCall, Inside
    <2>3. off' \in [File -> Nat]
      BY <1>0, <2>1, <2>2, AdvanceTypes
    <2>4. CASE Return(p) /\ Settle(p)
      <3>1. Types' /\ Only(p)
        BY <1>0, <2>1, <2>2, <2>3, <2>4, ReturnCalls, Settled DEF Types
      <3>2. InCall(p)'
        BY <1>0, <2>1, <2>4, ReturnCalls DEF InCall, Inside, Seeking
      <3>3. \A q \in Proc \ {p} : file[q] \in sought => file[q] \in sought'
        BY <1>0, <2>1, <2>2, <2>3, <2>4, Settled
      <3> QED
        BY <2>1, <2>2, <3>1, <3>2, <3>3, OthersInCall DEF Calls, Only
    <2>5. CASE ~(Return(p) /\ Settle(p))
      <3>1. more > 0 \/ tot[p] # None
        BY <1>4, <2>5 DEF w_advance
      <3>2. /\ left' = [left EXCEPT ![p] = more] /\ r_' = [r_ EXCEPT ![p] = 0]
            /\ pc' = [pc EXCEPT ![p] = IF more > 0 THEN "w_lock" ELSE "s_fill"]
            /\ UNCHANGED <<file, tot, hole, ghost>>
        BY <1>4, <2>5 DEF w_advance, Goto
      <3>3. more \in Nat
        <4>1. r_[p] \in -1..MAXFILE /\ left[p] \in Nat /\ r_[p] <= left[p]
          BY <1>0, <2>1 DEF InCall, Types
        <4> QED
          BY <4>1, Limits
      <3> HIDE DEF more
      <3>4. Types' /\ Only(p)
        BY <1>0, <2>1, <2>3, <3>2, <3>3, Limits DEF Types, Only, PC, ghost
      <3>5. pc'[p] \in {"w_lock", "s_fill"} /\ file'[p] = file[p] /\ tot'[p] = tot[p]
            /\ (pc'[p] = "s_fill" => tot[p] # None)
        BY <1>0, <3>1, <3>2 DEF Types
      <3>6. InCall(p)'
        BY <1>0, <2>1, <2>2, <3>2, <3>5 DEF Types, InCall, Inside, Seeking, NoSeek, ghost
      <3> QED
        BY <2>1, <2>2, <3>2, <3>4, <3>6, OthersInCall DEF Calls, Only, ghost
    <2> QED
      BY <2>4, <2>5
  <1> QED
    BY <1>1, <1>2, <1>3, <1>4 DEF writing

LEMMA DeviceCalls ==
  ASSUME NEW p \in Proc, Calls, console(p)
  PROVE  Calls' /\ Only(p)
  <1>0. Types /\ InCall(p) /\ None \notin Proc
    BY Limits DEF Calls
  <1>1. CASE read_console(p) \/ write_console(p) \/ consolewrite(p)
    <2>1. PICK l \in {"c_write", "c_relock"} :
            /\ pc[p] \in {"r_read", "w_write", "c_write"} /\ pc' = [pc EXCEPT ![p] = l]
            /\ \E k : left' = [left EXCEPT ![p] = k] /\ (left[p] \in Nat => k \in Nat)
            /\ UNCHANGED <<dev, mode, off, size, file, r_, tot, hole, ghost>>
      <3>1. left[p] \in Nat => 0 \in Nat /\ left[p] \in Nat /\ left[p] - Smaller(left[p], CHUNK) \in Nat
        BY Limits DEF Smaller
      <3>2. left = [left EXCEPT ![p] = left[p]]
        BY <1>0 DEF Types
      <3> QED
        BY <1>1, <3>1, <3>2 DEF read_console, write_console, consolewrite, At, Goto
    <2>2. ilock' = ilock \/ (ilock' = None /\ ilock = p)
      BY <1>0, <1>1 DEF read_console, write_console, consolewrite, At, Unlock, InCall, Inside
    <2>3. tot[p] = None
      <3>1. dev \/ pc[p] = "c_write"
        BY <1>1 DEF read_console, write_console, consolewrite, At
      <3> QED
        BY <1>0, <3>1 DEF InCall, NoSeek
    <2>4. Types' /\ Only(p)
      <3>1. left' \in [Proc -> Nat] /\ \A q \in Proc \ {p} : left'[q] = left[q]
        BY <1>0, <2>1 DEF Types
      <3> QED
        BY <1>0, <2>1, <2>2, <3>1 DEF Types, Only, ghost, PC
    <2>5. InCall(p)'
      BY <1>0, <2>1, <2>3 DEF Types, InCall, ghost, Inside, Seeking, NoSeek
    <2> QED
      BY <2>1, <2>2, <2>4, <2>5, OthersInCall DEF Calls, Only, ghost
  <1>2. CASE c_relock(p) /\ Return(p)
    <2>1. Return(p) /\ UNCHANGED <<dev, mode, off, size, ilock, ghost>>
      BY <1>2 DEF c_relock
    <2>2. Types' /\ Only(p)
      BY <1>0, <2>1, ReturnCalls DEF Types, ghost
    <2>3. InCall(p)'
      BY <1>0, <2>1, ReturnCalls DEF InCall, Inside, Seeking
    <2> QED
      BY <2>1, <2>2, <2>3, OthersInCall DEF Calls, Only, ghost
  <1>3. CASE c_relock(p) /\ ~Return(p)
    <2>1. /\ pc[p] = "c_relock" /\ pc' = [pc EXCEPT ![p] = "w_lock"]
          /\ UNCHANGED <<dev, mode, off, size, ilock, file, left, r_, tot, hole, ghost>>
      BY <1>3 DEF c_relock, At, Goto
    <2>2. Types' /\ Only(p)
      BY <1>0, <2>1 DEF Types, Only, ghost, PC
    <2>3. InCall(p)'
      BY <1>0, <2>1 DEF Types, InCall, ghost, Inside, Seeking, NoSeek
    <2> QED
      BY <2>1, <2>2, <2>3, OthersInCall DEF Calls, Only, ghost
  <1> QED
    BY <1>1, <1>2, <1>3 DEF console

LEMMA SeekCalls ==
  ASSUME NEW p \in Proc, Calls, fileseek(p)
  PROVE  Calls' /\ Only(p)
  <1>0. Types /\ InCall(p) /\ None \notin Proc
    BY Limits DEF Calls
  <1>1. pc[p] \in Seeking /\ tot[p] # None /\ tot[p] \in 0..MaxOff /\ file[p] \in File /\ size \in Nat
    BY <1>0, Limits DEF fileseek, s_test, s_end, s_fill, s_set, At, Seeking, InCall, Types
  <1>2. CASE s_test(p)
    <2>1. /\ pc' = [pc EXCEPT ![p] = IF tot[p] > size THEN "s_end" ELSE "s_set"]
          /\ hole' = IF tot[p] > size THEN [hole EXCEPT ![p] = tot[p] - size] ELSE hole
          /\ UNCHANGED <<dev, mode, off, size, ilock, file, left, r_, tot, ghost>>
      BY <1>2 DEF s_test, Goto
    <2>2. tot[p] - size \in Int
      BY <1>1, Limits
    <2>3. Types' /\ Only(p)
      BY <1>0, <2>1, <2>2 DEF Types, Only, ghost, PC
    <2>4. InCall(p)'
      BY <1>0, <1>1, <2>1 DEF Types, InCall, ghost, Inside, Seeking, NoSeek
    <2> QED
      BY <2>1, <2>3, <2>4, OthersInCall DEF Calls, Only, ghost
  <1>3. CASE s_end(p)
    <2>1. /\ pc' = [pc EXCEPT ![p] = "s_fill"] /\ off' = [off EXCEPT ![file[p]] = size]
          /\ rough' \subseteq rough \cup {file[p]}
          /\ UNCHANGED <<dev, mode, size, ilock, file, left, r_, tot, hole, moved, sought>>
      BY <1>3 DEF s_end, Goto, SetOff, Blur, f
    <2>2. Types' /\ Only(p)
      BY <1>0, <1>1, <2>1 DEF Types, Only, PC
    <2>3. InCall(p)'
      BY <1>0, <1>1, <2>1 DEF Types, InCall, Inside, Seeking, NoSeek
    <2> QED
      BY <2>1, <2>2, <2>3, OthersInCall DEF Calls, Only
  <1>4. CASE s_fill(p)
    <2>1. /\ \E l \in {"s_fill", "w_lock", "s_set"} : pc' = [pc EXCEPT ![p] = l]
          /\ (left' = left /\ hole' = hole)
             \/ (/\ hole[p] > 0 /\ left' = [left EXCEPT ![p] = Smaller(hole[p], PGSIZE)]
                 /\ hole' = [hole EXCEPT ![p] = hole[p] - PGSIZE])
          /\ UNCHANGED <<dev, mode, off, size, ilock, file, r_, tot, ghost>>
      BY <1>4 DEF s_fill, Goto
    <2>2. hole[p] \in Int
      BY <1>0 DEF Types
    <2>3. hole[p] > 0 => Smaller(hole[p], PGSIZE) \in Nat /\ hole[p] - PGSIZE \in Int
      BY <2>2, Limits DEF Smaller
    <2>4. left' \in [Proc -> Nat] /\ hole' \in [Proc -> Int]
      BY <1>0, <2>1, <2>3 DEF Types
    <2>a. pc' \in [Proc -> PC]
      BY <1>0, <2>1 DEF Types, PC
    <2>b. Types'
      BY <1>0, <2>1, <2>4, <2>a DEF Types, ghost
    <2>c. Only(p)
      BY <1>0, <2>1 DEF Types, Only, ghost
    <2>5. Types' /\ Only(p)
      BY <2>b, <2>c
    <2>6. InCall(p)'
      BY <1>0, <1>1, <2>1 DEF Types, InCall, ghost, Inside, Seeking, NoSeek
    <2> QED
      BY <2>1, <2>5, <2>6, OthersInCall DEF Calls, Only, ghost
  <1>5. CASE s_set(p)
    <2>1. /\ off' = [off EXCEPT ![file[p]] = tot[p]] /\ Return(p) /\ Settle(p)
          /\ UNCHANGED <<dev, mode, size, ilock>>
      BY <1>5 DEF s_set, SetOff, f
    <2>2. off' \in [File -> Nat]
      BY <1>0, <1>1, <2>1 DEF Types
    <2>3. Types' /\ Only(p)
      BY <1>0, <1>1, <2>1, <2>2, ReturnCalls, Settled DEF Types
    <2>4. InCall(p)'
      BY <1>0, <2>1, ReturnCalls DEF InCall, Inside, Seeking
    <2>5. \A q \in Proc \ {p} : file[q] \in sought => file[q] \in sought'
      BY <1>0, <1>1, <2>1, <2>2, Settled
    <2> QED
      BY <2>1, <2>3, <2>4, <2>5, OthersInCall DEF Calls, Only
  <1> QED
    BY <1>2, <1>3, <1>4, <1>5 DEF fileseek

\* Steps that leave every call alone.
LEMMA IdleCalls ==
  ASSUME Calls, (\E p \in Proc : open_trunc(p)) \/ IOAround \/ UNCHANGED iovars
  PROVE  Calls'
  <1>1. UNCHANGED <<dev, mode, off, ilock, call, moved, sought>> /\ size' \in {size, 0} /\ (rough \subseteq File => rough' \subseteq File)
    BY DEF open_trunc, IOAround, iovars, ghost
  <1>2. Types'
    BY <1>1, Limits DEF Calls, Types, call
  <1>3. ASSUME NEW p \in Proc PROVE InCall(p)'
    BY <1>1 DEF Calls, InCall, call
  <1> QED
    BY <1>2, <1>3 DEF Calls

\* Every step is one of these.
LEMMA NextIs ==
  ASSUME [Next]_iovars
  PROVE  \/ \E p \in Proc, g \in File :
              (\E k \in 0..MaxN : sys_read(p, g, k) \/ sys_write(p, g, k))
                \/ \E offset \in -1..MaxOff, whence \in Whence : sys_lseek(p, g, offset, whence)
         \/ \E p \in Proc : reading_file(p) \/ writing(p) \/ console(p) \/ fileseek(p)
         \/ (\E p \in Proc : open_trunc(p)) \/ IOAround \/ UNCHANGED iovars
  BY DEF Next

LEMMA NextCalls == Calls /\ [Next]_iovars => Calls'
  BY NextIs, EnterCalls, ReadCalls, WriteCalls, DeviceCalls, SeekCalls, IdleCalls

LEMMA CallsAlways == Spec => []Calls
  BY InitCalls, NextCalls, PTL DEF Spec

-----------------------------------------------------------------------------
(* The console inside.                                                     *)

LEMMA ConsoleInside == Calls /\ [Next]_iovars => [ConsoleNext]_convars
  <1> SUFFICES ASSUME Calls, [Next]_iovars PROVE [ConsoleNext]_convars
    OBVIOUS
  <1>1. ASSUME NEW p \in Proc, console(p) PROVE [ConsoleNext]_convars
    <2>1. CASE read_console(p)
      <3>1. left[p] \in 0..MaxN /\ consoleread(p, left[p])
        BY <2>1 DEF read_console, At, Calls, InCall
      <3> QED
        BY <3>1 DEF ConsoleNext
    <2>2. CASE write_console(p) \/ consolewrite(p) \/ c_relock(p)
      BY <2>2 DEF write_console, consolewrite, c_relock
    <2> QED
      BY <1>1, <2>1, <2>2 DEF console
  <1>2. CASE IOAround
    BY <1>2 DEF IOAround, ConsoleNext
  <1>3. ASSUME NEW p \in Proc, NEW g \in File,
               (\E k \in 0..MaxN : sys_read(p, g, k) \/ sys_write(p, g, k))
                 \/ \E offset \in -1..MaxOff, whence \in Whence : sys_lseek(p, g, offset, whence)
        PROVE  UNCHANGED convars
    BY <1>3 DEF sys_read, sys_write, sys_lseek, Call
  <1>4. ASSUME NEW p \in Proc, reading_file(p) \/ writing(p) \/ fileseek(p) \/ open_trunc(p)
        PROVE  UNCHANGED convars
    BY <1>4 DEF reading_file, r_lock, readi, r_advance, writing, w_lock, w_append, writei, w_advance,
                fileseek, s_test, s_end, s_fill, s_set, open_trunc
  <1>5. CASE UNCHANGED iovars
    BY <1>5 DEF iovars
  <1> QED
    BY <1>1, <1>2, <1>3, <1>4, <1>5, NextIs

\* read(), write() and lseek() use the console as Console describes it: every step of
\* the files is a step of the console or leaves it alone (file.c:118, console.c:238).
THEOREM FileIORunsConsole == Spec => ConsoleSpec
  <1>1. Init => ConsoleInit
    BY DEF Init
  <1> QED
    BY <1>1, ConsoleInside, CallsAlways, PTL DEF Spec, ConsoleSpec

\* Under the system calls the indices stay in order, nobody sleeps over a finished line,
\* and the ring is a line discipline (console.c:194-274).
THEOREM FileIOConsole == Spec => []RingOrder /\ []ReaderAwake /\ IsLineDiscipline
  BY FileIORunsConsole, ConsoleRingOrder, ConsoleReaderAwake, ConsoleImplementsLineDiscipline, PTL

\* The types, the console's included, and sizes within the limit (file.c, fs.c:496).
THEOREM FileIOTypeCorrect == Spec => []TypeOK
  <1>1. Calls /\ IndexInv => TypeOK
    BY DEF Calls, Types, IndexInv, TypeOK
  <1> QED
    BY <1>1, CallsAlways, FileIORunsConsole, IndexAlways, PTL

-----------------------------------------------------------------------------
(* Appending.                                                              *)

\* Between looking up the end and writing there, the end stays where it is.
AppendAt(p) ==
  (pc[p] = "w_write" /\ ~dev /\ mode[file[p]] = "append" /\ file[p] \notin sought) => off[file[p]] = size

Appends == \A p \in Proc : AppendAt(p)

\* Who is inside holds the lock, so that nobody else is.
LEMMA Alone ==
  ASSUME Calls, NEW p \in Proc, NEW q \in Proc, pc[q] \in Inside, pc[p] \in Inside \/ ilock = None
  PROVE  q = p /\ pc[p] \in Inside
  BY Limits DEF Calls, InCall

LEMMA NextAppends == Calls /\ Appends /\ [Next]_iovars => Appends'
  <1> SUFFICES ASSUME Calls, Appends, [Next]_iovars, NEW q \in Proc PROVE AppendAt(q)'
    BY DEF Appends
  <1>0. Types /\ InCall(q) /\ AppendAt(q)
    BY DEF Calls, Appends
  <1> DEFINE Kept == /\ pc'[q] = pc[q] \/ pc'[q] # "w_write"
                     /\ file'[q] = file[q] \/ pc'[q] # "w_write"
                     /\ UNCHANGED <<dev, mode>> /\ (file[q] \in sought => file[q] \in sought' \/ pc'[q] # "w_write")
  <1>1. ASSUME Kept, UNCHANGED <<off, size>> PROVE AppendAt(q)'
    BY <1>0, <1>1 DEF AppendAt
  <1>2. ASSUME NEW p \in Proc, NEW g \in File,
               (\E k \in 0..MaxN : sys_read(p, g, k) \/ sys_write(p, g, k))
                 \/ \E offset \in -1..MaxOff, whence \in Whence : sys_lseek(p, g, offset, whence)
        PROVE  AppendAt(q)'
    <2>1. Only(p)
      BY <1>2, EnterCalls
    <2>2. Kept /\ UNCHANGED <<off, size>>
      BY <1>0, <1>2, <2>1 DEF Types, Only, sys_read, sys_write, sys_lseek, Call, Goto, ghost
    <2> QED
      BY <1>1, <2>2
  <1>3. ASSUME NEW p \in Proc, reading_file(p) PROVE AppendAt(q)'
    <2>1. Only(p)
      BY <1>3, ReadCalls
    <2>3. CASE r_lock(p) \/ readi(p)
      <3>1. Kept
        BY <1>0, <2>1, <2>3 DEF Types, Only, r_lock, readi, Goto, ghost
      <3> QED
        BY <1>1, <2>3, <3>1 DEF r_lock, readi
    <2>4. CASE r_advance(p)
      <3>1. pc[p] \in Inside /\ pc'[p] # "w_write"
        BY <1>0, <2>4 DEF r_advance, At, Inside, Return, Goto, Types
      <3>2. pc'[q] # "w_write"
        BY <2>1, <3>1, Alone DEF Inside, Only
      <3> QED
        BY <3>2 DEF AppendAt
    <2> QED
      BY <1>3, <2>3, <2>4 DEF reading_file
  <1>4. ASSUME NEW p \in Proc, writing(p) PROVE AppendAt(q)'
    <2>1. Only(p)
      BY <1>4, WriteCalls
    <2>2. UNCHANGED <<dev, mode>> /\ (q # p => pc'[q] = pc[q] /\ file'[q] = file[q])
      BY <1>4, <2>1 DEF Only, writing, w_lock, w_append, writei, w_advance
    <2>3. CASE w_lock(p)
      <3>1. /\ UNCHANGED <<off, size, file, sought>>
            /\ pc' = [pc EXCEPT ![p] = IF mode[file[p]] = "append" THEN "w_append" ELSE "w_write"]
        BY <2>3 DEF w_lock, Goto, f, ghost
      <3>2. pc'[p] = "w_write" => mode[file[p]] # "append"
        BY <1>0, <3>1 DEF Types
      <3> QED
        BY <1>1, <2>2, <3>1, <3>2 DEF AppendAt
    <2>4. ASSUME pc[p] \in Inside, q # p PROVE AppendAt(q)'
      <3>1. pc'[q] # "w_write"
        BY <2>2, <2>4, Alone DEF Inside
      <3> QED
        BY <3>1 DEF AppendAt
    <2>5. CASE w_append(p)
      <3>1. pc[p] \in Inside /\ off' = [off EXCEPT ![file[p]] = size] /\ UNCHANGED <<size, file>> /\ file[p] \in File
        BY <1>0, <2>5 DEF w_append, At, Inside, SetOff, f, Calls, InCall
      <3>2. CASE q = p
        BY <1>0, <3>1, <3>2 DEF AppendAt, Types
      <3> QED
        BY <2>4, <3>1, <3>2
    <2>6. CASE writei(p) \/ w_advance(p)
      <3>1. pc[p] \in Inside /\ pc'[p] # "w_write"
        BY <1>0, <2>6 DEF writei, w_advance, At, Inside, Goto, Return, Types
      <3> QED
        BY <2>4, <3>1 DEF AppendAt
    <2> QED
      BY <1>4, <2>3, <2>5, <2>6 DEF writing
  <1>5. ASSUME NEW p \in Proc, console(p) PROVE AppendAt(q)'
    <2>1. Only(p)
      BY <1>5, DeviceCalls
    <2>2. Kept
      BY <1>0, <1>5, <2>1 DEF Types, Only, console, read_console, write_console, consolewrite, c_relock, Goto, Return, ghost
    <2>3. UNCHANGED <<off, size>>
      BY <1>5 DEF console, read_console, write_console, consolewrite, c_relock
    <2> QED
      BY <1>1, <2>2, <2>3
  <1>6. ASSUME NEW p \in Proc, fileseek(p) PROVE AppendAt(q)'
    <2>1. Only(p) /\ file[p] \in sought
      BY <1>6, SeekCalls DEF Calls, InCall, fileseek, s_test, s_end, s_fill, s_set, At, Seeking
    <2>2. Kept
      <3>1. CASE s_set(p)
        <4>1. /\ off' = [off EXCEPT ![file[p]] = tot[p]] /\ Return(p) /\ Settle(p) /\ UNCHANGED <<dev, mode, size>>
              /\ pc[p] = "s_set"
          BY <3>1 DEF s_set, SetOff, At, f
        <4>2. tot[p] \in Nat /\ file[p] \in File
          BY <2>1, <4>1, Limits DEF Calls, Types, InCall, Seeking
        <4>3. off' \in [File -> Nat]
          BY <1>0, <4>1, <4>2 DEF Types
        <4>4. q # p => (file[q] \in sought => file[q] \in sought')
          BY <1>0, <4>1, <4>2, <4>3, Settled
        <4>5. pc'[p] = "out"
          BY <1>0, <4>1, ReturnCalls
        <4> QED
          BY <2>1, <4>1, <4>4, <4>5 DEF Only
      <3>2. CASE s_test(p) \/ s_end(p) \/ s_fill(p)
        BY <1>0, <2>1, <3>2 DEF Types, Only, s_test, s_end, s_fill, Goto, ghost
      <3> QED
        BY <1>6, <3>1, <3>2 DEF fileseek
    <2>3. size' = size /\ (off' = off \/ \E x : off' = [off EXCEPT ![file[p]] = x])
      BY <1>6 DEF fileseek, s_test, s_end, s_fill, s_set, SetOff, f
    <2> SUFFICES ASSUME pc'[q] = "w_write", ~dev, mode[file[q]] = "append", file[q] \notin sought
                 PROVE  off'[file[q]] = size
      BY <2>2, <2>3 DEF AppendAt
    <2>4. pc[q] = "w_write" /\ off[file[q]] = size /\ file[q] # file[p] /\ file[q] \in File /\ off \in [File -> Nat]
      BY <1>0, <2>1, <2>2 DEF AppendAt, InCall, Types
    <2> QED
      BY <2>3, <2>4
  <1>7. ASSUME NEW p \in Proc, open_trunc(p) PROVE AppendAt(q)'
    <2>1. pc' = pc /\ ilock = None
      BY <1>7 DEF open_trunc, call
    <2>2. pc[q] # "w_write"
      BY <1>0, <2>1, Limits DEF InCall, Inside
    <2> QED
      BY <2>1, <2>2 DEF AppendAt
  <1>8. CASE IOAround \/ UNCHANGED iovars
    BY <1>1, <1>8 DEF IOAround, iovars, call, ghost
  <1> QED
    BY <1>2, <1>3, <1>4, <1>5, <1>6, <1>7, <1>8, NextIs

LEMMA AppendsAlways == Spec => []Appends
  <1>1. Init => Appends
    BY DEF Init, Appends, AppendAt
  <1> QED
    BY <1>1, NextAppends, CallsAlways, PTL DEF Spec

\* What is written through a file opened with O_APPEND goes behind what is there, for
\* every number of processes and files (file.c:153).
THEOREM FileIOAppendKeeps == Spec => AppendKeeps
  <1>1. Appends => WritesBehind
    BY DEF Appends, AppendAt, At, f, WritesBehind
  <1> QED
    BY <1>1, AppendsAlways, PTL DEF AppendKeeps

-----------------------------------------------------------------------------
(* Shared offsets.                                                         *)

Advancing == {"r_advance", "w_advance"}
Positive(x) == IF x > 0 THEN x ELSE 0

\* The offset of a file is what has been moved through it, without the data of the
\* process that has moved them and not yet advanced the offset.
MovedAt(g) ==
  g \notin sought /\ mode[g] # "append" =>
    /\ \A p \in Proc : pc[p] \in Advancing /\ file[p] = g => moved[g] = off[g] + Positive(r_[p])
    /\ (\A p \in Proc : pc[p] \in Advancing => file[p] # g) => moved[g] = off[g]

Moves == \A g \in File : MovedAt(g)

\* A step that moves nothing through g and nobody's place behind the data.
LEMMA MovedSame ==
  ASSUME Calls, NEW g \in File, MovedAt(g), g \in sought => g \in sought', mode' = mode,
         g \in sought' \/ mode[g] = "append" \/ (off'[g] = off[g] /\ moved'[g] = moved[g]),
         \A q \in Proc : /\ pc'[q] \in Advancing <=> pc[q] \in Advancing
                         /\ pc[q] \in Advancing => file'[q] = file[q] /\ r_'[q] = r_[q]
  PROVE  MovedAt(g)'
  BY DEF MovedAt

\* readi() and writei(): the data move first.
LEMMA MovedData ==
  ASSUME Calls, Moves, NEW p \in Proc, readi(p) \/ writei(p), NEW g \in File
  PROVE  /\ MovedAt(g)'
         /\ g \notin sought /\ moved'[g] > moved[g] => off[g] = moved[g]
  <1>0. /\ Types /\ InCall(p) /\ MovedAt(g) /\ Only(p)
        /\ off[g] \in Nat /\ moved[g] \in Nat
    BY ReadCalls, WriteCalls DEF Calls, Moves, Types, reading_file, writing
  <1>1. /\ pc[p] \in Inside \ Advancing /\ file[p] \in File /\ pc'[p] \in Advancing
        /\ UNCHANGED <<off, mode, file, sought>>
    BY <1>0 DEF readi, writei, At, Inside, Advancing, InCall, Goto, Types
  <1>2. \A q \in Proc : pc[q] \notin Advancing /\ (q # p => pc'[q] \notin Advancing)
    <2>1. \A q \in Proc : pc[q] \in Advancing => q = p
      BY <1>1, Alone DEF Inside, Advancing
    <2> QED
      BY <1>0, <1>1, <2>1 DEF Only
  <1>3. g \notin sought /\ mode[g] # "append" => moved[g] = off[g]
    BY <1>0, <1>2 DEF MovedAt
  <1>4. r_'[p] \in Int /\ \/ moved' = moved /\ Positive(r_'[p]) = 0
                          \/ Count(p, Positive(r_'[p]))
    <2>1. CASE readi(p)
      <3> DEFINE r0 == IF off[file[p]] > size THEN -1 ELSE Smaller(left[p], size - off[file[p]])
      <3>1. r_' = [r_ EXCEPT ![p] = r0] /\ Count(p, IF r0 > 0 THEN r0 ELSE 0)
        BY <2>1 DEF readi, f
      <3>2. off[file[p]] \in Nat /\ left[p] \in Nat /\ size \in 0..MAXFILE
        BY <1>0, <1>1 DEF Types
      <3>3. r0 \in Int
        BY <3>2, Limits DEF Smaller
      <3> HIDE DEF r0
      <3>4. r_'[p] = r0
        BY <1>0, <3>1 DEF Types
      <3> QED
        BY <3>1, <3>3, <3>4 DEF Positive
    <2>2. CASE writei(p)
      <3> DEFINE n1 == Smaller(left[p], CHUNK)
                 ok == off[file[p]] <= size /\ off[file[p]] + n1 <= MAXFILE
      <3>1. r_' = [r_ EXCEPT ![p] = IF ok THEN n1 ELSE -1] /\ IF ok THEN Count(p, n1) ELSE moved' = moved
        BY <2>2 DEF writei, f
      <3>2. left[p] \in Nat
        BY <1>0 DEF Types
      <3>3. n1 \in Nat
        BY <3>2, Limits DEF Smaller
      <3> HIDE DEF n1, ok
      <3>4. r_'[p] = IF ok THEN n1 ELSE -1
        BY <1>0, <3>1 DEF Types
      <3>5. CASE ok
        <4>1. r_'[p] = n1 /\ Positive(n1) = n1 /\ Count(p, n1)
          BY <3>1, <3>3, <3>4, <3>5 DEF Positive
        <4> QED
          BY <3>3, <4>1
      <3>6. CASE ~ok
        <4>1. r_'[p] = -1 /\ moved' = moved
          BY <3>1, <3>4, <3>6
        <4> QED
          BY <4>1 DEF Positive
      <3> QED
        BY <3>5, <3>6
    <2> QED
      BY <2>1, <2>2
  <1>5. Positive(r_'[p]) \in Nat
    BY <1>4 DEF Positive
  <1>6. CASE file[p] # g
    <2>1. moved'[g] = moved[g]
      BY <1>0, <1>1, <1>4, <1>6 DEF Count, Types, f
    <2>2. \A q \in Proc : pc'[q] \in Advancing => file'[q] # g
      BY <1>1, <1>2, <1>6
    <2>3. MovedAt(g)'
      BY <1>1, <1>3, <2>1, <2>2 DEF MovedAt
    <2> QED
      BY <1>0, <2>1, <2>3
  <1>7. CASE file[p] = g
    <2>1. g \notin sought /\ mode[g] # "append" => moved'[g] = moved[g] + Positive(r_'[p])
      <3>1. CASE moved' = moved /\ Positive(r_'[p]) = 0
        BY <1>0, <3>1
      <3>2. CASE Count(p, Positive(r_'[p]))
        BY <1>0, <1>7, <3>2 DEF Count, Types, f
      <3> QED
        BY <1>4, <3>1, <3>2
    <2>2. mode[g] = "append" => ~(moved'[g] > moved[g])
      <3>1. mode[g] = "append" => moved'[g] = 0 \/ moved'[g] = moved[g]
        BY <1>0, <1>4, <1>7 DEF Count, Types, f
      <3> QED
        BY <1>0, <3>1
    <2>3. MovedAt(g)'
      <3>1. \A q \in Proc : pc'[q] \in Advancing => q = p
        BY <1>2
      <3>2. pc'[p] \in Advancing /\ file'[p] = g
        BY <1>1, <1>7
      <3> QED
        BY <1>1, <1>3, <2>1, <3>1, <3>2 DEF MovedAt
    <2> QED
      BY <1>3, <2>2, <2>3
  <1> QED
    BY <1>6, <1>7

\* The end of read() and of a piece of write(): the offset follows.
LEMMA MovedAdvance ==
  ASSUME Calls, Moves, NEW p \in Proc, r_advance(p) \/ w_advance(p), NEW g \in File
  PROVE  MovedAt(g)' /\ (g \notin sought => moved'[g] = moved[g])
  <1>0. /\ Types /\ InCall(p) /\ MovedAt(g) /\ Only(p)
        /\ off[g] \in Nat /\ moved[g] \in Nat
    BY ReadCalls, WriteCalls DEF Calls, Moves, Types, reading_file, writing
  <1>1. /\ pc[p] \in Advancing /\ pc[p] \in Inside /\ file[p] \in File /\ pc'[p] \notin Advancing
        /\ UNCHANGED <<mode, size>> /\ Advance(p) /\ ((Return(p) /\ Settle(p)) \/ UNCHANGED <<sought, moved>>)
    BY <1>0 DEF r_advance, w_advance, At, Inside, Advancing, InCall, Goto, Types, Return, ghost
  <1>2. \A q \in Proc : (pc[q] \in Advancing => q = p) /\ pc'[q] \notin Advancing
    <2>1. \A q \in Proc : pc[q] \in Advancing => q = p
      BY <1>1, Alone DEF Inside, Advancing
    <2> QED
      BY <1>0, <1>1, <2>1 DEF Only
  <1>3. r_[p] \in Int /\ off' \in [File -> Nat] /\ off'[g] = IF g = file[p] THEN off[g] + Positive(r_[p]) ELSE off[g]
    <2>1. r_[p] \in Int /\ off' \in [File -> Nat]
      BY <1>0, <1>1, AdvanceTypes, Limits DEF Types
    <2>2. CASE r_[p] > 0
      BY <1>0, <1>1, <2>1, <2>2 DEF Advance, SetOff, f, Positive, Types
    <2>3. CASE ~(r_[p] > 0)
      BY <1>0, <1>1, <2>1, <2>3 DEF Advance, Positive
    <2> QED
      BY <2>1, <2>2, <2>3
  <1>4. g \notin sought /\ mode[g] # "append" => moved[g] = off'[g]
    <2>1. CASE file[p] = g
      BY <1>0, <1>1, <1>3, <2>1 DEF MovedAt
    <2>2. CASE file[p] # g
      BY <1>0, <1>2, <1>3, <2>2 DEF MovedAt
    <2> QED
      BY <2>1, <2>2
  <1>5. CASE UNCHANGED <<sought, moved>>
    BY <1>1, <1>2, <1>4, <1>5 DEF MovedAt
  <1>6. CASE Return(p) /\ Settle(p)
    <2>1. /\ g \notin sought => g \notin sought' /\ moved'[g] = moved[g]
          /\ g \in sought /\ g \notin sought' /\ mode[g] # "append" => moved'[g] = off'[g]
      BY <1>0, <1>1, <1>3, <1>6, Settled
    <2> QED
      BY <1>1, <1>2, <1>4, <2>1 DEF MovedAt
  <1> QED
    BY <1>1, <1>5, <1>6

\* All the other steps.
LEMMA MovedOther ==
  ASSUME Calls, Moves, [Next]_iovars, NEW g \in File,
         \A p \in Proc : ~(readi(p) \/ writei(p) \/ r_advance(p) \/ w_advance(p))
  PROVE  MovedAt(g)' /\ (g \notin sought => ~(moved'[g] > moved[g]))
  <1>0. Types /\ MovedAt(g) /\ moved[g] \in Nat
    BY DEF Calls, Moves, Types
  <1> DEFINE Quiet == /\ g \in sought => g \in sought'
                      /\ mode' = mode
                      /\ g \in sought' \/ mode[g] = "append" \/ (off'[g] = off[g] /\ moved'[g] = moved[g])
                      /\ \A q \in Proc : /\ pc'[q] \in Advancing <=> pc[q] \in Advancing
                                         /\ pc[q] \in Advancing => file'[q] = file[q] /\ r_'[q] = r_[q]
                      /\ moved'[g] = moved[g] \/ moved'[g] = 0
  <1>1. ASSUME Quiet PROVE MovedAt(g)' /\ ~(moved'[g] > moved[g])
    BY <1>0, <1>1, MovedSame
  <1>2. ASSUME NEW p \in Proc, Only(p), pc[p] \notin Advancing, pc'[p] \notin Advancing
        PROVE  \A q \in Proc : /\ pc'[q] \in Advancing <=> pc[q] \in Advancing
                               /\ pc[q] \in Advancing => file'[q] = file[q] /\ r_'[q] = r_[q]
    BY <1>2 DEF Only
  <1>3. ASSUME NEW p \in Proc, NEW h \in File,
               (\E k \in 0..MaxN : sys_read(p, h, k) \/ sys_write(p, h, k))
                 \/ \E offset \in -1..MaxOff, whence \in Whence : sys_lseek(p, h, offset, whence)
        PROVE  Quiet
    <2>1. Only(p) /\ pc[p] \notin Advancing /\ pc'[p] \notin Advancing
      BY <1>0, <1>3, EnterCalls DEF sys_read, sys_write, sys_lseek, Call, At, Goto, Types, Advancing
    <2>2. /\ mode' = mode /\ off' = off /\ sought \subseteq sought'
          /\ moved' = moved \/ (moved' = [moved EXCEPT ![h] = 0] /\ h \in sought')
      BY <1>3 DEF sys_read, sys_write, sys_lseek, Call, ghost
    <2>3. \/ moved'[g] = moved[g]
          \/ moved'[g] = 0 /\ g \in sought'
      BY <1>0, <2>2 DEF Types
    <2> QED
      BY <1>2, <2>1, <2>2, <2>3
  <1>4. ASSUME NEW p \in Proc, r_lock(p) \/ w_lock(p) PROVE Quiet
    <2>1. Only(p) /\ pc[p] \notin Advancing /\ pc'[p] \notin Advancing
      BY <1>0, <1>4, ReadCalls, WriteCalls DEF reading_file, writing, r_lock, w_lock, At, Goto, Types, Advancing
    <2>2. UNCHANGED <<mode, off, sought, moved>>
      BY <1>4 DEF r_lock, w_lock, ghost
    <2> QED
      BY <1>2, <2>1, <2>2
  <1>5. ASSUME NEW p \in Proc, w_append(p) PROVE Quiet
    <2>1. Only(p) /\ pc[p] \notin Advancing /\ pc'[p] \notin Advancing /\ mode[file[p]] = "append"
      BY <1>0, <1>5, WriteCalls DEF writing, w_append, At, Goto, Types, Advancing, Calls, InCall
    <2>2. UNCHANGED <<mode, sought, moved>> /\ off' = [off EXCEPT ![file[p]] = size]
      BY <1>5 DEF w_append, ghost, SetOff, f
    <2>3. mode[g] = "append" \/ off'[g] = off[g]
      BY <1>0, <2>1, <2>2 DEF Types
    <2> QED
      BY <1>2, <2>1, <2>2, <2>3
  <1>6. ASSUME NEW p \in Proc, console(p) PROVE Quiet
    <2>1. Only(p) /\ pc[p] \notin Advancing /\ pc'[p] \notin Advancing
      BY <1>0, <1>6, DeviceCalls DEF console, read_console, write_console, consolewrite, c_relock, At, Goto, Return,
                                     Types, Advancing
    <2>2. UNCHANGED <<mode, off, sought, moved>>
      BY <1>6 DEF console, read_console, write_console, consolewrite, c_relock, ghost
    <2> QED
      BY <1>2, <2>1, <2>2
  <1>7. ASSUME NEW p \in Proc, s_test(p) \/ s_end(p) \/ s_fill(p) PROVE Quiet
    <2>1. Only(p) /\ pc[p] \notin Advancing /\ pc'[p] \notin Advancing
      BY <1>0, <1>7, SeekCalls DEF fileseek, s_test, s_end, s_fill, At, Goto, Types, Advancing
    <2>2. file[p] \in sought
      BY <1>7 DEF Calls, InCall, s_test, s_end, s_fill, At, Seeking
    <2>3. UNCHANGED <<mode, sought, moved>> /\ (off' = off \/ \E x : off' = [off EXCEPT ![file[p]] = x])
      BY <1>7 DEF s_test, s_end, s_fill, SetOff, f, ghost
    <2>4. g \in sought' \/ off'[g] = off[g]
      BY <1>0, <2>2, <2>3 DEF Types
    <2> QED
      BY <1>2, <2>1, <2>3, <2>4
  <1>8. ASSUME (\E p \in Proc : open_trunc(p)) \/ IOAround \/ UNCHANGED iovars PROVE Quiet
    BY <1>8 DEF open_trunc, IOAround, iovars, call, ghost
  <1>9. ASSUME NEW p \in Proc, s_set(p) PROVE MovedAt(g)' /\ (g \notin sought => ~(moved'[g] > moved[g]))
    <2>1. Only(p) /\ pc[p] \notin Advancing /\ pc'[p] \notin Advancing
      BY <1>0, <1>9, SeekCalls DEF fileseek, s_set, At, Goto, Return, Types, Advancing
    <2>2. file[p] \in sought /\ file[p] \in File /\ tot[p] \in Nat
      BY <1>9, Limits DEF Calls, Types, InCall, s_set, At, Seeking
    <2>3. off' = [off EXCEPT ![file[p]] = tot[p]] /\ Return(p) /\ Settle(p) /\ UNCHANGED <<mode, size>>
      BY <1>9 DEF s_set, SetOff, f
    <2>4. off' \in [File -> Nat] /\ (g \notin sought => off'[g] = off[g])
      BY <1>0, <2>2, <2>3 DEF Types
    <2>5. /\ g \notin sought => g \notin sought' /\ moved'[g] = moved[g]
          /\ g \in sought /\ g \notin sought' =>
               (\A q \in Proc : file'[q] # g) /\ (mode[g] # "append" => moved'[g] = off'[g])
      BY <1>0, <2>2, <2>3, <2>4, Settled
    <2>6. CASE g \in sought
      BY <2>3, <2>5, <2>6 DEF MovedAt
    <2>7. CASE g \notin sought
      <3>1. Quiet
        BY <1>2, <2>1, <2>3, <2>4, <2>5, <2>7
      <3> QED
        BY <1>1, <3>1
    <2> QED
      BY <2>6, <2>7
  <1> HIDE DEF Quiet
  <1> QED
    BY <1>1, <1>3, <1>4, <1>5, <1>6, <1>7, <1>8, <1>9, NextIs DEF reading_file, writing, fileseek

LEMMA NextMoves ==
  ASSUME Calls, Moves, [Next]_iovars
  PROVE  Moves' /\ GoesOn
  <1> SUFFICES ASSUME NEW g \in File
               PROVE  MovedAt(g)' /\ (g \notin sought => (moved'[g] > moved[g] => off[g] = moved[g]))
    BY DEF Moves, GoesOn
  <1>1. CASE \E p \in Proc : readi(p) \/ writei(p)
    BY <1>1, MovedData
  <1>2. CASE \E p \in Proc : r_advance(p) \/ w_advance(p)
    <2>1. moved[g] \in Nat
      BY DEF Calls, Types
    <2> QED
      BY <1>2, <2>1, MovedAdvance
  <1>3. CASE \A p \in Proc : ~(readi(p) \/ writei(p) \/ r_advance(p) \/ w_advance(p))
    BY <1>3, MovedOther
  <1> QED
    BY <1>1, <1>2, <1>3

\* Processes that share a struct file go on where the last read() or write() ended, for
\* every number of processes and files: no byte is read twice or written over, except
\* where an lseek() overlaps the call (file.c:118, :157).
THEOREM FileIOSharedOffset == Spec => SharedOffset
  <1>1. Init => Moves
    BY DEF Init, Moves, MovedAt, Advancing
  <1>2. Calls /\ Moves /\ [Next]_iovars => Moves'
    BY NextMoves
  <1>3. Calls /\ Moves /\ [Next]_iovars => GoesOn
    BY NextMoves
  <1> QED
    BY <1>1, <1>2, <1>3, CallsAlways, PTL DEF Spec, SharedOffset

-----------------------------------------------------------------------------
(* Holes.                                                                  *)

\* What process p still has to do to the offset keeps it inside the file, and the zeros
\* it still has to write reach to where it seeks.
HoleAt(p) ==
  /\ pc[p] \in Advancing => off[file[p]] + Positive(r_[p]) <= size
  /\ pc[p] = "s_set" => tot[p] <= size
  /\ pc[p] = "s_end" => hole[p] + size >= tot[p]
  /\ pc[p] = "s_fill" => off[file[p]] + Positive(hole[p]) >= tot[p]
  /\ pc[p] \in {"w_lock", "w_append", "w_write", "w_advance"} /\ tot[p] # None
       => off[file[p]] + left[p] + Positive(hole[p]) >= tot[p]
  /\ pc[p] = "w_advance" /\ tot[p] # None => r_[p] >= 0

\* One process at a time seeks in a file.
SeeksAlone(g) == \A p, q \in Proc : file[p] = g /\ file[q] = g /\ tot[p] # None /\ tot[q] # None => p = q

HolesAt(g) ==
  g \notin rough /\ mode[g] # "read" =>
    /\ off[g] <= size
    /\ SeeksAlone(g)
    /\ \A p \in Proc : file[p] = g => HoleAt(p)

Holes == \A g \in File : HolesAt(g)

\* A step of process p inside a call, seen from file g.
LEMMA HolesBy ==
  ASSUME Calls, NEW p \in Proc, Only(p), NEW g \in File, HolesAt(g), mode' = mode,
         g \in rough => g \in rough' \/ ((\A q \in Proc : file'[q] # g) /\ off'[g] <= size'),
         off' \in [File -> Nat], size' \in Nat, size' >= size,
         g \notin rough' /\ g \notin rough /\ mode[g] # "read" =>
           /\ off'[g] <= size'
           /\ \/ off'[g] = off[g]
              \/ file[p] = g /\ pc[p] \in Inside /\ off'[g] >= off[g]
              \/ file[p] = g /\ tot[p] # None /\ \A q \in Proc \ {p} : file[q] = g => pc[q] \notin Advancing
           /\ file'[p] = g => file[p] = g /\ tot'[p] = tot[p] /\ HoleAt(p)'
  PROVE  HolesAt(g)'
  <1>a. CASE g \in rough
    BY <1>a DEF HolesAt, SeeksAlone
  <1> SUFFICES ASSUME g \notin rough, g \notin rough', mode[g] # "read"
               PROVE  off'[g] <= size' /\ SeeksAlone(g)' /\ \A q \in Proc : file'[q] = g => HoleAt(q)'
    BY <1>a DEF HolesAt
  <1>1. off[g] <= size /\ SeeksAlone(g) /\ \A q \in Proc : file[q] = g => HoleAt(q)
    BY DEF HolesAt
  <1>2. SeeksAlone(g)'
    <2>1. \A q \in Proc : file'[q] = g => file[q] = g /\ tot'[q] = tot[q]
      BY DEF Only
    <2> QED
      BY <1>1, <2>1 DEF SeeksAlone
  <1>3. ASSUME NEW q \in Proc, q # p, file'[q] = g PROVE HoleAt(q)'
    <2>1. /\ pc'[q] = pc[q] /\ file'[q] = file[q] /\ left'[q] = left[q] /\ r_'[q] = r_[q]
          /\ tot'[q] = tot[q] /\ hole'[q] = hole[q] /\ file[q] = g /\ HoleAt(q)
      BY <1>1, <1>3 DEF Only
    <2>2. /\ off \in [File -> Nat] /\ size \in Nat /\ r_[q] \in Int /\ hole[q] \in Int /\ left[q] \in Nat
          /\ tot[q] # None => tot[q] \in Nat
      <3>1. size \in 0..MAXFILE /\ r_[q] \in -1..MAXFILE /\ tot[q] \in 0..MaxOff \cup {None}
            /\ off \in [File -> Nat] /\ hole[q] \in Int /\ left[q] \in Nat
        BY DEF Calls, Types
      <3> QED
        BY <3>1, Limits
    <2>3. InCall(q)
      BY DEF Calls
    <2>4. off[g] \in Nat /\ off'[g] \in Nat
      BY <2>2
    <2>5. (pc[q] = "s_set" \/ pc[q] = "s_end" \/ pc[q] = "s_fill" => tot[q] \in Nat)
          /\ Positive(r_[q]) \in Nat /\ Positive(hole[q]) \in Nat
      BY <2>2, <2>3 DEF InCall, Seeking, Positive
    <2>6. CASE off'[g] >= off[g] /\ (off'[g] = off[g] \/ pc[q] \notin Advancing)
      <3>1. pc[q] \in Advancing => off'[g] + Positive(r_[q]) <= size'
        <4>1. pc[q] \in Advancing => off[g] + Positive(r_[q]) <= size
          BY <2>1 DEF HoleAt
        <4> QED
          BY <2>2, <2>4, <2>5, <2>6, <4>1
      <3>2. (pc[q] = "s_set" => tot[q] <= size') /\ (pc[q] = "s_end" => hole[q] + size' >= tot[q])
        BY <2>1, <2>2, <2>5 DEF HoleAt
      <3>3. pc[q] = "s_fill" => off'[g] + Positive(hole[q]) >= tot[q]
        BY <2>1, <2>4, <2>5, <2>6 DEF HoleAt
      <3>4. pc[q] \in {"w_lock", "w_append", "w_write", "w_advance"} /\ tot[q] # None
              => off'[g] + left[q] + Positive(hole[q]) >= tot[q]
        BY <2>1, <2>2, <2>4, <2>5, <2>6 DEF HoleAt
      <3>5. pc[q] = "w_advance" /\ tot[q] # None => r_[q] >= 0
        BY <2>1 DEF HoleAt
      <3> QED
        BY <2>1, <3>1, <3>2, <3>3, <3>4, <3>5 DEF HoleAt, Positive
    <2>7. CASE file[p] = g /\ pc[p] \in Inside /\ off'[g] >= off[g]
      <3>1. pc[q] \notin Inside
        BY <1>3, <2>7, Alone
      <3> QED
        BY <2>6, <2>7, <3>1 DEF Inside, Advancing
    <2>8. CASE file[p] = g /\ tot[p] # None /\ pc[q] \notin Advancing
      <3>1. tot[q] = None
        BY <1>1, <1>3, <2>1, <2>8 DEF SeeksAlone
      <3>2. pc[q] \notin Seeking
        BY <2>3, <3>1 DEF InCall
      <3> QED
        BY <2>1, <2>8, <3>1, <3>2 DEF HoleAt, Seeking, Advancing
    <2>9. CASE off'[g] = off[g]
      BY <2>4, <2>6, <2>9
    <2> QED
      BY <2>1, <2>7, <2>8, <2>9
  <1> QED
    BY <1>2, <1>3

\* The types of what HoleAt compares.
LEMMA HoleTypes ==
  ASSUME Calls, NEW p \in Proc
  PROVE  /\ off \in [File -> Nat] /\ size \in Nat /\ r_[p] \in Int /\ hole[p] \in Int /\ left[p] \in Nat
         /\ tot[p] # None => tot[p] \in Nat
         /\ pc[p] # "out" => file[p] \in File /\ off[file[p]] \in Nat
         /\ pc \in [Proc -> PC] /\ file \in [Proc -> File \cup {None}] /\ left \in [Proc -> Nat]
         /\ r_ \in [Proc -> -1..MAXFILE] /\ hole \in [Proc -> Int] /\ InCall(p)
  <1>1. Types /\ InCall(p)
    BY DEF Calls
  <1>2. size \in 0..MAXFILE /\ r_[p] \in -1..MAXFILE /\ tot[p] \in 0..MaxOff \cup {None}
    BY <1>1 DEF Types
  <1>3. size \in Nat /\ r_[p] \in Int /\ (tot[p] # None => tot[p] \in Nat)
    BY <1>2, Limits
  <1> QED
    BY <1>1, <1>3 DEF Types, InCall

\* The call ends or is somewhere where nothing is promised.
LEMMA HoleNone ==
  ASSUME NEW p \in Proc, tot[p] = None, pc[p] \notin Advancing, pc[p] \notin Seeking
  PROVE  HoleAt(p)
  BY DEF HoleAt, Seeking, Advancing

\* A call begins.
LEMMA EnterHoles ==
  ASSUME Calls, Holes, NEW p \in Proc, NEW h \in File, NEW g \in File,
         (\E k \in 0..MaxN : sys_read(p, h, k) \/ sys_write(p, h, k))
           \/ \E offset \in -1..MaxOff, whence \in Whence : sys_lseek(p, h, offset, whence)
  PROVE  HolesAt(g)'
  <1>0. Only(p) /\ HolesAt(g) /\ InCall(p)
    BY EnterCalls DEF Holes, Calls
  <1>1. /\ UNCHANGED <<mode, off, size>> /\ pc[p] = "out" /\ pc'[p] \in {"r_lock", "w_lock", "s_test"} /\ file'[p] = h
        /\ pc'[p] # "s_test" => tot' = tot
    BY HoleTypes DEF sys_read, sys_write, sys_lseek, Call, Goto, At
  <1>2. tot[p] = None
    BY <1>0, <1>1 DEF InCall, NoSeek
  <1>3. rough \subseteq rough' /\ (pc'[p] = "s_test" /\ Seeks(h) => h \in rough')
    BY HoleTypes DEF sys_read, sys_write, sys_lseek, Call, Goto, At, ghost
  <1>4. HoleAt(p)'
    BY <1>1, <1>2 DEF HoleAt, Advancing
  <1> SUFFICES ASSUME g \notin rough', mode[g] # "read"
               PROVE  off[g] <= size /\ SeeksAlone(g)' /\ \A q \in Proc : file'[q] = g => HoleAt(q)'
    BY <1>1 DEF HolesAt
  <1>5. off[g] <= size /\ SeeksAlone(g) /\ \A q \in Proc : file[q] = g => HoleAt(q)
    BY <1>0, <1>3 DEF HolesAt
  <1>6. SeeksAlone(g)'
    <2>1. CASE g # h
      BY <1>0, <1>1, <1>5, <2>1 DEF SeeksAlone, Only
    <2>2. CASE g = h /\ pc'[p] # "s_test"
      <3>1. \A q \in Proc : file'[q] = g /\ tot'[q] # None => file[q] = g /\ tot[q] # None
        BY <1>0, <1>1, <1>2, <2>2 DEF Only
      <3> QED
        BY <1>5, <3>1 DEF SeeksAlone
    <2>3. CASE g = h /\ pc'[p] = "s_test"
      <3>1. \A q \in Proc : file[q] = g => tot[q] = None
        BY <1>3, <2>3 DEF Seeks
      <3>2. \A q \in Proc : file'[q] = g /\ tot'[q] # None => q = p
        BY <1>0, <3>1 DEF Only
      <3> QED
        BY <3>2 DEF SeeksAlone
    <2> QED
      BY <2>1, <2>2, <2>3
  <1>7. ASSUME NEW q \in Proc, q # p, file'[q] = g PROVE HoleAt(q)'
    BY <1>0, <1>1, <1>5, <1>7 DEF Only, HoleAt, Positive
  <1> QED
    BY <1>4, <1>5, <1>6, <1>7

LEMMA ReadHoles ==
  ASSUME Calls, Calls', Holes, NEW p \in Proc, reading_file(p), NEW g \in File
  PROVE  HolesAt(g)'
  <1>0. Only(p) /\ HolesAt(g) /\ (file[p] = g /\ g \notin rough /\ mode[g] # "read" => off[g] <= size /\ HoleAt(p))
    BY ReadCalls DEF Holes, HolesAt
  <1>1. off' \in [File -> Nat] /\ size' \in Nat
    <2>1. (off \in [File -> Nat] /\ size \in 0..MAXFILE)'
      BY DEF Calls, Types
    <2> QED
      BY <2>1, Limits
  <1>2. CASE r_lock(p)
    <2>1. pc[p] = "r_lock" /\ pc' = [pc EXCEPT ![p] = "r_read"] /\ UNCHANGED <<mode, off, size, rough, file, tot>>
      BY <1>2 DEF r_lock, At, Goto, ghost
    <2>2. tot[p] = None /\ pc'[p] = "r_read" /\ size >= size
      BY <2>1, HoleTypes DEF InCall, NoSeek
    <2>3. HoleAt(p)'
      BY <2>1, <2>2 DEF HoleAt, Advancing
    <2> QED
      BY <1>0, <1>1, <2>1, <2>2, <2>3, HolesBy DEF HolesAt
  <1>3. CASE readi(p)
    <2> DEFINE o == off[file[p]]
               r0 == IF o > size THEN -1 ELSE Smaller(left[p], size - o)
    <2>1. /\ pc[p] = "r_read" /\ pc' = [pc EXCEPT ![p] = "r_advance"] /\ r_' = [r_ EXCEPT ![p] = r0]
          /\ UNCHANGED <<mode, off, size, rough, file, tot>>
      BY <1>3 DEF readi, At, Goto, f
    <2>2. tot[p] = None /\ pc'[p] = "r_advance" /\ r_'[p] = r0 /\ size >= size
      BY <2>1, HoleTypes DEF InCall, NoSeek
    <2>3. o \in Nat /\ size \in Nat /\ left[p] \in Nat
      BY <2>1, HoleTypes
    <2>4. o <= size => o + Positive(r0) <= size
      <3> HIDE DEF o
      <3> QED
        BY <2>3 DEF Smaller, Positive
    <2> HIDE DEF r0
    <2>5. o <= size => HoleAt(p)'
      BY <2>1, <2>2, <2>4 DEF HoleAt, Advancing
    <2> QED
      BY <1>0, <1>1, <2>1, <2>2, <2>5, HolesBy DEF HolesAt
  <1>4. CASE r_advance(p)
    <2>1. /\ pc[p] = "r_advance" /\ Advance(p) /\ Return(p) /\ Settle(p) /\ UNCHANGED <<mode, size>>
      BY <1>4 DEF r_advance, At
    <2>2. /\ file[p] \in File /\ off \in [File -> Nat] /\ r_[p] \in Int /\ file'[p] = None /\ size >= size
      BY <2>1, HoleTypes DEF Return
    <2>3. off'[file[p]] = off[file[p]] + Positive(r_[p]) /\ (g # file[p] => off'[g] = off[g])
      BY <2>1, <2>2 DEF Advance, SetOff, f, Positive
    <2>4. file[p] = g /\ HoleAt(p) => off'[g] <= size
      BY <2>1, <2>3 DEF HoleAt, Advancing
    <2>5. g \in rough => g \in rough' \/ ((\A q \in Proc : file'[q] # g) /\ off'[g] <= size')
      BY <1>1, <2>1, <2>2, Settled DEF Calls
    <2>6. pc[p] \in Inside /\ off'[g] >= off[g]
      BY <2>1, <2>2, <2>3 DEF Inside, Positive
    <2> QED
      BY <1>0, <1>1, <2>1, <2>2, <2>3, <2>4, <2>5, <2>6, HolesBy, Limits DEF HolesAt
  <1> QED
    BY <1>2, <1>3, <1>4 DEF reading_file

LEMMA WriteHoles ==
  ASSUME Calls, Calls', Holes, NEW p \in Proc, writing(p), NEW g \in File
  PROVE  HolesAt(g)'
  <1>0. Only(p) /\ HolesAt(g) /\ (file[p] = g /\ g \notin rough /\ mode[g] # "read" => off[g] <= size /\ HoleAt(p))
    BY WriteCalls DEF Holes, HolesAt
  <1>1. off' \in [File -> Nat] /\ size' \in Nat
    <2>1. (off \in [File -> Nat] /\ size \in 0..MAXFILE)'
      BY DEF Calls, Types
    <2> QED
      BY <2>1, Limits
  <1>2. CASE w_lock(p)
    <2>1. /\ pc[p] = "w_lock" /\ pc' = [pc EXCEPT ![p] = IF mode[file[p]] = "append" THEN "w_append" ELSE "w_write"]
          /\ UNCHANGED <<mode, off, size, rough, file, left, tot, hole>>
      BY <1>2 DEF w_lock, At, Goto, ghost, f
    <2>2. pc'[p] \in {"w_append", "w_write"} /\ size >= size
      BY <2>1, HoleTypes
    <2>3. HoleAt(p) => HoleAt(p)'
      BY <2>1, <2>2 DEF HoleAt, Advancing, Positive
    <2> QED
      BY <1>0, <1>1, <2>1, <2>2, <2>3, HolesBy DEF HolesAt
  <1>3. CASE w_append(p)
    <2>1. /\ pc[p] = "w_append" /\ pc' = [pc EXCEPT ![p] = "w_write"] /\ off' = [off EXCEPT ![file[p]] = size]
          /\ UNCHANGED <<mode, size, rough, file, left, tot, hole>>
      BY <1>3 DEF w_append, At, Goto, SetOff, f, ghost
    <2>2. /\ pc'[p] = "w_write" /\ file[p] \in File /\ off'[file[p]] = size /\ (g # file[p] => off'[g] = off[g])
          /\ size \in Nat /\ off[file[p]] \in Nat /\ left[p] \in Nat /\ hole[p] \in Int
          /\ (tot[p] # None => tot[p] \in Nat) /\ size >= size
      BY <2>1, HoleTypes
    <2>3. file[p] = g /\ HoleAt(p) /\ off[g] <= size => HoleAt(p)'
      <3> SUFFICES ASSUME file[p] = g, HoleAt(p), off[g] <= size, tot[p] # None
                   PROVE  size + left[p] + Positive(hole[p]) >= tot[p]
        BY <2>1, <2>2 DEF HoleAt, Advancing, Positive
      <3>1. off[g] + left[p] + Positive(hole[p]) >= tot[p]
        BY <2>1 DEF HoleAt
      <3> QED
        BY <2>2, <3>1 DEF Positive
    <2>4. pc[p] \in Inside /\ (off[g] <= size => off'[g] >= off[g] /\ off'[g] <= size)
      <3>1. off[g] \in Nat
        BY HoleTypes
      <3> QED
        BY <2>1, <2>2, <3>1 DEF Inside
    <2> QED
      BY <1>0, <1>1, <2>1, <2>2, <2>3, <2>4, HolesBy DEF HolesAt
  <1>4. CASE writei(p)
    <2> DEFINE o == off[file[p]]
               n1 == Smaller(left[p], CHUNK)
               ok == o <= size /\ o + n1 <= MAXFILE
    <2>1. /\ pc[p] = "w_write" /\ pc' = [pc EXCEPT ![p] = "w_advance"] /\ UNCHANGED <<mode, off, file, left, tot, hole>>
      BY <1>4 DEF writei, At, Goto
    <2>2. /\ r_' = [r_ EXCEPT ![p] = IF ok THEN n1 ELSE -1]
          /\ IF ok THEN /\ size' = IF o + n1 > size THEN o + n1 ELSE size
                        /\ UNCHANGED rough
                   ELSE /\ rough' = IF tot[p] # None THEN rough \cup {file[p]} ELSE rough
                        /\ UNCHANGED size
      BY <1>4 DEF writei, f
    <2>3. /\ pc'[p] = "w_advance" /\ file[p] \in File /\ size \in Nat /\ o \in Nat /\ left[p] \in Nat
          /\ r_'[p] = IF ok THEN n1 ELSE -1
      BY <2>1, <2>2, HoleTypes
    <2>4. n1 \in Nat
      BY <2>3, Limits DEF Smaller
    <2> HIDE DEF o, n1
    <2>5. size' >= size /\ rough \subseteq rough'
      BY <2>2, <2>3, <2>4
    <2>6. o <= size => o + Positive(r_'[p]) <= size'
      BY <2>2, <2>3, <2>4 DEF Positive
    <2>7. tot[p] # None => file[p] \in rough' \/ r_'[p] >= 0
      BY <2>2, <2>3, <2>4
    <2>8. file[p] = g /\ HoleAt(p) /\ o <= size /\ g \notin rough' => HoleAt(p)'
      BY <2>1, <2>3, <2>6, <2>7 DEF HoleAt, Advancing, Positive, o
    <2> HIDE DEF ok
    <2>9. o <= size => o <= size'
      BY <2>3, <2>5, <1>1
    <2>10. off[g] <= size => off[g] <= size'
      <3>1. off[g] \in Nat
        BY HoleTypes
      <3> QED
        BY <2>3, <2>5, <1>1, <3>1
    <2> QED
      BY <1>0, <1>1, <2>1, <2>5, <2>8, <2>9, <2>10, HolesBy DEF HolesAt, o
  <1>5. CASE w_advance(p)
    <2> DEFINE more == IF r_[p] < 0 THEN 0 ELSE left[p] - r_[p]
    <2>1. pc[p] = "w_advance" /\ Advance(p) /\ UNCHANGED <<mode, size>> /\ ((Return(p) /\ Settle(p)) \/ UNCHANGED rough)
      BY <1>5 DEF w_advance, At, ghost
    <2>2. /\ file[p] \in File /\ off \in [File -> Nat] /\ r_[p] \in Int /\ left[p] \in Nat /\ size >= size
          /\ hole[p] \in Int /\ (tot[p] # None => tot[p] \in Nat)
      BY <2>1, HoleTypes
    <2>3. off'[file[p]] = off[file[p]] + Positive(r_[p]) /\ (g # file[p] => off'[g] = off[g])
      BY <2>1, <2>2 DEF Advance, SetOff, f, Positive
    <2>4. file[p] = g /\ HoleAt(p) => off'[g] <= size
      BY <2>1, <2>3 DEF HoleAt, Advancing
    <2>5. file'[p] = g => file[p] = g /\ tot'[p] = tot[p] /\ (HoleAt(p) => HoleAt(p)')
      <3>1. CASE Return(p)
        <4>1. file'[p] = None
          BY <3>1, HoleTypes DEF Return
        <4> QED
          BY <4>1, Limits
      <3>2. CASE ~Return(p)
        <4>1. /\ left' = [left EXCEPT ![p] = more]
              /\ pc' = [pc EXCEPT ![p] = IF more > 0 THEN "w_lock" ELSE "s_fill"]
              /\ UNCHANGED <<file, tot, hole>> /\ (more > 0 \/ tot[p] # None)
          BY <1>5, <3>2 DEF w_advance, Goto
        <4>2. left'[p] = more /\ pc'[p] = IF more > 0 THEN "w_lock" ELSE "s_fill"
          BY <4>1, HoleTypes
        <4>3. ASSUME HoleAt(p), tot[p] # None
              PROVE  off'[file[p]] + more + Positive(hole[p]) >= tot[p] /\ (more > 0 \/ more = 0)
          <5>1. r_[p] >= 0 /\ off[file[p]] + left[p] + Positive(hole[p]) >= tot[p] /\ off[file[p]] \in Nat /\ r_[p] <= left[p]
            BY <2>1, <2>2, <4>3, HoleTypes DEF HoleAt, InCall
          <5>2. Positive(r_[p]) = r_[p] /\ more = left[p] - r_[p] /\ Positive(hole[p]) \in Nat
            BY <2>2, <5>1 DEF Positive
          <5> QED
            BY <2>2, <2>3, <5>1, <5>2
        <4>4. more > 0 => left'[p] = more /\ pc'[p] = "w_lock"
          BY <4>2
        <4>5. ~(more > 0) => pc'[p] = "s_fill" /\ tot[p] # None
          BY <4>1, <4>2
        <4>6. off'[file[p]] \in Nat /\ Positive(hole[p]) \in Nat
          BY <1>1, <2>2 DEF Positive
        <4> HIDE DEF more
        <4>7. ASSUME HoleAt(p) PROVE HoleAt(p)'
          <5>1. CASE more > 0
            BY <4>1, <4>3, <4>4, <4>7, <5>1 DEF HoleAt, Advancing, Positive
          <5>2. CASE ~(more > 0)
            <6>1. more = 0 /\ off'[file[p]] + more + Positive(hole[p]) >= tot[p]
              BY <4>3, <4>5, <4>7, <5>2
            <6>2. off'[file[p]] + Positive(hole[p]) >= tot[p]
              BY <2>2, <4>5, <4>6, <5>2, <6>1
            <6> QED
              BY <4>1, <4>5, <5>2, <6>2 DEF HoleAt, Advancing, Positive
          <5> QED
            BY <5>1, <5>2
        <4> QED
          BY <4>1, <4>7
      <3> QED
        BY <3>1, <3>2
    <2>6. g \in rough => g \in rough' \/ ((\A q \in Proc : file'[q] # g) /\ off'[g] <= size')
      BY <1>1, <2>1, <2>2, Settled DEF Calls
    <2>7. pc[p] \in Inside /\ off'[g] >= off[g]
      BY <2>1, <2>2, <2>3 DEF Inside, Positive
    <2> QED
      BY <1>0, <1>1, <2>1, <2>2, <2>3, <2>4, <2>5, <2>6, <2>7, HolesBy DEF HolesAt
  <1> QED
    BY <1>2, <1>3, <1>4, <1>5 DEF writing

LEMMA DeviceHoles ==
  ASSUME Calls, Calls', Holes, NEW p \in Proc, console(p), NEW g \in File
  PROVE  HolesAt(g)'
  <1>0. Only(p) /\ HolesAt(g) /\ (g \notin rough /\ mode[g] # "read" => off[g] <= size)
    BY DeviceCalls DEF Holes, HolesAt
  <1>1. UNCHANGED <<mode, off, size, rough>> /\ off' \in [File -> Nat] /\ size' \in Nat /\ size >= size
    BY HoleTypes DEF console, read_console, write_console, consolewrite, c_relock, ghost
  <1>2. /\ pc'[p] \in {"c_relock", "c_write", "out", "w_lock"}
        /\ file'[p] = g => file[p] = g /\ tot'[p] = tot[p] /\ tot[p] = None
    <2>1. CASE c_relock(p)
      <3>1. CASE Return(p)
        BY <3>1, HoleTypes, Limits DEF Return, Goto
      <3>2. CASE ~Return(p)
        BY <2>1, <3>2, HoleTypes DEF c_relock, Goto, At, InCall, NoSeek
      <3> QED
        BY <3>1, <3>2
    <2>2. CASE read_console(p) \/ write_console(p) \/ consolewrite(p)
      <3>1. pc'[p] \in {"c_relock", "c_write"} /\ file' = file /\ tot' = tot
        BY <2>2, HoleTypes DEF read_console, write_console, consolewrite, Goto
      <3>2. dev \/ pc[p] = "c_write"
        BY <2>2 DEF read_console, write_console, consolewrite, At
      <3>3. tot[p] = None
        BY <3>2, HoleTypes DEF InCall, NoSeek
      <3> QED
        BY <3>1, <3>3
    <2> QED
      BY <2>1, <2>2 DEF console
  <1>3. HoleAt(p)' \/ file'[p] # g
    BY <1>2 DEF HoleAt, Advancing
  <1> QED
    BY <1>0, <1>1, <1>2, <1>3, HolesBy

LEMMA SeekHoles ==
  ASSUME Calls, Calls', Holes, NEW p \in Proc, fileseek(p), NEW g \in File
  PROVE  HolesAt(g)'
  <1>0. Only(p) /\ HolesAt(g) /\ (file[p] = g /\ g \notin rough /\ mode[g] # "read" => off[g] <= size /\ HoleAt(p))
    BY SeekCalls DEF Holes, HolesAt
  <1>1. off' \in [File -> Nat] /\ size' \in Nat
    <2>1. (off \in [File -> Nat] /\ size \in 0..MAXFILE)'
      BY DEF Calls, Types
    <2> QED
      BY <2>1, Limits
  <1>2. /\ pc[p] \in Seeking /\ UNCHANGED <<mode, size>> /\ size >= size
        /\ tot[p] # None /\ tot[p] \in Nat /\ file[p] \in File /\ hole[p] \in Int /\ size \in Nat /\ off[file[p]] \in Nat
    <2>1. pc[p] \in Seeking /\ UNCHANGED <<mode, size>>
      BY DEF fileseek, s_test, s_end, s_fill, s_set, At, Seeking
    <2> QED
      BY <2>1, HoleTypes DEF InCall, Seeking
  <1>3. CASE s_test(p)
    <2>1. /\ pc' = [pc EXCEPT ![p] = IF tot[p] > size THEN "s_end" ELSE "s_set"]
          /\ tot[p] > size => hole' = [hole EXCEPT ![p] = tot[p] - size]
          /\ UNCHANGED <<off, file, tot, rough>>
      BY <1>3 DEF s_test, Goto, ghost
    <2>2. tot[p] > size => pc'[p] = "s_end" /\ hole'[p] + size >= tot[p]
      BY <1>2, <2>1, HoleTypes
    <2>3. ~(tot[p] > size) => pc'[p] = "s_set" /\ tot[p] <= size
      BY <1>2, <2>1, HoleTypes
    <2>4. HoleAt(p)'
      BY <1>2, <2>1, <2>2, <2>3 DEF HoleAt, Advancing
    <2> QED
      BY <1>0, <1>1, <1>2, <2>1, <2>4, HolesBy DEF HolesAt
  <1>4. CASE s_end(p)
    <2>1. /\ pc[p] = "s_end" /\ pc' = [pc EXCEPT ![p] = "s_fill"] /\ off' = [off EXCEPT ![file[p]] = size]
          /\ UNCHANGED <<file, tot, hole>> /\ rough \subseteq rough' /\ (file[p] \in rough' \/ ~Between(p))
      BY <1>4 DEF s_end, Goto, At, SetOff, Blur, f
    <2>2. pc'[p] = "s_fill" /\ off'[file[p]] = size /\ (g # file[p] => off'[g] = off[g])
      BY <1>2, <2>1, HoleTypes
    <2>3. HoleAt(p) => size + Positive(hole[p]) >= tot[p]
      BY <1>2, <2>1 DEF HoleAt, Positive
    <2>4. HoleAt(p) => HoleAt(p)'
      BY <2>1, <2>2, <2>3 DEF HoleAt, Advancing, Positive
    <2>5. file[p] = g /\ g \notin rough' => \A q \in Proc \ {p} : file[q] = g => pc[q] \notin Advancing
      BY <2>1 DEF Between, Advancing, f
    <2> QED
      BY <1>0, <1>1, <1>2, <2>1, <2>2, <2>4, <2>5, HolesBy DEF HolesAt
  <1>5. CASE s_fill(p)
    <2>1. pc[p] = "s_fill" /\ UNCHANGED <<off, file, tot, rough>>
      BY <1>5 DEF s_fill, At, ghost
    <2>2. ASSUME hole[p] > 0, mode[file[p]] # "read", HoleAt(p) PROVE HoleAt(p)'
      <3>1. /\ left' = [left EXCEPT ![p] = Smaller(hole[p], PGSIZE)] /\ hole' = [hole EXCEPT ![p] = hole[p] - PGSIZE]
            /\ pc' = [pc EXCEPT ![p] = "w_lock"]
        BY <1>5, <2>2 DEF s_fill, Goto, f
      <3>2. left'[p] = Smaller(hole[p], PGSIZE) /\ hole'[p] = hole[p] - PGSIZE /\ pc'[p] = "w_lock"
        BY <3>1, HoleTypes
      <3>3. Smaller(hole[p], PGSIZE) + Positive(hole[p] - PGSIZE) = Positive(hole[p])
        BY <1>2, <2>2, Limits DEF Smaller, Positive
      <3>4. off[file[p]] + Positive(hole[p]) >= tot[p]
        BY <2>1, <2>2 DEF HoleAt
      <3>5. Smaller(hole[p], PGSIZE) \in Nat /\ Positive(hole[p] - PGSIZE) \in Nat
        BY <1>2, <2>2, Limits DEF Smaller, Positive
      <3>6. off[file[p]] + Smaller(hole[p], PGSIZE) + Positive(hole[p] - PGSIZE) >= tot[p]
        BY <1>2, <3>3, <3>4, <3>5
      <3> QED
        BY <2>1, <3>2, <3>6 DEF HoleAt, Advancing, Positive
    <2>3. ASSUME ~(hole[p] > 0), HoleAt(p), off[file[p]] <= size PROVE HoleAt(p)'
      <3>1. pc' = [pc EXCEPT ![p] = "s_set"]
        BY <1>5, <2>3 DEF s_fill, Goto
      <3>2. pc'[p] = "s_set"
        BY <3>1, HoleTypes
      <3>3. tot[p] <= size
        BY <1>2, <2>1, <2>3 DEF HoleAt, Positive
      <3> QED
        BY <1>2, <2>1, <3>2, <3>3 DEF HoleAt, Advancing
    <2> QED
      BY <1>0, <1>1, <1>2, <2>1, <2>2, <2>3, HolesBy DEF HolesAt
  <1>6. CASE s_set(p)
    <2>1. pc[p] = "s_set" /\ off' = [off EXCEPT ![file[p]] = tot[p]] /\ Return(p) /\ Settle(p)
      BY <1>6 DEF s_set, At, SetOff, f
    <2>2. file'[p] = None /\ off'[file[p]] = tot[p] /\ (g # file[p] => off'[g] = off[g])
      BY <1>2, <2>1, HoleTypes DEF Return
    <2>3. HoleAt(p) => tot[p] <= size
      BY <2>1 DEF HoleAt
    <2>4. /\ g \in rough => g \in rough' \/ ((\A q \in Proc : file'[q] # g) /\ off'[g] <= size')
          /\ file[p] \in rough' \/ ~Between(p)
      BY <1>1, <1>2, <2>1, Settled DEF Calls
    <2>5. file[p] = g /\ g \notin rough' => \A q \in Proc \ {p} : file[q] = g => pc[q] \notin Advancing
      BY <2>4 DEF Between, Advancing, f
    <2> QED
      BY <1>0, <1>1, <1>2, <2>2, <2>3, <2>4, <2>5, HolesBy, Limits DEF HolesAt
  <1> QED
    BY <1>3, <1>4, <1>5, <1>6 DEF fileseek

LEMMA NextHoles == Calls /\ Calls' /\ Holes /\ [Next]_iovars => Holes'
  <1> SUFFICES ASSUME Calls, Calls', Holes, [Next]_iovars, NEW g \in File PROVE HolesAt(g)'
    BY DEF Holes
  <1>1. CASE \E p \in Proc : open_trunc(p)
    <2>1. /\ ilock = None /\ size' = 0 /\ rough' = rough \cup {h \in File : off[h] > 0 \/ Seeks(h)}
          /\ UNCHANGED <<mode, off, call>>
      BY <1>1 DEF open_trunc
    <2> SUFFICES ASSUME g \notin rough', mode[g] # "read"
                 PROVE  off[g] <= 0 /\ SeeksAlone(g)' /\ \A q \in Proc : file[q] = g => HoleAt(q)'
      BY <2>1 DEF HolesAt, call
    <2>2. off[g] \in Nat /\ ~(off[g] > 0) /\ ~Seeks(g)
      BY <2>1 DEF Calls, Types
    <2>3. \A q \in Proc : file[q] = g => tot[q] = None
      BY <2>2 DEF Seeks
    <2>4. ASSUME NEW q \in Proc, file[q] = g PROVE HoleAt(q)'
      <3>1. tot'[q] = None /\ pc'[q] = pc[q] /\ InCall(q)
        BY <2>1, <2>3, <2>4 DEF call, Calls
      <3>2. pc[q] \notin Advancing /\ pc[q] \notin Seeking
        BY <2>1, <2>3, <2>4, <3>1, Limits DEF InCall, Inside, Advancing
      <3> QED
        BY <3>1, <3>2 DEF HoleAt, Seeking, Advancing
    <2> QED
      BY <2>1, <2>2, <2>3, <2>4 DEF SeeksAlone, call
  <1>2. CASE IOAround \/ UNCHANGED iovars
    <2>1. UNCHANGED <<mode, off, size, rough, call>> /\ HolesAt(g)
      BY <1>2 DEF IOAround, iovars, ghost, Holes
    <2> QED
      BY <2>1 DEF HolesAt, SeeksAlone, HoleAt, call, Positive
  <1> QED
    BY <1>1, <1>2, NextIs, EnterHoles, ReadHoles, WriteHoles, DeviceHoles, SeekHoles

\* lseek() beyond the end fills the hole: unless something happened that the code does
\* not handle (two seeks at once, one between the data and the offset of another call, a
\* truncation, a hole that could not be filled), the offset of a file that can be written
\* is never behind the end, whoever reads, writes or grows the file meanwhile
\* (file.c:207-220).
THEOREM FileIOOffsetInFile == Spec => []OffsetInFile
  <1>1. Init => Holes
    <2> SUFFICES ASSUME Init, NEW g \in File PROVE HolesAt(g)
      BY DEF Holes
    <2>1. off[g] = 0 /\ size = 0 /\ \A p \in Proc : file[p] = None /\ pc[p] = "out"
      BY DEF Init
    <2> QED
      BY <2>1, Limits DEF HolesAt, SeeksAlone
  <1>2. Holes => OffsetInFile
    BY DEF Holes, HolesAt, OffsetInFile
  <1> QED
    BY <1>1, <1>2, NextHoles, CallsAlways, PTL DEF Spec
=============================================================================
