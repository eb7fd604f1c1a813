----------------------------- MODULE PipeProofs -----------------------------
(***************************************************************************)
(* Proofs about Pipe for every set of processes, capacity and width of the *)
(* counters.  Four inductive invariants: the types; Ends, which ties the   *)
(* open flags of the pipe to the files of the processes and the lock to    *)
(* the process inside; Ring, which bounds the bytes between the counters;  *)
(* Wakers, who is going to wake whom.                                      *)
(***************************************************************************)
EXTENDS Pipe, TLAPS, Integers, SequenceTheorems, Remainders

-----------------------------------------------------------------------------
(* Types.                                                                  *)

\* The ring index and the counters stay in range when they wrap around.
LEMMA Wraps ==
  ASSUME NEW n \in Counter
  PROVE  n % PIPESIZE \in Index /\ (n + 1) % Width \in Counter
  <1>1. PIPESIZE \in Nat \ {0} /\ Width \in Nat \ {0} /\ n \in Nat
    BY PipeAssumption DEF PipeAssumption, Counter
  <1>2. \A m \in Nat, k \in Nat \ {0} : m % k \in 0..k - 1
    OBVIOUS
  <1> QED
    BY <1>1, <1>2 DEF Index, Counter

LEMMA InitTypes == Init => TypeOK
  <1> SUFFICES ASSUME Init PROVE TypeOK
    OBVIOUS
  <1>1. 0 \in Counter /\ 0 \in 0..MaxN
    BY PipeAssumption DEF PipeAssumption, Counter
  <1>2. data \in [Index -> Byte] /\ nread \in Counter /\ nwrite \in Counter
    BY <1>1 DEF Init
  <1>3. readopen \in BOOLEAN /\ writeopen \in BOOLEAN /\ allocated \in BOOLEAN
        /\ lock \in Proc \cup {None}
    BY DEF Init
  <1>4. ends \in [Proc -> SUBSET {"r", "w"}] /\ killed \in [Proc -> BOOLEAN]
        /\ moved \in [Proc -> BOOLEAN]
    BY DEF Init
  <1>5. pc \in [Proc -> Where] /\ op \in [Proc -> {"read", "write"}]
        /\ ret \in [Proc -> {"ok", "eof", "failed"}]
    BY DEF Init, Where
  <1>6. left \in [Proc -> 0..MaxN] /\ got \in Byte
    BY <1>1 DEF Init
  <1> QED
    BY <1>2, <1>3, <1>4, <1>5, <1>6 DEF TypeOK

\* wakeup() and Goto move processes between the places of Where.
LEMMA WhereTypes ==
  ASSUME TypeOK, NEW p \in Proc, NEW w \in Where, NEW o,
         Goto(p, w) \/ wakeup(o, p, w) \/ UNCHANGED pc
  PROVE  pc' \in [Proc -> Where]
  <1>1. "acquire" \in Where
    BY DEF Where
  <1> QED
    BY <1>1 DEF TypeOK, Goto, wakeup

LEMMA StepTypes ==
  ASSUME TypeOK, NEW p \in Proc, Step(p)
  PROVE  TypeOK'
  <1>1. CASE write_full(p)
    <2>1. pc' \in [Proc -> Where]
      BY <1>1, WhereTypes DEF write_full, Where
    <2> QED
      BY <1>1, <2>1 DEF write_full, TypeOK, return, pipe
  <1>2. ASSUME NEW b \in Byte, write_byte(p, b) PROVE TypeOK'
    <2>1. nwrite % PIPESIZE \in Index /\ nwrite' \in Counter
      BY <1>2, Wraps DEF write_byte, TypeOK
    <2>2. left' \in [Proc -> 0..MaxN]
      BY <1>2, PipeAssumption DEF write_byte, TypeOK, PipeAssumption
    <2> QED
      BY <1>2, <2>1, <2>2 DEF write_byte, TypeOK
  <1>3. CASE write_done(p)
    <2>1. pc' \in [Proc -> Where]
      BY <1>3, WhereTypes DEF write_done, Where
    <2> QED
      BY <1>3, <2>1 DEF write_done, TypeOK, return, pipe
  <1>4. CASE read_wait(p)
    <2>1. pc' \in [Proc -> Where]
      BY <1>4, WhereTypes DEF read_wait, Where
    <2> QED
      BY <1>4, <2>1 DEF read_wait, TypeOK, return, pipe
  <1>5. CASE read_byte(p)
    <2>1. pc' \in [Proc -> Where]
      BY <1>5, WhereTypes DEF read_byte, Where
    <2>2. nread % PIPESIZE \in Index /\ nread' \in Counter
      BY <1>5, Wraps DEF read_byte, TypeOK
    <2>3. left' \in [Proc -> 0..MaxN]
      BY <1>5, PipeAssumption DEF read_byte, TypeOK, PipeAssumption
    <2> QED
      BY <1>5, <2>1, <2>2, <2>3 DEF read_byte, TypeOK
  <1>6. CASE read_done(p)
    <2>1. pc' \in [Proc -> Where]
      BY <1>6, WhereTypes DEF read_done, Where
    <2> QED
      BY <1>6, <2>1 DEF read_done, TypeOK, return, pipe
  <1>7. CASE sleep(p)
    <2>1. pc' \in [Proc -> Where]
      BY <1>7, WhereTypes DEF sleep, Where
    <2> QED
      BY <1>7, <2>1 DEF sleep, TypeOK, pipe
  <1> QED
    BY <1>1, <1>2, <1>3, <1>4, <1>5, <1>6, <1>7 DEF Step

LEMMA NextTypes ==
  ASSUME TypeOK, [Next]_vars
  PROVE  TypeOK'
  <1>1. ASSUME NEW p \in Proc, NEW o \in {"read", "write"}, NEW n \in 0..MaxN, call(p, o, n)
        PROVE  TypeOK'
    <2>1. pc' \in [Proc -> Where]
      BY <1>1, WhereTypes DEF call, Where
    <2> QED
      BY <1>1, <2>1 DEF call, TypeOK, pipe
  <1>2. ASSUME NEW p \in Proc, acquire(p) PROVE TypeOK'
    <2>1. pc' \in [Proc -> Where]
      BY <1>2, WhereTypes DEF acquire, Where
    <2> QED
      BY <1>2, <2>1 DEF acquire, TypeOK, pipe
  <1>3. ASSUME NEW p \in Proc, pipealloc(p) PROVE TypeOK'
    <2>1. 0 \in Counter
      BY PipeAssumption DEF PipeAssumption, Counter
    <2> QED
      BY <1>3, <2>1 DEF pipealloc, TypeOK
  <1>4. ASSUME NEW p \in Proc, NEW q \in Proc, fork(p, q) PROVE TypeOK'
    BY <1>4 DEF fork, TypeOK, pipe
  <1>5. ASSUME NEW p \in Proc, NEW e \in {"r", "w"}, fileclose(p, e) PROVE TypeOK'
    <2>1. pc' \in [Proc -> Where]
      BY <1>5, WhereTypes DEF fileclose, Where
    <2> QED
      BY <1>5, <2>1 DEF fileclose, TypeOK, pipe
  <1>6. ASSUME NEW p \in Proc, pipeclose(p) PROVE TypeOK'
    <2>1. pc' \in [Proc -> Where]
      BY <1>6, WhereTypes DEF pipeclose, Where
    <2> QED
      BY <1>6, <2>1 DEF pipeclose, TypeOK
  <1>7. ASSUME NEW p \in Proc, kill(p) PROVE TypeOK'
    <2>1. pc' \in [Proc -> Where]
      BY <1>7, WhereTypes DEF kill, Where
    <2> QED
      BY <1>7, <2>1 DEF kill, TypeOK, pipe
  <1>8. ASSUME NEW p \in Proc, exit(p) PROVE TypeOK'
    BY <1>8 DEF exit, TypeOK, pipe
  <1>9. CASE UNCHANGED vars
    BY <1>9 DEF vars, pipe, TypeOK
  <1> QED
    BY <1>1, <1>2, <1>3, <1>4, <1>5, <1>6, <1>7, <1>8, <1>9, StepTypes DEF Next

\* Type correctness: the counters, the ring index and the counts of every call
\* stay in range for every capacity and every width that it divides.
THEOREM PipeTypeCorrect == Spec => []TypeOK
  BY InitTypes, NextTypes, PTL DEF Spec

-----------------------------------------------------------------------------
(* Ends.                                                                   *)

Inside == {"loop", "copy", "sleep"}
InCall == {"acquire", "asleep"} \cup Inside

\* Somebody has this end open or is on the way from fileclose() to pipeclose() with it.
Uses(p, e, where) == e \in ends[p] \/ pc[p] = where

Ends ==
  /\ \A p \in Proc : pc[p] \in Inside <=> lock = p
  /\ \A p \in Proc : pc[p] \in InCall => ends[p] # {}
  /\ readopen <=> \E p \in Proc : Uses(p, "r", "close_r")
  /\ writeopen <=> \E p \in Proc : Uses(p, "w", "close_w")
  /\ \A p, q \in Proc : pc[p] = "close_r" => "r" \notin ends[q] /\ (pc[q] = "close_r" => p = q)
  /\ \A p, q \in Proc : pc[p] = "close_w" => "w" \notin ends[q] /\ (pc[q] = "close_w" => p = q)
  /\ allocated = (readopen \/ writeopen)

EndsInv == TypeOK /\ Ends

LEMMA InitEnds == Init => Ends
  <1> SUFFICES ASSUME Init PROVE Ends
    OBVIOUS
  <1>1. lock = None /\ None \notin Proc
    BY PipeAssumption DEF Init, PipeAssumption
  <1>2. \A p \in Proc : pc[p] = "user" /\ ends[p] = {} /\ lock # p
    BY <1>1 DEF Init
  <1>3. \A p \in Proc : pc[p] \notin Inside /\ pc[p] \notin InCall /\ pc[p] # "close_r" /\ pc[p] # "close_w"
    BY <1>2 DEF Inside, InCall
  <1>4. ~readopen /\ ~writeopen /\ allocated = (readopen \/ writeopen)
    BY DEF Init
  <1> QED
    BY <1>2, <1>3, <1>4 DEF Ends, Uses

\* A step that changes neither the flags nor the files, and moves only p: the lock
\* has to follow the processes inside.
LEMMA MoveEnds ==
  ASSUME EndsInv, NEW p \in Proc, pc[p] \notin {"close_r", "close_w"},
         UNCHANGED <<readopen, writeopen, allocated, ends>>,
         pc' \in [Proc -> Where], pc'[p] \notin {"close_r", "close_w"},
         pc'[p] \in InCall => ends[p] # {},
         \A q \in Proc \ {p} : pc'[q] = pc[q] \/ (pc[q] = "asleep" /\ pc'[q] = "acquire"),
         \A q \in Proc : pc'[q] \in Inside <=> lock' = q
  PROVE  Ends'
  <1>1. \A q \in Proc : /\ pc'[q] = "close_r" <=> pc[q] = "close_r"
                        /\ pc'[q] = "close_w" <=> pc[q] = "close_w"
                        /\ pc'[q] \in InCall => ends[q] # {}
    BY DEF EndsInv, Ends, InCall, Inside
  <1>2. \A q \in Proc, e \in {"r", "w"} : /\ Uses(q, e, "close_r")' <=> Uses(q, e, "close_r")
                                          /\ Uses(q, e, "close_w")' <=> Uses(q, e, "close_w")
    BY <1>1 DEF Uses
  <1> QED
    BY <1>1, <1>2 DEF EndsInv, Ends

\* A process inside a call, which holds the lock, goes on or returns.
LEMMA StepEnds ==
  ASSUME EndsInv, NEW p \in Proc, Step(p)
  PROVE  Ends'
  <1> USE DEF Inside, InCall
  <1>1. pc' \in [Proc -> Where]
    BY StepTypes DEF EndsInv, TypeOK
  <1>2. lock = p /\ pc[p] \in Inside /\ None # p
    BY PipeAssumption DEF EndsInv, Ends, Step, write_full, write_byte, write_done, read_wait,
       read_byte, read_done, Copies, Holds, sleep, PipeAssumption
  <1>3. UNCHANGED <<readopen, writeopen, allocated, ends>>
    BY DEF Step, write_full, write_byte, write_done, read_wait, read_byte, read_done, sleep,
       return, pipe
  <1>4. \/ pc'[p] \in {"loop", "copy", "sleep"} /\ lock' = lock
        \/ pc'[p] \in {"user", "asleep"} /\ lock' = None
    BY <1>2 DEF Step, write_full, write_byte, write_done, read_wait, read_byte, read_done, sleep,
       return, wakeup, Goto, Copies, Holds, EndsInv, TypeOK
  <1>5. \A q \in Proc \ {p} : pc'[q] = pc[q] \/ (pc[q] = "asleep" /\ pc'[q] = "acquire")
    BY DEF Step, write_full, write_byte, write_done, read_wait, read_byte, read_done, sleep,
       return, wakeup, Goto, EndsInv, TypeOK
  <1>6. \A q \in Proc : pc'[q] \in Inside <=> lock' = q
    BY <1>2, <1>4, <1>5, PipeAssumption DEF EndsInv, Ends, PipeAssumption
  <1>7. ends[p] # {}
    BY <1>2 DEF EndsInv, Ends
  <1> QED
    BY <1>1, <1>2, <1>3, <1>4, <1>5, <1>6, <1>7, MoveEnds

\* pipe() in a process that has nothing open, when there is no pipe.
LEMMA AllocEnds ==
  ASSUME EndsInv, NEW p \in Proc, pipealloc(p)
  PROVE  Ends'
  <1>1. \A q \in Proc : ends[q] \subseteq {"r", "w"} /\ pc[q] # "close_r" /\ pc[q] # "close_w"
                        /\ "r" \notin ends[q] /\ "w" \notin ends[q]
    BY DEF pipealloc, EndsInv, TypeOK, Ends, Uses
  <1>2. \A q \in Proc : ends[q] = {} /\ pc[q] \notin InCall
    BY <1>1 DEF EndsInv, Ends
  <1>3. /\ pc' = pc /\ lock' = lock
        /\ readopen' = TRUE /\ writeopen' = TRUE /\ allocated' = TRUE
        /\ ends'[p] = {"r", "w"}
    BY DEF pipealloc, EndsInv, TypeOK
  <1>4. Uses(p, "r", "close_r")' /\ Uses(p, "w", "close_w")'
    BY <1>3 DEF Uses
  <1> QED
    BY <1>1, <1>2, <1>3, <1>4 DEF EndsInv, Ends

\* The child has what the parent has.
LEMMA ForkEnds ==
  ASSUME EndsInv, NEW p \in Proc, NEW q \in Proc, fork(p, q)
  PROVE  Ends'
  <1>1. /\ UNCHANGED <<pc, lock, readopen, writeopen, allocated>>
        /\ pc[q] = "user" /\ ends[q] = {} /\ ends[p] # {}
        /\ \A r \in Proc : ends'[r] = IF r = q THEN ends[p] ELSE ends[r]
    BY DEF fork, pipe, EndsInv, TypeOK
  <1>2. \A e \in {"r", "w"}, w \in {"close_r", "close_w"} :
          (\E r \in Proc : Uses(r, e, w)') <=> (\E r \in Proc : Uses(r, e, w))
    BY <1>1 DEF Uses
  <1>3. \A e \in {"r", "w"} : (\A r \in Proc : e \notin ends[r]) => (\A r \in Proc : e \notin ends'[r])
    BY <1>1
  <1>4. /\ \A r \in Proc : pc'[r] \in Inside <=> lock' = r
        /\ \A r \in Proc : pc'[r] \in InCall => ends'[r] # {}
    BY <1>1 DEF EndsInv, Ends, InCall
  <1>5. /\ readopen' <=> \E r \in Proc : Uses(r, "r", "close_r")'
        /\ writeopen' <=> \E r \in Proc : Uses(r, "w", "close_w")'
    BY <1>1, <1>2 DEF EndsInv, Ends
  <1>6. /\ \A r, t \in Proc : pc'[r] = "close_r" => "r" \notin ends'[t] /\ (pc'[t] = "close_r" => r = t)
        /\ \A r, t \in Proc : pc'[r] = "close_w" => "w" \notin ends'[t] /\ (pc'[t] = "close_w" => r = t)
    BY <1>1, <1>3 DEF EndsInv, Ends
  <1> QED
    BY <1>1, <1>4, <1>5, <1>6 DEF EndsInv, Ends

\* The last reference to an end takes its holder to pipeclose().
LEMMA FilecloseEnds ==
  ASSUME EndsInv, NEW p \in Proc, NEW e \in {"r", "w"}, fileclose(p, e)
  PROVE  Ends'
  <1> DEFINE where == IF e = "r" THEN "close_r" ELSE "close_w"
             last == ~\E q \in Proc \ {p} : e \in ends[q]
  <1>1. /\ UNCHANGED <<lock, readopen, writeopen, allocated>>
        /\ pc[p] = "user" /\ e \in ends[p]
        /\ \A q \in Proc : ends'[q] = IF q = p THEN ends[p] \ {e} ELSE ends[q]
        /\ \A q \in Proc : pc'[q] = IF q = p /\ last THEN where ELSE pc[q]
    BY DEF fileclose, pipe, EndsInv, TypeOK, Goto
  <1>2. /\ \A q \in Proc : pc'[q] \in Inside <=> lock' = q
        /\ \A q \in Proc : pc'[q] \in InCall => ends'[q] # {}
    BY <1>1 DEF EndsInv, Ends, InCall, Inside
  <1>3. /\ readopen' <=> \E q \in Proc : Uses(q, "r", "close_r")'
        /\ writeopen' <=> \E q \in Proc : Uses(q, "w", "close_w")'
    BY <1>1 DEF EndsInv, Ends, Uses
  <1>4. /\ \A q, t \in Proc : pc'[q] = "close_r" => "r" \notin ends'[t] /\ (pc'[t] = "close_r" => q = t)
        /\ \A q, t \in Proc : pc'[q] = "close_w" => "w" \notin ends'[t] /\ (pc'[t] = "close_w" => q = t)
    BY <1>1 DEF EndsInv, Ends
  <1> QED
    BY <1>1, <1>2, <1>3, <1>4 DEF EndsInv, Ends

\* pipeclose() clears the flag of an end that nobody uses any more.
LEMMA PipecloseEnds ==
  ASSUME EndsInv, NEW p \in Proc, pipeclose(p)
  PROVE  Ends'
  <1>1. /\ UNCHANGED <<lock, ends>> /\ lock = None /\ pc[p] \in {"close_r", "close_w"}
        /\ readopen' = (readopen /\ pc[p] # "close_r")
        /\ writeopen' = (writeopen /\ pc[p] # "close_w")
        /\ allocated' = (readopen' \/ writeopen')
    BY DEF pipeclose, EndsInv, TypeOK
  <1>2. /\ pc'[p] = "user"
        /\ \A q \in Proc \ {p} : pc'[q] = pc[q] \/ (pc[q] = "asleep" /\ pc'[q] = "acquire")
    BY DEF pipeclose, wakeup, EndsInv, TypeOK
  <1>3. /\ \A q \in Proc : pc'[q] \in Inside <=> lock' = q
        /\ \A q \in Proc : pc'[q] \in InCall => ends'[q] # {}
    BY <1>1, <1>2, PipeAssumption DEF EndsInv, Ends, InCall, Inside, PipeAssumption
  <1>4. \A q \in Proc \ {p} : /\ pc'[q] = "close_r" <=> pc[q] = "close_r"
                              /\ pc'[q] = "close_w" <=> pc[q] = "close_w"
    BY <1>2
  <1>5. /\ readopen' <=> \E q \in Proc : Uses(q, "r", "close_r")'
        /\ writeopen' <=> \E q \in Proc : Uses(q, "w", "close_w")'
    BY <1>1, <1>2, <1>4 DEF EndsInv, Ends, Uses
  <1>6. /\ \A q, t \in Proc : pc'[q] = "close_r" => "r" \notin ends'[t] /\ (pc'[t] = "close_r" => q = t)
        /\ \A q, t \in Proc : pc'[q] = "close_w" => "w" \notin ends'[t] /\ (pc'[t] = "close_w" => q = t)
    BY <1>1, <1>2, <1>4 DEF EndsInv, Ends
  <1> QED
    BY <1>1, <1>3, <1>5, <1>6 DEF Ends

LEMMA NextEnds ==
  ASSUME EndsInv, [Next]_vars
  PROVE  Ends'
  <1> USE DEF Inside, InCall
  <1>t. TypeOK' /\ pc' \in [Proc -> Where]
    BY NextTypes DEF EndsInv, TypeOK
  <1>1. ASSUME NEW p \in Proc, NEW o \in {"read", "write"}, NEW n \in 0..MaxN, call(p, o, n)
        PROVE  Ends'
    <2>1. pc[p] = "user" /\ pc'[p] = "acquire" /\ ends[p] # {} /\ lock' = lock
          /\ UNCHANGED <<readopen, writeopen, allocated, ends>>
          /\ \A q \in Proc \ {p} : pc'[q] = pc[q]
      BY <1>1 DEF call, Calls, Goto, pipe, EndsInv, TypeOK
    <2>2. \A q \in Proc : pc'[q] \in Inside <=> lock' = q
      BY <2>1 DEF EndsInv, Ends
    <2> QED
      BY <2>1, <2>2, <1>t, MoveEnds
  <1>2. ASSUME NEW p \in Proc, acquire(p) PROVE Ends'
    <2>1. pc[p] = "acquire" /\ pc'[p] = "loop" /\ lock = None /\ lock' = p
          /\ UNCHANGED <<readopen, writeopen, allocated, ends>>
          /\ \A q \in Proc \ {p} : pc'[q] = pc[q]
      BY <1>2 DEF acquire, Goto, pipe, EndsInv, TypeOK
    <2>2. \A q \in Proc : pc'[q] \in Inside <=> lock' = q
      BY <2>1, PipeAssumption DEF EndsInv, Ends, PipeAssumption
    <2>3. ends[p] # {}
      BY <2>1 DEF EndsInv, Ends
    <2> QED
      BY <2>1, <2>2, <2>3, <1>t, MoveEnds
  <1>3. ASSUME NEW p \in Proc, kill(p) PROVE Ends'
    <2>1. UNCHANGED <<readopen, writeopen, allocated, ends, lock>>
          /\ \A q \in Proc : pc'[q] = pc[q] \/ (pc[q] = "asleep" /\ pc'[q] = "acquire")
      BY <1>3 DEF kill, Goto, pipe, EndsInv, TypeOK
    <2>2. \A q \in Proc : pc'[q] \in Inside <=> lock' = q
      BY <2>1 DEF EndsInv, Ends
    <2>3. \A q \in Proc : pc[q] \in InCall => ends[q] # {}
      BY DEF EndsInv, Ends
    <2>4. CASE pc[p] = "asleep"
      BY <2>1, <2>2, <2>3, <2>4, <1>t, MoveEnds
    <2>5. CASE pc[p] # "asleep"
      <3>1. pc' = pc
        BY <1>3, <2>5 DEF kill
      <3> QED
        BY <2>1, <3>1 DEF EndsInv, Ends, Uses
    <2> QED
      BY <2>4, <2>5
  <1>4. ASSUME NEW p \in Proc, exit(p) PROVE Ends'
    BY <1>4 DEF exit, pipe, EndsInv, Ends, Uses
  <1>5. CASE UNCHANGED vars
    BY <1>5 DEF vars, pipe, EndsInv, Ends, Uses
  <1> QED
    BY <1>1, <1>2, <1>3, <1>4, <1>5, StepEnds, AllocEnds, ForkEnds, FilecloseEnds,
       PipecloseEnds DEF Next

LEMMA EndsAlways == Spec => []EndsInv
  <1>1. EndsInv /\ [Next]_vars => EndsInv'
    BY NextTypes, NextEnds DEF EndsInv
  <1>2. Init => EndsInv
    BY InitTypes, InitEnds DEF EndsInv
  <1> QED
    BY <1>1, <1>2, PTL DEF Spec

\* pipeclose() frees the page of a pipe only when every process has left piperead() and
\* pipewrite() and has no end of it open, whatever calls, forks, closes and kills overlap.
THEOREM PipeNoUseAfterFree == Spec => []NoUseAfterFree
  <1>1. ASSUME EndsInv PROVE NoUseAfterFree
    <2> SUFFICES ASSUME ~allocated
                 PROVE  lock = None /\ \A p \in Proc : pc[p] = "user" /\ ends[p] = {}
      BY DEF NoUseAfterFree
    <2>1. \A p \in Proc : "r" \notin ends[p] /\ "w" \notin ends[p]
                          /\ pc[p] # "close_r" /\ pc[p] # "close_w"
      BY <1>1 DEF EndsInv, Ends, Uses
    <2>2. \A p \in Proc : ends[p] = {}
      <3>1. \A p \in Proc : ends[p] \subseteq {"r", "w"}
        BY <1>1 DEF EndsInv, TypeOK
      <3> QED
        BY <2>1, <3>1
    <2>3. \A p \in Proc : pc[p] \notin InCall /\ pc[p] \in Where
      BY <1>1, <2>2 DEF EndsInv, Ends, TypeOK
    <2>4. \A p \in Proc : pc[p] = "user"
      BY <2>1, <2>3 DEF InCall, Inside, Where
    <2>5. lock = None
      BY <1>1, <2>3 DEF EndsInv, Ends, TypeOK, InCall
    <2> QED
      BY <2>2, <2>4, <2>5
  <1> QED
    BY <1>1, EndsAlways, PTL

-----------------------------------------------------------------------------
(* The ring.  nread and nwrite count modulo Width, which PIPESIZE divides.  *)

\* The number of bytes between the counters, wrapped around or not.
LEMMA UsedCases ==
  ASSUME NEW r \in Counter, NEW w \in Counter
  PROVE  (w + Width - r) % Width = IF r <= w THEN w - r ELSE w + Width - r
  <1>1. Width \in Nat \ {0} /\ w \in Nat /\ r \in Nat /\ w < Width /\ r < Width /\ Width % Width = 0
    BY PipeAssumption DEF PipeAssumption, Counter
  <1>2. CASE r <= w
    <2>1. (w - r) + Width = w + Width - r /\ w - r \in 0..Width - 1
      BY <1>1, <1>2
    <2>2. ((w - r) + Width) % Width = w - r
      BY <1>1, <2>1, ModOnce
    <2> QED
      BY <2>1, <2>2, <1>2
  <1>3. CASE r > w
    BY <1>1, <1>3
  <1> QED
    BY <1>1, <1>2, <1>3

\* A counter is incremented.
LEMMA NextCounter ==
  ASSUME NEW n \in Counter
  PROVE  (n + 1) % Width = IF n = Width - 1 THEN 0 ELSE n + 1
  BY PipeAssumption DEF PipeAssumption, Counter

\* The sum in the test of pipewrite() for a full buffer.
LEMMA FullNumbers ==
  ASSUME NEW r \in Counter
  PROVE  (r + PIPESIZE) % Width = IF r + PIPESIZE < Width THEN r + PIPESIZE ELSE r + PIPESIZE - Width
  <1>1. Width \in Nat \ {0} /\ r \in Nat /\ r < Width /\ Width % Width = 0 /\ PIPESIZE \in Nat /\ PIPESIZE < Width
    BY PipeAssumption DEF PipeAssumption, Counter
  <1>2. CASE r + PIPESIZE >= Width
    <2>1. r + PIPESIZE - Width \in 0..Width - 1 /\ (r + PIPESIZE - Width) + Width = r + PIPESIZE
      BY <1>1, <1>2
    <2>2. ((r + PIPESIZE - Width) + Width) % Width = r + PIPESIZE - Width
      BY <1>1, <2>1, ModOnce
    <2> QED
      BY <1>2, <2>1, <2>2, <1>1
  <1> QED
    BY <1>1, <1>2

\* The bytes between two values of the counters; Used for those of the pipe.
UsedOf(r, w) == (w + Width - r) % Width

\* What the tests and the increments of piperead() and pipewrite() mean for the number of
\* bytes in the ring, and where the bytes lie after the counters have wrapped around.
LEMMA RingNumbers ==
  ASSUME NEW r \in Counter, NEW w \in Counter, UsedOf(r, w) <= PIPESIZE
  PROVE  /\ UsedOf(r, w) \in Nat
         /\ r = w <=> UsedOf(r, w) = 0
         /\ w = (r + PIPESIZE) % Width <=> UsedOf(r, w) = PIPESIZE
         /\ UsedOf(r, w) < PIPESIZE => UsedOf(r, (w + 1) % Width) = UsedOf(r, w) + 1
         /\ UsedOf(r, w) > 0 => UsedOf((r + 1) % Width, w) = UsedOf(r, w) - 1
         /\ w % PIPESIZE = (r + UsedOf(r, w)) % PIPESIZE
         /\ \A i \in Nat : (((r + 1) % Width) + i) % PIPESIZE = (r + 1 + i) % PIPESIZE
  <1>0. /\ Width \in Nat \ {0} /\ r \in Nat /\ w \in Nat /\ w < Width /\ r < Width /\ Width % PIPESIZE = 0
        /\ PIPESIZE \in Nat \ {0} /\ PIPESIZE < Width
    BY PipeAssumption DEF PipeAssumption, Counter
  <1> DEFINE u == UsedOf(r, w)
             w1 == (w + 1) % Width
             r1 == (r + 1) % Width
  <1>1. u = (IF r <= w THEN w - r ELSE w + Width - r) /\ u <= PIPESIZE
    BY UsedCases DEF UsedOf
  <1>2. /\ w1 = (IF w = Width - 1 THEN 0 ELSE w + 1) /\ w1 \in Counter
        /\ r1 = (IF r = Width - 1 THEN 0 ELSE r + 1) /\ r1 \in Counter
    BY NextCounter, <1>0 DEF Counter
  <1>3. /\ UsedOf(r, w1) = IF r <= w1 THEN w1 - r ELSE w1 + Width - r
        /\ UsedOf(r1, w) = IF r1 <= w THEN w - r1 ELSE w + Width - r1
    BY <1>2, UsedCases DEF UsedOf
  <1>4. (r + PIPESIZE) % Width = IF r + PIPESIZE < Width THEN r + PIPESIZE ELSE r + PIPESIZE - Width
    BY FullNumbers
  <1>5. w % PIPESIZE = (r + u) % PIPESIZE
    <2>1. r + u = w \/ r + u = w + Width
      BY <1>0, <1>1
    <2>2. (w + Width) % PIPESIZE = w % PIPESIZE
      BY <1>0, ModPeriod
    <2> HIDE DEF u
    <2> QED
      BY <2>1, <2>2
  <1>6. ASSUME NEW i \in Nat PROVE (r1 + i) % PIPESIZE = (r + 1 + i) % PIPESIZE
    <2>1. r1 = r + 1 \/ (r1 = 0 /\ r + 1 = Width)
      BY <1>0, <1>2
    <2>2. (i + Width) % PIPESIZE = i % PIPESIZE
      BY <1>0, ModPeriod
    <2>3. r + 1 = Width => r + 1 + i = i + Width
      BY <1>0
    <2> HIDE DEF r1
    <2> QED
      BY <2>1, <2>2, <2>3
  <1> HIDE DEF u, w1, r1
  <1>7. u \in Nat /\ (r = w <=> u = 0) /\ (w = (r + PIPESIZE) % Width <=> u = PIPESIZE)
    BY <1>0, <1>1, <1>4
  <1>8. u < PIPESIZE => UsedOf(r, w1) = u + 1
    BY <1>0, <1>1, <1>2, <1>3
  <1>9. u > 0 => UsedOf(r1, w) = u - 1
    BY <1>0, <1>1, <1>2, <1>3
  <1> QED
    BY <1>5, <1>6, <1>7, <1>8, <1>9 DEF u, w1, r1

Ring ==
  /\ UsedOf(nread, nwrite) <= PIPESIZE
  /\ \A p \in Proc : pc[p] \in InCall => (IF op[p] = "read" THEN "r" ELSE "w") \in ends[p]
  /\ \A p \in Proc : pc[p] = "copy" => moved[p]

RingInv == EndsInv /\ Ring

LEMMA InitRing == Init => Ring
  <1> SUFFICES ASSUME Init PROVE Ring
    OBVIOUS
  <1>1. 0 \in Counter /\ PIPESIZE \in Nat
    BY PipeAssumption DEF PipeAssumption, Counter
  <1>2. UsedOf(nread, nwrite) = 0
    BY <1>1, UsedCases DEF Init, UsedOf
  <1>3. \A p \in Proc : pc[p] = "user"
    BY DEF Init
  <1> QED
    BY <1>1, <1>2, <1>3 DEF Ring, InCall, Inside

\* Nothing but pipealloc(), write_byte() and read_byte() changes the counters.
LEMMA NextUsed ==
  ASSUME RingInv, [Next]_vars
  PROVE  UsedOf(nread, nwrite)' <= PIPESIZE
  <1>1. /\ nread \in Counter /\ nwrite \in Counter /\ UsedOf(nread, nwrite) <= PIPESIZE
        /\ PIPESIZE \in Nat \ {0} /\ 0 \in Counter
    BY PipeAssumption DEF RingInv, EndsInv, TypeOK, Ring, PipeAssumption, Counter
  <1>2. CASE UNCHANGED <<nread, nwrite>>
    BY <1>1, <1>2 DEF UsedOf
  <1>3. ASSUME NEW p \in Proc, pipealloc(p) PROVE UsedOf(nread, nwrite)' <= PIPESIZE
    <2>1. nread' = 0 /\ nwrite' = 0
      BY <1>3 DEF pipealloc
    <2>2. UsedOf(0, 0) = 0
      BY <1>1, UsedCases DEF UsedOf
    <2>3. UsedOf(nread, nwrite)' = UsedOf(nread', nwrite')
      BY DEF UsedOf
    <2> QED
      BY <1>1, <2>1, <2>2, <2>3
  <1>4. ASSUME NEW p \in Proc, NEW b \in Byte, write_byte(p, b)
        PROVE  UsedOf(nread, nwrite)' <= PIPESIZE
    <2>1. nread' = nread /\ nwrite' = (nwrite + 1) % Width /\ nwrite # (nread + PIPESIZE) % Width
      BY <1>4 DEF write_byte, Full
    <2>2. UsedOf(nread, nwrite) \in Nat /\ UsedOf(nread, nwrite) < PIPESIZE
      BY <1>1, <2>1, RingNumbers
    <2>3. UsedOf(nread, (nwrite + 1) % Width) = UsedOf(nread, nwrite) + 1
      BY <1>1, <2>2, RingNumbers
    <2>4. UsedOf(nread, nwrite)' = UsedOf(nread', nwrite')
      BY DEF UsedOf
    <2> QED
      BY <1>1, <2>1, <2>2, <2>3, <2>4
  <1>5. ASSUME NEW p \in Proc, read_byte(p) PROVE UsedOf(nread, nwrite)' <= PIPESIZE
    <2>1. nwrite' = nwrite /\ nread' = (nread + 1) % Width /\ nread # nwrite
      BY <1>5 DEF read_byte, Empty
    <2>2. UsedOf(nread, nwrite) \in Nat /\ UsedOf(nread, nwrite) > 0
      BY <1>1, <2>1, RingNumbers
    <2>3. UsedOf((nread + 1) % Width, nwrite) = UsedOf(nread, nwrite) - 1
      BY <1>1, <2>2, RingNumbers
    <2>4. UsedOf(nread, nwrite)' = UsedOf(nread', nwrite')
      BY DEF UsedOf
    <2> QED
      BY <1>1, <2>1, <2>2, <2>3, <2>4
  <1>6. \/ UNCHANGED <<nread, nwrite>>
        \/ \E p \in Proc : pipealloc(p) \/ read_byte(p) \/ \E b \in Byte : write_byte(p, b)
    BY DEF Next, Step, vars, pipe, call, acquire, write_full, write_done, read_wait, read_done,
       sleep, fork, fileclose, pipeclose, kill, exit
  <1> QED
    BY <1>2, <1>3, <1>4, <1>5, <1>6

\* The end a call works on stays open, and a reader that copies has moved a byte.
LEMMA NextInCall ==
  ASSUME RingInv, [Next]_vars, NEW r \in Proc
  PROVE  /\ (pc[r] \in InCall => (IF op[r] = "read" THEN "r" ELSE "w") \in ends[r])'
         /\ (pc[r] = "copy" => moved[r])'
  <1> USE DEF InCall, Inside
  <1> DEFINE Goal == /\ (pc[r] \in InCall => (IF op[r] = "read" THEN "r" ELSE "w") \in ends[r])'
                     /\ (pc[r] = "copy" => moved[r])'
  <1>0. /\ pc[r] \in InCall => (IF op[r] = "read" THEN "r" ELSE "w") \in ends[r]
        /\ pc[r] = "copy" => moved[r]
        /\ pc \in [Proc -> Where] /\ op \in [Proc -> {"read", "write"}] /\ moved \in [Proc -> BOOLEAN]
        /\ ends \in [Proc -> SUBSET {"r", "w"}]
    BY DEF RingInv, Ring, EndsInv, TypeOK
  <1>1. ASSUME NEW p \in Proc, NEW o \in {"read", "write"}, NEW n \in 0..MaxN, call(p, o, n)
        PROVE  Goal
    <2>1. /\ (IF o = "read" THEN "r" ELSE "w") \in ends[p] /\ ends' = ends
          /\ op' = [op EXCEPT ![p] = o] /\ pc' = [pc EXCEPT ![p] = "acquire"]
          /\ moved' = [moved EXCEPT ![p] = FALSE]
      BY <1>1 DEF call, Goto
    <2> QED
      BY <1>0, <2>1
  <1>2. ASSUME NEW p \in Proc, acquire(p) PROVE Goal
    <2>1. UNCHANGED <<ends, op, moved>> /\ pc[p] = "acquire" /\ pc' = [pc EXCEPT ![p] = "loop"]
      BY <1>2 DEF acquire, Goto
    <2> QED
      BY <1>0, <2>1
  <1>3. ASSUME NEW p \in Proc, Step(p) PROVE Goal
    <2>1. /\ UNCHANGED <<ends, op>> /\ pc[p] \in InCall
          /\ pc'[r] = "copy" => (IF r = p THEN moved'[r] ELSE pc[r] = "copy" /\ moved'[r] = moved[r])
          /\ r # p => pc'[r] = pc[r] \/ (pc[r] = "asleep" /\ pc'[r] = "acquire")
      <3>1. ASSUME write_full(p) \/ write_done(p) \/ read_wait(p) \/ sleep(p) \/ read_done(p)
            PROVE  UNCHANGED <<ends, op, moved>> /\ pc'[p] # "copy" /\ pc[p] \in InCall
                   /\ (r # p => pc'[r] = pc[r] \/ (pc[r] = "asleep" /\ pc'[r] = "acquire"))
        BY <1>0, <3>1 DEF write_full, write_done, read_wait, sleep, read_done, Copies, Holds, Goto,
                          wakeup
      <3>2. ASSUME NEW b \in Byte, write_byte(p, b)
            PROVE  UNCHANGED <<ends, op, moved, pc>> /\ pc[p] = "loop"
        BY <3>2 DEF write_byte, Holds
      <3>3. ASSUME read_byte(p)
            PROVE  UNCHANGED <<ends, op>> /\ pc[p] \in InCall
                   /\ moved' = [moved EXCEPT ![p] = TRUE] /\ pc' = [pc EXCEPT ![p] = "copy"]
        BY <3>3 DEF read_byte, Copies, Holds, Goto
      <3> QED
        BY <1>0, <1>3, <3>1, <3>2, <3>3 DEF Step
    <2> QED
      BY <1>0, <2>1
  <1>4. ASSUME NEW p \in Proc, pipealloc(p) PROVE Goal
    <2>1. UNCHANGED <<pc, op, moved>> /\ ends' = [ends EXCEPT ![p] = {"r", "w"}]
      BY <1>4 DEF pipealloc
    <2> QED
      BY <1>0, <2>1
  <1>5. ASSUME NEW p \in Proc, NEW q \in Proc, fork(p, q) PROVE Goal
    <2>1. UNCHANGED <<pc, op, moved>> /\ pc[q] = "user" /\ ends' = [ends EXCEPT ![q] = ends[p]]
      BY <1>5 DEF fork
    <2> QED
      BY <1>0, <2>1
  <1>6. ASSUME NEW p \in Proc, NEW e \in {"r", "w"}, fileclose(p, e) PROVE Goal
    <2>1. /\ UNCHANGED <<op, moved>> /\ pc[p] = "user" /\ ends' = [ends EXCEPT ![p] = @ \ {e}]
          /\ pc' = pc \/ \E w \in {"close_r", "close_w"} : pc' = [pc EXCEPT ![p] = w]
      BY <1>6 DEF fileclose, Goto
    <2> QED
      BY <1>0, <2>1
  <1>7. ASSUME NEW p \in Proc, pipeclose(p) PROVE Goal
    <2>1. UNCHANGED <<op, moved, ends>> /\ pc'[p] = "user"
          /\ (r # p => pc'[r] = pc[r] \/ (pc[r] = "asleep" /\ pc'[r] = "acquire"))
      BY <1>0, <1>7 DEF pipeclose, wakeup
    <2> QED
      BY <1>0, <2>1
  <1>8. ASSUME NEW p \in Proc, kill(p) PROVE Goal
    <2>1. UNCHANGED <<op, moved, ends>>
          /\ (pc' = pc \/ (pc[p] = "asleep" /\ pc' = [pc EXCEPT ![p] = "acquire"]))
      BY <1>8 DEF kill, Goto
    <2> QED
      BY <1>0, <2>1
  <1>9. ASSUME NEW p \in Proc, exit(p) PROVE Goal
    BY <1>0, <1>9 DEF exit
  <1>10. CASE UNCHANGED vars
    BY <1>0, <1>10 DEF vars
  <1> QED
    BY <1>1, <1>2, <1>3, <1>4, <1>5, <1>6, <1>7, <1>8, <1>9, <1>10 DEF Next

LEMMA RingAlways == Spec => []RingInv
  <1>1. RingInv /\ [Next]_vars => RingInv'
    <2> SUFFICES ASSUME RingInv, [Next]_vars PROVE RingInv'
      OBVIOUS
    <2>1. EndsInv'
      BY NextTypes, NextEnds DEF RingInv, EndsInv
    <2>2. Ring'
      BY NextUsed, NextInCall DEF Ring
    <2> QED
      BY <2>1, <2>2 DEF RingInv
  <1>2. Init => RingInv
    BY InitTypes, InitEnds, InitRing DEF RingInv, EndsInv
  <1> QED
    BY <1>1, <1>2, PTL DEF Spec

-----------------------------------------------------------------------------
(* The byte stream.                                                        *)

\* The bytes between two values of the counters, oldest first.
StreamOf(d, r, w) == [i \in 1..UsedOf(r, w) |-> d[(r + i - 1) % PIPESIZE]]

LEMMA StreamIsSeq ==
  ASSUME NEW r \in Counter, NEW w \in Counter, NEW d \in [Index -> Byte], UsedOf(r, w) <= PIPESIZE
  PROVE  /\ StreamOf(d, r, w) \in Seq(Byte) /\ Len(StreamOf(d, r, w)) = UsedOf(r, w)
         /\ \A i \in 1..UsedOf(r, w) : StreamOf(d, r, w)[i] = d[(r + i - 1) % PIPESIZE]
  <1> DEFINE u == UsedOf(r, w)
  <1>1. u \in Nat
    BY RingNumbers
  <1> HIDE DEF u
  <1>2. ASSUME NEW i \in 1..u PROVE d[(r + i - 1) % PIPESIZE] \in Byte
    <2>1. r + i - 1 \in Nat /\ PIPESIZE \in Nat \ {0}
      BY <1>1, PipeAssumption DEF Counter, PipeAssumption
    <2>2. (r + i - 1) % PIPESIZE \in Index
      BY <2>1, ModDivides DEF Index
    <2> QED
      BY <2>2
  <1>3. StreamOf(d, r, w) = [i \in 1..u |-> d[(r + i - 1) % PIPESIZE]]
    BY DEF StreamOf, u
  <1>4. StreamOf(d, r, w) \in [1..u -> Byte]
    BY <1>2, <1>3
  <1>5. StreamOf(d, r, w) \in Seq(Byte) /\ Len(StreamOf(d, r, w)) = u
    BY <1>1, <1>4
  <1> QED
    BY <1>3, <1>5 DEF u

\* The stream is empty exactly when the counters are equal.
LEMMA EmptyStream == RingInv /\ allocated => (Empty <=> Stream = <<>>)
  <1> SUFFICES ASSUME RingInv, allocated PROVE Empty <=> Stream = <<>>
    OBVIOUS
  <1>1. /\ nread \in Counter /\ nwrite \in Counter /\ data \in [Index -> Byte]
        /\ UsedOf(nread, nwrite) <= PIPESIZE
    BY DEF RingInv, EndsInv, TypeOK, Ring
  <1>2. Stream = StreamOf(data, nread, nwrite)
    BY DEF Stream, StreamOf, Used, UsedOf
  <1>3. Empty <=> UsedOf(nread, nwrite) = 0
    BY <1>1, RingNumbers DEF Empty
  <1>4. Stream \in Seq(Byte) /\ Len(Stream) = UsedOf(nread, nwrite)
    BY <1>1, <1>2, StreamIsSeq
  <1> QED
    BY <1>3, <1>4

\* write_byte() appends: the byte goes to the place behind the last one.
LEMMA PutStream ==
  ASSUME RingInv, RingInv', NEW p \in Proc, NEW b \in Byte, write_byte(p, b), allocated
  PROVE  Stream' = Append(Stream, b) /\ Len(Stream) < PIPESIZE
  <1>1. /\ nread \in Counter /\ nwrite \in Counter /\ data \in [Index -> Byte]
        /\ UsedOf(nread, nwrite) <= PIPESIZE /\ Used = UsedOf(nread, nwrite)
        /\ nwrite % PIPESIZE \in Index
    BY Wraps DEF RingInv, EndsInv, TypeOK, Ring, Used, UsedOf
  <1>2. /\ nread' = nread /\ nwrite' = (nwrite + 1) % Width /\ allocated'
        /\ data' = [data EXCEPT ![nwrite % PIPESIZE] = b]
        /\ nwrite # (nread + PIPESIZE) % Width
    BY DEF write_byte, Full
  <1>3. Used \in Nat /\ Used < PIPESIZE /\ nwrite % PIPESIZE = (nread + Used) % PIPESIZE
    <2>1. PIPESIZE \in Nat /\ UsedOf(nread, nwrite) \in Nat /\ UsedOf(nread, nwrite) # PIPESIZE
      BY <1>1, <1>2, RingNumbers, PipeAssumption DEF PipeAssumption
    <2>2. nwrite % PIPESIZE = (nread + UsedOf(nread, nwrite)) % PIPESIZE
      BY <1>1, RingNumbers
    <2> HIDE DEF Used
    <2> QED
      BY <1>1, <2>1, <2>2
  <1>4. Used' = Used + 1
    <2>1. UsedOf(nread, (nwrite + 1) % Width) = UsedOf(nread, nwrite) + 1
      BY <1>1, <1>3, RingNumbers
    <2>2. Used' = UsedOf(nread', nwrite')
      BY DEF Used, UsedOf
    <2> QED
      BY <1>1, <1>2, <2>1, <2>2
  <1>5. /\ Stream \in Seq(Byte) /\ Len(Stream) = Used
        /\ \A i \in 1..Used : Stream[i] = data[(nread + i - 1) % PIPESIZE]
    <2>1. Stream = StreamOf(data, nread, nwrite) /\ data \in [Index -> Byte]
      BY DEF Stream, StreamOf, Used, UsedOf, RingInv, EndsInv, TypeOK
    <2> QED
      BY <1>1, <2>1, StreamIsSeq
  <1>6. /\ Stream' \in Seq(Byte) /\ Len(Stream') = Used'
        /\ \A i \in 1..Used' : Stream'[i] = data'[(nread' + i - 1) % PIPESIZE]
    <2>1. Stream' = StreamOf(data', nread', nwrite') /\ Used' = UsedOf(nread', nwrite')
      BY <1>2 DEF Stream, StreamOf, Used, UsedOf
    <2>2. /\ nread' \in Counter /\ nwrite' \in Counter /\ data' \in [Index -> Byte]
          /\ UsedOf(nread', nwrite') <= PIPESIZE
      BY DEF RingInv, EndsInv, TypeOK, Ring, UsedOf
    <2> QED
      BY <2>1, <2>2, StreamIsSeq
  <1> HIDE DEF Used, Stream
  <1>7. ASSUME NEW i \in 1..Used PROVE Stream'[i] = Stream[i]
    <2>2. Used + 1 - i \in 1..PIPESIZE - 1 /\ nread + i - 1 \in Nat /\ PIPESIZE \in Nat \ {0}
          /\ (nread + i - 1) + (Used + 1 - i) = nread + Used
      BY <1>1, <1>3, PipeAssumption DEF Counter, PipeAssumption
    <2>3. ((nread + i - 1) + (Used + 1 - i)) % PIPESIZE # (nread + i - 1) % PIPESIZE
      BY <2>2, ModDistinct
    <2>4. (nread + i - 1) % PIPESIZE # nwrite % PIPESIZE
      BY <1>3, <2>2, <2>3
    <2>5. (nread + i - 1) % PIPESIZE \in Index
      BY <2>2, ModDivides DEF Index
    <2>6. i \in 1..Used'
      BY <1>3, <1>4
    <2> QED
      BY <1>1, <1>2, <1>5, <1>6, <2>4, <2>5, <2>6
  <1>8. Stream'[Used + 1] = b
    <2>1. Used + 1 \in 1..Used' /\ nread + (Used + 1) - 1 = nread + Used
      BY <1>1, <1>3, <1>4 DEF Counter
    <2>2. Stream'[Used + 1] = data'[(nread + Used) % PIPESIZE]
      BY <1>2, <1>6, <2>1
    <2> QED
      BY <1>1, <1>2, <1>3, <2>2
  <1>9. /\ Append(Stream, b) \in Seq(Byte) /\ Len(Append(Stream, b)) = Used + 1
        /\ \A i \in 1..Used : Append(Stream, b)[i] = Stream[i]
        /\ Append(Stream, b)[Used + 1] = b
    BY <1>5, AppendProperties
  <1>10. \A i \in 1..Used + 1 : Stream'[i] = Append(Stream, b)[i]
    <2> SUFFICES ASSUME NEW i \in 1..Used + 1 PROVE Stream'[i] = Append(Stream, b)[i]
      OBVIOUS
    <2>1. i \in 1..Used \/ i = Used + 1
      BY <1>3
    <2> QED
      BY <1>7, <1>8, <1>9, <2>1
  <1>11. Stream' = Append(Stream, b)
    BY <1>4, <1>6, <1>9, <1>10, SeqEqual
  <1> QED
    BY <1>3, <1>5, <1>11

\* read_byte() delivers the oldest byte and removes it.
LEMMA GetStream ==
  ASSUME RingInv, RingInv', NEW p \in Proc, read_byte(p), allocated
  PROVE  Stream # <<>> /\ got' = Head(Stream) /\ Stream' = Tail(Stream)
  <1>1. /\ nread \in Counter /\ nwrite \in Counter /\ PIPESIZE \in Nat \ {0}
        /\ UsedOf(nread, nwrite) <= PIPESIZE /\ Used = UsedOf(nread, nwrite)
    BY PipeAssumption DEF RingInv, EndsInv, TypeOK, Ring, Used, UsedOf, PipeAssumption
  <1>2. /\ nwrite' = nwrite /\ nread' = (nread + 1) % Width /\ allocated' /\ data' = data
        /\ nread # nwrite /\ got' = data[nread % PIPESIZE]
    BY DEF read_byte, Empty
  <1>3. /\ Used \in Nat /\ Used > 0
        /\ \A i \in Nat : (((nread + 1) % Width) + i) % PIPESIZE = (nread + 1 + i) % PIPESIZE
    BY <1>1, <1>2, RingNumbers
  <1>4. Used' = Used - 1
    <2>1. UsedOf((nread + 1) % Width, nwrite) = UsedOf(nread, nwrite) - 1
      BY <1>1, <1>3, RingNumbers
    <2>2. Used' = UsedOf(nread', nwrite')
      BY DEF Used, UsedOf
    <2> QED
      BY <1>1, <1>2, <2>1, <2>2
  <1>5. /\ Stream \in Seq(Byte) /\ Len(Stream) = Used
        /\ \A i \in 1..Used : Stream[i] = data[(nread + i - 1) % PIPESIZE]
    <2>1. Stream = StreamOf(data, nread, nwrite) /\ data \in [Index -> Byte]
      BY DEF Stream, StreamOf, Used, UsedOf, RingInv, EndsInv, TypeOK
    <2> QED
      BY <1>1, <2>1, StreamIsSeq
  <1>6. /\ Stream' \in Seq(Byte) /\ Len(Stream') = Used'
        /\ \A i \in 1..Used' : Stream'[i] = data'[(nread' + i - 1) % PIPESIZE]
    <2>1. Stream' = StreamOf(data', nread', nwrite') /\ Used' = UsedOf(nread', nwrite')
      BY <1>2 DEF Stream, StreamOf, Used, UsedOf
    <2>2. /\ nread' \in Counter /\ nwrite' \in Counter /\ data' \in [Index -> Byte]
          /\ UsedOf(nread', nwrite') <= PIPESIZE
      BY DEF RingInv, EndsInv, TypeOK, Ring, UsedOf
    <2> QED
      BY <2>1, <2>2, StreamIsSeq
  <1> HIDE DEF Used, Stream
  <1>7. Stream # <<>>
    BY <1>3, <1>5
  <1>8. Head(Stream) = data[nread % PIPESIZE]
    <2>1. 1 \in 1..Used /\ nread + 1 - 1 = nread
      BY <1>1, <1>3 DEF Counter
    <2>2. Stream[1] = data[nread % PIPESIZE]
      BY <1>5, <2>1
    <2> QED
      BY <2>2
  <1>9. /\ Tail(Stream) \in Seq(Byte) /\ Len(Tail(Stream)) = Used - 1
        /\ \A i \in 1..Used - 1 : Tail(Stream)[i] = Stream[i + 1]
    BY <1>5, <1>7, HeadTailProperties
  <1>10. ASSUME NEW i \in 1..Used - 1 PROVE Stream'[i] = Tail(Stream)[i]
    <2>1. /\ i - 1 \in Nat /\ i + 1 \in 1..Used /\ i \in 1..Used'
          /\ nread' + i - 1 = ((nread + 1) % Width) + (i - 1)
          /\ nread + 1 + (i - 1) = nread + (i + 1) - 1
      <3>1. nread \in Nat /\ (nread + 1) % Width \in Nat
        BY <1>1, Wraps DEF Counter
      <3> QED
        BY <1>2, <1>3, <1>4, <3>1
    <2>2. (((nread + 1) % Width) + (i - 1)) % PIPESIZE = (nread + 1 + (i - 1)) % PIPESIZE
      BY <1>3, <2>1
    <2>3. Stream'[i] = data[(nread + (i + 1) - 1) % PIPESIZE]
      BY <1>2, <1>6, <2>1, <2>2
    <2>4. Stream[i + 1] = data[(nread + (i + 1) - 1) % PIPESIZE]
      BY <1>5, <2>1
    <2> QED
      BY <1>9, <2>3, <2>4
  <1>11. Stream' = Tail(Stream)
    BY <1>4, <1>6, <1>9, <1>10, SeqEqual
  <1> QED
    BY <1>2, <1>7, <1>8, <1>11

\* Every other step leaves the stream alone.
LEMMA SameStream ==
  ASSUME UNCHANGED <<data, nread, nwrite, allocated>>
  PROVE  Stream' = Stream
  BY DEF Stream, Used

LEMMA InitStream == Init => Abstract!Init
  BY DEF Init, Abstract!Init, Stream

\* A process inside a call has its end open, so the pipe is allocated; whether an end can
\* still be used is what the flags say.
LEMMA FlagsTell ==
  ASSUME RingInv
  PROVE  /\ \A p \in Proc : pc[p] \in InCall =>
              allocated /\ ends[p] # {} /\ (IF op[p] = "read" THEN "r" ELSE "w") \in ends[p]
         /\ ~readopen => ~Abstract!Open("r")
         /\ ~writeopen => ~Abstract!Open("w")
  <1>1. \A p \in Proc : ends[p] \subseteq {"r", "w"}
    BY DEF RingInv, EndsInv, TypeOK
  <1>2. ~readopen => \A p \in Proc : "r" \notin ends[p]
    BY DEF RingInv, EndsInv, Ends, Uses
  <1>3. ~writeopen => \A p \in Proc : "w" \notin ends[p]
    BY DEF RingInv, EndsInv, Ends, Uses
  <1>4. \A p \in Proc : ends[p] # {} => allocated
    BY <1>1, <1>2, <1>3 DEF RingInv, EndsInv, Ends
  <1>5. \A p \in Proc : pc[p] \in InCall =>
          ends[p] # {} /\ (IF op[p] = "read" THEN "r" ELSE "w") \in ends[p]
    BY DEF RingInv, EndsInv, Ends, Ring
  <1> QED
    BY <1>2, <1>3, <1>4, <1>5 DEF Abstract!Open

\* What a process does inside piperead() and pipewrite().
LEMMA AbsCallStep ==
  ASSUME RingInv, RingInv', NEW p \in Proc, Step(p)
  PROVE  Abstract!Next \/ UNCHANGED Abstract!vars
  <1>1. CASE write_full(p)
    <2>1. Stream' = Stream /\ UNCHANGED <<ends, killed, got>> /\ pc[p] \in InCall
      BY <1>1, SameStream DEF write_full, pipe, Holds, InCall, Inside
    <2>2. CASE ~readopen \/ killed[p]
      <3>1. ret' = [ret EXCEPT ![p] = "failed"]
        BY <1>1, <2>2 DEF write_full, return
      <3>2. Abstract!Return(p, "failed")
        BY <2>1, <2>2, <3>1, FlagsTell DEF Abstract!Return
      <3> QED
        BY <3>2 DEF Abstract!Next
    <2>3. CASE ~(~readopen \/ killed[p])
      <3>1. ret' = ret
        BY <1>1, <2>3 DEF write_full
      <3> QED
        BY <2>1, <3>1 DEF Abstract!vars
    <2> QED
      BY <2>2, <2>3
  <1>2. ASSUME NEW b \in Byte, write_byte(p, b) PROVE Abstract!Next
    <2>1. allocated /\ "w" \in ends[p]
      BY <1>2, FlagsTell DEF write_byte, Holds, InCall, Inside
    <2>2. Stream' = Append(Stream, b) /\ Len(Stream) < PIPESIZE
      BY <1>2, <2>1, PutStream
    <2>3. Abstract!Put(p, b)
      BY <1>2, <2>1, <2>2 DEF write_byte, Abstract!Put
    <2> QED
      BY <2>3 DEF Abstract!Next
  <1>3. CASE write_done(p)
    <2>1. Stream' = Stream /\ UNCHANGED <<ends, killed, got>> /\ ends[p] # {}
          /\ ret' = [ret EXCEPT ![p] = "ok"]
      BY <1>3, SameStream, FlagsTell DEF write_done, pipe, Holds, InCall, Inside, return
    <2>2. Abstract!Return(p, "ok")
      BY <2>1 DEF Abstract!Return
    <2> QED
      BY <2>2 DEF Abstract!Next
  <1>4. CASE read_wait(p)
    <2>1. Stream' = Stream /\ UNCHANGED <<ends, killed, got>> /\ ends[p] # {}
      BY <1>4, SameStream, FlagsTell DEF read_wait, pipe, Holds, InCall, Inside
    <2>2. CASE killed[p]
      <3>1. ret' = [ret EXCEPT ![p] = "failed"]
        BY <1>4, <2>2 DEF read_wait, return
      <3>2. Abstract!Return(p, "failed")
        BY <2>1, <2>2, <3>1 DEF Abstract!Return
      <3> QED
        BY <3>2 DEF Abstract!Next
    <2>3. CASE ~killed[p]
      <3>1. ret' = ret
        BY <1>4, <2>3 DEF read_wait
      <3> QED
        BY <2>1, <3>1 DEF Abstract!vars
    <2> QED
      BY <2>2, <2>3
  <1>5. CASE read_byte(p)
    <2>1. allocated /\ "r" \in ends[p]
      BY <1>5, FlagsTell DEF read_byte, Copies, Holds, InCall, Inside
    <2>2. Stream # <<>> /\ got' = Head(Stream) /\ Stream' = Tail(Stream)
      BY <1>5, <2>1, GetStream
    <2>3. Abstract!Get(p)
      BY <1>5, <2>1, <2>2 DEF read_byte, Abstract!Get
    <2> QED
      BY <2>3 DEF Abstract!Next
  <1>6. CASE read_done(p)
    <2>1. Stream' = Stream /\ UNCHANGED <<ends, killed, got>> /\ ends[p] # {} /\ allocated
          /\ pc[p] \in {"loop", "copy"}
      BY <1>6, SameStream, FlagsTell DEF read_done, pipe, Copies, Holds, InCall, Inside
    <2>2. CASE left[p] > 0 /\ ~moved[p]
      <3>1. ret' = [ret EXCEPT ![p] = "eof"]
        BY <1>6, <2>2 DEF read_done, return
      <3>2. pc[p] = "loop"
        BY <2>1, <2>2 DEF RingInv, Ring
      <3>3. Empty
        <4>1. left[p] # 0
          BY <2>2 DEF RingInv, EndsInv, TypeOK
        <4> QED
          BY <1>6, <4>1 DEF read_done
      <3>4. ~writeopen
        BY <1>6, <3>2, <3>3 DEF read_done, Copies
      <3>5. Stream = <<>> /\ ~Abstract!Open("w")
        BY <2>1, <3>3, <3>4, EmptyStream, FlagsTell
      <3>6. Abstract!Return(p, "eof")
        BY <2>1, <3>1, <3>5 DEF Abstract!Return
      <3> QED
        BY <3>6 DEF Abstract!Next
    <2>3. CASE ~(left[p] > 0 /\ ~moved[p])
      <3>1. ret' = [ret EXCEPT ![p] = "ok"]
        BY <1>6, <2>3 DEF read_done, return
      <3>2. Abstract!Return(p, "ok")
        BY <2>1, <3>1 DEF Abstract!Return
      <3> QED
        BY <3>2 DEF Abstract!Next
    <2> QED
      BY <2>2, <2>3
  <1>7. CASE sleep(p)
    BY <1>7, SameStream DEF sleep, pipe, Abstract!vars
  <1> QED
    BY <1>1, <1>2, <1>3, <1>4, <1>5, <1>6, <1>7 DEF Step

LEMMA AbsStep ==
  ASSUME RingInv, RingInv', [Next]_vars
  PROVE  [Abstract!Next]_(Abstract!vars)
  <1> DEFINE Goal == Abstract!Next \/ UNCHANGED Abstract!vars
  <1>1. ASSUME NEW p \in Proc, NEW o \in {"read", "write"}, NEW n \in 0..MaxN, call(p, o, n)
        PROVE  Goal
    <2>1. Abstract!Return(p, "ok")
      BY <1>1, SameStream DEF call, pipe, Abstract!Return
    <2> QED
      BY <2>1 DEF Abstract!Next
  <1>2. ASSUME NEW p \in Proc, acquire(p) PROVE Goal
    BY <1>2, SameStream DEF acquire, pipe, Abstract!vars
  <1>3. ASSUME NEW p \in Proc, pipealloc(p) PROVE Goal
    <2>1. ~Abstract!Open("r") /\ ~Abstract!Open("w") /\ Stream = <<>>
      BY <1>3, FlagsTell DEF pipealloc, Stream, RingInv, EndsInv, Ends
    <2>2. Stream' = <<>>
      <3>1. /\ 0 \in Counter /\ data' \in [Index -> Byte] /\ UsedOf(0, 0) = 0 /\ PIPESIZE \in Nat
        BY PipeAssumption, UsedCases DEF RingInv, EndsInv, TypeOK, UsedOf, Counter, PipeAssumption
      <3>2. Stream' = StreamOf(data', 0, 0)
        BY <1>3 DEF pipealloc, Stream, StreamOf, Used, UsedOf
      <3>3. Stream' \in Seq(Byte) /\ Len(Stream') = 0
        BY <3>1, <3>2, StreamIsSeq
      <3> QED
        BY <3>3
    <2>3. Abstract!Create(p)
      BY <1>3, <2>1, <2>2 DEF pipealloc, Abstract!Create
    <2> QED
      BY <2>3 DEF Abstract!Next
  <1>4. ASSUME NEW p \in Proc, NEW q \in Proc, fork(p, q) PROVE Goal
    <2>1. Abstract!Inherit(p, q)
      BY <1>4, SameStream DEF fork, pipe, Abstract!Inherit
    <2> QED
      BY <2>1 DEF Abstract!Next
  <1>5. ASSUME NEW p \in Proc, NEW e \in {"r", "w"}, fileclose(p, e) PROVE Goal
    <2>1. Abstract!Close(p, e)
      BY <1>5, SameStream DEF fileclose, pipe, Abstract!Close
    <2> QED
      BY <2>1 DEF Abstract!Next
  <1>6. ASSUME NEW p \in Proc, pipeclose(p) PROVE Goal
    <2>1. UNCHANGED <<data, nread, nwrite, ends, killed, got, ret>>
          /\ (allocated' <=> readopen' \/ writeopen')
      BY <1>6 DEF pipeclose
    <2>2. CASE allocated' = allocated
      BY <2>1, <2>2, SameStream DEF Abstract!vars
    <2>3. CASE allocated' # allocated
      <3>1. allocated' \in BOOLEAN /\ allocated \in BOOLEAN
        BY DEF RingInv, EndsInv, TypeOK
      <3>2. ~allocated'
        BY <1>6, <2>3, <3>1 DEF pipeclose, RingInv, EndsInv, Ends
      <3>3. \A q \in Proc : "r" \notin ends'[q] /\ "w" \notin ends'[q]
        BY <3>2 DEF RingInv, EndsInv, Ends, Uses
      <3>4. ~Abstract!Open("r") /\ ~Abstract!Open("w")
        BY <2>1, <3>3 DEF Abstract!Open
      <3>5. Stream' = <<>>
        BY <3>2 DEF Stream
      <3>6. Abstract!Discard
        BY <2>1, <3>4, <3>5 DEF Abstract!Discard
      <3> QED
        BY <3>6 DEF Abstract!Next
    <2> QED
      BY <2>2, <2>3
  <1>7. ASSUME NEW p \in Proc, kill(p) PROVE Goal
    <2>1. Abstract!SetKilled(p, TRUE)
      BY <1>7, SameStream DEF kill, pipe, Abstract!SetKilled
    <2> QED
      BY <2>1 DEF Abstract!Next
  <1>8. ASSUME NEW p \in Proc, exit(p) PROVE Goal
    <2>1. Abstract!SetKilled(p, FALSE)
      BY <1>8, SameStream DEF exit, pipe, Abstract!SetKilled
    <2> QED
      BY <2>1 DEF Abstract!Next
  <1>9. CASE UNCHANGED vars
    BY <1>9, SameStream DEF vars, pipe, Abstract!vars
  <1> QED
    BY <1>1, <1>2, <1>3, <1>4, <1>5, <1>6, <1>7, <1>8, <1>9, AbsCallStep DEF Next

\* The pipe implements the stream of bytes for every set of processes, every capacity and
\* every width of the counters that the capacity divides: bytes arrive once and in order
\* across every wrap of the counters, and end of file and failures are justified.
THEOREM PipeImplementsByteStream == Spec => IsByteStream
  <1>1. RingInv /\ RingInv' /\ [Next]_vars => [Abstract!Next]_(Abstract!vars)
    BY AbsStep
  <1> QED
    BY InitStream, <1>1, RingAlways, PTL DEF Spec, IsByteStream, Abstract!Spec

-----------------------------------------------------------------------------
(* Wakeups, when nobody is killed.  A process that sleeps for a condition  *)
(* that does not hold any more is about to be woken: the one that has      *)
(* changed it still holds the lock and is in front of its wakeup().        *)

\* The end of the pipe a call uses stays open until it returns.
Opened == \A p \in Proc : pc[p] \in InCall => (IF op[p] = "read" THEN "r" ELSE "w") \in ends[p]

\* A writer that has put bytes into the pipe, a reader that has taken some.
WriterOn == lock \in Proc /\ op[lock] = "write" /\ pc[lock] = "loop"
ReaderOn == lock \in Proc /\ pc[lock] = "copy"

Wakers ==
  \A p \in Proc :
    /\ pc[p] = "sleep" => MustWait(p)
    /\ pc[p] = "copy" => op[p] = "read"
    /\ pc[p] = "asleep" /\ op[p] = "read" => writeopen /\ (Empty \/ WriterOn)
    /\ pc[p] = "asleep" /\ op[p] = "write" => readopen /\ (Full \/ ReaderOn)

WakeInv == EndsInv /\ Opened /\ Wakers /\ \A p \in Proc : ~killed[p]

\* A step of one process that leaves the pipe and the sleepers alone.
LEMMA QuietStep ==
  ASSUME WakeInv, NEW p \in Proc, UNCHANGED pipe, EndsInv',
         \A q \in Proc \ {p} : pc'[q] = pc[q] /\ op'[q] = op[q],
         pc'[p] \notin {"sleep", "copy", "asleep"},
         WriterOn => WriterOn', ReaderOn => ReaderOn'
  PROVE  Wakers'
  <1>1. Empty' = Empty /\ Full' = Full /\ readopen' = readopen /\ writeopen' = writeopen
    BY DEF pipe, Empty, Full
  <1> SUFFICES ASSUME NEW q \in Proc
               PROVE  /\ pc'[q] = "sleep" => MustWait(q)'
                      /\ pc'[q] = "copy" => op'[q] = "read"
                      /\ pc'[q] = "asleep" /\ op'[q] = "read" => writeopen' /\ (Empty' \/ WriterOn')
                      /\ pc'[q] = "asleep" /\ op'[q] = "write" => readopen' /\ (Full' \/ ReaderOn')
    BY DEF Wakers
  <1>2. CASE q = p
    BY <1>2
  <1>3. CASE q # p
    <2>1. pc'[q] = pc[q] /\ op'[q] = op[q] /\ (MustWait(q)' <=> MustWait(q))
      BY <1>1, <1>3 DEF MustWait
    <2> QED
      BY <1>1, <2>1 DEF WakeInv, Wakers
  <1> QED
    BY <1>2, <1>3

\* A step inside read() or write(): only the holder of the lock is inside.
LEMMA StepWakes ==
  ASSUME WakeInv, NEW p \in Proc, Step(p), EndsInv'
  PROVE  Wakers'
  <1>1. lock = p /\ p # None /\ ~killed[p] /\ pc[p] \in Inside
    BY PipeAssumption DEF WakeInv, EndsInv, Ends, Step, write_full, write_byte, write_done, read_wait,
       read_byte, read_done, Copies, Holds, sleep, PipeAssumption, Inside
  <1>2. /\ op' = op /\ UNCHANGED <<readopen, writeopen>>
        /\ \A q \in Proc \ {p} : pc[q] \notin {"loop", "copy", "sleep"}
    BY <1>1 DEF Step, write_full, write_byte, write_done, read_wait, read_byte, read_done, sleep, pipe,
       WakeInv, EndsInv, Ends, Inside
  <1>3. /\ pc \in [Proc -> Where] /\ op \in [Proc -> {"read", "write"}]
    BY DEF WakeInv, EndsInv, TypeOK
  <1>4. CASE write_full(p)
    <2>1. CASE readopen
      <3>1. /\ UNCHANGED pipe /\ lock' = p /\ Full /\ op[p] = "write"
            /\ pc'[p] = "sleep"
            /\ \A q \in Proc \ {p} : pc'[q] = IF pc[q] = "asleep" /\ op[q] = "read" THEN "acquire" ELSE pc[q]
        BY <1>1, <1>3, <1>4, <2>1 DEF write_full, wakeup, Holds
      <3>2. Full' = Full
        BY <3>1 DEF pipe, Full
      <3>3. MustWait(p)'
        BY <1>2, <2>1, <3>1, <3>2 DEF MustWait
      <3>4. ASSUME NEW q \in Proc \ {p}
            PROVE  /\ pc'[q] # "sleep" /\ pc'[q] # "copy"
                   /\ ~(pc'[q] = "asleep" /\ op'[q] = "read")
                   /\ pc'[q] = "asleep" /\ op'[q] = "write" => readopen' /\ (Full' \/ ReaderOn')
        BY <1>2, <2>1, <3>1, <3>2
      <3> QED
        BY <1>2, <3>1, <3>3, <3>4 DEF Wakers
    <2>2. CASE ~readopen
      <3>1. UNCHANGED pipe /\ lock' = None /\ pc' = [pc EXCEPT ![p] = "user"] /\ op[p] = "write"
        BY <1>1, <1>4, <2>2 DEF write_full, Goto, return, Holds
      <3>2. \A q \in Proc : ~Uses(q, "r", "close_r")
        BY <2>2 DEF WakeInv, EndsInv, Ends
      <3>3. \A q \in Proc : ~(pc[q] = "asleep" /\ op[q] = "read")
        BY <3>2 DEF WakeInv, Opened, InCall, Uses
      <3>4. \A q \in Proc : pc[q] = "asleep" => op[q] = "read"
        BY <2>2, <1>3 DEF WakeInv, Wakers
      <3>5. \A q \in Proc : pc'[q] \notin {"sleep", "copy", "asleep"}
        BY <1>2, <1>3, <3>1, <3>3, <3>4
      <3> QED
        BY <3>5 DEF Wakers
    <2> QED
      BY <2>1, <2>2
  <1>5. ASSUME NEW b \in Byte, write_byte(p, b) PROVE Wakers'
    <2>1. pc' = pc /\ lock' = lock /\ ~Full /\ op[p] = "write" /\ pc[p] = "loop"
      BY <1>1, <1>5 DEF write_byte, Holds
    <2>2. WriterOn'
      BY <1>1, <1>2, <2>1 DEF WriterOn
    <2>3. ~ReaderOn
      BY <1>1, <2>1 DEF ReaderOn
    <2>4. \A q \in Proc : ~(pc[q] = "asleep" /\ op[q] = "write")
      BY <2>1, <2>3 DEF WakeInv, Wakers
    <2>5. \A q \in Proc : pc[q] = "asleep" /\ op[q] = "read" => writeopen
      BY DEF WakeInv, Wakers
    <2>6. \A q \in Proc : pc[q] # "sleep" /\ pc[q] # "copy"
      BY <1>2, <2>1
    <2> QED
      BY <1>2, <2>1, <2>2, <2>4, <2>5, <2>6 DEF Wakers
  <1>6. CASE write_done(p)
    <2>1. /\ UNCHANGED pipe /\ pc'[p] = "user" /\ op[p] = "write" /\ pc[p] = "loop"
          /\ \A q \in Proc \ {p} : pc'[q] = IF pc[q] = "asleep" /\ op[q] = "read" THEN "acquire" ELSE pc[q]
      BY <1>1, <1>3, <1>6 DEF write_done, wakeup, Holds
    <2>2. Full' = Full /\ ~ReaderOn
      BY <1>1, <2>1 DEF pipe, Full, ReaderOn
    <2>3. ASSUME NEW q \in Proc
          PROVE  /\ pc'[q] # "sleep" /\ pc'[q] # "copy"
                 /\ ~(pc'[q] = "asleep" /\ op'[q] = "read")
                 /\ pc'[q] = "asleep" /\ op'[q] = "write" => pc[q] = "asleep" /\ op[q] = "write"
      BY <1>2, <2>1
    <2>4. \A q \in Proc : pc[q] = "asleep" /\ op[q] = "write" => readopen /\ Full
      BY <2>2 DEF WakeInv, Wakers
    <2> QED
      BY <1>2, <2>2, <2>3, <2>4 DEF Wakers
  <1>7. CASE read_wait(p)
    <2>1. /\ UNCHANGED pipe /\ pc' = [pc EXCEPT ![p] = "sleep"] /\ lock' = lock
          /\ op[p] = "read" /\ pc[p] = "loop" /\ Empty /\ writeopen
      BY <1>1, <1>7 DEF read_wait, Goto, Holds
    <2>2. Empty' = Empty /\ Full' = Full /\ ~ReaderOn
      BY <1>1, <2>1 DEF pipe, Full, Empty, ReaderOn
    <2>3. MustWait(p)'
      BY <1>2, <2>1, <2>2 DEF MustWait
    <2>4. \A q \in Proc \ {p} : pc'[q] = pc[q] /\ pc[q] # "sleep" /\ pc[q] # "copy"
      BY <1>2, <2>1
    <2>5. \A q \in Proc : pc[q] = "asleep" /\ op[q] = "write" => readopen /\ Full
      BY <2>2 DEF WakeInv, Wakers
    <2>6. pc'[p] = "sleep"
      BY <1>3, <2>1
    <2> QED
      BY <1>2, <2>1, <2>2, <2>3, <2>4, <2>5, <2>6 DEF Wakers
  <1>8. CASE read_byte(p)
    <2>1. pc' = [pc EXCEPT ![p] = "copy"] /\ lock' = lock /\ op[p] = "read" /\ ~Empty
      BY <1>1, <1>8 DEF read_byte, Goto, Copies, Holds
    <2>2. ReaderOn' /\ ~WriterOn
      BY <1>1, <1>3, <2>1 DEF ReaderOn, WriterOn
    <2>3. \A q \in Proc : ~(pc[q] = "asleep" /\ op[q] = "read")
      BY <2>1, <2>2 DEF WakeInv, Wakers
    <2>4. \A q \in Proc : pc[q] = "asleep" /\ op[q] = "write" => readopen
      BY DEF WakeInv, Wakers
    <2>5. pc'[p] = "copy" /\ \A q \in Proc \ {p} : pc'[q] = pc[q] /\ pc[q] # "sleep" /\ pc[q] # "copy"
      BY <1>2, <1>3, <2>1
    <2> QED
      BY <1>2, <2>1, <2>2, <2>3, <2>4, <2>5 DEF Wakers
  <1>9. CASE read_done(p)
    <2>1. /\ UNCHANGED pipe /\ pc'[p] = "user" /\ op[p] = "read"
          /\ \A q \in Proc \ {p} : pc'[q] = IF pc[q] = "asleep" /\ op[q] = "write" THEN "acquire" ELSE pc[q]
      BY <1>1, <1>3, <1>9 DEF read_done, wakeup, Copies, Holds
    <2>2. Empty' = Empty /\ ~WriterOn
      BY <1>1, <2>1 DEF pipe, Empty, WriterOn
    <2>3. ASSUME NEW q \in Proc
          PROVE  /\ pc'[q] # "sleep" /\ pc'[q] # "copy"
                 /\ ~(pc'[q] = "asleep" /\ op'[q] = "write")
                 /\ pc'[q] = "asleep" /\ op'[q] = "read" => pc[q] = "asleep" /\ op[q] = "read"
      BY <1>2, <2>1
    <2>4. \A q \in Proc : pc[q] = "asleep" /\ op[q] = "read" => writeopen /\ Empty
      BY <2>2 DEF WakeInv, Wakers
    <2> QED
      BY <1>2, <2>2, <2>3, <2>4 DEF Wakers
  <1>10. CASE sleep(p)
    <2>1. UNCHANGED pipe /\ pc' = [pc EXCEPT ![p] = "asleep"] /\ pc[p] = "sleep" /\ MustWait(p)
      BY <1>10 DEF sleep, Goto, WakeInv, Wakers
    <2>2. Empty' = Empty /\ Full' = Full /\ ~ReaderOn /\ ~WriterOn
      BY <1>1, <2>1 DEF pipe, Full, Empty, ReaderOn, WriterOn
    <2>3. \A q \in Proc : pc[q] = "asleep" /\ op[q] = "write" => readopen /\ Full
      BY <2>2 DEF WakeInv, Wakers
    <2>4. \A q \in Proc : pc[q] = "asleep" /\ op[q] = "read" => writeopen /\ Empty
      BY <2>2 DEF WakeInv, Wakers
    <2>5. \A q \in Proc \ {p} : pc'[q] = pc[q] /\ pc[q] # "sleep" /\ pc[q] # "copy"
      BY <1>2, <2>1
    <2>6. pc'[p] = "asleep"
      BY <1>3, <2>1
    <2>7. (op[p] = "read" => Empty /\ writeopen) /\ (op[p] = "write" => Full /\ readopen)
      BY <2>1 DEF MustWait
    <2> QED
      BY <1>2, <2>2, <2>3, <2>4, <2>5, <2>6, <2>7 DEF Wakers
  <1> QED
    BY <1>4, <1>5, <1>6, <1>7, <1>8, <1>9, <1>10 DEF Step

LEMMA NextWakes ==
  ASSUME ~Kills, WakeInv, [Next]_vars
  PROVE  WakeInv'
  <1>1. EndsInv'
    BY NextTypes, NextEnds DEF WakeInv, EndsInv
  <1>2. \A p \in Proc : ~killed'[p]
    BY DEF WakeInv, EndsInv, TypeOK, vars, Next, call, acquire, Step, write_full, write_byte, write_done,
       read_wait, read_byte, read_done, sleep, pipealloc, fork, fileclose, pipeclose, kill, exit
  <1>3. /\ pc \in [Proc -> Where] /\ op \in [Proc -> {"read", "write"}]
        /\ ends \in [Proc -> SUBSET {"r", "w"}]
    BY DEF WakeInv, EndsInv, TypeOK
  <1>4. ASSUME NEW p \in Proc, NEW o \in {"read", "write"}, NEW n \in 0..MaxN, call(p, o, n)
        PROVE  Opened' /\ Wakers'
    <2>1. /\ pc[p] = "user" /\ pc' = [pc EXCEPT ![p] = "acquire"] /\ op' = [op EXCEPT ![p] = o]
          /\ (IF o = "read" THEN "r" ELSE "w") \in ends[p] /\ UNCHANGED <<pipe, lock, ends>>
      BY <1>4 DEF call, Calls, Goto
    <2>2. /\ pc'[p] = "acquire" /\ op'[p] = o
          /\ \A q \in Proc \ {p} : pc'[q] = pc[q] /\ op'[q] = op[q]
      BY <1>3, <2>1
    <2>3. Opened'
      BY <2>1, <2>2 DEF WakeInv, Opened
    <2>4. WriterOn => WriterOn'
      BY <2>1, <2>2 DEF WriterOn
    <2>5. ReaderOn => ReaderOn'
      BY <2>1, <2>2 DEF ReaderOn
    <2> QED
      BY <1>1, <2>1, <2>2, <2>3, <2>4, <2>5, QuietStep
  <1>5. ASSUME NEW p \in Proc, acquire(p) PROVE Opened' /\ Wakers'
    <2>1. pc[p] = "acquire" /\ pc' = [pc EXCEPT ![p] = "loop"] /\ lock = None /\ UNCHANGED <<pipe, ends, op>>
      BY <1>5 DEF acquire, Goto
    <2>2. pc'[p] = "loop" /\ \A q \in Proc \ {p} : pc'[q] = pc[q]
      BY <1>3, <2>1
    <2>3. Opened'
      BY <2>1, <2>2 DEF WakeInv, Opened, InCall, Inside
    <2>4. ~WriterOn /\ ~ReaderOn
      BY <2>1, PipeAssumption DEF WriterOn, ReaderOn, PipeAssumption
    <2> QED
      BY <1>1, <2>1, <2>2, <2>3, <2>4, QuietStep
  <1>6. ASSUME NEW p \in Proc, Step(p) PROVE Opened' /\ Wakers'
    <2>1. UNCHANGED <<ends, op>> /\ pc[p] \in Inside
      BY <1>6, PipeAssumption DEF Step, write_full, write_byte, write_done, read_wait, read_byte, read_done,
         sleep, Copies, Holds, Inside
    <2>2. \A q \in Proc \ {p} : pc'[q] = pc[q] \/ (pc[q] = "asleep" /\ pc'[q] = "acquire")
      BY <1>3, <1>6 DEF Step, write_full, write_byte, write_done, read_wait, read_byte, read_done, sleep,
         return, wakeup, Goto
    <2>3. Opened'
      BY <2>1, <2>2 DEF WakeInv, Opened, InCall
    <2> QED
      BY <1>1, <1>6, <2>3, StepWakes
  <1>7. ASSUME NEW p \in Proc, pipealloc(p) PROVE Opened' /\ Wakers'
    <2>1. \A q \in Proc : "r" \notin ends[q] /\ "w" \notin ends[q]
      BY <1>7 DEF pipealloc, WakeInv, EndsInv, Ends, Uses
    <2>2. \A q \in Proc : pc'[q] \notin InCall
      BY <1>7, <2>1 DEF pipealloc, WakeInv, Opened
    <2> QED
      BY <2>2 DEF Opened, Wakers, InCall, Inside
  <1>8. ASSUME NEW p \in Proc, NEW q \in Proc, fork(p, q) PROVE Opened' /\ Wakers'
    <2>1. UNCHANGED <<pipe, lock, pc, op>> /\ pc[q] = "user" /\ \A r \in Proc \ {q} : ends'[r] = ends[r]
      BY <1>3, <1>8 DEF fork
    <2>2. Opened'
      BY <2>1 DEF WakeInv, Opened, InCall, Inside
    <2> QED
      BY <1>1, <2>1, <2>2, QuietStep DEF WriterOn, ReaderOn
  <1>9. ASSUME NEW p \in Proc, NEW e \in {"r", "w"}, fileclose(p, e) PROVE Opened' /\ Wakers'
    <2>1. /\ UNCHANGED <<pipe, lock, op>> /\ pc[p] = "user" /\ pc'[p] \in {"user", "close_r", "close_w"}
          /\ \A r \in Proc \ {p} : ends'[r] = ends[r] /\ pc'[r] = pc[r]
      BY <1>3, <1>9 DEF fileclose, Goto
    <2>2. Opened'
      BY <2>1 DEF WakeInv, Opened, InCall, Inside
    <2>3. WriterOn => WriterOn'
      BY <2>1 DEF WriterOn
    <2>4. ReaderOn => ReaderOn'
      BY <2>1 DEF ReaderOn
    <2> QED
      BY <1>1, <2>1, <2>2, <2>3, <2>4, QuietStep
  <1>10. ASSUME NEW p \in Proc, pipeclose(p) PROVE Opened' /\ Wakers'
    <2>1. UNCHANGED <<nread, nwrite, lock, op, ends>> /\ lock = None /\ pc'[p] = "user"
      BY <1>3, <1>10 DEF pipeclose, wakeup
    <2>2. Empty' = Empty /\ Full' = Full /\ ~WriterOn /\ ~ReaderOn
      BY <2>1, PipeAssumption DEF Empty, Full, WriterOn, ReaderOn, PipeAssumption
    <2>3. \A q \in Proc : pc[q] \notin Inside
      BY <2>1, PipeAssumption DEF WakeInv, EndsInv, Ends, PipeAssumption
    <2>4. \A q \in Proc \ {p} : pc'[q] = pc[q] \/ (pc[q] = "asleep" /\ pc'[q] = "acquire")
      BY <1>3, <1>10 DEF pipeclose, wakeup
    <2>5. Opened'
      BY <2>1, <2>4 DEF WakeInv, Opened, InCall, Inside
    <2>6. \A q \in Proc : pc'[q] = "asleep" /\ op[q] = "read" => writeopen' = writeopen
      BY <1>3, <1>10 DEF pipeclose, wakeup
    <2>7. \A q \in Proc : pc'[q] = "asleep" /\ op[q] = "write" => readopen' = readopen
      BY <1>3, <1>10 DEF pipeclose, wakeup
    <2>8. ASSUME NEW q \in Proc
          PROVE  /\ pc'[q] # "sleep" /\ pc'[q] # "copy"
                 /\ pc'[q] = "asleep" => pc[q] = "asleep"
      BY <2>1, <2>3, <2>4 DEF Inside
    <2>9. \A q \in Proc : /\ pc[q] = "asleep" /\ op[q] = "read" => writeopen /\ Empty
                          /\ pc[q] = "asleep" /\ op[q] = "write" => readopen /\ Full
      BY <2>2 DEF WakeInv, Wakers
    <2>10. Wakers'
      BY <2>1, <2>2, <2>6, <2>7, <2>8, <2>9 DEF Wakers
    <2> QED
      BY <2>5, <2>10
  <1>11. ASSUME NEW p \in Proc, exit(p) PROVE FALSE
    BY <1>11 DEF exit, WakeInv
  <1>12. CASE UNCHANGED vars
    <2>1. Opened' /\ Wakers'
      BY <1>12 DEF vars, pipe, WakeInv, Opened, Wakers, MustWait, Empty, Full, WriterOn, ReaderOn
    <2> QED
      BY <1>1, <1>2, <2>1 DEF WakeInv
  <1>13. \A p \in Proc : ~kill(p)
    BY DEF kill
  <1> QED
    BY <1>1, <1>2, <1>4, <1>5, <1>6, <1>7, <1>8, <1>9, <1>10, <1>11, <1>12, <1>13 DEF Next, WakeInv

\* As long as nobody is killed, a process sleeps in piperead() or pipewrite() only while
\* it has to: whoever changes the condition it waits for wakes it before the lock is free.
THEOREM PipeWakeupsAreNotLost == ASSUME ~Kills PROVE Spec => []NoLostWakeup
  <1>1. Init => WakeInv
    <2> SUFFICES ASSUME Init PROVE WakeInv
      OBVIOUS
    <2>1. \A p \in Proc : pc[p] = "user" /\ ~killed[p]
      BY DEF Init
    <2> QED
      BY <2>1, InitTypes, InitEnds DEF WakeInv, EndsInv, Opened, Wakers, InCall, Inside
  <1>2. WakeInv /\ [Next]_vars => WakeInv'
    BY NextWakes
  <1>3. WakeInv => NoLostWakeup
    BY PipeAssumption DEF WakeInv, EndsInv, TypeOK, Wakers, NoLostWakeup, MustWait, WriterOn, ReaderOn,
       PipeAssumption
  <1> QED
    BY <1>1, <1>2, <1>3, PTL DEF Spec
=============================================================================
