-------------------------------- MODULE Pipe --------------------------------
(***************************************************************************)
(* Pipes (pipe.c): a ring buffer of PIPESIZE bytes with free-running       *)
(* unsigned counters, shared by the processes that have one of its ends    *)
(* open, with the sleep() and kill() of proc.c they depend on.             *)
(*                                                                         *)
(* Granularity.  Between acquire(&p->lock) and release() the steps are one *)
(* byte each, since kill() and the other processes' system calls go on     *)
(* meanwhile.  In particular kill() may fall between the test of killed    *)
(* and sleep().                                                            *)
(***************************************************************************)
EXTENDS Naturals, Sequences, FiniteSets

CONSTANTS
  Proc,        \* processes
  None,        \* no process
  Byte,        \* the values of a byte
  PIPESIZE,    \* bytes in the buffer
  Width,       \* number of values of the counters (2^32 in the kernel)
  MaxN,        \* bound on the count argument of read() and write()
  Kills        \* processes are killed

ASSUME PipeAssumption ==
  /\ None \notin Proc
  /\ PIPESIZE \in Nat \ {0} /\ Width \in Nat
  /\ Width % PIPESIZE = 0 /\ PIPESIZE < Width
  /\ MaxN \in Nat /\ Kills \in BOOLEAN

VARIABLES
  data, nread, nwrite,              \* struct pipe
  readopen, writeopen, lock,
  allocated,                        \* the page of the pipe is allocated
  ends, killed,                     \* open files and p->killed of each process
  pc, op, left, moved,              \* the call each process executes: n - i, and i > 0
  got, ret                          \* the last byte delivered, the last result of each process

pipe == <<data, nread, nwrite, readopen, writeopen, allocated>>
vars == <<pipe, lock, ends, killed, pc, op, left, moved, got, ret>>

Index == 0..PIPESIZE - 1
Counter == 0..Width - 1

Empty == nread = nwrite
\* MUTANT of Full: the sum does not wrap around with the counters.
MutFull == nwrite = nread + PIPESIZE

Full == nwrite = (nread + PIPESIZE) % Width

\* p->lock is held by p, which executes a read() or write().
Holds(p, call, where) == lock = p /\ op[p] = call /\ pc[p] \in where
Goto(p, where) == pc' = [pc EXCEPT ![p] = where]

\* wakeup(&p->nread) or wakeup(&p->nwrite), and p goes on at `where'.
wakeup(call, p, where) ==
  pc' = [q \in Proc |-> IF q = p THEN where
                        ELSE IF pc[q] = "asleep" /\ op[q] = call THEN "acquire" ELSE pc[q]]

return(p, r) == lock' = None /\ ret' = [ret EXCEPT ![p] = r]

-----------------------------------------------------------------------------
(* The system calls read() and write().                                    *)

Calls(p) == pc[p] = "user" /\ ~killed[p]

call(p, o, n) ==
  /\ Calls(p)
  /\ (IF o = "read" THEN "r" ELSE "w") \in ends[p]
  /\ op' = [op EXCEPT ![p] = o]
  /\ left' = [left EXCEPT ![p] = n]
  /\ moved' = [moved EXCEPT ![p] = FALSE]
  /\ ret' = [ret EXCEPT ![p] = "ok"]
  /\ Goto(p, "acquire")
  /\ UNCHANGED <<pipe, lock, ends, killed, got>>

\* acquire(&p->lock), at the start and again in sleep() after a wakeup.
acquire(p) ==
  /\ pc[p] = "acquire" /\ lock = None
  /\ lock' = p
  /\ Goto(p, "loop")
  /\ UNCHANGED <<pipe, ends, killed, op, left, moved, got, ret>>

write_full(p) ==
  /\ Holds(p, "write", {"loop"}) /\ left[p] > 0 /\ Full
  /\ IF ~readopen \/ killed[p]
     THEN Goto(p, "user") /\ return(p, "failed")
     ELSE wakeup("read", p, "sleep") /\ UNCHANGED <<lock, ret>>
  /\ UNCHANGED <<pipe, ends, killed, op, left, moved, got>>

write_byte(p, b) ==
  /\ Holds(p, "write", {"loop"}) /\ left[p] > 0 /\ ~Full
  /\ data' = [data EXCEPT ![nwrite % PIPESIZE] = b]
  /\ nwrite' = (nwrite + 1) % Width
  /\ left' = [left EXCEPT ![p] = @ - 1]
  /\ UNCHANGED <<nread, readopen, writeopen, allocated, lock, ends, killed, pc, op, moved,
                 got, ret>>

write_done(p) ==
  /\ Holds(p, "write", {"loop"}) /\ left[p] = 0
  /\ wakeup("read", p, "user")
  /\ return(p, "ok")
  /\ UNCHANGED <<pipe, ends, killed, op, left, moved, got>>

read_wait(p) ==
  /\ Holds(p, "read", {"loop"}) /\ Empty /\ writeopen
  /\ IF killed[p]
     THEN Goto(p, "user") /\ return(p, "failed")
     ELSE Goto(p, "sleep") /\ UNCHANGED <<lock, ret>>
  /\ UNCHANGED <<pipe, ends, killed, op, left, moved, got>>

\* The reader has left the waiting loop.
Copies(p) == Holds(p, "read", {"loop", "copy"}) /\ (pc[p] = "loop" => ~Empty \/ ~writeopen)

read_byte(p) ==
  /\ Copies(p) /\ left[p] > 0 /\ ~Empty
  /\ got' = data[nread % PIPESIZE]
  /\ nread' = (nread + 1) % Width
  /\ left' = [left EXCEPT ![p] = @ - 1]
  /\ moved' = [moved EXCEPT ![p] = TRUE]
  /\ Goto(p, "copy")
  /\ UNCHANGED <<data, nwrite, readopen, writeopen, allocated, lock, ends, killed, op, ret>>

\* MUTANT of read_done: the writers are not woken.
MutReadDone(p) ==
  /\ Copies(p) /\ (left[p] = 0 \/ Empty)
  /\ Goto(p, "user")
  /\ return(p, IF left[p] > 0 /\ ~moved[p] THEN "eof" ELSE "ok")
  /\ UNCHANGED <<pipe, ends, killed, op, left, moved, got>>

\* piperead() returns the number of bytes; 0 of a positive number is the end of file.
read_done(p) ==
  /\ Copies(p) /\ (left[p] = 0 \/ Empty)
  /\ wakeup("write", p, "user")
  /\ return(p, IF left[p] > 0 /\ ~moved[p] THEN "eof" ELSE "ok")
  /\ UNCHANGED <<pipe, ends, killed, op, left, moved, got>>

\* sleep(): takes ptable.lock, releases p->lock, sleeps.
sleep(p) ==
  /\ pc[p] = "sleep"
  /\ lock' = None
  /\ Goto(p, "asleep")
  /\ UNCHANGED <<pipe, ends, killed, op, left, moved, got, ret>>

-----------------------------------------------------------------------------
(* pipe(), fork(), close(), kill() and exit().                             *)

pipealloc(p) ==
  /\ Calls(p) /\ ~allocated
  /\ allocated' = TRUE /\ readopen' = TRUE /\ writeopen' = TRUE
  /\ nread' = 0 /\ nwrite' = 0
  /\ ends' = [ends EXCEPT ![p] = {"r", "w"}]
  /\ UNCHANGED <<data, lock, killed, pc, op, left, moved, got, ret>>

\* The child q inherits the open files.
fork(p, q) ==
  /\ Calls(p) /\ ends[p] # {}
  /\ pc[q] = "user" /\ ~killed[q] /\ ends[q] = {}
  /\ ends' = [ends EXCEPT ![q] = ends[p]]
  /\ UNCHANGED <<pipe, lock, killed, pc, op, left, moved, got, ret>>

\* fileclose(), by close() or exit(): the last reference goes on to pipeclose().
fileclose(p, e) ==
  /\ pc[p] = "user" /\ e \in ends[p]
  /\ ends' = [ends EXCEPT ![p] = @ \ {e}]
  /\ IF \E q \in Proc \ {p} : e \in ends[q] THEN UNCHANGED pc
     ELSE Goto(p, IF e = "r" THEN "close_r" ELSE "close_w")
  /\ UNCHANGED <<pipe, lock, killed, op, left, moved, got, ret>>

\* MUTANT of pipeclose: the first end to be closed frees the page.
MutCloseFrees(p) ==
  /\ pc[p] \in {"close_r", "close_w"} /\ lock = None
  /\ IF pc[p] = "close_w"
     THEN writeopen' = FALSE /\ wakeup("read", p, "user") /\ UNCHANGED readopen
     ELSE readopen' = FALSE /\ wakeup("write", p, "user") /\ UNCHANGED writeopen
  /\ allocated' = (readopen' /\ writeopen')
  /\ UNCHANGED <<data, nread, nwrite, lock, ends, killed, op, left, moved, got, ret>>

\* MUTANT of pipeclose: nobody is woken.
MutCloseQuiet(p) ==
  /\ pc[p] \in {"close_r", "close_w"} /\ lock = None
  /\ readopen' = (readopen /\ pc[p] # "close_r")
  /\ writeopen' = (writeopen /\ pc[p] # "close_w")
  /\ allocated' = (readopen' \/ writeopen')
  /\ Goto(p, "user")
  /\ UNCHANGED <<data, nread, nwrite, lock, ends, killed, op, left, moved, got, ret>>

\* pipeclose(): the second end to be closed frees the page.
pipeclose(p) ==
  /\ pc[p] \in {"close_r", "close_w"} /\ lock = None
  /\ IF pc[p] = "close_w"
     THEN writeopen' = FALSE /\ wakeup("read", p, "user") /\ UNCHANGED readopen
     ELSE readopen' = FALSE /\ wakeup("write", p, "user") /\ UNCHANGED writeopen
  /\ allocated' = (readopen' \/ writeopen')
  /\ UNCHANGED <<data, nread, nwrite, lock, ends, killed, op, left, moved, got, ret>>

\* kill() marks the process and wakes it if it sleeps.
kill(p) ==
  /\ Kills
  /\ ~killed[p] \/ pc[p] = "asleep"
  /\ killed' = [killed EXCEPT ![p] = TRUE]
  /\ IF pc[p] = "asleep" THEN Goto(p, "acquire") ELSE UNCHANGED pc
  /\ UNCHANGED <<pipe, lock, ends, op, left, moved, got, ret>>

\* The end of exit(); later the slot belongs to a new process.
exit(p) ==
  /\ pc[p] = "user" /\ killed[p] /\ ends[p] = {}
  /\ killed' = [killed EXCEPT ![p] = FALSE]
  /\ UNCHANGED <<pipe, lock, ends, pc, op, left, moved, got, ret>>

-----------------------------------------------------------------------------
Init ==
  /\ data \in [Index -> Byte]
  /\ nread = 0 /\ nwrite = 0
  /\ readopen = FALSE /\ writeopen = FALSE /\ allocated = FALSE /\ lock = None
  /\ ends = [p \in Proc |-> {}]
  /\ killed = [p \in Proc |-> FALSE]
  /\ pc = [p \in Proc |-> "user"]
  /\ op = [p \in Proc |-> "read"]
  /\ left = [p \in Proc |-> 0]
  /\ moved = [p \in Proc |-> FALSE]
  /\ got \in Byte
  /\ ret = [p \in Proc |-> "ok"]

\* What a process does in the kernel once it has begun a call.
Step(p) ==
  \/ write_full(p) \/ (\E b \in Byte : write_byte(p, b)) \/ write_done(p)
  \/ read_wait(p) \/ read_byte(p) \/ read_done(p)
  \/ sleep(p)

Next ==
  \E p \in Proc :
    \/ \E o \in {"read", "write"}, n \in 0..MaxN : call(p, o, n)
    \/ acquire(p) \/ Step(p)
    \/ pipealloc(p) \/ (\E q \in Proc : fork(p, q))
    \/ (\E e \in {"r", "w"} : fileclose(p, e)) \/ pipeclose(p)
    \/ kill(p) \/ exit(p)

Spec == Init /\ [][Next]_vars

(* Fairness: a process that holds the lock goes on; one that wants it gets it   *)
(* if it is free again and again; a killed process closes its files and exits. *)
Fairness ==
  \A p \in Proc :
    /\ WF_vars(Step(p))
    /\ SF_vars(acquire(p)) /\ SF_vars(pipeclose(p))
    /\ WF_vars(killed[p] /\ \E e \in {"r", "w"} : fileclose(p, e))
    /\ WF_vars(exit(p))

FairSpec == Spec /\ Fairness

-----------------------------------------------------------------------------
(* Properties.                                                             *)

Where == {"user", "acquire", "loop", "copy", "sleep", "asleep", "close_r", "close_w"}

\* Every variable has its type.
TypeOK ==
  /\ data \in [Index -> Byte] /\ nread \in Counter /\ nwrite \in Counter
  /\ readopen \in BOOLEAN /\ writeopen \in BOOLEAN /\ allocated \in BOOLEAN
  /\ lock \in Proc \cup {None}
  /\ ends \in [Proc -> SUBSET {"r", "w"}] /\ killed \in [Proc -> BOOLEAN]
  /\ pc \in [Proc -> Where] /\ op \in [Proc -> {"read", "write"}]
  /\ left \in [Proc -> 0..MaxN] /\ moved \in [Proc -> BOOLEAN]
  /\ got \in Byte /\ ret \in [Proc -> {"ok", "eof", "failed"}]

\* The bytes in the pipe, oldest first; the counters may have wrapped around.
Used == (nwrite + Width - nread) % Width
Stream == IF allocated THEN [i \in 1..Used |-> data[(nread + i - 1) % PIPESIZE]] ELSE <<>>

Abstract == INSTANCE ByteStream WITH stream <- Stream, Capacity <- PIPESIZE

\* The pipe is a stream of bytes: first in first out, nothing lost or repeated also when
\* the counters wrap, end of file only when nobody can write, failures only when justified.
IsByteStream == Abstract!Spec

\* pipeclose() frees the page when no process is inside piperead() or pipewrite(), nor
\* on its way there.
NoUseAfterFree ==
  ~allocated => lock = None /\ \A p \in Proc : pc[p] = "user" /\ ends[p] = {}

\* The condition that piperead() and pipewrite() sleep for.
MustWait(p) == IF op[p] = "read" THEN Empty /\ writeopen ELSE Full /\ readopen

\* A process sleeps in a pipe only as long as it has to: who changes the condition
\* wakes it before giving up the lock.
NoLostWakeup == \A p \in Proc : lock = None /\ pc[p] = "asleep" => MustWait(p)

\* A call that has no reason to sleep any more returns, or finds a new reason.
CallReturns == \A p \in Proc : (pc[p] = "asleep" /\ ~MustWait(p)) ~> (pc[p] = "user" \/ MustWait(p))
=============================================================================
