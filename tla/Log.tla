--------------------------------- MODULE Log ---------------------------------
(***************************************************************************)
(* The write-ahead log of the file system (log.c) and crash recovery.      *)
(*                                                                         *)
(* A file system call brackets its writes with begin_op() and end_op();    *)
(* log_write() records a modified block in the in-memory header and pins   *)
(* its buffer; the process that ends the last open call commits: it copies *)
(* the blocks to the log area of the disk, writes the header (the commit   *)
(* point), installs the blocks at their home addresses and clears the      *)
(* header.  After a crash recover_from_log() repeats the installation.     *)
(*                                                                         *)
(* Granularity.  A critical section of log.lock is one step, and so is a   *)
(* block write (a block is one sector, bwrite() waits for the disk).  The  *)
(* size check of log_write() reads the header WITHOUT the lock, so it is a *)
(* step of its own.  A crash can happen between any two steps.             *)
(*                                                                         *)
(* Addresses count from log.start: 0 is the header block, 1..NLOG-1 the    *)
(* log's data blocks, and the blocks from NLOG on belong to the file       *)
(* system (sb.inodestart = log.start + nlog).                              *)
(***************************************************************************)
EXTENDS Naturals, Sequences, FiniteSets

CONSTANTS
  Proc,          \* processes that make file system calls
  NHome,         \* number of file system blocks after the log
  Value,         \* contents of a block
  Zero,          \* contents of the blocks of a fresh disk
  MAXOPBLOCKS,   \* blocks begin_op() reserves for one call
  LOGSIZE,       \* capacity of struct logheader
  NLOG,          \* sb.nlog: blocks of the on-disk log, the header included
  OPBLOCKS,      \* distinct blocks a call really writes, at most
  MaxCrashes     \* bound on the crashes of a behaviour

ASSUME LogAssumption ==
  /\ IsFiniteSet(Proc)
  /\ NHome \in Nat \ {0}
  /\ Zero \in Value
  /\ MAXOPBLOCKS \in Nat \ {0}
  /\ LOGSIZE \in Nat /\ LOGSIZE >= MAXOPBLOCKS
  /\ NLOG \in Nat /\ NLOG >= LOGSIZE
  /\ OPBLOCKS \in 1..MAXOPBLOCKS
  /\ MaxCrashes \in Nat

Home == NLOG .. NLOG + NHome - 1
Addr == 1 .. NLOG + NHome - 1
NoReq == <<>>

VARIABLES
  outstanding,   \* log.outstanding
  committing,    \* log.committing
  lh,            \* log.lh: block numbers, log.lh.n is the length
  data,          \* contents of the pinned buffers (meaningful on dirty)
  dirty,         \* addresses whose buffer has B_DIRTY
  disk,          \* contents of the disk, the header block excepted
  hdr,           \* the header block on disk
  pc,            \* what each process is doing
  req,           \* the block a process has locked and is logging, with its new contents
  wrote,         \* blocks the current call of a process has logged
  tail,          \* loop index of write_log() / install_trans()
  boot,          \* progress of initlog() after a restart
  panicked,      \* the kernel has stopped
  crashes        \* crashes so far

mem == <<outstanding, committing, lh, data, dirty, pc, req, wrote, tail, boot, panicked>>
vars == <<mem, disk, hdr, crashes>>

InOp == {p \in Proc : pc[p] \in {"op", "log_write"}}
Committing == {"write_log", "write_head", "install_trans", "clear_head", "finish"}

\* bread(): a clean buffer may have been recycled, then the disk is read again.
bread(a) == IF a \in dirty THEN data[a] ELSE disk[a]

\* bwrite(): the buffer goes to disk and is clean afterwards.
bwrite(a, v) ==
  /\ disk' = [disk EXCEPT ![a] = v]
  /\ data' = [data EXCEPT ![a] = v]
  /\ dirty' = dirty \ {a}

\* wakeup(&log) on a map of program counters.
wakeup(pcs) == [p \in Proc |-> IF pcs[p] = "asleep" THEN "woken" ELSE pcs[p]]

Goto(p, l) == pc' = [pc EXCEPT ![p] = l]
Up == boot = "up" /\ ~panicked

-----------------------------------------------------------------------------
(* Restart: initlog() -> recover_from_log().                               *)

read_head ==
  /\ boot = "read_head"
  /\ lh' = hdr
  /\ tail' = 1
  /\ boot' = IF hdr = <<>> THEN "clear_head" ELSE "install_trans"
  /\ UNCHANGED <<outstanding, committing, data, dirty, disk, hdr, pc, req, wrote,
                 panicked, crashes>>

recover_install ==
  /\ boot = "install_trans"
  /\ bwrite(lh[tail], bread(tail))
  /\ tail' = tail + 1
  /\ boot' = IF tail = Len(lh) THEN "clear_head" ELSE boot
  /\ UNCHANGED <<outstanding, committing, lh, hdr, pc, req, wrote, panicked, crashes>>

recover_clear ==
  /\ boot = "clear_head"
  /\ lh' = <<>>
  /\ hdr' = <<>>
  /\ boot' = "up"
  /\ UNCHANGED <<outstanding, committing, data, dirty, disk, pc, req, wrote, tail,
                 panicked, crashes>>

-----------------------------------------------------------------------------
(* File system calls.                                                      *)

\* Mutant: forgets the reservation of the call that is starting.
MutLogFull == Len(lh) + outstanding * MAXOPBLOCKS > LOGSIZE

\* This call might exhaust the log space that is left.
LogFull == Len(lh) + (outstanding + 1) * MAXOPBLOCKS > LOGSIZE

\* Mutant: a call may start while the log is being committed.
MutBeginOp(p) ==
  /\ Up
  /\ pc[p] \in {"idle", "woken"}
  /\ IF LogFull
     THEN /\ Goto(p, "asleep")
          /\ UNCHANGED <<outstanding, wrote>>
     ELSE /\ Goto(p, "op")
          /\ outstanding' = outstanding + 1
          /\ wrote' = [wrote EXCEPT ![p] = {}]
  /\ UNCHANGED <<committing, lh, data, dirty, disk, hdr, req, tail, boot, panicked,
                 crashes>>

begin_op(p) ==
  /\ Up
  /\ pc[p] \in {"idle", "woken"}
  /\ IF committing \/ LogFull
     THEN /\ Goto(p, "asleep")
          /\ UNCHANGED <<outstanding, wrote>>
     ELSE /\ Goto(p, "op")
          /\ outstanding' = outstanding + 1
          /\ wrote' = [wrote EXCEPT ![p] = {}]
  /\ UNCHANGED <<committing, lh, data, dirty, disk, hdr, req, tail, boot, panicked,
                 crashes>>

\* kill() makes a sleeping process runnable, whatever it sleeps on.
kill(p) ==
  /\ Up
  /\ pc[p] = "asleep"
  /\ Goto(p, "woken")
  /\ UNCHANGED <<outstanding, committing, lh, data, dirty, disk, hdr, req, wrote,
                 tail, boot, panicked, crashes>>

TooBig == Len(lh) >= LOGSIZE \/ Len(lh) >= NLOG - 1

\* The call has locked buffer b and changed it to v; log_write() checks the
\* size of the transaction before it takes log.lock.
log_write_check(p, b, v) ==
  /\ Up
  /\ pc[p] = "op"
  /\ \A q \in Proc : req[q] # NoReq => req[q][1] # b
  /\ b \in wrote[p] \/ Cardinality(wrote[p]) < OPBLOCKS
  /\ IF TooBig \/ outstanding < 1
     THEN panicked' = TRUE /\ UNCHANGED <<pc, req>>
     ELSE /\ Goto(p, "log_write")
          /\ req' = [req EXCEPT ![p] = <<b, v>>]
          /\ UNCHANGED panicked
  /\ UNCHANGED <<outstanding, committing, lh, data, dirty, disk, hdr, wrote, tail,
                 boot, crashes>>

\* The critical section of log_write(): absorb or append, pin the buffer.
log_write(p) ==
  /\ Up
  /\ pc[p] = "log_write"
  /\ LET b == req[p][1]
     IN /\ lh' = IF \E i \in DOMAIN lh : lh[i] = b THEN lh ELSE Append(lh, b)
        /\ data' = [data EXCEPT ![b] = req[p][2]]
        /\ dirty' = dirty \cup {b}
        /\ wrote' = [wrote EXCEPT ![p] = @ \cup {b}]
  /\ req' = [req EXCEPT ![p] = NoReq]
  /\ Goto(p, "op")
  /\ UNCHANGED <<outstanding, committing, disk, hdr, tail, boot, panicked, crashes>>

\* Mutant: the copy starts at the header block (log.start+tail, not +1).
MutEndOp(p) ==
  /\ Up
  /\ pc[p] = "op"
  /\ outstanding' = outstanding - 1
  /\ IF outstanding = 1
     THEN /\ committing' = TRUE
          /\ tail' = 0
          /\ Goto(p, IF lh = <<>> THEN "finish" ELSE "write_log")
     ELSE /\ pc' = wakeup([pc EXCEPT ![p] = "idle"])
          /\ UNCHANGED <<committing, tail>>
  /\ UNCHANGED <<lh, data, dirty, disk, hdr, req, wrote, boot, panicked, crashes>>

end_op(p) ==
  /\ Up
  /\ pc[p] = "op"
  /\ outstanding' = outstanding - 1
  /\ IF committing
     THEN panicked' = TRUE /\ UNCHANGED <<committing, pc, tail>>
     ELSE /\ UNCHANGED panicked
          /\ IF outstanding = 1
             THEN /\ committing' = TRUE
                  /\ tail' = 1
                  /\ Goto(p, IF lh = <<>> THEN "finish" ELSE "write_log")
             ELSE /\ pc' = wakeup([pc EXCEPT ![p] = "idle"])
                  /\ UNCHANGED <<committing, tail>>
  /\ UNCHANGED <<lh, data, dirty, disk, hdr, req, wrote, boot, crashes>>

-----------------------------------------------------------------------------
(* commit(), run by the process whose end_op() closed the last call.       *)

write_log(p) ==
  /\ Up
  /\ pc[p] = "write_log"
  /\ bwrite(tail, bread(lh[tail]))
  /\ IF tail = Len(lh) THEN Goto(p, "write_head") ELSE UNCHANGED pc
  /\ tail' = tail + 1
  /\ UNCHANGED <<outstanding, committing, lh, hdr, req, wrote, boot, panicked, crashes>>

write_head(p) ==
  /\ Up
  /\ pc[p] = "write_head"
  /\ hdr' = lh
  /\ tail' = 1
  /\ Goto(p, "install_trans")
  /\ UNCHANGED <<outstanding, committing, lh, data, dirty, disk, req, wrote, boot,
                 panicked, crashes>>

install_trans(p) ==
  /\ Up
  /\ pc[p] = "install_trans"
  /\ bwrite(lh[tail], bread(tail))
  /\ IF tail = Len(lh) THEN Goto(p, "clear_head") ELSE UNCHANGED pc
  /\ tail' = tail + 1
  /\ UNCHANGED <<outstanding, committing, lh, hdr, req, wrote, boot, panicked, crashes>>

\* Mutant: the transaction is erased in memory only.
MutClearHead(p) ==
  /\ Up
  /\ pc[p] = "clear_head"
  /\ lh' = <<>>
  /\ Goto(p, "finish")
  /\ UNCHANGED <<outstanding, committing, data, dirty, disk, hdr, req, wrote, tail,
                 boot, panicked, crashes>>

clear_head(p) ==
  /\ Up
  /\ pc[p] = "clear_head"
  /\ lh' = <<>>
  /\ hdr' = <<>>
  /\ Goto(p, "finish")
  /\ UNCHANGED <<outstanding, committing, data, dirty, disk, req, wrote, tail, boot,
                 panicked, crashes>>

\* Mutant: nobody is woken after the commit.
MutEndOpFinish(p) ==
  /\ Up
  /\ pc[p] = "finish"
  /\ committing' = FALSE
  /\ Goto(p, "idle")
  /\ UNCHANGED <<outstanding, lh, data, dirty, disk, hdr, req, wrote, tail, boot,
                 panicked, crashes>>

end_op_finish(p) ==
  /\ Up
  /\ pc[p] = "finish"
  /\ committing' = FALSE
  /\ pc' = wakeup([pc EXCEPT ![p] = "idle"])
  /\ UNCHANGED <<outstanding, lh, data, dirty, disk, hdr, req, wrote, tail, boot,
                 panicked, crashes>>

-----------------------------------------------------------------------------

Init ==
  /\ disk = [a \in Addr |-> Zero]
  /\ hdr = <<>>
  /\ crashes = 0
  /\ outstanding = 0
  /\ committing = FALSE
  /\ lh = <<>>
  /\ data = disk
  /\ dirty = {}
  /\ pc = [p \in Proc |-> "idle"]
  /\ req = [p \in Proc |-> NoReq]
  /\ wrote = [p \in Proc |-> {}]
  /\ tail = 1
  /\ boot = "read_head"
  /\ panicked = FALSE

\* Power failure or reboot: the memory is lost, the disk stays.
Crash ==
  /\ crashes < MaxCrashes
  /\ crashes' = crashes + 1
  /\ outstanding' = 0
  /\ committing' = FALSE
  /\ lh' = <<>>
  /\ data' = disk
  /\ dirty' = {}
  /\ pc' = [p \in Proc |-> "idle"]
  /\ req' = [p \in Proc |-> NoReq]
  /\ wrote' = [p \in Proc |-> {}]
  /\ tail' = 1
  /\ boot' = "read_head"
  /\ panicked' = FALSE
  /\ UNCHANGED <<disk, hdr>>

recover_from_log == read_head \/ recover_install \/ recover_clear

commit(p) == write_log(p) \/ write_head(p) \/ install_trans(p) \/ clear_head(p)

Next ==
  \/ recover_from_log
  \/ \E p \in Proc :
       \/ begin_op(p) \/ kill(p) \/ log_write(p) \/ end_op(p) \/ commit(p)
       \/ end_op_finish(p)
       \/ \E b \in Home, v \in Value : log_write_check(p, b, v)
  \/ Crash

\* A runnable process runs (round robin scheduler) and the disk answers.  A
\* call logs finitely many blocks, so it reaches end_op() although it may
\* log another block first: strong fairness.  Nothing makes a process start
\* a call, be killed or the machine crash.
Fairness ==
  /\ WF_vars(recover_from_log)
  /\ \A p \in Proc :
       /\ WF_vars(log_write(p))
       /\ WF_vars(commit(p))
       /\ WF_vars(end_op_finish(p))
       /\ WF_vars(pc[p] = "woken" /\ begin_op(p))
       /\ SF_vars(end_op(p))

Spec == Init /\ [][Next]_vars

FairSpec == Spec /\ Fairness

-----------------------------------------------------------------------------
(* Properties.                                                             *)

PCs == {"idle", "asleep", "woken", "op", "log_write"} \cup Committing

\* Every variable has its type: the in-memory and the on-disk header name
\* file system blocks, a pinned buffer belongs to an existing address.
TypeOK ==
  /\ outstanding \in Nat
  /\ committing \in BOOLEAN
  /\ lh \in Seq(Home)
  /\ hdr \in Seq(Home)
  /\ data \in [Addr -> Value]
  /\ disk \in [Addr -> Value]
  /\ dirty \subseteq Home
  /\ pc \in [Proc -> PCs]
  /\ req \in [Proc -> {NoReq} \cup (Home \X Value)]
  /\ wrote \in [Proc -> SUBSET Home]
  /\ tail \in Nat \ {0}
  /\ boot \in {"read_head", "install_trans", "clear_head", "up"}
  /\ panicked \in BOOLEAN
  /\ crashes \in Nat

\* log.c never panics ("too big a transaction", "log_write outside of
\* trans", "log.committing"): the space begin_op() reserves for the calls
\* that overlap is enough for the blocks they log.
NoPanic == ~panicked

\* The blocks of a transaction fit between the header block and the first
\* inode block, so write_log() never writes over the file system.
LogFits == Len(lh) <= NLOG - 1

\* The contents a restart brings back: a committed transaction is replayed.
Recovered ==
  [b \in Home |-> IF \E i \in DOMAIN hdr : hdr[i] = b
                  THEN disk[CHOOSE i \in DOMAIN hdr : hdr[i] = b]
                  ELSE disk[b]]

\* The contents the running system reads through the buffer cache.
Contents == [b \in Home |-> bread(b)]

Abs == INSTANCE AtomicStore WITH
         Block <- Home,
         durable <- Recovered,
         current <- (IF boot = "up" THEN Contents ELSE Recovered),
         open <- InOp

\* Crash atomicity: whatever the interleaving of the calls and wherever the
\* crashes fall (in the middle of write_log(), install_trans() or of the
\* recovery itself), the log behaves as a store whose transactions become
\* durable in one step, while no call is half done.
CrashAtomic == Abs!Spec

\* end_op() of the last call returns with everything that was written before
\* it on disk and with an empty log: the commit it waited for has happened.
CommitDurable ==
  \A p \in Proc : pc[p] = "finish" =>
    /\ Recovered = Contents
    /\ hdr = <<>> /\ lh = <<>> /\ dirty = {}

\* No lost wakeup: a process that sleeps in begin_op() is woken by the
\* end_op() that returns its reservation, or by the commit.
BeginOpWakes == \A p \in Proc : pc[p] = "asleep" ~> pc[p] # "asleep"

\* A file system call comes back: its end_op() gets through the commit, or
\* through the calls of the others, unless the machine restarts.
CallReturns == \A p \in Proc : pc[p] \in {"op", "log_write"} ~> pc[p] = "idle"
=============================================================================
