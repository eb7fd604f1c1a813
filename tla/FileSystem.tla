----------------------------- MODULE FileSystem -----------------------------
(***************************************************************************)
(* Inodes, directories, open files and symbolic links: fs.c, file.c and    *)
(* sysfile.c of the symlink kernel, down to the sleep lock of each inode.  *)
(*                                                                         *)
(* Granularity.  A step runs from one acquisition of an inode lock to the  *)
(* next; what happens in between is protected by the locks the process     *)
(* holds, by icache.lock or by ftable.lock.  iput() is two steps: it looks *)
(* at the link count under the inode lock, and drops the reference after   *)
(* it has given the lock back.  Transactions are those of Log, seen        *)
(* through AtomicStore: the blocks become durable together when no call is *)
(* open, and a crash falls back to them.                                   *)
(*                                                                         *)
(* Abstractions: a directory is a map from names to inodes, a symbolic     *)
(* link holds one name, the contents of a file are left to FileIO.         *)
(* mknod() differs from mkdir() in the type only and is not repeated.      *)
(***************************************************************************)
EXTENDS Integers, Sequences, FiniteSets

CONSTANTS
  Proc, None,     \* processes, and no process
  Name,           \* names of directory entries
  Paths,          \* paths the processes use, relative to their directory
  NI,             \* inodes on disk; 1 is ROOTINO
  Images,         \* file systems a behaviour may begin with
  NFILE, NOFILE,  \* struct files of the system, descriptors of a process
  MAX_DEPTH,      \* links open() follows, plus one
  Links,          \* processes make symbolic links and follow them
  MaxLost,        \* bound on the references open() and exec() lose
  MaxCalls,       \* bound on the calls and crashes of a behaviour
  MaxCrashes      \* bound on the crashes among them

ASSUME FSAssumption ==
  /\ None \notin Proc /\ IsFiniteSet(Proc)
  /\ IsFiniteSet(Name) /\ ".." \notin Name
  /\ Paths \subseteq Seq(Name) \ {<<>>} /\ IsFiniteSet(Paths)
  /\ NI \in Nat \ {0} /\ NFILE \in Nat /\ NOFILE \in Nat
  /\ MAX_DEPTH \in Nat \ {0, 1} /\ {MaxLost, MaxCalls} \subseteq Nat /\ MaxCrashes \in Nat
  /\ Links \in BOOLEAN

Inum == 1..NI
Root == 1
File == 1..NFILE
Fd == 1..NOFILE

VARIABLES
  disk,      \* the durable file system: struct dinode and its contents
  cur,       \* the same as the buffer cache has it, uncommitted writes included
  ic,        \* icache: ref, valid and the copies of type and nlink
  lock,      \* who holds ip->lock
  file,      \* ftable: ref and ip
  ofile,     \* proc->ofile
  cwd,       \* proc->cwd, 0 once the process is gone
  inop,      \* processes between begin_op() and end_op()
  st,        \* the call each process executes
  lost,      \* references open() and exec() have dropped without iput()
  panicked,  \* "ialloc: no inodes"
  calls,     \* system calls made
  crashes

vars == <<disk, cur, ic, lock, file, ofile, cwd, inop, st, lost, panicked, calls, crashes>>
tables == <<file, ofile, cwd>>
rest == <<disk, inop, panicked, crashes>>

\* A free inode: ialloc() and iput() clear everything.
FreeNode == [type |-> "none", nlink |-> 0, ent |-> [n \in Name |-> 0], parent |-> 0, target |-> <<>>]
NoFile == [ref |-> 0, ip |-> 0]
NotCached == [ref |-> 0, valid |-> FALSE, type |-> "none", nlink |-> 0]

\* Locals of a system call: the inode it works on, the directory (namex() walks
\* with it), the inodes it has still to put, and where it goes on afterwards.
Idle == [pc |-> "user", op |-> "none", path |-> <<>>, path2 |-> <<>>, np |-> FALSE,
         ip |-> 0, dp |-> 0, puts |-> <<>>, k |-> "none", depth |-> 0]

Up == ~panicked
At(p, l) == Up /\ st[p].pc = l

\* The calls that look up the parent of their path.
Creates == {"create", "mkdir", "symlink"}
TypeOf(op) == CASE op = "mkdir" -> "DIR" [] op = "symlink" -> "LINK" [] OTHER -> "FILE"

-----------------------------------------------------------------------------
(* The inode cache.                                                        *)

iget(c, i) ==
  IF c[i].ref > 0 THEN [c EXCEPT ![i].ref = @ + 1]
                  ELSE [c EXCEPT ![i] = [NotCached EXCEPT !.ref = 1]]

idup(c, i) == [c EXCEPT ![i].ref = @ + 1]

\* The inode whose lock a process is about to take.
Wants(p) ==
  CASE st[p].pc \in {"create_old", "open", "chdir", "link_old", "link_bad", "unlink_ip", "load"}
         -> st[p].ip
    [] st[p].pc \in {"namex", "create", "link_new", "unlink"} -> st[p].dp
    [] st[p].pc = "put" -> Head(st[p].puts)
    [] OTHER -> 0

\* ilock(): the slot of inode i once it is locked, read from disk if necessary.
Loaded(i) == IF ic[i].valid THEN ic[i]
             ELSE [ref |-> ic[i].ref, valid |-> TRUE, type |-> cur[i].type, nlink |-> cur[i].nlink]
NoType(i) == ~ic[i].valid /\ cur[i].type = "none"

\* p gets past ilock() of the inode it wants, at label l.
Locks(p, l) == At(p, l) /\ lock[Wants(p)] = None /\ ~NoType(Wants(p))
Read(p) == [ic EXCEPT ![Wants(p)] = Loaded(Wants(p))]

\* p goes on with the locals s.
Go(p, s) == st' = [st EXCEPT ![p] = s]

\* p puts the inodes of `puts' and goes on at k.
Put(s, puts, k) == [s EXCEPT !.pc = "put", !.puts = puts, !.k = k]

\* p puts the inodes of `puts' and ends the call.
Finish(puts) == Put(Idle, puts, "end")
End == [Idle EXCEPT !.pc = "end"]

\* MUTANT of Unused: iput() does not look at the other references.
MutUnused(i) == ic[i].valid /\ ic[i].nlink = 0

\* iput(): no links and no other references, the inode is to be freed.
Unused(i) == ic[i].valid /\ ic[i].nlink = 0 /\ ic[i].ref = 1

\* MUTANT of put: the slot of a freed inode stays valid.
MutPut(p) ==
  /\ At(p, "put")
  /\ LET i == Head(st[p].puts)
     IN /\ lock[i] = None
        /\ IF Unused(i)
           THEN /\ cur' = [cur EXCEPT ![i] = FreeNode]
                /\ ic' = [ic EXCEPT ![i].type = "none"]
           ELSE UNCHANGED <<cur, ic>>
  /\ Go(p, [st[p] EXCEPT !.pc = "drop"])
  /\ UNCHANGED <<lock, tables, lost, rest>>

\* iput(), with ip->lock: itrunc(), type 0, iupdate(), valid 0.
put(p) ==
  /\ At(p, "put")
  /\ LET i == Head(st[p].puts)
     IN /\ lock[i] = None
        /\ IF Unused(i)
           THEN /\ cur' = [cur EXCEPT ![i] = FreeNode]
                /\ ic' = [ic EXCEPT ![i].type = "none", ![i].valid = FALSE]
           ELSE UNCHANGED <<cur, ic>>
  /\ Go(p, [st[p] EXCEPT !.pc = "drop"])
  /\ UNCHANGED <<lock, tables, lost, rest>>

\* iput(), the rest: ref-- under icache.lock.
drop(p) ==
  /\ At(p, "drop")
  /\ LET s == st[p]
         i == Head(s.puts)
         c == [ic EXCEPT ![i].ref = @ - 1]
     IN /\ ic' = IF c[i].ref = 0 THEN [c EXCEPT ![i] = NotCached] ELSE c
        /\ Go(p, [s EXCEPT !.puts = Tail(@), !.pc = IF Len(s.puts) > 1 THEN "put" ELSE s.k])
  /\ UNCHANGED <<cur, lock, tables, lost, rest>>

-----------------------------------------------------------------------------
(* Calls: begin_op() and the start of the path walk; end_op().             *)

\* namex() starts at the current directory.
Walk(p, s, path, np) == [s EXCEPT !.pc = "namex", !.path = path, !.np = np, !.dp = cwd[p]]

begin(p, op, path, path2) ==
  /\ At(p, "user")
  /\ ic' = idup(ic, cwd[p])
  /\ inop' = inop \cup {p}
  /\ Go(p, Walk(p, [Idle EXCEPT !.op = op, !.path2 = path2, !.depth = 1], path,
                op \in Creates \cup {"unlink"}))
  /\ UNCHANGED <<disk, cur, lock, tables, lost, panicked, crashes>>

\* MUTANT of end_op: the writes of the calls that are still open become durable too.
MutEndOp(p) ==
  /\ At(p, "end")
  /\ inop' = inop \ {p}
  /\ disk' = cur
  /\ Go(p, CASE st[p].op = "exit" -> [Idle EXCEPT !.pc = "exit", !.op = "exit"]
             [] st[p].op = "gone" -> [Idle EXCEPT !.pc = "dead"]
             [] st[p].op = "found" -> [st[p] EXCEPT !.pc = "exec"]
             [] OTHER -> Idle)
  /\ UNCHANGED <<cur, ic, lock, tables, lost, panicked, crashes>>

\* end_op(): the last call that ends commits (AtomicStore, one step).
end_op(p) ==
  /\ At(p, "end")
  /\ inop' = inop \ {p}
  /\ disk' = IF inop = {p} THEN cur ELSE disk
  /\ Go(p, CASE st[p].op = "exit" -> [Idle EXCEPT !.pc = "exit", !.op = "exit"]
             [] st[p].op = "gone" -> [Idle EXCEPT !.pc = "dead"]
             [] st[p].op = "found" -> [st[p] EXCEPT !.pc = "exec"]
             [] OTHER -> Idle)
  /\ UNCHANGED <<cur, ic, lock, tables, lost, panicked, crashes>>

-----------------------------------------------------------------------------
(* namex(): one element of the path.                                       *)

\* dirlookup(): the inode of an entry, 0 if there is none.
dirlookup(d, n) == IF n = ".." THEN cur[d].parent ELSE cur[d].ent[n]

\* The step of the call after namei() and after nameiparent().
Node(op) == CASE op \in {"open", "opennoderef", "exec"} -> "open"
              [] op = "link" -> "link_old"
              [] OTHER -> op
Parent(op) == CASE op \in Creates -> "create" [] op = "link" -> "link_new" [] OTHER -> "unlink"

\* Stop one level early and return the directory, unlocked.
namex_parent(p) ==
  /\ Locks(p, "namex")
  /\ st[p].np /\ Len(st[p].path) = 1 /\ Loaded(st[p].dp).type = "DIR"
  /\ ic' = Read(p)
  /\ Go(p, [st[p] EXCEPT !.pc = Parent(st[p].op)])
  /\ UNCHANGED <<cur, lock, tables, lost, rest>>

namex_next(p) ==
  /\ Locks(p, "namex")
  /\ LET s == st[p]
         next == dirlookup(s.dp, Head(s.path))
         last == Len(s.path) = 1
     IN /\ Loaded(s.dp).type = "DIR" /\ next # 0 /\ ~(s.np /\ last)
        /\ ic' = iget(Read(p), next)
        /\ Go(p, IF last
                 THEN Put([s EXCEPT !.path = <<>>, !.ip = next, !.dp = 0], <<s.dp>>, Node(s.op))
                 ELSE Put([s EXCEPT !.path = Tail(@), !.dp = next], <<s.dp>>, "namex"))
  /\ UNCHANGED <<cur, lock, tables, lost, rest>>

namex_fail(p) ==
  /\ Locks(p, "namex")
  /\ LET s == st[p]
     IN /\ Loaded(s.dp).type = "DIR" =>
             dirlookup(s.dp, Head(s.path)) = 0 /\ ~(s.np /\ Len(s.path) = 1)
        /\ ic' = Read(p)
        /\ Go(p, IF s.op = "link" /\ s.np THEN Put([Idle EXCEPT !.ip = s.ip], <<s.dp>>, "link_bad")
                                          ELSE Finish(<<s.dp>>))
  /\ UNCHANGED <<cur, lock, tables, lost, rest>>

-----------------------------------------------------------------------------
(* create(), with the ends of open(O_CREATE), mkdir() and symlink().       *)

create_exists(p) ==
  /\ Locks(p, "create")
  /\ LET s == st[p]
         i == dirlookup(s.dp, Head(s.path))
     IN /\ i # 0
        /\ ic' = iget(Read(p), i)
        /\ Go(p, Put([Idle EXCEPT !.ip = i, !.op = s.op], <<s.dp>>, "create_old"))
  /\ UNCHANGED <<cur, lock, tables, lost, rest>>

\* The parent is unlocked and put while the new inode is locked.
create_new(p) ==
  /\ Locks(p, "create")
  /\ LET s == st[p]
         free == {i \in Inum : cur[i].type = "none"}
         new == CHOOSE i \in free : \A j \in free : i <= j
         type == TypeOf(s.op)
         sub == IF type = "DIR" THEN 1 ELSE 0
     IN /\ dirlookup(s.dp, Head(s.path)) = 0
        /\ IF free = {}
           THEN panicked' = TRUE /\ UNCHANGED <<cur, ic, lock, st>>
           ELSE /\ cur' = [cur EXCEPT
                     ![new] = [FreeNode EXCEPT !.type = type, !.nlink = 1,
                                               !.parent = IF type = "DIR" THEN s.dp ELSE 0],
                     ![s.dp].nlink = @ + sub,
                     ![s.dp].ent[Head(s.path)] = new]
                /\ LET c == iget(Read(p), new)
                   IN ic' = [c EXCEPT ![new].valid = TRUE, ![new].nlink = 1, ![s.dp].nlink = @ + sub,
                                      ![new].type = IF c[new].valid THEN @ ELSE type]
                /\ lock' = [lock EXCEPT ![new] = p]
                /\ Go(p, Put([Idle EXCEPT !.ip = new, !.path2 = s.path2], <<s.dp>>,
                             IF type = "FILE" THEN "opened" ELSE "created"))
                /\ UNCHANGED panicked
  /\ UNCHANGED <<tables, lost, disk, inop, crashes>>

\* Only a file can be opened by create(); everything else exists already.
create_old(p) ==
  /\ Locks(p, "create_old")
  /\ LET s == st[p]
     IN IF s.op = "create" /\ Loaded(s.ip).type = "FILE"
        THEN lock' = [lock EXCEPT ![s.ip] = p] /\ Go(p, [Idle EXCEPT !.pc = "opened", !.ip = s.ip])
        ELSE UNCHANGED lock /\ Go(p, Finish(<<s.ip>>))
  /\ ic' = Read(p)
  /\ UNCHANGED <<cur, tables, lost, rest>>

\* symlink() writes the name into the link; iunlockput().
created(p) ==
  /\ At(p, "created")
  /\ LET s == st[p]
     IN /\ cur' = [cur EXCEPT ![s.ip].target = s.path2]
        /\ lock' = [lock EXCEPT ![s.ip] = None]
        /\ Go(p, Finish(<<s.ip>>))
  /\ UNCHANGED <<ic, tables, lost, rest>>

-----------------------------------------------------------------------------
(* open(), and the lookup of exec(), through symbolic links.               *)

Followed(p) == Links /\ st[p].op \in {"open", "exec"} /\ Loaded(st[p].ip).type = "LINK"

\* A reference to inode i that nobody will put.
Lose(i) == lost[i] < MaxLost /\ lost' = [lost EXCEPT ![i] = @ + 1]

\* iunlock() without iput(), then namei() of what the link says.
open_follow(p) ==
  /\ Locks(p, "open")
  /\ Followed(p) /\ st[p].depth < MAX_DEPTH
  /\ Lose(st[p].ip)
  /\ LET s == st[p]
         name == cur[s.ip].target
     IN /\ ic' = idup(Read(p), cwd[p])
        /\ Go(p, Walk(p, [s EXCEPT !.ip = 0, !.depth = @ + 1,
                                   !.path2 = IF s.op = "exec" THEN name ELSE @], name, FALSE))
  /\ UNCHANGED <<cur, lock, tables, rest>>

\* "too many link levels"
open_toodeep(p) ==
  /\ Locks(p, "open")
  /\ st[p].depth >= MAX_DEPTH
  /\ Lose(st[p].ip)
  /\ ic' = Read(p)
  /\ Go(p, End)
  /\ UNCHANGED <<cur, lock, tables, rest>>

\* Directories are opened in every mode: omode & O_RDONLY is 0.
open_done(p) ==
  /\ Locks(p, "open")
  /\ st[p].op # "exec" /\ ~Followed(p) /\ st[p].depth < MAX_DEPTH
  /\ ic' = Read(p)
  /\ lock' = [lock EXCEPT ![st[p].ip] = p]
  /\ Go(p, [Idle EXCEPT !.pc = "opened", !.ip = st[p].ip])
  /\ UNCHANGED <<cur, tables, lost, rest>>

\* filealloc() and fdalloc(), with the inode locked.
opened(p) ==
  /\ At(p, "opened")
  /\ LET s == st[p]
         fs == {f \in File : file[f].ref = 0}
         fds == {d \in Fd : ofile[p][d] = 0}
     IN /\ lock' = [lock EXCEPT ![s.ip] = None]
        /\ IF fs = {} \/ fds = {}
           THEN UNCHANGED <<file, ofile>> /\ Go(p, Finish(<<s.ip>>))
           ELSE LET f == CHOOSE x \in fs : \A y \in fs : x <= y
                    d == CHOOSE x \in fds : \A y \in fds : x <= y
                IN /\ file' = [file EXCEPT ![f] = [ref |-> 1, ip |-> s.ip]]
                   /\ ofile' = [ofile EXCEPT ![p][d] = f]
                   /\ Go(p, End)
  /\ UNCHANGED <<cur, ic, cwd, lost, rest>>

\* sys_exec() has found the program and unlocks it, without iput().
exec_found(p) ==
  /\ Locks(p, "open")
  /\ st[p].op = "exec" /\ ~Followed(p) /\ st[p].depth < MAX_DEPTH
  /\ Lose(st[p].ip)
  /\ ic' = Read(p)
  /\ Go(p, [End EXCEPT !.op = "found", !.path2 = st[p].path2])
  /\ UNCHANGED <<cur, lock, tables, rest>>

\* exec() looks the program up again.
exec(p) ==
  /\ At(p, "exec")
  /\ ic' = idup(ic, cwd[p])
  /\ inop' = inop \cup {p}
  /\ Go(p, Walk(p, [Idle EXCEPT !.op = "load", !.depth = 1], st[p].path2, FALSE))
  /\ UNCHANGED <<disk, cur, lock, tables, lost, panicked, crashes>>

load(p) ==
  /\ Locks(p, "load")
  /\ ic' = Read(p)
  /\ Go(p, Finish(<<st[p].ip>>))
  /\ UNCHANGED <<cur, lock, tables, lost, rest>>

-----------------------------------------------------------------------------
(* link(), unlink(), chdir().                                              *)

\* A link count of a locked inode and its iupdate().
SetLinks(c, i, n) == ic' = [c EXCEPT ![i].nlink = n]

link_old(p) ==
  /\ Locks(p, "link_old")
  /\ LET s == st[p]
         n == Loaded(s.ip).nlink + 1
     IN IF Loaded(s.ip).type = "DIR"
        THEN /\ ic' = Read(p) /\ UNCHANGED cur
             /\ Go(p, Finish(<<s.ip>>))
        ELSE /\ SetLinks(idup(Read(p), cwd[p]), s.ip, n)
             /\ cur' = [cur EXCEPT ![s.ip].nlink = n]
             /\ Go(p, Walk(p, s, s.path2, TRUE))
  /\ UNCHANGED <<lock, tables, lost, rest>>

\* MUTANT of link_new: falls through to `bad'.
MutLinkNew(p) ==
  /\ Locks(p, "link_new")
  /\ LET s == st[p]
     IN /\ dirlookup(s.dp, Head(s.path)) = 0
        /\ cur' = [cur EXCEPT ![s.dp].ent[Head(s.path)] = s.ip]
        /\ Go(p, Put([Idle EXCEPT !.ip = s.ip], <<s.dp>>, "link_bad"))
  /\ ic' = Read(p)
  /\ UNCHANGED <<lock, tables, lost, rest>>

\* dirlink() puts the inode that has the name already while dp is locked.
link_new(p) ==
  /\ Locks(p, "link_new")
  /\ LET s == st[p]
         i == dirlookup(s.dp, Head(s.path))
     IN IF i # 0
        THEN /\ ic' = iget(Read(p), i)
             /\ lock' = [lock EXCEPT ![s.dp] = p]
             /\ Go(p, Put([Idle EXCEPT !.ip = s.ip, !.dp = s.dp], <<i>>, "link_clash"))
             /\ UNCHANGED cur
        ELSE /\ ic' = Read(p)
             /\ cur' = [cur EXCEPT ![s.dp].ent[Head(s.path)] = s.ip]
             /\ Go(p, Finish(<<s.dp, s.ip>>))
             /\ UNCHANGED lock
  /\ UNCHANGED <<tables, lost, rest>>

link_clash(p) ==
  /\ At(p, "link_clash")
  /\ lock' = [lock EXCEPT ![st[p].dp] = None]
  /\ Go(p, Put([Idle EXCEPT !.ip = st[p].ip], <<st[p].dp>>, "link_bad"))
  /\ UNCHANGED <<cur, ic, tables, lost, rest>>

link_bad(p) ==
  /\ Locks(p, "link_bad")
  /\ LET s == st[p]
         n == Loaded(s.ip).nlink - 1
     IN /\ SetLinks(Read(p), s.ip, n)
        /\ cur' = [cur EXCEPT ![s.ip].nlink = n]
        /\ Go(p, Finish(<<s.ip>>))
  /\ UNCHANGED <<lock, tables, lost, rest>>

unlink_bad(p) ==
  /\ At(p, "unlink_bad")
  /\ lock' = [lock EXCEPT ![st[p].dp] = None]
  /\ Go(p, Finish(<<st[p].dp>>))
  /\ UNCHANGED <<cur, ic, tables, lost, rest>>

\* dp stays locked.
unlink(p) ==
  /\ Locks(p, "unlink")
  /\ LET s == st[p]
         i == dirlookup(s.dp, Head(s.path))
     IN /\ lock' = [lock EXCEPT ![s.dp] = p]
        /\ IF i = 0 \/ Head(s.path) = ".."
           THEN ic' = Read(p) /\ Go(p, [Idle EXCEPT !.pc = "unlink_bad", !.dp = s.dp])
           ELSE ic' = iget(Read(p), i) /\ Go(p, [s EXCEPT !.pc = "unlink_ip", !.ip = i])
  /\ UNCHANGED <<cur, tables, lost, rest>>

\* isdirempty()
Empty(d) == \A n \in Name : cur[d].ent[n] = 0

unlink_ip(p) ==
  /\ Locks(p, "unlink_ip")
  /\ LET s == st[p]
         i == s.ip
         dir == Loaded(i).type = "DIR"
         n == ic[s.dp].nlink - (IF dir THEN 1 ELSE 0)
     IN IF dir /\ ~Empty(i)
        THEN /\ ic' = Read(p)
             /\ Go(p, Put([Idle EXCEPT !.dp = s.dp], <<i>>, "unlink_bad"))
             /\ UNCHANGED <<cur, lock>>
        ELSE /\ SetLinks(Read(p), s.dp, n)
             /\ cur' = [cur EXCEPT ![s.dp].ent[Head(s.path)] = 0, ![s.dp].nlink = n]
             /\ lock' = [lock EXCEPT ![i] = p, ![s.dp] = None]
             /\ Go(p, Put([Idle EXCEPT !.ip = i], <<s.dp>>, "unlink_dec"))
  /\ UNCHANGED <<tables, lost, rest>>

\* MUTANT of unlink_dec: the link count is written to the disk inode only.
MutUnlinkDec(p) ==
  /\ At(p, "unlink_dec")
  /\ LET s == st[p]
     IN /\ cur' = [cur EXCEPT ![s.ip].nlink = @ - 1]
        /\ lock' = [lock EXCEPT ![s.ip] = None]
        /\ Go(p, Finish(<<s.ip>>))
  /\ UNCHANGED <<ic, tables, lost, rest>>

unlink_dec(p) ==
  /\ At(p, "unlink_dec")
  /\ LET s == st[p]
         n == ic[s.ip].nlink - 1
     IN /\ SetLinks(ic, s.ip, n)
        /\ cur' = [cur EXCEPT ![s.ip].nlink = n]
        /\ lock' = [lock EXCEPT ![s.ip] = None]
        /\ Go(p, Finish(<<s.ip>>))
  /\ UNCHANGED <<tables, lost, rest>>

chdir(p) ==
  /\ Locks(p, "chdir")
  /\ ic' = Read(p)
  /\ LET s == st[p]
     IN IF Loaded(s.ip).type # "DIR"
        THEN UNCHANGED cwd /\ Go(p, Finish(<<s.ip>>))
        ELSE cwd' = [cwd EXCEPT ![p] = s.ip] /\ Go(p, Finish(<<cwd[p]>>))
  /\ UNCHANGED <<cur, lock, file, ofile, lost, rest>>

-----------------------------------------------------------------------------
(* Descriptors and processes.                                              *)

\* MUTANT of fileclose: the reference to the inode is not put.
MutFileclose(p, d, op) ==
  /\ Up /\ ofile[p][d] # 0
  /\ LET f == ofile[p][d]
     IN /\ ofile' = [ofile EXCEPT ![p][d] = 0]
        /\ file' = IF file[f].ref > 1 THEN [file EXCEPT ![f].ref = @ - 1]
                                      ELSE [file EXCEPT ![f] = NoFile]
  /\ UNCHANGED <<disk, cur, ic, lock, cwd, inop, st, lost, panicked, crashes>>

\* fileclose(); the last reference puts the inode, in a transaction of its own.
fileclose(p, d, op) ==
  /\ Up /\ ofile[p][d] # 0
  /\ LET f == ofile[p][d]
     IN /\ ofile' = [ofile EXCEPT ![p][d] = 0]
        /\ IF file[f].ref > 1
           THEN file' = [file EXCEPT ![f].ref = @ - 1] /\ UNCHANGED <<inop, st>>
           ELSE /\ file' = [file EXCEPT ![f] = NoFile]
                /\ inop' = inop \cup {p}
                /\ Go(p, Put([Idle EXCEPT !.op = op], <<file[f].ip>>, "end"))
  /\ UNCHANGED <<disk, cur, ic, lock, cwd, lost, panicked, crashes>>

close(p) == st[p].pc = "user" /\ \E d \in Fd : fileclose(p, d, "close")

\* MUTANT of dup: the struct file does not count the new descriptor.
MutDup(p) ==
  /\ At(p, "user")
  /\ \E d \in Fd, e \in Fd :
       /\ ofile[p][d] # 0 /\ ofile[p][e] = 0 /\ \A x \in Fd : x < e => ofile[p][x] # 0
       /\ ofile' = [ofile EXCEPT ![p][e] = ofile[p][d]]
  /\ UNCHANGED <<cur, ic, lock, file, cwd, lost, st, rest>>

dup(p) ==
  /\ At(p, "user")
  /\ \E d \in Fd, e \in Fd :
       /\ ofile[p][d] # 0 /\ ofile[p][e] = 0 /\ \A x \in Fd : x < e => ofile[p][x] # 0
       /\ ofile' = [ofile EXCEPT ![p][e] = ofile[p][d]]
       /\ file' = [file EXCEPT ![ofile[p][d]].ref = @ + 1]
  /\ UNCHANGED <<cur, ic, lock, cwd, lost, st, rest>>

\* filestat() and fileread() lock the inode of the file.
filestat(p) ==
  /\ At(p, "user")
  /\ \E d \in Fd :
       /\ ofile[p][d] # 0
       /\ LET i == file[ofile[p][d]].ip
          IN lock[i] = None /\ ~NoType(i) /\ ic' = [ic EXCEPT ![i] = Loaded(i)]
  /\ UNCHANGED <<cur, lock, tables, st, lost, rest>>

\* fork(): filedup() of every open file, idup() of the current directory.
fork(p, q) ==
  /\ At(p, "user") /\ At(q, "dead")
  /\ ofile' = [ofile EXCEPT ![q] = ofile[p]]
  /\ file' = [f \in File |-> [file[f] EXCEPT !.ref = @ + Cardinality({d \in Fd : ofile[p][d] = f})]]
  /\ cwd' = [cwd EXCEPT ![q] = cwd[p]]
  /\ ic' = idup(ic, cwd[p])
  /\ Go(q, Idle)
  /\ UNCHANGED <<cur, lock, lost, rest>>

\* exit(): one descriptor after the other, then the current directory.
exit(p) ==
  /\ At(p, "user")
  /\ \E q \in Proc \ {p} : st[q].pc # "dead"
  /\ Go(p, [Idle EXCEPT !.pc = "exit", !.op = "exit"])
  /\ UNCHANGED <<cur, ic, lock, tables, lost, rest>>

exit_close(p) ==
  /\ st[p].pc = "exit"
  /\ \E d \in Fd : (\A x \in Fd : x < d => ofile[p][x] = 0) /\ fileclose(p, d, "exit")

exit_cwd(p) ==
  /\ At(p, "exit")
  /\ \A d \in Fd : ofile[p][d] = 0
  /\ cwd' = [cwd EXCEPT ![p] = 0]
  /\ inop' = inop \cup {p}
  /\ Go(p, Put([Idle EXCEPT !.op = "gone"], <<cwd[p]>>, "end"))
  /\ UNCHANGED <<disk, cur, ic, lock, file, ofile, lost, panicked, crashes>>

-----------------------------------------------------------------------------

\* The memory of the kernel after a restart: every process in the root directory.
Booted ==
  /\ cur' = disk
  /\ ic' = [i \in Inum |-> IF i = Root THEN [NotCached EXCEPT !.ref = Cardinality(Proc)] ELSE NotCached]
  /\ lock' = [i \in Inum |-> None]
  /\ file' = [f \in File |-> NoFile]
  /\ ofile' = [p \in Proc |-> [d \in Fd |-> 0]]
  /\ cwd' = [p \in Proc |-> Root]
  /\ inop' = {}
  /\ st' = [p \in Proc |-> Idle]
  /\ lost' = [i \in Inum |-> 0]
  /\ panicked' = FALSE

Init ==
  /\ disk \in Images /\ cur = disk
  /\ ic = [i \in Inum |-> IF i = Root THEN [NotCached EXCEPT !.ref = Cardinality(Proc)] ELSE NotCached]
  /\ lock = [i \in Inum |-> None]
  /\ file = [f \in File |-> NoFile]
  /\ ofile = [p \in Proc |-> [d \in Fd |-> 0]]
  /\ cwd = [p \in Proc |-> Root]
  /\ inop = {}
  /\ st = [p \in Proc |-> Idle]
  /\ lost = [i \in Inum |-> 0]
  /\ panicked = FALSE
  /\ calls = 0 /\ crashes = 0

\* Power failure; recovery brings back what has been committed.
Crash ==
  /\ crashes < MaxCrashes
  /\ crashes' = crashes + 1
  /\ Booted
  /\ UNCHANGED disk

\* Directories are made in the root directory only, and no link or directory is
\* made with the name ".." (see README).
call(p) ==
  \/ \E op \in {"create", "unlink", "open", "chdir"}, path \in Paths : begin(p, op, path, <<>>)
  \/ \E op \in {"unlink", "chdir"} : begin(p, op, <<"..">>, <<>>)
  \/ \E n \in Name : cwd[p] = Root /\ begin(p, "mkdir", <<n>>, <<>>)
  \/ \E old \in Paths, new \in Paths : begin(p, "link", old, new)
  \/ /\ Links
     /\ \/ \E n \in Name, path \in Paths : begin(p, "symlink", <<n>>, path)
        \/ \E path \in Paths : begin(p, "exec", path, path) \/ begin(p, "opennoderef", path, <<>>)

step(p) ==
  \/ put(p) \/ drop(p) \/ end_op(p)
  \/ namex_parent(p) \/ namex_next(p) \/ namex_fail(p)
  \/ create_exists(p) \/ create_new(p) \/ create_old(p) \/ created(p)
  \/ open_follow(p) \/ open_toodeep(p) \/ open_done(p) \/ opened(p)
  \/ exec_found(p) \/ exec(p) \/ load(p)
  \/ link_old(p) \/ link_new(p) \/ link_clash(p) \/ link_bad(p)
  \/ unlink(p) \/ unlink_ip(p) \/ unlink_dec(p) \/ unlink_bad(p)
  \/ chdir(p) \/ exit_close(p) \/ exit_cwd(p)

Next ==
  \/ \E p \in Proc : step(p) /\ UNCHANGED calls
  \/ /\ calls < MaxCalls /\ calls' = calls + 1
     /\ \/ \E p \in Proc : \/ call(p) \/ close(p) \/ dup(p) \/ filestat(p) \/ exit(p)
                           \/ \E q \in Proc : fork(p, q)
        \/ Crash

Spec == Init /\ [][Next]_vars

-----------------------------------------------------------------------------
(* Properties.                                                             *)

\* The number of pointers the kernel has to inode i.
Pointers(i) ==
  Cardinality({p \in Proc : st[p].ip = i}) + Cardinality({p \in Proc : st[p].dp = i})
  + Cardinality({p \in Proc : cwd[p] = i})
  + Cardinality({x \in Proc \X (1..2) : x[2] \in DOMAIN st[x[1]].puts /\ st[x[1]].puts[x[2]] = i})
  + Cardinality({f \in File : file[f].ip = i})

\* ip->ref is the number of pointers to the slot plus the references open()
\* and exec() have lost on their way through links: no other path of any call,
\* failing or not, forgets a reference or drops one twice.
RefExact == \A i \in Inum : ic[i].ref = Pointers(i) + lost[i]

\* The struct files count the descriptors that share them.
FileRefExact ==
  \A f \in File : file[f].ref = Cardinality({x \in Proc \X Fd : ofile[x[1]][x[2]] = f})

\* No process that gets the lock of an inode finds it freed ("ilock: no type"),
\* and unlink() never removes a name of an inode without links ("unlink: nlink
\* < 1"): whoever works with an inode has kept it from being freed.
NoPanic ==
  /\ \A p \in Proc : LET i == Wants(p)
                   IN i # 0 /\ st[p].pc # "put" /\ lock[i] = None
                      => ~NoType(i) /\ (st[p].pc = "unlink_ip" => Loaded(i).nlink > 0)
  /\ \A f \in File : file[f].ref > 0 /\ lock[file[f].ip] = None => ~NoType(file[f].ip)

\* Entries that refer to inode i in a file system, ".." of a directory that has
\* a name itself included.
Names(fs, i) == {x \in Inum \X Name : fs[x[1]].type = "DIR" /\ fs[x[1]].ent[x[2]] = i}
Entries(fs, i) ==
  Cardinality(Names(fs, i))
  + Cardinality({d \in Inum : fs[d].type = "DIR" /\ fs[d].parent = i /\ Names(fs, d) # {}})

\* A name never outlives its inode: link counts cover the directory entries.
Named(fs) == \A i \in Inum : Entries(fs, i) > 0 => fs[i].type # "none" /\ fs[i].nlink >= Entries(fs, i)

NamesCovered == Named(cur)

\* A path as a process or a symbolic link has it.
IsPath(x) == x # <<>> /\ x \in Seq(Name \cup {".."})

\* struct dinode; a link count is a short.
Dinode == [type : {"none", "DIR", "LINK", "FILE"}, nlink : Int, ent : [Name -> 0..NI],
           parent : 0..NI, target : Seq(Name \cup {".."})]

\* Directories are in the root directory and have one name.
DirsOK(fs) ==
  /\ fs[Root].type = "DIR"
  /\ \A i \in Inum :
       /\ fs[i].type = "none" => fs[i].nlink = 0
       /\ fs[i].type = "DIR" => /\ fs[i].parent = Root
                                /\ \A x \in Names(fs, i) : x[1] = Root
                                /\ \A x, y \in Names(fs, i) : x = y

\* The file systems that mkfs makes and completed calls leave behind. A file may
\* have more links than names: a name goes with the removed directory it is in.
Sound(fs) ==
  /\ fs \in [Inum -> Dinode] /\ DirsOK(fs)
  /\ \A i \in Inum :
       /\ fs[i].type = "LINK" => IsPath(fs[i].target)
       /\ fs[i].nlink >= Entries(fs, i)
       /\ fs[i].type = "DIR" => fs[i].nlink = Entries(fs, i) + (IF i = Root THEN 1 ELSE 0)

ASSUME ImagesAssumption == \A fs \in Images : Sound(fs)

\* After any crash the recovered file system has no name without an inode, and
\* the link count of a directory is exactly that of its entries, whatever calls
\* overlapped when it happened.
DiskNamed ==
  /\ Named(disk)
  /\ \A i \in Inum : disk[i].type = "DIR"
                     => disk[i].nlink = Entries(disk, i) + (IF i = Root THEN 1 ELSE 0)

\* The cache is write-through: once an inode has been read, the copies of type
\* and link count are those of the disk inode.
CacheCoherent ==
  \A i \in Inum : ic[i].ref > 0 /\ ic[i].valid => ic[i].type = cur[i].type /\ ic[i].nlink = cur[i].nlink

\* Space is reclaimed: as long as the machine has not crashed, an inode that
\* has no links left is in use by somebody who will put it.
Reclaimed == crashes = 0 => \A i \in Inum : cur[i].type # "none" /\ cur[i].nlink = 0 => ic[i].ref > 0

\* Two calls never wait for each other's inodes.
NoDeadlock ==
  \A p, q \in Proc : (Wants(p) # 0 /\ Wants(q) # 0 /\ p # q)
                     => ~(lock[Wants(p)] = q /\ lock[Wants(q)] = p)

=============================================================================
