-------------------------- MODULE FileSystemProofs --------------------------
(***************************************************************************)
(* Reference counts, link counts and inode locks of the file system, for   *)
(* every number of processes, inodes and struct files.                     *)
(***************************************************************************)
EXTENDS FileSystem, FiniteSetTheorems, TLAPS

-----------------------------------------------------------------------------
(* The local states of the calls.                                          *)

Elem == Name \cup {".."}
IsNames(x) == x # <<>> /\ x \in Seq(Name)

\* Where a call goes on when it has put its inodes, by the inodes it then works on.
Finals == {"user", "dead", "exit", "end", "exec"}
OnNode == {"create_old", "created", "opened", "open", "load", "chdir", "link_old", "link_bad",
           "unlink_dec"}
OnDir == {"create", "unlink", "unlink_bad"}
OnBoth == {"link_new", "link_clash", "unlink_ip"}
Labels == Finals \cup OnNode \cup OnDir \cup OnBoth \cup {"namex"}
OnEntry == {"create", "link_new", "unlink", "unlink_ip"}

Ops == Creates \cup {"none", "unlink", "open", "opennoderef", "chdir", "link", "exec", "load",
                     "exit", "gone", "found", "close"}
Local == [pc : Labels \cup {"put", "drop"}, op : Ops, path : Seq(Elem), path2 : Seq(Elem),
          np : BOOLEAN, ip : 0..NI, dp : 0..NI, puts : Seq(Inum), k : Labels \cup {"none"},
          depth : Nat]

Lab(s) == IF s.pc \in {"put", "drop"} THEN s.k ELSE s.pc

\* The second walk of link(): the new link is counted already.
Linking(s) == s.op = "link" /\ s.np

\* The inodes and the path a call has at its next label.
Nodes(s) ==
  /\ Lab(s) \in Labels
  /\ Lab(s) \in Finals => s.ip = 0 /\ s.dp = 0
  /\ Lab(s) \in OnNode => s.ip \in Inum /\ s.dp = 0
  /\ Lab(s) \in OnDir => s.ip = 0 /\ s.dp \in Inum
  /\ Lab(s) \in OnBoth => s.ip \in Inum /\ s.dp \in Inum
  /\ Lab(s) = "namex" => s.dp \in Inum /\ (IF Linking(s) THEN s.ip \in Inum ELSE s.ip = 0)

WalkOp(s) ==
  IF s.np THEN s.op \in Creates \cup {"link", "unlink"}
          ELSE s.op \in {"open", "opennoderef", "exec", "load", "chdir", "link"}

OpOK(s) ==
  /\ Lab(s) = "namex" => WalkOp(s)
  /\ Lab(s) = "open" => s.op \in {"open", "opennoderef", "exec"}
  /\ Lab(s) = "create" => s.op \in Creates
  /\ Lab(s) = "link_old" => s.op = "link" /\ ~s.np
  /\ s.op = "gone" => Lab(s) = "end"

\* Paths that the call looks up, and those it will look up later.
PathOK(s) ==
  /\ Lab(s) \in OnEntry \cup {"namex"} => IsPath(s.path)
  /\ Lab(s) \in OnEntry => Len(s.path) = 1
  /\ Lab(s) \in {"create", "link_new", "unlink_ip"} => IsNames(s.path)
  /\ Lab(s) = "namex" /\ s.np /\ s.op # "unlink" => IsNames(s.path)
  /\ Lab(s) \in {"namex", "create"} /\ s.op = "mkdir" => s.dp = Root /\ Len(s.path) = 1

Path2OK(s) ==
  /\ Lab(s) = "link_old" => IsNames(s.path2)
  /\ Lab(s) = "namex" /\ s.op = "link" /\ ~s.np => IsNames(s.path2)
  /\ Lab(s) \in {"namex", "open"} /\ s.op = "exec" => IsPath(s.path2)
  /\ Lab(s) \in {"namex", "create"} /\ s.op = "symlink" => IsPath(s.path2)
  /\ Lab(s) = "end" /\ s.op = "found" => IsPath(s.path2)
  /\ Lab(s) = "exec" => IsPath(s.path2)

\* The inodes it has to put; labels outside a transaction.
Outside == {"user", "dead", "exit", "exec"}
PutsOK(s) ==
  IF s.pc \in {"put", "drop"} THEN s.k \in Labels \ Outside /\ Len(s.puts) \in 1..2
                              ELSE s.puts = <<>>

LocalOK(s) == s \in Local /\ Nodes(s) /\ OpOK(s) /\ PathOK(s) /\ Path2OK(s) /\ PutsOK(s)

\* An equality of two local states, field by field.
SameWork(s, t) ==
  /\ t.op = s.op /\ t.path = s.path /\ t.path2 = s.path2 /\ t.np = s.np
  /\ t.ip = s.ip /\ t.dp = s.dp

LEMMA IdleLocal ==
  /\ Idle \in Local
  /\ Idle.pc = "user" /\ Idle.op = "none" /\ Idle.path = <<>> /\ Idle.path2 = <<>> /\ Idle.np = FALSE
  /\ Idle.ip = 0 /\ Idle.dp = 0 /\ Idle.puts = <<>> /\ Idle.k = "none" /\ Idle.depth = 0
  BY FSAssumption DEF Idle, Local, Labels, Finals, Ops

LEMMA PutLocal ==
  ASSUME NEW s \in Local, NEW puts \in Seq(Inum), NEW k \in Labels,
         NEW t, t = Put(s, puts, k)
  PROVE  /\ t \in Local /\ SameWork(s, t)
         /\ t.pc = "put" /\ t.puts = puts /\ t.k = k /\ Lab(t) = k
  <1>1. t = [s EXCEPT !.pc = "put", !.puts = puts, !.k = k]
    BY DEF Put
  <1>2. t \in Local
    BY <1>1 DEF Local
  <1>3. /\ SameWork(s, t)
        /\ t.pc = "put" /\ t.puts = puts /\ t.k = k
    BY <1>1 DEF Local, SameWork
  <1> QED BY <1>2, <1>3 DEF Lab

LEMMA EndLocal ==
  /\ End \in Local /\ SameWork(Idle, End)
  /\ End.pc = "end" /\ End.puts = <<>> /\ LocalOK(End)
  <1>1. /\ End \in Local /\ SameWork(Idle, End)
        /\ End.pc = "end" /\ End.puts = <<>>
    BY IdleLocal DEF End, Local, SameWork, Labels, Finals
  <1>2. LocalOK(End)
    BY <1>1, IdleLocal DEF SameWork, LocalOK, Nodes, OpOK, PathOK, Path2OK, PutsOK, Lab, Labels,
       Finals, OnNode, OnDir, OnBoth, OnEntry
  <1> QED BY <1>1, <1>2

LEMMA FinishLocal ==
  ASSUME NEW puts \in Seq(Inum), Len(puts) \in 1..2, NEW t, t = Finish(puts)
  PROVE  /\ t \in Local /\ SameWork(Idle, t)
         /\ t.pc = "put" /\ t.puts = puts /\ t.k = "end" /\ Lab(t) = "end"
         /\ LocalOK(t)
  <1>1. "end" \in Labels
    BY DEF Labels, Finals
  <1>2. /\ t \in Local /\ SameWork(Idle, t)
        /\ t.pc = "put" /\ t.puts = puts /\ t.k = "end" /\ Lab(t) = "end"
    BY <1>1, IdleLocal, PutLocal DEF Finish
  <1>3. LocalOK(t)
    BY <1>1, <1>2, IdleLocal DEF SameWork, LocalOK, Nodes, OpOK, PathOK, Path2OK, PutsOK, Labels,
       Outside, Finals, OnNode, OnDir, OnBoth, OnEntry
  <1> QED BY <1>2, <1>3

\* The start of a path walk.
LEMMA WalkLocal ==
  ASSUME NEW p \in Proc, cwd[p] \in Inum,
         NEW s \in Local, NEW path \in Seq(Elem), NEW np \in BOOLEAN, NEW t, t = Walk(p, s, path, np)
  PROVE  /\ t \in Local
         /\ t.pc = "namex" /\ t.path = path /\ t.np = np /\ t.dp = cwd[p] /\ Lab(t) = "namex"
         /\ t.op = s.op /\ t.path2 = s.path2 /\ t.ip = s.ip /\ t.puts = s.puts /\ t.k = s.k
  <1>1. t = [s EXCEPT !.pc = "namex", !.path = path, !.np = np, !.dp = cwd[p]]
    BY DEF Walk
  <1>2. "namex" \in Labels /\ cwd[p] \in 0..NI
    BY FSAssumption DEF Labels, Inum
  <1>3. t \in Local
    BY <1>1, <1>2 DEF Local
  <1>4. /\ t.pc = "namex" /\ t.path = path /\ t.np = np /\ t.dp = cwd[p]
        /\ t.op = s.op /\ t.path2 = s.path2 /\ t.ip = s.ip /\ t.puts = s.puts /\ t.k = s.k
    BY <1>1 DEF Local
  <1> QED BY <1>3, <1>4 DEF Lab

-----------------------------------------------------------------------------
(* Types of the shared state.                                              *)

Slot == [ref : Int, valid : BOOLEAN, type : {"none", "DIR", "LINK", "FILE"}, nlink : Int]

Types ==
  /\ cur \in [Inum -> Dinode] /\ ic \in [Inum -> Slot]
  /\ lock \in [Inum -> Proc \cup {None}]
  /\ file \in [File -> [ref : Nat, ip : 0..NI]]
  /\ ofile \in [Proc -> [Fd -> 0..NFILE]] /\ cwd \in [Proc -> 0..NI]
  /\ lost \in [Inum -> Nat]
  /\ \A p \in Proc : LocalOK(st[p])
  /\ st \in [Proc -> Local]

\* The step of one process: the others keep their locals.
Moves(p, t) == st' = [st EXCEPT ![p] = t]

LEMMA MovesOne ==
  ASSUME Types, NEW p \in Proc, NEW t, LocalOK(t), Moves(p, t)
  PROVE  /\ st' \in [Proc -> Local] /\ st'[p] = t
         /\ \A q \in Proc : q # p => st'[q] = st[q]
         /\ \A q \in Proc : LocalOK(st'[q])
  <1>1. st' \in [Proc -> Local] /\ st'[p] = t /\ \A q \in Proc : q # p => st'[q] = st[q]
    BY DEF Types, Moves, LocalOK
  <1> QED BY <1>1 DEF Types

-----------------------------------------------------------------------------
(* Counting.                                                               *)

B(x) == IF x THEN 1 ELSE 0

\* Two sets that differ in one element at most.
LEMMA CountOne ==
  ASSUME NEW A, NEW A2, NEW p, IsFiniteSet(A), A \ {p} = A2 \ {p}
  PROVE  /\ IsFiniteSet(A2) /\ Cardinality(A) \in Nat /\ Cardinality(A2) \in Nat
         /\ Cardinality(A2) = Cardinality(A) + B(p \in A2) - B(p \in A)
         /\ Cardinality(A) >= B(p \in A)
  <1> DEFINE C == A \ {p}
  <1>1. IsFiniteSet(C) /\ Cardinality(C) \in Nat
    BY FS_Subset, FS_CardinalityType
  <1>2. IsFiniteSet(C \cup {p}) /\ Cardinality(C \cup {p}) = Cardinality(C) + 1
    BY <1>1, FS_AddElement
  <1>3. A = (IF p \in A THEN C \cup {p} ELSE C) /\ A2 = (IF p \in A2 THEN C \cup {p} ELSE C)
    OBVIOUS
  <1> HIDE DEF C
  <1>4. Cardinality(A) = Cardinality(C) + B(p \in A)
    <2>1. CASE p \in A
      BY <2>1, <1>1, <1>2, <1>3 DEF B
    <2>2. CASE p \notin A
      BY <2>2, <1>1, <1>2, <1>3 DEF B
    <2> QED BY <2>1, <2>2
  <1>5. Cardinality(A2) = Cardinality(C) + B(p \in A2) /\ IsFiniteSet(A2)
    <2>1. CASE p \in A2
      BY <2>1, <1>1, <1>2, <1>3 DEF B
    <2>2. CASE p \notin A2
      BY <2>2, <1>1, <1>2, <1>3 DEF B
    <2> QED BY <2>1, <2>2
  <1>6. B(p \in A) \in 0..1 /\ B(p \in A2) \in 0..1
    BY DEF B
  <1> HIDE DEF B
  <1> QED BY <1>1, <1>4, <1>5, <1>6

\* Two sets that differ in two elements at most.
LEMMA CountTwo ==
  ASSUME NEW A, NEW A2, NEW p, NEW q, p # q, IsFiniteSet(A), A \ {p, q} = A2 \ {p, q}
  PROVE  /\ IsFiniteSet(A2) /\ Cardinality(A) \in Nat /\ Cardinality(A2) \in Nat
         /\ Cardinality(A2) = Cardinality(A) + B(p \in A2) - B(p \in A) + B(q \in A2) - B(q \in A)
         /\ Cardinality(A) >= B(p \in A) + B(q \in A)
  <1> DEFINE M == (A \ {p}) \cup (A2 \cap {p})
             N == A \ {p}
  <1>1. A \ {p} = M \ {p} /\ M \ {q} = A2 \ {q} /\ (p \in M <=> p \in A2) /\ (q \in M <=> q \in A)
    OBVIOUS
  <1>2. A \ {p} = N \ {p} /\ p \notin N /\ (q \in N <=> q \in A)
    OBVIOUS
  <1> HIDE DEF M, N
  <1>3. /\ IsFiniteSet(M) /\ Cardinality(A) \in Nat /\ Cardinality(M) \in Nat
        /\ Cardinality(M) = Cardinality(A) + B(p \in A2) - B(p \in A)
    <2>1. B(p \in M) = B(p \in A2)
      BY <1>1 DEF B
    <2> QED BY <2>1, <1>1, CountOne
  <1>4. /\ IsFiniteSet(A2) /\ Cardinality(A2) \in Nat
        /\ Cardinality(A2) = Cardinality(M) + B(q \in A2) - B(q \in A)
    <2>1. B(q \in M) = B(q \in A)
      BY <1>1 DEF B
    <2> QED BY <2>1, <1>1, <1>3, CountOne
  <1>5. Cardinality(A) >= B(p \in A) + B(q \in A)
    <2>1. /\ IsFiniteSet(N) /\ Cardinality(N) \in Nat /\ Cardinality(A) \in Nat
          /\ Cardinality(N) = Cardinality(A) + B(p \in N) - B(p \in A)
      BY <1>2, CountOne
    <2>2. Cardinality(N) >= B(q \in N)
      BY <2>1, CountOne
    <2>3. B(p \in N) = 0 /\ B(q \in N) = B(q \in A) /\ B(p \in A) \in 0..1 /\ B(q \in A) \in 0..1
      BY <1>2 DEF B
    <2> HIDE DEF B
    <2> QED BY <2>1, <2>2, <2>3
  <1>6. /\ B(p \in A) \in 0..1 /\ B(p \in A2) \in 0..1
        /\ B(q \in A) \in 0..1 /\ B(q \in A2) \in 0..1
    BY DEF B
  <1> HIDE DEF B
  <1> QED BY <1>3, <1>4, <1>5, <1>6

-----------------------------------------------------------------------------
(* The pointers to an inode.                                               *)

InIp(i) == {p \in Proc : st[p].ip = i}
InDp(i) == {p \in Proc : st[p].dp = i}
InCwd(i) == {p \in Proc : cwd[p] = i}
InPuts(i) == {x \in Proc \X (1..2) : x[2] \in DOMAIN st[x[1]].puts /\ st[x[1]].puts[x[2]] = i}
InFile(i) == {f \in File : file[f].ip = i}

\* The pointers of the calls and the current directories.
Held(i) ==
  Cardinality(InIp(i)) + Cardinality(InDp(i)) + Cardinality(InCwd(i)) + Cardinality(InPuts(i))

PutAt(s, j, i) == j \in DOMAIN s.puts /\ s.puts[j] = i

\* The pointers in the locals of one call.
Own(s, i) == B(s.ip = i) + B(s.dp = i) + B(PutAt(s, 1, i)) + B(PutAt(s, 2, i))

LEMMA PointersSplit ==
  \A i \in Inum : /\ Pointers(i) = Held(i) + Cardinality(InFile(i))
                  /\ Pointers(i)' = Held(i)' + Cardinality(InFile(i)')
  BY DEF Pointers, Held, InIp, InDp, InCwd, InPuts, InFile

LEMMA HeldFinite ==
  ASSUME NEW i
  PROVE  /\ IsFiniteSet(InIp(i)) /\ IsFiniteSet(InDp(i)) /\ IsFiniteSet(InCwd(i))
         /\ IsFiniteSet(InPuts(i)) /\ IsFiniteSet(InFile(i))
  <1>1. IsFiniteSet(Proc) /\ IsFiniteSet(1..2) /\ IsFiniteSet(File)
    <2>1. NFILE \in Int /\ 1 \in Int /\ 2 \in Int
      BY FSAssumption
    <2>2. IsFiniteSet(1..2) /\ IsFiniteSet(1..NFILE)
      BY <2>1, FS_Interval
    <2> QED BY <2>2, FSAssumption DEF File
  <1>2. IsFiniteSet(Proc \X (1..2))
    BY <1>1, FS_Product
  <1> QED
    BY <1>1, <1>2, FS_Subset DEF InIp, InDp, InCwd, InPuts, InFile

\* One process changes its locals and its current directory.
LEMMA HeldMove ==
  ASSUME NEW p \in Proc, NEW i,
         \A q \in Proc : q # p => st'[q] = st[q] /\ cwd'[q] = cwd[q]
  PROVE  /\ Held(i) \in Nat /\ Held(i)' \in Nat
         /\ Held(i)' = Held(i) + Own(st'[p], i) - Own(st[p], i) + B(cwd'[p] = i) - B(cwd[p] = i)
         /\ Held(i) >= Own(st[p], i) + B(cwd[p] = i)
  <1> DEFINE I == InIp(i)
             I2 == InIp(i)'
             D == InDp(i)
             D2 == InDp(i)'
             C == InCwd(i)
             C2 == InCwd(i)'
             P == InPuts(i)
             P2 == InPuts(i)'
  <1>0. IsFiniteSet(I) /\ IsFiniteSet(D) /\ IsFiniteSet(C) /\ IsFiniteSet(P)
    BY HeldFinite
  <1>1. I \ {p} = I2 \ {p} /\ B(p \in I) = B(st[p].ip = i) /\ B(p \in I2) = B(st'[p].ip = i)
    BY DEF InIp, B
  <1>2. D \ {p} = D2 \ {p} /\ B(p \in D) = B(st[p].dp = i) /\ B(p \in D2) = B(st'[p].dp = i)
    BY DEF InDp, B
  <1>3. C \ {p} = C2 \ {p} /\ B(p \in C) = B(cwd[p] = i) /\ B(p \in C2) = B(cwd'[p] = i)
    BY DEF InCwd, B
  <1>4. /\ P \ {<<p, 1>>, <<p, 2>>} = P2 \ {<<p, 1>>, <<p, 2>>}
        /\ B(<<p, 1>> \in P) = B(PutAt(st[p], 1, i)) /\ B(<<p, 1>> \in P2) = B(PutAt(st'[p], 1, i))
        /\ B(<<p, 2>> \in P) = B(PutAt(st[p], 2, i)) /\ B(<<p, 2>> \in P2) = B(PutAt(st'[p], 2, i))
    <2>1. P \ {<<p, 1>>, <<p, 2>>} = P2 \ {<<p, 1>>, <<p, 2>>}
      <3>1. \A x \in Proc \X (1..2) : x \notin {<<p, 1>>, <<p, 2>>} => st'[x[1]] = st[x[1]]
        OBVIOUS
      <3> QED BY <3>1 DEF InPuts
    <2>2. \A j \in 1..2 : (<<p, j>> \in P <=> PutAt(st[p], j, i)) /\ (<<p, j>> \in P2 <=> PutAt(st'[p], j, i))
      BY DEF InPuts, PutAt
    <2>3. 1 \in 1..2 /\ 2 \in 1..2
      OBVIOUS
    <2> QED BY <2>1, <2>2, <2>3 DEF B
  <1>5. /\ Held(i) = Cardinality(I) + Cardinality(D) + Cardinality(C) + Cardinality(P)
        /\ Held(i)' = Cardinality(I2) + Cardinality(D2) + Cardinality(C2) + Cardinality(P2)
    BY DEF Held
  <1> HIDE DEF I, I2, D, D2, C, C2, P, P2
  <1>6. /\ Cardinality(I) \in Nat /\ Cardinality(I2) \in Nat
        /\ Cardinality(I2) = Cardinality(I) + B(p \in I2) - B(p \in I) /\ Cardinality(I) >= B(p \in I)
    BY <1>0, <1>1, CountOne
  <1>7. /\ Cardinality(D) \in Nat /\ Cardinality(D2) \in Nat
        /\ Cardinality(D2) = Cardinality(D) + B(p \in D2) - B(p \in D) /\ Cardinality(D) >= B(p \in D)
    BY <1>0, <1>2, CountOne
  <1>8. /\ Cardinality(C) \in Nat /\ Cardinality(C2) \in Nat
        /\ Cardinality(C2) = Cardinality(C) + B(p \in C2) - B(p \in C) /\ Cardinality(C) >= B(p \in C)
    BY <1>0, <1>3, CountOne
  <1>9. /\ Cardinality(P) \in Nat /\ Cardinality(P2) \in Nat
        /\ Cardinality(P2) = Cardinality(P) + B(<<p, 1>> \in P2) - B(<<p, 1>> \in P)
                                            + B(<<p, 2>> \in P2) - B(<<p, 2>> \in P)
        /\ Cardinality(P) >= B(<<p, 1>> \in P) + B(<<p, 2>> \in P)
    <2>1. <<p, 1>> # <<p, 2>>
      OBVIOUS
    <2> QED BY <2>1, <1>0, <1>4, CountTwo
  <1>10. \A x \in BOOLEAN : B(x) \in 0..1
    BY DEF B
  <1>11. /\ Own(st[p], i) = B(p \in I) + B(p \in D) + B(<<p, 1>> \in P) + B(<<p, 2>> \in P)
         /\ Own(st'[p], i) = B(p \in I2) + B(p \in D2) + B(<<p, 1>> \in P2) + B(<<p, 2>> \in P2)
    BY <1>1, <1>2, <1>4 DEF Own
  <1>12. /\ B(p \in I) \in 0..1 /\ B(p \in D) \in 0..1 /\ B(p \in C) \in 0..1
         /\ B(<<p, 1>> \in P) \in 0..1 /\ B(<<p, 2>> \in P) \in 0..1
         /\ B(p \in I2) \in 0..1 /\ B(p \in D2) \in 0..1 /\ B(p \in C2) \in 0..1
         /\ B(<<p, 1>> \in P2) \in 0..1 /\ B(<<p, 2>> \in P2) \in 0..1
    BY DEF B
  <1> QED
    BY <1>3, <1>5, <1>6, <1>7, <1>8, <1>9, <1>11, <1>12

-----------------------------------------------------------------------------
(* The inductive invariant.                                                *)

\* RefExact, and what the struct files refer to.
Refs == \A i \in Inum : ic[i].ref = Pointers(i) + lost[i]
Files ==
  /\ FileRefExact
  /\ \A f \in File : IF file[f].ref = 0 THEN file[f].ip = 0 ELSE file[f].ip \in Inum

\* A process that has gone, or is about to, has neither files nor a directory.
Away(s) == s.pc = "dead" \/ s.op = "gone"
Alive ==
  \A p \in Proc : IF Away(st[p]) THEN cwd[p] = 0 /\ \A d \in Fd : ofile[p][d] = 0
                                 ELSE cwd[p] \in Inum

\* The cache is write-through, and no slot of a free inode is valid.
Coherent(c, fs) ==
  \A i \in Inum : c[i].valid => c[i].type = fs[i].type /\ c[i].nlink = fs[i].nlink /\ fs[i].type # "none"

\* The inode a call has locked between two of its steps.
Holds(s) ==
  IF Lab(s) \in {"created", "opened", "unlink_dec"} THEN s.ip
  ELSE IF Lab(s) \in {"link_clash", "unlink_ip", "unlink_bad"} THEN s.dp ELSE 0

Locked ==
  \A i \in Inum : /\ \A p \in Proc : lock[i] = p <=> Holds(st[p]) = i
                  /\ lock[i] # None => ic[i].valid

\* The call has counted a link that has no name, not yet or not any more.
Owes(s) ==
  \/ Lab(s) \in {"link_new", "link_clash", "link_bad", "unlink_dec"}
  \/ Lab(s) = "namex" /\ Linking(s)

\* What a call works with is not freed: fs is the file system, w its directory.
UseOK(fs, w, s) ==
  /\ w # 0 => fs[w].type = "DIR"
  /\ s.ip # 0 => fs[s.ip].type # "none"
  /\ s.dp # 0 => fs[s.dp].type # "none"
  /\ Lab(s) \in OnEntry => fs[s.dp].type = "DIR"
  /\ \A j \in DOMAIN s.puts : fs[s.puts[j]].type # "none" \/ (s.pc = "drop" /\ j = 1)
  /\ Lab(s) = "unlink_ip" => fs[s.dp].ent[Head(s.path)] = s.ip
  /\ Owes(s) /\ Lab(s) # "unlink_dec" => fs[s.ip].type # "DIR"
  /\ Lab(s) = "created" /\ fs[s.ip].type = "LINK" => IsPath(s.path2)

InUse ==
  /\ \A p \in Proc : UseOK(cur, cwd[p], st[p])
  /\ \A f \in File : file[f].ip # 0 => cur[file[f].ip].type # "none"

\* Link counts are the entries and the links that calls owe.
Owing(i) == {p \in Proc : Owes(st[p]) /\ st[p].ip = i}
Due(i) == Entries(cur, i) + Cardinality(Owing(i))
Extra(i) == IF i = Root THEN 1 ELSE 0
Linked ==
  /\ DirsOK(cur)
  /\ \A i \in Inum : /\ cur[i].nlink >= Due(i)
                     /\ cur[i].type = "DIR" => cur[i].nlink = Due(i) + Extra(i)

\* A link whose name has not been written is locked.
Targets ==
  \A i \in Inum : cur[i].type = "LINK"
    => IsPath(cur[i].target) \/ \E p \in Proc : Lab(st[p]) = "created" /\ st[p].ip = i

Inv == /\ Types /\ Refs /\ Files /\ Alive /\ Coherent(ic, cur) /\ Locked /\ InUse
       /\ Linked /\ Targets

\* Every pointer is counted, before a step and after it.
Cover == \A p \in Proc : \A i \in Inum : ic[i].ref \in Nat /\ ic[i].ref >= Own(st[p], i)

-----------------------------------------------------------------------------
(* Steps that leave a part of the state alone.                             *)

LEMMA LockedMove ==
  ASSUME Types, Locked, NEW p \in Proc, NEW t, LocalOK(t), Moves(p, t),
         \A i \in Inum : lock'[i] = p <=> Holds(t) = i,
         \A i \in Inum : \A q \in Proc : q # p => (lock'[i] = q <=> lock[i] = q),
         \A i \in Inum : lock'[i] # None => ic'[i].valid
  PROVE  Locked'
  <1>1. st'[p] = t /\ \A q \in Proc : q # p => st'[q] = st[q]
    BY MovesOne
  <1> QED BY <1>1 DEF Locked

LEMMA UseMove ==
  ASSUME Types, InUse, NEW p \in Proc, NEW t, LocalOK(t), Moves(p, t),
         UseOK(cur', cwd'[p], t),
         \A q \in Proc : q # p => UseOK(cur', cwd'[q], st[q]),
         \A f \in File : file'[f].ip # 0 => cur'[file'[f].ip].type # "none"
  PROVE  InUse'
  <1>1. st'[p] = t /\ \A q \in Proc : q # p => st'[q] = st[q]
    BY MovesOne
  <1>2. \A q \in Proc : UseOK(cur', cwd'[q], st'[q])
    BY <1>1
  <1> QED BY <1>2 DEF InUse

LEMMA AliveMove ==
  ASSUME Types, Alive, NEW p \in Proc, NEW t, LocalOK(t), Moves(p, t), UNCHANGED <<ofile, cwd>>,
         Away(t) <=> Away(st[p])
  PROVE  Alive'
  <1>1. st'[p] = t /\ \A q \in Proc : q # p => st'[q] = st[q]
    BY MovesOne
  <1> QED BY <1>1 DEF Alive

LEMMA FilesSame ==
  ASSUME Files, UNCHANGED <<file, ofile>>
  PROVE  Files'
  BY DEF Files, FileRefExact

\* The references to an inode change by the pointers a call gets or gives up.
LEMMA RefsMove ==
  ASSUME Types, Refs, NEW p \in Proc, NEW t, LocalOK(t), Moves(p, t), UNCHANGED file,
         \A q \in Proc : q # p => cwd'[q] = cwd[q],
         \A i \in Inum : lost'[i] \in Int,
         \A i \in Inum : ic'[i].ref = ic[i].ref + lost'[i] - lost[i] + Own(t, i) - Own(st[p], i)
                                      + B(cwd'[p] = i) - B(cwd[p] = i)
  PROVE  Refs'
  <1>1. st'[p] = t /\ \A q \in Proc : q # p => st'[q] = st[q]
    BY MovesOne
  <1> SUFFICES ASSUME NEW i \in Inum PROVE (ic'[i].ref = Pointers(i)' + lost'[i])
    BY DEF Refs
  <1>2. /\ Held(i) \in Nat /\ Held(i)' \in Nat
        /\ Held(i)' = Held(i) + Own(t, i) - Own(st[p], i) + B(cwd'[p] = i) - B(cwd[p] = i)
    BY <1>1, HeldMove
  <1>3. InFile(i)' = InFile(i) /\ Cardinality(InFile(i)) \in Nat
    <2>1. InFile(i)' = InFile(i)
      BY DEF InFile
    <2> QED BY <2>1, HeldFinite, FS_CardinalityType
  <1>4. Pointers(i) = Held(i) + Cardinality(InFile(i)) /\ Pointers(i)' = Held(i)' + Cardinality(InFile(i))
    BY <1>3, PointersSplit
  <1>5. ic[i].ref = Pointers(i) + lost[i] /\ lost[i] \in Nat /\ lost'[i] \in Int
    BY DEF Refs, Types
  <1>6. ic'[i].ref = ic[i].ref + lost'[i] - lost[i] + Own(t, i) - Own(st[p], i)
                     + B(cwd'[p] = i) - B(cwd[p] = i)
    OBVIOUS
  <1>7. \A s : Own(s, i) \in Int
    BY DEF Own, B
  <1>8. Own(t, i) \in Int /\ Own(st[p], i) \in Int /\ B(cwd'[p] = i) \in Int /\ B(cwd[p] = i) \in Int
    BY <1>7 DEF B
  <1> QED BY <1>2, <1>3, <1>4, <1>5, <1>6, <1>8

\* The references of an inode cover the pointers of one call.
LEMMA RefsCover ==
  ASSUME Types, Refs, NEW p \in Proc, NEW i \in Inum
  PROVE  /\ ic[i].ref \in Nat /\ ic[i].ref >= Own(st[p], i) + B(cwd[p] = i)
         /\ Own(st[p], i) \in Nat /\ B(cwd[p] = i) \in 0..1
  <1>1. /\ Held(i) \in Nat /\ Held(i) >= Own(st[p], i) + B(cwd[p] = i)
    <2>1. IsFiniteSet(InIp(i)) /\ IsFiniteSet(InDp(i)) /\ IsFiniteSet(InCwd(i)) /\ IsFiniteSet(InPuts(i))
      BY HeldFinite
    <2>2. Cardinality(InIp(i)) \in Nat /\ Cardinality(InIp(i)) >= B(p \in InIp(i))
      BY <2>1, CountOne
    <2>3. Cardinality(InDp(i)) \in Nat /\ Cardinality(InDp(i)) >= B(p \in InDp(i))
      BY <2>1, CountOne
    <2>4. Cardinality(InCwd(i)) \in Nat /\ Cardinality(InCwd(i)) >= B(p \in InCwd(i))
      BY <2>1, CountOne
    <2>5. /\ Cardinality(InPuts(i)) \in Nat
          /\ Cardinality(InPuts(i)) >= B(<<p, 1>> \in InPuts(i)) + B(<<p, 2>> \in InPuts(i))
      <3>1. <<p, 1>> # <<p, 2>>
        OBVIOUS
      <3> QED BY <2>1, <3>1, CountTwo
    <2>6. /\ B(p \in InIp(i)) = B(st[p].ip = i) /\ B(p \in InDp(i)) = B(st[p].dp = i)
          /\ B(p \in InCwd(i)) = B(cwd[p] = i)
      BY DEF InIp, InDp, InCwd, B
    <2>7. /\ B(<<p, 1>> \in InPuts(i)) = B(PutAt(st[p], 1, i))
          /\ B(<<p, 2>> \in InPuts(i)) = B(PutAt(st[p], 2, i))
      <3>1. \A j \in 1..2 : <<p, j>> \in InPuts(i) <=> PutAt(st[p], j, i)
        BY DEF InPuts, PutAt
      <3>2. 1 \in 1..2 /\ 2 \in 1..2
        OBVIOUS
      <3> QED BY <3>1, <3>2 DEF B
    <2>8. /\ B(st[p].ip = i) \in 0..1 /\ B(st[p].dp = i) \in 0..1 /\ B(cwd[p] = i) \in 0..1
          /\ B(PutAt(st[p], 1, i)) \in 0..1 /\ B(PutAt(st[p], 2, i)) \in 0..1
      BY DEF B
    <2>9. /\ Held(i) = Cardinality(InIp(i)) + Cardinality(InDp(i)) + Cardinality(InCwd(i))
                       + Cardinality(InPuts(i))
          /\ Own(st[p], i) = B(st[p].ip = i) + B(st[p].dp = i) + B(PutAt(st[p], 1, i)) + B(PutAt(st[p], 2, i))
      BY DEF Held, Own
    <2> QED BY <2>2, <2>3, <2>4, <2>5, <2>6, <2>7, <2>8, <2>9
  <1>2. Cardinality(InFile(i)) \in Nat
    BY HeldFinite, FS_CardinalityType
  <1>3. ic[i].ref = Pointers(i) + lost[i] /\ lost[i] \in Nat /\ Pointers(i) = Held(i) + Cardinality(InFile(i))
    BY PointersSplit DEF Refs, Types
  <1>4. Own(st[p], i) \in Nat /\ B(cwd[p] = i) \in 0..1
    BY DEF Own, B
  <1> QED BY <1>1, <1>2, <1>3, <1>4

LEMMA CoverNow == Types /\ Refs => Cover
  <1>1. ASSUME Types, Refs, NEW p \in Proc, NEW i \in Inum
        PROVE  ic[i].ref \in Nat /\ ic[i].ref >= Own(st[p], i)
    <2>1. /\ ic[i].ref \in Nat /\ ic[i].ref >= Own(st[p], i) + B(cwd[p] = i)
          /\ Own(st[p], i) \in Nat /\ B(cwd[p] = i) \in 0..1
      BY <1>1, RefsCover
    <2> QED BY <2>1
  <1> QED BY <1>1 DEF Cover

LEMMA CoverNext == Types' /\ Refs' => Cover'
  BY CoverNow, PTL

\* A call points to the inode it has locked.
LEMMA HoldsOwn ==
  ASSUME NEW s, NEW i \in Inum, Holds(s) = i
  PROVE  Own(s, i) >= 1
  <1>1. s.ip = i \/ s.dp = i
    BY FSAssumption DEF Holds, Inum
  <1> QED BY <1>1 DEF Own, B

LEMMA LinkedMove ==
  ASSUME Types, Linked, NEW p \in Proc, NEW t, LocalOK(t), Moves(p, t), UNCHANGED cur,
         \A i \in Inum : Owes(t) /\ t.ip = i <=> Owes(st[p]) /\ st[p].ip = i
  PROVE  Linked'
  <1>1. st'[p] = t /\ \A q \in Proc : q # p => st'[q] = st[q]
    BY MovesOne
  <1>2. \A i \in Inum : Owing(i)' = Owing(i)
    BY <1>1 DEF Owing
  <1>3. \A i \in Inum : Due(i)' = Due(i)
    BY <1>2 DEF Due
  <1> QED BY <1>3 DEF Linked

LEMMA TargetsMove ==
  ASSUME Types, Targets, NEW p \in Proc, NEW t, LocalOK(t), Moves(p, t), UNCHANGED cur,
         Lab(st[p]) = "created" => Lab(t) = "created" /\ t.ip = st[p].ip
  PROVE  Targets'
  <1>1. st'[p] = t /\ \A q \in Proc : q # p => st'[q] = st[q]
    BY MovesOne
  <1>2. \A q \in Proc : Lab(st[q]) = "created" => Lab(st'[q]) = "created" /\ st'[q].ip = st[q].ip
    BY <1>1
  <1> QED BY <1>2 DEF Targets

\* What a step may do to the slots while the disk inodes stay as they are.
Serves(c, c2) ==
  /\ c2 \in [Inum -> Slot] /\ Coherent(c2, cur)
  /\ \A i \in Inum : c[i].valid /\ c[i].ref > 0 /\ c2[i].ref > 0 => c2[i].valid

\* The slot of a locked inode is in use.
LEMMA LockedUsed ==
  ASSUME Inv, NEW i \in Inum, lock[i] # None
  PROVE  ic[i].ref > 0 /\ ic[i].valid
  <1>1. PICK q \in Proc : lock[i] = q
    BY DEF Inv, Types
  <1>2. Holds(st[q]) = i /\ ic[i].valid
    BY <1>1 DEF Inv, Locked
  <1>3. ic[i].ref >= Own(st[q], i) /\ ic[i].ref \in Nat /\ Own(st[q], i) \in Nat
    BY CoverNow DEF Inv, Cover, Own, B
  <1> QED BY <1>2, <1>3, HoldsOwn

\* A step of a call that leaves the disk inodes, the files and the current
\* directories alone.
LEMMA CallMove ==
  ASSUME Inv, NEW p \in Proc, NEW t, LocalOK(t), Moves(p, t), UNCHANGED <<cur, file, ofile, cwd>>,
         lock' \in [Inum -> Proc \cup {None}], lost' \in [Inum -> Nat], Serves(ic, ic'),
         \A i \in Inum : lock'[i] = p <=> Holds(t) = i,
         \A i \in Inum : \A q \in Proc : q # p => (lock'[i] = q <=> lock[i] = q),
         \A i \in Inum : lock'[i] = p /\ ic'[i].ref > 0 => ic'[i].valid,
         \A i \in Inum : ic'[i].ref = ic[i].ref + lost'[i] - lost[i] + Own(t, i) - Own(st[p], i),
         Away(t) <=> Away(st[p]),
         \A i \in Inum : Owes(t) /\ t.ip = i <=> Owes(st[p]) /\ st[p].ip = i,
         Lab(st[p]) = "created" => Lab(t) = "created" /\ t.ip = st[p].ip,
         UseOK(cur, cwd[p], t)
  PROVE  Inv'
  <1> USE DEF Inv
  <1>1. Types'
    <2>1. st' \in [Proc -> Local] /\ \A q \in Proc : LocalOK(st'[q])
      BY MovesOne
    <2> QED BY <2>1 DEF Types, Serves
  <1>2. Refs'
    <2>1. \A i \in Inum : lost'[i] \in Int
      OBVIOUS
    <2>2. \A i \in Inum : ic[i].ref \in Int /\ lost[i] \in Int /\ Own(t, i) \in Int /\ Own(st[p], i) \in Int
      BY DEF Types, Slot, Own, B
    <2>3. \A i \in Inum : ic'[i].ref = ic[i].ref + lost'[i] - lost[i] + Own(t, i) - Own(st[p], i)
                                       + B(cwd'[p] = i) - B(cwd[p] = i)
      <3> SUFFICES ASSUME NEW i \in Inum
                   PROVE  ic'[i].ref = ic[i].ref + lost'[i] - lost[i] + Own(t, i) - Own(st[p], i)
                                       + B(cwd'[p] = i) - B(cwd[p] = i)
        OBVIOUS
      <3>1. B(cwd'[p] = i) = B(cwd[p] = i) /\ B(cwd[p] = i) \in Int
        BY DEF B
      <3> QED BY <2>1, <2>2, <3>1
    <2> QED BY <2>1, <2>3, RefsMove
  <1>3. Files' /\ Alive' /\ Coherent(ic, cur)'
    BY FilesSame, AliveMove DEF Serves
  <1>4. Locked'
    <2>1. \A i \in Inum : lock'[i] # None => ic'[i].valid
      <3> SUFFICES ASSUME NEW i \in Inum, lock'[i] # None PROVE (ic'[i].valid)
        OBVIOUS
      <3>1. PICK q \in Proc : lock'[i] = q
        OBVIOUS
      <3>2. Holds(st'[q]) = i
        <4>1. st'[p] = t /\ \A r \in Proc : r # p => st'[r] = st[r]
          BY MovesOne
        <4> QED BY <4>1, <3>1 DEF Locked
      <3>3. ic'[i].ref >= Own(st'[q], i) /\ ic'[i].ref \in Nat /\ Own(st'[q], i) \in Nat
        BY <1>1, <1>2, CoverNext DEF Cover, Own, B
      <3>4. Own(st'[q], i) >= 1
        BY <3>2, HoldsOwn
      <3>5. ic'[i].ref > 0
        BY <3>3, <3>4
      <3>6. CASE q = p
        BY <3>1, <3>5, <3>6
      <3>7. CASE q # p
        <4>1. lock[i] = q
          BY <3>1, <3>7
        <4>2. lock[i] # None
          BY <4>1, FSAssumption
        <4> QED BY <4>2, <3>5, LockedUsed DEF Serves
      <3> QED BY <3>6, <3>7
    <2> QED BY <2>1, LockedMove
  <1>5. InUse'
    <2>1. \A q \in Proc : q # p => UseOK(cur', cwd'[q], st[q])
      BY DEF InUse
    <2>2. \A f \in File : file'[f].ip # 0 => cur'[file'[f].ip].type # "none"
      BY DEF InUse
    <2>3. UseOK(cur', cwd'[p], t)
      OBVIOUS
    <2> QED BY <2>1, <2>2, <2>3, UseMove
  <1>6. Linked' /\ Targets'
    BY LinkedMove, TargetsMove
  <1> QED BY <1>1, <1>2, <1>3, <1>4, <1>5, <1>6

\* The same for a step that leaves the inode locks alone, too.
LEMMA CallKeep ==
  ASSUME Inv, NEW p \in Proc, NEW t, LocalOK(t), Moves(p, t), UNCHANGED <<cur, file, ofile, cwd, lock>>,
         lost' \in [Inum -> Nat], Serves(ic, ic'), Holds(t) = Holds(st[p]),
         \A i \in Inum : ic'[i].ref = ic[i].ref + lost'[i] - lost[i] + Own(t, i) - Own(st[p], i),
         Away(t) <=> Away(st[p]),
         \A i \in Inum : Owes(t) /\ t.ip = i <=> Owes(st[p]) /\ st[p].ip = i,
         Lab(st[p]) = "created" => Lab(t) = "created" /\ t.ip = st[p].ip,
         UseOK(cur, cwd[p], t)
  PROVE  Inv'
  <1>1. /\ lock' \in [Inum -> Proc \cup {None}]
        /\ \A i \in Inum : lock'[i] = p <=> Holds(t) = i
        /\ \A i \in Inum : \A q \in Proc : q # p => (lock'[i] = q <=> lock[i] = q)
    BY DEF Inv, Types, Locked
  <1>2. \A i \in Inum : lock'[i] = p /\ ic'[i].ref > 0 => ic'[i].valid
    <2> SUFFICES ASSUME NEW i \in Inum, lock'[i] = p, ic'[i].ref > 0 PROVE (ic'[i].valid)
      OBVIOUS
    <2>1. lock[i] # None
      BY FSAssumption
    <2> QED BY <2>1, LockedUsed DEF Serves
  <1> QED BY <1>1, <1>2, CallMove

-----------------------------------------------------------------------------
(* The inode cache.                                                        *)

LEMMA IgetServes ==
  ASSUME NEW c \in [Inum -> Slot], Coherent(c, cur), NEW i \in Inum, c[i].ref >= 0
  PROVE  /\ Serves(c, iget(c, i))
         /\ \A j \in Inum : iget(c, i)[j].ref = c[j].ref + B(j = i)
         /\ \A j \in Inum : j # i => iget(c, i)[j] = c[j]
         /\ iget(c, i)[i].valid => c[i].valid
  <1>1. CASE c[i].ref > 0
    <2>1. iget(c, i) = [c EXCEPT ![i].ref = @ + 1]
      BY <1>1 DEF iget
    <2>2. iget(c, i) \in [Inum -> Slot] /\ \A j \in Inum : j # i => iget(c, i)[j] = c[j]
      BY <2>1 DEF Slot
    <2>3. /\ iget(c, i)[i].ref = c[i].ref + 1 /\ iget(c, i)[i].valid = c[i].valid
          /\ iget(c, i)[i].type = c[i].type /\ iget(c, i)[i].nlink = c[i].nlink
      BY <2>1 DEF Slot
    <2>4. \A j \in Inum : c[j].ref \in Int
      BY DEF Slot
    <2> HIDE DEF iget
    <2> QED BY <2>2, <2>3, <2>4 DEF Serves, Coherent, B
  <1>2. CASE c[i].ref = 0
    <2>1. iget(c, i) = [c EXCEPT ![i] = [NotCached EXCEPT !.ref = 1]]
      BY <1>2 DEF iget
    <2> DEFINE new == [NotCached EXCEPT !.ref = 1]
    <2>2. NotCached \in Slot /\ NotCached.valid = FALSE
      BY DEF NotCached, Slot
    <2>3. new \in Slot /\ new.ref = 1 /\ new.valid = FALSE
      BY <2>2 DEF Slot
    <2> HIDE DEF new
    <2>4. /\ iget(c, i) \in [Inum -> Slot] /\ \A j \in Inum : j # i => iget(c, i)[j] = c[j]
          /\ iget(c, i)[i] = new
      BY <2>1, <2>3 DEF new
    <2>5. iget(c, i)[i].ref = 1 /\ iget(c, i)[i].valid = FALSE
      BY <2>4, <2>3
    <2>6. \A j \in Inum : c[j].ref \in Int
      BY DEF Slot
    <2> HIDE DEF iget
    <2> QED BY <2>4, <2>5, <2>6, <1>2 DEF Serves, Coherent, B
  <1>3. c[i].ref \in Int
    BY DEF Slot
  <1> QED BY <1>1, <1>2, <1>3

LEMMA IdupServes ==
  ASSUME NEW c \in [Inum -> Slot], Coherent(c, cur), NEW i \in Inum
  PROVE  /\ Serves(c, idup(c, i))
         /\ \A j \in Inum : idup(c, i)[j].ref = c[j].ref + B(j = i)
         /\ \A j \in Inum : /\ idup(c, i)[j].valid = c[j].valid /\ idup(c, i)[j].type = c[j].type
                            /\ idup(c, i)[j].nlink = c[j].nlink
  <1>1. idup(c, i) = [c EXCEPT ![i].ref = @ + 1]
    BY DEF idup
  <1>2. idup(c, i) \in [Inum -> Slot] /\ \A j \in Inum : j # i => idup(c, i)[j] = c[j]
    BY <1>1 DEF Slot
  <1>3. /\ idup(c, i)[i].ref = c[i].ref + 1 /\ idup(c, i)[i].valid = c[i].valid
        /\ idup(c, i)[i].type = c[i].type /\ idup(c, i)[i].nlink = c[i].nlink
    BY <1>1 DEF Slot
  <1>4. \A j \in Inum : c[j].ref \in Int
    BY DEF Slot
  <1> HIDE DEF idup
  <1> QED BY <1>2, <1>3, <1>4 DEF Serves, Coherent, B

\* ilock() reads the inode if the slot is not valid.
LEMMA LoadServes ==
  ASSUME Types, Coherent(ic, cur), NEW w \in Inum, ~NoType(w),
         NEW c, c = [ic EXCEPT ![w] = Loaded(w)]
  PROVE  /\ Serves(ic, c) /\ c \in [Inum -> Slot] /\ Coherent(c, cur) /\ c[w].valid
         /\ \A j \in Inum : c[j].ref = ic[j].ref
         /\ \A j \in Inum : j # w => c[j] = ic[j]
         /\ Loaded(w).type = cur[w].type /\ Loaded(w).nlink = cur[w].nlink /\ cur[w].type # "none"
  <1>1. /\ Loaded(w) \in Slot /\ Loaded(w).ref = ic[w].ref /\ Loaded(w).valid
        /\ Loaded(w).type = cur[w].type /\ Loaded(w).nlink = cur[w].nlink /\ cur[w].type # "none"
    <2>1. CASE ic[w].valid
      BY <2>1 DEF Loaded, Types, Coherent, Slot
    <2>2. CASE ~ic[w].valid
      BY <2>2 DEF Loaded, Types, Slot, Dinode, NoType
    <2> QED BY <2>1, <2>2
  <1>2. c \in [Inum -> Slot] /\ c[w] = Loaded(w) /\ \A j \in Inum : j # w => c[j] = ic[j]
    BY <1>1 DEF Types
  <1> QED BY <1>1, <1>2 DEF Serves, Coherent

LEMMA ServesTrans ==
  ASSUME NEW c, NEW d, NEW e, Serves(c, d), Serves(d, e), \A i \in Inum : d[i].ref = c[i].ref
  PROVE  Serves(c, e)
  BY DEF Serves

LEMMA WantsWhat ==
  ASSUME NEW p \in Proc
  PROVE  /\ st[p].pc \in {"create_old", "open", "chdir", "link_old", "link_bad", "unlink_ip", "load"}
              => Wants(p) = st[p].ip
         /\ st[p].pc \in {"namex", "create", "link_new", "unlink"} => Wants(p) = st[p].dp
  BY DEF Wants

\* What a process knows that has got past ilock() at label l.
LEMMA LocksWhat ==
  ASSUME Types, Coherent(ic, cur), NEW p \in Proc, NEW l, Locks(p, l), NEW w, w = Wants(p), w \in Inum
  PROVE  /\ st[p].pc = l /\ Lab(st[p]) = (IF l \in {"put", "drop"} THEN st[p].k ELSE l) /\ lock[w] = None
         /\ Serves(ic, Read(p)) /\ Read(p) \in [Inum -> Slot] /\ Coherent(Read(p), cur) /\ Read(p)[w].valid
         /\ \A j \in Inum : Read(p)[j].ref = ic[j].ref
         /\ \A j \in Inum : j # w => Read(p)[j] = ic[j]
         /\ Loaded(w).type = cur[w].type /\ Loaded(w).nlink = cur[w].nlink /\ cur[w].type # "none"
  <1>1. st[p].pc = l /\ lock[w] = None /\ ~NoType(w)
    BY DEF Locks, At
  <1>2. Read(p) = [ic EXCEPT ![w] = Loaded(w)]
    BY DEF Read
  <1> HIDE DEF Read
  <1>3. Lab(st[p]) = (IF l \in {"put", "drop"} THEN st[p].k ELSE l)
    BY <1>1 DEF Lab
  <1> QED BY <1>1, <1>2, <1>3, LoadServes, ZenonT(60)

-----------------------------------------------------------------------------
(* Calls and path walks.                                                   *)

LEMMA OwnPuts ==
  ASSUME NEW s, NEW i
  PROVE  /\ s.puts = <<>> => Own(s, i) = B(s.ip = i) + B(s.dp = i)
         /\ \A a : s.puts = <<a>> => Own(s, i) = B(s.ip = i) + B(s.dp = i) + B(a = i)
         /\ \A a, b : s.puts = <<a, b>>
                      => Own(s, i) = B(s.ip = i) + B(s.dp = i) + B(a = i) + B(b = i)
  <1>1. s.puts = <<>> => Own(s, i) = B(s.ip = i) + B(s.dp = i)
    BY DEF Own, PutAt, B
  <1>2. \A a : s.puts = <<a>> => Own(s, i) = B(s.ip = i) + B(s.dp = i) + B(a = i)
    BY DEF Own, PutAt, B
  <1>3. \A a, b : s.puts = <<a, b>> => Own(s, i) = B(s.ip = i) + B(s.dp = i) + B(a = i) + B(b = i)
    BY DEF Own, PutAt, B
  <1> QED BY <1>1, <1>2, <1>3

LEMMA PutsList ==
  ASSUME NEW q \in Seq(Inum), Len(q) \in 1..2
  PROVE  /\ Head(q) \in Inum /\ Tail(q) \in Seq(Inum) /\ Len(Tail(q)) = Len(q) - 1
         /\ Len(q) = 1 => q = <<Head(q)>> /\ Tail(q) = <<>>
         /\ Len(q) = 2 => \E b \in Inum : q = <<Head(q), b>> /\ Tail(q) = <<b>>
  <1>1. Head(q) = q[1] /\ q[1] \in Inum
    OBVIOUS
  <1>2. ASSUME Len(q) = 1 PROVE q = <<q[1]>> /\ Tail(q) = <<>>
    <2>1. q = <<q[1]>>
      BY <1>2
    <2>2. Tail(<<q[1]>>) = <<>>
      OBVIOUS
    <2> QED BY <2>1, <2>2
  <1>3. ASSUME Len(q) = 2 PROVE q = <<q[1], q[2]>> /\ Tail(q) = <<q[2]>> /\ q[2] \in Inum
    <2>1. q[2] \in Inum
      BY <1>3
    <2>2. q = <<q[1], q[2]>>
      BY <1>3
    <2>3. Tail(<<q[1], q[2]>>) = <<q[2]>>
      OBVIOUS
    <2> QED BY <2>1, <2>2, <2>3
  <1>4. Tail(q) \in Seq(Inum)
    OBVIOUS
  <1>5. Len(Tail(q)) = Len(q) - 1
    OBVIOUS
  <1> QED BY <1>1, <1>2, <1>3, <1>4, <1>5

LEMMA Start ==
  ASSUME Inv, NEW p \in Proc
  PROVE  /\ LocalOK(st[p]) /\ st[p] \in Local /\ UseOK(cur, cwd[p], st[p])
         /\ ic \in [Inum -> Slot] /\ Coherent(ic, cur) /\ \A i \in Inum : ic[i].ref \in Nat
         /\ lost \in [Inum -> Nat]
  BY RefsCover DEF Inv, Types, InUse

LEMMA DropInv ==
  ASSUME Inv, NEW p \in Proc, drop(p)
  PROVE  Inv'
  <1> DEFINE s == st[p]
             a == Head(s.puts)
             d == [ic EXCEPT ![a].ref = @ - 1]
             t == [s EXCEPT !.puts = Tail(@), !.pc = IF Len(s.puts) > 1 THEN "put" ELSE s.k]
  <1>1. /\ s.pc = "drop" /\ Moves(p, t) /\ UNCHANGED <<cur, file, ofile, cwd, lock, lost>>
        /\ ic' = IF d[a].ref = 0 THEN [d EXCEPT ![a] = NotCached] ELSE d
    BY DEF drop, At, Go, Moves, tables
  <1>2. /\ LocalOK(s) /\ s \in Local /\ UseOK(cur, cwd[p], s)
        /\ ic \in [Inum -> Slot] /\ Coherent(ic, cur) /\ \A i \in Inum : ic[i].ref \in Nat
    BY Start
  <1>3. s.k \in Labels \ Outside /\ s.puts \in Seq(Inum) /\ Len(s.puts) \in 1..2 /\ Lab(s) = s.k
    BY <1>1, <1>2 DEF LocalOK, PutsOK, Local, Lab
  <1> HIDE DEF s, a, d, t
  <1>4. /\ a \in Inum
        /\ \/ Len(s.puts) = 1 /\ s.puts = <<a>> /\ Tail(s.puts) = <<>>
           \/ Len(s.puts) = 2 /\ \E b \in Inum : s.puts = <<a, b>> /\ Tail(s.puts) = <<b>>
    BY <1>3, PutsList DEF a
  <1>5. Tail(s.puts) \in Seq(Inum) /\ Len(Tail(s.puts)) = Len(s.puts) - 1
    BY <1>3, PutsList
  <1>6. /\ t \in Local /\ SameWork(s, t) /\ t.k = s.k /\ t.puts = Tail(s.puts)
        /\ t.pc = (IF Len(s.puts) > 1 THEN "put" ELSE s.k)
    <2>1. s.k \in Labels \cup {"put", "drop"} /\ "put" \in Labels \cup {"put", "drop"}
      BY <1>3
    <2>2. t \in Local
      BY <1>2, <1>5, <2>1 DEF t, Local
    <2>3. SameWork(s, t) /\ t.k = s.k /\ t.puts = Tail(s.puts)
      BY <1>2 DEF t, Local, SameWork
    <2>4. t.pc = (IF Len(s.puts) > 1 THEN "put" ELSE s.k)
      BY <1>2 DEF t, Local
    <2> QED BY <2>2, <2>3, <2>4
  <1>7. Lab(t) = s.k
    <2>1. s.k \notin {"put", "drop"}
      BY <1>3 DEF Labels, Finals, OnNode, OnDir, OnBoth
    <2> QED BY <2>1, <1>6 DEF Lab
  <1>8. PutsOK(t)
    <2>1. CASE Len(s.puts) = 2
      BY <2>1, <1>3, <1>5, <1>6 DEF PutsOK
    <2>2. CASE Len(s.puts) = 1
      <3>1. t.puts = <<>>
        BY <2>2, <1>4, <1>6
      <3>2. t.pc = s.k /\ s.k \notin {"put", "drop"}
        BY <2>2, <1>3, <1>6 DEF Labels, Finals, OnNode, OnDir, OnBoth
      <3> QED BY <3>1, <3>2 DEF PutsOK
    <2> QED BY <1>3, <2>1, <2>2
  <1>9. LocalOK(t)
    <2>1. Nodes(t) /\ OpOK(t)
      BY <1>2, <1>3, <1>6, <1>7 DEF LocalOK, Nodes, OpOK, SameWork, Linking, WalkOp
    <2>2. PathOK(t) /\ Path2OK(t)
      BY <1>2, <1>3, <1>6, <1>7 DEF LocalOK, PathOK, Path2OK, SameWork
    <2> QED BY <1>6, <1>8, <2>1, <2>2 DEF LocalOK
  <1>10. /\ Holds(t) = Holds(s) /\ (Owes(t) <=> Owes(s)) /\ t.ip = s.ip
         /\ (Lab(s) = "created" => Lab(t) = "created")
    BY <1>3, <1>6, <1>7 DEF Holds, Owes, SameWork, Linking
  <1>11. Away(t) <=> Away(s)
    <2>1. t.pc # "dead" /\ s.pc # "dead"
      BY <1>1, <1>3, <1>6 DEF Outside
    <2> QED BY <2>1, <1>6 DEF Away, SameWork
  <1>12. ic'[a].ref = ic[a].ref - 1 /\ ic' \in [Inum -> Slot] /\ \A j \in Inum : j # a => ic'[j] = ic[j]
    <2>1. d \in [Inum -> Slot] /\ d[a].ref = ic[a].ref - 1 /\ \A j \in Inum : j # a => d[j] = ic[j]
      <3>1. a \in Inum
        BY <1>4
      <3> QED BY <1>2, <3>1 DEF d, Slot
    <2>2. NotCached \in Slot /\ NotCached.ref = 0
      BY DEF NotCached, Slot
    <2> QED BY <1>1, <2>1, <2>2, <1>4
  <1>13. ic'[a].ref # 0 => ic'[a].valid = ic[a].valid /\ ic'[a].type = ic[a].type /\ ic'[a].nlink = ic[a].nlink
    <2>1. /\ d[a].valid = ic[a].valid /\ d[a].type = ic[a].type /\ d[a].nlink = ic[a].nlink
      BY <1>2, <1>4 DEF d, Slot
    <2>2. NotCached.ref = 0
      BY DEF NotCached
    <2> QED BY <1>1, <1>2, <1>4, <2>1, <2>2
  <1>14. ic'[a].ref = 0 => ic'[a].valid = FALSE
    <2>1. d \in [Inum -> Slot] /\ NotCached \in Slot /\ NotCached.valid = FALSE
      <3>1. a \in Inum
        BY <1>4
      <3> QED BY <1>2, <3>1 DEF d, Slot, NotCached
    <2> QED BY <1>1, <2>1, <1>4
  <1>15. Serves(ic, ic')
    <2>1. Coherent(ic', cur)
      BY <1>2, <1>4, <1>12, <1>13, <1>14 DEF Coherent
    <2>2. \A i \in Inum : ic[i].valid /\ ic[i].ref > 0 /\ ic'[i].ref > 0 => ic'[i].valid
      BY <1>12, <1>13
    <2> QED BY <1>12, <2>1, <2>2 DEF Serves
  <1>16. \A i \in Inum : Own(t, i) = Own(s, i) - B(a = i)
    <2> SUFFICES ASSUME NEW i \in Inum PROVE Own(t, i) = Own(s, i) - B(a = i)
      OBVIOUS
    <2>1. /\ B(t.ip = i) = B(s.ip = i) /\ B(t.dp = i) = B(s.dp = i) /\ B(a = i) \in Int
          /\ B(s.ip = i) \in Int /\ B(s.dp = i) \in Int
      BY <1>6 DEF B, SameWork
    <2>2. CASE s.puts = <<a>> /\ Tail(s.puts) = <<>>
      <3>1. t.puts = <<>>
        BY <2>2, <1>6
      <3> QED BY <2>1, <2>2, <3>1, OwnPuts
    <2>3. CASE \E b \in Inum : s.puts = <<a, b>> /\ Tail(s.puts) = <<b>>
      <3>1. PICK b \in Inum : s.puts = <<a, b>> /\ Tail(s.puts) = <<b>>
        BY <2>3
      <3>2. t.puts = <<b>> /\ B(b = i) \in Int
        BY <3>1, <1>6 DEF B
      <3> QED BY <2>1, <3>1, <3>2, OwnPuts
    <2> QED BY <1>4, <2>2, <2>3
  <1>17. \A i \in Inum : ic'[i].ref = ic[i].ref + lost'[i] - lost[i] + Own(t, i) - Own(s, i)
    <2> SUFFICES ASSUME NEW i \in Inum
                 PROVE  ic'[i].ref = ic[i].ref + lost'[i] - lost[i] + Own(t, i) - Own(s, i)
      OBVIOUS
    <2>1. lost'[i] = lost[i] /\ lost[i] \in Int /\ Own(s, i) \in Int /\ Own(t, i) \in Int /\ ic[i].ref \in Int
      BY <1>1, <1>2, Start DEF Own, B
    <2>2. ic'[i].ref = ic[i].ref - B(a = i)
      BY <1>12, <2>1 DEF B
    <2>3. Own(t, i) = Own(s, i) - B(a = i) /\ B(a = i) \in Int
      BY <1>16 DEF B
    <2> QED BY <2>1, <2>2, <2>3
  <1>18. UseOK(cur, cwd[p], t)
    <2>1. \A j \in DOMAIN t.puts : cur[t.puts[j]].type # "none"
      <3>1. CASE s.puts = <<a>> /\ Tail(s.puts) = <<>>
        BY <3>1, <1>6
      <3>2. CASE \E b \in Inum : s.puts = <<a, b>> /\ Tail(s.puts) = <<b>>
        <4>1. PICK b \in Inum : s.puts = <<a, b>> /\ Tail(s.puts) = <<b>>
          BY <3>2
        <4>2. 2 \in DOMAIN <<a, b>> /\ <<a, b>>[2] = b /\ DOMAIN <<b>> = {1} /\ <<b>>[1] = b
          OBVIOUS
        <4>3. cur[b].type # "none"
          BY <4>1, <4>2, <1>2 DEF UseOK
        <4> QED BY <4>1, <4>2, <4>3, <1>6
      <3> QED BY <1>4, <3>1, <3>2
    <2>2. UseOK(cur, cwd[p], s) /\ SameWork(s, t) /\ Lab(t) = Lab(s) /\ (Owes(t) <=> Owes(s))
      BY <1>2, <1>3, <1>6, <1>7, <1>10
    <2> QED BY <2>1, <2>2 DEF UseOK, SameWork
  <1>19. /\ Moves(p, t) /\ UNCHANGED <<cur, file, ofile, cwd, lock>> /\ lost' \in [Inum -> Nat]
         /\ Holds(t) = Holds(st[p]) /\ (Away(t) <=> Away(st[p]))
         /\ (\A i \in Inum : Owes(t) /\ t.ip = i <=> Owes(st[p]) /\ st[p].ip = i)
         /\ (Lab(st[p]) = "created" => Lab(t) = "created" /\ t.ip = st[p].ip)
    <2>1. lost' \in [Inum -> Nat]
      BY <1>1, Start
    <2> QED BY <2>1, <1>1, <1>10, <1>11 DEF s
  <1>20. \A i \in Inum : ic'[i].ref = ic[i].ref + lost'[i] - lost[i] + Own(t, i) - Own(st[p], i)
    BY <1>17 DEF s
  <1> QED BY <1>9, <1>15, <1>18, <1>19, <1>20, CallKeep

LEMMA PcLocal ==
  ASSUME NEW s \in Local, NEW l \in Labels, NEW t, t = [s EXCEPT !.pc = l]
  PROVE  /\ t \in Local /\ SameWork(s, t) /\ t.pc = l /\ t.puts = s.puts /\ t.k = s.k /\ Lab(t) = l
  <1>1. t \in Local
    BY DEF Local
  <1>2. SameWork(s, t) /\ t.pc = l /\ t.puts = s.puts /\ t.k = s.k
    BY DEF Local, SameWork
  <1>3. l \notin {"put", "drop"}
    BY DEF Labels, Finals, OnNode, OnDir, OnBoth
  <1> QED BY <1>1, <1>2, <1>3 DEF Lab

\* A call between two of its labels, with nothing to put.
LEMMA AtLabel ==
  ASSUME Inv, NEW p \in Proc, NEW l, st[p].pc = l, l \in Labels
  PROVE  /\ Lab(st[p]) = l /\ st[p].puts = <<>>
         /\ \A i : Own(st[p], i) = B(st[p].ip = i) + B(st[p].dp = i)
  <1>1. l \notin {"put", "drop"}
    BY DEF Labels, Finals, OnNode, OnDir, OnBoth
  <1>2. st[p].puts = <<>> /\ Lab(st[p]) = l
    BY <1>1, Start DEF LocalOK, PutsOK, Lab
  <1> QED BY <1>2, OwnPuts

\* An inode that a call points to.
LEMMA Pointed ==
  ASSUME Inv, NEW p \in Proc
  PROVE  /\ \A i \in Inum : st[p].ip = i \/ st[p].dp = i \/ cwd[p] = i => ic[i].ref > 0
         /\ cwd[p] \in 0..NI /\ (~Away(st[p]) => cwd[p] \in Inum)
  <1>1. ASSUME NEW i \in Inum, st[p].ip = i \/ st[p].dp = i \/ cwd[p] = i PROVE ic[i].ref > 0
    <2>1. B(st[p].ip = i) + B(st[p].dp = i) + B(cwd[p] = i) >= 1
      BY <1>1 DEF B
    <2>2. Own(st[p], i) + B(cwd[p] = i) >= 1
      BY <2>1 DEF Own, B
    <2>3. /\ ic[i].ref \in Nat /\ ic[i].ref >= Own(st[p], i) + B(cwd[p] = i)
          /\ Own(st[p], i) \in Nat /\ B(cwd[p] = i) \in 0..1
      BY RefsCover DEF Inv
    <2> QED BY <2>2, <2>3
  <1>2. cwd[p] \in 0..NI /\ (~Away(st[p]) => cwd[p] \in Inum)
    BY DEF Inv, Types, Alive
  <1> QED BY <1>1, <1>2

LEMMA NamexParentInv ==
  ASSUME Inv, NEW p \in Proc, namex_parent(p)
  PROVE  Inv'
  <1> DEFINE s == st[p]
             l == Parent(s.op)
             t == [s EXCEPT !.pc = l]
  <1>1. /\ Locks(p, "namex") /\ s.np /\ Len(s.path) = 1 /\ Loaded(s.dp).type = "DIR"
        /\ ic' = Read(p) /\ Moves(p, t) /\ UNCHANGED <<cur, file, ofile, cwd, lock, lost>>
    BY DEF namex_parent, Go, Moves, tables
  <1>2. s.pc = "namex" /\ "namex" \in Labels
    BY <1>1 DEF Locks, At, Labels
  <1>3. /\ LocalOK(s) /\ s \in Local /\ UseOK(cur, cwd[p], s) /\ lost \in [Inum -> Nat]
        /\ Lab(s) = "namex" /\ s.puts = <<>>
    BY <1>2, Start, AtLabel
  <1>4. Wants(p) = s.dp /\ s.dp \in Inum
    BY <1>2, <1>3, WantsWhat DEF LocalOK, Nodes
  <1>5. /\ Serves(ic, ic') /\ (\A j \in Inum : ic'[j].ref = ic[j].ref) /\ cur[s.dp].type = "DIR"
    BY <1>1, <1>4, LocksWhat DEF Inv
  <1>6. \/ s.op \in Creates /\ l = "create"
        \/ s.op = "link" /\ l = "link_new"
        \/ s.op = "unlink" /\ l = "unlink"
    <2>1. s.op \in Creates \cup {"link", "unlink"}
      BY <1>1, <1>3 DEF LocalOK, OpOK, WalkOp
    <2> QED BY <2>1 DEF Parent, Creates
  <1> HIDE DEF s, l, t
  <1>7. /\ t \in Local /\ SameWork(s, t) /\ t.pc = l /\ t.puts = <<>> /\ Lab(t) = l
    <2>1. l \in Labels
      BY <1>6 DEF Labels, OnDir, OnBoth
    <2>2. t = [s EXCEPT !.pc = l]
      BY DEF t
    <2> QED BY <2>1, <2>2, <1>3, PcLocal
  <1>8. LocalOK(t)
    <2>1. Nodes(t) /\ OpOK(t) /\ PutsOK(t)
      BY <1>1, <1>3, <1>4, <1>6, <1>7 DEF LocalOK, Nodes, OpOK, SameWork, Linking, WalkOp, PutsOK,
         Labels, Finals, OnNode, OnDir, OnBoth, Creates
    <2>2. PathOK(t) /\ Path2OK(t)
      BY <1>1, <1>3, <1>4, <1>6, <1>7 DEF LocalOK, PathOK, Path2OK, SameWork, OnEntry, Creates
    <2> QED BY <1>7, <2>1, <2>2 DEF LocalOK
  <1>9. /\ Holds(t) = Holds(s) /\ (Owes(t) <=> Owes(s)) /\ t.ip = s.ip
    BY <1>1, <1>3, <1>6, <1>7 DEF Holds, Owes, SameWork, Linking, Creates
  <1>10. Away(t) <=> Away(s)
    BY <1>2, <1>6, <1>7 DEF Away, SameWork
  <1>11. UseOK(cur, cwd[p], t)
    <2>1. UseOK(cur, cwd[p], s) /\ SameWork(s, t) /\ (Owes(t) <=> Owes(s))
      BY <1>3, <1>7, <1>9
    <2> QED BY <2>1, <1>3, <1>5, <1>6, <1>7 DEF UseOK, SameWork
  <1>12. \A i \in Inum : ic'[i].ref = ic[i].ref + lost'[i] - lost[i] + Own(t, i) - Own(st[p], i)
    <2>1. \A i : Own(t, i) = Own(s, i)
      BY <1>3, <1>7 DEF Own, PutAt, SameWork
    <2>2. \A i \in Inum : Own(s, i) \in Int /\ ic[i].ref \in Int /\ lost[i] \in Int
      BY Start DEF Own, B
    <2> QED BY <2>1, <2>2, <1>1, <1>5 DEF s
  <1>13. /\ Moves(p, t) /\ UNCHANGED <<cur, file, ofile, cwd, lock>> /\ lost' \in [Inum -> Nat]
         /\ Holds(t) = Holds(st[p]) /\ (Away(t) <=> Away(st[p]))
         /\ (\A i \in Inum : Owes(t) /\ t.ip = i <=> Owes(st[p]) /\ st[p].ip = i)
         /\ (Lab(st[p]) = "created" => Lab(t) = "created" /\ t.ip = st[p].ip)
    <2>1. lost' \in [Inum -> Nat]
      BY <1>1, <1>3
    <2> QED BY <2>1, <1>1, <1>3, <1>9, <1>10 DEF s
  <1> QED BY <1>5, <1>8, <1>11, <1>12, <1>13, CallKeep

\* The entry of a directory or its parent.
LEMMA LookupRange ==
  ASSUME Types, NEW d \in Inum, NEW n \in Elem
  PROVE  dirlookup(d, n) \in 0..NI
  BY FSAssumption DEF dirlookup, Types, Dinode, Elem

LEMMA HeadPath ==
  ASSUME NEW x, IsPath(x)
  PROVE  Head(x) \in Elem /\ x \in Seq(Elem) /\ Len(x) \in Nat \ {0}
  BY DEF IsPath, Elem

LEMMA TailPath ==
  ASSUME NEW S, NEW x \in Seq(S), x # <<>>, Len(x) # 1
  PROVE  Tail(x) \in Seq(S) /\ Tail(x) # <<>>
  <1>1. Len(x) # 0 /\ Len(x) \in Nat
    OBVIOUS
  <1>2. Len(Tail(x)) = Len(x) - 1
    BY <1>1
  <1>3. \A n \in Nat : n # 1 => n - 1 # 0
    OBVIOUS
  <1>4. Len(Tail(x)) # 0
    BY <1>1, <1>2, <1>3, Zenon
  <1>5. Len(<<>>) = 0
    OBVIOUS
  <1>6. Tail(x) # <<>>
    BY <1>4, <1>5, Zenon
  <1> QED BY <1>1, <1>6

\* The directories with a name whose ".." is inode i.
Subdirs(fs, i) == {d \in Inum : fs[d].type = "DIR" /\ fs[d].parent = i /\ Names(fs, d) # {}}

LEMMA EntriesSplit ==
  ASSUME NEW fs, NEW i
  PROVE  /\ IsFiniteSet(Names(fs, i)) /\ IsFiniteSet(Subdirs(fs, i))
         /\ Cardinality(Names(fs, i)) \in Nat /\ Cardinality(Subdirs(fs, i)) \in Nat
         /\ Entries(fs, i) = Cardinality(Names(fs, i)) + Cardinality(Subdirs(fs, i))
         /\ Names(fs, i) # {} => Entries(fs, i) >= 1
  <1>1. IsFiniteSet(Inum)
    <2>1. NI \in Int /\ 1 \in Int
      BY FSAssumption
    <2> QED BY <2>1, FS_Interval DEF Inum
  <1>2. IsFiniteSet(Inum \X Name)
    BY <1>1, FSAssumption, FS_Product
  <1>3. IsFiniteSet(Names(fs, i)) /\ IsFiniteSet(Subdirs(fs, i))
    BY <1>1, <1>2, FS_Subset DEF Names, Subdirs
  <1>4. Cardinality(Names(fs, i)) \in Nat /\ Cardinality(Subdirs(fs, i)) \in Nat
    BY <1>3, FS_CardinalityType
  <1>5. Entries(fs, i) = Cardinality(Names(fs, i)) + Cardinality(Subdirs(fs, i))
    BY DEF Entries, Subdirs
  <1>6. Names(fs, i) # {} => Cardinality(Names(fs, i)) # 0
    BY <1>3, FS_EmptySet
  <1> QED BY <1>3, <1>4, <1>5, <1>6

LEMMA DueSplit ==
  ASSUME NEW i
  PROVE  /\ IsFiniteSet(Owing(i)) /\ Cardinality(Owing(i)) \in Nat
         /\ Due(i) = Entries(cur, i) + Cardinality(Owing(i)) /\ Entries(cur, i) \in Nat /\ Due(i) \in Nat
         /\ Due(i) >= Entries(cur, i)
         /\ \A p \in Proc : Owes(st[p]) /\ st[p].ip = i => Cardinality(Owing(i)) >= 1 /\ Due(i) >= 1
  <1>1. IsFiniteSet(Owing(i))
    BY FSAssumption, FS_Subset DEF Owing
  <1>2. Cardinality(Owing(i)) \in Nat
    BY <1>1, FS_CardinalityType
  <1>3. Due(i) = Entries(cur, i) + Cardinality(Owing(i))
    BY DEF Due
  <1>4. Entries(cur, i) \in Nat
    BY EntriesSplit
  <1>5. Owing(i) # {} => Cardinality(Owing(i)) # 0
    BY <1>1, FS_EmptySet
  <1>6. \A p \in Proc : Owes(st[p]) /\ st[p].ip = i => Owing(i) # {}
    BY DEF Owing
  <1> QED BY <1>1, <1>2, <1>3, <1>4, <1>5, <1>6

\* A name refers to an inode that is not free.
LEMMA TypedEntry ==
  ASSUME Inv, NEW d \in Inum, cur[d].type = "DIR", NEW n \in Elem, dirlookup(d, n) # 0
  PROVE  /\ dirlookup(d, n) \in Inum /\ cur[dirlookup(d, n)].type # "none"
         /\ n # ".." => /\ cur[d].ent[n] = dirlookup(d, n) /\ n \in Name
                        /\ <<d, n>> \in Names(cur, dirlookup(d, n)) /\ cur[dirlookup(d, n)].nlink >= 1
  <1> DEFINE i == dirlookup(d, n)
  <1>1. i \in Inum
    BY LookupRange DEF Inv, Inum
  <1>2. CASE n = ".."
    <2>1. i = Root
      BY <1>2 DEF dirlookup, Inv, Linked, DirsOK
    <2> QED BY <2>1, <1>1, <1>2 DEF Inv, Linked, DirsOK
  <1>3. CASE n # ".."
    <2>1. cur[d].ent[n] = i /\ n \in Name
      BY <1>3 DEF dirlookup, Elem
    <2>2. <<d, n>> \in Names(cur, i)
      BY <2>1 DEF Names
    <2>3. Entries(cur, i) >= 1
      BY <2>2, EntriesSplit
    <2>4. cur[i].nlink \in Int /\ cur[i].nlink >= Due(i)
      BY <1>1 DEF Inv, Linked, Types, Dinode
    <2>5. cur[i].nlink >= 1
      BY <2>3, <2>4, DueSplit
    <2>6. cur[i].type # "none"
      BY <1>1, <2>5 DEF Inv, Linked, DirsOK
    <2> QED BY <1>1, <2>1, <2>2, <2>5, <2>6
  <1> QED BY <1>2, <1>3

LEMMA NamexNextInv ==
  ASSUME Inv, NEW p \in Proc, namex_next(p)
  PROVE  Inv'
  <1> DEFINE s == st[p]
             next == dirlookup(s.dp, Head(s.path))
             c == Read(p)
             l == IF Len(s.path) = 1 THEN Node(s.op) ELSE "namex"
             u == IF Len(s.path) = 1 THEN [s EXCEPT !.path = <<>>, !.ip = next, !.dp = 0]
                                     ELSE [s EXCEPT !.path = Tail(s.path), !.dp = next]
             t == Put(u, <<s.dp>>, l)
  <1>1. /\ Locks(p, "namex") /\ Loaded(s.dp).type = "DIR" /\ next # 0 /\ ~(s.np /\ Len(s.path) = 1)
        /\ ic' = iget(c, next) /\ Moves(p, t) /\ UNCHANGED <<cur, file, ofile, cwd, lock, lost>>
    BY DEF namex_next, Go, Moves, tables
  <1>2. s.pc = "namex" /\ "namex" \in Labels
    BY <1>1 DEF Locks, At, Labels
  <1>3. /\ LocalOK(s) /\ s \in Local /\ UseOK(cur, cwd[p], s) /\ lost \in [Inum -> Nat]
        /\ Lab(s) = "namex" /\ s.puts = <<>> /\ Types
        /\ \A i : Own(s, i) = B(s.ip = i) + B(s.dp = i)
    BY <1>2, Start, AtLabel DEF Inv
  <1>4. Wants(p) = s.dp /\ s.dp \in Inum
    BY <1>2, <1>3, WantsWhat DEF LocalOK, Nodes
  <1>5. /\ Serves(ic, c) /\ c \in [Inum -> Slot] /\ Coherent(c, cur)
        /\ (\A j \in Inum : c[j].ref = ic[j].ref) /\ cur[s.dp].type = "DIR"
    BY <1>1, <1>4, LocksWhat DEF Inv
  <1>6. IsPath(s.path) /\ Head(s.path) \in Elem /\ s.path \in Seq(Elem) /\ s.path # <<>>
    BY <1>3, HeadPath DEF LocalOK, PathOK, IsPath
  <1>7. next \in Inum /\ cur[next].type # "none"
    <2> HIDE DEF s
    <2>1. next = dirlookup(s.dp, Head(s.path)) /\ next # 0
      BY <1>1
    <2>2. s.dp \in Inum /\ cur[s.dp].type = "DIR" /\ Head(s.path) \in Elem
      BY <1>4, <1>5, <1>6
    <2> HIDE DEF next
    <2> QED BY <2>1, <2>2, TypedEntry, Zenon
  <1>8. \/ /\ Len(s.path) = 1 /\ ~s.np /\ s.ip = 0
           /\ \/ s.op \in {"open", "opennoderef", "exec"} /\ l = "open"
              \/ s.op = "link" /\ l = "link_old"
              \/ s.op = "load" /\ l = "load"
              \/ s.op = "chdir" /\ l = "chdir"
        \/ Len(s.path) # 1 /\ l = "namex"
    <2>1. ~s.np => s.ip = 0 /\ s.op \in {"open", "opennoderef", "exec", "load", "chdir", "link"}
      BY <1>3 DEF LocalOK, Nodes, OpOK, WalkOp, Linking
    <2> QED BY <2>1, <1>1 DEF Node
  <1>9. \A j \in Inum : c[j].ref \in Nat
    BY <1>5, Start
  <1>10. /\ Serves(ic, ic') /\ \A j \in Inum : ic'[j].ref = ic[j].ref + B(j = next)
    BY <1>1, <1>5, <1>7, <1>9, IgetServes, ServesTrans
  <1> HIDE DEF s, next, c, l, t, u
  <1>11. /\ u \in Local /\ u.op = s.op /\ u.np = s.np /\ u.path2 = s.path2
         /\ Len(s.path) = 1 => u.ip = next /\ u.dp = 0
         /\ Len(s.path) # 1 => u.ip = s.ip /\ u.dp = next /\ u.path = Tail(s.path)
    <2>1. CASE Len(s.path) = 1
      <3>1. u = [s EXCEPT !.path = <<>>, !.ip = next, !.dp = 0]
        BY <2>1 DEF u
      <3>2. next \in 0..NI /\ 0 \in 0..NI /\ <<>> \in Seq(Elem)
        BY <1>7, FSAssumption DEF Inum
      <3>3. s \in Local
        BY <1>3
      <3>4. /\ u \in Local /\ u.op = s.op /\ u.np = s.np /\ u.path2 = s.path2
            /\ u.ip = next /\ u.dp = 0
        BY <3>1, <3>2, <3>3 DEF Local
      <3> QED BY <2>1, <3>4
    <2>2. CASE Len(s.path) # 1
      <3>1. u = [s EXCEPT !.path = Tail(s.path), !.dp = next]
        BY <2>2 DEF u
      <3>2. next \in 0..NI /\ Tail(s.path) \in Seq(Elem)
        BY <2>2, <1>6, <1>7, FSAssumption, TailPath DEF Inum
      <3>3. s \in Local
        BY <1>3
      <3>4. /\ u \in Local /\ u.op = s.op /\ u.np = s.np /\ u.path2 = s.path2
            /\ u.ip = s.ip /\ u.dp = next /\ u.path = Tail(s.path)
        BY <3>1, <3>2, <3>3 DEF Local
      <3> QED BY <2>2, <3>4
    <2> QED BY <2>1, <2>2
  <1>12. <<s.dp>> \in Seq(Inum) /\ Len(<<s.dp>>) = 1 /\ l \in Labels \ Outside
    BY <1>4, <1>8 DEF Labels, OnNode, Outside
  <1>13. /\ t \in Local /\ SameWork(u, t) /\ t.pc = "put" /\ t.puts = <<s.dp>> /\ t.k = l /\ Lab(t) = l
    <2>1. l \in Labels
      BY <1>12
    <2>2. t = Put(u, <<s.dp>>, l)
      BY DEF t
    <2>3. u \in Local /\ <<s.dp>> \in Seq(Inum)
      BY <1>11, <1>12
    <2> QED BY <2>1, <2>2, <2>3 DEF Put, Local, SameWork, Lab
  <1>14. LocalOK(t)
    <2>1. Nodes(t) /\ OpOK(t)
      BY <1>1, <1>3, <1>7, <1>8, <1>11, <1>13 DEF LocalOK, Nodes, OpOK, SameWork, Linking, WalkOp,
         Labels, Finals, OnNode, OnDir, OnBoth, Creates
    <2>2. PathOK(t)
      <3>1. CASE Len(s.path) = 1
        BY <3>1, <1>8, <1>13 DEF PathOK, OnEntry
      <3>2. CASE Len(s.path) # 1
        <4>1. Tail(s.path) \in Seq(Elem) /\ Tail(s.path) # <<>>
          BY <3>2, <1>6, TailPath
        <4>2. IsNames(s.path) => IsNames(Tail(s.path))
          BY <3>2, TailPath DEF IsNames
        <4>3. IsPath(t.path) /\ Lab(t) = "namex" /\ t.op = s.op /\ t.np = s.np /\ t.path = Tail(s.path)
          BY <3>2, <4>1, <1>8, <1>11, <1>13 DEF SameWork, IsPath, Elem
        <4>4. s.op # "mkdir"
          BY <3>2, <1>3 DEF LocalOK, PathOK
        <4> QED BY <4>2, <4>3, <4>4, <1>3 DEF LocalOK, PathOK, OnEntry
      <3> QED BY <3>1, <3>2
    <2>3. Path2OK(t)
      BY <1>3, <1>8, <1>11, <1>13 DEF LocalOK, Path2OK, SameWork
    <2>4. PutsOK(t)
      BY <1>12, <1>13 DEF PutsOK
    <2> QED BY <1>13, <2>1, <2>2, <2>3, <2>4 DEF LocalOK
  <1>15. /\ Holds(t) = Holds(s)
         /\ (Owes(t) <=> Owes(s)) /\ (Owes(s) => t.ip = s.ip)
    BY <1>1, <1>3, <1>8, <1>11, <1>13 DEF Holds, Owes, SameWork, Linking
  <1>16. Away(t) <=> Away(s)
    BY <1>2, <1>11, <1>13 DEF Away, SameWork
  <1>17. UseOK(cur, cwd[p], t)
    <2>1. cwd[p] # 0 => cur[cwd[p]].type = "DIR"
      BY <1>3 DEF UseOK
    <2>2. /\ t.ip # 0 => cur[t.ip].type # "none"
          /\ t.dp # 0 => cur[t.dp].type # "none"
      BY <1>3, <1>7, <1>11, <1>13 DEF UseOK, SameWork
    <2>3. \A j \in DOMAIN t.puts : cur[t.puts[j]].type # "none"
      BY <1>5, <1>13
    <2>4. Lab(t) \notin OnEntry /\ Lab(t) # "unlink_ip" /\ Lab(t) # "created"
      BY <1>8, <1>13 DEF OnEntry
    <2>5. Owes(t) /\ Lab(t) # "unlink_dec" => cur[t.ip].type # "DIR"
      BY <1>3, <1>15 DEF UseOK
    <2> QED BY <2>1, <2>2, <2>3, <2>4, <2>5 DEF UseOK
  <1>18. \A i \in Inum : ic'[i].ref = ic[i].ref + lost'[i] - lost[i] + Own(t, i) - Own(s, i)
    <2> SUFFICES ASSUME NEW i \in Inum
                 PROVE  ic'[i].ref = ic[i].ref + lost'[i] - lost[i] + Own(t, i) - Own(s, i)
      OBVIOUS
    <2>1. ic'[i].ref = ic[i].ref + B(i = next) /\ ic[i].ref \in Int /\ lost[i] \in Int /\ lost'[i] = lost[i]
      BY <1>1, <1>10, Start
    <2>2. Own(s, i) = B(s.ip = i) + B(s.dp = i) /\ Own(t, i) = B(t.ip = i) + B(t.dp = i) + B(s.dp = i)
      BY <1>3, <1>13, OwnPuts
    <2>3. i # 0
      BY DEF Inum
    <2>4. B(t.ip = i) + B(t.dp = i) = B(s.ip = i) + B(i = next)
      BY <2>3, <1>8, <1>11, <1>13 DEF B, SameWork
    <2>5. B(t.ip = i) \in Int /\ B(t.dp = i) \in Int /\ B(s.ip = i) \in Int /\ B(s.dp = i) \in Int /\ B(i = next) \in Int
      BY DEF B
    <2> QED BY <2>1, <2>2, <2>4, <2>5
  <1>19. /\ Moves(p, t) /\ UNCHANGED <<cur, file, ofile, cwd, lock>> /\ lost' \in [Inum -> Nat]
         /\ Holds(t) = Holds(st[p]) /\ (Away(t) <=> Away(st[p]))
         /\ (\A i \in Inum : Owes(t) /\ t.ip = i <=> Owes(st[p]) /\ st[p].ip = i)
         /\ (Lab(st[p]) = "created" => Lab(t) = "created" /\ t.ip = st[p].ip)
    <2>1. lost' \in [Inum -> Nat]
      BY <1>1, <1>3
    <2> QED BY <2>1, <1>1, <1>3, <1>15, <1>16 DEF s
  <1>20. \A i \in Inum : ic'[i].ref = ic[i].ref + lost'[i] - lost[i] + Own(t, i) - Own(st[p], i)
    BY <1>18 DEF s
  <1> QED BY <1>10, <1>14, <1>17, <1>19, <1>20, CallKeep

-----------------------------------------------------------------------------
(* Steps that change the locals of a call and the slots only.              *)

\* The locals change, and with them neither the lock nor the link the call has.
Quiet(s, t) ==
  /\ LocalOK(t) /\ Holds(t) = Holds(s) /\ (Away(t) <=> Away(s))
  /\ \A i \in Inum : Owes(t) /\ t.ip = i <=> Owes(s) /\ s.ip = i
  /\ Lab(s) = "created" => Lab(t) = "created" /\ t.ip = s.ip

LEMMA Keep ==
  ASSUME Inv, NEW p \in Proc, NEW s, s = st[p], NEW t, Quiet(s, t), Moves(p, t),
         UNCHANGED <<cur, file, ofile, cwd, lock>>, lost' \in [Inum -> Nat], Serves(ic, ic'),
         \A i \in Inum : ic'[i].ref = ic[i].ref + lost'[i] - lost[i] + Own(t, i) - Own(s, i),
         UseOK(cur, cwd[p], t)
  PROVE  Inv'
  <1>1. /\ LocalOK(t) /\ Holds(t) = Holds(st[p]) /\ (Away(t) <=> Away(st[p]))
        /\ \A i \in Inum : Owes(t) /\ t.ip = i <=> Owes(st[p]) /\ st[p].ip = i
        /\ Lab(st[p]) = "created" => Lab(t) = "created" /\ t.ip = st[p].ip
    BY DEF Quiet
  <1>2. \A i \in Inum : ic'[i].ref = ic[i].ref + lost'[i] - lost[i] + Own(t, i) - Own(st[p], i)
    OBVIOUS
  <1> QED BY <1>1, <1>2, CallKeep

\* A call between two of its labels.
Resting(p, s, l) ==
  /\ s = st[p] /\ s.pc = l /\ Lab(s) = l /\ l \in Labels /\ s.puts = <<>>
  /\ s \in Local /\ LocalOK(s) /\ UseOK(cur, cwd[p], s)
  /\ \A i \in Inum : Own(s, i) = B(s.ip = i) + B(s.dp = i)
  /\ \A i \in Inum : s.ip = i \/ s.dp = i \/ cwd[p] = i => ic[i].ref > 0
  /\ (s.op = "gone" => l = "end") /\ (s.op # "gone" /\ l # "dead" => cwd[p] \in Inum)
  /\ ic \in [Inum -> Slot] /\ Coherent(ic, cur) /\ lost \in [Inum -> Nat]
  /\ \A i \in Inum : ic[i].ref \in Nat

LEMMA Rest ==
  ASSUME Inv, NEW p \in Proc, NEW s, s = st[p], NEW l \in Labels, s.pc = l
  PROVE  Resting(p, s, l)
  <1>1. /\ LocalOK(s) /\ s \in Local /\ UseOK(cur, cwd[p], s) /\ lost \in [Inum -> Nat]
        /\ ic \in [Inum -> Slot] /\ Coherent(ic, cur) /\ \A i \in Inum : ic[i].ref \in Nat
    BY Start
  <1>2. Lab(s) = l /\ s.puts = <<>> /\ \A i : Own(s, i) = B(s.ip = i) + B(s.dp = i)
    BY AtLabel
  <1>3. /\ \A i \in Inum : s.ip = i \/ s.dp = i \/ cwd[p] = i => ic[i].ref > 0
        /\ (~Away(s) => cwd[p] \in Inum)
    BY Pointed
  <1>4. (s.op = "gone" => l = "end") /\ (s.op # "gone" /\ l # "dead" => cwd[p] \in Inum)
    BY <1>1, <1>2, <1>3 DEF Away, LocalOK, OpOK
  <1> QED BY <1>1, <1>2, <1>3, <1>4 DEF Resting

\* A call that has got the lock of the inode it wants.
Inside(p, w) ==
  /\ w \in Inum /\ w = Wants(p) /\ lock[w] = None
  /\ Serves(ic, Read(p)) /\ Read(p) \in [Inum -> Slot] /\ Coherent(Read(p), cur) /\ Read(p)[w].valid
  /\ \A j \in Inum : Read(p)[j].ref = ic[j].ref
  /\ \A j \in Inum : j # w => Read(p)[j] = ic[j]
  /\ Loaded(w).type = cur[w].type /\ Loaded(w).nlink = cur[w].nlink /\ cur[w].type # "none"

LEMMA Enter ==
  ASSUME Inv, NEW p \in Proc, NEW s, s = st[p], NEW l \in OnNode \cup OnDir \cup OnBoth \cup {"namex"},
         Locks(p, l)
  PROVE  /\ Resting(p, s, l)
         /\ l \in {"create_old", "open", "chdir", "link_old", "link_bad", "unlink_ip", "load"}
            => Wants(p) = s.ip /\ Inside(p, s.ip)
         /\ l \in {"namex", "create", "link_new", "unlink"} => Wants(p) = s.dp /\ Inside(p, s.dp)
  <1>1. s.pc = l /\ l \in Labels
    BY DEF Locks, At, Labels
  <1>2. Resting(p, s, l)
    BY <1>1, Rest
  <1>3. /\ l \in {"create_old", "open", "chdir", "link_old", "link_bad", "unlink_ip", "load"}
           => Wants(p) = s.ip /\ Wants(p) \in Inum
        /\ l \in {"namex", "create", "link_new", "unlink"} => Wants(p) = s.dp /\ Wants(p) \in Inum
    BY <1>1, <1>2, WantsWhat DEF Resting, LocalOK, Nodes, OnNode, OnDir, OnBoth
  <1>4. ASSUME NEW w, w = Wants(p), w \in Inum PROVE Inside(p, w)
    BY <1>4, LocksWhat DEF Inside, Inv
  <1> QED BY <1>2, <1>3, <1>4

\* A call that has one inode to put, and then ends.
Ending(t, a) ==
  /\ LocalOK(t) /\ t.pc = "put" /\ t.puts = <<a>> /\ t.ip = 0 /\ t.dp = 0
  /\ Lab(t) = "end" /\ Holds(t) = 0 /\ ~Owes(t) /\ ~Away(t)
  /\ \A i \in Inum : Own(t, i) = B(a = i)

LEMMA FinishOne ==
  ASSUME NEW a \in Inum, NEW t, t = Finish(<<a>>)
  PROVE  /\ Ending(t, a)
         /\ \A fs, w : (w # 0 => fs[w].type = "DIR") /\ fs[a].type # "none" => UseOK(fs, w, t)
  <1>1. /\ t \in Local /\ t.op = "none" /\ t.ip = 0 /\ t.dp = 0 /\ t.np = FALSE
        /\ t.pc = "put" /\ t.puts = <<a>> /\ t.k = "end" /\ Lab(t) = "end" /\ LocalOK(t)
    <2>1. PICK q : q = <<a>>
      OBVIOUS
    <2>2. q \in Seq(Inum) /\ Len(q) \in 1..2 /\ t = Finish(q)
      BY <2>1
    <2>3. /\ t \in Local /\ SameWork(Idle, t)
          /\ t.pc = "put" /\ t.puts = q /\ t.k = "end" /\ Lab(t) = "end" /\ LocalOK(t)
      BY <2>2, FinishLocal
    <2> QED BY <2>1, <2>3, IdleLocal DEF SameWork
  <1>2. Holds(t) = 0 /\ ~Owes(t) /\ ~Away(t)
    BY <1>1 DEF Holds, Owes, Away
  <1>3. \A i \in Inum : Own(t, i) = B(a = i)
    BY <1>1, OwnPuts DEF B, Inum
  <1>4. \A fs, w : (w # 0 => fs[w].type = "DIR") /\ fs[a].type # "none" => UseOK(fs, w, t)
    BY <1>1, <1>2 DEF UseOK, OnEntry
  <1> QED BY <1>1, <1>2, <1>3, <1>4 DEF Ending

\* Such a call had this inode only, no lock and no link.
LEMMA FinishInv ==
  ASSUME Inv, NEW p \in Proc, NEW s, s = st[p], NEW l \in Labels \ Outside, Resting(p, s, l), l # "end",
         NEW a \in Inum, cur[a].type # "none", \A i \in Inum : Own(s, i) = B(a = i),
         Holds(s) = 0, ~Owes(s), l # "created", NEW t, t = Finish(<<a>>), Moves(p, t),
         Serves(ic, ic'), \A i \in Inum : ic'[i].ref = ic[i].ref,
         UNCHANGED <<cur, file, ofile, cwd, lock, lost>>
  PROVE  Inv'
  <1>1. Ending(t, a)
    BY FinishOne
  <1>2. UseOK(cur, cwd[p], t)
    <2>1. cwd[p] # 0 => cur[cwd[p]].type = "DIR"
      BY DEF Resting, UseOK
    <2> QED BY <2>1, FinishOne
  <1>3. Quiet(s, t)
    BY <1>1, Zenon DEF Quiet, Ending, Resting, Away, Outside
  <1>4. \A i \in Inum : ic'[i].ref = ic[i].ref + lost'[i] - lost[i] + Own(t, i) - Own(s, i)
    BY <1>1 DEF Ending, Resting, B
  <1>5. lost' \in [Inum -> Nat]
    BY DEF Resting
  <1> QED BY <1>2, <1>3, <1>4, <1>5, Keep

\* A call with one inode to put.
Putting(t, u, a, k) ==
  /\ t \in Local /\ t.op = u.op /\ t.path = u.path /\ t.path2 = u.path2 /\ t.np = u.np
  /\ t.ip = u.ip /\ t.dp = u.dp /\ t.pc = "put" /\ t.puts = <<a>> /\ t.k = k /\ Lab(t) = k /\ PutsOK(t)
  /\ \A i \in Inum : Own(t, i) = B(u.ip = i) + B(u.dp = i) + B(a = i)

LEMMA PutOne ==
  ASSUME NEW u \in Local, NEW a \in Inum, NEW k \in Labels \ Outside
  PROVE  Putting(Put(u, <<a>>, k), u, a, k)
  <1>1. PICK t : t = Put(u, <<a>>, k)
    OBVIOUS
  <1>2. <<a>> \in Seq(Inum) /\ Len(<<a>>) \in 1..2
    OBVIOUS
  <1>3. /\ t \in Local /\ t.op = u.op /\ t.path = u.path /\ t.path2 = u.path2 /\ t.np = u.np
        /\ t.ip = u.ip /\ t.dp = u.dp /\ t.pc = "put" /\ t.puts = <<a>> /\ t.k = k
    BY <1>1, <1>2 DEF Put, Local
  <1>4. Lab(t) = k /\ PutsOK(t)
    BY <1>2, <1>3 DEF Lab, PutsOK
  <1>5. \A i \in Inum : Own(t, i) = B(u.ip = i) + B(u.dp = i) + B(a = i)
    BY <1>3, OwnPuts
  <1> QED BY <1>1, <1>3, <1>4, <1>5 DEF Putting

LEMMA LoadInv ==
  ASSUME Inv, NEW p \in Proc, load(p)
  PROVE  Inv'
  <1>0. PICK s : s = st[p]
    OBVIOUS
  <1>1. PICK t : t = Finish(<<s.ip>>)
    OBVIOUS
  <1>2. /\ Locks(p, "load") /\ ic' = Read(p) /\ Moves(p, t)
        /\ UNCHANGED <<cur, file, ofile, cwd, lock, lost>>
    BY <1>0, <1>1 DEF load, Go, Moves, tables
  <1>3. Resting(p, s, "load") /\ Inside(p, s.ip)
    BY <1>0, <1>2, Enter DEF OnNode
  <1>4. s.ip \in Inum /\ s.dp = 0 /\ cur[s.ip].type # "none" /\ "load" \in Labels \ Outside
    BY <1>3 DEF Resting, Inside, LocalOK, Nodes, OnNode, Outside
  <1>5. \A i \in Inum : Own(s, i) = B(s.ip = i)
    BY <1>3, <1>4 DEF Resting, B, Inum
  <1>6. Holds(s) = 0 /\ ~Owes(s)
    BY <1>3 DEF Resting, Holds, Owes
  <1>7. Serves(ic, ic') /\ \A i \in Inum : ic'[i].ref = ic[i].ref
    BY <1>2, <1>3 DEF Inside
  <1> QED BY <1>0, <1>1, <1>2, <1>3, <1>4, <1>5, <1>6, <1>7, FinishInv

LEMMA NamexFailInv ==
  ASSUME Inv, NEW p \in Proc, namex_fail(p)
  PROVE  Inv'
  <1>0. PICK s : s = st[p]
    OBVIOUS
  <1>2. /\ Locks(p, "namex") /\ ic' = Read(p) /\ UNCHANGED <<cur, file, ofile, cwd, lock, lost>>
        /\ Moves(p, IF s.op = "link" /\ s.np THEN Put([Idle EXCEPT !.ip = s.ip], <<s.dp>>, "link_bad")
                                             ELSE Finish(<<s.dp>>))
    BY <1>0 DEF namex_fail, Go, Moves, tables
  <1>3. Resting(p, s, "namex") /\ Inside(p, s.dp)
    BY <1>0, <1>2, Enter
  <1>4. s.dp \in Inum /\ cur[s.dp].type # "none" /\ "namex" \in Labels \ Outside
    BY <1>3 DEF Resting, Inside, Outside
  <1>5. Serves(ic, ic') /\ \A i \in Inum : ic'[i].ref = ic[i].ref
    BY <1>2, <1>3 DEF Inside
  <1>6. Holds(s) = 0
    BY <1>3 DEF Resting, Holds
  <1>7. CASE ~(s.op = "link" /\ s.np)
    <2>1. PICK t : t = Finish(<<s.dp>>)
      OBVIOUS
    <2>2. Moves(p, t)
      BY <1>2, <1>7, <2>1
    <2>3. s.ip = 0 /\ ~Owes(s)
      BY <1>3, <1>7 DEF Resting, LocalOK, Nodes, Linking, Owes
    <2>4. \A i \in Inum : Own(s, i) = B(s.dp = i)
      BY <1>3, <2>3 DEF Resting, B, Inum
    <2> QED BY <1>0, <1>2, <1>3, <1>4, <1>5, <1>6, <2>1, <2>2, <2>3, <2>4, FinishInv
  <1>8. CASE s.op = "link" /\ s.np
    <2>1. PICK t : t = Put([Idle EXCEPT !.ip = s.ip], <<s.dp>>, "link_bad")
      OBVIOUS
    <2>2. Moves(p, t)
      BY <1>2, <1>8, <2>1
    <2>3. s.ip \in Inum /\ Owes(s) /\ cur[s.ip].type # "DIR" /\ cur[s.ip].type # "none"
      BY <1>3, <1>8 DEF Resting, LocalOK, Nodes, Linking, Owes, UseOK, Inum
    <2>4. PICK u : u = [Idle EXCEPT !.ip = s.ip]
      OBVIOUS
    <2>5. u \in Local /\ u.op = "none" /\ u.np = FALSE /\ u.ip = s.ip /\ u.dp = 0
      BY <2>3, <2>4, IdleLocal DEF Local, Inum
    <2>6. "link_bad" \in Labels \ Outside
      BY DEF Labels, OnNode, Outside
    <2>7. Putting(t, u, s.dp, "link_bad")
      BY <1>4, <2>1, <2>4, <2>5, <2>6, PutOne
    <2>8. Quiet(s, t)
      <3>1. LocalOK(t)
        BY <2>3, <2>5, <2>6, <2>7 DEF Putting, LocalOK, Nodes, OpOK, PathOK, Path2OK, Outside,
           Finals, OnNode, OnDir, OnBoth, OnEntry
      <3> QED BY <3>1, <1>3, <1>6, <2>3, <2>5, <2>7 DEF Putting, Quiet, Holds, Owes, Away, Resting, Outside
    <2>9. \A i \in Inum : Own(t, i) = Own(s, i)
      BY <2>5, <2>7, <1>3 DEF Putting, Resting, B, Inum
    <2>10. UseOK(cur, cwd[p], t)
      BY <2>3, <2>5, <2>7, <1>3, <1>4 DEF Putting, UseOK, Resting, OnEntry
    <2>11. lost' \in [Inum -> Nat]
      BY <1>2, <1>3 DEF Resting
    <2>12. \A i \in Inum : ic'[i].ref = ic[i].ref + lost'[i] - lost[i] + Own(t, i) - Own(s, i)
      BY <1>2, <1>3, <1>5, <2>9 DEF Resting, B
    <2> QED BY <1>0, <1>2, <1>5, <2>2, <2>8, <2>10, <2>11, <2>12, Keep
  <1> QED BY <1>7, <1>8

LEMMA CreateExistsInv ==
  ASSUME Inv, NEW p \in Proc, create_exists(p)
  PROVE  Inv'
  <1>0. PICK s : s = st[p]
    OBVIOUS
  <1>1. PICK next : next = dirlookup(s.dp, Head(s.path))
    OBVIOUS
  <1>2. PICK t : t = Put([Idle EXCEPT !.ip = next, !.op = s.op], <<s.dp>>, "create_old")
    OBVIOUS
  <1>3. /\ Locks(p, "create") /\ next # 0 /\ ic' = iget(Read(p), next) /\ Moves(p, t)
        /\ UNCHANGED <<cur, file, ofile, cwd, lock, lost>>
    BY <1>0, <1>1, <1>2 DEF create_exists, Go, Moves, tables
  <1>4. Resting(p, s, "create") /\ Inside(p, s.dp)
    BY <1>0, <1>3, Enter DEF OnDir
  <1>5. s.dp \in Inum /\ s.ip = 0 /\ s.op \in Creates /\ cur[s.dp].type = "DIR" /\ Head(s.path) \in Elem
    <2>1. IsPath(s.path)
      BY <1>4 DEF Resting, LocalOK, PathOK, OnEntry
    <2>2. Head(s.path) \in Elem
      BY <2>1, HeadPath
    <2> QED BY <1>4, <2>2 DEF Resting, LocalOK, Nodes, OpOK, UseOK, OnDir, OnEntry
  <1>6. next \in Inum /\ cur[next].type # "none"
    BY <1>1, <1>3, <1>5, TypedEntry
  <1>7. Serves(ic, ic') /\ \A j \in Inum : ic'[j].ref = ic[j].ref + B(j = next)
    <2>1. /\ Read(p) \in [Inum -> Slot] /\ Coherent(Read(p), cur) /\ Read(p)[next].ref >= 0
          /\ Serves(ic, Read(p)) /\ \A j \in Inum : Read(p)[j].ref = ic[j].ref
      BY <1>4, <1>6 DEF Inside, Resting
    <2> QED BY <1>3, <1>6, <2>1, IgetServes, ServesTrans
  <1>8. /\ t.op = s.op /\ t.np = FALSE /\ t.ip = next /\ t.dp = 0
        /\ Putting(t, t, s.dp, "create_old")
    <2>1. PICK u : u = [Idle EXCEPT !.ip = next, !.op = s.op]
      OBVIOUS
    <2>2. s.op \in Ops /\ next \in 0..NI
      BY <1>4, <1>6 DEF Local, Inum, Resting
    <2>3. u \in Local /\ u.op = s.op /\ u.np = FALSE /\ u.ip = next /\ u.dp = 0
      BY <2>2, <2>1, IdleLocal DEF Local
    <2>4. "create_old" \in Labels \ Outside
      BY DEF Labels, OnNode, Outside
    <2>5. Putting(t, u, s.dp, "create_old")
      BY <1>2, <1>5, <2>1, <2>3, <2>4, PutOne
    <2> QED BY <2>3, <2>5 DEF Putting
  <1>9. Quiet(s, t)
    <2>1. LocalOK(t)
      BY <1>5, <1>6, <1>8 DEF Putting, LocalOK, Nodes, OpOK, PathOK, Path2OK, Labels, Finals,
         OnNode, OnDir, OnBoth, OnEntry, Creates
    <2> QED BY <2>1, <1>4, <1>5, <1>8 DEF Putting, Quiet, Holds, Owes, Away, Resting, Creates
  <1>10. \A i \in Inum : Own(t, i) = Own(s, i) + B(i = next)
    BY <1>4, <1>5, <1>8 DEF Putting, Resting, B, Inum
  <1>11. UseOK(cur, cwd[p], t)
    BY <1>4, <1>5, <1>6, <1>8 DEF Putting, UseOK, Resting, OnEntry, Owes
  <1>12. \A i \in Inum : ic'[i].ref = ic[i].ref + lost'[i] - lost[i] + Own(t, i) - Own(s, i)
    BY <1>3, <1>4, <1>7, <1>10 DEF Resting, B
  <1>13. lost' \in [Inum -> Nat]
    BY <1>3, <1>4 DEF Resting
  <1> QED BY <1>0, <1>3, <1>7, <1>9, <1>11, <1>12, <1>13, Keep

-----------------------------------------------------------------------------
(* Steps that take or give back the lock of an inode.                      *)

Calm(s, t) ==
  /\ LocalOK(t) /\ (Away(t) <=> Away(s))
  /\ \A i \in Inum : Owes(t) /\ t.ip = i <=> Owes(s) /\ s.ip = i
  /\ Lab(s) # "created"

Relocked(p, t) ==
  /\ lock' \in [Inum -> Proc \cup {None}]
  /\ \A i \in Inum : lock'[i] = p <=> Holds(t) = i
  /\ \A i \in Inum : \A q \in Proc : q # p => (lock'[i] = q <=> lock[i] = q)

LEMMA Move ==
  ASSUME Inv, NEW p \in Proc, NEW s, s = st[p], NEW t, Calm(s, t), Moves(p, t), Relocked(p, t),
         UNCHANGED <<cur, file, ofile, cwd>>, lost' \in [Inum -> Nat], Serves(ic, ic'),
         \A i \in Inum : Holds(t) = i => ic'[i].valid,
         \A i \in Inum : ic'[i].ref = ic[i].ref + lost'[i] - lost[i] + Own(t, i) - Own(s, i),
         UseOK(cur, cwd[p], t)
  PROVE  Inv'
  <1>1. /\ LocalOK(t) /\ (Away(t) <=> Away(st[p]))
        /\ \A i \in Inum : Owes(t) /\ t.ip = i <=> Owes(st[p]) /\ st[p].ip = i
        /\ Lab(st[p]) = "created" => Lab(t) = "created" /\ t.ip = st[p].ip
    BY DEF Calm
  <1>2. \A i \in Inum : ic'[i].ref = ic[i].ref + lost'[i] - lost[i] + Own(t, i) - Own(st[p], i)
    OBVIOUS
  <1>3. \A i \in Inum : lock'[i] = p /\ ic'[i].ref > 0 => ic'[i].valid
    BY DEF Relocked
  <1>4. /\ lock' \in [Inum -> Proc \cup {None}]
        /\ \A i \in Inum : lock'[i] = p <=> Holds(t) = i
        /\ \A i \in Inum : \A q \in Proc : q # p => (lock'[i] = q <=> lock[i] = q)
    BY DEF Relocked
  <1> QED BY <1>1, <1>2, <1>3, <1>4, CallMove

LEMMA Take ==
  ASSUME Inv, NEW p \in Proc, Holds(st[p]) = 0, NEW i \in Inum, lock[i] = None,
         lock' = [lock EXCEPT ![i] = p], NEW t, Holds(t) = i
  PROVE  Relocked(p, t)
  <1>1. \A j \in Inum : lock[j] # p
    BY DEF Inv, Locked, Inum
  <1>2. lock \in [Inum -> Proc \cup {None}]
    BY DEF Inv, Types
  <1> QED BY <1>1, <1>2, FSAssumption DEF Relocked

LEMMA Give ==
  ASSUME Inv, NEW p \in Proc, NEW i \in Inum, Holds(st[p]) = i,
         lock' = [lock EXCEPT ![i] = None], NEW t, Holds(t) = 0
  PROVE  Relocked(p, t) /\ lock[i] = p
  <1>1. \A j \in Inum : lock[j] = p <=> j = i
    BY DEF Inv, Locked
  <1>2. lock \in [Inum -> Proc \cup {None}]
    BY DEF Inv, Types
  <1> QED BY <1>1, <1>2, FSAssumption DEF Relocked, Inum

\* A call that has the inode it opens locked.
OpenedLocal(t, i) ==
  /\ LocalOK(t) /\ t.pc = "opened" /\ Lab(t) = "opened" /\ t.ip = i /\ t.dp = 0 /\ t.puts = <<>>
  /\ Holds(t) = i /\ ~Owes(t) /\ ~Away(t) /\ \A j \in Inum : Own(t, j) = B(i = j)

LEMMA OpenedOK ==
  ASSUME NEW i \in Inum
  PROVE  OpenedLocal([Idle EXCEPT !.pc = "opened", !.ip = i], i)
  <1>1. PICK t : t = [Idle EXCEPT !.pc = "opened", !.ip = i]
    OBVIOUS
  <1>2. "opened" \in Labels /\ i \in 0..NI
    BY DEF Labels, OnNode, Inum
  <1>3. /\ t \in Local /\ t.pc = "opened" /\ t.op = "none" /\ t.np = FALSE /\ t.ip = i /\ t.dp = 0
        /\ t.puts = <<>> /\ Lab(t) = "opened"
    BY <1>1, <1>2, IdleLocal DEF Local, Lab
  <1>4. LocalOK(t)
    BY <1>3 DEF LocalOK, Nodes, OpOK, PathOK, Path2OK, PutsOK, Labels, Finals, OnNode, OnDir, OnBoth,
       OnEntry
  <1>5. \A j \in Inum : Own(t, j) = B(i = j)
    BY <1>3, OwnPuts DEF B, Inum
  <1>6. Holds(t) = i /\ ~Owes(t) /\ ~Away(t)
    BY <1>3 DEF Holds, Owes, Away
  <1> QED BY <1>1, <1>3, <1>4, <1>5, <1>6 DEF OpenedLocal

LEMMA CreateOldInv ==
  ASSUME Inv, NEW p \in Proc, create_old(p)
  PROVE  Inv'
  <1>0. PICK s : s = st[p]
    OBVIOUS
  <1>1. /\ Locks(p, "create_old") /\ ic' = Read(p) /\ UNCHANGED <<cur, file, ofile, cwd, lost>>
        /\ \/ lock' = [lock EXCEPT ![s.ip] = p] /\ Moves(p, [Idle EXCEPT !.pc = "opened", !.ip = s.ip])
           \/ UNCHANGED lock /\ Moves(p, Finish(<<s.ip>>))
    BY <1>0 DEF create_old, Go, Moves, tables
  <1>2. Resting(p, s, "create_old") /\ Inside(p, s.ip)
    BY <1>0, <1>1, Enter DEF OnNode
  <1>3. s.ip \in Inum /\ s.dp = 0 /\ cur[s.ip].type # "none" /\ "create_old" \in Labels \ Outside
    BY <1>2 DEF Resting, Inside, LocalOK, Nodes, OnNode, Outside
  <1>4. \A i \in Inum : Own(s, i) = B(s.ip = i)
    BY <1>2, <1>3 DEF Resting, B, Inum
  <1>5. Holds(s) = 0 /\ ~Owes(s) /\ ~Away(s)
    BY <1>2 DEF Resting, Holds, Owes, Away
  <1>6. Serves(ic, ic') /\ (\A i \in Inum : ic'[i].ref = ic[i].ref) /\ ic'[s.ip].valid
    BY <1>1, <1>2 DEF Inside
  <1>7. CASE UNCHANGED lock /\ Moves(p, Finish(<<s.ip>>))
    <2>1. PICK t : t = Finish(<<s.ip>>)
      OBVIOUS
    <2> QED BY <1>0, <1>1, <1>2, <1>3, <1>4, <1>5, <1>6, <1>7, <2>1, FinishInv
  <1>8. CASE lock' = [lock EXCEPT ![s.ip] = p] /\ Moves(p, [Idle EXCEPT !.pc = "opened", !.ip = s.ip])
    <2>1. PICK t : t = [Idle EXCEPT !.pc = "opened", !.ip = s.ip]
      OBVIOUS
    <2>2. OpenedLocal(t, s.ip)
      BY <1>3, <2>1, OpenedOK
    <2>3. Calm(s, t)
      BY <1>2, <1>5, <2>2 DEF Calm, OpenedLocal, Resting
    <2>4. Relocked(p, t)
      <3>1. lock[s.ip] = None /\ Holds(st[p]) = 0 /\ Holds(t) = s.ip
        BY <1>0, <1>2, <1>5, <2>2 DEF Inside, OpenedLocal
      <3> QED BY <3>1, <1>3, <1>8, Take
    <2>5. \A i \in Inum : Holds(t) = i => ic'[i].valid
      BY <1>6, <2>2 DEF OpenedLocal
    <2>6. \A i \in Inum : ic'[i].ref = ic[i].ref + lost'[i] - lost[i] + Own(t, i) - Own(s, i)
      BY <1>1, <1>2, <1>4, <1>6, <2>2 DEF OpenedLocal, Resting, B
    <2>7. UseOK(cur, cwd[p], t)
      BY <1>2, <1>3, <2>2 DEF OpenedLocal, Resting, UseOK, OnEntry, Owes
    <2>8. lost' \in [Inum -> Nat] /\ Moves(p, t)
      BY <1>1, <1>2, <1>8, <2>1 DEF Resting
    <2> QED BY <1>0, <1>1, <1>6, <2>3, <2>4, <2>5, <2>6, <2>7, <2>8, Move
  <1> QED BY <1>1, <1>7, <1>8

LEMMA OpenDoneInv ==
  ASSUME Inv, NEW p \in Proc, open_done(p)
  PROVE  Inv'
  <1>0. PICK s : s = st[p]
    OBVIOUS
  <1>1. PICK t : t = [Idle EXCEPT !.pc = "opened", !.ip = s.ip]
    OBVIOUS
  <1>2. /\ Locks(p, "open") /\ ic' = Read(p) /\ UNCHANGED <<cur, file, ofile, cwd, lost>>
        /\ lock' = [lock EXCEPT ![s.ip] = p] /\ Moves(p, t)
    BY <1>0, <1>1 DEF open_done, Go, Moves, tables
  <1>3. Resting(p, s, "open") /\ Inside(p, s.ip)
    BY <1>0, <1>2, Enter DEF OnNode
  <1>4. s.ip \in Inum /\ s.dp = 0 /\ cur[s.ip].type # "none"
    BY <1>3 DEF Resting, Inside, LocalOK, Nodes, OnNode
  <1>5. \A i \in Inum : Own(s, i) = B(s.ip = i)
    BY <1>3, <1>4 DEF Resting, B, Inum
  <1>6. Holds(s) = 0 /\ ~Owes(s) /\ ~Away(s)
    BY <1>3 DEF Resting, Holds, Owes, Away
  <1>7. Serves(ic, ic') /\ (\A i \in Inum : ic'[i].ref = ic[i].ref) /\ ic'[s.ip].valid
    BY <1>2, <1>3 DEF Inside
  <1>8. OpenedLocal(t, s.ip)
    BY <1>1, <1>4, OpenedOK
  <1>9. Calm(s, t)
    BY <1>3, <1>6, <1>8 DEF Calm, OpenedLocal, Resting
  <1>10. Relocked(p, t)
    <2>1. lock[s.ip] = None /\ Holds(st[p]) = 0 /\ Holds(t) = s.ip
      BY <1>0, <1>3, <1>6, <1>8 DEF Inside, OpenedLocal
    <2> QED BY <2>1, <1>2, <1>4, Take
  <1>11. \A i \in Inum : Holds(t) = i => ic'[i].valid
    BY <1>7, <1>8 DEF OpenedLocal
  <1>12. \A i \in Inum : ic'[i].ref = ic[i].ref + lost'[i] - lost[i] + Own(t, i) - Own(s, i)
    BY <1>2, <1>3, <1>5, <1>7, <1>8 DEF OpenedLocal, Resting, B
  <1>13. UseOK(cur, cwd[p], t)
    BY <1>3, <1>4, <1>8 DEF OpenedLocal, Resting, UseOK, OnEntry, Owes
  <1>14. lost' \in [Inum -> Nat]
    BY <1>2, <1>3 DEF Resting
  <1> QED BY <1>0, <1>2, <1>7, <1>9, <1>10, <1>11, <1>12, <1>13, <1>14, Move

-----------------------------------------------------------------------------
(* Calls begin, walk on and end.                                           *)

\* The name that a link holds has been written.
LEMMA TargetPath ==
  ASSUME Inv, NEW i \in Inum, cur[i].type = "LINK", lock[i] = None
  PROVE  IsPath(cur[i].target)
  <1>1. \A p \in Proc : ~(Lab(st[p]) = "created" /\ st[p].ip = i)
    <2> SUFFICES ASSUME NEW p \in Proc, Lab(st[p]) = "created", st[p].ip = i PROVE FALSE
      OBVIOUS
    <2>1. Holds(st[p]) = i
      BY DEF Holds
    <2>2. lock[i] = p
      BY <2>1 DEF Inv, Locked
    <2> QED BY <2>2, FSAssumption
  <1> QED BY <1>1 DEF Inv, Targets

\* One more reference to the current directory.
LEMMA IdupCwd ==
  ASSUME Inv, NEW p \in Proc, NEW c, Serves(ic, c), c \in [Inum -> Slot], Coherent(c, cur),
         \A i \in Inum : c[i].ref = ic[i].ref, cwd[p] \in Inum
  PROVE  /\ Serves(ic, idup(c, cwd[p]))
         /\ \A i \in Inum : idup(c, cwd[p])[i].ref = ic[i].ref + B(cwd[p] = i)
         /\ idup(c, cwd[p]) \in [Inum -> Slot] /\ Coherent(idup(c, cwd[p]), cur)
         /\ \A i \in Inum : /\ idup(c, cwd[p])[i].valid = c[i].valid /\ idup(c, cwd[p])[i].type = c[i].type
                            /\ idup(c, cwd[p])[i].nlink = c[i].nlink
  <1>1. PICK w : w = cwd[p]
    OBVIOUS
  <1>2. /\ Serves(c, idup(c, w))
        /\ \A j \in Inum : idup(c, w)[j].ref = c[j].ref + B(j = w)
        /\ \A j \in Inum : /\ idup(c, w)[j].valid = c[j].valid /\ idup(c, w)[j].type = c[j].type
                           /\ idup(c, w)[j].nlink = c[j].nlink
    BY <1>1, IdupServes
  <1>3. Serves(ic, idup(c, w))
    BY <1>2, ServesTrans
  <1>4. \A i \in Inum : idup(c, w)[i].ref = ic[i].ref + B(w = i)
    BY <1>2 DEF B
  <1> QED BY <1>1, <1>2, <1>3, <1>4 DEF Serves

\* A call that starts to walk a path in the current directory.
Walking(p, t, s, path, np) ==
  /\ t \in Local /\ t.pc = "namex" /\ t.path = path /\ t.np = np /\ t.dp = cwd[p] /\ Lab(t) = "namex"
  /\ t.op = s.op /\ t.path2 = s.path2 /\ t.ip = s.ip /\ t.puts = <<>>
  /\ Holds(t) = 0 /\ (Owes(t) <=> s.op = "link" /\ np)
  /\ \A i \in Inum : Own(t, i) = B(s.ip = i) + B(cwd[p] = i)

LEMMA Walks ==
  ASSUME NEW p \in Proc, cwd[p] \in Inum, NEW s \in Local, s.puts = <<>>,
         NEW path \in Seq(Elem), NEW np \in BOOLEAN
  PROVE  Walking(p, Walk(p, s, path, np), s, path, np)
  <1>1. PICK t : t = Walk(p, s, path, np)
    OBVIOUS
  <1>2. /\ t \in Local
        /\ t.pc = "namex" /\ t.path = path /\ t.np = np /\ t.dp = cwd[p] /\ Lab(t) = "namex"
        /\ t.op = s.op /\ t.path2 = s.path2 /\ t.ip = s.ip /\ t.puts = <<>>
    BY <1>1, WalkLocal
  <1>3. Holds(t) = 0 /\ (Owes(t) <=> s.op = "link" /\ np)
    BY <1>2 DEF Holds, Owes, Linking
  <1>4. \A i \in Inum : Own(t, i) = B(s.ip = i) + B(cwd[p] = i)
    BY <1>2, OwnPuts
  <1> QED BY <1>1, <1>2, <1>3, <1>4 DEF Walking

LEMMA OpenFollowInv ==
  ASSUME Inv, NEW p \in Proc, open_follow(p)
  PROVE  Inv'
  <1>0. PICK s : s = st[p]
    OBVIOUS
  <1>1. PICK name : name = cur[s.ip].target
    OBVIOUS
  <1>2. PICK u : u = [s EXCEPT !.ip = 0, !.depth = @ + 1, !.path2 = IF s.op = "exec" THEN name ELSE @]
    OBVIOUS
  <1>3. PICK t : t = Walk(p, u, name, FALSE)
    OBVIOUS
  <1>4. /\ Locks(p, "open") /\ Followed(p) /\ lost' = [lost EXCEPT ![s.ip] = @ + 1]
        /\ ic' = idup(Read(p), cwd[p]) /\ Moves(p, t) /\ UNCHANGED <<cur, file, ofile, cwd, lock>>
    BY <1>0, <1>1, <1>2, <1>3 DEF open_follow, Lose, Go, Moves, tables
  <1>5. Resting(p, s, "open") /\ Inside(p, s.ip)
    BY <1>0, <1>4, Enter DEF OnNode
  <1>6. /\ s.ip \in Inum /\ s.dp = 0 /\ s.op \in {"open", "exec"} /\ cur[s.ip].type = "LINK"
        /\ lock[s.ip] = None /\ cwd[p] \in Inum
    BY <1>0, <1>4, <1>5 DEF Followed, Resting, Inside, LocalOK, Nodes, OnNode
  <1>7. IsPath(name) /\ name \in Seq(Elem)
    BY <1>1, <1>6, TargetPath DEF IsPath, Elem
  <1>8. /\ u \in Local /\ u.ip = 0 /\ u.op = s.op /\ u.puts = <<>>
        /\ u.path2 = IF s.op = "exec" THEN name ELSE s.path2
    <2>1. s \in Local /\ s.puts = <<>> /\ s.depth + 1 \in Nat /\ 0 \in 0..NI
          /\ (IF s.op = "exec" THEN name ELSE s.path2) \in Seq(Elem)
      BY <1>5, <1>7, FSAssumption DEF Resting, Local
    <2> QED BY <1>2, <2>1 DEF Local
  <1>9. Walking(p, t, u, name, FALSE)
    BY <1>3, <1>6, <1>7, <1>8, Walks
  <1>10. LocalOK(t)
    BY <1>6, <1>7, <1>8, <1>9 DEF Walking, LocalOK, Nodes, OpOK, WalkOp, PathOK, Path2OK, PutsOK, Linking,
       Finals, OnNode, OnDir, OnBoth, OnEntry, Labels
  <1>11. Quiet(s, t)
    BY <1>5, <1>6, <1>8, <1>9, <1>10 DEF Quiet, Resting, Walking, Holds, Owes, Away
  <1>12. /\ Serves(ic, ic') /\ \A i \in Inum : ic'[i].ref = ic[i].ref + B(cwd[p] = i)
    BY <1>4, <1>5, <1>6, IdupCwd DEF Inside
  <1>13. \A i \in Inum : lost'[i] = lost[i] + B(s.ip = i)
    BY <1>4, <1>5, <1>6 DEF Resting, B
  <1>14. lost' \in [Inum -> Nat]
    BY <1>4, <1>5, <1>6 DEF Resting
  <1>15. \A i \in Inum : Own(s, i) = B(s.ip = i) /\ Own(t, i) = B(cwd[p] = i)
    BY <1>5, <1>6, <1>8, <1>9, SMTT(60) DEF Resting, Walking, B, Inum
  <1>16. \A i \in Inum : ic'[i].ref = ic[i].ref + lost'[i] - lost[i] + Own(t, i) - Own(s, i)
    <2>1. \A i \in Inum : ic[i].ref \in Int /\ lost[i] \in Int
      BY <1>5 DEF Resting
    <2>2. \A i \in Inum : B(s.ip = i) \in Int /\ B(cwd[p] = i) \in Int
      BY DEF B
    <2> QED BY <1>12, <1>13, <1>15, <2>1, <2>2
  <1>17. UseOK(cur, cwd[p], t)
    BY <1>5, <1>6, <1>8, <1>9 DEF UseOK, Resting, Walking, OnEntry, Inum
  <1> QED BY <1>0, <1>4, <1>11, <1>12, <1>14, <1>16, <1>17, Keep

\* A call that ends and has lost the inode it had.
LEMMA LoseInv ==
  ASSUME Inv, NEW p \in Proc, NEW s, s = st[p], Locks(p, "open"), ic' = Read(p),
         lost' = [lost EXCEPT ![s.ip] = @ + 1], UNCHANGED <<cur, file, ofile, cwd, lock>>,
         NEW t, LocalOK(t), t.pc = "end", t.ip = 0, t.dp = 0, t.op # "gone", Moves(p, t)
  PROVE  Inv'
  <1>1. Resting(p, s, "open") /\ Inside(p, s.ip)
    BY Enter DEF OnNode
  <1>2. s.ip \in Inum /\ s.dp = 0
    BY <1>1 DEF Resting, Inside, LocalOK, Nodes, OnNode
  <1>3. t.puts = <<>> /\ Lab(t) = "end"
    BY DEF LocalOK, PutsOK, Lab
  <1>4. Quiet(s, t)
    BY <1>1, <1>3 DEF Quiet, Resting, Holds, Owes, Away
  <1>5. \A i \in Inum : Own(t, i) = 0 /\ Own(s, i) = B(s.ip = i)
    <2>1. \A i \in Inum : Own(t, i) = B(t.ip = i) + B(t.dp = i)
      BY <1>3, OwnPuts
    <2>2. \A i \in Inum : B(t.ip = i) = 0 /\ B(t.dp = i) = 0 /\ B(s.dp = i) = 0 /\ B(s.ip = i) \in Int
      BY <1>2 DEF B, Inum
    <2> QED BY <1>1, <2>1, <2>2 DEF Resting
  <1>6. \A i \in Inum : lost'[i] = lost[i] + B(s.ip = i)
    BY <1>1, <1>2 DEF Resting, B
  <1>7. lost' \in [Inum -> Nat]
    BY <1>1, <1>2 DEF Resting
  <1>8. Serves(ic, ic') /\ \A i \in Inum : ic'[i].ref = ic[i].ref
    BY <1>1 DEF Inside
  <1>9. \A i \in Inum : ic'[i].ref = ic[i].ref + lost'[i] - lost[i] + Own(t, i) - Own(s, i)
    <2>1. \A i \in Inum : ic[i].ref \in Int /\ lost[i] \in Int
      BY <1>1 DEF Resting
    <2>2. \A i \in Inum : B(s.ip = i) \in Int /\ B(cwd[p] = i) \in Int
      BY DEF B
    <2> QED BY <1>5, <1>6, <1>8, <2>1, <2>2
  <1>10. UseOK(cur, cwd[p], t)
    BY <1>1, <1>3 DEF UseOK, Resting, OnEntry, Owes
  <1> QED BY <1>4, <1>7, <1>8, <1>9, <1>10, Keep

LEMMA OpenTooDeepInv ==
  ASSUME Inv, NEW p \in Proc, open_toodeep(p)
  PROVE  Inv'
  <1>0. PICK s : s = st[p]
    OBVIOUS
  <1>1. PICK t : t = End
    OBVIOUS
  <1>2. /\ Locks(p, "open") /\ ic' = Read(p) /\ lost' = [lost EXCEPT ![s.ip] = @ + 1]
        /\ UNCHANGED <<cur, file, ofile, cwd, lock>> /\ Moves(p, t)
    BY <1>0, <1>1 DEF open_toodeep, Lose, Go, Moves, tables
  <1>3. LocalOK(t) /\ t.pc = "end" /\ t.ip = 0 /\ t.dp = 0 /\ t.op # "gone"
    BY <1>1, EndLocal, IdleLocal DEF SameWork
  <1> QED BY <1>0, <1>2, <1>3, LoseInv

LEMMA ExecFoundInv ==
  ASSUME Inv, NEW p \in Proc, exec_found(p)
  PROVE  Inv'
  <1>0. PICK s : s = st[p]
    OBVIOUS
  <1>1. PICK t : t = [End EXCEPT !.op = "found", !.path2 = s.path2]
    OBVIOUS
  <1>2. /\ Locks(p, "open") /\ ic' = Read(p) /\ lost' = [lost EXCEPT ![s.ip] = @ + 1] /\ s.op = "exec"
        /\ UNCHANGED <<cur, file, ofile, cwd, lock>> /\ Moves(p, t)
    BY <1>0, <1>1 DEF exec_found, Lose, Go, Moves, tables
  <1>3. Resting(p, s, "open")
    BY <1>0, <1>2, Enter DEF OnNode
  <1>4. IsPath(s.path2) /\ s.path2 \in Seq(Elem)
    BY <1>2, <1>3 DEF Resting, LocalOK, Path2OK, IsPath, Elem
  <1>5. /\ t \in Local /\ t.pc = "end" /\ t.op = "found" /\ t.path2 = s.path2 /\ t.ip = 0 /\ t.dp = 0
        /\ t.puts = <<>> /\ t.np = FALSE
    <2>1. /\ End \in Local /\ End.pc = "end" /\ End.ip = 0 /\ End.dp = 0 /\ End.puts = <<>>
          /\ End.np = FALSE
      BY EndLocal, IdleLocal DEF SameWork
    <2>2. "found" \in Ops
      BY DEF Ops
    <2> QED BY <1>1, <1>4, <2>1, <2>2 DEF Local
  <1>6. LocalOK(t)
    BY <1>4, <1>5 DEF LocalOK, Nodes, OpOK, PathOK, Path2OK, PutsOK, Lab, Labels, Finals, OnNode, OnDir,
       OnBoth, OnEntry
  <1> QED BY <1>0, <1>2, <1>5, <1>6, LoseInv

\* What the walk of a call needs of its paths.
Asked(p, op, path, path2) ==
  /\ op \in Creates \cup {"unlink", "open", "opennoderef", "chdir", "link", "exec"}
  /\ IsPath(path) /\ path2 \in Seq(Elem)
  /\ op \in Creates => IsNames(path)
  /\ op = "mkdir" => cwd[p] = Root /\ Len(path) = 1
  /\ op = "link" => IsNames(path2)
  /\ op \in {"exec", "symlink"} => IsPath(path2)

\* A call starts with the locals u and a path that suits it.
LEMMA StartInv ==
  ASSUME Inv, NEW p \in Proc, NEW s, s = st[p], NEW l \in {"user", "exec"}, Resting(p, s, l),
         NEW u \in Local, u.ip = 0, u.puts = <<>>, NEW path, NEW np \in BOOLEAN,
         \/ Asked(p, u.op, path, u.path2) /\ np = (u.op \in Creates \cup {"unlink"})
         \/ u.op = "load" /\ IsPath(path) /\ np = FALSE,
         ic' = idup(ic, cwd[p]), Moves(p, Walk(p, u, path, np)),
         UNCHANGED <<cur, file, ofile, cwd, lock, lost>>
  PROVE  Inv'
  <1>1. PICK t : t = Walk(p, u, path, np)
    OBVIOUS
  <1>2. IsPath(path) /\ path \in Seq(Elem) /\ cwd[p] \in Inum /\ s.ip = 0 /\ s.dp = 0
    BY DEF Asked, IsPath, Elem, Resting, LocalOK, Nodes, Finals
  <1>3. Walking(p, t, u, path, np)
    BY <1>1, <1>2, Walks
  <1>4. ~(u.op = "link" /\ np)
    BY DEF Creates
  <1>5. LocalOK(t)
    <2>1. Nodes(t)
      BY <1>2, <1>3, <1>4 DEF Walking, Nodes, Linking, Labels, Finals, OnNode, OnDir, OnBoth
    <2>2. OpOK(t)
      BY <1>3 DEF Walking, OpOK, WalkOp, Asked, Creates
    <2>3. PathOK(t)
      BY <1>2, <1>3 DEF Walking, PathOK, Asked, Creates, OnEntry
    <2>4. Path2OK(t) /\ PutsOK(t)
      BY <1>3 DEF Walking, Path2OK, PutsOK, Asked, Creates
    <2> QED BY <1>3, <2>1, <2>2, <2>3, <2>4 DEF LocalOK, Walking
  <1>6. Quiet(s, t)
    <2>1. u.op # "gone" /\ s.op # "gone" /\ l # "dead"
      BY DEF Asked, Creates, Resting
    <2> QED BY <1>3, <1>4, <1>5, <2>1 DEF Quiet, Resting, Walking, Holds, Owes, Away
  <1>7. /\ Serves(ic, ic') /\ \A i \in Inum : ic'[i].ref = ic[i].ref + B(cwd[p] = i)
    <2>1. Serves(ic, ic)
      BY DEF Serves, Resting
    <2>2. ic \in [Inum -> Slot] /\ Coherent(ic, cur)
      BY DEF Resting
    <2> QED BY <1>2, <2>1, <2>2, IdupCwd
  <1>8. \A i \in Inum : Own(s, i) = 0 /\ Own(t, i) = B(cwd[p] = i)
    BY <1>2, <1>3 DEF Resting, Walking, B, Inum
  <1>9. \A i \in Inum : ic'[i].ref = ic[i].ref + lost'[i] - lost[i] + Own(t, i) - Own(s, i)
    <2>1. \A i \in Inum : ic[i].ref \in Int /\ lost[i] \in Int
      BY DEF Resting
    <2>2. \A i \in Inum : B(cwd[p] = i) \in Int
      BY DEF B
    <2> QED BY <1>7, <1>8, <2>1, <2>2
  <1>10. UseOK(cur, cwd[p], t)
    BY <1>2, <1>3, <1>4 DEF UseOK, Resting, Walking, OnEntry, Inum
  <1>11. lost' \in [Inum -> Nat] /\ Moves(p, t)
    BY <1>1 DEF Resting
  <1> QED BY <1>6, <1>7, <1>9, <1>10, <1>11, Keep

LEMMA ExecInv ==
  ASSUME Inv, NEW p \in Proc, exec(p)
  PROVE  Inv'
  <1>0. PICK s : s = st[p]
    OBVIOUS
  <1>1. PICK u : u = [Idle EXCEPT !.op = "load", !.depth = 1]
    OBVIOUS
  <1>2. PICK path : path = s.path2
    OBVIOUS
  <1>3. /\ s.pc = "exec" /\ ic' = idup(ic, cwd[p]) /\ Moves(p, Walk(p, u, path, FALSE))
        /\ UNCHANGED <<cur, file, ofile, cwd, lock, lost>>
    BY <1>0, <1>1, <1>2 DEF exec, At, Go, Moves, tables
  <1>4. Resting(p, s, "exec")
    <2>1. "exec" \in Labels
      BY DEF Labels, Finals
    <2> QED BY <1>0, <1>3, <2>1, Rest
  <1>5. u \in Local /\ u.ip = 0 /\ u.puts = <<>> /\ u.op = "load"
    <2>1. "load" \in Ops /\ 1 \in Nat
      BY DEF Ops
    <2> QED BY <1>1, <2>1, IdleLocal DEF Local
  <1>6. IsPath(path)
    BY <1>2, <1>4 DEF Resting, LocalOK, Path2OK
  <1> QED BY <1>0, <1>3, <1>4, <1>5, <1>6, StartInv

LEMMA BeginInv ==
  ASSUME Inv, NEW p \in Proc, NEW op, NEW path, NEW path2, Asked(p, op, path, path2),
         begin(p, op, path, path2)
  PROVE  Inv'
  <1>0. PICK s : s = st[p]
    OBVIOUS
  <1>1. PICK u : u = [Idle EXCEPT !.op = op, !.path2 = path2, !.depth = 1]
    OBVIOUS
  <1>2. PICK np : np = (op \in Creates \cup {"unlink"})
    OBVIOUS
  <1>3. /\ s.pc = "user" /\ ic' = idup(ic, cwd[p]) /\ Moves(p, Walk(p, u, path, np))
        /\ UNCHANGED <<cur, file, ofile, cwd, lock, lost>>
    BY <1>0, <1>1, <1>2 DEF begin, At, Go, Moves, tables
  <1>4. Resting(p, s, "user")
    <2>1. "user" \in Labels
      BY DEF Labels, Finals
    <2> QED BY <1>0, <1>3, <2>1, Rest
  <1>5. u \in Local /\ u.ip = 0 /\ u.puts = <<>> /\ u.op = op /\ u.path2 = path2
    <2>1. op \in Ops /\ path2 \in Seq(Elem) /\ 1 \in Nat
      BY DEF Ops, Asked
    <2> QED BY <1>1, <2>1, IdleLocal DEF Local
  <1>6. Asked(p, u.op, path, u.path2) /\ np = (u.op \in Creates \cup {"unlink"}) /\ np \in BOOLEAN
    BY <1>2, <1>5
  <1> QED BY <1>0, <1>3, <1>4, <1>5, <1>6, StartInv

LEMMA CallInv ==
  ASSUME Inv, NEW p \in Proc, call(p)
  PROVE  Inv'
  <1>1. \A x \in Paths : IsPath(x) /\ IsNames(x) /\ x \in Seq(Elem)
    BY FSAssumption DEF IsPath, IsNames, Elem
  <1>2. /\ <<>> \in Seq(Elem) /\ IsPath(<<"..">>)
        /\ \A n \in Name : IsPath(<<n>>) /\ IsNames(<<n>>) /\ Len(<<n>>) = 1
    BY DEF IsPath, IsNames
  <1>3. ASSUME NEW op \in {"create", "unlink", "open", "chdir"}, NEW path \in Paths,
               begin(p, op, path, <<>>)
        PROVE  Inv'
    <2>1. Asked(p, op, path, <<>>)
      BY <1>1, <1>2 DEF Asked, Creates
    <2> QED BY <1>3, <2>1, BeginInv
  <1>4. ASSUME NEW op \in {"unlink", "chdir"}, begin(p, op, <<"..">>, <<>>)
        PROVE  Inv'
    <2>1. Asked(p, op, <<"..">>, <<>>)
      BY <1>2 DEF Asked, Creates
    <2> QED BY <1>4, <2>1, BeginInv
  <1>5. ASSUME NEW n \in Name, cwd[p] = Root, begin(p, "mkdir", <<n>>, <<>>)
        PROVE  Inv'
    <2>1. Asked(p, "mkdir", <<n>>, <<>>)
      BY <1>2, <1>5 DEF Asked, Creates
    <2> QED BY <1>5, <2>1, BeginInv
  <1>6. ASSUME NEW old \in Paths, NEW new \in Paths, begin(p, "link", old, new)
        PROVE  Inv'
    <2>1. Asked(p, "link", old, new)
      BY <1>1 DEF Asked, Creates
    <2> QED BY <1>6, <2>1, BeginInv
  <1>7. ASSUME NEW n \in Name, NEW path \in Paths, begin(p, "symlink", <<n>>, path)
        PROVE  Inv'
    <2>1. Asked(p, "symlink", <<n>>, path)
      BY <1>1, <1>2 DEF Asked, Creates
    <2> QED BY <1>7, <2>1, BeginInv
  <1>8. ASSUME NEW path \in Paths, begin(p, "exec", path, path) \/ begin(p, "opennoderef", path, <<>>)
        PROVE  Inv'
    <2>1. Asked(p, "exec", path, path) /\ Asked(p, "opennoderef", path, <<>>)
      BY <1>1, <1>2 DEF Asked, Creates
    <2> QED BY <1>8, <2>1, BeginInv
  <1> QED BY <1>3, <1>4, <1>5, <1>6, <1>7, <1>8 DEF call

LEMMA EndOpInv ==
  ASSUME Inv, NEW p \in Proc, end_op(p)
  PROVE  Inv'
  <1>0. PICK s : s = st[p]
    OBVIOUS
  <1>1. PICK t : t = CASE s.op = "exit" -> [Idle EXCEPT !.pc = "exit", !.op = "exit"]
                       [] s.op = "gone" -> [Idle EXCEPT !.pc = "dead"]
                       [] s.op = "found" -> [s EXCEPT !.pc = "exec"]
                       [] OTHER -> Idle
    OBVIOUS
  <1>2. s.pc = "end" /\ Moves(p, t) /\ UNCHANGED <<cur, ic, lock, file, ofile, cwd, lost>>
    BY <1>0, <1>1 DEF end_op, At, Go, Moves, tables
  <1>3. Resting(p, s, "end")
    <2>1. "end" \in Labels
      BY DEF Labels, Finals
    <2> QED BY <1>0, <1>2, <2>1, Rest
  <1>4. s \in Local /\ s.puts = <<>> /\ s.ip = 0 /\ s.dp = 0
    BY <1>3 DEF Resting, LocalOK, Nodes, Finals
  <1>5. {"exit", "dead", "exec", "user"} \subseteq Labels /\ "exit" \in Ops
    BY DEF Labels, Finals, Ops
  <1>6. \/ s.op = "exit" /\ t = [Idle EXCEPT !.pc = "exit", !.op = "exit"]
        \/ s.op = "gone" /\ t = [Idle EXCEPT !.pc = "dead"]
        \/ s.op = "found" /\ t = [s EXCEPT !.pc = "exec"]
        \/ s.op # "gone" /\ t = Idle
    BY <1>1
  <1>7. /\ t \in Local /\ t.puts = <<>> /\ t.ip = 0 /\ t.dp = 0 /\ t.op # "gone"
        /\ \/ s.op = "exit" /\ t.pc = "exit"
           \/ s.op = "gone" /\ t.pc = "dead"
           \/ s.op = "found" /\ t.pc = "exec" /\ t.path2 = s.path2
           \/ s.op # "gone" /\ t.pc = "user"
    <2>1. CASE s.op = "exit" /\ t = [Idle EXCEPT !.pc = "exit", !.op = "exit"]
      BY <2>1, <1>5, IdleLocal DEF Local
    <2>2. CASE s.op = "gone" /\ t = [Idle EXCEPT !.pc = "dead"]
      BY <2>2, <1>5, IdleLocal DEF Local
    <2>3. CASE s.op = "found" /\ t = [s EXCEPT !.pc = "exec"]
      BY <2>3, <1>4, <1>5 DEF Local
    <2>4. CASE s.op # "gone" /\ t = Idle
      BY <2>4, IdleLocal
    <2> QED BY <1>6, <2>1, <2>2, <2>3, <2>4
  <1>8. t.pc \in {"exit", "dead", "exec", "user"} /\ Lab(t) = t.pc /\ (t.pc = "exec" => IsPath(t.path2))
    BY <1>3, <1>7 DEF Lab, Resting, LocalOK, Path2OK
  <1>9. LocalOK(t)
    BY <1>5, <1>7, <1>8 DEF LocalOK, Nodes, OpOK, PathOK, Path2OK, PutsOK, Finals, OnNode, OnDir, OnBoth,
       OnEntry
  <1>10. Quiet(s, t)
    BY <1>3, <1>7, <1>8, <1>9 DEF Quiet, Resting, Holds, Owes, Away
  <1>11. \A i \in Inum : Own(s, i) = 0 /\ Own(t, i) = 0
    BY <1>3, <1>4, <1>7, OwnPuts DEF Resting, B, Inum
  <1>12. \A i \in Inum : ic'[i].ref = ic[i].ref + lost'[i] - lost[i] + Own(t, i) - Own(s, i)
    BY <1>2, <1>3, <1>11 DEF Resting
  <1>13. UseOK(cur, cwd[p], t)
    BY <1>3, <1>7, <1>8 DEF UseOK, Resting, OnEntry, Owes
  <1>14. lost' \in [Inum -> Nat] /\ Serves(ic, ic')
    BY <1>2, <1>3 DEF Resting, Serves
  <1> QED BY <1>0, <1>2, <1>10, <1>12, <1>13, <1>14, Keep

\* A call does not start: the process leaves, or reads an inode it has open.
LEMMA ExitInv ==
  ASSUME Inv, NEW p \in Proc, exit(p)
  PROVE  Inv'
  <1>0. PICK s : s = st[p]
    OBVIOUS
  <1>1. PICK t : t = [Idle EXCEPT !.pc = "exit", !.op = "exit"]
    OBVIOUS
  <1>2. s.pc = "user" /\ Moves(p, t) /\ UNCHANGED <<cur, ic, lock, file, ofile, cwd, lost>>
    BY <1>0, <1>1 DEF exit, At, Go, Moves, tables
  <1>3. "exit" \in Labels /\ "user" \in Labels /\ "exit" \in Ops
    BY DEF Labels, Finals, Ops
  <1>4. Resting(p, s, "user")
    BY <1>0, <1>2, <1>3, Rest
  <1>5. s.ip = 0 /\ s.dp = 0
    BY <1>4 DEF Resting, LocalOK, Nodes, Finals
  <1>6. /\ t \in Local /\ t.pc = "exit" /\ t.op = "exit" /\ t.puts = <<>> /\ t.ip = 0 /\ t.dp = 0
        /\ Lab(t) = "exit"
    BY <1>1, <1>3, IdleLocal DEF Local, Lab
  <1>7. LocalOK(t)
    BY <1>3, <1>6 DEF LocalOK, Nodes, OpOK, PathOK, Path2OK, PutsOK, Finals, OnNode, OnDir, OnBoth, OnEntry
  <1>8. Quiet(s, t)
    BY <1>4, <1>6, <1>7 DEF Quiet, Resting, Holds, Owes, Away
  <1>9. \A i \in Inum : Own(s, i) = 0 /\ Own(t, i) = 0
    BY <1>4, <1>5, <1>6, OwnPuts DEF Resting, B, Inum
  <1>10. \A i \in Inum : ic'[i].ref = ic[i].ref + lost'[i] - lost[i] + Own(t, i) - Own(s, i)
    BY <1>2, <1>4, <1>9 DEF Resting
  <1>11. UseOK(cur, cwd[p], t)
    BY <1>4, <1>6 DEF UseOK, Resting, OnEntry, Owes
  <1>12. lost' \in [Inum -> Nat] /\ Serves(ic, ic')
    BY <1>2, <1>4 DEF Resting, Serves
  <1> QED BY <1>0, <1>2, <1>8, <1>10, <1>11, <1>12, Keep

\* The descriptors that share a struct file.
Descs(f) == {x \in Proc \X Fd : ofile[x[1]][x[2]] = f}

LEMMA DescsFinite ==
  /\ IsFiniteSet(Fd) /\ IsFiniteSet(Proc \X Fd)
  /\ \A f : IsFiniteSet({x \in Proc \X Fd : ofile[x[1]][x[2]] = f})
  <1>1. IsFiniteSet(Fd)
    <2>1. NOFILE \in Int /\ 1 \in Int
      BY FSAssumption
    <2> QED BY <2>1, FS_Interval DEF Fd
  <1>2. IsFiniteSet(Proc \X Fd)
    BY <1>1, FSAssumption, FS_Product
  <1> QED BY <1>1, <1>2, FS_Subset

LEMMA FilestatInv ==
  ASSUME Inv, NEW p \in Proc, filestat(p)
  PROVE  Inv'
  <1>1. PICK d \in Fd : /\ ofile[p][d] # 0
                        /\ LET i == file[ofile[p][d]].ip
                           IN lock[i] = None /\ ~NoType(i) /\ ic' = [ic EXCEPT ![i] = Loaded(i)]
    BY DEF filestat
  <1>2. PICK i : i = file[ofile[p][d]].ip
    OBVIOUS
  <1>3. /\ ~NoType(i) /\ ic' = [ic EXCEPT ![i] = Loaded(i)]
        /\ UNCHANGED <<cur, lock, file, ofile, cwd, st, lost>>
    BY <1>1, <1>2 DEF filestat, tables
  <1>4. i \in Inum
    <2>1. ofile[p][d] \in File /\ <<p, d>> \in {x \in Proc \X Fd : ofile[x[1]][x[2]] = ofile[p][d]}
      BY <1>1, FSAssumption DEF Inv, Types, File
    <2>2. file[ofile[p][d]].ref # 0
      BY <2>1, DescsFinite, FS_EmptySet, ZenonT(60) DEF Inv, Files, FileRefExact
    <2> QED BY <1>2, <2>1, <2>2 DEF Inv, Files
  <1>5. Serves(ic, ic') /\ \A j \in Inum : ic'[j].ref = ic[j].ref
    BY <1>3, <1>4, LoadServes, ZenonT(60) DEF Inv
  <1>6. PICK s : s = st[p]
    OBVIOUS
  <1>7. /\ LocalOK(s) /\ s \in Local /\ UseOK(cur, cwd[p], s) /\ lost \in [Inum -> Nat]
        /\ \A j \in Inum : ic[j].ref \in Nat
    BY <1>6, Start
  <1>8. Moves(p, s)
    BY <1>3, <1>6 DEF Moves, Inv, Types
  <1>9. Quiet(s, s)
    BY <1>7 DEF Quiet
  <1>10. \A j \in Inum : ic'[j].ref = ic[j].ref + lost'[j] - lost[j] + Own(s, j) - Own(s, j)
    <2>1. \A j \in Inum : Own(s, j) \in Int
      BY DEF Own, B
    <2> QED BY <2>1, <1>3, <1>5, <1>7
  <1>11. /\ lost' \in [Inum -> Nat] /\ UseOK(cur, cwd[p], s)
         /\ UNCHANGED <<cur, file, ofile, cwd, lock>>
    BY <1>3, <1>7
  <1> QED BY <1>5, <1>6, <1>8, <1>9, <1>10, <1>11, Keep

-----------------------------------------------------------------------------
(* Failing ends of link() and unlink(), and unlink() up to its last check.  *)

\* A call keeps the pointers it has.
SameOwn(s, t) == \A i \in Inum : Own(t, i) = Own(s, i)

LEMMA GiveInv ==
  ASSUME Inv, NEW p \in Proc, NEW s, s = st[p], NEW i \in Inum, Holds(s) = i, NEW t, Calm(s, t),
         Holds(t) = 0, Moves(p, t), lock' = [lock EXCEPT ![i] = None],
         UNCHANGED <<cur, ic, file, ofile, cwd, lost>>,
         SameOwn(s, t), UseOK(cur, cwd[p], t)
  PROVE  Inv'
  <1>1. Relocked(p, t)
    <2>1. Holds(st[p]) = i
      OBVIOUS
    <2> QED BY <2>1, Give
  <1>2. /\ ic \in [Inum -> Slot] /\ Coherent(ic, cur) /\ lost \in [Inum -> Nat]
        /\ \A j \in Inum : ic[j].ref \in Nat
    BY Start
  <1>3. Serves(ic, ic') /\ lost' \in [Inum -> Nat]
    BY <1>2 DEF Serves
  <1>4. \A j \in Inum : Holds(t) = j => ic'[j].valid
    BY DEF Inum
  <1>5. \A j \in Inum : ic'[j].ref = ic[j].ref + lost'[j] - lost[j] + Own(t, j) - Own(s, j)
    <2>1. \A j \in Inum : Own(s, j) \in Int
      BY DEF Own, B
    <2> QED BY <2>1, <1>2 DEF SameOwn
  <1> QED BY <1>1, <1>3, <1>4, <1>5, Move

LEMMA UnlinkBadInv ==
  ASSUME Inv, NEW p \in Proc, unlink_bad(p)
  PROVE  Inv'
  <1>0. PICK s : s = st[p]
    OBVIOUS
  <1>1. PICK t : t = Finish(<<s.dp>>)
    OBVIOUS
  <1>2. /\ s.pc = "unlink_bad" /\ Moves(p, t) /\ lock' = [lock EXCEPT ![s.dp] = None]
        /\ UNCHANGED <<cur, ic, file, ofile, cwd, lost>>
    BY <1>0, <1>1 DEF unlink_bad, At, Go, Moves, tables
  <1>3. Resting(p, s, "unlink_bad")
    <2>1. "unlink_bad" \in Labels
      BY DEF Labels, OnDir
    <2> QED BY <1>0, <1>2, <2>1, Rest
  <1>4. s.ip = 0 /\ s.dp \in Inum /\ cur[s.dp].type # "none"
    BY <1>3 DEF Resting, LocalOK, Nodes, OnDir, UseOK, Inum
  <1>5. Ending(t, s.dp) /\ UseOK(cur, cwd[p], t)
    <2>1. cwd[p] # 0 => cur[cwd[p]].type = "DIR"
      BY <1>3 DEF Resting, UseOK
    <2> QED BY <2>1, <1>1, <1>4, FinishOne
  <1>6. Holds(s) = s.dp /\ ~Owes(s) /\ ~Away(s)
    BY <1>3 DEF Resting, Holds, Owes, Away
  <1>7. Calm(s, t) /\ Holds(t) = 0
    BY <1>3, <1>5, <1>6, Zenon DEF Calm, Ending, Resting
  <1>8. SameOwn(s, t)
    BY <1>3, <1>4, <1>5 DEF SameOwn, Ending, Resting, B, Inum
  <1> QED BY <1>0, <1>2, <1>4, <1>5, <1>6, <1>7, <1>8, GiveInv

\* link() takes back the link it has counted.
LEMMA TakesBack ==
  ASSUME NEW i \in Inum, NEW a \in Inum, NEW t, t = Put([Idle EXCEPT !.ip = i], <<a>>, "link_bad")
  PROVE  /\ LocalOK(t) /\ Putting(t, t, a, "link_bad") /\ t.ip = i /\ t.dp = 0
         /\ Holds(t) = 0 /\ Owes(t) /\ ~Away(t)
         /\ \A j \in Inum : Own(t, j) = B(i = j) + B(a = j)
  <1>1. PICK u : u = [Idle EXCEPT !.ip = i]
    OBVIOUS
  <1>2. u \in Local /\ u.op = "none" /\ u.np = FALSE /\ u.ip = i /\ u.dp = 0
    BY <1>1, IdleLocal DEF Local, Inum
  <1>3. "link_bad" \in Labels \ Outside
    BY DEF Labels, OnNode, Outside
  <1>4. Putting(t, u, a, "link_bad")
    BY <1>1, <1>2, <1>3, PutOne
  <1>5. LocalOK(t)
    BY <1>2, <1>3, <1>4 DEF Putting, LocalOK, Nodes, OpOK, PathOK, Path2OK, Outside, Finals, OnNode,
       OnDir, OnBoth, OnEntry
  <1>6. Holds(t) = 0 /\ Owes(t) /\ ~Away(t)
    BY <1>2, <1>4 DEF Putting, Holds, Owes, Away
  <1>7. \A j \in Inum : Own(t, j) = B(i = j) + B(a = j)
    BY <1>2, <1>4 DEF Putting, B, Inum
  <1> QED BY <1>2, <1>4, <1>5, <1>6, <1>7 DEF Putting

LEMMA LinkClashInv ==
  ASSUME Inv, NEW p \in Proc, link_clash(p)
  PROVE  Inv'
  <1>0. PICK s : s = st[p]
    OBVIOUS
  <1>1. PICK t : t = Put([Idle EXCEPT !.ip = s.ip], <<s.dp>>, "link_bad")
    OBVIOUS
  <1>2. /\ s.pc = "link_clash" /\ Moves(p, t) /\ lock' = [lock EXCEPT ![s.dp] = None]
        /\ UNCHANGED <<cur, ic, file, ofile, cwd, lost>>
    BY <1>0, <1>1 DEF link_clash, At, Go, Moves, tables
  <1>3. Resting(p, s, "link_clash")
    <2>1. "link_clash" \in Labels
      BY DEF Labels, OnBoth
    <2> QED BY <1>0, <1>2, <2>1, Rest
  <1>4. s.ip \in Inum /\ s.dp \in Inum
    BY <1>3 DEF Resting, LocalOK, Nodes, OnBoth
  <1>5. cur[s.dp].type # "none" /\ cur[s.ip].type # "none" /\ cur[s.ip].type # "DIR"
    BY <1>3, <1>4 DEF Resting, UseOK, Owes, Inum
  <1>6. /\ LocalOK(t) /\ Putting(t, t, s.dp, "link_bad") /\ t.ip = s.ip /\ t.dp = 0
        /\ Holds(t) = 0 /\ Owes(t) /\ ~Away(t)
        /\ \A j \in Inum : Own(t, j) = B(s.ip = j) + B(s.dp = j)
    BY <1>1, <1>4, TakesBack
  <1>7. Holds(s) = s.dp /\ Owes(s) /\ ~Away(s)
    BY <1>3 DEF Resting, Holds, Owes, Away
  <1>8. Calm(s, t)
    BY <1>3, <1>6, <1>7, Zenon DEF Calm, Resting
  <1>9. SameOwn(s, t)
    BY <1>3, <1>6 DEF SameOwn, Resting
  <1>10. UseOK(cur, cwd[p], t)
    BY <1>3, <1>5, <1>6 DEF Resting, UseOK, Putting, OnEntry
  <1> QED BY <1>0, <1>2, <1>4, <1>6, <1>7, <1>8, <1>9, <1>10, GiveInv

\* What the entry n of a directory refers to.
TypedAt(d, n, i) ==
  /\ i \in Inum /\ cur[i].type # "none"
  /\ n # ".." => cur[d].ent[n] = i /\ n \in Name /\ <<d, n>> \in Names(cur, i) /\ cur[i].nlink >= 1

\* A step that looks up the last element of a path in a directory it has locked.
LEMMA LastEntry ==
  ASSUME Inv, NEW p \in Proc, NEW s, s = st[p], NEW l \in {"create", "link_new", "unlink"}, Locks(p, l)
  PROVE  /\ Resting(p, s, l) /\ Inside(p, s.dp) /\ s.dp \in Inum /\ cur[s.dp].type = "DIR"
         /\ IsPath(s.path) /\ Len(s.path) = 1 /\ Head(s.path) \in Elem
         /\ dirlookup(s.dp, Head(s.path)) # 0 => TypedAt(s.dp, Head(s.path), dirlookup(s.dp, Head(s.path)))
         /\ (l # "unlink" => IsNames(s.path) /\ Head(s.path) \in Name)
  <1>1. Resting(p, s, l) /\ Inside(p, s.dp)
    BY Enter DEF OnDir, OnBoth
  <1>2. s.dp \in Inum /\ cur[s.dp].type = "DIR"
    BY <1>1 DEF Resting, Inside, UseOK, OnEntry
  <1>3. IsPath(s.path) /\ Len(s.path) = 1 /\ (l # "unlink" => IsNames(s.path))
    BY <1>1 DEF Resting, LocalOK, PathOK, OnEntry
  <1>4. Head(s.path) \in Elem
    BY <1>3, HeadPath
  <1>5. l # "unlink" => Head(s.path) \in Name
    BY <1>3 DEF IsNames
  <1>6. ASSUME NEW n, n = Head(s.path), NEW d, d = s.dp, dirlookup(d, n) # 0
        PROVE  TypedAt(d, n, dirlookup(d, n))
    BY <1>2, <1>4, <1>6, TypedEntry DEF TypedAt
  <1> QED BY <1>1, <1>2, <1>3, <1>4, <1>5, <1>6

LEMMA UnlinkInv ==
  ASSUME Inv, NEW p \in Proc, unlink(p)
  PROVE  Inv'
  <1>0. PICK s : s = st[p]
    OBVIOUS
  <1>1. PICK n : n = Head(s.path)
    OBVIOUS
  <1>2. PICK i : i = dirlookup(s.dp, n)
    OBVIOUS
  <1>3. /\ Locks(p, "unlink") /\ lock' = [lock EXCEPT ![s.dp] = p]
        /\ UNCHANGED <<cur, file, ofile, cwd, lost>>
        /\ IF i = 0 \/ n = ".."
           THEN ic' = Read(p) /\ Moves(p, [Idle EXCEPT !.pc = "unlink_bad", !.dp = s.dp])
           ELSE ic' = iget(Read(p), i) /\ Moves(p, [s EXCEPT !.pc = "unlink_ip", !.ip = i])
    BY <1>0, <1>1, <1>2 DEF unlink, Go, Moves, tables
  <1>4. /\ Resting(p, s, "unlink") /\ Inside(p, s.dp) /\ s.dp \in Inum /\ cur[s.dp].type = "DIR"
        /\ IsPath(s.path) /\ Len(s.path) = 1 /\ n \in Elem
        /\ i # 0 => TypedAt(s.dp, n, i)
    BY <1>0, <1>1, <1>2, <1>3, LastEntry
  <1>5. s.ip = 0
    BY <1>4 DEF Resting, LocalOK, Nodes, OnDir
  <1>6. Holds(s) = 0 /\ ~Owes(s) /\ ~Away(s)
    BY <1>4 DEF Resting, Holds, Owes, Away
  <1>7. lock[s.dp] = None /\ Holds(st[p]) = 0
    BY <1>0, <1>4, <1>6 DEF Inside
  <1>8. CASE i = 0 \/ n = ".."
    <2>1. PICK t : t = [Idle EXCEPT !.pc = "unlink_bad", !.dp = s.dp]
      OBVIOUS
    <2>2. ic' = Read(p) /\ Moves(p, t)
      BY <1>3, <1>8, <2>1
    <2>3. "unlink_bad" \in Labels /\ s.dp \in 0..NI
      BY <1>4 DEF Labels, OnDir, Inum
    <2>4. /\ t \in Local /\ t.pc = "unlink_bad" /\ t.op = "none" /\ t.np = FALSE /\ t.ip = 0 /\ t.dp = s.dp
          /\ t.puts = <<>> /\ Lab(t) = "unlink_bad"
      BY <2>1, <2>3, IdleLocal DEF Local, Lab
    <2>5. LocalOK(t)
      BY <1>4, <2>3, <2>4 DEF LocalOK, Nodes, OpOK, PathOK, Path2OK, PutsOK, Finals, OnNode, OnDir, OnBoth,
         OnEntry
    <2>6. Holds(t) = s.dp /\ Calm(s, t)
      BY <1>4, <1>6, <2>4, <2>5 DEF Calm, Holds, Owes, Away, Resting
    <2>7. Relocked(p, t)
      BY <1>3, <1>4, <1>7, <2>6, Take
    <2>8. Serves(ic, ic') /\ (\A j \in Inum : ic'[j].ref = ic[j].ref) /\ ic'[s.dp].valid
      BY <1>4, <2>2 DEF Inside
    <2>9. \A j \in Inum : Own(t, j) = Own(s, j)
      BY <1>4, <1>5, <2>4, OwnPuts DEF Resting
    <2>10. \A j \in Inum : ic'[j].ref = ic[j].ref + lost'[j] - lost[j] + Own(t, j) - Own(s, j)
      BY <1>3, <1>4, <2>8, <2>9 DEF Resting, B
    <2>11. UseOK(cur, cwd[p], t)
      BY <1>4, <2>4 DEF Resting, UseOK, OnEntry, Owes
    <2>12. lost' \in [Inum -> Nat] /\ \A j \in Inum : Holds(t) = j => ic'[j].valid
      BY <1>3, <1>4, <2>6, <2>8 DEF Resting
    <2> QED BY <1>0, <1>3, <2>2, <2>6, <2>7, <2>8, <2>10, <2>11, <2>12, Move
  <1>9. CASE ~(i = 0 \/ n = "..")
    <2>1. PICK t : t = [s EXCEPT !.pc = "unlink_ip", !.ip = i]
      OBVIOUS
    <2>2. ic' = iget(Read(p), i) /\ Moves(p, t)
      BY <1>3, <1>9, <2>1
    <2>3. i \in Inum /\ cur[i].type # "none" /\ cur[s.dp].ent[n] = i /\ n \in Name
      BY <1>4, <1>9 DEF TypedAt
    <2>4. "unlink_ip" \in Labels /\ i \in 0..NI /\ s \in Local /\ s.puts = <<>>
      BY <1>4, <2>3 DEF Labels, OnBoth, Inum, Resting
    <2>5. /\ t \in Local /\ t.pc = "unlink_ip" /\ t.op = s.op /\ t.np = s.np /\ t.ip = i /\ t.dp = s.dp
          /\ t.puts = <<>> /\ Lab(t) = "unlink_ip" /\ t.path = s.path
      BY <2>1, <2>4 DEF Local, Lab
    <2>6. IsNames(s.path)
      <3>1. s.path \in Seq(Elem) /\ s.path # <<>> /\ s.path[1] \in Name
        BY <1>1, <1>4, <2>3 DEF IsPath, Elem
      <3>2. \A j \in 1..Len(s.path) : s.path[j] \in Name
        BY <3>1, <1>4
      <3>3. s.path \in Seq(Name)
        BY <3>1, <3>2
      <3> QED BY <3>1, <3>3 DEF IsNames
    <2>7. LocalOK(t)
      BY <1>4, <2>3, <2>4, <2>5, <2>6 DEF LocalOK, Nodes, OpOK, PathOK, Path2OK, PutsOK, Finals, OnNode,
         OnDir, OnBoth, OnEntry, Resting
    <2>8. Holds(t) = s.dp /\ Calm(s, t)
      BY <1>4, <1>6, <2>5, <2>7 DEF Calm, Holds, Owes, Away, Resting
    <2>9. Relocked(p, t)
      BY <1>3, <1>4, <1>7, <2>8, Take
    <2>10. /\ Read(p) \in [Inum -> Slot] /\ Coherent(Read(p), cur) /\ Read(p)[i].ref >= 0
           /\ Serves(ic, Read(p)) /\ \A j \in Inum : Read(p)[j].ref = ic[j].ref
      BY <1>4, <2>3 DEF Inside, Resting
    <2>11. Serves(Read(p), ic') /\ Serves(ic, ic') /\ \A j \in Inum : ic'[j].ref = ic[j].ref + B(j = i)
      BY <2>2, <2>3, <2>10, IgetServes, ServesTrans
    <2>12. ic'[s.dp].valid
      <3>1. Read(p)[s.dp].valid /\ Read(p)[s.dp].ref > 0 /\ ic[s.dp].ref \in Nat
        BY <1>4, <2>10 DEF Inside, Resting
      <3>2. ic'[s.dp].ref > 0
        BY <3>1, <1>4, <2>10, <2>11 DEF B
      <3> QED BY <3>1, <3>2, <1>4, <2>11 DEF Serves
    <2>13. \A j \in Inum : Own(t, j) = Own(s, j) + B(j = i)
      BY <1>4, <1>5, <2>5, OwnPuts DEF Resting, B, Inum
    <2>14. \A j \in Inum : ic'[j].ref = ic[j].ref + lost'[j] - lost[j] + Own(t, j) - Own(s, j)
      <3>1. \A j \in Inum : ic[j].ref \in Int /\ lost[j] \in Int /\ lost'[j] = lost[j]
        BY <1>3, <1>4 DEF Resting
      <3>2. \A j \in Inum : B(j = i) \in Int /\ Own(s, j) \in Int
        BY DEF B, Own
      <3> QED BY <2>11, <2>13, <3>1, <3>2
    <2>15. UseOK(cur, cwd[p], t)
      BY <1>1, <1>4, <2>3, <2>5 DEF Resting, UseOK, OnEntry, Owes
    <2>16. lost' \in [Inum -> Nat] /\ \A j \in Inum : Holds(t) = j => ic'[j].valid
      BY <1>3, <1>4, <2>8, <2>12 DEF Resting
    <2> QED BY <1>0, <1>3, <2>2, <2>8, <2>9, <2>11, <2>14, <2>15, <2>16, Move
  <1> QED BY <1>8, <1>9

LEMMA UsePutting ==
  ASSUME NEW fs, NEW w, NEW t, NEW a, NEW k, k \notin OnEntry \cup {"created"}, Putting(t, t, a, k),
         w # 0 => fs[w].type = "DIR", fs[a].type # "none",
         t.ip # 0 => fs[t.ip].type # "none", t.dp # 0 => fs[t.dp].type # "none",
         Owes(t) /\ k # "unlink_dec" => fs[t.ip].type # "DIR"
  PROVE  UseOK(fs, w, t)
  <1>1. Lab(t) = k /\ \A j \in DOMAIN t.puts : fs[t.puts[j]].type # "none"
    BY DEF Putting
  <1> QED BY <1>1 DEF UseOK, OnEntry

\* t puts i for the task s, whose inodes it keeps, and then leaves link() by bad:.
Clashes(t, s, i) == Putting(t, t, i, "link_clash") /\ t.op = "none" /\ t.np = FALSE /\ t.ip = s.ip /\ t.dp = s.dp

\* What link_new() puts on the way out of that branch.
LEMMA LinkClashPuts ==
  ASSUME Inv, NEW p \in Proc, NEW s, s = st[p], Locks(p, "link_new"),
         NEW i, i = dirlookup(s.dp, Head(s.path)), i # 0,
         NEW t, t = Put([Idle EXCEPT !.ip = s.ip, !.dp = s.dp], <<i>>, "link_clash")
  PROVE  Clashes(t, s, i)
  <1>1. PICK n : n = Head(s.path)
    OBVIOUS
  <1>2. /\ Resting(p, s, "link_new") /\ s.dp \in Inum /\ TypedAt(s.dp, n, i)
    BY <1>1, LastEntry
  <1>3. s.ip \in Inum /\ i \in Inum
    BY <1>2 DEF Resting, LocalOK, Nodes, OnBoth, TypedAt
  <1>4. PICK u : u = [Idle EXCEPT !.ip = s.ip, !.dp = s.dp]
    OBVIOUS
  <1>5. s.ip \in 0..NI /\ s.dp \in 0..NI
    BY <1>2, <1>3 DEF Inum
  <1>6. u \in Local /\ u.op = "none" /\ u.np = FALSE /\ u.ip = s.ip /\ u.dp = s.dp
    BY <1>4, <1>5, IdleLocal DEF Local
  <1>7. "link_clash" \in Labels \ Outside
    BY DEF Labels, OnBoth, Outside
  <1>8. Putting(t, u, i, "link_clash")
    BY <1>3, <1>4, <1>6, <1>7, PutOne
  <1> QED BY <1>6, <1>8 DEF Putting, Clashes

\* The branch of link_new() that finds the name taken.
LEMMA LinkNewClash ==
  ASSUME Inv, NEW p \in Proc, NEW s, s = st[p], Locks(p, "link_new"),
         NEW i, i = dirlookup(s.dp, Head(s.path)), i # 0, ic' = iget(Read(p), i),
         lock' = [lock EXCEPT ![s.dp] = p], UNCHANGED <<cur, file, ofile, cwd, lost>>,
         NEW t, Clashes(t, s, i), Moves(p, t)
  PROVE  Inv'
  <1>1. PICK n : n = Head(s.path)
    OBVIOUS
  <1>2. /\ Resting(p, s, "link_new") /\ Inside(p, s.dp) /\ s.dp \in Inum /\ cur[s.dp].type = "DIR"
        /\ TypedAt(s.dp, n, i)
    BY <1>1, LastEntry
  <1>3. s.ip \in Inum /\ i \in Inum /\ cur[i].type # "none"
    BY <1>2 DEF Resting, LocalOK, Nodes, OnBoth, TypedAt
  <1>4. cur[s.ip].type # "none" /\ cur[s.ip].type # "DIR"
    BY <1>2, <1>3 DEF Resting, UseOK, Owes, Inum
  <1>5. Holds(s) = 0 /\ Owes(s) /\ ~Away(s)
    BY <1>2 DEF Resting, Holds, Owes, Away
  <1>6. /\ Putting(t, t, i, "link_clash") /\ t.op = "none" /\ t.np = FALSE /\ t.ip = s.ip /\ t.dp = s.dp
    BY DEF Clashes
  <1>7. LocalOK(t)
    BY <1>2, <1>3, <1>6, Zenon DEF Putting, LocalOK, Nodes, OpOK, PathOK, Path2OK, Labels, Finals, OnNode,
       OnDir, OnBoth, OnEntry
  <1>8. Holds(t) = s.dp /\ Calm(s, t)
    BY <1>2, <1>5, <1>6, <1>7 DEF Putting, Calm, Holds, Owes, Away, Resting
  <1>9. Relocked(p, t)
    <2>1. lock[s.dp] = None /\ Holds(st[p]) = 0
      BY <1>2, <1>5 DEF Inside
    <2> QED BY <2>1, <1>2, <1>8, Take
  <1>10. /\ Read(p) \in [Inum -> Slot] /\ Coherent(Read(p), cur) /\ Read(p)[i].ref >= 0
         /\ Serves(ic, Read(p)) /\ \A j \in Inum : Read(p)[j].ref = ic[j].ref
    BY <1>2, <1>3 DEF Inside, Resting
  <1>11. Serves(Read(p), ic') /\ Serves(ic, ic') /\ \A j \in Inum : ic'[j].ref = ic[j].ref + B(j = i)
    BY <1>3, <1>10, IgetServes, ServesTrans, SMTT(60)
  <1>12. ic'[s.dp].valid
    <2>1. Read(p)[s.dp].valid /\ Read(p)[s.dp].ref > 0 /\ ic[s.dp].ref \in Nat
      BY <1>2, <1>10 DEF Inside, Resting
    <2>2. ic'[s.dp].ref > 0
      BY <2>1, <1>2, <1>10, <1>11 DEF B
    <2> QED BY <2>1, <2>2, <1>2, <1>11 DEF Serves
  <1>13. \A j \in Inum : Own(t, j) = Own(s, j) + B(j = i)
    <2> SUFFICES ASSUME NEW j \in Inum PROVE Own(t, j) = Own(s, j) + B(j = i)
      OBVIOUS
    <2>1. Own(s, j) = B(s.ip = j) + B(s.dp = j) /\ Own(t, j) = B(s.ip = j) + B(s.dp = j) + B(i = j)
      BY <1>2, <1>6 DEF Resting, Putting
    <2>2. B(i = j) = B(j = i)
      BY DEF B
    <2> QED BY <2>1, <2>2
  <1>14. \A j \in Inum : ic'[j].ref = ic[j].ref + lost'[j] - lost[j] + Own(t, j) - Own(s, j)
    <2>1. \A j \in Inum : ic[j].ref \in Int /\ lost[j] \in Int /\ lost'[j] = lost[j]
      BY <1>2 DEF Resting
    <2>2. \A j \in Inum : B(j = i) \in Int /\ Own(s, j) \in Int
      BY DEF B, Own
    <2> QED BY <1>11, <1>13, <2>1, <2>2
  <1>15. UseOK(cur, cwd[p], t)
    <2>1. cwd[p] # 0 => cur[cwd[p]].type = "DIR"
      BY <1>2 DEF Resting, UseOK
    <2>2. /\ t.ip # 0 => cur[t.ip].type # "none"
          /\ t.dp # 0 => cur[t.dp].type # "none"
          /\ Owes(t) => cur[t.ip].type # "DIR"
      BY <1>2, <1>4, <1>6
    <2>3. "link_clash" \notin OnEntry \cup {"created"}
      BY DEF OnEntry
    <2> QED BY <1>3, <1>6, <2>1, <2>2, <2>3, UsePutting
  <1>16. lost' \in [Inum -> Nat] /\ \A j \in Inum : Holds(t) = j => ic'[j].valid
    BY <1>2, <1>8, <1>12 DEF Resting
  <1> QED BY <1>8, <1>9, <1>11, <1>14, <1>15, <1>16, Move

\* The branch of unlink() that finds the directory not empty.
LEMMA UnlinkBusy ==
  ASSUME Inv, NEW p \in Proc, NEW s, s = st[p], Locks(p, "unlink_ip"), ic' = Read(p),
         UNCHANGED <<cur, lock, file, ofile, cwd, lost>>,
         NEW t, t = Put([Idle EXCEPT !.dp = s.dp], <<s.ip>>, "unlink_bad"), Moves(p, t)
  PROVE  Inv'
  <1>1. Resting(p, s, "unlink_ip") /\ Inside(p, s.ip)
    BY Enter DEF OnBoth
  <1>2. s.ip \in Inum /\ s.dp \in Inum
    BY <1>1 DEF Resting, LocalOK, Nodes, OnBoth
  <1>3. cur[s.ip].type # "none" /\ cur[s.dp].type # "none"
    BY <1>1, <1>2 DEF Resting, UseOK, Inum
  <1>4. /\ Putting(t, t, s.ip, "unlink_bad") /\ t.op = "none" /\ t.np = FALSE /\ t.ip = 0 /\ t.dp = s.dp
    <2>1. PICK u : u = [Idle EXCEPT !.dp = s.dp]
      OBVIOUS
    <2>2. s.dp \in 0..NI
      BY <1>2 DEF Inum
    <2>3. u \in Local /\ u.op = "none" /\ u.np = FALSE /\ u.ip = 0 /\ u.dp = s.dp
      BY <2>1, <2>2, IdleLocal DEF Local
    <2>4. "unlink_bad" \in Labels \ Outside
      BY DEF Labels, OnDir, Outside
    <2>5. Putting(t, u, s.ip, "unlink_bad")
      BY <1>2, <2>1, <2>3, <2>4, PutOne
    <2> QED BY <2>3, <2>5 DEF Putting
  <1>5. LocalOK(t)
    BY <1>2, <1>4 DEF Putting, LocalOK, Nodes, OpOK, PathOK, Path2OK, Labels, Finals, OnNode,
       OnDir, OnBoth, OnEntry
  <1>6. Quiet(s, t)
    BY <1>1, <1>4, <1>5 DEF Putting, Quiet, Holds, Owes, Away, Resting
  <1>7. \A j \in Inum : Own(t, j) = Own(s, j)
    BY <1>1, <1>4 DEF Resting, Putting, B, Inum
  <1>8. Serves(ic, ic') /\ \A j \in Inum : ic'[j].ref = ic[j].ref
    BY <1>1 DEF Inside
  <1>9. \A j \in Inum : ic'[j].ref = ic[j].ref + lost'[j] - lost[j] + Own(t, j) - Own(s, j)
    <2>1. \A j \in Inum : ic[j].ref \in Int /\ lost[j] \in Int /\ lost'[j] = lost[j] /\ Own(s, j) \in Int
      BY <1>1 DEF Resting, Own, B
    <2> QED BY <1>7, <1>8, <2>1
  <1>10. UseOK(cur, cwd[p], t)
    <2>1. cwd[p] # 0 => cur[cwd[p]].type = "DIR"
      BY <1>1 DEF Resting, UseOK
    <2>2. ~Owes(t)
      BY <1>4 DEF Owes, Putting
    <2>3. "unlink_bad" \notin OnEntry \cup {"created"}
      BY DEF OnEntry
    <2> QED BY <1>3, <1>4, <2>1, <2>2, <2>3, UsePutting
  <1>11. lost' \in [Inum -> Nat]
    BY <1>1 DEF Resting
  <1> QED BY <1>6, <1>8, <1>9, <1>10, <1>11, Keep

\* link() of a directory, chdir() to something else: the call ends.
LEMMA RefuseInv ==
  ASSUME Inv, NEW p \in Proc, NEW s, s = st[p], NEW l \in {"link_old", "chdir"}, Locks(p, l),
         ic' = Read(p), UNCHANGED <<cur, lock, file, ofile, cwd, lost>>, Moves(p, Finish(<<s.ip>>))
  PROVE  Inv'
  <1>1. PICK t : t = Finish(<<s.ip>>)
    OBVIOUS
  <1>2. Resting(p, s, l) /\ Inside(p, s.ip)
    BY Enter DEF OnNode
  <1>3. s.ip \in Inum /\ s.dp = 0 /\ cur[s.ip].type # "none" /\ l \in Labels \ Outside
    BY <1>2 DEF Resting, Inside, LocalOK, Nodes, OnNode, Outside
  <1>4. \A i \in Inum : Own(s, i) = B(s.ip = i)
    BY <1>2, <1>3 DEF Resting, B, Inum
  <1>5. Holds(s) = 0 /\ ~Owes(s)
    BY <1>2 DEF Resting, Holds, Owes
  <1>6. Serves(ic, ic') /\ \A i \in Inum : ic'[i].ref = ic[i].ref
    BY <1>2 DEF Inside
  <1> QED BY <1>1, <1>2, <1>3, <1>4, <1>5, <1>6, FinishInv

-----------------------------------------------------------------------------
(* Steps that write a disk inode.                                          *)

\* What is left to show of the inodes in use, for a step of process p with file system fs.
OthersUse(fs, p) ==
  /\ \A q \in Proc : q # p => UseOK(fs, cwd[q], st[q])
  /\ \A f \in File : file[f].ip # 0 => fs[file[f].ip].type # "none"

\* The references follow the pointers of the call.
RefsFollow(s, t) ==
  \A i \in Inum : ic'[i].ref = ic[i].ref + lost'[i] - lost[i] + Own(t, i) - Own(s, i)

LEMMA Write ==
  ASSUME Inv, NEW p \in Proc, NEW s, s = st[p], NEW t, LocalOK(t), Away(t) <=> Away(s),
         Moves(p, t), Relocked(p, t), UNCHANGED <<file, ofile, cwd, lost>>,
         cur' \in [Inum -> Dinode], ic' \in [Inum -> Slot], Coherent(ic', cur'), RefsFollow(s, t),
         \A i \in Inum : lock'[i] # None => ic'[i].valid,
         OthersUse(cur', p), UseOK(cur', cwd[p], t), Linked', Targets'
  PROVE  Inv'
  <1> USE DEF Inv
  <1>1. Types'
    <2>1. st' \in [Proc -> Local] /\ \A q \in Proc : LocalOK(st'[q])
      BY MovesOne
    <2> QED BY <2>1 DEF Types, Relocked
  <1>2. Refs'
    <2>1. lost \in [Inum -> Nat]
      BY DEF Types
    <2>2. \A i \in Inum : lost'[i] \in Int
      BY <2>1
    <2>3. \A i \in Inum : ic[i].ref \in Int /\ lost[i] \in Int /\ Own(t, i) \in Int /\ Own(st[p], i) \in Int
      BY <2>1 DEF Types, Slot, Own, B
    <2>4. \A i \in Inum : ic'[i].ref = ic[i].ref + lost'[i] - lost[i] + Own(t, i) - Own(st[p], i)
                                       + B(cwd'[p] = i) - B(cwd[p] = i)
      <3> SUFFICES ASSUME NEW i \in Inum
                   PROVE  ic'[i].ref = ic[i].ref + lost'[i] - lost[i] + Own(t, i) - Own(st[p], i)
                                       + B(cwd'[p] = i) - B(cwd[p] = i)
        OBVIOUS
      <3>1. B(cwd'[p] = i) = B(cwd[p] = i) /\ B(cwd[p] = i) \in Int
        BY DEF B
      <3> QED BY <2>2, <2>3, <3>1 DEF RefsFollow
    <2> QED BY <2>2, <2>4, RefsMove
  <1>3. Files' /\ Coherent(ic, cur)'
    BY FilesSame
  <1>4. Alive'
    <2>1. Away(t) <=> Away(st[p])
      OBVIOUS
    <2> QED BY <2>1, AliveMove
  <1>5. Locked'
    BY LockedMove DEF Relocked
  <1>6. InUse'
    <2>1. /\ \A q \in Proc : q # p => UseOK(cur', cwd'[q], st[q])
          /\ \A f \in File : file'[f].ip # 0 => cur'[file'[f].ip].type # "none"
          /\ UseOK(cur', cwd'[p], t)
      BY DEF OthersUse
    <2> QED BY <2>1, UseMove
  <1> QED BY <1>1, <1>2, <1>3, <1>4, <1>5, <1>6

\* A locked inode stays locked, and its slot valid, unless the step itself sees to it.
LEMMA LockedValid ==
  ASSUME Inv, NEW p \in Proc, NEW t, Relocked(p, t), NEW i \in Inum, lock'[i] # None, lock'[i] # p
  PROVE  lock[i] # None /\ ic[i].valid /\ ic[i].ref > 0
  <1>1. PICK q \in Proc : lock'[i] = q
    BY DEF Relocked
  <1>2. lock[i] = q
    BY <1>1 DEF Relocked
  <1>3. lock[i] # None
    BY <1>2, FSAssumption
  <1> QED BY <1>3, LockedUsed

\* What a call of another process works with stays what it is.
Spares(fs, fs2, w, s) ==
  /\ \A i \in Inum : fs[i].type # "none" /\ fs2[i].type # fs[i].type => Own(s, i) = 0 /\ w # i
  /\ Lab(s) = "unlink_ip" => fs2[s.dp].ent = fs[s.dp].ent

LEMMA UseSpared ==
  ASSUME NEW fs, NEW fs2, NEW w \in 0..NI, NEW s, LocalOK(s), UseOK(fs, w, s), Spares(fs, fs2, w, s)
  PROVE  UseOK(fs2, w, s)
  <1>1. s \in Local /\ s.ip \in 0..NI /\ s.dp \in 0..NI
    BY DEF LocalOK, Local
  <1>2. \A i \in Inum : fs[i].type # "none" /\ Own(s, i) # 0 => fs2[i].type = fs[i].type
    BY DEF Spares
  <1>3. \A i \in Inum : s.ip = i \/ s.dp = i => Own(s, i) # 0
    <2> SUFFICES ASSUME NEW i \in Inum, s.ip = i \/ s.dp = i PROVE Own(s, i) # 0
      OBVIOUS
    <2>1. /\ B(s.ip = i) \in 0..1 /\ B(s.dp = i) \in 0..1
          /\ B(PutAt(s, 1, i)) \in 0..1 /\ B(PutAt(s, 2, i)) \in 0..1
          /\ B(s.ip = i) = 1 \/ B(s.dp = i) = 1
      BY DEF B
    <2> QED BY <2>1 DEF Own
  <1>4. \A j \in DOMAIN s.puts : s.puts[j] \in Inum /\ Own(s, s.puts[j]) # 0
    <2>1. s.puts \in Seq(Inum) /\ (s.puts = <<>> \/ Len(s.puts) \in 1..2)
      BY <1>1 DEF LocalOK, PutsOK, Local
    <2> SUFFICES ASSUME NEW j \in DOMAIN s.puts PROVE s.puts[j] \in Inum /\ Own(s, s.puts[j]) # 0
      OBVIOUS
    <2>2. j \in 1..2 /\ s.puts[j] \in Inum
      BY <2>1
    <2>3. PICK i \in Inum : i = s.puts[j]
      BY <2>2
    <2>4. PutAt(s, j, i)
      BY <2>3 DEF PutAt
    <2>5. B(PutAt(s, 1, i)) = 1 \/ B(PutAt(s, 2, i)) = 1
      BY <2>2, <2>4 DEF B
    <2>6. /\ B(s.ip = i) \in 0..1 /\ B(s.dp = i) \in 0..1
          /\ B(PutAt(s, 1, i)) \in 0..1 /\ B(PutAt(s, 2, i)) \in 0..1
      BY DEF B
    <2>7. Own(s, i) # 0
      BY <2>5, <2>6 DEF Own
    <2> QED BY <2>2, <2>3, <2>7
  <1>5. w # 0 => fs2[w].type = "DIR"
    <2>1. w # 0 => w \in Inum /\ fs[w].type = "DIR"
      BY DEF UseOK, Inum
    <2> QED BY <2>1 DEF Spares
  <1>6. /\ s.ip # 0 => fs[s.ip].type # "none" /\ fs2[s.ip].type = fs[s.ip].type
        /\ s.dp # 0 => fs[s.dp].type # "none" /\ fs2[s.dp].type = fs[s.dp].type
    BY <1>1, <1>2, <1>3 DEF UseOK, Inum
  <1>7. /\ Lab(s) \in OnEntry => s.dp # 0
        /\ Owes(s) \/ Lab(s) = "created" => s.ip # 0
    BY DEF LocalOK, Nodes, OnEntry, OnBoth, OnDir, OnNode, Owes, Inum, Linking
  <1>8. \A j \in DOMAIN s.puts : fs2[s.puts[j]].type # "none" \/ (s.pc = "drop" /\ j = 1)
    <2> SUFFICES ASSUME NEW j \in DOMAIN s.puts, ~(s.pc = "drop" /\ j = 1)
                 PROVE  fs2[s.puts[j]].type # "none"
      OBVIOUS
    <2>1. fs[s.puts[j]].type # "none"
      BY DEF UseOK
    <2> QED BY <2>1, <1>2, <1>4
  <1>9. Lab(s) = "unlink_ip" => fs2[s.dp].ent[Head(s.path)] = s.ip
    BY DEF UseOK, Spares
  <1>10. Lab(s) \in OnEntry => fs2[s.dp].type = "DIR"
    BY <1>6, <1>7 DEF UseOK
  <1>11. Owes(s) /\ Lab(s) # "unlink_dec" => fs2[s.ip].type # "DIR"
    BY <1>6, <1>7 DEF UseOK
  <1>12. Lab(s) = "created" /\ fs2[s.ip].type = "LINK" => IsPath(s.path2)
    BY <1>6, <1>7 DEF UseOK
  <1> QED BY <1>5, <1>6, <1>8, <1>9, <1>10, <1>11, <1>12 DEF UseOK

\* The links that calls owe for an inode.
LEMMA OwingMove ==
  ASSUME Types, NEW p \in Proc, NEW s, s = st[p], NEW t, LocalOK(t), Moves(p, t), NEW i
  PROVE  /\ Cardinality(Owing(i)) \in Nat /\ Cardinality(Owing(i)') \in Nat
         /\ Cardinality(Owing(i)') = Cardinality(Owing(i)) + B(Owes(t) /\ t.ip = i) - B(Owes(s) /\ s.ip = i)
  <1>1. st'[p] = t /\ \A q \in Proc : q # p => st'[q] = st[q]
    BY MovesOne
  <1>2. PICK O : O = Owing(i)
    OBVIOUS
  <1>3. PICK O2 : O2 = Owing(i)'
    OBVIOUS
  <1>4. IsFiniteSet(O) /\ O \ {p} = O2 \ {p}
    BY <1>1, <1>2, <1>3, DueSplit DEF Owing
  <1>5. (p \in O <=> Owes(s) /\ s.ip = i) /\ (p \in O2 <=> Owes(t) /\ t.ip = i)
    BY <1>1, <1>2, <1>3 DEF Owing
  <1>6. B(p \in O) = B(Owes(s) /\ s.ip = i) /\ B(p \in O2) = B(Owes(t) /\ t.ip = i)
    BY <1>5 DEF B
  <1>7. /\ Cardinality(O) \in Nat /\ Cardinality(O2) \in Nat
        /\ Cardinality(O2) = Cardinality(O) + B(p \in O2) - B(p \in O)
    BY <1>4, CountOne
  <1> QED BY <1>2, <1>3, <1>6, <1>7

\* Entries depend on the directories only.
SameTree(fs, fs2) ==
  \A d \in Inum : fs2[d].type = fs[d].type /\ fs2[d].ent = fs[d].ent /\ fs2[d].parent = fs[d].parent

LEMMA SameEntries ==
  ASSUME NEW fs, NEW fs2, SameTree(fs, fs2)
  PROVE  \A i : Names(fs2, i) = Names(fs, i) /\ Entries(fs2, i) = Entries(fs, i)
  <1>1. \A i : Names(fs2, i) = Names(fs, i)
    BY DEF Names, SameTree
  <1>2. \A i : Subdirs(fs2, i) = Subdirs(fs, i)
    BY <1>1 DEF Subdirs, SameTree
  <1> QED BY <1>1, <1>2 DEF Entries, Subdirs

LEMMA TargetsKeep ==
  ASSUME Types, Targets, NEW p \in Proc, NEW t, LocalOK(t), Moves(p, t),
         Lab(st[p]) = "created" => Lab(t) = "created" /\ t.ip = st[p].ip,
         \A j \in Inum : cur'[j].type = "LINK"
           => \/ cur[j].type = "LINK" /\ cur'[j].target = cur[j].target
              \/ Lab(t) = "created" /\ t.ip = j
  PROVE  Targets'
  <1>1. st'[p] = t /\ \A q \in Proc : q # p => st'[q] = st[q]
    BY MovesOne
  <1>2. \A q \in Proc : Lab(st[q]) = "created" => Lab(st'[q]) = "created" /\ st'[q].ip = st[q].ip
    BY <1>1
  <1> QED BY <1>1, <1>2 DEF Targets

\* Types and contents of all inodes stay as they are.
LEMMA UseSame ==
  ASSUME Inv, NEW p \in Proc, NEW s, s = st[p], NEW t, LocalOK(t), UseOK(cur, cwd[p], t), NEW fs,
         \A d \in Inum : fs[d].type = cur[d].type /\ fs[d].ent = cur[d].ent
  PROVE  OthersUse(fs, p) /\ UseOK(fs, cwd[p], t)
  <1>1. \A q \in Proc : cwd[q] \in 0..NI /\ LocalOK(st[q]) /\ UseOK(cur, cwd[q], st[q])
    BY DEF Inv, Types, InUse
  <1>2. ASSUME NEW r, LocalOK(r), NEW w PROVE Spares(cur, fs, w, r)
    <2>1. r.dp \in Inum \/ Lab(r) # "unlink_ip"
      BY <1>2 DEF LocalOK, Nodes, OnBoth
    <2> QED BY <2>1 DEF Spares
  <1>3. \A q \in Proc : UseOK(fs, cwd[q], st[q])
    BY <1>1, <1>2, UseSpared
  <1>4. UseOK(fs, cwd[p], t)
    BY <1>1, <1>2, UseSpared
  <1>5. \A f \in File : file[f].ip # 0 => fs[file[f].ip].type # "none"
    <2>1. \A f \in File : file[f].ip \in 0..NI
      BY DEF Inv, Types
    <2>2. \A f \in File : file[f].ip # 0 => cur[file[f].ip].type # "none"
      BY DEF Inv, InUse
    <2> QED BY <2>1, <2>2 DEF Inum
  <1> QED BY <1>3, <1>4, <1>5 DEF OthersUse

\* The link counts follow the entries and the links that calls owe, exactly for directories.
Follows(s, t, i) ==
  cur[i].nlink + Entries(cur', i) - Entries(cur, i) + B(Owes(t) /\ t.ip = i) - B(Owes(s) /\ s.ip = i)
Balanced(s, t) ==
  \A i \in Inum :
    /\ cur'[i].nlink >= Follows(s, t, i)
    /\ cur'[i].type = "DIR" => /\ cur'[i].nlink = Follows(s, t, i)
                               /\ cur[i].type = "DIR" \/ (cur[i].type = "none" /\ i # Root)

LEMMA LinkedBalanced ==
  ASSUME Inv, NEW p \in Proc, NEW s, s = st[p], NEW t, LocalOK(t), Moves(p, t),
         cur' \in [Inum -> Dinode], DirsOK(cur'), Balanced(s, t)
  PROVE  Linked'
  <1>1. ASSUME NEW i \in Inum
        PROVE  /\ cur'[i].nlink >= Due(i)'
               /\ cur'[i].type = "DIR" => cur'[i].nlink = Due(i)' + Extra(i)
    <2>1. /\ Cardinality(Owing(i)) \in Nat /\ Cardinality(Owing(i)') \in Nat
          /\ Cardinality(Owing(i)') = Cardinality(Owing(i)) + B(Owes(t) /\ t.ip = i) - B(Owes(s) /\ s.ip = i)
      BY OwingMove DEF Inv
    <2>2. /\ Due(i) = Entries(cur, i) + Cardinality(Owing(i)) /\ Entries(cur, i) \in Nat
          /\ Due(i)' = Entries(cur', i) + Cardinality(Owing(i)')
      BY DueSplit DEF Due
    <2>3. Entries(cur', i) \in Nat
      <3>1. /\ Cardinality(Names(cur', i)) \in Nat /\ Cardinality(Subdirs(cur', i)) \in Nat
            /\ Entries(cur', i) = Cardinality(Names(cur', i)) + Cardinality(Subdirs(cur', i))
        BY EntriesSplit
      <3> QED BY <3>1
    <2>4. /\ cur[i].nlink >= Due(i)
          /\ cur[i].type = "DIR" => cur[i].nlink = Due(i) + Extra(i)
          /\ cur[i].nlink \in Int /\ Extra(i) \in Int
          /\ cur[i].type = "none" => cur[i].nlink = 0
      BY DEF Inv, Linked, Extra, Types, Dinode, DirsOK
    <2>5. B(Owes(t) /\ t.ip = i) \in Int /\ B(Owes(s) /\ s.ip = i) \in Int
      BY DEF B
    <2>6. /\ cur'[i].nlink >= Follows(s, t, i) /\ cur'[i].nlink \in Int
          /\ cur'[i].type = "DIR" => cur'[i].nlink = Follows(s, t, i)
      <3>1. cur'[i].nlink \in Int
        BY DEF Dinode
      <3> QED BY <3>1 DEF Balanced
    <2>7. cur'[i].type = "DIR" => cur[i].nlink = Due(i) + Extra(i)
      <3>1. cur'[i].type = "DIR" => cur[i].type = "DIR" \/ (cur[i].type = "none" /\ i # Root)
        BY DEF Balanced
      <3>2. cur[i].type = "none" /\ i # Root => cur[i].nlink = Due(i) + Extra(i)
        BY <2>1, <2>2, <2>4 DEF Extra
      <3> QED BY <2>4, <3>1, <3>2
    <2> QED BY <2>1, <2>2, <2>3, <2>4, <2>5, <2>6, <2>7 DEF Follows
  <1>2. \A i \in Inum : Extra(i)' = Extra(i)
    BY DEF Extra
  <1> QED BY <1>1, <1>2 DEF Linked

\* The directories stay what they are.
LEMMA SameDirs ==
  ASSUME NEW fs, DirsOK(fs), NEW fs2, SameTree(fs, fs2), \A i \in Inum : fs2[i].type = "none" => fs2[i].nlink = 0
  PROVE  DirsOK(fs2)
  <1>1. \A i : Names(fs2, i) = Names(fs, i)
    BY SameEntries
  <1>2. fs2[Root].type = "DIR"
    BY FSAssumption DEF SameTree, DirsOK, Root, Inum
  <1>3. \A i \in Inum : fs2[i].type = "DIR" => /\ fs2[i].parent = Root
                                               /\ \A x \in Names(fs2, i) : x[1] = Root
                                               /\ \A x, y \in Names(fs2, i) : x = y
    <2> SUFFICES ASSUME NEW i \in Inum, fs2[i].type = "DIR"
                 PROVE  /\ fs2[i].parent = Root
                        /\ \A x \in Names(fs2, i) : x[1] = Root
                        /\ \A x, y \in Names(fs2, i) : x = y
      OBVIOUS
    <2>1. fs[i].type = "DIR" /\ fs2[i].parent = fs[i].parent /\ Names(fs2, i) = Names(fs, i)
      BY <1>1 DEF SameTree
    <2>2. /\ fs[i].parent = Root
          /\ \A x \in Names(fs, i) : x[1] = Root
          /\ \A x, y \in Names(fs, i) : x = y
      BY <2>1 DEF DirsOK
    <2> QED BY <2>1, <2>2
  <1> QED BY <1>2, <1>3 DEF DirsOK

\* A step changes the link count of one inode, and the link that the call owes for it.
Counts(s, t, i, n) ==
  /\ n = cur[i].nlink + B(Owes(t) /\ t.ip = i) - B(Owes(s) /\ s.ip = i)
  /\ \A j \in Inum : j # i => (Owes(t) /\ t.ip = j <=> Owes(s) /\ s.ip = j)

LEMMA CountInv ==
  ASSUME Inv, NEW p \in Proc, NEW s, s = st[p], NEW t, LocalOK(t), Away(t) <=> Away(s),
         Moves(p, t), Relocked(p, t), UNCHANGED <<file, ofile, cwd, lost>>,
         NEW i \in Inum, cur[i].type # "none", NEW n \in Int, cur' = [cur EXCEPT ![i].nlink = n],
         NEW c \in [Inum -> Slot], Coherent(c, cur), ic' = [c EXCEPT ![i].nlink = n],
         Counts(s, t, i, n), Lab(s) # "created", RefsFollow(s, t),
         \A j \in Inum : lock'[j] # None => c[j].valid, UseOK(cur, cwd[p], t)
  PROVE  Inv'
  <1>1. /\ cur' \in [Inum -> Dinode] /\ cur'[i].nlink = n
        /\ \A j \in Inum : /\ cur'[j].type = cur[j].type /\ cur'[j].ent = cur[j].ent
                           /\ cur'[j].parent = cur[j].parent /\ cur'[j].target = cur[j].target
        /\ \A j \in Inum : j # i => cur'[j].nlink = cur[j].nlink
    <2>1. cur \in [Inum -> Dinode]
      BY DEF Inv, Types
    <2>2. [cur[i] EXCEPT !.nlink = n] \in Dinode /\ cur[i] \in Dinode
      BY <2>1 DEF Dinode
    <2>3. PICK d : d = [cur[i] EXCEPT !.nlink = n]
      OBVIOUS
    <2>4. /\ d.type = cur[i].type /\ d.ent = cur[i].ent /\ d.parent = cur[i].parent
          /\ d.target = cur[i].target /\ d.nlink = n
      BY <2>2, <2>3 DEF Dinode
    <2>5. cur' \in [Inum -> Dinode] /\ cur'[i] = d /\ \A j \in Inum : j # i => cur'[j] = cur[j]
      BY <2>1, <2>2, <2>3
    <2> QED BY <2>4, <2>5
  <1>2. /\ ic' \in [Inum -> Slot] /\ ic'[i].nlink = n
        /\ \A j \in Inum : ic'[j].valid = c[j].valid /\ ic'[j].type = c[j].type
        /\ \A j \in Inum : j # i => ic'[j].nlink = c[j].nlink
    BY DEF Slot
  <1>3. Coherent(ic', cur')
    BY <1>1, <1>2 DEF Coherent
  <1>4. \A j \in Inum : lock'[j] # None => ic'[j].valid
    BY <1>2
  <1>5. OthersUse(cur', p) /\ UseOK(cur', cwd[p], t)
    BY <1>1, UseSame
  <1>6. SameTree(cur, cur') /\ \A j \in Inum : Entries(cur', j) = Entries(cur, j) /\ Entries(cur, j) \in Int
    <2>1. SameTree(cur, cur')
      BY <1>1 DEF SameTree
    <2>2. \A j : Entries(cur', j) = Entries(cur, j)
      BY <2>1, SameEntries
    <2>3. \A j \in Inum : Entries(cur, j) \in Int
      BY DueSplit
    <2> QED BY <2>1, <2>2, <2>3
  <1>7. Linked'
    <2>1. DirsOK(cur')
      <3>1. DirsOK(cur) /\ \A j \in Inum : cur'[j].type = "none" => cur'[j].nlink = 0
        BY <1>1 DEF Inv, Linked, DirsOK
      <3> QED BY <3>1, <1>6, SameDirs
    <2>2. \A j \in Inum : cur'[j].nlink \in Int
      BY <1>1 DEF Dinode
    <2>3. Balanced(s, t)
      <3> SUFFICES ASSUME NEW j \in Inum
                   PROVE  cur'[j].nlink = Follows(s, t, j)
        BY <1>1, <2>2 DEF Balanced
      <3>1. cur[j].nlink \in Int
        BY DEF Inv, Types, Dinode
      <3>2. cur'[j].nlink = cur[j].nlink + B(Owes(t) /\ t.ip = j) - B(Owes(s) /\ s.ip = j)
        BY <1>1, <3>1 DEF Counts, B
      <3>3. B(Owes(t) /\ t.ip = j) \in Int /\ B(Owes(s) /\ s.ip = j) \in Int
        BY DEF B
      <3>4. Entries(cur', j) = Entries(cur, j) /\ Entries(cur, j) \in Int
        BY <1>6
      <3> QED BY <3>1, <3>2, <3>3, <3>4 DEF Follows
    <2> QED BY <1>1, <2>1, <2>3, LinkedBalanced
  <1>8. Targets'
    <2>1. Lab(st[p]) # "created"
      OBVIOUS
    <2> QED BY <2>1, <1>1, TargetsKeep DEF Inv
  <1> QED BY <1>1, <1>2, <1>3, <1>4, <1>5, <1>7, <1>8, Write

LEMMA Kept ==
  ASSUME Inv, NEW p \in Proc, UNCHANGED lock, NEW t, Holds(t) = Holds(st[p])
  PROVE  Relocked(p, t)
  BY DEF Inv, Types, Locked, Relocked

LEMMA LinkBadInv ==
  ASSUME Inv, NEW p \in Proc, link_bad(p)
  PROVE  Inv'
  <1>0. PICK s : s = st[p]
    OBVIOUS
  <1>1. PICK t : t = Finish(<<s.ip>>)
    OBVIOUS
  <1>2. PICK i : i = s.ip
    OBVIOUS
  <1>3. PICK n : n = Loaded(i).nlink - 1
    OBVIOUS
  <1>4. PICK c : c = Read(p)
    OBVIOUS
  <1>5. /\ Locks(p, "link_bad") /\ ic' = [c EXCEPT ![i].nlink = n] /\ cur' = [cur EXCEPT ![i].nlink = n]
        /\ Moves(p, t) /\ UNCHANGED <<file, ofile, cwd, lock, lost>>
    BY <1>0, <1>1, <1>2, <1>3, <1>4 DEF link_bad, SetLinks, Go, Moves, tables
  <1>6. Resting(p, s, "link_bad") /\ Inside(p, i)
    BY <1>0, <1>2, <1>5, Enter DEF OnNode
  <1>7. i \in Inum /\ s.ip = i /\ s.dp = 0 /\ cur[i].type # "none" /\ lock[i] = None
    BY <1>2, <1>6 DEF Resting, Inside, LocalOK, Nodes, OnNode
  <1>8. n \in Int /\ n = cur[i].nlink - 1
    BY <1>3, <1>6, <1>7 DEF Inside, Inv, Types, Dinode
  <1>9. Ending(t, i) /\ UseOK(cur, cwd[p], t)
    <2>1. cwd[p] # 0 => cur[cwd[p]].type = "DIR"
      BY <1>6 DEF Resting, UseOK
    <2> QED BY <2>1, <1>1, <1>2, <1>7, FinishOne
  <1>10. Holds(s) = 0 /\ Owes(s) /\ ~Away(s) /\ Lab(s) # "created"
    BY <1>6 DEF Resting, Holds, Owes, Away
  <1>11. LocalOK(t) /\ (Away(t) <=> Away(s)) /\ Relocked(p, t)
    <2>1. Holds(t) = Holds(st[p])
      BY <1>0, <1>9, <1>10 DEF Ending
    <2> QED BY <2>1, <1>5, <1>9, <1>10, Kept DEF Ending
  <1>12. Counts(s, t, i, n)
    <2>1. B(Owes(t) /\ t.ip = i) = 0 /\ B(Owes(s) /\ s.ip = i) = 1
      BY <1>7, <1>9, <1>10 DEF B, Ending
    <2>2. cur[i].nlink \in Int
      BY <1>7 DEF Inv, Types, Dinode
    <2> QED BY <2>1, <2>2, <1>7, <1>8, <1>9, <1>10 DEF Counts, Ending
  <1>13. /\ c \in [Inum -> Slot] /\ Coherent(c, cur) /\ \A j \in Inum : lock'[j] # None => c[j].valid
    <2>1. \A j \in Inum : lock[j] # None => ic[j].valid
      BY DEF Inv, Locked
    <2> QED BY <2>1, <1>4, <1>5, <1>6, <1>7 DEF Inside
  <1>14. RefsFollow(s, t)
    <2>1. \A j \in Inum : ic'[j].ref = c[j].ref
      BY <1>5, <1>7, <1>13 DEF Slot
    <2>2. \A j \in Inum : c[j].ref = ic[j].ref
      BY <1>4, <1>6 DEF Inside
    <2>3. \A j \in Inum : Own(t, j) = B(i = j) /\ Own(s, j) = B(i = j)
      BY <1>6, <1>7, <1>9 DEF Ending, Resting, B, Inum
    <2>4. \A j \in Inum : ic[j].ref \in Int /\ lost[j] \in Int /\ lost'[j] = lost[j] /\ B(i = j) \in Int
      BY <1>5, <1>6 DEF Resting, B
    <2> QED BY <2>1, <2>2, <2>3, <2>4 DEF RefsFollow
  <1> QED BY <1>0, <1>5, <1>7, <1>8, <1>9, <1>10, <1>11, <1>12, <1>13, <1>14, CountInv

LEMMA UnlinkDecInv ==
  ASSUME Inv, NEW p \in Proc, unlink_dec(p)
  PROVE  Inv'
  <1>0. PICK s : s = st[p]
    OBVIOUS
  <1>1. PICK t : t = Finish(<<s.ip>>)
    OBVIOUS
  <1>2. PICK i : i = s.ip
    OBVIOUS
  <1>3. PICK n : n = ic[i].nlink - 1
    OBVIOUS
  <1>4. /\ s.pc = "unlink_dec" /\ ic' = [ic EXCEPT ![i].nlink = n] /\ cur' = [cur EXCEPT ![i].nlink = n]
        /\ Moves(p, t) /\ lock' = [lock EXCEPT ![i] = None] /\ UNCHANGED <<file, ofile, cwd, lost>>
    BY <1>0, <1>1, <1>2, <1>3 DEF unlink_dec, At, SetLinks, Go, Moves, tables
  <1>5. Resting(p, s, "unlink_dec")
    <2>1. "unlink_dec" \in Labels
      BY DEF Labels, OnNode
    <2> QED BY <1>0, <1>4, <2>1, Rest
  <1>6. i \in Inum /\ s.ip = i /\ s.dp = 0 /\ cur[i].type # "none"
    BY <1>2, <1>5 DEF Resting, LocalOK, Nodes, OnNode, UseOK, Inum
  <1>7. Ending(t, i) /\ UseOK(cur, cwd[p], t)
    <2>1. cwd[p] # 0 => cur[cwd[p]].type = "DIR"
      BY <1>5 DEF Resting, UseOK
    <2> QED BY <2>1, <1>1, <1>2, <1>6, FinishOne
  <1>8. Holds(s) = i /\ Owes(s) /\ ~Away(s) /\ Lab(s) # "created"
    BY <1>5, <1>6 DEF Resting, Holds, Owes, Away
  <1>9. LocalOK(t) /\ (Away(t) <=> Away(s)) /\ Relocked(p, t) /\ lock[i] = p
    <2>1. Holds(t) = 0 /\ Holds(st[p]) = i
      BY <1>0, <1>7, <1>8 DEF Ending
    <2>2. Relocked(p, t) /\ lock[i] = p
      BY <2>1, <1>4, <1>6, Give
    <2> QED BY <2>2, <1>7, <1>8 DEF Ending
  <1>10. /\ ic \in [Inum -> Slot] /\ Coherent(ic, cur) /\ \A j \in Inum : lock'[j] # None => ic[j].valid
    <2>1. \A j \in Inum : lock[j] # None => ic[j].valid
      BY DEF Inv, Locked
    <2>2. \A j \in Inum : lock'[j] # None => lock[j] # None
      BY <1>4, <1>6 DEF Inv, Types
    <2> QED BY <2>1, <2>2, <1>5 DEF Resting
  <1>11. n \in Int /\ n = cur[i].nlink - 1
    <2>1. ic[i].valid
      BY <1>6, <1>9, FSAssumption DEF Inv, Locked
    <2>2. ic[i].nlink = cur[i].nlink /\ cur[i].nlink \in Int
      BY <2>1, <1>6, <1>10 DEF Coherent, Inv, Types, Dinode
    <2> QED BY <2>2, <1>3
  <1>12. Counts(s, t, i, n)
    <2>1. B(Owes(t) /\ t.ip = i) = 0 /\ B(Owes(s) /\ s.ip = i) = 1
      BY <1>6, <1>7, <1>8 DEF B, Ending
    <2>2. cur[i].nlink \in Int
      BY <1>6 DEF Inv, Types, Dinode
    <2> QED BY <2>1, <2>2, <1>6, <1>11, <1>7, <1>8 DEF Counts, Ending
  <1>13. RefsFollow(s, t)
    <2>1. \A j \in Inum : ic'[j].ref = ic[j].ref
      BY <1>4, <1>6, <1>10 DEF Slot
    <2>3. \A j \in Inum : Own(t, j) = B(i = j) /\ Own(s, j) = B(i = j)
      BY <1>5, <1>6, <1>7 DEF Ending, Resting, B, Inum
    <2>4. \A j \in Inum : ic[j].ref \in Int /\ lost[j] \in Int /\ lost'[j] = lost[j] /\ B(i = j) \in Int
      BY <1>4, <1>5 DEF Resting, B
    <2> QED BY <2>1, <2>3, <2>4 DEF RefsFollow
  <1> QED BY <1>0, <1>4, <1>6, <1>11, <1>7, <1>8, <1>9, <1>12, <1>10, <1>13, CountInv

LEMMA LinkOldInv ==
  ASSUME Inv, NEW p \in Proc, link_old(p)
  PROVE  Inv'
  <1>0. PICK s : s = st[p]
    OBVIOUS
  <1>1. PICK t : t = Walk(p, s, s.path2, TRUE)
    OBVIOUS
  <1>2. PICK i : i = s.ip
    OBVIOUS
  <1>3. PICK n : n = Loaded(i).nlink + 1
    OBVIOUS
  <1>4. PICK c : c = idup(Read(p), cwd[p])
    OBVIOUS
  <1>5. /\ Locks(p, "link_old") /\ UNCHANGED <<file, ofile, cwd, lock, lost>>
        /\ \/ ic' = Read(p) /\ UNCHANGED cur /\ Moves(p, Finish(<<s.ip>>))
           \/ /\ ic' = [c EXCEPT ![i].nlink = n] /\ cur' = [cur EXCEPT ![i].nlink = n]
              /\ Moves(p, t) /\ Loaded(i).type # "DIR"
    BY <1>0, <1>1, <1>2, <1>3, <1>4 DEF link_old, SetLinks, Go, Moves, tables
  <1>6. CASE ic' = Read(p) /\ UNCHANGED cur /\ Moves(p, Finish(<<s.ip>>))
    BY <1>0, <1>5, <1>6, RefuseInv
  <1>7. CASE /\ ic' = [c EXCEPT ![i].nlink = n] /\ cur' = [cur EXCEPT ![i].nlink = n]
             /\ Moves(p, t) /\ Loaded(i).type # "DIR"
    <2>1. Resting(p, s, "link_old") /\ Inside(p, i)
      BY <1>0, <1>2, <1>5, Enter DEF OnNode
    <2>2. /\ i \in Inum /\ s.ip = i /\ s.dp = 0 /\ cur[i].type # "none" /\ cur[i].type # "DIR"
          /\ lock[i] = None
      BY <1>2, <1>7, <2>1 DEF Resting, Inside, LocalOK, Nodes, OnNode
    <2>3. n \in Int /\ n = cur[i].nlink + 1
      BY <1>3, <2>1, <2>2 DEF Inside, Inv, Types, Dinode
    <2>4. s \in Local /\ s.puts = <<>> /\ s.op = "link" /\ ~s.np /\ IsNames(s.path2) /\ cwd[p] \in Inum
      BY <2>1 DEF Resting, LocalOK, OpOK, Path2OK
    <2>5. Walking(p, t, s, s.path2, TRUE)
      <3>1. s.path2 \in Seq(Elem)
        BY <2>4 DEF Local
      <3> QED BY <3>1, <1>1, <2>4, Walks
    <2>6. LocalOK(t)
      <3>1. IsPath(s.path2)
        BY <2>4 DEF IsPath, IsNames
      <3> QED BY <3>1, <2>2, <2>4, <2>5 DEF Walking, LocalOK, Nodes, OpOK, WalkOp, PathOK, Path2OK,
             PutsOK, Linking, Finals, OnNode, OnDir, OnBoth, OnEntry, Labels
    <2>7. Holds(s) = 0 /\ ~Owes(s) /\ ~Away(s) /\ Lab(s) # "created"
      BY <2>1 DEF Resting, Holds, Owes, Away
    <2>8. Owes(t) /\ t.ip = i /\ ~Away(t) /\ Holds(t) = Holds(st[p])
      BY <1>0, <2>2, <2>4, <2>5, <2>7 DEF Walking, Away
    <2>9. Relocked(p, t) /\ (Away(t) <=> Away(s))
      BY <1>5, <2>7, <2>8, Kept
    <2>10. Counts(s, t, i, n)
      <3>1. B(Owes(t) /\ t.ip = i) = 1 /\ B(Owes(s) /\ s.ip = i) = 0
        BY <2>7, <2>8 DEF B
      <3>2. cur[i].nlink \in Int
        BY <2>2 DEF Inv, Types, Dinode
      <3> QED BY <3>1, <3>2, <2>3, <2>7, <2>8 DEF Counts
    <2>11. /\ c \in [Inum -> Slot] /\ Coherent(c, cur)
           /\ (\A j \in Inum : c[j].ref = ic[j].ref + B(cwd[p] = j))
           /\ \A j \in Inum : c[j].valid = Read(p)[j].valid
      BY <1>4, <2>1, <2>4, IdupCwd DEF Inside
    <2>12. \A j \in Inum : lock'[j] # None => c[j].valid
      <3>1. \A j \in Inum : lock[j] # None => ic[j].valid
        BY DEF Inv, Locked
      <3> QED BY <3>1, <1>5, <2>1, <2>2, <2>11 DEF Inside
    <2>13. RefsFollow(s, t)
      <3>1. \A j \in Inum : ic'[j].ref = c[j].ref
        BY <1>7, <2>2, <2>11 DEF Slot
      <3>2. \A j \in Inum : Own(t, j) = B(i = j) + B(cwd[p] = j) /\ Own(s, j) = B(i = j)
        BY <2>1, <2>2, <2>5 DEF Walking, Resting, B, Inum
      <3>3. \A j \in Inum : /\ ic[j].ref \in Int /\ lost[j] \in Int /\ lost'[j] = lost[j]
                            /\ B(i = j) \in Int /\ B(cwd[p] = j) \in Int
        BY <1>5, <2>1 DEF Resting, B
      <3> QED BY <3>1, <3>2, <3>3, <2>11 DEF RefsFollow
    <2>14. UseOK(cur, cwd[p], t)
      BY <2>1, <2>2, <2>4, <2>5 DEF UseOK, Resting, Walking, OnEntry, Inum
    <2> QED BY <1>0, <1>5, <1>7, <2>2, <2>3, <2>6, <2>7, <2>9, <2>10, <2>11, <2>12, <2>13, <2>14, CountInv
  <1> QED BY <1>5, <1>6, <1>7

LEMMA CreatedInv ==
  ASSUME Inv, NEW p \in Proc, created(p)
  PROVE  Inv'
  <1>0. PICK s : s = st[p]
    OBVIOUS
  <1>1. PICK i : i = s.ip
    OBVIOUS
  <1>2. PICK t : t = Finish(<<i>>)
    OBVIOUS
  <1>3. /\ s.pc = "created" /\ cur' = [cur EXCEPT ![i].target = s.path2] /\ lock' = [lock EXCEPT ![i] = None]
        /\ Moves(p, t) /\ UNCHANGED <<ic, file, ofile, cwd, lost>>
    BY <1>0, <1>1, <1>2 DEF created, At, Go, Moves, tables
  <1>4. Resting(p, s, "created")
    <2>1. "created" \in Labels
      BY DEF Labels, OnNode
    <2> QED BY <1>0, <1>3, <2>1, Rest
  <1>5. i \in Inum /\ s.ip = i /\ s.dp = 0 /\ cur[i].type # "none" /\ s.path2 \in Seq(Elem)
    BY <1>1, <1>4 DEF Resting, LocalOK, Nodes, OnNode, UseOK, Inum, Local
  <1>6. Ending(t, i) /\ UseOK(cur, cwd[p], t)
    <2>1. cwd[p] # 0 => cur[cwd[p]].type = "DIR"
      BY <1>4 DEF Resting, UseOK
    <2> QED BY <2>1, <1>2, <1>5, FinishOne
  <1>7. Holds(s) = i /\ ~Owes(s) /\ ~Away(s)
    BY <1>4, <1>5 DEF Resting, Holds, Owes, Away
  <1>8. LocalOK(t) /\ (Away(t) <=> Away(s)) /\ Relocked(p, t)
    <2>1. Holds(t) = 0 /\ Holds(st[p]) = i
      BY <1>0, <1>6, <1>7 DEF Ending
    <2>2. Relocked(p, t)
      BY <2>1, <1>3, <1>5, Give
    <2> QED BY <2>2, <1>6, <1>7 DEF Ending
  <1>9. /\ cur' \in [Inum -> Dinode] /\ cur'[i].target = s.path2
        /\ \A j \in Inum : /\ cur'[j].type = cur[j].type /\ cur'[j].ent = cur[j].ent
                           /\ cur'[j].parent = cur[j].parent /\ cur'[j].nlink = cur[j].nlink
        /\ \A j \in Inum : j # i => cur'[j].target = cur[j].target
    <2>1. cur \in [Inum -> Dinode]
      BY DEF Inv, Types
    <2>2. PICK d : d = [cur[i] EXCEPT !.target = s.path2]
      OBVIOUS
    <2>3. cur' = [cur EXCEPT ![i] = d]
      BY <1>3, <1>5, <2>1, <2>2
    <2>4. /\ d \in Dinode /\ d.type = cur[i].type /\ d.ent = cur[i].ent /\ d.parent = cur[i].parent
          /\ d.nlink = cur[i].nlink /\ d.target = s.path2
      BY <1>5, <2>1, <2>2 DEF Dinode, Elem
    <2>5. cur' \in [Inum -> Dinode] /\ cur'[i] = d /\ \A j \in Inum : j # i => cur'[j] = cur[j]
      BY <2>1, <2>3, <2>4, <1>5
    <2> QED BY <2>4, <2>5
  <1>10. ic' \in [Inum -> Slot] /\ Coherent(ic', cur') /\ \A j \in Inum : lock'[j] # None => ic'[j].valid
    <2>1. ic' \in [Inum -> Slot] /\ Coherent(ic', cur')
      BY <1>3, <1>4, <1>9 DEF Resting, Coherent
    <2>2. \A j \in Inum : lock'[j] # None => lock[j] # None
      BY <1>3, <1>5 DEF Inv, Types
    <2> QED BY <2>1, <2>2, <1>3 DEF Inv, Locked
  <1>11. OthersUse(cur', p) /\ UseOK(cur', cwd[p], t)
    BY <1>0, <1>6, <1>8, <1>9, UseSame
  <1>12. SameTree(cur, cur') /\ \A j \in Inum : Entries(cur', j) = Entries(cur, j) /\ Entries(cur, j) \in Int
    <2>1. SameTree(cur, cur')
      BY <1>9 DEF SameTree
    <2>2. \A j : Entries(cur', j) = Entries(cur, j)
      BY <2>1, SameEntries
    <2>3. \A j \in Inum : Entries(cur, j) \in Int
      BY DueSplit
    <2> QED BY <2>1, <2>2, <2>3
  <1>13. Linked'
    <2>1. DirsOK(cur')
      <3>1. DirsOK(cur) /\ \A j \in Inum : cur'[j].type = "none" => cur'[j].nlink = 0
        BY <1>9 DEF Inv, Linked, DirsOK
      <3> QED BY <3>1, <1>12, SameDirs
    <2>2. \A j \in Inum : cur'[j].nlink \in Int
      BY <1>9 DEF Dinode
    <2>3. Balanced(s, t)
      <3> SUFFICES ASSUME NEW j \in Inum
                   PROVE  cur'[j].nlink = Follows(s, t, j)
        BY <1>9, <2>2 DEF Balanced
      <3>1. cur[j].nlink \in Int /\ cur'[j].nlink = cur[j].nlink
        BY <1>9 DEF Inv, Types, Dinode
      <3>2. B(Owes(t) /\ t.ip = j) = 0 /\ B(Owes(s) /\ s.ip = j) = 0
        BY <1>6, <1>7 DEF B, Ending
      <3>3. Entries(cur', j) = Entries(cur, j) /\ Entries(cur, j) \in Int
        BY <1>12
      <3> QED BY <3>1, <3>2, <3>3 DEF Follows
    <2> QED BY <1>0, <1>3, <1>8, <1>9, <2>1, <2>3, LinkedBalanced
  <1>14. Targets'
    <2> SUFFICES ASSUME NEW j \in Inum, cur'[j].type = "LINK", ~IsPath(cur'[j].target)
                 PROVE  \E q \in Proc : Lab(st'[q]) = "created" /\ st'[q].ip = j
      BY DEF Targets
    <2>1. cur[j].type = "LINK"
      BY <1>9
    <2>2. j # i
      <3>1. cur[i].type = "LINK" => IsPath(s.path2)
        BY <1>1, <1>4 DEF Resting, UseOK
      <3> QED BY <3>1, <2>1, <1>9
    <2>3. PICK q \in Proc : Lab(st[q]) = "created" /\ st[q].ip = j
      BY <1>9, <2>1, <2>2 DEF Inv, Targets
    <2>4. q # p
      BY <1>0, <1>1, <2>2, <2>3
    <2>5. st'[q] = st[q]
      BY <1>3, <1>8, <2>4, MovesOne DEF Inv
    <2> QED BY <2>3, <2>5
  <1>15. RefsFollow(s, t)
    <2>1. \A j \in Inum : Own(t, j) = B(i = j) /\ Own(s, j) = B(i = j)
      BY <1>4, <1>5, <1>6 DEF Ending, Resting, B, Inum
    <2>2. \A j \in Inum : /\ ic[j].ref \in Int /\ lost[j] \in Int /\ lost'[j] = lost[j]
                          /\ B(i = j) \in Int /\ ic'[j].ref = ic[j].ref
      BY <1>3, <1>4 DEF Resting, B
    <2> QED BY <2>1, <2>2 DEF RefsFollow
  <1> QED BY <1>0, <1>3, <1>8, <1>9, <1>10, <1>11, <1>13, <1>14, <1>15, Write

-----------------------------------------------------------------------------
(* iput() frees an inode.                                                  *)

\* One reference, and the call that is about to give it up: nothing else points to the inode.
LEMMA Alone ==
  ASSUME Inv, NEW p \in Proc, NEW i \in Inum, PutAt(st[p], 1, i), ic[i].ref = 1
  PROVE  /\ \A q \in Proc : /\ st[q].ip # i /\ st[q].dp # i /\ cwd[q] # i
                            /\ \A j \in 1..2 : PutAt(st[q], j, i) => q = p /\ j = 1
         /\ \A f \in File : file[f].ip # i
  <1>1. 1 = Held(i) + Cardinality(InFile(i)) + lost[i] /\ lost[i] \in Nat
    BY PointersSplit DEF Inv, Refs, Types
  <1>2. /\ IsFiniteSet(InIp(i)) /\ IsFiniteSet(InDp(i)) /\ IsFiniteSet(InCwd(i))
        /\ IsFiniteSet(InPuts(i)) /\ IsFiniteSet(InFile(i))
    BY HeldFinite
  <1>3. /\ Cardinality(InIp(i)) \in Nat /\ Cardinality(InDp(i)) \in Nat /\ Cardinality(InCwd(i)) \in Nat
        /\ Cardinality(InPuts(i)) \in Nat /\ Cardinality(InFile(i)) \in Nat
    BY <1>2, FS_CardinalityType
  <1>4. <<p, 1>> \in InPuts(i)
    BY DEF InPuts, PutAt
  <1>5. Cardinality(InPuts(i)) # 0
    BY <1>2, <1>4, FS_EmptySet
  <1>6. /\ Cardinality(InIp(i)) = 0 /\ Cardinality(InDp(i)) = 0 /\ Cardinality(InCwd(i)) = 0
        /\ Cardinality(InPuts(i)) = 1 /\ Cardinality(InFile(i)) = 0
    <2>1. PICK a, b, c, d, e, l \in Nat :
             /\ a = Cardinality(InIp(i)) /\ b = Cardinality(InDp(i)) /\ c = Cardinality(InCwd(i))
             /\ d = Cardinality(InPuts(i)) /\ e = Cardinality(InFile(i)) /\ l = lost[i]
      BY <1>1, <1>3
    <2>2. 1 = a + b + c + d + e + l /\ d # 0
      BY <1>1, <1>5, <2>1 DEF Held
    <2>3. a = 0 /\ b = 0 /\ c = 0 /\ d = 1 /\ e = 0
      BY <2>2
    <2> QED BY <2>1, <2>3
  <1>7. InIp(i) = {} /\ InDp(i) = {} /\ InCwd(i) = {} /\ InFile(i) = {}
    BY <1>2, <1>6, FS_EmptySet
  <1>8. \A x \in InPuts(i) : x = <<p, 1>>
    <2>1. \E x : InPuts(i) = {x}
      BY <1>2, <1>6, FS_Singleton
    <2> QED BY <2>1, <1>4
  <1>9. ASSUME NEW q \in Proc, NEW j \in 1..2, PutAt(st[q], j, i) PROVE q = p /\ j = 1
    <2>1. <<q, j>> \in InPuts(i)
      BY <1>9 DEF InPuts, PutAt
    <2>2. <<q, j>> = <<p, 1>>
      BY <2>1, <1>8
    <2> QED BY <2>2
  <1>10. \A q \in Proc : st[q].ip # i /\ st[q].dp # i /\ cwd[q] # i
    BY <1>7 DEF InIp, InDp, InCwd
  <1>11. \A f \in File : file[f].ip # i
    BY <1>7 DEF InFile
  <1> QED BY <1>9, <1>10, <1>11

\* The names that go with an inode that has none itself.
Freed(fs, fs2, i) == fs2[i] = FreeNode /\ \A j \in Inum : j # i => fs2[j] = fs[j]

LEMMA FreedNames ==
  ASSUME NEW fs, DirsOK(fs), NEW fs2, NEW i \in Inum, i # Root, Names(fs, i) = {}, Freed(fs, fs2, i)
  PROVE  /\ DirsOK(fs2)
         /\ \A j \in Inum : /\ Entries(fs2, j) \in Nat /\ Entries(fs, j) \in Nat
                            /\ Entries(fs2, j) <= Entries(fs, j)
                            /\ fs2[j].type = "DIR" => Entries(fs2, j) = Entries(fs, j)
  <1>1. fs2[i].type = "none" /\ fs2[i].nlink = 0 /\ \A j \in Inum : j # i => fs2[j] = fs[j]
    BY DEF FreeNode, Freed
  <1>2. \A j \in Inum : Names(fs2, j) \subseteq Names(fs, j)
    BY <1>1 DEF Names
  <1>3. \A j \in Inum : fs2[j].type = "DIR" => Names(fs2, j) = Names(fs, j)
    <2> SUFFICES ASSUME NEW j \in Inum, fs2[j].type = "DIR", NEW x \in Names(fs, j)
                 PROVE  x \in Names(fs2, j)
      BY <1>2
    <2>1. fs[j].type = "DIR"
      BY <1>1
    <2>2. x[1] = Root
      BY <2>1 DEF DirsOK
    <2> QED BY <1>1, <2>2 DEF Names
  <1>4. \A j \in Inum : Subdirs(fs2, j) = Subdirs(fs, j)
    BY <1>1, <1>3 DEF Subdirs
  <1>5. DirsOK(fs2)
    <2>1. fs2[Root].type = "DIR"
      BY <1>1, FSAssumption DEF DirsOK, Root, Inum
    <2>2. \A j \in Inum : fs2[j].type = "none" => fs2[j].nlink = 0
      BY <1>1 DEF DirsOK
    <2>3. \A j \in Inum : fs2[j].type = "DIR" => /\ fs2[j].parent = Root
                                                 /\ \A x \in Names(fs2, j) : x[1] = Root
                                                 /\ \A x, y \in Names(fs2, j) : x = y
      <3> SUFFICES ASSUME NEW j \in Inum, fs2[j].type = "DIR"
                   PROVE  /\ fs2[j].parent = Root
                          /\ \A x \in Names(fs2, j) : x[1] = Root
                          /\ \A x, y \in Names(fs2, j) : x = y
        OBVIOUS
      <3>1. fs2[j] = fs[j] /\ Names(fs2, j) = Names(fs, j)
        BY <1>1, <1>3
      <3>2. /\ fs[j].parent = Root
            /\ \A x \in Names(fs, j) : x[1] = Root
            /\ \A x, y \in Names(fs, j) : x = y
        BY <3>1 DEF DirsOK
      <3> QED BY <3>1, <3>2
    <2> QED BY <2>1, <2>2, <2>3 DEF DirsOK
  <1>6. ASSUME NEW j \in Inum
        PROVE  /\ Entries(fs2, j) \in Nat /\ Entries(fs, j) \in Nat
               /\ Entries(fs2, j) <= Entries(fs, j)
               /\ fs2[j].type = "DIR" => Entries(fs2, j) = Entries(fs, j)
    <2>1. /\ IsFiniteSet(Names(fs, j)) /\ Cardinality(Names(fs, j)) \in Nat
          /\ Cardinality(Subdirs(fs, j)) \in Nat
          /\ Entries(fs, j) = Cardinality(Names(fs, j)) + Cardinality(Subdirs(fs, j))
      BY EntriesSplit
    <2>2. /\ Cardinality(Names(fs2, j)) \in Nat
          /\ Entries(fs2, j) = Cardinality(Names(fs2, j)) + Cardinality(Subdirs(fs2, j))
      BY EntriesSplit
    <2>3. Cardinality(Names(fs2, j)) <= Cardinality(Names(fs, j))
      BY <1>2, <2>1, FS_Subset
    <2> QED BY <2>1, <2>2, <2>3, <1>3, <1>4
  <1> QED BY <1>5, <1>6

\* The branch of iput() that frees the inode.
LEMMA PutFree ==
  ASSUME Inv, NEW p \in Proc, NEW s, s = st[p], NEW i \in Inum, PutAt(s, 1, i), lock[i] = None, Unused(i),
         cur' = [cur EXCEPT ![i] = FreeNode], ic' = [ic EXCEPT ![i].type = "none", ![i].valid = FALSE],
         UNCHANGED <<file, ofile, cwd, lock, lost>>,
         NEW t, Quiet(s, t), Moves(p, t), SameOwn(s, t), t.pc = "drop", t.puts = s.puts, t.ip = s.ip,
         t.dp = s.dp, t.path = s.path, t.path2 = s.path2, Lab(t) = Lab(s), Owes(t) <=> Owes(s),
         UseOK(cur, cwd[p], s)
  PROVE  Inv'
  <1>1. /\ ic[i].valid /\ ic[i].nlink = 0 /\ ic[i].ref = 1
        /\ cur[i].nlink = 0 /\ cur[i].type # "none"
    BY DEF Unused, Inv, Coherent
  <1>2. /\ \A q \in Proc : /\ st[q].ip # i /\ st[q].dp # i /\ cwd[q] # i
                           /\ \A j \in 1..2 : PutAt(st[q], j, i) => q = p /\ j = 1
        /\ \A f \in File : file[f].ip # i
    BY <1>1, Alone
  <1>3. i # Root /\ Names(cur, i) = {} /\ Entries(cur, i) = 0
    <2>1. /\ cur[i].nlink >= Due(i) /\ (cur[i].type = "DIR" => cur[i].nlink = Due(i) + Extra(i))
          /\ cur[Root].type = "DIR"
      BY DEF Inv, Linked, DirsOK
    <2>2. Due(i) \in Nat /\ Entries(cur, i) \in Nat /\ Due(i) >= Entries(cur, i)
      BY DueSplit
    <2>3. Names(cur, i) # {} => Entries(cur, i) >= 1
      BY EntriesSplit
    <2> QED BY <1>1, <2>1, <2>2, <2>3 DEF Extra
  <1>4. /\ cur' \in [Inum -> Dinode] /\ cur'[i] = FreeNode /\ FreeNode.type = "none" /\ FreeNode.nlink = 0
        /\ \A j \in Inum : j # i => cur'[j] = cur[j]
    <2>1. FreeNode \in Dinode
      BY FSAssumption DEF FreeNode, Dinode
    <2> QED BY <2>1 DEF Inv, Types, FreeNode
  <1>5. /\ ic' \in [Inum -> Slot] /\ ~ic'[i].valid /\ ic'[i].ref = ic[i].ref
        /\ \A j \in Inum : j # i => ic'[j] = ic[j]
    <2>1. ic \in [Inum -> Slot]
      BY DEF Inv, Types
    <2>2. PICK d : d = [ic[i] EXCEPT !.type = "none", !.valid = FALSE]
      OBVIOUS
    <2>3. d \in Slot /\ ~d.valid /\ d.ref = ic[i].ref
      BY <2>1, <2>2 DEF Slot
    <2>4. ic' = [ic EXCEPT ![i] = d]
      BY <2>1, <2>2
    <2> QED BY <2>1, <2>3, <2>4
  <1>6. Coherent(ic', cur') /\ \A j \in Inum : lock'[j] # None => ic'[j].valid
    <2>1. Coherent(ic, cur) /\ \A j \in Inum : lock[j] # None => ic[j].valid
      BY DEF Inv, Locked
    <2> QED BY <2>1, <1>4, <1>5 DEF Coherent
  <1>7. DirsOK(cur') /\ \A j \in Inum : /\ Entries(cur', j) \in Nat /\ Entries(cur, j) \in Nat
                                        /\ Entries(cur', j) <= Entries(cur, j)
                                        /\ cur'[j].type = "DIR" => Entries(cur', j) = Entries(cur, j)
    <2>1. DirsOK(cur)
      BY DEF Inv, Linked
    <2>2. Freed(cur, cur', i)
      BY <1>4 DEF Freed
    <2> QED BY <2>1, <2>2, <1>3, FreedNames
  <1>8. Balanced(s, t)
    <2> SUFFICES ASSUME NEW j \in Inum
                 PROVE  /\ cur'[j].nlink >= Follows(s, t, j)
                        /\ cur'[j].type = "DIR" => /\ cur'[j].nlink = Follows(s, t, j)
                                                   /\ cur[j].type = "DIR" \/ (cur[j].type = "none" /\ j # Root)
      BY DEF Balanced
    <2>1. B(Owes(t) /\ t.ip = j) = B(Owes(s) /\ s.ip = j) /\ B(Owes(s) /\ s.ip = j) \in Int
      BY DEF B
    <2>2. cur[j].nlink \in Int /\ cur'[j].nlink = cur[j].nlink
      BY <1>1, <1>4 DEF Inv, Types, Dinode
    <2>3. cur'[j].type = "DIR" => cur[j].type = "DIR"
      BY <1>4
    <2>4. /\ Entries(cur', j) \in Nat /\ Entries(cur, j) \in Nat /\ Entries(cur', j) <= Entries(cur, j)
          /\ cur'[j].type = "DIR" => Entries(cur', j) = Entries(cur, j)
      BY <1>7
    <2>5. Follows(s, t, j) = cur[j].nlink + Entries(cur', j) - Entries(cur, j)
      BY <2>1, <2>2, <2>4 DEF Follows
    <2> QED BY <2>2, <2>3, <2>4, <2>5
  <1>9. Linked'
    BY <1>4, <1>7, <1>8, LinkedBalanced DEF Quiet
  <1>10. Targets'
    <2>1. \A j \in Inum : cur'[j].type = "LINK" => cur[j].type = "LINK" /\ cur'[j].target = cur[j].target
      BY <1>4
    <2> QED BY <2>1, TargetsKeep DEF Quiet, Inv
  <1>11. \A q \in Proc : Own(st[q], i) = B(q = p)
    <2> SUFFICES ASSUME NEW q \in Proc PROVE Own(st[q], i) = B(q = p)
      OBVIOUS
    <2>1. /\ B(st[q].ip = i) = 0 /\ B(st[q].dp = i) = 0 /\ B(PutAt(st[q], 2, i)) = 0
          /\ B(PutAt(st[q], 1, i)) = B(q = p) /\ B(q = p) \in Int
      BY <1>2 DEF B
    <2> QED BY <2>1 DEF Own
  <1>12. OthersUse(cur', p)
    <2>1. ASSUME NEW q \in Proc, q # p PROVE UseOK(cur', cwd[q], st[q])
      <3>1. cwd[q] \in 0..NI /\ LocalOK(st[q]) /\ UseOK(cur, cwd[q], st[q])
        BY DEF Inv, Types, InUse
      <3>2. Own(st[q], i) = 0 /\ cwd[q] # i
        BY <2>1, <1>2, <1>11 DEF B
      <3>3. Lab(st[q]) = "unlink_ip" => st[q].dp \in Inum /\ st[q].dp # i
        BY <3>1, <1>2 DEF LocalOK, Nodes, OnBoth
      <3>4. Spares(cur, cur', cwd[q], st[q])
        BY <3>2, <3>3, <1>4 DEF Spares
      <3> QED BY <3>1, <3>4, UseSpared
    <2>2. \A f \in File : file[f].ip # 0 => cur'[file[f].ip].type # "none"
      <3>1. \A f \in File : file[f].ip \in 0..NI /\ (file[f].ip # 0 => cur[file[f].ip].type # "none")
        BY DEF Inv, Types, InUse
      <3> QED BY <3>1, <1>2, <1>4 DEF Inum
    <2> QED BY <2>1, <2>2 DEF OthersUse
  <1>13. UseOK(cur', cwd[p], t)
    <2>1. /\ s.ip # i /\ s.dp # i /\ cwd[p] # i /\ cwd[p] \in 0..NI
          /\ \A j \in 1..2 : PutAt(s, j, i) => j = 1
      BY <1>2 DEF Inv, Types
    <2>2. /\ s \in Local /\ s.ip \in 0..NI /\ s.dp \in 0..NI /\ s.puts \in Seq(Inum)
          /\ (s.puts = <<>> \/ Len(s.puts) \in 1..2)
          /\ (Lab(s) \in OnEntry => s.dp \in Inum)
          /\ (Owes(s) \/ Lab(s) = "created" => s.ip \in Inum)
      <3>1. LocalOK(s)
        BY DEF Inv, Types
      <3> QED BY <3>1 DEF LocalOK, PutsOK, Local, Nodes, OnEntry, OnBoth, OnDir, OnNode, Owes, Inum, Linking
    <2>3. \A j \in DOMAIN s.puts : j \in 1..2 /\ s.puts[j] \in Inum
      BY <2>2
    <2>4. \A j \in DOMAIN t.puts : cur'[t.puts[j]].type # "none" \/ (t.pc = "drop" /\ j = 1)
      <3> SUFFICES ASSUME NEW j \in DOMAIN s.puts, j # 1 PROVE cur'[s.puts[j]].type # "none"
        OBVIOUS
      <3>1. s.puts[j] # i
        BY <2>1, <2>3 DEF PutAt
      <3>2. cur[s.puts[j]].type # "none"
        BY DEF UseOK
      <3> QED BY <3>1, <3>2, <2>3, <1>4
    <2>5. \A j \in 0..NI : j # 0 /\ j # i => cur'[j] = cur[j]
      BY <1>4 DEF Inum
    <2>6. /\ cwd[p] # 0 => cur'[cwd[p]].type = "DIR"
          /\ s.ip # 0 => cur'[s.ip].type # "none"
          /\ s.dp # 0 => cur'[s.dp].type # "none"
      BY <2>1, <2>2, <2>5 DEF UseOK
    <2>7. /\ Lab(s) \in OnEntry => cur'[s.dp].type = "DIR"
          /\ Lab(s) = "unlink_ip" => cur'[s.dp].ent[Head(s.path)] = s.ip
      BY <2>1, <2>2, <1>4 DEF UseOK, OnEntry
    <2>8. /\ Owes(s) /\ Lab(s) # "unlink_dec" => cur'[s.ip].type # "DIR"
          /\ Lab(s) = "created" /\ cur'[s.ip].type = "LINK" => IsPath(s.path2)
      BY <2>1, <2>2, <1>4 DEF UseOK
    <2> QED BY <2>4, <2>6, <2>7, <2>8 DEF UseOK
  <1>14. RefsFollow(s, t)
    <2> SUFFICES ASSUME NEW j \in Inum
                 PROVE  ic'[j].ref = ic[j].ref + lost'[j] - lost[j] + Own(t, j) - Own(s, j)
      BY DEF RefsFollow
    <2>1. ic[j].ref \in Int /\ lost[j] \in Int /\ lost'[j] = lost[j]
      BY DEF Inv, Types, Slot
    <2>2. ic'[j].ref = ic[j].ref
      BY <1>5
    <2>3. Own(t, j) = Own(s, j) /\ Own(s, j) \in Int
      BY DEF SameOwn, Own, B
    <2> QED BY <2>1, <2>2, <2>3
  <1>15. LocalOK(t) /\ (Away(t) <=> Away(s)) /\ Relocked(p, t)
    <2>1. Holds(t) = Holds(st[p])
      BY DEF Quiet
    <2> QED BY <2>1, Kept DEF Quiet
  <1> QED BY <1>4, <1>5, <1>6, <1>9, <1>10, <1>12, <1>13, <1>14, <1>15, Write

LEMMA PutInv ==
  ASSUME Inv, NEW p \in Proc, put(p)
  PROVE  Inv'
  <1>0. PICK s : s = st[p]
    OBVIOUS
  <1>1. PICK i : i = Head(s.puts)
    OBVIOUS
  <1>2. PICK t : t = [s EXCEPT !.pc = "drop"]
    OBVIOUS
  <1>3. /\ s.pc = "put" /\ lock[i] = None /\ Moves(p, t) /\ UNCHANGED <<file, ofile, cwd, lock, lost>>
        /\ \/ /\ Unused(i) /\ cur' = [cur EXCEPT ![i] = FreeNode]
              /\ ic' = [ic EXCEPT ![i].type = "none", ![i].valid = FALSE]
           \/ UNCHANGED <<cur, ic>>
    BY <1>0, <1>1, <1>2 DEF put, At, Go, Moves, tables
  <1>4. LocalOK(s) /\ s \in Local /\ UseOK(cur, cwd[p], s)
    BY <1>0, Start
  <1>5. s.puts \in Seq(Inum) /\ Len(s.puts) \in 1..2
    BY <1>3, <1>4 DEF LocalOK, PutsOK, Local
  <1>6. i \in Inum /\ PutAt(s, 1, i)
    BY <1>1, <1>5, PutsList DEF PutAt
  <1>7. /\ t \in Local /\ t.pc = "drop" /\ t.puts = s.puts /\ t.k = s.k /\ Lab(t) = Lab(s) /\ SameWork(s, t)
    <2>1. t \in Local
      BY <1>2, <1>4 DEF Local
    <2>2. t.pc = "drop" /\ t.puts = s.puts /\ t.k = s.k /\ SameWork(s, t)
      BY <1>2, <1>4 DEF Local, SameWork
    <2> QED BY <2>1, <2>2, <1>3 DEF Lab
  <1>8. LocalOK(t)
    BY <1>3, <1>4, <1>7 DEF SameWork, LocalOK, Nodes, OpOK, WalkOp, PathOK, Path2OK, PutsOK, Linking
  <1>9. /\ Holds(t) = Holds(s) /\ (Away(t) <=> Away(s)) /\ (Owes(t) <=> Owes(s)) /\ t.ip = s.ip /\ t.dp = s.dp
    BY <1>3, <1>7 DEF SameWork, Holds, Away, Owes, Linking
  <1>10. Quiet(s, t) /\ SameOwn(s, t)
    BY <1>7, <1>8, <1>9 DEF Quiet, SameOwn, Own, PutAt
  <1>11. CASE UNCHANGED <<cur, ic>>
    <2>1. UseOK(cur, cwd[p], t)
      BY <1>4, <1>7, <1>9 DEF UseOK, SameWork
    <2>2. Serves(ic, ic') /\ lost' \in [Inum -> Nat]
      BY <1>3, <1>11, Start DEF Serves
    <2>3. \A j \in Inum : ic'[j].ref = ic[j].ref + lost'[j] - lost[j] + Own(t, j) - Own(s, j)
      <3>1. \A j \in Inum : ic[j].ref \in Int /\ lost[j] \in Int /\ lost'[j] = lost[j] /\ ic'[j].ref = ic[j].ref
        BY <1>3, <1>11 DEF Inv, Types, Slot
      <3>2. \A j \in Inum : Own(s, j) \in Int
        BY DEF Own, B
      <3> QED BY <3>1, <3>2, <1>10 DEF SameOwn
    <2> QED BY <1>0, <1>3, <1>10, <1>11, <2>1, <2>2, <2>3, Keep
  <1>12. CASE /\ Unused(i) /\ cur' = [cur EXCEPT ![i] = FreeNode]
              /\ ic' = [ic EXCEPT ![i].type = "none", ![i].valid = FALSE]
    BY <1>0, <1>3, <1>4, <1>6, <1>7, <1>9, <1>10, <1>12, PutFree DEF SameWork
  <1> QED BY <1>3, <1>11, <1>12

-----------------------------------------------------------------------------
(* A name is written into a directory.                                     *)

\* Entry n of directory d becomes inode i, which may be new.
Adds(fs, fs2, d, n, i) ==
  /\ fs2[d].type = "DIR" /\ fs2[d].parent = fs[d].parent /\ fs2[d].ent = [fs[d].ent EXCEPT ![n] = i]
  /\ \A j \in Inum \ {d, i} :
       fs2[j].type = fs[j].type /\ fs2[j].ent = fs[j].ent /\ fs2[j].parent = fs[j].parent
  /\ \/ fs2[i].type = fs[i].type /\ fs2[i].ent = fs[i].ent /\ fs2[i].parent = fs[i].parent
     \/ fs[i].type = "none" /\ fs2[i].ent = [m \in Name |-> 0]
  /\ fs2[i].type = "DIR" => d = Root /\ fs2[i].parent = Root /\ Names(fs, i) = {}
  /\ \A j \in Inum : fs2[j].type = "none" => fs2[j].nlink = 0

LEMMA AddedNames ==
  ASSUME NEW fs \in [Inum -> Dinode], NEW d \in Inum, fs[d].type = "DIR", NEW n \in Name,
         fs[d].ent[n] = 0, NEW i \in Inum, i # d, NEW fs2, Adds(fs, fs2, d, n, i)
  PROVE  /\ Names(fs2, i) = Names(fs, i) \cup {<<d, n>>} /\ <<d, n>> \notin Names(fs, i)
         /\ \A j \in Inum : j # i => Names(fs2, j) = Names(fs, j)
  <1>1. ASSUME NEW j \in Inum, NEW a \in Inum, NEW m \in Name
        PROVE  <<a, m>> \in Names(fs2, j) <=> <<a, m>> \in Names(fs, j) \/ (j = i /\ a = d /\ m = n)
    <2>1. /\ <<a, m>> \in Names(fs2, j) <=> fs2[a].type = "DIR" /\ fs2[a].ent[m] = j
          /\ <<a, m>> \in Names(fs, j) <=> fs[a].type = "DIR" /\ fs[a].ent[m] = j
      BY DEF Names
    <2>2. j # 0 /\ fs[d].ent \in [Name -> 0..NI]
      BY DEF Inum, Dinode
    <2>3. CASE a = d
      BY <2>1, <2>2, <2>3 DEF Adds
    <2>4. CASE a = i
      BY <2>1, <2>2, <2>4 DEF Adds
    <2>5. CASE a \notin {d, i}
      BY <2>1, <2>5 DEF Adds
    <2> QED BY <2>3, <2>4, <2>5
  <1>2. \A j \in Inum : Names(fs, j) \subseteq Inum \X Name /\ Names(fs2, j) \subseteq Inum \X Name
    BY DEF Names
  <1>3. <<d, n>> \notin Names(fs, i)
    BY DEF Names, Inum
  <1>4. Names(fs2, i) = Names(fs, i) \cup {<<d, n>>}
    <2>1. \A x \in Inum \X Name : x \in Names(fs2, i) <=> x \in Names(fs, i) \/ x = <<d, n>>
      <3> SUFFICES ASSUME NEW x \in Inum \X Name
                   PROVE  x \in Names(fs2, i) <=> x \in Names(fs, i) \/ x = <<d, n>>
        OBVIOUS
      <3>1. PICK a \in Inum, m \in Name : x = <<a, m>>
        OBVIOUS
      <3> QED BY <3>1, <1>1
    <2> QED BY <2>1, <1>2
  <1>5. ASSUME NEW j \in Inum, j # i PROVE Names(fs2, j) = Names(fs, j)
    <2>1. \A x \in Inum \X Name : x \in Names(fs2, j) <=> x \in Names(fs, j)
      <3> SUFFICES ASSUME NEW x \in Inum \X Name
                   PROVE  x \in Names(fs2, j) <=> x \in Names(fs, j)
        OBVIOUS
      <3>1. PICK a \in Inum, m \in Name : x = <<a, m>>
        OBVIOUS
      <3> QED BY <3>1, <1>1, <1>5
    <2> QED BY <2>1, <1>2
  <1> QED BY <1>3, <1>4, <1>5

\* The entries that come with a name of inode i.
Grown(fs, fs2, i) ==
  \A j \in Inum : /\ Entries(fs, j) \in Nat /\ Entries(fs2, j) \in Nat
                  /\ Entries(fs2, j) = Entries(fs, j) + B(j = i) + B(fs2[i].type = "DIR" /\ j = Root)

LEMMA AddedEntries ==
  ASSUME NEW fs \in [Inum -> Dinode], DirsOK(fs), NEW d \in Inum, fs[d].type = "DIR", NEW n \in Name,
         fs[d].ent[n] = 0, NEW i \in Inum, fs[i].type # "DIR", NEW fs2, Adds(fs, fs2, d, n, i)
  PROVE  DirsOK(fs2) /\ Grown(fs, fs2, i)
  <1>0. /\ i # d
        /\ \A j \in Inum : j # i => fs2[j].type = fs[j].type /\ fs2[j].parent = fs[j].parent
    BY DEF Adds
  <1>1. /\ Names(fs2, i) = Names(fs, i) \cup {<<d, n>>} /\ <<d, n>> \notin Names(fs, i)
        /\ \A j \in Inum : j # i => Names(fs2, j) = Names(fs, j)
    BY <1>0, AddedNames
  <1>2. DirsOK(fs2)
    <2>1. fs2[Root].type = "DIR"
      BY <1>0, FSAssumption DEF DirsOK, Root, Inum
    <2>2. \A j \in Inum : fs2[j].type = "none" => fs2[j].nlink = 0
      BY DEF Adds
    <2>3. \A j \in Inum : fs2[j].type = "DIR" => /\ fs2[j].parent = Root
                                                 /\ \A x \in Names(fs2, j) : x[1] = Root
                                                 /\ \A x, y \in Names(fs2, j) : x = y
      <3> SUFFICES ASSUME NEW j \in Inum, fs2[j].type = "DIR"
                   PROVE  /\ fs2[j].parent = Root
                          /\ \A x \in Names(fs2, j) : x[1] = Root
                          /\ \A x, y \in Names(fs2, j) : x = y
        OBVIOUS
      <3>1. CASE j = i
        <4>1. d = Root /\ fs2[i].parent = Root /\ Names(fs2, i) = {<<d, n>>}
          BY <3>1, <1>1 DEF Adds
        <4> QED BY <3>1, <4>1
      <3>2. CASE j # i
        <4>1. fs[j].type = "DIR" /\ fs2[j].parent = fs[j].parent /\ Names(fs2, j) = Names(fs, j)
          BY <3>2, <1>0, <1>1
        <4>2. /\ fs[j].parent = Root
              /\ \A x \in Names(fs, j) : x[1] = Root
              /\ \A x, y \in Names(fs, j) : x = y
          BY <4>1 DEF DirsOK
        <4> QED BY <4>1, <4>2
      <3> QED BY <3>1, <3>2
    <2> QED BY <2>1, <2>2, <2>3 DEF DirsOK
  <1>3. ASSUME NEW j \in Inum
        PROVE  Cardinality(Names(fs2, j)) = Cardinality(Names(fs, j)) + B(j = i)
    <2>1. IsFiniteSet(Names(fs, j)) /\ Cardinality(Names(fs, j)) \in Nat
      BY EntriesSplit
    <2>2. CASE j = i
      <3>1. Cardinality(Names(fs, j) \cup {<<d, n>>}) = Cardinality(Names(fs, j)) + 1
        BY <2>1, <2>2, <1>1, FS_AddElement
      <3> QED BY <3>1, <2>2, <1>1 DEF B
    <2>3. CASE j # i
      BY <2>1, <2>3, <1>1 DEF B
    <2> QED BY <2>2, <2>3
  <1>4. ASSUME NEW j \in Inum
        PROVE  Cardinality(Subdirs(fs2, j)) = Cardinality(Subdirs(fs, j)) + B(fs2[i].type = "DIR" /\ j = Root)
    <2>1. IsFiniteSet(Subdirs(fs, j)) /\ Cardinality(Subdirs(fs, j)) \in Nat
      BY EntriesSplit
    <2>2. i \notin Subdirs(fs, j)
      BY DEF Subdirs
    <2>3. \A x \in Inum : x # i => (x \in Subdirs(fs2, j) <=> x \in Subdirs(fs, j))
      BY <1>0, <1>1 DEF Subdirs
    <2>4. i \in Subdirs(fs2, j) <=> fs2[i].type = "DIR" /\ j = Root
      <3>1. fs2[i].type = "DIR" => fs2[i].parent = Root
        BY DEF Adds
      <3> QED BY <3>1, <1>1 DEF Subdirs
    <2>5. Subdirs(fs, j) \subseteq Inum /\ Subdirs(fs2, j) \subseteq Inum
      BY DEF Subdirs
    <2>6. CASE fs2[i].type = "DIR" /\ j = Root
      <3>1. Subdirs(fs2, j) = Subdirs(fs, j) \cup {i}
        BY <2>3, <2>4, <2>5, <2>6
      <3>2. Cardinality(Subdirs(fs, j) \cup {i}) = Cardinality(Subdirs(fs, j)) + 1
        BY <2>1, <2>2, FS_AddElement
      <3> QED BY <3>1, <3>2, <2>6 DEF B
    <2>7. CASE ~(fs2[i].type = "DIR" /\ j = Root)
      <3>1. Subdirs(fs2, j) = Subdirs(fs, j)
        BY <2>2, <2>3, <2>4, <2>5, <2>7
      <3> QED BY <3>1, <2>1, <2>7 DEF B
    <2> QED BY <2>6, <2>7
  <1>5. ASSUME NEW j \in Inum
        PROVE  /\ Entries(fs, j) \in Nat /\ Entries(fs2, j) \in Nat
               /\ Entries(fs2, j) = Entries(fs, j) + B(j = i) + B(fs2[i].type = "DIR" /\ j = Root)
    <2>1. /\ Cardinality(Names(fs, j)) \in Nat /\ Cardinality(Subdirs(fs, j)) \in Nat
          /\ Entries(fs, j) = Cardinality(Names(fs, j)) + Cardinality(Subdirs(fs, j))
      BY EntriesSplit
    <2>2. Entries(fs2, j) = Cardinality(Names(fs2, j)) + Cardinality(Subdirs(fs2, j))
      BY EntriesSplit
    <2>3. B(j = i) \in Nat /\ B(fs2[i].type = "DIR" /\ j = Root) \in Nat
      BY DEF B
    <2> QED BY <2>1, <2>2, <2>3, <1>3, <1>4
  <1> QED BY <1>2, <1>5 DEF Grown

\* A call that has two inodes to put, and then ends.
OwnTwo(t, a, b) == \A i \in Inum : Own(t, i) = B(a = i) + B(b = i)

LEMMA FinishTwo ==
  ASSUME NEW a \in Inum, NEW b \in Inum, NEW t, t = Finish(<<a, b>>)
  PROVE  /\ LocalOK(t) /\ Holds(t) = 0 /\ ~Owes(t) /\ ~Away(t) /\ Lab(t) = "end" /\ t.ip = 0 /\ t.dp = 0
         /\ OwnTwo(t, a, b)
  <1>1. <<a, b>> \in Seq(Inum) /\ Len(<<a, b>>) \in 1..2
    OBVIOUS
  <1>2. /\ LocalOK(t) /\ t.pc = "put" /\ t.puts = <<a, b>> /\ Lab(t) = "end" /\ SameWork(Idle, t)
    BY <1>1, FinishLocal
  <1>3. t.ip = 0 /\ t.dp = 0 /\ t.op = "none"
    BY <1>2, IdleLocal DEF SameWork
  <1>4. Holds(t) = 0 /\ ~Owes(t) /\ ~Away(t)
    BY <1>2, <1>3 DEF Holds, Owes, Away
  <1>5. \A i \in Inum : Own(t, i) = B(a = i) + B(b = i)
    <2>1. \A i \in Inum : Own(t, i) = B(t.ip = i) + B(t.dp = i) + B(a = i) + B(b = i)
      BY <1>2, OwnPuts
    <2> SUFFICES ASSUME NEW i \in Inum PROVE Own(t, i) = B(a = i) + B(b = i)
      OBVIOUS
    <2>2. B(t.ip = i) = 0 /\ B(t.dp = i) = 0 /\ B(a = i) \in Int /\ B(b = i) \in Int
      BY <1>3 DEF B, Inum
    <2>3. Own(t, i) = B(t.ip = i) + B(t.dp = i) + B(a = i) + B(b = i)
      BY <2>1
    <2> QED BY <2>2, <2>3
  <1> QED BY <1>2, <1>3, <1>4, <1>5 DEF OwnTwo

LEMMA UseTwo ==
  ASSUME NEW a \in Inum, NEW b \in Inum, NEW t, t = Finish(<<a, b>>), NEW fs, NEW w,
         w # 0 => fs[w].type = "DIR", fs[a].type # "none", fs[b].type # "none"
  PROVE  UseOK(fs, w, t)
  <1>1. <<a, b>> \in Seq(Inum) /\ Len(<<a, b>>) \in 1..2
    OBVIOUS
  <1>2. /\ t.pc = "put" /\ t.puts = <<a, b>> /\ Lab(t) = "end" /\ SameWork(Idle, t)
    BY <1>1, FinishLocal
  <1>3. t.ip = 0 /\ t.dp = 0 /\ ~Owes(t)
    BY <1>2, IdleLocal DEF SameWork, Owes
  <1>4. \A j \in DOMAIN t.puts : fs[t.puts[j]].type # "none"
    BY <1>2
  <1> QED BY <1>2, <1>3, <1>4 DEF UseOK, OnEntry

\* A file system in which nothing but new inodes and directory d differ.
OneDir(fs, d) ==
  \A j \in Inum : cur[j].type # "none" => /\ fs[j].type = cur[j].type
                                          /\ j # d => fs[j].ent = cur[j].ent

\* The directory that is written is locked, so nobody is about to remove a name from it.
LEMMA WriteSpares ==
  ASSUME Inv, NEW p \in Proc, NEW d \in Inum, lock[d] = None, NEW fs, OneDir(fs, d)
  PROVE  OthersUse(fs, p)
  <1>1. ASSUME NEW q \in Proc PROVE UseOK(fs, cwd[q], st[q])
    <2>1. cwd[q] \in 0..NI /\ LocalOK(st[q]) /\ UseOK(cur, cwd[q], st[q])
      BY DEF Inv, Types, InUse
    <2>2. Lab(st[q]) = "unlink_ip" => /\ st[q].dp \in Inum /\ Holds(st[q]) = st[q].dp
                                      /\ cur[st[q].dp].type # "none"
      BY <2>1 DEF LocalOK, Nodes, OnBoth, Holds, UseOK, OnEntry
    <2>3. Lab(st[q]) = "unlink_ip" => st[q].dp # d
      <3>1. Lab(st[q]) = "unlink_ip" => lock[st[q].dp] = q
        BY <2>2 DEF Inv, Locked
      <3> QED BY <3>1, FSAssumption
    <2>4. Spares(cur, fs, cwd[q], st[q])
      BY <2>2, <2>3 DEF Spares, OneDir
    <2> QED BY <2>1, <2>4, UseSpared
  <1>2. \A f \in File : file[f].ip # 0 => fs[file[f].ip].type # "none"
    <2>1. \A f \in File : file[f].ip \in 0..NI /\ (file[f].ip # 0 => cur[file[f].ip].type # "none")
      BY DEF Inv, Types, InUse
    <2> QED BY <2>1 DEF Inum, OneDir
  <1> QED BY <1>1, <1>2 DEF OthersUse

\* The branch of link_new() that writes the name.
LEMMA LinkNewAdd ==
  ASSUME Inv, NEW p \in Proc, NEW s, s = st[p], Locks(p, "link_new"),
         dirlookup(s.dp, Head(s.path)) = 0, ic' = Read(p),
         cur' = [cur EXCEPT ![s.dp].ent[Head(s.path)] = s.ip], UNCHANGED <<file, ofile, cwd, lock, lost>>,
         NEW t, t = Finish(<<s.dp, s.ip>>), Moves(p, t)
  PROVE  Inv'
  <1>1. PICK d : d = s.dp
    OBVIOUS
  <1>2. PICK n : n = Head(s.path)
    OBVIOUS
  <1>3. PICK i : i = s.ip
    OBVIOUS
  <1>4. /\ Resting(p, s, "link_new") /\ Inside(p, d) /\ d \in Inum /\ cur[d].type = "DIR" /\ n \in Name
    BY <1>1, <1>2, LastEntry
  <1>5. /\ i \in Inum /\ s.ip = i /\ s.dp = d /\ cur[i].type # "none" /\ cur[i].type # "DIR" /\ Owes(s)
        /\ Holds(s) = 0 /\ ~Away(s) /\ Lab(s) # "created" /\ lock[d] = None
    BY <1>1, <1>3, <1>4 DEF Resting, LocalOK, Nodes, OnBoth, UseOK, Inum, Owes, Holds, Away, Inside
  <1>6. cur[d].ent[n] = 0
    BY <1>1, <1>2, <1>4, FSAssumption DEF dirlookup
  <1>7. /\ cur' \in [Inum -> Dinode] /\ cur'[d].ent = [cur[d].ent EXCEPT ![n] = i]
        /\ \A j \in Inum : /\ cur'[j].type = cur[j].type /\ cur'[j].nlink = cur[j].nlink
                           /\ cur'[j].parent = cur[j].parent /\ cur'[j].target = cur[j].target
        /\ \A j \in Inum : j # d => cur'[j].ent = cur[j].ent
    <2>1. cur \in [Inum -> Dinode]
      BY DEF Inv, Types
    <2>2. PICK e : e = [cur[d] EXCEPT !.ent = [cur[d].ent EXCEPT ![n] = i]]
      OBVIOUS
    <2>3. cur' = [cur EXCEPT ![d] = e]
      BY <1>1, <1>2, <1>3, <1>4, <2>1, <2>2
    <2>4. /\ e \in Dinode /\ e.type = cur[d].type /\ e.parent = cur[d].parent
          /\ e.nlink = cur[d].nlink /\ e.target = cur[d].target /\ e.ent = [cur[d].ent EXCEPT ![n] = i]
      <3>1. i \in 0..NI /\ cur[d].ent \in [Name -> 0..NI]
        BY <1>4, <1>5, <2>1 DEF Inum, Dinode
      <3>2. [cur[d].ent EXCEPT ![n] = i] \in [Name -> 0..NI]
        BY <3>1
      <3> QED BY <3>2, <1>4, <2>1, <2>2 DEF Dinode
    <2>5. cur' \in [Inum -> Dinode] /\ cur'[d] = e /\ \A j \in Inum : j # d => cur'[j] = cur[j]
      BY <2>1, <2>3, <2>4, <1>4
    <2> QED BY <2>4, <2>5
  <1>8. /\ LocalOK(t) /\ Holds(t) = 0 /\ ~Owes(t) /\ ~Away(t)
        /\ OwnTwo(t, d, i) /\ UseOK(cur', cwd[p], t)
    <2>1. t = Finish(<<d, i>>)
      BY <1>1, <1>3
    <2>2. cwd[p] # 0 => cur'[cwd[p]].type = "DIR"
      BY <1>4, <1>7 DEF Resting, UseOK, Inum, Inv, Types
    <2>3. cur'[d].type # "none" /\ cur'[i].type # "none"
      BY <1>4, <1>5, <1>7
    <2>4. \A fs, w : (w # 0 => fs[w].type = "DIR") /\ fs[d].type # "none" /\ fs[i].type # "none"
                    => UseOK(fs, w, t)
      BY <2>1, <1>4, <1>5, UseTwo
    <2>5. UseOK(cur', cwd[p], t)
      BY <2>2, <2>3, <2>4
    <2> QED BY <2>1, <2>5, <1>4, <1>5, FinishTwo
  <1>9. Relocked(p, t)
    <2>1. Holds(t) = Holds(st[p])
      BY <1>5, <1>8
    <2> QED BY <2>1, Kept
  <1>10. ic' \in [Inum -> Slot] /\ Coherent(ic', cur') /\ \A j \in Inum : lock'[j] # None => ic'[j].valid
    <2>1. \A j \in Inum : lock[j] # None => ic[j].valid
      BY DEF Inv, Locked
    <2>2. ic' \in [Inum -> Slot] /\ Coherent(ic', cur) /\ \A j \in Inum : j # d => ic'[j] = ic[j]
      BY <1>4 DEF Inside
    <2>3. Coherent(ic', cur')
      BY <2>2, <1>7 DEF Coherent
    <2> QED BY <2>1, <2>2, <2>3, <1>5
  <1>11. OthersUse(cur', p)
    <2>1. OneDir(cur', d)
      BY <1>7 DEF OneDir
    <2> QED BY <2>1, <1>4, <1>5, WriteSpares
  <1>12. DirsOK(cur') /\ Grown(cur, cur', i)
    <2>1. DirsOK(cur) /\ cur \in [Inum -> Dinode]
      BY DEF Inv, Linked, Types
    <2>2. \A j \in Inum : cur'[j].type = "none" => cur'[j].nlink = 0
      BY <2>1, <1>7 DEF DirsOK
    <2>3. Adds(cur, cur', d, n, i)
      BY <2>2, <1>4, <1>5, <1>7 DEF Adds
    <2> QED BY <2>1, <2>3, <1>4, <1>5, <1>6, AddedEntries
  <1>13. Linked'
    <2>1. Balanced(s, t)
      <3> SUFFICES ASSUME NEW j \in Inum
                   PROVE  /\ cur'[j].nlink >= Follows(s, t, j)
                          /\ cur'[j].nlink = Follows(s, t, j)
                          /\ cur'[j].type = "DIR" => cur[j].type = "DIR"
        BY DEF Balanced
      <3>1. cur[j].nlink \in Int /\ cur'[j].nlink = cur[j].nlink /\ cur'[j].type = cur[j].type
        BY <1>7 DEF Inv, Types, Dinode
      <3>2. B(Owes(t) /\ t.ip = j) = 0 /\ B(Owes(s) /\ s.ip = j) = B(j = i) /\ B(j = i) \in Int
        BY <1>5, <1>8 DEF B
      <3>3. /\ Entries(cur, j) \in Nat /\ Entries(cur', j) \in Nat
            /\ Entries(cur', j) = Entries(cur, j) + B(j = i) + B(cur'[i].type = "DIR" /\ j = Root)
        BY <1>12 DEF Grown
      <3>4. B(cur'[i].type = "DIR" /\ j = Root) = 0
        BY <1>5, <1>7 DEF B
      <3>5. cur'[j].nlink = Follows(s, t, j)
        <4>1. Follows(s, t, j) = cur[j].nlink + Entries(cur', j) - Entries(cur, j) + 0 - B(j = i)
          BY <3>2 DEF Follows
        <4>2. Entries(cur', j) = Entries(cur, j) + B(j = i) + 0
          BY <3>3, <3>4
        <4>3. PICK m \in Int, e \in Int, f \in Int, b \in Int :
                 m = cur[j].nlink /\ e = Entries(cur, j) /\ f = Entries(cur', j) /\ b = B(j = i)
          BY <3>1, <3>2, <3>3
        <4>4. Follows(s, t, j) = m + f - e + 0 - b /\ f = e + b + 0
          BY <4>1, <4>2, <4>3
        <4>5. m + f - e + 0 - b = m
          BY <4>3, <4>4
        <4> QED BY <3>1, <4>3, <4>4, <4>5
      <3> QED BY <3>1, <3>5
    <2> QED BY <2>1, <1>7, <1>8, <1>12, LinkedBalanced
  <1>14. Targets'
    <2>1. \A j \in Inum : cur'[j].type = "LINK" => cur[j].type = "LINK" /\ cur'[j].target = cur[j].target
      BY <1>7
    <2> QED BY <2>1, <1>5, <1>8, TargetsKeep DEF Inv
  <1>15. RefsFollow(s, t)
    <2> SUFFICES ASSUME NEW j \in Inum
                 PROVE  ic'[j].ref = ic[j].ref + lost'[j] - lost[j] + Own(t, j) - Own(s, j)
      BY DEF RefsFollow
    <2>1. ic[j].ref \in Int /\ lost[j] \in Int /\ lost'[j] = lost[j]
      BY DEF Inv, Types, Slot
    <2>2. ic'[j].ref = ic[j].ref
      BY <1>4 DEF Inside
    <2>3. Own(t, j) = B(d = j) + B(i = j) /\ Own(s, j) = B(s.ip = j) + B(s.dp = j)
      BY <1>4, <1>8 DEF Resting, OwnTwo
    <2>4. B(s.ip = j) = B(i = j) /\ B(s.dp = j) = B(d = j) /\ B(i = j) \in Int /\ B(d = j) \in Int
      BY <1>1, <1>3 DEF B
    <2> QED BY <2>1, <2>2, <2>3, <2>4
  <1> QED BY <1>5, <1>7, <1>8, <1>9, <1>10, <1>11, <1>13, <1>14, <1>15, Write

LEMMA LinkNewInv ==
  ASSUME Inv, NEW p \in Proc, link_new(p)
  PROVE  Inv'
  <1>0. PICK s : s = st[p]
    OBVIOUS
  <1>1. PICK i : i = dirlookup(s.dp, Head(s.path))
    OBVIOUS
  <1>2. PICK t : t = Put([Idle EXCEPT !.ip = s.ip, !.dp = s.dp], <<i>>, "link_clash")
    OBVIOUS
  <1>3. PICK u : u = Finish(<<s.dp, s.ip>>)
    OBVIOUS
  <1>4. /\ Locks(p, "link_new") /\ UNCHANGED <<file, ofile, cwd, lost>>
        /\ \/ /\ i # 0 /\ ic' = iget(Read(p), i) /\ lock' = [lock EXCEPT ![s.dp] = p] /\ Moves(p, t)
              /\ UNCHANGED cur
           \/ /\ i = 0 /\ ic' = Read(p) /\ cur' = [cur EXCEPT ![s.dp].ent[Head(s.path)] = s.ip]
              /\ Moves(p, u) /\ UNCHANGED lock
    BY <1>0, <1>1, <1>2, <1>3 DEF link_new, Go, Moves, tables
  <1>5. CASE /\ i # 0 /\ ic' = iget(Read(p), i) /\ lock' = [lock EXCEPT ![s.dp] = p] /\ Moves(p, t)
             /\ UNCHANGED cur
    <2>1. Clashes(t, s, i)
      BY <1>0, <1>1, <1>2, <1>4, <1>5, LinkClashPuts
    <2> QED BY <2>1, <1>0, <1>1, <1>4, <1>5, LinkNewClash
  <1>6. CASE /\ i = 0 /\ ic' = Read(p) /\ cur' = [cur EXCEPT ![s.dp].ent[Head(s.path)] = s.ip]
             /\ Moves(p, u) /\ UNCHANGED lock
    BY <1>0, <1>1, <1>3, <1>4, <1>6, LinkNewAdd
  <1> QED BY <1>4, <1>5, <1>6

-----------------------------------------------------------------------------
(* A new inode.                                                            *)

\* The kernel takes the first free entry of a table.
LEMMA FirstFree ==
  ASSUME NEW n \in Nat, NEW T \in SUBSET (1..n), T # {}
  PROVE  (CHOOSE i \in T : \A j \in T : i <= j) \in T
  <1> DEFINE F == {1..i - 1 : i \in T}
  <1>1. ASSUME NEW i \in T PROVE (1..i - 1) \in FiniteSubsetsOf(1..n)
    <2>1. IsFiniteSet(1..i - 1)
      BY FS_Interval
    <2> QED BY <2>1 DEF FiniteSubsetsOf
  <1>2. F \subseteq FiniteSubsetsOf(1..n) /\ F # {}
    BY <1>1
  <1>3. PICK X \in F : \A Y \in F : ~(<<Y, X>> \in StrictSubsetOrdering(1..n))
    <2> HIDE DEF F
    <2> QED BY <1>2, WFMin, FS_StrictSubsetOrderingWellFounded
  <1>4. PICK i \in T : X = 1..i - 1
    BY <1>3
  <1>5. ASSUME NEW j \in T, j < i PROVE FALSE
    <2>1. (1..j - 1) \in F
      OBVIOUS
    <2>2. (1..j - 1) \subseteq X /\ j \in X /\ j \notin (1..j - 1)
      BY <1>4, <1>5
    <2>3. X \in SUBSET (1..n) /\ (1..j - 1) \in SUBSET (1..n)
      BY <1>4
    <2>4. <<1..j - 1, X>> \in StrictSubsetOrdering(1..n)
      BY <2>2, <2>3 DEF StrictSubsetOrdering
    <2> QED BY <2>1, <2>4, <1>3
  <1>6. \A j \in T : i <= j
    BY <1>5
  <1> QED BY <1>6

\* A step that changes nothing the invariant is about.
LEMMA SameInv ==
  ASSUME Inv, UNCHANGED <<cur, ic, lock, file, ofile, cwd, st, lost>>
  PROVE  Inv'
  <1>1. Types' /\ Alive' /\ Coherent(ic, cur)' /\ Locked' /\ Targets'
    BY DEF Inv, Types, Alive, Coherent, Locked, Targets
  <1>2. Refs' /\ Files'
    BY DEF Inv, Refs, Files, FileRefExact, Pointers
  <1>3. InUse'
    BY DEF Inv, InUse
  <1>4. Linked'
    <2>1. \A i \in Inum : Due(i)' = Due(i) /\ Extra(i)' = Extra(i)
      BY DEF Due, Owing, Extra
    <2> QED BY <2>1 DEF Inv, Linked
  <1> QED BY <1>1, <1>2, <1>3, <1>4 DEF Inv

\* A function with one value replaced.
LEMMA Updated ==
  ASSUME NEW S, NEW T, NEW m \in [S -> T], NEW d \in S, NEW g \in T, NEW w, w = [m EXCEPT ![d] = g]
  PROVE  w \in [S -> T] /\ w[d] = g /\ \A j \in S : j # d => w[j] = m[j]
  OBVIOUS

\* The inode that create() has made, and the entry it has in directory d.
Made(d, n, i, type, sub) ==
  /\ cur' \in [Inum -> Dinode]
  /\ cur'[i].type = type /\ cur'[i].nlink = 1 /\ cur'[i].ent = [m \in Name |-> 0]
  /\ type = "DIR" => cur'[i].parent = d
  /\ cur'[d].type = cur[d].type /\ cur'[d].parent = cur[d].parent /\ cur'[d].target = cur[d].target
  /\ cur'[d].nlink = cur[d].nlink + sub /\ cur'[d].ent = [cur[d].ent EXCEPT ![n] = i]
  /\ \A j \in Inum \ {d, i} : cur'[j] = cur[j]

LEMMA MadeNode ==
  ASSUME cur \in [Inum -> Dinode], NEW d \in Inum, NEW n \in Name, NEW i \in Inum, i # d,
         NEW type \in {"DIR", "LINK", "FILE"}, NEW sub \in Int,
         cur' = [cur EXCEPT ![i] = [FreeNode EXCEPT !.type = type, !.nlink = 1,
                                                    !.parent = IF type = "DIR" THEN d ELSE 0],
                            ![d].nlink = @ + sub, ![d].ent[n] = i]
  PROVE  Made(d, n, i, type, sub)
  <1>1. PICK e : e = [FreeNode EXCEPT !.type = type, !.nlink = 1, !.parent = IF type = "DIR" THEN d ELSE 0]
    OBVIOUS
  <1>2. PICK g : g = [cur[d] EXCEPT !.nlink = @ + sub, !.ent = [cur[d].ent EXCEPT ![n] = i]]
    OBVIOUS
  <1>3. cur' = [cur EXCEPT ![i] = e, ![d] = g]
    BY <1>1, <1>2
  <1>4. /\ e \in Dinode /\ e.type = type /\ e.nlink = 1 /\ e.ent = [m \in Name |-> 0]
        /\ type = "DIR" => e.parent = d
    <2>1. PICK x \in 0..NI : x = IF type = "DIR" THEN d ELSE 0
      BY FSAssumption DEF Inum
    <2>2. PICK z : z = [m \in Name |-> 0]
      OBVIOUS
    <2>3. z \in [Name -> 0..NI] /\ <<>> \in Seq(Name \cup {".."})
      BY <2>2, FSAssumption
    <2>4. e = [type |-> type, nlink |-> 1, ent |-> z, parent |-> x, target |-> <<>>]
      BY <1>1, <2>1, <2>2 DEF FreeNode
    <2>5. e \in Dinode
      BY <2>1, <2>3, <2>4 DEF Dinode
    <2> QED BY <2>1, <2>2, <2>4, <2>5
  <1>5. /\ g \in Dinode /\ g.type = cur[d].type /\ g.parent = cur[d].parent /\ g.target = cur[d].target
        /\ g.nlink = cur[d].nlink + sub /\ g.ent = [cur[d].ent EXCEPT ![n] = i]
    <2>1. i \in 0..NI /\ cur[d].ent \in [Name -> 0..NI] /\ cur[d].nlink \in Int
      BY DEF Inum, Dinode
    <2>2. [cur[d].ent EXCEPT ![n] = i] \in [Name -> 0..NI] /\ cur[d].nlink + sub \in Int
      BY <2>1
    <2> QED BY <2>2, <1>2 DEF Dinode
  <1>6. /\ cur' \in [Inum -> Dinode] /\ cur'[i] = e /\ cur'[d] = g
        /\ \A j \in Inum \ {d, i} : cur'[j] = cur[j]
    <2>1. PICK m : m = [cur EXCEPT ![i] = e]
      OBVIOUS
    <2>2. m \in [Inum -> Dinode] /\ m[i] = e /\ \A j \in Inum : j # i => m[j] = cur[j]
      BY <2>1, <1>4
    <2>3. cur' = [m EXCEPT ![d] = g]
      BY <2>1, <1>3
    <2>4. g \in Dinode
      BY <1>5
    <2>5. PICK w : w = [m EXCEPT ![d] = g]
      OBVIOUS
    <2>6. w \in [Inum -> Dinode] /\ w[d] = g /\ \A j \in Inum : j # d => w[j] = m[j]
      BY <2>2, <2>4, <2>5, Updated
    <2>7. cur' = w
      BY <2>3, <2>5
    <2> QED BY <2>2, <2>6, <2>7
  <1> QED BY <1>4, <1>5, <1>6 DEF Made

\* Its slot, and that of the directory: c is the cache with one more reference to inode i.
MadeSlot(c, d, i, type, sub) ==
  /\ ic' \in [Inum -> Slot] /\ \A j \in Inum : ic'[j].ref = c[j].ref
  /\ ic'[i].valid /\ ic'[i].type = type /\ ic'[i].nlink = 1
  /\ ic'[d].valid = c[d].valid /\ ic'[d].type = c[d].type /\ ic'[d].nlink = c[d].nlink + sub
  /\ \A j \in Inum \ {d, i} : ic'[j] = c[j]

LEMMA MadeCache ==
  ASSUME NEW c \in [Inum -> Slot], NEW d \in Inum, NEW i \in Inum, i # d, ~c[i].valid,
         NEW type \in {"DIR", "LINK", "FILE"}, NEW sub \in Int,
         ic' = [c EXCEPT ![i].valid = TRUE, ![i].nlink = 1, ![d].nlink = @ + sub,
                         ![i].type = IF c[i].valid THEN @ ELSE type]
  PROVE  MadeSlot(c, d, i, type, sub)
  <1>1. PICK c1 : c1 = [c EXCEPT ![i].valid = TRUE]
    OBVIOUS
  <1>2. PICK c2 : c2 = [c1 EXCEPT ![i].nlink = 1]
    OBVIOUS
  <1>3. PICK c3 : c3 = [c2 EXCEPT ![d].nlink = @ + sub]
    OBVIOUS
  <1>4. ic' = [c3 EXCEPT ![i].type = IF c[i].valid THEN @ ELSE type]
    BY <1>1, <1>2, <1>3
  <1>5. /\ c1 \in [Inum -> Slot] /\ \A j \in Inum : j # i => c1[j] = c[j]
        /\ c1[i].valid /\ c1[i].ref = c[i].ref
    BY <1>1 DEF Slot
  <1>6. /\ c2 \in [Inum -> Slot] /\ \A j \in Inum : j # i => c2[j] = c[j]
        /\ c2[i].valid /\ c2[i].ref = c[i].ref /\ c2[i].nlink = 1
    BY <1>2, <1>5 DEF Slot
  <1>7. /\ c3 \in [Inum -> Slot] /\ \A j \in Inum \ {d, i} : c3[j] = c[j]
        /\ c3[i] = c2[i]
        /\ c3[d].ref = c[d].ref /\ c3[d].valid = c[d].valid /\ c3[d].type = c[d].type
        /\ c3[d].nlink = c[d].nlink + sub
    BY <1>3, <1>6 DEF Slot
  <1>8. /\ ic' \in [Inum -> Slot] /\ \A j \in Inum : j # i => ic'[j] = c3[j]
        /\ ic'[i].ref = c3[i].ref /\ ic'[i].valid = c3[i].valid /\ ic'[i].nlink = c3[i].nlink
        /\ ic'[i].type = type
    <2>1. PICK h : h = [c3[i] EXCEPT !.type = type]
      OBVIOUS
    <2>2. /\ h \in Slot /\ h.ref = c3[i].ref /\ h.valid = c3[i].valid /\ h.nlink = c3[i].nlink
          /\ h.type = type
      BY <2>1, <1>7 DEF Slot
    <2>3. ic' = [c3 EXCEPT ![i] = h]
      BY <2>1, <1>4
    <2> QED BY <2>2, <2>3, <1>7
  <1>9. \A j \in Inum : ic'[j].ref = c[j].ref
    <2> SUFFICES ASSUME NEW j \in Inum PROVE ic'[j].ref = c[j].ref
      OBVIOUS
    <2>1. CASE j = i
      BY <2>1, <1>6, <1>7, <1>8
    <2>2. CASE j = d
      BY <2>2, <1>7, <1>8
    <2>3. CASE j \notin {d, i}
      BY <2>3, <1>7, <1>8
    <2> QED BY <2>1, <2>2, <2>3
  <1>10. /\ ic'[i].valid /\ ic'[i].type = type /\ ic'[i].nlink = 1
         /\ ic'[d].valid = c[d].valid /\ ic'[d].type = c[d].type /\ ic'[d].nlink = c[d].nlink + sub
         /\ \A j \in Inum \ {d, i} : ic'[j] = c[j]
    BY <1>6, <1>7, <1>8
  <1> QED BY <1>8, <1>9, <1>10 DEF MadeSlot

\* A call that owes no link and looks up no name.
LEMMA UseOwed ==
  ASSUME NEW fs, NEW w, NEW t, w # 0 => fs[w].type = "DIR", fs[t.ip].type # "none", t.dp = 0, ~Owes(t),
         Lab(t) \notin OnEntry, Lab(t) # "unlink_ip", \A j \in DOMAIN t.puts : fs[t.puts[j]].type # "none",
         Lab(t) = "created" /\ fs[t.ip].type = "LINK" => IsPath(t.path2)
  PROVE  UseOK(fs, w, t)
  BY DEF UseOK

\* The cache with one more reference to inode i, and directory d locked.
Taken(c, d, i) ==
  /\ c \in [Inum -> Slot] /\ Coherent(c, cur) /\ c[d].valid
  /\ \A j \in Inum : c[j].ref = ic[j].ref + B(j = i)
  /\ \A j \in Inum \ {d, i} : c[j] = ic[j]

\* The branch of create() that makes an inode.
LEMMA CreateAdd ==
  ASSUME Inv, NEW p \in Proc, NEW s, s = st[p], Resting(p, s, "create"),
         NEW d \in Inum, d = s.dp, lock[d] = None, cur[d].type = "DIR", NEW n \in Name, cur[d].ent[n] = 0,
         NEW i \in Inum, cur[i].type = "none", NEW type, type = TypeOf(s.op), NEW sub, sub = B(type = "DIR"),
         NEW c, Taken(c, d, i), Made(d, n, i, type, sub), MadeSlot(c, d, i, type, sub),
         lock' = [lock EXCEPT ![i] = p], UNCHANGED <<file, ofile, cwd, lost>>,
         NEW k, k = (IF type = "FILE" THEN "opened" ELSE "created"),
         NEW t, t = Put([Idle EXCEPT !.ip = i, !.path2 = s.path2], <<d>>, k), Moves(p, t)
  PROVE  Inv'
  <1>1. /\ s \in Local /\ s.pc = "create" /\ Lab(s) = "create" /\ s.ip = 0 /\ s.puts = <<>>
        /\ s.op \in Creates /\ Holds(s) = 0 /\ ~Owes(s) /\ ~Away(s)
        /\ s.op = "mkdir" => d = Root
        /\ s.op = "symlink" => IsPath(s.path2)
        /\ \A j \in Inum : Own(s, j) = B(s.ip = j) + B(s.dp = j)
        /\ cwd[p] \in Inum /\ cur[cwd[p]].type = "DIR"
    BY DEF Resting, LocalOK, Nodes, OpOK, PathOK, Path2OK, OnDir, OnEntry, Holds, Owes, Away, Creates,
           UseOK, Inum
  <1>2. /\ type \in {"DIR", "LINK", "FILE"}
        /\ type = "DIR" => s.op = "mkdir"
        /\ type = "LINK" => s.op = "symlink"
        /\ sub \in Int /\ (type = "DIR" => sub = 1) /\ (type # "DIR" => sub = 0)
    BY DEF TypeOf, B
  <1>3. i # d /\ i # Root /\ lock[i] = None /\ cwd[p] # i /\ cur[i].nlink = 0
    BY <1>1 DEF Inv, Linked, DirsOK, Locked, Coherent
  <1>4. PICK u : u = [Idle EXCEPT !.ip = i, !.path2 = s.path2]
    OBVIOUS
  <1>5. /\ u \in Local /\ u.ip = i /\ u.dp = 0 /\ u.op = "none" /\ u.path2 = s.path2
    <2>1. i \in 0..NI /\ s.path2 \in Seq(Elem)
      BY <1>1, FSAssumption DEF Inum, Local
    <2> QED BY <1>4, <2>1, IdleLocal DEF Local
  <1>6. k \in {"opened", "created"} /\ (k = "opened" <=> type = "FILE")
    OBVIOUS
  <1>7. Putting(t, u, d, k)
    BY <1>4, <1>5, <1>6, PutOne DEF Labels, OnNode, Outside
  <1>8. /\ LocalOK(t) /\ t.ip = i /\ t.dp = 0 /\ Holds(t) = i /\ ~Owes(t) /\ ~Away(t)
        /\ Lab(t) = k /\ t.path2 = s.path2 /\ t.puts = <<d>> /\ t.pc = "put"
        /\ \A j \in Inum : Own(t, j) = B(i = j) + B(d = j)
    <2>1. /\ t \in Local /\ t.ip = i /\ t.dp = 0 /\ t.op = "none" /\ Lab(t) = k /\ PutsOK(t)
          /\ t.path2 = s.path2 /\ t.puts = <<d>> /\ t.pc = "put"
          /\ \A j \in Inum : Own(t, j) = B(i = j) + B(0 = j) + B(d = j)
      BY <1>5, <1>7 DEF Putting
    <2>2. LocalOK(t)
      BY <2>1, <1>6 DEF LocalOK, Nodes, OpOK, PathOK, Path2OK, Labels, Finals, OnNode, OnDir, OnBoth, OnEntry
    <2>3. \A j \in Inum : B(0 = j) = 0 /\ B(i = j) \in Int /\ B(d = j) \in Int
      BY DEF B, Inum
    <2>4. Holds(t) = i /\ ~Owes(t) /\ ~Away(t)
      BY <2>1, <1>6 DEF Holds, Owes, Away
    <2> QED BY <2>1, <2>2, <2>3, <2>4
  <1>9. Relocked(p, t)
    <2>1. Inv /\ Holds(st[p]) = 0 /\ lock[i] = None /\ Holds(t) = i
      BY <1>1, <1>3, <1>8
    <2> QED BY <2>1, Take
  <1>10. cur' \in [Inum -> Dinode] /\ ic' \in [Inum -> Slot]
    BY DEF Made, MadeSlot
  <1>11. Coherent(ic', cur')
    <2> SUFFICES ASSUME NEW j \in Inum, ic'[j].valid
                 PROVE  ic'[j].type = cur'[j].type /\ ic'[j].nlink = cur'[j].nlink /\ cur'[j].type # "none"
      BY DEF Coherent
    <2>1. CASE j = i
      BY <2>1, <1>2 DEF Made, MadeSlot
    <2>2. CASE j = d
      BY <2>2, <1>3 DEF Made, MadeSlot, Coherent, Taken
    <2>3. CASE j \notin {d, i}
      BY <2>3 DEF Made, MadeSlot, Coherent, Taken
    <2> QED BY <2>1, <2>2, <2>3
  <1>12. RefsFollow(s, t)
    <2> SUFFICES ASSUME NEW j \in Inum
                 PROVE  ic'[j].ref = ic[j].ref + lost'[j] - lost[j] + Own(t, j) - Own(s, j)
      BY DEF RefsFollow
    <2>1. Own(s, j) = B(d = j)
      BY <1>1 DEF B, Inum
    <2>2. ic[j].ref \in Int /\ lost'[j] = lost[j] /\ lost[j] \in Int /\ ic'[j].ref = ic[j].ref + B(j = i)
      BY DEF MadeSlot, Taken, Inv, Types, Slot
    <2> QED BY <2>1, <2>2, <1>8 DEF B
  <1>13. \A j \in Inum : lock'[j] # None => ic'[j].valid
    <2> SUFFICES ASSUME NEW j \in Inum, lock'[j] # None PROVE ic'[j].valid
      OBVIOUS
    <2>1. CASE j \in {d, i}
      BY <2>1 DEF MadeSlot
    <2>2. CASE j \notin {d, i}
      <3>1. lock'[j] = lock[j]
        BY <2>2 DEF Inv, Types
      <3> QED BY <3>1, <2>2 DEF Inv, Locked, MadeSlot, Taken
    <2> QED BY <2>1, <2>2
  <1>14. OneDir(cur', d)
    BY DEF OneDir, Made
  <1>15. OthersUse(cur', p)
    BY <1>14, WriteSpares
  <1>16. UseOK(cur', cwd[p], t)
    <2>1. cur'[cwd[p]].type = "DIR" /\ cur'[d].type = "DIR" /\ cur'[i].type = type /\ cur'[i].type # "none"
      BY <1>1, <1>2, <1>3 DEF Made
    <2>2. \A j \in DOMAIN t.puts : t.puts[j] = d
      BY <1>8
    <2>3. Lab(t) = "created" /\ cur'[t.ip].type = "LINK" => IsPath(t.path2)
      BY <2>1, <1>1, <1>2, <1>8
    <2>4. Lab(t) \notin OnEntry /\ Lab(t) # "unlink_ip"
      BY <1>6, <1>8 DEF OnEntry
    <2>5. \A j \in DOMAIN t.puts : cur'[t.puts[j]].type # "none"
      BY <2>1, <2>2
    <2>6. ~Owes(t) /\ t.dp = 0 /\ cur'[t.ip].type # "none"
      BY <2>1, <1>8
    <2> QED BY <2>1, <2>3, <2>4, <2>5, <2>6, UseOwed
  <1>17. Adds(cur, cur', d, n, i)
    <2>1. Names(cur, i) = {}
      <3>1. cur[i].nlink >= Due(i)
        BY DEF Inv, Linked
      <3>2. Entries(cur, i) <= 0
        BY <3>1, <1>3, DueSplit
      <3> QED BY <3>2, EntriesSplit
    <2>2. \A j \in Inum : cur'[j].type = "none" => cur'[j].nlink = 0
      BY <1>2 DEF Made, Inv, Linked, DirsOK
    <2>3. \A j \in Inum \ {d, i} :
            cur'[j].type = cur[j].type /\ cur'[j].ent = cur[j].ent /\ cur'[j].parent = cur[j].parent
      BY DEF Made
    <2> QED BY <2>1, <2>2, <2>3, <1>1, <1>2 DEF Adds, Made
  <1>18. DirsOK(cur') /\ Grown(cur, cur', i)
    BY <1>3, <1>17, AddedEntries DEF Inv, Types, Linked
  <1>19. Balanced(s, t)
    <2> SUFFICES ASSUME NEW j \in Inum
                 PROVE  /\ cur'[j].nlink = Follows(s, t, j)
                        /\ cur'[j].type = "DIR" => cur[j].type = "DIR" \/ (cur[j].type = "none" /\ j # Root)
      <3>1. \A j \in Inum : cur'[j].nlink \in Int
        BY <1>10 DEF Dinode
      <3> QED BY <3>1 DEF Balanced
    <2>1. Follows(s, t, j) = cur[j].nlink + Entries(cur', j) - Entries(cur, j)
      <3>1. PICK e \in Int : e = Entries(cur, j)
        BY <1>18 DEF Grown
      <3>2. PICK f \in Int : f = Entries(cur', j)
        BY <1>18 DEF Grown
      <3>3. cur[j].nlink \in Int
        BY DEF Inv, Types, Dinode
      <3> QED BY <3>1, <3>2, <3>3, <1>1, <1>8 DEF Follows, B
    <2>2. Follows(s, t, j) = cur[j].nlink + B(j = i) + B(type = "DIR" /\ j = Root)
      <3>1. PICK e \in Int : e = Entries(cur, j)
        BY <1>18 DEF Grown
      <3>2. Entries(cur', j) = e + B(j = i) + B(type = "DIR" /\ j = Root)
        BY <3>1, <1>18 DEF Grown, Made
      <3>3. cur[j].nlink \in Int /\ B(j = i) \in Int /\ B(type = "DIR" /\ j = Root) \in Int
        BY DEF Inv, Types, Dinode, B
      <3> QED BY <2>1, <3>1, <3>2, <3>3
    <2>3. cur[j].nlink \in Int
      BY DEF Inv, Types, Dinode
    <2>4. CASE j = i
      BY <2>2, <2>4, <1>3 DEF Made, B
    <2>5. CASE j = d
      BY <2>2, <2>3, <2>5, <1>1, <1>2, <1>3 DEF Made, B
    <2>6. CASE j \notin {d, i}
      <3>1. ~(type = "DIR" /\ j = Root)
        BY <2>6, <1>1, <1>2
      <3> QED BY <2>2, <2>3, <2>6, <3>1 DEF Made, B
    <2> QED BY <2>4, <2>5, <2>6
  <1>20. Linked'
    BY <1>8, <1>10, <1>18, <1>19, LinkedBalanced
  <1>21. Targets'
    <2>1. ASSUME NEW j \in Inum, cur'[j].type = "LINK"
          PROVE  \/ cur[j].type = "LINK" /\ cur'[j].target = cur[j].target
                 \/ Lab(t) = "created" /\ t.ip = j
      BY <2>1, <1>6, <1>8 DEF Made
    <2>2. Lab(st[p]) # "created" /\ Types /\ Targets
      BY <1>1 DEF Inv
    <2> QED BY <2>1, <2>2, <1>8, TargetsKeep
  <1> QED BY <1>1, <1>8, <1>9, <1>10, <1>11, <1>12, <1>13, <1>15, <1>16, <1>20, <1>21, Write

\* The writes of create() for a new inode i, with the locals of its call.
Makes(p, d, n, i, type, sub, c, k, path2) ==
  /\ cur' = [cur EXCEPT ![i] = [FreeNode EXCEPT !.type = type, !.nlink = 1,
                                                !.parent = IF type = "DIR" THEN d ELSE 0],
                        ![d].nlink = @ + sub, ![d].ent[n] = i]
  /\ ic' = [c EXCEPT ![i].valid = TRUE, ![i].nlink = 1, ![d].nlink = @ + sub,
                     ![i].type = IF c[i].valid THEN @ ELSE type]
  /\ lock' = [lock EXCEPT ![i] = p]
  /\ st' = [st EXCEPT ![p] = Put([Idle EXCEPT !.ip = i, !.path2 = path2], <<d>>, k)]

LEMMA CreateNewInv ==
  ASSUME Inv, NEW p \in Proc, create_new(p)
  PROVE  Inv'
  <1>0. PICK s : s = st[p]
    OBVIOUS
  <1>1. PICK free : free = {i \in Inum : cur[i].type = "none"}
    OBVIOUS
  <1>2. PICK i : i = CHOOSE x \in free : \A j \in free : x <= j
    OBVIOUS
  <1>3. PICK type : type = TypeOf(s.op)
    OBVIOUS
  <1>4. PICK sub : sub = IF type = "DIR" THEN 1 ELSE 0
    OBVIOUS
  <1>5. PICK c : c = iget(Read(p), i)
    OBVIOUS
  <1>6. PICK k : k = IF type = "FILE" THEN "opened" ELSE "created"
    BY Zenon
  <1>7. /\ Locks(p, "create") /\ dirlookup(s.dp, Head(s.path)) = 0
        /\ UNCHANGED <<file, ofile, cwd, lost>>
    BY <1>0, Zenon DEF create_new, tables
  <1>8. CASE free = {}
    <2>1. UNCHANGED <<cur, ic, lock, st>>
      BY <1>1, <1>8, Zenon DEF create_new
    <2> QED BY <2>1, <1>7, SameInv, SMTT(60)
  <1>9. PICK d : d = s.dp
    OBVIOUS
  <1>10. PICK n : n = Head(s.path)
    OBVIOUS
  <1>11. /\ Resting(p, s, "create") /\ Inside(p, d) /\ d \in Inum /\ lock[d] = None
         /\ cur[d].type = "DIR" /\ n \in Name
    <2>1. /\ Resting(p, s, "create") /\ Inside(p, s.dp) /\ s.dp \in Inum
          /\ cur[s.dp].type = "DIR" /\ Head(s.path) \in Name
      BY <1>0, <1>7, LastEntry
    <2> QED BY <2>1, <1>9, <1>10 DEF Inside
  <1>12. cur[d].ent[n] = 0
    BY <1>7, <1>9, <1>10, <1>11, FSAssumption DEF dirlookup
  <1>13. CASE free # {}
    <2>1. i \in Inum /\ cur[i].type = "none"
      <3>1. NI \in Nat /\ free \in SUBSET (1..NI)
        BY <1>1, FSAssumption DEF Inum
      <3>2. i \in free
        BY <3>1, <1>2, <1>13, FirstFree
      <3> QED BY <3>2, <1>1
    <2>2. i # d /\ ~ic[i].valid /\ Read(p) \in [Inum -> Slot] /\ Coherent(Read(p), cur)
      BY <2>1, <1>11 DEF Inv, Coherent, Inside
    <2>3. ~Read(p)[i].valid /\ Read(p)[i].ref >= 0 /\ Read(p)[d].valid
      BY <2>1, <2>2, <1>11 DEF Inside, Resting
    <2>4. /\ c \in [Inum -> Slot] /\ Coherent(c, cur) /\ ~c[i].valid
          /\ \A j \in Inum : c[j].ref = Read(p)[j].ref + B(j = i)
          /\ \A j \in Inum : j # i => c[j] = Read(p)[j]
      BY <2>1, <2>2, <2>3, <1>5, IgetServes DEF Serves
    <2>5. /\ c[d].valid /\ \A j \in Inum \ {d, i} : c[j] = ic[j]
          /\ \A j \in Inum : c[j].ref = ic[j].ref + B(j = i)
      BY <2>2, <2>3, <2>4, <1>11 DEF Inside
    <2>6. type \in {"DIR", "LINK", "FILE"} /\ sub \in Int
      BY <1>3, <1>4 DEF TypeOf, B
    <2> DEFINE F == {j \in Inum : cur[j].type = "none"}
               new == CHOOSE x \in F : \A y \in F : x <= y
    <2>7. F # {} /\ i = new
      BY <1>1, <1>2, <1>13, SMTT(60)
    <2>8. Makes(p, st[p].dp, Head(st[p].path), new, TypeOf(st[p].op),
                IF TypeOf(st[p].op) = "DIR" THEN 1 ELSE 0, iget(Read(p), new),
                IF TypeOf(st[p].op) = "FILE" THEN "opened" ELSE "created", st[p].path2)
      BY <2>7, Zenon DEF create_new, Go, Makes
    <2>9. Makes(p, d, n, i, type, sub, c, k, s.path2)
      BY <2>7, <2>8, <1>0, <1>3, <1>4, <1>5, <1>6, <1>9, <1>10
    <2>10. Made(d, n, i, type, sub)
      <3>1. cur \in [Inum -> Dinode]
        BY DEF Inv, Types
      <3> QED BY <3>1, <2>1, <2>2, <2>6, <2>9, <1>11, MadeNode DEF Makes
    <2>11. MadeSlot(c, d, i, type, sub)
      BY <2>1, <2>2, <2>4, <2>6, <2>9, <1>11, MadeCache DEF Makes
    <2>12. PICK t : t = Put([Idle EXCEPT !.ip = i, !.path2 = s.path2], <<d>>, k)
      OBVIOUS
    <2>13. lock' = [lock EXCEPT ![i] = p] /\ Moves(p, t)
      BY <2>9, <2>12 DEF Makes, Moves
    <2>14. Taken(c, d, i)
      BY <2>4, <2>5 DEF Taken
    <2>15. sub = B(type = "DIR")
      BY <1>4 DEF B
    <2>16. UNCHANGED <<file, ofile, cwd, lost>>
      BY <1>7
    <2> QED BY <2>1, <2>14, <2>10, <2>11, <2>12, <2>13, <2>15, <2>16, <1>0, <1>3, <1>6, <1>9, <1>11,
               <1>12, CreateAdd
  <1> QED BY <1>8, <1>13

-----------------------------------------------------------------------------
(* A name is removed from a directory.                                     *)

\* Entry n of directory d is cleared.
Clears(fs, fs2, d, n) ==
  /\ fs2[d].type = "DIR" /\ fs2[d].parent = fs[d].parent /\ fs2[d].ent = [fs[d].ent EXCEPT ![n] = 0]
  /\ \A j \in Inum : j # d => fs2[j] = fs[j]

LEMMA RemoveOne ==
  ASSUME NEW S, IsFiniteSet(S), NEW x \in S
  PROVE  Cardinality(S \ {x}) = Cardinality(S) - 1
  BY FS_RemoveElement

LEMMA ClearedNames ==
  ASSUME NEW fs \in [Inum -> Dinode], NEW d \in Inum, fs[d].type = "DIR", NEW n \in Name,
         NEW i \in Inum, fs[d].ent[n] = i, NEW fs2, Clears(fs, fs2, d, n)
  PROVE  /\ Names(fs2, i) = Names(fs, i) \ {<<d, n>>} /\ <<d, n>> \in Names(fs, i)
         /\ \A j \in Inum : j # i => Names(fs2, j) = Names(fs, j)
  <1>1. ASSUME NEW j \in Inum, NEW a \in Inum, NEW m \in Name
        PROVE  <<a, m>> \in Names(fs2, j) <=> <<a, m>> \in Names(fs, j) /\ ~(j = i /\ a = d /\ m = n)
    <2>1. /\ <<a, m>> \in Names(fs2, j) <=> fs2[a].type = "DIR" /\ fs2[a].ent[m] = j
          /\ <<a, m>> \in Names(fs, j) <=> fs[a].type = "DIR" /\ fs[a].ent[m] = j
      BY DEF Names
    <2>2. j # 0 /\ fs[d].ent \in [Name -> 0..NI]
      BY DEF Inum, Dinode
    <2>3. CASE a = d
      BY <2>1, <2>2, <2>3 DEF Clears
    <2>4. CASE a # d
      BY <2>1, <2>4 DEF Clears
    <2> QED BY <2>3, <2>4
  <1>2. \A j \in Inum : Names(fs, j) \subseteq Inum \X Name /\ Names(fs2, j) \subseteq Inum \X Name
    BY DEF Names
  <1>3. <<d, n>> \in Names(fs, i)
    BY DEF Names
  <1>4. Names(fs2, i) = Names(fs, i) \ {<<d, n>>}
    <2>1. \A x \in Inum \X Name : x \in Names(fs2, i) <=> x \in Names(fs, i) /\ x # <<d, n>>
      <3> SUFFICES ASSUME NEW x \in Inum \X Name
                   PROVE  x \in Names(fs2, i) <=> x \in Names(fs, i) /\ x # <<d, n>>
        OBVIOUS
      <3>1. PICK a \in Inum, m \in Name : x = <<a, m>>
        OBVIOUS
      <3> QED BY <3>1, <1>1
    <2> QED BY <2>1, <1>2
  <1>5. ASSUME NEW j \in Inum, j # i PROVE Names(fs2, j) = Names(fs, j)
    <2>1. \A x \in Inum \X Name : x \in Names(fs2, j) <=> x \in Names(fs, j)
      <3> SUFFICES ASSUME NEW x \in Inum \X Name
                   PROVE  x \in Names(fs2, j) <=> x \in Names(fs, j)
        OBVIOUS
      <3>1. PICK a \in Inum, m \in Name : x = <<a, m>>
        OBVIOUS
      <3> QED BY <3>1, <1>1, <1>5
    <2> QED BY <2>1, <1>2
  <1> QED BY <1>3, <1>4, <1>5

\* The entries that go with a name of inode i.
Shrunk(fs, fs2, i) ==
  \A j \in Inum : /\ Entries(fs, j) \in Nat /\ Entries(fs2, j) \in Nat
                  /\ Entries(fs, j) = Entries(fs2, j) + B(j = i) + B(fs[i].type = "DIR" /\ j = Root)

LEMMA ClearedEntries ==
  ASSUME NEW fs \in [Inum -> Dinode], DirsOK(fs), NEW d \in Inum, fs[d].type = "DIR", NEW n \in Name,
         NEW i \in Inum, i # d, fs[d].ent[n] = i, NEW fs2, Clears(fs, fs2, d, n), fs2[d].nlink \in Int
  PROVE  DirsOK(fs2) /\ Shrunk(fs, fs2, i) /\ (fs[i].type = "DIR" => d = Root)
  <1>0. \A j \in Inum : fs2[j].type = fs[j].type /\ fs2[j].parent = fs[j].parent
    BY DEF Clears
  <1>1. /\ Names(fs2, i) = Names(fs, i) \ {<<d, n>>} /\ <<d, n>> \in Names(fs, i)
        /\ \A j \in Inum : j # i => Names(fs2, j) = Names(fs, j)
    BY ClearedNames
  <1>2. fs[i].type = "DIR" => d = Root /\ Names(fs2, i) = {}
    <2>1. ASSUME fs[i].type = "DIR" PROVE d = Root /\ \A x \in Names(fs, i) : x = <<d, n>>
      <3>1. <<d, n>>[1] = Root
        BY <2>1, <1>1 DEF DirsOK
      <3>2. \A x, y \in Names(fs, i) : x = y
        BY <2>1 DEF DirsOK
      <3> QED BY <3>1, <3>2, <1>1
    <2> QED BY <2>1, <1>1
  <1>3. DirsOK(fs2)
    <2>1. fs2[Root].type = "DIR"
      BY <1>0, FSAssumption DEF DirsOK, Root, Inum
    <2>2. \A j \in Inum : fs2[j].type = "none" => fs2[j].nlink = 0
      BY DEF Clears, DirsOK
    <2>3. \A j \in Inum : fs2[j].type = "DIR" => /\ fs2[j].parent = Root
                                                 /\ \A x \in Names(fs2, j) : x[1] = Root
                                                 /\ \A x, y \in Names(fs2, j) : x = y
      <3> SUFFICES ASSUME NEW j \in Inum, fs2[j].type = "DIR"
                   PROVE  /\ fs2[j].parent = Root
                          /\ \A x \in Names(fs2, j) : x[1] = Root
                          /\ \A x, y \in Names(fs2, j) : x = y
        OBVIOUS
      <3>1. fs[j].type = "DIR" /\ fs2[j].parent = fs[j].parent /\ Names(fs2, j) \subseteq Names(fs, j)
        BY <1>0, <1>1
      <3>2. /\ fs[j].parent = Root
            /\ \A x \in Names(fs, j) : x[1] = Root
            /\ \A x, y \in Names(fs, j) : x = y
        BY <3>1 DEF DirsOK
      <3> QED BY <3>1, <3>2
    <2> QED BY <2>1, <2>2, <2>3 DEF DirsOK
  <1>4. ASSUME NEW j \in Inum
        PROVE  Cardinality(Names(fs, j)) = Cardinality(Names(fs2, j)) + B(j = i)
    <2>1. IsFiniteSet(Names(fs, j)) /\ Cardinality(Names(fs, j)) \in Nat
      BY EntriesSplit
    <2>2. CASE j = i
      <3>1. Cardinality(Names(fs, j) \ {<<d, n>>}) = Cardinality(Names(fs, j)) - 1
        BY <2>1, <2>2, <1>1, FS_RemoveElement
      <3> QED BY <3>1, <2>1, <2>2, <1>1 DEF B
    <2>3. CASE j # i
      BY <2>1, <2>3, <1>1 DEF B
    <2> QED BY <2>2, <2>3
  <1>5. ASSUME NEW j \in Inum
        PROVE  Cardinality(Subdirs(fs, j)) = Cardinality(Subdirs(fs2, j)) + B(fs[i].type = "DIR" /\ j = Root)
    <2>1. IsFiniteSet(Subdirs(fs, j)) /\ Cardinality(Subdirs(fs, j)) \in Nat
      BY EntriesSplit
    <2>2. i \notin Subdirs(fs2, j)
      BY <1>0, <1>2 DEF Subdirs
    <2>3. \A x \in Inum : x # i => (x \in Subdirs(fs2, j) <=> x \in Subdirs(fs, j))
      BY <1>0, <1>1 DEF Subdirs
    <2>4. i \in Subdirs(fs, j) <=> fs[i].type = "DIR" /\ j = Root
      <3>1. fs[i].type = "DIR" => fs[i].parent = Root
        BY DEF DirsOK
      <3> QED BY <3>1, <1>1 DEF Subdirs
    <2>5. Subdirs(fs, j) \subseteq Inum /\ Subdirs(fs2, j) \subseteq Inum
      BY DEF Subdirs
    <2>6. CASE fs[i].type = "DIR" /\ j = Root
      <3>1. Subdirs(fs2, j) = Subdirs(fs, j) \ {i}
        BY <2>2, <2>3, <2>5
      <3>2. i \in Subdirs(fs, j)
        BY <2>4, <2>6
      <3>3. Cardinality(Subdirs(fs, j) \ {i}) = Cardinality(Subdirs(fs, j)) - 1
        BY <2>1, <3>2, RemoveOne
      <3> QED BY <3>1, <3>3, <2>1, <2>6 DEF B
    <2>7. CASE ~(fs[i].type = "DIR" /\ j = Root)
      <3>1. Subdirs(fs2, j) = Subdirs(fs, j)
        BY <2>2, <2>3, <2>4, <2>5, <2>7
      <3> QED BY <3>1, <2>1, <2>7 DEF B
    <2> QED BY <2>6, <2>7
  <1>6. ASSUME NEW j \in Inum
        PROVE  /\ Entries(fs, j) \in Nat /\ Entries(fs2, j) \in Nat
               /\ Entries(fs, j) = Entries(fs2, j) + B(j = i) + B(fs[i].type = "DIR" /\ j = Root)
    <2>1. Entries(fs, j) = Cardinality(Names(fs, j)) + Cardinality(Subdirs(fs, j))
      BY EntriesSplit
    <2>2. /\ Cardinality(Names(fs2, j)) \in Nat /\ Cardinality(Subdirs(fs2, j)) \in Nat
          /\ Entries(fs2, j) = Cardinality(Names(fs2, j)) + Cardinality(Subdirs(fs2, j))
      BY EntriesSplit
    <2>3. B(j = i) \in Nat /\ B(fs[i].type = "DIR" /\ j = Root) \in Nat
      BY DEF B
    <2> QED BY <2>1, <2>2, <2>3, <1>4, <1>5
  <1> QED BY <1>2, <1>3, <1>6 DEF Shrunk

\* The same for a directory that the call has locked already.
LEMMA HeldSpares ==
  ASSUME Inv, NEW p \in Proc, NEW d \in Inum, lock[d] = p, NEW fs, OneDir(fs, d)
  PROVE  OthersUse(fs, p)
  <1>1. ASSUME NEW q \in Proc, q # p PROVE UseOK(fs, cwd[q], st[q])
    <2>1. cwd[q] \in 0..NI /\ LocalOK(st[q]) /\ UseOK(cur, cwd[q], st[q])
      BY DEF Inv, Types, InUse
    <2>2. Lab(st[q]) = "unlink_ip" => /\ st[q].dp \in Inum /\ Holds(st[q]) = st[q].dp
                                      /\ cur[st[q].dp].type # "none"
      BY <2>1 DEF LocalOK, Nodes, OnBoth, Holds, UseOK, OnEntry
    <2>3. Lab(st[q]) = "unlink_ip" => st[q].dp # d
      <3>1. Lab(st[q]) = "unlink_ip" => lock[st[q].dp] = q
        BY <2>2 DEF Inv, Locked
      <3> QED BY <3>1, <1>1
    <2>4. Spares(cur, fs, cwd[q], st[q])
      BY <2>2, <2>3 DEF Spares, OneDir
    <2> QED BY <2>1, <2>4, UseSpared
  <1>2. \A f \in File : file[f].ip # 0 => fs[file[f].ip].type # "none"
    <2>1. \A f \in File : file[f].ip \in 0..NI /\ (file[f].ip # 0 => cur[file[f].ip].type # "none")
      BY DEF Inv, Types, InUse
    <2> QED BY <2>1 DEF Inum, OneDir
  <1> QED BY <1>1, <1>2 DEF OthersUse

\* The directory d with entry m cleared and n links, on disk and in its slot; c is the cache before.
Cut(d, m, n) ==
  /\ cur' \in [Inum -> Dinode]
  /\ cur'[d].type = cur[d].type /\ cur'[d].parent = cur[d].parent /\ cur'[d].target = cur[d].target
  /\ cur'[d].nlink = n /\ cur'[d].ent = [cur[d].ent EXCEPT ![m] = 0]
  /\ \A j \in Inum : j # d => cur'[j] = cur[j]
CutSlot(c, d, n) ==
  /\ ic' \in [Inum -> Slot] /\ ic'[d].nlink = n
  /\ ic'[d].ref = c[d].ref /\ ic'[d].valid = c[d].valid /\ ic'[d].type = c[d].type
  /\ \A j \in Inum : j # d => ic'[j] = c[j]

LEMMA CutBoth ==
  ASSUME cur \in [Inum -> Dinode], NEW d \in Inum, NEW m \in Name, NEW n \in Int, NEW c \in [Inum -> Slot],
         cur' = [cur EXCEPT ![d].ent[m] = 0, ![d].nlink = n], ic' = [c EXCEPT ![d].nlink = n]
  PROVE  Cut(d, m, n) /\ CutSlot(c, d, n)
  <1>1. PICK e : e = [cur[d].ent EXCEPT ![m] = 0]
    OBVIOUS
  <1>2. cur[d].ent \in [Name -> 0..NI] /\ 0 \in 0..NI
    BY FSAssumption DEF Dinode
  <1>3. e \in [Name -> 0..NI]
    BY <1>1, <1>2, Updated
  <1>4. PICK g : g = [cur[d] EXCEPT !.ent = e, !.nlink = n]
    OBVIOUS
  <1>5. /\ g \in Dinode /\ g.type = cur[d].type /\ g.parent = cur[d].parent /\ g.target = cur[d].target
        /\ g.nlink = n /\ g.ent = e
    BY <1>3, <1>4 DEF Dinode
  <1>6. cur' = [cur EXCEPT ![d] = g]
    BY <1>1, <1>4
  <1>7. PICK w : w = [cur EXCEPT ![d] = g]
    OBVIOUS
  <1>8. w \in [Inum -> Dinode] /\ w[d] = g /\ \A j \in Inum : j # d => w[j] = cur[j]
    BY <1>5, <1>7, Updated
  <1>9. cur' = w
    BY <1>6, <1>7
  <1>10. Cut(d, m, n)
    BY <1>1, <1>5, <1>8, <1>9 DEF Cut
  <1>11. PICK h : h = [c[d] EXCEPT !.nlink = n]
    OBVIOUS
  <1>12. h \in Slot /\ h.ref = c[d].ref /\ h.valid = c[d].valid /\ h.type = c[d].type /\ h.nlink = n
    BY <1>11 DEF Slot
  <1>13. PICK v : v = [c EXCEPT ![d] = h]
    OBVIOUS
  <1>14. v \in [Inum -> Slot] /\ v[d] = h /\ \A j \in Inum : j # d => v[j] = c[j]
    BY <1>12, <1>13, Updated
  <1>15. ic' = v
    BY <1>11, <1>13
  <1>16. CutSlot(c, d, n)
    BY <1>12, <1>14, <1>15 DEF CutSlot
  <1> QED BY <1>10, <1>16

\* The locks change hands: p gives up inode d and has inode i now.
LEMMA Trade ==
  ASSUME Inv, NEW p \in Proc, NEW d \in Inum, Holds(st[p]) = d, NEW i \in Inum, i # d, lock[i] = None,
         lock' = [lock EXCEPT ![i] = p, ![d] = None], NEW t, Holds(t) = i
  PROVE  Relocked(p, t) /\ lock[d] = p
  <1>1. \A j \in Inum : lock[j] = p <=> j = d
    BY DEF Inv, Locked
  <1>2. lock \in [Inum -> Proc \cup {None}]
    BY DEF Inv, Types
  <1>3. PICK m : m = [lock EXCEPT ![i] = p]
    OBVIOUS
  <1>4. m \in [Inum -> Proc \cup {None}] /\ m[i] = p /\ \A j \in Inum : j # i => m[j] = lock[j]
    BY <1>2, <1>3, Updated
  <1>5. PICK w : w = [m EXCEPT ![d] = None]
    OBVIOUS
  <1>6. w \in [Inum -> Proc \cup {None}] /\ w[d] = None /\ \A j \in Inum : j # d => w[j] = m[j]
    BY <1>4, <1>5, Updated
  <1>7. lock' = w
    BY <1>3, <1>5
  <1> QED BY <1>1, <1>4, <1>6, <1>7, FSAssumption DEF Relocked

\* The branch of unlink() that removes the name.
LEMMA UnlinkRemove ==
  ASSUME Inv, NEW p \in Proc, NEW s, s = st[p], Resting(p, s, "unlink_ip"),
         NEW i \in Inum, i = s.ip, Inside(p, i), NEW d \in Inum, d = s.dp, NEW m, m = Head(s.path),
         NEW b, b = B(cur[i].type = "DIR"), NEW n \in Int, n = cur[d].nlink - b,
         Cut(d, m, n), CutSlot(Read(p), d, n),
         lock' = [lock EXCEPT ![i] = p, ![d] = None], UNCHANGED <<file, ofile, cwd, lost>>,
         NEW t, t = Put([Idle EXCEPT !.ip = i], <<d>>, "unlink_dec"), Moves(p, t)
  PROVE  Inv'
  <1>1. /\ s \in Local /\ s.pc = "unlink_ip" /\ Lab(s) = "unlink_ip" /\ s.puts = <<>>
        /\ Holds(s) = d /\ ~Owes(s) /\ ~Away(s) /\ m \in Name
        /\ \A j \in Inum : Own(s, j) = B(i = j) + B(d = j)
        /\ cwd[p] \in Inum /\ cur[cwd[p]].type = "DIR"
        /\ cur[d].type = "DIR" /\ cur[i].type # "none" /\ cur[d].ent[m] = i
    <2>1. s \in Local /\ LocalOK(s) /\ s.pc = "unlink_ip" /\ Lab(s) = "unlink_ip" /\ s.puts = <<>>
      BY DEF Resting
    <2>2. Holds(s) = d /\ ~Owes(s) /\ ~Away(s)
      BY <2>1 DEF Resting, Holds, Owes, Away
    <2>3. m \in Name
      BY <2>1 DEF LocalOK, PathOK, IsNames
    <2>4. \A j \in Inum : Own(s, j) = B(i = j) + B(d = j)
      BY DEF Resting
    <2>5. cwd[p] \in Inum
      BY <2>1, <2>2 DEF Resting, Away
    <2>6. cur[cwd[p]].type = "DIR"
      BY <2>5 DEF Resting, UseOK, Inum
    <2>7. cur[d].type = "DIR" /\ cur[i].type # "none" /\ cur[d].ent[m] = i
      <3>1. UseOK(cur, cwd[p], s) /\ s.ip # 0 /\ s.dp # 0 /\ Lab(s) \in OnEntry
        BY <2>1 DEF Resting, OnEntry, Inum
      <3>2. cur[s.ip].type # "none" /\ cur[s.dp].type = "DIR" /\ cur[s.dp].ent[Head(s.path)] = s.ip
        BY <2>1, <3>1, Zenon DEF UseOK
      <3> QED BY <3>2
    <2> QED BY <2>1, <2>2, <2>3, <2>4, <2>5, <2>6, <2>7
  <1>2. i # d /\ lock[i] = None /\ lock[d] = p
    <2>1. lock[d] = p
      BY <1>1 DEF Inv, Locked
    <2> QED BY <2>1, FSAssumption DEF Inside
  <1>3. /\ t \in Local /\ t.ip = i /\ t.dp = 0 /\ t.op = "none" /\ Lab(t) = "unlink_dec" /\ PutsOK(t)
        /\ t.puts = <<d>> /\ t.pc = "put" /\ \A j \in Inum : Own(t, j) = B(i = j) + B(d = j)
    <2>1. PICK u : u = [Idle EXCEPT !.ip = i]
      OBVIOUS
    <2>2. i \in 0..NI
      BY DEF Inum
    <2>3. u \in Local /\ u.ip = i /\ u.dp = 0 /\ u.op = "none"
      BY <2>1, <2>2, IdleLocal DEF Local
    <2>4. "unlink_dec" \in Labels \ Outside
      BY DEF Labels, OnNode, Outside
    <2>5. Putting(t, u, d, "unlink_dec")
      BY <2>1, <2>3, <2>4, PutOne
    <2>6. \A j \in Inum : B(0 = j) = 0 /\ B(i = j) \in Int /\ B(d = j) \in Int
      BY DEF B, Inum
    <2>7. \A j \in Inum : Own(t, j) = B(i = j) + B(0 = j) + B(d = j)
      BY <2>3, <2>5 DEF Putting
    <2>8. \A j \in Inum : Own(t, j) = B(i = j) + B(d = j)
      <3> SUFFICES ASSUME NEW j \in Inum PROVE Own(t, j) = B(i = j) + B(d = j)
        OBVIOUS
      <3>1. PICK x \in Int : x = B(i = j)
        BY <2>6
      <3>2. PICK y \in Int : y = B(d = j)
        BY <2>6
      <3>3. Own(t, j) = x + 0 + y
        BY <2>6, <2>7, <3>1, <3>2, ZenonT(60)
      <3> QED BY <3>1, <3>2, <3>3
    <2> QED BY <2>3, <2>5, <2>8 DEF Putting
  <1>4. LocalOK(t) /\ Holds(t) = i /\ Owes(t) /\ ~Away(t)
    <2>1. LocalOK(t)
      BY <1>3 DEF LocalOK, Nodes, OpOK, PathOK, Path2OK, Labels, Finals, OnNode, OnDir, OnBoth, OnEntry
    <2> QED BY <2>1, <1>3 DEF Holds, Owes, Away
  <1>5. Relocked(p, t)
    BY <1>1, <1>2, <1>4, Trade
  <1>6. Read(p) \in [Inum -> Slot] /\ Coherent(Read(p), cur) /\ Read(p)[d] = ic[d] /\ ic[d].valid
    BY <1>1, <1>2, FSAssumption DEF Inside, Inv, Locked
  <1>7. cur[d].nlink \in Int /\ b \in Int
    BY DEF Inv, Types, Dinode, B
  <1>9. cur' \in [Inum -> Dinode] /\ ic' \in [Inum -> Slot]
    BY DEF Cut, CutSlot
  <1>10. Coherent(ic', cur')
    BY <1>6 DEF Coherent, Cut, CutSlot
  <1>11. RefsFollow(s, t)
    <2> SUFFICES ASSUME NEW j \in Inum
                 PROVE  ic'[j].ref = ic[j].ref + lost'[j] - lost[j] + Own(t, j) - Own(s, j)
      BY DEF RefsFollow
    <2>1. Own(s, j) = B(i = j) + B(d = j) /\ Own(t, j) = B(i = j) + B(d = j)
      BY <1>1, <1>3
    <2>2. ic[j].ref \in Int /\ lost'[j] = lost[j] /\ lost[j] \in Int
      BY DEF Inv, Types, Slot
    <2>3. ic'[j].ref = ic[j].ref
      BY DEF CutSlot, Inside
    <2> QED BY <2>1, <2>2, <2>3 DEF B
  <1>12. \A j \in Inum : lock'[j] # None => ic'[j].valid
    <2> SUFFICES ASSUME NEW j \in Inum, lock'[j] # None PROVE ic'[j].valid
      OBVIOUS
    <2>1. CASE j \in {d, i}
      BY <2>1, <1>2, <1>6 DEF CutSlot, Inside
    <2>2. CASE j \notin {d, i}
      <3>1. lock'[j] # p
        BY <2>2, <1>4, <1>5 DEF Relocked
      <3>2. ic[j].valid
        BY <3>1, <1>5, LockedValid
      <3> QED BY <3>2, <2>2 DEF CutSlot, Inside
    <2> QED BY <2>1, <2>2
  <1>13. OthersUse(cur', p)
    <2>1. OneDir(cur', d)
      BY SMTT(60) DEF OneDir, Cut
    <2> QED BY <2>1, <1>2, HeldSpares
  <1>14. UseOK(cur', cwd[p], t)
    <2>1. cur'[cwd[p]].type = "DIR" /\ cur'[d].type # "none" /\ cur'[i].type # "none"
      BY <1>1 DEF Cut
    <2>2. \A j \in DOMAIN t.puts : cur'[t.puts[j]].type # "none"
      BY <2>1, <1>3
    <2> QED BY <2>1, <2>2, <1>3, Zenon DEF UseOK, OnEntry
  <1>15. Clears(cur, cur', d, m)
    BY <1>1 DEF Clears, Cut
  <1>16. DirsOK(cur') /\ Shrunk(cur, cur', i) /\ (cur[i].type = "DIR" => d = Root)
    <2>1. cur \in [Inum -> Dinode] /\ DirsOK(cur) /\ cur'[d].nlink \in Int
      BY <1>9 DEF Inv, Types, Linked, Dinode
    <2> QED BY <2>1, <1>1, <1>2, <1>15, ClearedEntries
  <1>17. Balanced(s, t)
    <2> SUFFICES ASSUME NEW j \in Inum
                 PROVE  /\ cur'[j].nlink = Follows(s, t, j)
                        /\ cur'[j].type = "DIR" => cur[j].type = "DIR"
      <3>1. \A j \in Inum : cur'[j].nlink \in Int
        BY <1>9 DEF Dinode
      <3> QED BY <3>1 DEF Balanced
    <2>1. Follows(s, t, j) = cur[j].nlink + Entries(cur', j) - Entries(cur, j) + B(j = i)
      <3>1. PICK e \in Int : e = Entries(cur, j)
        BY <1>16 DEF Shrunk
      <3>2. PICK f \in Int : f = Entries(cur', j)
        BY <1>16 DEF Shrunk
      <3>3. cur[j].nlink \in Int
        BY DEF Inv, Types, Dinode
      <3>4. B(Owes(t) /\ t.ip = j) = B(j = i) /\ B(Owes(s) /\ s.ip = j) = 0 /\ B(j = i) \in Int
        <4>1. B(Owes(t) /\ t.ip = j) = B(j = i)
          BY <1>3, <1>4 DEF B
        <4>2. B(Owes(s) /\ s.ip = j) = 0
          BY <1>1, Zenon DEF B
        <4>3. B(j = i) \in Int
          BY DEF B
        <4> QED BY <4>1, <4>2, <4>3
      <3> QED BY <3>1, <3>2, <3>3, <3>4 DEF Follows
    <2>2. Follows(s, t, j) = cur[j].nlink - B(cur[i].type = "DIR" /\ j = Root)
      <3>1. PICK e \in Int : e = Entries(cur', j)
        BY <1>16 DEF Shrunk
      <3>2. Entries(cur, j) = e + B(j = i) + B(cur[i].type = "DIR" /\ j = Root)
        BY <3>1, <1>16 DEF Shrunk
      <3>3. cur[j].nlink \in Int /\ B(j = i) \in Int /\ B(cur[i].type = "DIR" /\ j = Root) \in Int
        BY DEF Inv, Types, Dinode, B
      <3> QED BY <2>1, <3>1, <3>2, <3>3
    <2>3. cur[j].nlink \in Int
      BY DEF Inv, Types, Dinode
    <2>4. CASE j = d
      <3>1. B(cur[i].type = "DIR" /\ j = Root) = b
        BY <2>4, <1>16 DEF B
      <3>2. cur'[j].nlink = cur[j].nlink - b /\ cur'[j].type = cur[j].type
        BY <2>4 DEF Cut
      <3>3. Follows(s, t, j) = cur[j].nlink - b
        BY <3>1, <2>2
      <3> QED BY <3>2, <3>3
    <2>5. CASE j # d
      <3>1. B(cur[i].type = "DIR" /\ j = Root) = 0
        BY <2>5, <1>16 DEF B
      <3>2. cur'[j] = cur[j]
        BY <2>5 DEF Cut
      <3> QED BY <3>1, <3>2, <2>2, <2>3
    <2> QED BY <2>4, <2>5
  <1>18. Linked'
    BY <1>4, <1>9, <1>16, <1>17, LinkedBalanced
  <1>19. Targets'
    <2>1. ASSUME NEW j \in Inum, cur'[j].type = "LINK"
          PROVE  cur[j].type = "LINK" /\ cur'[j].target = cur[j].target
      BY <2>1 DEF Cut
    <2>2. Lab(st[p]) # "created" /\ Types /\ Targets
      BY <1>1 DEF Inv
    <2> QED BY <2>1, <2>2, <1>4, TargetsKeep
  <1> QED BY <1>1, <1>4, <1>5, <1>9, <1>10, <1>11, <1>12, <1>13, <1>14, <1>18, <1>19, Write

LEMMA UnlinkIpInv ==
  ASSUME Inv, NEW p \in Proc, unlink_ip(p)
  PROVE  Inv'
  <1>0. PICK s : s = st[p]
    OBVIOUS
  <1>1. Locks(p, "unlink_ip") /\ UNCHANGED <<file, ofile, cwd, lost>>
    BY DEF unlink_ip, tables
  <1>2. Resting(p, s, "unlink_ip") /\ Inside(p, s.ip)
    BY <1>0, <1>1, Enter DEF OnBoth
  <1>3. s.ip \in Inum /\ s.dp \in Inum /\ Loaded(s.ip).type = cur[s.ip].type
    BY <1>2 DEF Resting, LocalOK, Nodes, OnBoth, Inside
  <1>4. CASE Loaded(s.ip).type = "DIR" /\ ~Empty(s.ip)
    <2>1. PICK t : t = Put([Idle EXCEPT !.dp = s.dp], <<s.ip>>, "unlink_bad")
      OBVIOUS
    <2>2. ic' = Read(p) /\ UNCHANGED <<cur, lock>> /\ Moves(p, t)
      BY <2>1, <1>0, <1>4 DEF unlink_ip, Go, Moves
    <2> QED BY <2>1, <2>2, <1>0, <1>1, UnlinkBusy
  <1>5. CASE ~(Loaded(s.ip).type = "DIR" /\ ~Empty(s.ip))
    <2>1. PICK i : i = s.ip
      OBVIOUS
    <2>2. PICK d : d = s.dp
      OBVIOUS
    <2>3. PICK m : m = Head(s.path)
      OBVIOUS
    <2>4. PICK b : b = B(cur[i].type = "DIR")
      OBVIOUS
    <2>5. PICK n : n = ic[d].nlink - b
      OBVIOUS
    <2>6. PICK t : t = Put([Idle EXCEPT !.ip = i], <<d>>, "unlink_dec")
      OBVIOUS
    <2>7. /\ cur[d].nlink \in Int /\ n \in Int /\ n = cur[d].nlink - b
          /\ m \in Name /\ Read(p) \in [Inum -> Slot] /\ cur \in [Inum -> Dinode]
      <3>1. Holds(s) = d /\ m \in Name
        BY <2>2, <2>3, <1>2 DEF Resting, LocalOK, PathOK, IsNames, Holds, OnEntry
      <3>2. ic[d].valid
        BY <3>1, <1>0, <1>3, <2>2, FSAssumption DEF Inv, Locked
      <3>3. ic[d].nlink = cur[d].nlink /\ cur[d].nlink \in Int
        BY <3>2, <1>3, <2>2 DEF Inv, Coherent, Types, Dinode
      <3> QED BY <3>1, <3>3, <2>4, <2>5, <1>2 DEF Inside, Inv, Types, B
    <2>8. n = ic[s.dp].nlink - (IF Loaded(s.ip).type = "DIR" THEN 1 ELSE 0)
      BY <2>1, <2>2, <2>4, <2>5, <1>3 DEF B
    <2>9. /\ cur' = [cur EXCEPT ![d].ent[m] = 0, ![d].nlink = n] /\ ic' = [Read(p) EXCEPT ![d].nlink = n]
          /\ lock' = [lock EXCEPT ![i] = p, ![d] = None] /\ Moves(p, t)
      BY <2>1, <2>2, <2>3, <2>6, <2>8, <1>0, <1>5 DEF unlink_ip, SetLinks, Go, Moves
    <2>10. Cut(d, m, n) /\ CutSlot(Read(p), d, n)
      BY <2>2, <2>9, <2>7, <1>3, CutBoth
    <2>11. i \in Inum /\ d \in Inum /\ Inside(p, i)
      BY <2>1, <2>2, <1>2, <1>3
    <2>12. lock' = [lock EXCEPT ![i] = p, ![d] = None] /\ Moves(p, t)
      BY <2>9
    <2> QED BY <2>1, <2>2, <2>3, <2>4, <2>6, <2>7, <2>10, <2>11, <2>12, <1>0, <1>1, <1>2, <1>3, UnlinkRemove
  <1> QED BY <1>4, <1>5

-----------------------------------------------------------------------------
(* Files, descriptors and current directories.                             *)

\* The references follow the pointers of the call, its current directory and the struct files.
RefsShift(p, s, t) ==
  \A i \in Inum : ic'[i].ref = ic[i].ref + Own(t, i) - Own(s, i) + B(cwd'[p] = i) - B(cwd[p] = i)
                               + Cardinality(InFile(i)') - Cardinality(InFile(i))

LEMMA RefsFiles ==
  ASSUME Types, Refs, NEW p \in Proc, NEW s, s = st[p], NEW t, LocalOK(t), Moves(p, t),
         \A q \in Proc : q # p => cwd'[q] = cwd[q], UNCHANGED lost, RefsShift(p, s, t)
  PROVE  Refs'
  <1>1. st'[p] = t /\ \A q \in Proc : q # p => st'[q] = st[q]
    BY MovesOne
  <1> SUFFICES ASSUME NEW i \in Inum PROVE (ic'[i].ref = Pointers(i)' + lost'[i])
    BY DEF Refs
  <1>2. /\ Held(i) \in Nat /\ Held(i)' \in Nat
        /\ Held(i)' = Held(i) + Own(t, i) - Own(st[p], i) + B(cwd'[p] = i) - B(cwd[p] = i)
    BY <1>1, HeldMove
  <1>3. IsFiniteSet(InFile(i)) /\ IsFiniteSet(InFile(i)')
    <2>1. IsFiniteSet(File)
      BY FSAssumption, FS_Interval DEF File
    <2>2. InFile(i) \subseteq File /\ InFile(i)' \subseteq File
      BY DEF InFile
    <2> QED BY <2>1, <2>2, FS_Subset
  <1>4. PICK a \in Nat : a = Cardinality(InFile(i))
    BY <1>3, FS_CardinalityType
  <1>5. PICK b \in Nat : b = Cardinality(InFile(i)')
    BY <1>3, FS_CardinalityType
  <1>6. Pointers(i) = Held(i) + a /\ Pointers(i)' = Held(i)' + b
    BY <1>4, <1>5, PointersSplit
  <1>7. ic[i].ref = Pointers(i) + lost[i] /\ lost[i] \in Nat /\ lost'[i] = lost[i]
    BY DEF Refs, Types
  <1>8. ic'[i].ref = ic[i].ref + Own(t, i) - Own(st[p], i) + B(cwd'[p] = i) - B(cwd[p] = i) + b - a
    BY <1>4, <1>5 DEF RefsShift
  <1>9. Own(t, i) \in Int /\ Own(st[p], i) \in Int /\ B(cwd'[p] = i) \in Int /\ B(cwd[p] = i) \in Int
    BY DEF Own, B
  <1> QED BY <1>2, <1>6, <1>7, <1>8, <1>9

\* What a step does to the call of process p, and what the struct files refer to after it.
Stays(p, s, t) ==
  /\ LocalOK(t) /\ Lab(s) # "created" /\ UseOK(cur, cwd'[p], t)
  /\ \A i \in Inum : Owes(t) /\ t.ip = i <=> Owes(s) /\ s.ip = i
  /\ \A q \in Proc : q # p => cwd'[q] = cwd[q]
  /\ \A i \in Inum : Holds(t) = i => ic'[i].valid
Tables ==
  /\ file' \in [File -> [ref : Nat, ip : 0..NI]] /\ ofile' \in [Proc -> [Fd -> 0..NFILE]]
  /\ cwd' \in [Proc -> 0..NI] /\ \A f \in File : file'[f].ip # 0 => cur[file'[f].ip].type # "none"

\* A step that leaves the disk inodes alone.
LEMMA Shift ==
  ASSUME Inv, NEW p \in Proc, NEW s, s = st[p], NEW t, Moves(p, t), Relocked(p, t), UNCHANGED <<cur, lost>>,
         Serves(ic, ic'), Files', Alive', RefsShift(p, s, t), Stays(p, s, t), Tables
  PROVE  Inv'
  <1> USE DEF Inv, Stays, Tables
  <1>1. Types'
    <2>1. st' \in [Proc -> Local] /\ \A q \in Proc : LocalOK(st'[q])
      BY MovesOne
    <2> QED BY <2>1 DEF Types, Serves, Relocked
  <1>2. Refs'
    BY RefsFiles
  <1>3. Coherent(ic, cur)'
    BY DEF Serves
  <1>4. Locked'
    <2>1. \A i \in Inum : lock'[i] # None => ic'[i].valid
      <3> SUFFICES ASSUME NEW i \in Inum, lock'[i] # None PROVE (ic'[i].valid)
        OBVIOUS
      <3>1. CASE lock'[i] = p
        BY <3>1 DEF Relocked
      <3>2. CASE lock'[i] # p
        <4>1. lock[i] # None /\ ic[i].valid /\ ic[i].ref > 0
          BY <3>2, LockedValid
        <4>2. PICK q \in Proc : lock'[i] = q
          BY DEF Relocked
        <4>3. Holds(st'[q]) = i
          <5>1. st'[p] = t /\ \A r \in Proc : r # p => st'[r] = st[r]
            BY MovesOne
          <5> QED BY <5>1, <4>2, <3>2 DEF Locked, Relocked
        <4>4. ic'[i].ref >= Own(st'[q], i) /\ ic'[i].ref \in Nat /\ Own(st'[q], i) \in Nat
          BY <1>1, <1>2, CoverNext DEF Cover, Own, B
        <4>5. Own(st'[q], i) >= 1
          BY <4>3, HoldsOwn
        <4>6. ic'[i].ref > 0
          BY <4>4, <4>5
        <4> QED BY <4>1, <4>6 DEF Serves
      <3> QED BY <3>1, <3>2
    <2> QED BY <2>1, LockedMove DEF Relocked
  <1>5. InUse'
    <2>1. \A q \in Proc : q # p => UseOK(cur', cwd'[q], st[q])
      BY DEF InUse
    <2>2. \A f \in File : file'[f].ip # 0 => cur'[file'[f].ip].type # "none"
      OBVIOUS
    <2>3. UseOK(cur', cwd'[p], t)
      OBVIOUS
    <2> QED BY <2>1, <2>2, <2>3, UseMove
  <1>6. Linked' /\ Targets'
    BY LinkedMove, TargetsMove
  <1> QED BY <1>1, <1>2, <1>3, <1>4, <1>5, <1>6

\* The reference counts of the slots stay; a call gives up a pointer when its current directory
\* becomes one, and the other way round.
Swaps(p, s, t, w) == \A i \in Inum : Own(t, i) + B(w = i) = Own(s, i) + B(cwd[p] = i)
SameRefs == \A i \in Inum : ic'[i].ref = ic[i].ref

LEMMA CwdInv ==
  ASSUME Inv, NEW p \in Proc, NEW s, s = st[p], NEW t, LocalOK(t), Moves(p, t), NEW w \in 0..NI,
         cwd' = [cwd EXCEPT ![p] = w], UNCHANGED <<cur, lost, file, ofile, lock>>,
         Holds(t) = Holds(s), Serves(ic, ic'), SameRefs, Swaps(p, s, t, w), Lab(s) # "created",
         \A i \in Inum : Owes(t) /\ t.ip = i <=> Owes(s) /\ s.ip = i, UseOK(cur, w, t),
         IF Away(t) THEN w = 0 /\ \A d \in Fd : ofile[p][d] = 0 ELSE w \in Inum
  PROVE  Inv'
  <1>1. /\ file \in [File -> [ref : Nat, ip : 0..NI]] /\ ofile \in [Proc -> [Fd -> 0..NFILE]]
        /\ cwd \in [Proc -> 0..NI] /\ Types
    BY DEF Inv, Types
  <1>2. cwd' \in [Proc -> 0..NI] /\ cwd'[p] = w /\ \A q \in Proc : q # p => cwd'[q] = cwd[q]
    BY <1>1, Updated
  <1>3. Files'
    BY FilesSame DEF Inv
  <1>4. Alive'
    <2>1. st'[p] = t /\ \A q \in Proc : q # p => st'[q] = st[q]
      BY <1>1, MovesOne
    <2> QED BY <2>1, <1>2 DEF Alive, Inv
  <1>5. Relocked(p, t)
    BY Kept
  <1>6. RefsShift(p, s, t)
    <2> SUFFICES ASSUME NEW i \in Inum
                 PROVE  ic'[i].ref = ic[i].ref + Own(t, i) - Own(s, i) + B(cwd'[p] = i) - B(cwd[p] = i)
                                     + Cardinality(InFile(i)') - Cardinality(InFile(i))
      BY DEF RefsShift
    <2>1. InFile(i)' = InFile(i) /\ Cardinality(InFile(i)) \in Int
      <3>1. InFile(i)' = InFile(i)
        BY DEF InFile
      <3> QED BY <3>1, HeldFinite, FS_CardinalityType
    <2>2. ic'[i].ref = ic[i].ref /\ ic[i].ref \in Int
      BY <1>1 DEF SameRefs, Types, Slot
    <2>3. Own(t, i) \in Int /\ Own(s, i) \in Int /\ B(w = i) \in Int /\ B(cwd[p] = i) \in Int
      BY DEF Own, B
    <2>4. Own(t, i) + B(w = i) = Own(s, i) + B(cwd[p] = i) /\ cwd'[p] = w
      BY <1>2 DEF Swaps
    <2> QED BY <2>1, <2>2, <2>3, <2>4
  <1>7. \A f \in File : file'[f].ip # 0 => cur[file'[f].ip].type # "none"
    BY DEF Inv, InUse
  <1>8. \A i \in Inum : Holds(t) = i => ic'[i].valid
    <2> SUFFICES ASSUME NEW i \in Inum, Holds(t) = i PROVE ic'[i].valid
      OBVIOUS
    <2>1. lock[i] = p
      BY DEF Inv, Locked
    <2>2. lock[i] # None
      BY <2>1, FSAssumption
    <2>3. ic[i].valid /\ ic[i].ref > 0
      BY <2>2, LockedUsed
    <2> QED BY <2>3 DEF Serves, SameRefs
  <1>9. UseOK(cur, cwd'[p], t)
    BY <1>2
  <1>10. Stays(p, s, t) /\ Tables
    BY <1>1, <1>2, <1>7, <1>8, <1>9 DEF Stays, Tables
  <1> QED BY <1>3, <1>4, <1>5, <1>6, <1>10, Shift

LEMMA ChdirInv ==
  ASSUME Inv, NEW p \in Proc, chdir(p)
  PROVE  Inv'
  <1>0. PICK s : s = st[p]
    OBVIOUS
  <1>1. Locks(p, "chdir") /\ ic' = Read(p) /\ UNCHANGED <<cur, lock, file, ofile, lost>>
    BY DEF chdir
  <1>2. Resting(p, s, "chdir") /\ Inside(p, s.ip)
    BY <1>0, <1>1, Enter DEF OnNode
  <1>3. /\ s.ip \in Inum /\ s.dp = 0 /\ Lab(s) = "chdir" /\ Holds(s) = 0 /\ ~Owes(s) /\ ~Away(s)
        /\ cwd[p] \in Inum /\ cur[cwd[p]].type # "none" /\ Loaded(s.ip).type = cur[s.ip].type
    BY <1>2 DEF Resting, LocalOK, Nodes, OnNode, Holds, Owes, Away, UseOK, Inside, Inum
  <1>4. CASE Loaded(s.ip).type # "DIR"
    <2>1. Moves(p, Finish(<<s.ip>>)) /\ UNCHANGED cwd
      BY <1>0, <1>4 DEF chdir, Go, Moves
    <2> QED BY <2>1, <1>0, <1>1, RefuseInv
  <1>5. CASE Loaded(s.ip).type = "DIR"
    <2>1. PICK t : t = Finish(<<cwd[p]>>)
      OBVIOUS
    <2>2. Moves(p, t) /\ cwd' = [cwd EXCEPT ![p] = s.ip]
      BY <2>1, <1>0, <1>5 DEF chdir, Go, Moves
    <2>3. Ending(t, cwd[p]) /\ UseOK(cur, s.ip, t)
      BY <2>1, <1>3, <1>5, FinishOne
    <2>4. Swaps(p, s, t, s.ip)
      <3> SUFFICES ASSUME NEW i \in Inum PROVE Own(t, i) + B(s.ip = i) = Own(s, i) + B(cwd[p] = i)
        BY DEF Swaps
      <3>1. Own(t, i) = B(cwd[p] = i) /\ Own(s, i) = B(s.ip = i)
        BY <2>3, <1>2, <1>3 DEF Ending, Resting, B, Inum
      <3> QED BY <3>1 DEF B
    <2>5. SameRefs /\ Serves(ic, ic')
      BY <1>1, <1>2 DEF SameRefs, Inside
    <2>6. /\ LocalOK(t) /\ Holds(t) = Holds(s) /\ ~Away(t) /\ Lab(s) # "created" /\ s.ip \in 0..NI
          /\ \A i \in Inum : Owes(t) /\ t.ip = i <=> Owes(s) /\ s.ip = i
      BY <2>3, <1>3 DEF Ending, Inum
    <2> QED BY <2>2, <2>3, <2>4, <2>5, <2>6, <1>0, <1>1, <1>3, CwdInv
  <1> QED BY <1>4, <1>5

LEMMA ExitCwdInv ==
  ASSUME Inv, NEW p \in Proc, exit_cwd(p)
  PROVE  Inv'
  <1>0. PICK s : s = st[p]
    OBVIOUS
  <1>1. PICK u : u = [Idle EXCEPT !.op = "gone"]
    OBVIOUS
  <1>2. PICK t : t = Put(u, <<cwd[p]>>, "end")
    OBVIOUS
  <1>3. /\ s.pc = "exit" /\ \A d \in Fd : ofile[p][d] = 0
        /\ cwd' = [cwd EXCEPT ![p] = 0] /\ Moves(p, t) /\ UNCHANGED <<cur, ic, lock, file, ofile, lost>>
    BY <1>0, <1>1, <1>2 DEF exit_cwd, At, Go, Moves
  <1>4. Resting(p, s, "exit")
    <2>1. "exit" \in Labels
      BY DEF Labels, Finals
    <2> QED BY <1>0, <1>3, <2>1, Rest
  <1>5. /\ s.ip = 0 /\ s.dp = 0 /\ Lab(s) = "exit" /\ Holds(s) = 0 /\ ~Owes(s)
        /\ cwd[p] \in Inum /\ cur[cwd[p]].type = "DIR" /\ \A i \in Inum : Own(s, i) = 0
    BY <1>4 DEF Resting, LocalOK, Nodes, OpOK, Finals, Holds, Owes, Away, UseOK, Inum, B
  <1>6. Putting(t, u, cwd[p], "end") /\ u.ip = 0 /\ u.dp = 0 /\ u.op = "gone"
    <2>1. u \in Local /\ u.ip = 0 /\ u.dp = 0 /\ u.op = "gone"
      BY <1>1, IdleLocal DEF Local, Ops
    <2>2. "end" \in Labels \ Outside
      BY DEF Labels, Finals, Outside
    <2> QED BY <2>1, <2>2, <1>2, <1>5, PutOne
  <1>7. /\ LocalOK(t) /\ Lab(t) = "end" /\ t.ip = 0 /\ t.dp = 0 /\ t.op = "gone" /\ t.puts = <<cwd[p]>>
        /\ Holds(t) = 0 /\ ~Owes(t) /\ Away(t)
    BY <1>6 DEF Putting, LocalOK, Nodes, OpOK, PathOK, Path2OK, Labels, Finals, OnNode, OnDir, OnBoth,
       OnEntry, Holds, Owes, Away
  <1>8. Swaps(p, s, t, 0)
    <2> SUFFICES ASSUME NEW i \in Inum PROVE Own(t, i) + B(0 = i) = Own(s, i) + B(cwd[p] = i)
      BY DEF Swaps
    <2>1. Own(t, i) = B(cwd[p] = i) /\ Own(s, i) = 0 /\ B(0 = i) = 0
      BY <1>5, <1>6 DEF Putting, B, Inum
    <2> QED BY <2>1 DEF B
  <1>9. SameRefs /\ Serves(ic, ic')
    BY <1>3 DEF SameRefs, Serves, Inv, Types
  <1>10. UseOK(cur, 0, t)
    <2>1. \A j \in DOMAIN t.puts : cur[t.puts[j]].type # "none"
      BY <1>5, <1>7
    <2> QED BY <2>1, <1>7 DEF UseOK, OnEntry
  <1>11. 0 \in 0..NI /\ Lab(s) # "created" /\ \A i \in Inum : Owes(t) /\ t.ip = i <=> Owes(s) /\ s.ip = i
    BY <1>5, <1>7, FSAssumption
  <1> QED BY <1>0, <1>3, <1>5, <1>7, <1>8, <1>9, <1>10, <1>11, CwdInv

\* One struct file changes.
LEMMA FileMove ==
  ASSUME NEW f \in File, \A g \in File : g # f => file'[g].ip = file[g].ip, NEW i
  PROVE  /\ Cardinality(InFile(i)) \in Nat /\ Cardinality(InFile(i)') \in Nat
         /\ Cardinality(InFile(i)') = Cardinality(InFile(i)) + B(file'[f].ip = i) - B(file[f].ip = i)
  <1>1. PICK A : A = InFile(i)
    OBVIOUS
  <1>2. PICK A2 : A2 = InFile(i)'
    OBVIOUS
  <1>3. IsFiniteSet(A) /\ A \ {f} = A2 \ {f} /\ (f \in A <=> file[f].ip = i) /\ (f \in A2 <=> file'[f].ip = i)
    BY <1>1, <1>2, HeldFinite DEF InFile
  <1>4. /\ Cardinality(A) \in Nat /\ Cardinality(A2) \in Nat
        /\ Cardinality(A2) = Cardinality(A) + B(f \in A2) - B(f \in A)
    BY <1>3, CountOne
  <1>5. B(f \in A2) = B(file'[f].ip = i) /\ B(f \in A) = B(file[f].ip = i)
    BY <1>3 DEF B
  <1> QED BY <1>1, <1>2, <1>4, <1>5

\* One descriptor changes.
FdSet(p, d, v) ==
  /\ ofile' \in [Proc -> [Fd -> 0..NFILE]] /\ ofile'[p][d] = v
  /\ \A q \in Proc : q # p => ofile'[q] = ofile[q]
  /\ \A f : /\ Cardinality(Descs(f)) \in Nat /\ Cardinality(Descs(f)') \in Nat
            /\ Cardinality(Descs(f)') = Cardinality(Descs(f)) + B(v = f) - B(ofile[p][d] = f)

LEMMA FdMove ==
  ASSUME Types, NEW p \in Proc, NEW d \in Fd, NEW v \in 0..NFILE, ofile' = [ofile EXCEPT ![p][d] = v]
  PROVE  FdSet(p, d, v)
  <1>1. PICK g : g = [ofile[p] EXCEPT ![d] = v]
    OBVIOUS
  <1>2. ofile \in [Proc -> [Fd -> 0..NFILE]] /\ ofile[p] \in [Fd -> 0..NFILE]
    BY DEF Types
  <1>3. g \in [Fd -> 0..NFILE] /\ g[d] = v /\ \A e \in Fd : e # d => g[e] = ofile[p][e]
    BY <1>1, <1>2, Updated
  <1>4. PICK w : w = [ofile EXCEPT ![p] = g]
    OBVIOUS
  <1>5. w \in [Proc -> [Fd -> 0..NFILE]] /\ w[p] = g /\ \A q \in Proc : q # p => w[q] = ofile[q]
    BY <1>2, <1>3, <1>4, Updated
  <1>6. ofile' = w
    BY <1>1, <1>4
  <1>7. ASSUME NEW f
        PROVE  /\ Cardinality(Descs(f)) \in Nat /\ Cardinality(Descs(f)') \in Nat
               /\ Cardinality(Descs(f)') = Cardinality(Descs(f)) + B(v = f) - B(ofile[p][d] = f)
    <2>1. PICK A : A = Descs(f)
      OBVIOUS
    <2>2. PICK A2 : A2 = Descs(f)'
      OBVIOUS
    <2>3. PICK x : x = <<p, d>>
      OBVIOUS
    <2>4. A \subseteq Proc \X Fd /\ A2 \subseteq Proc \X Fd /\ IsFiniteSet(A)
      BY <2>1, <2>2, DescsFinite DEF Descs
    <2>5. \A q \in Proc : \A e \in Fd : /\ <<q, e>> \in A <=> ofile[q][e] = f
                                        /\ <<q, e>> \in A2 <=> w[q][e] = f
      BY <2>1, <2>2, <1>6 DEF Descs
    <2>6. \A q \in Proc : \A e \in Fd : <<q, e>> # x => (<<q, e>> \in A <=> <<q, e>> \in A2)
      BY <2>3, <2>5, <1>3, <1>5
    <2>7. A \ {x} = A2 \ {x}
      BY <2>4, <2>6
    <2>8. (x \in A <=> ofile[p][d] = f) /\ (x \in A2 <=> v = f)
      BY <2>3, <2>5, <1>3, <1>5
    <2>9. /\ Cardinality(A) \in Nat /\ Cardinality(A2) \in Nat
          /\ Cardinality(A2) = Cardinality(A) + B(x \in A2) - B(x \in A)
      BY <2>4, <2>7, CountOne
    <2>10. B(x \in A2) = B(v = f) /\ B(x \in A) = B(ofile[p][d] = f)
      BY <2>8 DEF B
    <2> QED BY <2>1, <2>2, <2>9, <2>10
  <1> QED BY <1>3, <1>5, <1>6, <1>7 DEF FdSet

\* What a descriptor refers to.
LEMMA Opens ==
  ASSUME Inv, NEW p \in Proc, NEW d \in Fd, NEW f, f = ofile[p][d], f # 0
  PROVE  /\ f \in File /\ file[f].ref \in Nat /\ file[f].ref >= 1
         /\ file[f].ip \in Inum /\ cur[file[f].ip].type # "none"
  <1>1. f \in File /\ file[f] \in [ref : Nat, ip : 0..NI]
    BY FSAssumption DEF Inv, Types, File
  <1>2. <<p, d>> \in {x \in Proc \X Fd : ofile[x[1]][x[2]] = f}
    OBVIOUS
  <1>3. file[f].ref # 0
    <2>1. PICK S : S = {x \in Proc \X Fd : ofile[x[1]][x[2]] = f}
      OBVIOUS
    <2>2. IsFiniteSet(S) /\ S # {} /\ file[f].ref = Cardinality(S)
      BY <2>1, <1>1, <1>2, DescsFinite DEF Inv, Files, FileRefExact
    <2> QED BY <2>2, FS_EmptySet
  <1>4. file[f].ip \in Inum
    BY <1>1, <1>3 DEF Inv, Files
  <1> QED BY <1>1, <1>3, <1>4 DEF Inv, InUse, Inum

\* The counts of the struct files after a step that changes struct file f and a descriptor from a to v.
Counted(f, a, v, r) ==
  /\ \A g \in File : g # f => file'[g] = file[g]
  /\ file'[f].ref = r /\ r = file[f].ref + B(v = f) - B(a = f) /\ {a, v} \subseteq {0, f}
  /\ IF r = 0 THEN file'[f].ip = 0 ELSE file'[f].ip \in Inum

LEMMA FilesMove ==
  ASSUME Types, Files, NEW p \in Proc, NEW d \in Fd, NEW v, FdSet(p, d, v), NEW f \in File, NEW r,
         Counted(f, ofile[p][d], v, r)
  PROVE  Files'
  <1>1. \A g \in File : file[g].ref = Cardinality(Descs(g)) /\ file[g].ref \in Int
    BY DEF Files, FileRefExact, Descs, Types
  <1>2. ASSUME NEW g \in File PROVE file'[g].ref = Cardinality(Descs(g)')
    <2>1. Cardinality(Descs(g)') = file[g].ref + B(v = g) - B(ofile[p][d] = g) /\ file[g].ref \in Int
      BY <1>1 DEF FdSet
    <2>2. CASE g = f
      BY <2>1, <2>2 DEF Counted
    <2>3. CASE g # f
      <3>1. v # g /\ ofile[p][d] # g
        BY <2>3 DEF Counted, File
      <3> QED BY <2>1, <2>3, <3>1 DEF Counted, B
    <2> QED BY <2>2, <2>3
  <1>3. FileRefExact'
    BY <1>2 DEF FileRefExact, Descs
  <1>4. \A g \in File : IF file'[g].ref = 0 THEN file'[g].ip = 0 ELSE file'[g].ip \in Inum
    BY DEF Counted, Files
  <1> QED BY <1>3, <1>4 DEF Files

\* The branch of open() that gets a struct file and a descriptor.
LEMMA OpenedTakes ==
  ASSUME Inv, NEW p \in Proc, NEW s, s = st[p], Resting(p, s, "opened"), NEW i \in Inum, i = s.ip,
         NEW f \in File, file[f].ref = 0, NEW d \in Fd, ofile[p][d] = 0,
         file' = [file EXCEPT ![f] = [ref |-> 1, ip |-> i]], FdSet(p, d, f),
         lock' = [lock EXCEPT ![i] = None], UNCHANGED <<cur, ic, cwd, lost>>,
         NEW t, t = End, Moves(p, t)
  PROVE  Inv'
  <1>1. /\ s.dp = 0 /\ Lab(s) = "opened" /\ Holds(s) = i /\ ~Owes(s) /\ ~Away(s)
        /\ cwd[p] \in Inum /\ cur[i].type # "none" /\ UseOK(cur, cwd[p], s)
        /\ \A j \in Inum : Own(s, j) = B(i = j)
    <2>1. /\ s.dp = 0 /\ Lab(s) = "opened" /\ s.op # "gone" /\ s.pc = "opened"
          /\ cwd[p] \in Inum /\ UseOK(cur, cwd[p], s)
      BY DEF Resting, LocalOK, Nodes, OnNode
    <2>2. cur[i].type # "none"
      BY DEF Resting, UseOK, Inum
    <2>3. \A j \in Inum : Own(s, j) = B(i = j)
      <3> SUFFICES ASSUME NEW j \in Inum PROVE Own(s, j) = B(i = j)
        OBVIOUS
      <3>1. Own(s, j) = B(s.ip = j) + B(s.dp = j)
        BY DEF Resting
      <3>2. B(s.dp = j) = 0
        BY <2>1 DEF B, Inum
      <3> QED BY <3>1, <3>2 DEF B
    <2> QED BY <2>1, <2>2, <2>3 DEF Holds, Owes, Away
  <1>2. /\ LocalOK(t) /\ t.ip = 0 /\ t.dp = 0 /\ t.op = "none" /\ Lab(t) = "end" /\ t.pc = "end" /\ t.puts = <<>>
        /\ Holds(t) = 0 /\ ~Owes(t) /\ ~Away(t) /\ \A j \in Inum : Own(t, j) = 0
    <2>1. LocalOK(t) /\ t.ip = 0 /\ t.dp = 0 /\ t.op = "none" /\ t.pc = "end" /\ t.puts = <<>>
      BY EndLocal, IdleLocal DEF SameWork
    <2>2. Lab(t) = "end"
      BY <2>1 DEF Lab
    <2>3. \A j \in Inum : Own(t, j) = 0
      BY <2>1, OwnPuts DEF B, Inum
    <2> QED BY <2>1, <2>2, <2>3 DEF Holds, Owes, Away
  <1>3. Relocked(p, t)
    BY <1>1, <1>2, Give
  <1>4. /\ Types /\ Files /\ Alive /\ file \in [File -> [ref : Nat, ip : 0..NI]] /\ cwd \in [Proc -> 0..NI]
        /\ ic \in [Inum -> Slot] /\ Coherent(ic, cur)
    BY DEF Inv, Types
  <1>5. PICK g : g = [ref |-> 1, ip |-> i]
    OBVIOUS
  <1>6. g \in [ref : Nat, ip : 0..NI] /\ g.ref = 1 /\ g.ip = i
    BY <1>5 DEF Inum
  <1>7. /\ file' \in [File -> [ref : Nat, ip : 0..NI]] /\ file'[f] = g
        /\ \A h \in File : h # f => file'[h] = file[h]
    BY <1>4, <1>5, <1>6, Updated
  <1>8. file[f].ip = 0
    BY <1>4 DEF Files
  <1>9. Counted(f, ofile[p][d], f, 1)
    BY <1>6, <1>7 DEF Counted, B, File
  <1>10. Files'
    BY <1>4, <1>9, FilesMove
  <1>11. Alive'
    <2>1. st'[p] = t /\ \A q \in Proc : q # p => st'[q] = st[q]
      BY <1>2, <1>4, MovesOne
    <2>2. cwd'[p] \in Inum /\ ~Away(st'[p])
      BY <2>1, <1>1, <1>2
    <2>3. \A q \in Proc : q # p => st'[q] = st[q] /\ cwd'[q] = cwd[q] /\ ofile'[q] = ofile[q]
      BY <2>1 DEF FdSet
    <2> QED BY <2>2, <2>3, <1>4 DEF Alive
  <1>12. RefsShift(p, s, t)
    <2> SUFFICES ASSUME NEW j \in Inum
                 PROVE  ic'[j].ref = ic[j].ref + Own(t, j) - Own(s, j) + B(cwd'[p] = j) - B(cwd[p] = j)
                                     + Cardinality(InFile(j)') - Cardinality(InFile(j))
      BY DEF RefsShift
    <2>1. /\ Cardinality(InFile(j)) \in Nat /\ Cardinality(InFile(j)') \in Nat
          /\ Cardinality(InFile(j)') = Cardinality(InFile(j)) + B(file'[f].ip = j) - B(file[f].ip = j)
      BY <1>7, FileMove
    <2>2. B(file'[f].ip = j) = B(i = j) /\ B(file[f].ip = j) = 0 /\ B(i = j) \in Int
      BY <1>6, <1>7, <1>8 DEF B, Inum
    <2>3. Own(t, j) = 0 /\ Own(s, j) = B(i = j) /\ ic'[j].ref = ic[j].ref /\ ic[j].ref \in Int
      BY <1>1, <1>2, <1>4 DEF Slot
    <2>4. PICK w \in Int : w = B(cwd[p] = j) /\ w = B(cwd'[p] = j)
      BY DEF B
    <2>5. PICK m \in Nat : m = Cardinality(InFile(j))
      BY <2>1
    <2>6. PICK e \in Int : e = B(i = j)
      BY <2>2
    <2>7. Cardinality(InFile(j)') = m + e - 0
      BY <2>1, <2>2, <2>5, <2>6
    <2>8. ic[j].ref = ic[j].ref + 0 - e + w - w + (m + e - 0) - m
      BY <2>3
    <2> QED BY <2>3, <2>4, <2>5, <2>6, <2>7, <2>8
  <1>13. UseOK(cur, cwd'[p], t)
    <2>1. cwd'[p] # 0 => cur[cwd'[p]].type = "DIR"
      BY <1>1 DEF UseOK
    <2> QED BY <2>1, <1>2 DEF UseOK, OnEntry
  <1>14. \A h \in File : file'[h].ip # 0 => cur[file'[h].ip].type # "none"
    <2>1. \A h \in File : file[h].ip # 0 => cur[file[h].ip].type # "none"
      BY DEF Inv, InUse
    <2> QED BY <2>1, <1>1, <1>6, <1>7
  <1>15. Serves(ic, ic') /\ \A j \in Inum : Holds(t) = j => ic'[j].valid
    BY <1>2, <1>4 DEF Serves, Inum
  <1>16. ofile' \in [Proc -> [Fd -> 0..NFILE]] /\ cwd' \in [Proc -> 0..NI] /\ UNCHANGED <<cur, lost>>
         /\ \A q \in Proc : q # p => cwd'[q] = cwd[q]
    BY <1>4 DEF FdSet
  <1>17. Lab(s) # "created" /\ \A j \in Inum : Owes(t) /\ t.ip = j <=> Owes(s) /\ s.ip = j
    BY <1>1, <1>2
  <1>18. Stays(p, s, t) /\ Tables
    BY <1>2, <1>7, <1>13, <1>14, <1>15, <1>16, <1>17 DEF Stays, Tables
  <1> QED BY <1>3, <1>10, <1>11, <1>12, <1>15, <1>18, Shift

LEMMA OpenedInv ==
  ASSUME Inv, NEW p \in Proc, opened(p)
  PROVE  Inv'
  <1>0. PICK s : s = st[p]
    OBVIOUS
  <1>1. PICK i : i = s.ip
    OBVIOUS
  <1>2. s.pc = "opened" /\ lock' = [lock EXCEPT ![i] = None] /\ UNCHANGED <<cur, ic, cwd, lost>>
    BY <1>0, <1>1 DEF opened, At
  <1>3. Resting(p, s, "opened")
    <2>1. "opened" \in Labels
      BY DEF Labels, OnNode
    <2> QED BY <1>0, <1>2, <2>1, Rest
  <1>4. i \in Inum /\ s.dp = 0 /\ Holds(s) = i /\ ~Owes(s) /\ ~Away(s) /\ cur[i].type # "none"
    BY <1>1, <1>3 DEF Resting, LocalOK, Nodes, OnNode, Holds, Owes, Away, UseOK, Inum
  <1> DEFINE fs == {f \in File : file[f].ref = 0}
             fds == {d \in Fd : ofile[p][d] = 0}
  <1>5. CASE fs = {} \/ fds = {}
    <2>1. PICK t : t = Finish(<<i>>)
      OBVIOUS
    <2>2. Moves(p, t) /\ UNCHANGED <<file, ofile>>
      BY <2>1, <1>0, <1>1, <1>5 DEF opened, Go, Moves
    <2>3. Ending(t, i) /\ UseOK(cur, cwd[p], t)
      <3>1. cwd[p] # 0 => cur[cwd[p]].type = "DIR"
        BY <1>3 DEF Resting, UseOK
      <3> QED BY <3>1, <2>1, <1>4, FinishOne
    <2>4. Calm(s, t) /\ Holds(t) = 0
      BY <2>3, <1>3, <1>4 DEF Calm, Ending, Resting
    <2>5. SameOwn(s, t)
      BY <2>3, <1>1, <1>3, <1>4 DEF SameOwn, Ending, Resting, B, Inum
    <2> QED BY <2>2, <2>3, <2>4, <2>5, <1>0, <1>2, <1>4, GiveInv
  <1>6. CASE ~(fs = {} \/ fds = {})
    <2>1. PICK f : f = CHOOSE x \in fs : \A y \in fs : x <= y
      OBVIOUS
    <2>2. PICK d : d = CHOOSE x \in fds : \A y \in fds : x <= y
      OBVIOUS
    <2>3. f \in fs
      <3>1. PICK T : T = fs
        OBVIOUS
      <3>2. T \in SUBSET (1..NFILE) /\ T # {} /\ NFILE \in Nat
        BY <3>1, <1>6, FSAssumption DEF File
      <3>3. (CHOOSE x \in T : \A y \in T : x <= y) \in T
        BY <3>2, FirstFree
      <3> QED BY <3>1, <3>3, <2>1
    <2>4. d \in fds
      <3>1. PICK T : T = fds
        OBVIOUS
      <3>2. T \in SUBSET (1..NOFILE) /\ T # {} /\ NOFILE \in Nat
        BY <3>1, <1>6, FSAssumption DEF Fd
      <3>3. (CHOOSE x \in T : \A y \in T : x <= y) \in T
        BY <3>2, FirstFree
      <3> QED BY <3>1, <3>3, <2>2
    <2>5. PICK t : t = End
      OBVIOUS
    <2>6. /\ file' = [file EXCEPT ![f] = [ref |-> 1, ip |-> i]]
          /\ ofile' = [ofile EXCEPT ![p][d] = f] /\ Moves(p, t)
      BY <2>1, <2>2, <2>5, <1>0, <1>1, <1>6 DEF opened, Go, Moves
    <2>7. FdSet(p, d, f)
      <3>1. Types /\ d \in Fd /\ f \in 0..NFILE
        BY <2>3, <2>4, FSAssumption DEF Inv, File
      <3> QED BY <3>1, <2>6, FdMove
    <2>8. f \in File /\ file[f].ref = 0 /\ d \in Fd /\ ofile[p][d] = 0
      BY <2>3, <2>4
    <2> QED BY <2>5, <2>6, <2>7, <2>8, <1>0, <1>1, <1>2, <1>3, <1>4, OpenedTakes
  <1> QED BY <1>5, <1>6

\* A process that is not in a call gets or closes a descriptor of a file that stays open.
LEMMA ShareInv ==
  ASSUME Inv, NEW p \in Proc, NEW s, s = st[p], NEW l \in {"user", "exit"}, Resting(p, s, l),
         NEW d \in Fd, NEW v, FdSet(p, d, v), NEW f \in File, NEW r \in Nat, r # 0,
         file' = [file EXCEPT ![f].ref = r], Counted(f, ofile[p][d], v, r),
         UNCHANGED <<cur, ic, lock, cwd, lost, st>>
  PROVE  Inv'
  <1>1. /\ Types /\ Files /\ Alive /\ file \in [File -> [ref : Nat, ip : 0..NI]] /\ cwd \in [Proc -> 0..NI]
        /\ ic \in [Inum -> Slot] /\ Coherent(ic, cur) /\ st \in [Proc -> Local]
    BY DEF Inv, Types
  <1>2. PICK g : g = [file[f] EXCEPT !.ref = r]
    OBVIOUS
  <1>3. g \in [ref : Nat, ip : 0..NI] /\ g.ip = file[f].ip
    BY <1>1, <1>2
  <1>4. /\ file' \in [File -> [ref : Nat, ip : 0..NI]] /\ file'[f] = g
        /\ \A h \in File : h # f => file'[h] = file[h]
    <2>1. PICK w : w = [file EXCEPT ![f] = g]
      OBVIOUS
    <2>2. w \in [File -> [ref : Nat, ip : 0..NI]] /\ w[f] = g /\ \A h \in File : h # f => w[h] = file[h]
      BY <1>1, <1>3, <2>1, Updated
    <2>3. file' = w
      BY <1>2, <2>1
    <2> QED BY <2>2, <2>3
  <1>5. \A h \in File : file'[h].ip = file[h].ip
    BY <1>3, <1>4
  <1>6. Files'
    BY <1>1, FilesMove
  <1>7. ~Away(s) /\ Lab(s) # "created" /\ LocalOK(s) /\ UseOK(cur, cwd[p], s)
    BY DEF Resting, Away
  <1>8. Alive'
    <2>1. \A q \in Proc : q # p => st'[q] = st[q] /\ cwd'[q] = cwd[q] /\ ofile'[q] = ofile[q]
      BY DEF FdSet
    <2>2. st'[p] = s /\ cwd'[p] = cwd[p]
      OBVIOUS
    <2> QED BY <2>1, <2>2, <1>1, <1>7 DEF Alive
  <1>9. Moves(p, s) /\ Relocked(p, s)
    <2>1. Moves(p, s)
      BY <1>1 DEF Moves
    <2> QED BY <2>1, Kept
  <1>10. RefsShift(p, s, s)
    <2> SUFFICES ASSUME NEW j \in Inum
                 PROVE  ic'[j].ref = ic[j].ref + Own(s, j) - Own(s, j) + B(cwd'[p] = j) - B(cwd[p] = j)
                                     + Cardinality(InFile(j)') - Cardinality(InFile(j))
      BY DEF RefsShift
    <2>1. InFile(j)' = InFile(j)
      BY <1>5 DEF InFile
    <2>2. PICK m \in Nat : m = Cardinality(InFile(j))
      BY HeldFinite, FS_CardinalityType
    <2>3. Own(s, j) \in Int /\ B(cwd[p] = j) \in Int /\ B(cwd'[p] = j) = B(cwd[p] = j)
      BY DEF Own, B
    <2>4. ic'[j].ref = ic[j].ref /\ ic[j].ref \in Int
      BY <1>1 DEF Slot
    <2> QED BY <2>1, <2>2, <2>3, <2>4
  <1>11. \A h \in File : file'[h].ip # 0 => cur[file'[h].ip].type # "none"
    BY <1>5 DEF Inv, InUse
  <1>12. Serves(ic, ic') /\ \A j \in Inum : Holds(s) = j => ic'[j].valid
    <2>1. Holds(s) = 0
      BY DEF Resting, Holds
    <2> QED BY <2>1, <1>1 DEF Serves, Inum
  <1>13. /\ ofile' \in [Proc -> [Fd -> 0..NFILE]] /\ cwd' \in [Proc -> 0..NI] /\ UNCHANGED <<cur, lost>>
         /\ \A q \in Proc : q # p => cwd'[q] = cwd[q]
         /\ UseOK(cur, cwd'[p], s)
    BY <1>1, <1>7 DEF FdSet
  <1>14. Stays(p, s, s) /\ Tables
    BY <1>4, <1>7, <1>11, <1>12, <1>13 DEF Stays, Tables
  <1> QED BY <1>6, <1>8, <1>9, <1>10, <1>12, <1>13, <1>14, Shift

\* The branch of fileclose() that closes the last descriptor.
LEMMA CloseLast ==
  ASSUME Inv, NEW p \in Proc, NEW s, s = st[p], NEW l \in {"user", "exit"}, Resting(p, s, l),
         NEW d \in Fd, NEW f, f = ofile[p][d], f # 0, FdSet(p, d, 0), file[f].ref <= 1,
         file' = [file EXCEPT ![f] = NoFile], UNCHANGED <<cur, ic, lock, cwd, lost>>,
         NEW op \in {"close", "exit"}, NEW t, t = Put([Idle EXCEPT !.op = op], <<file[f].ip>>, "end"),
         Moves(p, t)
  PROVE  Inv'
  <1>1. /\ Types /\ Files /\ Alive /\ file \in [File -> [ref : Nat, ip : 0..NI]] /\ cwd \in [Proc -> 0..NI]
        /\ ic \in [Inum -> Slot] /\ Coherent(ic, cur)
    BY DEF Inv, Types
  <1>2. PICK i : i = file[f].ip
    OBVIOUS
  <1>3. f \in File /\ file[f].ref = 1 /\ i \in Inum /\ cur[i].type # "none"
    BY <1>2, Opens
  <1>4. /\ s.ip = 0 /\ s.dp = 0 /\ Holds(s) = 0 /\ ~Owes(s) /\ ~Away(s) /\ Lab(s) # "created"
        /\ cwd[p] \in Inum /\ UseOK(cur, cwd[p], s)
    BY DEF Resting, LocalOK, Nodes, Finals, Holds, Owes, Away
  <1>5. /\ LocalOK(t) /\ Lab(t) = "end" /\ t.ip = 0 /\ t.dp = 0 /\ t.op = op /\ t.puts = <<i>>
        /\ Holds(t) = 0 /\ ~Owes(t) /\ ~Away(t) /\ \A j \in Inum : Own(t, j) = B(i = j)
    <2>1. PICK u : u = [Idle EXCEPT !.op = op]
      OBVIOUS
    <2>2. u \in Local /\ u.op = op /\ u.ip = 0 /\ u.dp = 0
      BY <2>1, IdleLocal DEF Local, Ops
    <2>3. "end" \in Labels \ Outside
      BY DEF Labels, Finals, Outside
    <2>4. Putting(t, u, i, "end")
      BY <1>2, <1>3, <2>1, <2>2, <2>3, PutOne
    <2>5. \A j \in Inum : Own(t, j) = B(i = j)
      BY <2>2, <2>4 DEF Putting, B, Inum
    <2>6. t \in Local /\ Lab(t) = "end" /\ t.ip = 0 /\ t.dp = 0 /\ t.op = op /\ t.puts = <<i>> /\ t.pc = "put" /\ PutsOK(t)
      BY <2>2, <2>4, SMTT(60) DEF Putting
    <2>7. LocalOK(t)
      BY <2>6, Zenon DEF LocalOK, Nodes, OpOK, PathOK, Path2OK, Labels, Finals, OnNode, OnDir, OnBoth, OnEntry
    <2> QED BY <2>5, <2>6, <2>7 DEF Holds, Owes, Away
  <1>6. /\ file' \in [File -> [ref : Nat, ip : 0..NI]] /\ file'[f] = NoFile
        /\ \A h \in File : h # f => file'[h] = file[h]
    <2>1. NoFile \in [ref : Nat, ip : 0..NI]
      BY FSAssumption DEF NoFile
    <2> QED BY <2>1, <1>1, <1>3, Updated
  <1>7. Counted(f, ofile[p][d], 0, 0)
    BY <1>3, <1>6 DEF Counted, NoFile, B, File
  <1>8. Files'
    BY <1>1, <1>3, <1>7, FilesMove
  <1>9. Alive'
    <2>1. st'[p] = t /\ \A q \in Proc : q # p => st'[q] = st[q]
      BY <1>1, <1>5, MovesOne
    <2>2. cwd'[p] \in Inum /\ ~Away(st'[p])
      BY <2>1, <1>4, <1>5
    <2>3. \A q \in Proc : q # p => st'[q] = st[q] /\ cwd'[q] = cwd[q] /\ ofile'[q] = ofile[q]
      BY <2>1 DEF FdSet
    <2> QED BY <2>2, <2>3, <1>1 DEF Alive
  <1>10. Relocked(p, t)
    BY <1>4, <1>5, Kept
  <1>11. RefsShift(p, s, t)
    <2> SUFFICES ASSUME NEW j \in Inum
                 PROVE  ic'[j].ref = ic[j].ref + Own(t, j) - Own(s, j) + B(cwd'[p] = j) - B(cwd[p] = j)
                                     + Cardinality(InFile(j)') - Cardinality(InFile(j))
      BY DEF RefsShift
    <2>1. /\ Cardinality(InFile(j)) \in Nat /\ Cardinality(InFile(j)') \in Nat
          /\ Cardinality(InFile(j)') = Cardinality(InFile(j)) + B(file'[f].ip = j) - B(file[f].ip = j)
      BY <1>3, <1>6, FileMove
    <2>2. B(file'[f].ip = j) = 0 /\ B(file[f].ip = j) = B(i = j) /\ B(i = j) \in Int
      BY <1>2, <1>6 DEF B, Inum, NoFile
    <2>3. Own(t, j) = B(i = j) /\ Own(s, j) = 0 /\ ic'[j].ref = ic[j].ref /\ ic[j].ref \in Int
      <3>1. Own(s, j) = 0
        BY <1>4 DEF Resting, B, Inum
      <3>2. ic[j].ref \in Int
        BY <1>1 DEF Slot
      <3> QED BY <3>1, <3>2, <1>5
    <2>4. PICK w \in Int : w = B(cwd[p] = j) /\ w = B(cwd'[p] = j)
      BY DEF B
    <2>5. PICK m \in Nat : m = Cardinality(InFile(j))
      BY <2>1
    <2>6. PICK e \in Int : e = B(i = j)
      BY <2>2
    <2>7. Cardinality(InFile(j)') = m + 0 - e
      BY <2>1, <2>2, <2>5, <2>6
    <2>8. ic[j].ref = ic[j].ref + e - 0 + w - w + (m + 0 - e) - m
      BY <2>3, SMTT(60)
    <2> QED BY <2>3, <2>4, <2>5, <2>6, <2>7, <2>8
  <1>12. UseOK(cur, cwd'[p], t)
    <2>1. cwd'[p] # 0 => cur[cwd'[p]].type = "DIR"
      BY <1>4 DEF UseOK
    <2>2. \A j \in DOMAIN t.puts : cur[t.puts[j]].type # "none"
      BY <1>3, <1>5
    <2> QED BY <2>1, <2>2, <1>5, Zenon DEF UseOK, OnEntry
  <1>13. \A h \in File : file'[h].ip # 0 => cur[file'[h].ip].type # "none"
    <2>1. \A h \in File : file[h].ip # 0 => cur[file[h].ip].type # "none"
      BY DEF Inv, InUse
    <2> QED BY <2>1, <1>6 DEF NoFile
  <1>14. Serves(ic, ic') /\ \A j \in Inum : Holds(t) = j => ic'[j].valid
    <2>1. Serves(ic, ic')
      BY <1>1 DEF Serves
    <2>2. \A j \in Inum : Holds(t) # j
      BY <1>5 DEF Inum
    <2> QED BY <2>1, <2>2
  <1>15. /\ ofile' \in [Proc -> [Fd -> 0..NFILE]] /\ cwd' \in [Proc -> 0..NI] /\ UNCHANGED <<cur, lost>>
         /\ \A q \in Proc : q # p => cwd'[q] = cwd[q]
    BY <1>1 DEF FdSet
  <1>16. Lab(s) # "created" /\ \A j \in Inum : Owes(t) /\ t.ip = j <=> Owes(s) /\ s.ip = j
    BY <1>4, <1>5
  <1>17. Stays(p, s, t) /\ Tables
    BY <1>5, <1>6, <1>12, <1>13, <1>14, <1>15, <1>16 DEF Stays, Tables
  <1> QED BY <1>8, <1>9, <1>10, <1>11, <1>14, <1>15, <1>17, Shift

LEMMA FilecloseInv ==
  ASSUME Inv, NEW p \in Proc, NEW l \in {"user", "exit"}, st[p].pc = l, NEW d \in Fd,
         NEW op \in {"close", "exit"}, fileclose(p, d, op)
  PROVE  Inv'
  <1>0. PICK s : s = st[p]
    OBVIOUS
  <1>1. PICK f : f = ofile[p][d]
    OBVIOUS
  <1>2. /\ f # 0 /\ ofile' = [ofile EXCEPT ![p][d] = 0] /\ UNCHANGED <<cur, ic, lock, cwd, lost>>
    BY <1>1 DEF fileclose
  <1>3. Resting(p, s, l)
    <2>1. l \in Labels
      BY DEF Labels, Finals
    <2> QED BY <1>0, <2>1, Rest
  <1>4. FdSet(p, d, 0)
    <2>1. Types /\ 0 \in 0..NFILE
      BY FSAssumption DEF Inv
    <2> QED BY <2>1, <1>2, FdMove
  <1>5. f \in File /\ file[f].ref \in Nat /\ file[f].ref >= 1
    BY <1>1, <1>2, Opens
  <1>6. CASE file[f].ref > 1
    <2>1. PICK r : r = file[f].ref - 1
      OBVIOUS
    <2>2. file' = [file EXCEPT ![f].ref = r] /\ UNCHANGED st
      BY <2>1, <1>1, <1>6 DEF fileclose
    <2>3. r \in Nat /\ r # 0
      BY <2>1, <1>5, <1>6
    <2>4. file[f] \in [ref : Nat, ip : 0..NI] /\ file[f].ip \in Inum
      BY <1>1, <1>2, <1>5, Opens DEF Inv, Types
    <2>5. PICK g : g = [file[f] EXCEPT !.ref = r]
      OBVIOUS
    <2>6. g.ref = r /\ g.ip = file[f].ip
      BY <2>4, <2>5
    <2>7. file'[f] = g /\ \A h \in File : h # f => file'[h] = file[h]
      BY <2>2, <2>5, <1>5 DEF Inv, Types
    <2>8. Counted(f, ofile[p][d], 0, r)
      BY <2>1, <2>3, <2>4, <2>6, <2>7, <1>1, <1>5 DEF Counted, B, File
    <2> QED BY <2>2, <2>3, <2>8, <1>0, <1>2, <1>3, <1>4, <1>5, ShareInv
  <1>7. CASE ~(file[f].ref > 1)
    <2>1. PICK t : t = Put([Idle EXCEPT !.op = op], <<file[f].ip>>, "end")
      OBVIOUS
    <2>2. file' = [file EXCEPT ![f] = NoFile] /\ Moves(p, t)
      BY <2>1, <1>1, <1>7 DEF fileclose, Go, Moves
    <2>3. file[f].ref <= 1
      BY <1>5, <1>7
    <2> QED BY <2>1, <2>2, <2>3, <1>0, <1>1, <1>2, <1>3, <1>4, CloseLast
  <1> QED BY <1>6, <1>7

LEMMA CloseInv ==
  ASSUME Inv, NEW p \in Proc, close(p)
  PROVE  Inv'
  <1>1. PICK d \in Fd : fileclose(p, d, "close")
    BY DEF close
  <1>2. st[p].pc = "user"
    BY DEF close
  <1> QED BY <1>1, <1>2, FilecloseInv

LEMMA ExitCloseInv ==
  ASSUME Inv, NEW p \in Proc, exit_close(p)
  PROVE  Inv'
  <1>1. PICK d \in Fd : fileclose(p, d, "exit")
    BY DEF exit_close
  <1>2. st[p].pc = "exit"
    BY DEF exit_close
  <1> QED BY <1>1, <1>2, FilecloseInv

LEMMA DupInv ==
  ASSUME Inv, NEW p \in Proc, dup(p)
  PROVE  Inv'
  <1>0. PICK s : s = st[p]
    OBVIOUS
  <1>1. PICK d \in Fd, e \in Fd : /\ ofile[p][d] # 0 /\ ofile[p][e] = 0
                                  /\ ofile' = [ofile EXCEPT ![p][e] = ofile[p][d]]
                                  /\ file' = [file EXCEPT ![ofile[p][d]].ref = @ + 1]
    BY DEF dup
  <1>2. PICK f : f = ofile[p][d]
    OBVIOUS
  <1>3. PICK r : r = file[f].ref + 1
    OBVIOUS
  <1>4. /\ s.pc = "user" /\ UNCHANGED <<cur, ic, lock, cwd, lost, st>>
        /\ ofile' = [ofile EXCEPT ![p][e] = f] /\ file' = [file EXCEPT ![f].ref = r]
    BY <1>0, <1>1, <1>2, <1>3 DEF dup, At
  <1>5. Resting(p, s, "user")
    <2>1. "user" \in Labels
      BY DEF Labels, Finals
    <2> QED BY <1>0, <1>4, <2>1, Rest
  <1>6. f \in File /\ file[f].ref \in Nat /\ file[f].ref >= 1 /\ file[f].ip \in Inum
    BY <1>1, <1>2, Opens
  <1>7. FdSet(p, e, f)
    <2>1. Types /\ f \in 0..NFILE
      BY <1>6, FSAssumption DEF Inv, File
    <2> QED BY <2>1, <1>4, FdMove
  <1>8. r \in Nat /\ r # 0
    BY <1>3, <1>6
  <1>9. Counted(f, ofile[p][e], f, r)
    <2>1. file[f] \in [ref : Nat, ip : 0..NI]
      BY <1>6 DEF Inv, Types
    <2>2. PICK g : g = [file[f] EXCEPT !.ref = r]
      OBVIOUS
    <2>3. g.ref = r /\ g.ip = file[f].ip
      BY <2>1, <2>2
    <2>4. file'[f] = g /\ \A h \in File : h # f => file'[h] = file[h]
      BY <2>2, <1>4, <1>6 DEF Inv, Types
    <2> QED BY <2>3, <2>4, <1>1, <1>3, <1>6, <1>8 DEF Counted, B, File
  <1> QED BY <1>0, <1>4, <1>5, <1>6, <1>7, <1>8, <1>9, ShareInv


\* fork(): the child gets the descriptors of its parent.
LEMMA DescsCopy ==
  ASSUME Types, NEW p \in Proc, NEW q \in Proc, \A d \in Fd : ofile[q][d] = 0,
         ofile' = [ofile EXCEPT ![q] = ofile[p]], NEW f \in File
  PROVE  /\ Cardinality(Descs(f)) \in Nat /\ Cardinality({d \in Fd : ofile[p][d] = f}) \in Nat
         /\ Cardinality(Descs(f)') = Cardinality(Descs(f)) + Cardinality({d \in Fd : ofile[p][d] = f})
  <1>1. PICK D : D = {d \in Fd : ofile[p][d] = f}
    OBVIOUS
  <1>2. IsFiniteSet(Fd) /\ IsFiniteSet(Descs(f))
    BY DescsFinite DEF Descs
  <1>3. IsFiniteSet(D) /\ Cardinality(D) \in Nat /\ Cardinality(Descs(f)) \in Nat
    <2>1. D \subseteq Fd
      BY <1>1
    <2> QED BY <2>1, <1>2, FS_Subset, FS_CardinalityType
  <1>4. IsFiniteSet({q} \X D) /\ Cardinality({q} \X D) = Cardinality(D)
    <2>1. IsFiniteSet({q}) /\ Cardinality({q}) = 1
      BY FS_Singleton
    <2>2. IsFiniteSet({q} \X D) /\ Cardinality({q} \X D) = Cardinality({q}) * Cardinality(D)
      BY <2>1, <1>3, FS_Product
    <2> QED BY <2>1, <2>2, <1>3
  <1>5. ofile \in [Proc -> [Fd -> 0..NFILE]]
    BY DEF Types
  <1>6. ofile'[q] = ofile[p] /\ \A r \in Proc : r # q => ofile'[r] = ofile[r]
    BY <1>5
  <1>7. Descs(f)' = Descs(f) \cup ({q} \X D)
    <2>1. f # 0
      BY DEF File
    <2>2. ASSUME NEW x \in Proc \X Fd
          PROVE  ofile'[x[1]][x[2]] = f <=> (ofile[x[1]][x[2]] = f \/ x \in {q} \X D)
      <3>1. CASE x[1] = q
        <4>1. ofile'[x[1]][x[2]] = ofile[p][x[2]] /\ ofile[x[1]][x[2]] # f
          BY <3>1, <1>6, <2>1
        <4>2. x \in {q} \X D <=> ofile[p][x[2]] = f
          BY <3>1, <1>1
        <4> QED BY <4>1, <4>2
      <3>2. CASE x[1] # q
        <4>1. ofile'[x[1]] = ofile[x[1]] /\ x \notin {q} \X D
          BY <3>2, <1>6
        <4> QED BY <4>1
      <3> QED BY <3>1, <3>2
    <2>3. {q} \X D \subseteq Proc \X Fd
      BY <1>1
    <2> QED BY <2>2, <2>3 DEF Descs
  <1>8. Descs(f) \cap ({q} \X D) = {}
    <2>1. f # 0
      BY DEF File
    <2> QED BY <2>1 DEF Descs
  <1>9. Cardinality(Descs(f) \cap ({q} \X D)) = 0
    BY <1>8, FS_EmptySet
  <1>10. Cardinality(Descs(f) \cup ({q} \X D))
           = Cardinality(Descs(f)) + Cardinality({q} \X D) - Cardinality(Descs(f) \cap ({q} \X D))
    BY <1>2, <1>4, FS_Union
  <1> QED BY <1>1, <1>3, <1>4, <1>7, <1>9, <1>10


\* A process between two calls has no pointers, no lock and no link.
LEMMA IdleRest ==
  /\ LocalOK(Idle) /\ Lab(Idle) = "user" /\ Holds(Idle) = 0 /\ ~Owes(Idle) /\ ~Away(Idle)
  /\ \A i \in Inum : Own(Idle, i) = 0
  /\ \A fs, w : (w # 0 => fs[w].type = "DIR") => UseOK(fs, w, Idle)
  <1>1. Lab(Idle) = "user"
    BY IdleLocal DEF Lab
  <1>2. LocalOK(Idle)
    BY <1>1, IdleLocal DEF LocalOK, Nodes, OpOK, PathOK, Path2OK, PutsOK, Labels, Finals, OnNode, OnDir,
       OnBoth, OnEntry
  <1>3. Holds(Idle) = 0 /\ ~Owes(Idle) /\ ~Away(Idle)
    BY <1>1, IdleLocal DEF Holds, Owes, Away
  <1>4. \A i \in Inum : Own(Idle, i) = 0
    BY IdleLocal, OwnPuts DEF B, Inum
  <1>5. ASSUME NEW fs, NEW w, w # 0 => fs[w].type = "DIR" PROVE UseOK(fs, w, Idle)
    BY <1>1, <1>3, <1>5, IdleLocal DEF UseOK, OnEntry
  <1> QED BY <1>1, <1>2, <1>3, <1>4, <1>5

LEMMA ForkInv ==
  ASSUME Inv, NEW p \in Proc, NEW q \in Proc, fork(p, q)
  PROVE  Inv'
  <1>0. PICK s : s = st[q]
    OBVIOUS
  <1>1. PICK t : t = Idle
    OBVIOUS
  <1>2. PICK w : w = cwd[p]
    OBVIOUS
  <1>3. /\ st[p].pc = "user" /\ s.pc = "dead" /\ p # q
        /\ ofile' = [ofile EXCEPT ![q] = ofile[p]]
        /\ file' = [f \in File |-> [file[f] EXCEPT !.ref = @ + Cardinality({d \in Fd : ofile[p][d] = f})]]
        /\ cwd' = [cwd EXCEPT ![q] = w] /\ ic' = idup(ic, w) /\ Moves(q, t)
        /\ UNCHANGED <<cur, lock, lost>>
    BY <1>0, <1>1, <1>2 DEF fork, At, Go, Moves
  <1>4. Resting(q, s, "dead") /\ Resting(p, st[p], "user")
    BY <1>0, <1>3, Rest DEF Labels, Finals
  <1>5. /\ Lab(s) = "dead" /\ Holds(s) = 0 /\ ~Owes(s) /\ s.ip = 0 /\ s.dp = 0
        /\ cwd[q] = 0 /\ (\A d \in Fd : ofile[q][d] = 0) /\ \A i \in Inum : Own(s, i) = 0
    <2>1. Lab(s) = "dead" /\ s.ip = 0 /\ s.dp = 0
      BY <1>4 DEF Resting, LocalOK, Nodes, Finals
    <2>2. cwd[q] = 0 /\ \A d \in Fd : ofile[q][d] = 0
      BY <1>0, <1>3 DEF Inv, Alive, Away
    <2>3. \A i \in Inum : Own(s, i) = B(s.ip = i) + B(s.dp = i)
      BY <1>4 DEF Resting
    <2> QED BY <2>1, <2>2, <2>3 DEF Holds, Owes, B, Inum
  <1>6. w \in Inum /\ cur[w].type = "DIR"
    BY <1>2, <1>3, <1>4 DEF Resting, UseOK, Inum
  <1>7. LocalOK(t) /\ Holds(t) = 0 /\ ~Owes(t) /\ ~Away(t) /\ UseOK(cur, w, t) /\ \A i \in Inum : Own(t, i) = 0
    BY <1>1, <1>6, IdleRest
  <1>8. /\ Types /\ Files /\ Alive /\ file \in [File -> [ref : Nat, ip : 0..NI]] /\ cwd \in [Proc -> 0..NI]
        /\ ofile \in [Proc -> [Fd -> 0..NFILE]] /\ ic \in [Inum -> Slot] /\ Coherent(ic, cur)
    BY DEF Inv, Types
  <1>9. /\ cwd' \in [Proc -> 0..NI] /\ cwd'[q] = w /\ \A r \in Proc : r # q => cwd'[r] = cwd[r]
    BY <1>3, <1>6, <1>8 DEF Inum
  <1>10. /\ ofile' \in [Proc -> [Fd -> 0..NFILE]] /\ \A r \in Proc : r # q => ofile'[r] = ofile[r]
    BY <1>3, <1>8
  <1>11. /\ file' \in [File -> [ref : Nat, ip : 0..NI]]
         /\ \A f \in File : /\ file'[f].ip = file[f].ip
                            /\ file'[f].ref = file[f].ref + Cardinality({d \in Fd : ofile[p][d] = f})
    <2>1. \A f \in File : Cardinality({d \in Fd : ofile[p][d] = f}) \in Nat
      BY <1>3, <1>5, <1>8, DescsCopy
    <2>2. PICK n : n = [f \in File |-> Cardinality({d \in Fd : ofile[p][d] = f})]
      OBVIOUS
    <2>3. \A f \in File : n[f] \in Nat /\ n[f] = Cardinality({d \in Fd : ofile[p][d] = f})
      BY <2>1, <2>2
    <2>4. file' = [f \in File |-> [file[f] EXCEPT !.ref = file[f].ref + n[f]]]
      BY <1>3, <2>3, Zenon
    <2>5. ASSUME NEW f \in File
          PROVE  /\ file'[f] \in [ref : Nat, ip : 0..NI] /\ file'[f].ip = file[f].ip
                 /\ file'[f].ref = file[f].ref + n[f]
      <3>1. PICK r : r = file[f]
        OBVIOUS
      <3>2. PICK m : m = r.ref + n[f]
        OBVIOUS
      <3>3. r \in [ref : Nat, ip : 0..NI] /\ m \in Nat
        <4>1. r \in [ref : Nat, ip : 0..NI]
          BY <3>1, <1>8
        <4>2. PICK a : a = n[f]
          OBVIOUS
        <4>3. a \in Nat /\ m = r.ref + a
          BY <4>2, <3>2, <2>3
        <4> QED BY <4>1, <4>3
      <3>4. file'[f] = [r EXCEPT !.ref = m]
        BY <3>1, <3>2, <2>4
      <3> QED BY <3>1, <3>2, <3>3, <3>4
    <2> QED BY <2>3, <2>4, <2>5
  <1>12. Serves(ic, ic') /\ \A i \in Inum : ic'[i].ref = ic[i].ref + B(i = w)
    BY <1>3, <1>6, <1>8, IdupServes
  <1>13. Files'
    <2>1. ASSUME NEW f \in File
          PROVE  file'[f].ref = Cardinality(Descs(f)') /\ file'[f].ref >= file[f].ref /\ file[f].ref \in Nat
      <3>1. /\ Cardinality(Descs(f)) \in Nat /\ Cardinality({d \in Fd : ofile[p][d] = f}) \in Nat
            /\ Cardinality(Descs(f)') = Cardinality(Descs(f)) + Cardinality({d \in Fd : ofile[p][d] = f})
        BY <1>3, <1>5, <1>8, DescsCopy
      <3>2. file[f].ref = Cardinality(Descs(f))
        BY <1>8 DEF Files, FileRefExact, Descs
      <3> QED BY <3>1, <3>2, <1>8, <1>11
    <2>2. FileRefExact'
      BY <2>1 DEF FileRefExact, Descs
    <2>3. ASSUME NEW f \in File
          PROVE  IF file'[f].ref = 0 THEN file'[f].ip = 0 ELSE file'[f].ip \in Inum
      <3>1. CASE file[f].ref # 0
        <4>1. file[f].ip \in Inum
          BY <3>1, <1>8 DEF Files
        <4>2. file'[f].ref # 0
          BY <3>1, <2>1, <1>8, <1>11
        <4> QED BY <4>1, <4>2, <1>11
      <3>2. CASE file[f].ref = 0
        <4>1. file[f].ip = 0
          BY <3>2, <1>8 DEF Files
        <4>2. \A d \in Fd : ofile[p][d] # f
          <5> SUFFICES ASSUME NEW d \in Fd, ofile[p][d] = f PROVE FALSE
            OBVIOUS
          <5>1. f # 0
            BY DEF File
          <5>2. file[f].ref >= 1
            BY <5>1, Opens
          <5> QED BY <5>2, <3>2
        <4>3. {d \in Fd : ofile[p][d] = f} = {}
          BY <4>2
        <4>4. Cardinality({d \in Fd : ofile[p][d] = f}) = 0
          BY <4>3, FS_EmptySet
        <4> QED BY <4>1, <4>4, <3>2, <1>11
      <3> QED BY <3>1, <3>2
    <2> QED BY <2>2, <2>3 DEF Files
  <1>14. Alive'
    <2>1. st'[q] = t /\ \A r \in Proc : r # q => st'[r] = st[r]
      BY <1>3, <1>7, <1>8, MovesOne
    <2> QED BY <2>1, <1>6, <1>7, <1>8, <1>9, <1>10 DEF Alive
  <1>15. Relocked(q, t)
    BY <1>0, <1>3, <1>5, <1>7, Kept
  <1>16. RefsShift(q, s, t)
    <2> SUFFICES ASSUME NEW i \in Inum
                 PROVE  ic'[i].ref = ic[i].ref + Own(t, i) - Own(s, i) + B(cwd'[q] = i) - B(cwd[q] = i)
                                     + Cardinality(InFile(i)') - Cardinality(InFile(i))
      BY DEF RefsShift
    <2>1. InFile(i)' = InFile(i) /\ Cardinality(InFile(i)) \in Int
      <3>1. InFile(i)' = InFile(i)
        BY <1>11 DEF InFile
      <3> QED BY <3>1, HeldFinite, FS_CardinalityType
    <2>2. ic'[i].ref = ic[i].ref + B(i = w) /\ ic[i].ref \in Int
      BY <1>8, <1>12 DEF Slot
    <2>3. Own(t, i) = 0 /\ Own(s, i) = 0
      BY <1>5, <1>7
    <2>4. B(cwd'[q] = i) = B(i = w) /\ B(cwd[q] = i) = 0 /\ B(i = w) \in Int
      BY <1>5, <1>9 DEF B, Inum
    <2> QED BY <2>1, <2>2, <2>3, <2>4
  <1>17. Stays(q, s, t)
    <2>1. \A i \in Inum : Holds(t) # i
      BY <1>7 DEF Inum
    <2> QED BY <2>1, <1>5, <1>7, <1>9 DEF Stays
  <1>18. Tables
    BY <1>9, <1>10, <1>11 DEF Tables, Inv, InUse
  <1> QED BY <1>0, <1>3, <1>12, <1>13, <1>14, <1>15, <1>16, <1>17, <1>18, Shift


-----------------------------------------------------------------------------
(* The beginning, and a restart.                                           *)

\* The memory of the kernel at boot; Booted says the same of the next state.
Fresh ==
  /\ cur = disk
  /\ ic = [i \in Inum |-> IF i = Root THEN [NotCached EXCEPT !.ref = Cardinality(Proc)] ELSE NotCached]
  /\ lock = [i \in Inum |-> None]
  /\ file = [f \in File |-> NoFile]
  /\ ofile = [p \in Proc |-> [d \in Fd |-> 0]]
  /\ cwd = [p \in Proc |-> Root]
  /\ inop = {}
  /\ st = [p \in Proc |-> Idle]
  /\ lost = [i \in Inum |-> 0]

LEMMA FreshPointers ==
  ASSUME Fresh, NEW i \in Inum
  PROVE  Pointers(i) = IF i = Root THEN Cardinality(Proc) ELSE 0
  <1>1. \A p \in Proc : st[p] = Idle /\ cwd[p] = Root
    BY DEF Fresh
  <1>2. InIp(i) = {} /\ InDp(i) = {} /\ InPuts(i) = {}
    BY <1>1, IdleLocal DEF InIp, InDp, InPuts, Inum
  <1>3. InFile(i) = {}
    BY DEF Fresh, InFile, NoFile, Inum
  <1>4. InCwd(i) = IF i = Root THEN Proc ELSE {}
    BY <1>1 DEF InCwd
  <1>5. Cardinality({}) = 0 /\ Cardinality(Proc) \in Nat
    BY FS_EmptySet, FS_CardinalityType, FSAssumption
  <1>6. Cardinality(InCwd(i)) = IF i = Root THEN Cardinality(Proc) ELSE 0
    BY <1>4, <1>5
  <1>7. Pointers(i) = Held(i) + Cardinality(InFile(i))
    BY PointersSplit
  <1> QED BY <1>2, <1>3, <1>5, <1>6, <1>7 DEF Held

LEMMA FreshInv ==
  ASSUME Fresh, Sound(disk)
  PROVE  Inv
  <1>1. /\ \A p \in Proc : st[p] = Idle /\ cwd[p] = Root /\ \A d \in Fd : ofile[p][d] = 0
        /\ \A i \in Inum : lock[i] = None /\ lost[i] = 0
        /\ \A f \in File : file[f] = NoFile
    BY DEF Fresh
  <1>2. Root \in Inum
    BY FSAssumption DEF Root, Inum
  <1>3. Cardinality(Proc) \in Nat
    BY FS_CardinalityType, FSAssumption
  <1>4. PICK n : n = Cardinality(Proc)
    OBVIOUS
  <1>5. /\ ic \in [Inum -> Slot]
        /\ \A i \in Inum : ~ic[i].valid /\ ic[i].ref = IF i = Root THEN Cardinality(Proc) ELSE 0
    <2>1. PICK a : a = [NotCached EXCEPT !.ref = n]
      OBVIOUS
    <2>2. n \in Int
      BY <1>3, <1>4
    <2>3. a \in Slot /\ ~a.valid /\ a.ref = n
      <3>1. a = [ref |-> n, valid |-> FALSE, type |-> "none", nlink |-> 0]
        BY <2>1 DEF NotCached
      <3> QED BY <3>1, <2>2 DEF Slot
    <2>4. NotCached \in Slot /\ ~NotCached.valid /\ NotCached.ref = 0
      BY DEF NotCached, Slot
    <2>5. ic = [i \in Inum |-> IF i = Root THEN a ELSE NotCached]
      BY <1>4, <2>1, Zenon DEF Fresh
    <2> QED BY <1>4, <2>3, <2>4, <2>5
  <1>6. Types
    <2>1. /\ cur \in [Inum -> Dinode] /\ lock \in [Inum -> Proc \cup {None}]
          /\ file \in [File -> [ref : Nat, ip : 0..NI]] /\ ofile \in [Proc -> [Fd -> 0..NFILE]]
          /\ cwd \in [Proc -> 0..NI] /\ lost \in [Inum -> Nat]
      BY <1>2, FSAssumption DEF Fresh, Sound, NoFile, Inum
    <2>2. st \in [Proc -> Local] /\ \A p \in Proc : LocalOK(st[p])
      BY <1>1, IdleRest, IdleLocal DEF Fresh
    <2> QED BY <2>1, <2>2, <1>5 DEF Types
  <1>7. Refs
    <2> SUFFICES ASSUME NEW i \in Inum PROVE ic[i].ref = Pointers(i) + lost[i]
      BY DEF Refs
    <2> QED BY <1>1, <1>3, <1>5, FreshPointers
  <1>8. Files
    <2>1. ASSUME NEW f \in File PROVE file[f].ref = Cardinality({x \in Proc \X Fd : ofile[x[1]][x[2]] = f})
      <3>1. {x \in Proc \X Fd : ofile[x[1]][x[2]] = f} = {}
        BY <1>1 DEF File
      <3> QED BY <3>1, <1>1, FS_EmptySet DEF NoFile
    <2>2. \A f \in File : file[f].ref = 0 /\ file[f].ip = 0
      BY <1>1 DEF NoFile
    <2> QED BY <2>1, <2>2 DEF Files, FileRefExact
  <1>9. Alive
    BY <1>1, <1>2, IdleRest DEF Alive
  <1>10. Coherent(ic, cur)
    BY <1>5 DEF Coherent
  <1>11. Locked
    BY <1>1, IdleRest, FSAssumption DEF Locked, Inum
  <1>12. cur = disk /\ DirsOK(cur) /\ cur[Root].type = "DIR"
    BY DEF Fresh, Sound, DirsOK
  <1>13. InUse
    <2>1. \A p \in Proc : UseOK(cur, cwd[p], st[p])
      BY <1>1, <1>12, IdleRest
    <2>2. \A f \in File : file[f].ip = 0
      BY <1>1 DEF NoFile
    <2> QED BY <2>1, <2>2 DEF InUse
  <1>14. Linked
    <2>1. ASSUME NEW i \in Inum PROVE Due(i) = Entries(cur, i)
      <3>1. Owing(i) = {}
        BY <1>1, IdleRest DEF Owing
      <3>2. Cardinality(Owing(i)) = 0
        BY <3>1, FS_EmptySet
      <3>3. Entries(cur, i) \in Nat
        BY EntriesSplit
      <3> QED BY <3>2, <3>3 DEF Due
    <2>2. \A i \in Inum : /\ cur[i].nlink >= Entries(cur, i)
                          /\ cur[i].type = "DIR" => cur[i].nlink = Entries(cur, i) + Extra(i)
      BY <1>12 DEF Sound, Extra
    <2> QED BY <2>1, <2>2, <1>12 DEF Linked
  <1>15. Targets
    BY <1>12 DEF Targets, Sound
  <1> QED BY <1>6, <1>7, <1>8, <1>9, <1>10, <1>11, <1>13, <1>14, <1>15 DEF Inv


-----------------------------------------------------------------------------
(* Every step.                                                             *)

LEMMA StepInv ==
  ASSUME Inv, NEW p \in Proc, step(p)
  PROVE  Inv'
  <1>1. CASE put(p) \/ drop(p) \/ end_op(p)
    BY <1>1, PutInv, DropInv, EndOpInv
  <1>2. CASE namex_parent(p) \/ namex_next(p) \/ namex_fail(p)
    BY <1>2, NamexParentInv, NamexNextInv, NamexFailInv
  <1>3. CASE create_exists(p) \/ create_new(p) \/ create_old(p) \/ created(p)
    BY <1>3, CreateExistsInv, CreateNewInv, CreateOldInv, CreatedInv
  <1>4. CASE open_follow(p) \/ open_toodeep(p) \/ open_done(p) \/ opened(p)
    BY <1>4, OpenFollowInv, OpenTooDeepInv, OpenDoneInv, OpenedInv
  <1>5. CASE exec_found(p) \/ exec(p) \/ load(p)
    BY <1>5, ExecFoundInv, ExecInv, LoadInv
  <1>6. CASE link_old(p) \/ link_new(p) \/ link_clash(p) \/ link_bad(p)
    BY <1>6, LinkOldInv, LinkNewInv, LinkClashInv, LinkBadInv
  <1>7. CASE unlink(p) \/ unlink_ip(p) \/ unlink_dec(p) \/ unlink_bad(p)
    BY <1>7, UnlinkInv, UnlinkIpInv, UnlinkDecInv, UnlinkBadInv
  <1>8. CASE chdir(p) \/ exit_close(p) \/ exit_cwd(p)
    BY <1>8, ChdirInv, ExitCloseInv, ExitCwdInv
  <1> QED BY <1>1, <1>2, <1>3, <1>4, <1>5, <1>6, <1>7, <1>8 DEF step

LEMMA InitInv == Init => Inv /\ Sound(disk)
  <1> SUFFICES ASSUME Init PROVE Inv /\ Sound(disk)
    OBVIOUS
  <1>1. Sound(disk)
    BY ImagesAssumption DEF Init
  <1>2. Fresh
    BY DEF Init, Fresh
  <1> QED BY <1>1, <1>2, FreshInv

LEMMA FreshNow == Fresh /\ Sound(disk) => Inv
  BY FreshInv

LEMMA FreshNext == Fresh' /\ Sound(disk)' => Inv'
  BY FreshNow, PTL

LEMMA CrashInv ==
  ASSUME Sound(disk), Crash
  PROVE  Inv' /\ Sound(disk)'
  <1>1. Fresh'
    BY DEF Crash, Booted, Fresh
  <1>2. disk' = disk
    BY DEF Crash
  <1>3. Sound(disk)'
    BY <1>2
  <1> QED BY <1>1, <1>3, FreshNext

-----------------------------------------------------------------------------
(* The durable file system.                                                *)

\* The calls that are open are those of the processes between begin_op() and end_op().
InOps == inop = {p \in Proc : st[p].pc \notin Outside}

LEMMA OpsMove ==
  ASSUME Types, InOps, NEW p \in Proc, NEW t, Moves(p, t),
         inop' = IF t.pc \in Outside THEN inop \ {p} ELSE inop \cup {p}
  PROVE  InOps'
  <1>1. st'[p] = t /\ \A q \in Proc : q # p => st'[q] = st[q]
    BY DEF Types, Moves
  <1> QED BY <1>1 DEF InOps

\* A step inside a transaction.
Inner(p, t) == Moves(p, t) /\ st[p].pc \notin Outside /\ t.pc \notin Outside

LEMMA OpsInner ==
  ASSUME Types, InOps, NEW p \in Proc, NEW t, Inner(p, t), UNCHANGED inop
  PROVE  InOps'
  <1>1. p \in inop
    BY DEF InOps, Inner
  <1> QED BY <1>1, OpsMove DEF Inner


LEMMA PutPc ==
  /\ \A s \in Local : \A puts, k : Put(s, puts, k).pc = "put"
  /\ \A i, d, op, puts, k : /\ Put([Idle EXCEPT !.ip = i], puts, k).pc = "put"
                            /\ Put([Idle EXCEPT !.dp = d], puts, k).pc = "put"
                            /\ Put([Idle EXCEPT !.op = op], puts, k).pc = "put"
                            /\ Put([Idle EXCEPT !.ip = i, !.op = op], puts, k).pc = "put"
                            /\ Put([Idle EXCEPT !.ip = i, !.dp = d], puts, k).pc = "put"
                            /\ Put([Idle EXCEPT !.ip = i, !.path2 = d], puts, k).pc = "put"
  /\ \A puts : Finish(puts).pc = "put"
  /\ End.pc = "end"
  /\ \A i, d : /\ [Idle EXCEPT !.pc = "opened", !.ip = i].pc = "opened"
               /\ [Idle EXCEPT !.pc = "unlink_bad", !.dp = d].pc = "unlink_bad"
  <1>1. \A s \in Local : \A puts, k : Put(s, puts, k).pc = "put"
    BY DEF Put, Local
  <1> QED BY <1>1 DEF Put, Finish, End, Idle


LEMMA StepOps ==
  ASSUME Inv, InOps, NEW p \in Proc, step(p), ~end_op(p), ~exec(p), ~exit_close(p), ~exit_cwd(p)
  PROVE  InOps' /\ UNCHANGED disk
  <1>0. PICK s : s = st[p]
    OBVIOUS
  <1>1. Types /\ s \in Local /\ LocalOK(s) /\ s.pc \in Labels \cup {"put", "drop"}
    BY <1>0 DEF Inv, Types, LocalOK, Local
  <1>2. SUFFICES UNCHANGED <<inop, disk>> /\ (UNCHANGED st \/ \E t : Inner(p, t))
    <2>1. CASE UNCHANGED st
      BY <2>1 DEF InOps
    <2>2. CASE \E t : Inner(p, t)
      BY <2>2, <1>1, OpsInner
    <2> QED BY <2>1, <2>2
  <1>3. CASE put(p) \/ drop(p)
    <2>1. UNCHANGED <<inop, disk>> /\ s.pc \in {"put", "drop"}
      BY <1>0, <1>3 DEF put, drop, At, rest
    <2>2. s.k \in Labels \ Outside
      BY <2>1, <1>1 DEF LocalOK, PutsOK
    <2>3. CASE put(p)
      <3>1. PICK t : t = [s EXCEPT !.pc = "drop"]
        OBVIOUS
      <3>2. Moves(p, t) /\ t.pc = "drop"
        BY <3>1, <2>3, <1>0, <1>1 DEF put, Go, Moves, Local
      <3> QED BY <3>2, <2>1, <1>0 DEF Inner, Outside
    <2>4. CASE drop(p)
      <3>1. PICK l : l = IF Len(s.puts) > 1 THEN "put" ELSE s.k
        OBVIOUS
      <3>2. PICK t : t = [s EXCEPT !.puts = Tail(@), !.pc = l]
        OBVIOUS
      <3>3. Moves(p, t) /\ t.pc = l
        BY <3>1, <3>2, <2>4, <1>0, <1>1 DEF drop, Go, Moves, Local
      <3> QED BY <3>1, <3>3, <2>1, <2>2, <1>0 DEF Inner, Outside
    <2> QED BY <2>3, <2>4, <1>3
  <1>4. CASE namex_parent(p)
    <2>1. PICK t : t = [s EXCEPT !.pc = Parent(s.op)]
      OBVIOUS
    <2>2. Moves(p, t) /\ t.pc = Parent(s.op) /\ s.pc = "namex" /\ UNCHANGED <<inop, disk>>
      BY <2>1, <1>0, <1>1, <1>4 DEF namex_parent, Locks, At, Go, Moves, rest, Local
    <2> QED BY <2>2, <1>0 DEF Inner, Outside, Parent
  <1>5. CASE namex_next(p)
    <2>0. PICK next : next = dirlookup(s.dp, Head(s.path))
      OBVIOUS
    <2>1. PICK t : t = IF Len(s.path) = 1
                       THEN Put([s EXCEPT !.path = <<>>, !.ip = next, !.dp = 0], <<s.dp>>, Node(s.op))
                       ELSE Put([s EXCEPT !.path = Tail(@), !.dp = next], <<s.dp>>, "namex")
      OBVIOUS
    <2>2. Moves(p, t) /\ s.pc = "namex" /\ UNCHANGED <<inop, disk>>
      BY <2>0, <2>1, <1>0, <1>5 DEF namex_next, Locks, At, Go, Moves, rest
    <2>3. t.pc = "put"
      BY <2>1, <1>1 DEF Put, Local
    <2> QED BY <2>2, <2>3, <1>0 DEF Inner, Outside
  <1>6. CASE namex_fail(p)
    <2>1. PICK t : t = IF s.op = "link" /\ s.np THEN Put([Idle EXCEPT !.ip = s.ip], <<s.dp>>, "link_bad")
                                                ELSE Finish(<<s.dp>>)
      OBVIOUS
    <2>2. Moves(p, t) /\ s.pc = "namex" /\ UNCHANGED <<inop, disk>>
      BY <2>1, <1>0, <1>6 DEF namex_fail, Locks, At, Go, Moves, rest
    <2>3. t.pc = "put"
      <3>1. /\ Put([Idle EXCEPT !.ip = s.ip], <<s.dp>>, "link_bad").pc = "put"
            /\ Finish(<<s.dp>>).pc = "put"
        BY DEF Put, Finish, Idle
      <3> QED BY <3>1, <2>1, Zenon
    <2> QED BY <2>2, <2>3, <1>0 DEF Inner, Outside
  <1>7. CASE create_exists(p)
    <2>1. PICK t : t = Put([Idle EXCEPT !.ip = dirlookup(s.dp, Head(s.path)), !.op = s.op], <<s.dp>>, "create_old")
      OBVIOUS
    <2>2. Moves(p, t) /\ s.pc = "create" /\ UNCHANGED <<inop, disk>>
      BY <2>1, <1>0, <1>7 DEF create_exists, Locks, At, Go, Moves, rest
    <2>3. t.pc = "put"
      BY <2>1 DEF Put, Idle
    <2> QED BY <2>2, <2>3, <1>0 DEF Inner, Outside
  <1>8. CASE create_new(p)
    <2>1. PICK free : free = {i \in Inum : cur[i].type = "none"}
      BY Zenon
    <2>2. PICK new : new = CHOOSE i \in free : \A j \in free : i <= j
      OBVIOUS
    <2>3. PICK t : t = Put([Idle EXCEPT !.ip = new, !.path2 = s.path2], <<s.dp>>,
                           IF TypeOf(s.op) = "FILE" THEN "opened" ELSE "created")
      OBVIOUS
    <2>4. (UNCHANGED st \/ Moves(p, t)) /\ s.pc = "create" /\ UNCHANGED <<inop, disk>>
      BY <2>1, <2>2, <2>3, <1>0, <1>8, Zenon DEF create_new, Locks, At, Go, Moves
    <2>5. t.pc = "put"
      BY <2>3 DEF Put, Idle
    <2> QED BY <2>4, <2>5, <1>0 DEF Inner, Outside
  <1>9. CASE create_old(p)
    <2>1. PICK t : t = IF s.op = "create" /\ Loaded(s.ip).type = "FILE"
                       THEN [Idle EXCEPT !.pc = "opened", !.ip = s.ip] ELSE Finish(<<s.ip>>)
      OBVIOUS
    <2>2. Moves(p, t) /\ s.pc = "create_old" /\ UNCHANGED <<inop, disk>>
      BY <2>1, <1>0, <1>9 DEF create_old, Locks, At, Go, Moves, rest
    <2>3. t.pc \in {"put", "opened"}
      BY <2>1, PutPc
    <2> QED BY <2>2, <2>3, <1>0 DEF Inner, Outside
  <1>10. CASE created(p) \/ load(p) \/ link_bad(p) \/ unlink_bad(p) \/ unlink_dec(p)
    <2>1. /\ \E i : Moves(p, Finish(<<i>>))
          /\ s.pc \in {"created", "load", "link_bad", "unlink_bad", "unlink_dec"} /\ UNCHANGED <<inop, disk>>
      BY <1>0, <1>10 DEF created, load, link_bad, unlink_bad, unlink_dec, Locks, At, Go, Moves, rest
    <2> QED BY <2>1, <1>0, PutPc DEF Inner, Outside
  <1>11. CASE open_follow(p)
    <2>1. PICK name : name = cur[s.ip].target
      OBVIOUS
    <2>2. PICK t : t = Walk(p, [s EXCEPT !.ip = 0, !.depth = @ + 1,
                                         !.path2 = IF s.op = "exec" THEN name ELSE @], name, FALSE)
      OBVIOUS
    <2>3. Moves(p, t) /\ s.pc = "open" /\ UNCHANGED <<inop, disk>>
      BY <2>1, <2>2, <1>0, <1>11 DEF open_follow, Locks, At, Go, Moves, rest
    <2>4. t.pc = "namex"
      BY <2>2, <1>1 DEF Walk, Local
    <2> QED BY <2>3, <2>4, <1>0 DEF Inner, Outside
  <1>12. CASE open_toodeep(p) \/ open_done(p) \/ exec_found(p)
    <2>1. /\ \/ Moves(p, End) \/ Moves(p, [Idle EXCEPT !.pc = "opened", !.ip = s.ip])
             \/ Moves(p, [End EXCEPT !.op = "found", !.path2 = s.path2])
          /\ s.pc = "open" /\ UNCHANGED <<inop, disk>>
      BY <1>0, <1>12 DEF open_toodeep, open_done, exec_found, Locks, At, Go, Moves, rest
    <2>2. [End EXCEPT !.op = "found", !.path2 = s.path2].pc = "end"
      BY DEF End, Idle
    <2> QED BY <2>1, <2>2, <1>0, PutPc DEF Inner, Outside
  <1>13. CASE opened(p)
    <2>1. (Moves(p, End) \/ Moves(p, Finish(<<s.ip>>))) /\ s.pc = "opened" /\ UNCHANGED <<inop, disk>>
      BY <1>0, <1>13 DEF opened, At, Go, Moves, rest
    <2> QED BY <2>1, <1>0, PutPc DEF Inner, Outside
  <1>14. CASE link_old(p)
    <2>1. PICK t : t = Walk(p, s, s.path2, TRUE)
      OBVIOUS
    <2>2. (Moves(p, t) \/ Moves(p, Finish(<<s.ip>>))) /\ s.pc = "link_old" /\ UNCHANGED <<inop, disk>>
      BY <2>1, <1>0, <1>14 DEF link_old, Locks, At, Go, Moves, rest
    <2>3. t.pc = "namex"
      BY <2>1, <1>1 DEF Walk, Local
    <2> QED BY <2>2, <2>3, <1>0, PutPc DEF Inner, Outside
  <1>15. CASE link_new(p) \/ link_clash(p)
    <2>1. /\ \/ \E i : Moves(p, Put([Idle EXCEPT !.ip = s.ip, !.dp = s.dp], <<i>>, "link_clash"))
             \/ Moves(p, Finish(<<s.dp, s.ip>>)) \/ Moves(p, Put([Idle EXCEPT !.ip = s.ip], <<s.dp>>, "link_bad"))
          /\ s.pc \in {"link_new", "link_clash"} /\ UNCHANGED <<inop, disk>>
      BY <1>0, <1>15 DEF link_new, link_clash, Locks, At, Go, Moves, rest
    <2> QED BY <2>1, <1>0, PutPc, ZenonT(60) DEF Inner, Outside
  <1>16. CASE unlink(p)
    <2>1. PICK i : i = dirlookup(s.dp, Head(s.path))
      OBVIOUS
    <2>2. PICK t : t = [s EXCEPT !.pc = "unlink_ip", !.ip = i]
      OBVIOUS
    <2>3. /\ Moves(p, t) \/ Moves(p, [Idle EXCEPT !.pc = "unlink_bad", !.dp = s.dp])
          /\ s.pc = "unlink" /\ UNCHANGED <<inop, disk>>
      BY <2>1, <2>2, <1>0, <1>16 DEF unlink, Locks, At, Go, Moves, rest
    <2>4. t.pc = "unlink_ip"
      BY <2>2, <1>1 DEF Local
    <2> QED BY <2>3, <2>4, <1>0, PutPc DEF Inner, Outside
  <1>17. CASE unlink_ip(p)
    <2>1. /\ \/ Moves(p, Put([Idle EXCEPT !.dp = s.dp], <<s.ip>>, "unlink_bad"))
             \/ Moves(p, Put([Idle EXCEPT !.ip = s.ip], <<s.dp>>, "unlink_dec"))
          /\ s.pc = "unlink_ip" /\ UNCHANGED <<inop, disk>>
      BY <1>0, <1>17 DEF unlink_ip, Locks, At, Go, Moves, rest
    <2> QED BY <2>1, <1>0, PutPc DEF Inner, Outside
  <1>18. CASE chdir(p)
    <2>1. (\E i : Moves(p, Finish(<<i>>))) /\ s.pc = "chdir" /\ UNCHANGED <<inop, disk>>
      BY <1>0, <1>18 DEF chdir, Locks, At, Go, Moves, rest
    <2> QED BY <2>1, <1>0, PutPc DEF Inner, Outside
  <1> QED BY <1>3, <1>4, <1>5, <1>6, <1>7, <1>8, <1>9, <1>10, <1>11, <1>12, <1>13, <1>14, <1>15, <1>16,
             <1>17, <1>18 DEF step


\* A step that opens a transaction.
Opening(p, t) == Moves(p, t) /\ t.pc \notin Outside /\ inop' = inop \cup {p}

LEMMA OpsOpening ==
  ASSUME Types, InOps, NEW p \in Proc, NEW t, Opening(p, t)
  PROVE  InOps'
  BY OpsMove DEF Opening

LEMMA FilecloseOps ==
  ASSUME Inv, InOps, NEW p \in Proc, NEW d \in Fd, NEW op, fileclose(p, d, op)
  PROVE  InOps' /\ UNCHANGED disk
  <1>1. PICK t : t = Put([Idle EXCEPT !.op = op], <<file[ofile[p][d]].ip>>, "end")
    OBVIOUS
  <1>2. UNCHANGED disk /\ (UNCHANGED <<inop, st>> \/ (Moves(p, t) /\ inop' = inop \cup {p}))
    BY <1>1 DEF fileclose, Go, Moves
  <1>3. t.pc = "put"
    BY <1>1 DEF Put, Idle
  <1>4. CASE UNCHANGED <<inop, st>>
    BY <1>2, <1>4 DEF InOps
  <1>5. CASE Moves(p, t) /\ inop' = inop \cup {p}
    BY <1>2, <1>3, <1>5, OpsOpening DEF Opening, Outside, Inv
  <1> QED BY <1>2, <1>4, <1>5

LEMMA BeginOps ==
  ASSUME Inv, InOps, NEW p \in Proc, NEW op, NEW path, NEW path2, begin(p, op, path, path2)
  PROVE  InOps' /\ UNCHANGED disk
  <1>1. PICK t : t = Walk(p, [Idle EXCEPT !.op = op, !.path2 = path2, !.depth = 1], path,
                          op \in Creates \cup {"unlink"})
    OBVIOUS
  <1>2. Moves(p, t) /\ inop' = inop \cup {p} /\ UNCHANGED disk
    BY <1>1 DEF begin, Go, Moves
  <1>3. t.pc = "namex"
    BY <1>1 DEF Walk, Idle
  <1> QED BY <1>2, <1>3, OpsOpening DEF Opening, Outside, Inv

LEMMA CallOps ==
  ASSUME Inv, InOps, NEW p \in Proc,
         \/ call(p) \/ close(p) \/ dup(p) \/ filestat(p) \/ exit(p)
         \/ \E q \in Proc : fork(p, q)
  PROVE  InOps' /\ UNCHANGED disk
  <1>1. CASE call(p)
    <2>1. \E op, path, path2 : begin(p, op, path, path2)
      BY <1>1, Zenon DEF call
    <2> QED BY <2>1, BeginOps
  <1>2. CASE close(p)
    BY <1>2, FilecloseOps DEF close
  <1>3. CASE dup(p) \/ filestat(p)
    BY <1>3, Zenon DEF dup, filestat, rest, InOps
  <1>4. CASE exit(p)
    <2>1. PICK t : t = [Idle EXCEPT !.pc = "exit", !.op = "exit"]
      OBVIOUS
    <2>2. Moves(p, t) /\ st[p].pc = "user" /\ UNCHANGED <<disk, inop>>
      BY <2>1, <1>4 DEF exit, At, Go, Moves, rest
    <2>3. t.pc = "exit" /\ p \notin inop
      BY <2>1, <2>2 DEF Idle, InOps, Outside
    <2>4. inop' = IF t.pc \in Outside THEN inop \ {p} ELSE inop \cup {p}
      BY <2>2, <2>3 DEF Outside
    <2> QED BY <2>2, <2>4, OpsMove DEF Inv
  <1>5. CASE \E q \in Proc : fork(p, q)
    <2>1. PICK q \in Proc : fork(p, q)
      BY <1>5
    <2>2. Moves(q, Idle) /\ st[q].pc = "dead" /\ UNCHANGED <<disk, inop>>
      BY <2>1 DEF fork, At, Go, Moves, rest
    <2>3. Idle.pc = "user" /\ q \notin inop
      BY <2>2 DEF Idle, InOps, Outside
    <2>4. inop' = IF Idle.pc \in Outside THEN inop \ {q} ELSE inop \cup {q}
      BY <2>2, <2>3 DEF Outside
    <2> QED BY <2>2, <2>4, OpsMove DEF Inv
  <1> QED BY <1>1, <1>2, <1>3, <1>4, <1>5

\* When no other call is open, what the cache has is a file system that completed calls
\* leave behind: no link is counted without a name and no link is without its target.
LEMMA QuietSound ==
  ASSUME Inv, NEW p \in Proc, st[p].pc = "end", \A q \in Proc : q # p => st[q].pc \in Outside
  PROVE  Sound(cur)
  <1>1. \A q \in Proc : Lab(st[q]) \in Outside \cup {"end"}
    BY DEF Lab, Outside
  <1>2. \A q \in Proc : ~Owes(st[q]) /\ Lab(st[q]) # "created"
    BY <1>1 DEF Owes, Outside
  <1>3. \A i \in Inum : Due(i) = Entries(cur, i)
    <2> SUFFICES ASSUME NEW i \in Inum PROVE Due(i) = Entries(cur, i)
      OBVIOUS
    <2>1. Owing(i) = {}
      BY <1>2 DEF Owing
    <2>2. Cardinality(Owing(i)) = 0
      BY <2>1, FS_EmptySet
    <2>3. Entries(cur, i) \in Nat
      BY EntriesSplit
    <2> QED BY <2>2, <2>3 DEF Due
  <1>4. cur \in [Inum -> Dinode] /\ DirsOK(cur) /\ Linked /\ Targets
    BY DEF Inv, Types, Linked
  <1>5. \A i \in Inum : cur[i].type = "LINK" => IsPath(cur[i].target)
    BY <1>2, <1>4 DEF Targets
  <1>6. \A i \in Inum : /\ cur[i].nlink >= Entries(cur, i)
                        /\ cur[i].type = "DIR" => cur[i].nlink = Entries(cur, i) + (IF i = Root THEN 1 ELSE 0)
    BY <1>3, <1>4 DEF Linked, Extra
  <1> QED BY <1>4, <1>5, <1>6 DEF Sound

LEMMA EndOpOps ==
  ASSUME Inv, InOps, Sound(disk), NEW p \in Proc, end_op(p)
  PROVE  InOps' /\ Sound(disk)'
  <1>0. PICK s : s = st[p]
    OBVIOUS
  <1>1. PICK t : t = CASE s.op = "exit" -> [Idle EXCEPT !.pc = "exit", !.op = "exit"]
                       [] s.op = "gone" -> [Idle EXCEPT !.pc = "dead"]
                       [] s.op = "found" -> [s EXCEPT !.pc = "exec"]
                       [] OTHER -> Idle
    OBVIOUS
  <1>2. /\ Moves(p, t) /\ s.pc = "end" /\ inop' = inop \ {p} /\ disk' = IF inop = {p} THEN cur ELSE disk
    BY <1>0, <1>1 DEF end_op, At, Go, Moves
  <1>3. s \in Local /\ Types
    BY <1>0 DEF Inv, Types
  <1>4. t.pc \in Outside
    <2>1. [s EXCEPT !.pc = "exec"].pc = "exec"
      BY <1>3 DEF Local
    <2>2. CASE s.op = "exit"
      BY <2>2, <1>1 DEF Idle, Outside
    <2>3. CASE s.op = "gone"
      BY <2>3, <1>1 DEF Idle, Outside
    <2>4. CASE s.op = "found"
      BY <2>4, <2>1, <1>1 DEF Outside
    <2>5. CASE s.op \notin {"exit", "gone", "found"}
      BY <2>5, <1>1 DEF Idle, Outside
    <2> QED BY <2>2, <2>3, <2>4, <2>5
  <1>5. InOps'
    BY <1>2, <1>3, <1>4, OpsMove
  <1>6. CASE inop = {p}
    <2>1. \A q \in Proc : q # p => st[q].pc \in Outside
      BY <1>6 DEF InOps
    <2>2. Sound(cur)
      BY <2>1, <1>0, <1>2, QuietSound
    <2>3. disk' = cur
      BY <1>2, <1>6
    <2> QED BY <1>5, <2>2, <2>3
  <1>7. CASE inop # {p}
    <2>1. disk' = disk
      BY <1>2, <1>7
    <2> QED BY <1>5, <2>1
  <1> QED BY <1>6, <1>7

LEMMA StepDisk ==
  ASSUME Inv, InOps, Sound(disk), NEW p \in Proc, step(p)
  PROVE  InOps' /\ Sound(disk)'
  <1>1. CASE end_op(p)
    BY <1>1, EndOpOps
  <1>2. SUFFICES ASSUME ~end_op(p) PROVE InOps' /\ UNCHANGED disk
    <2>1. UNCHANGED disk => Sound(disk)'
      OBVIOUS
    <2> QED BY <1>1, <1>2, <2>1
  <1>3. CASE exec(p)
    <2>1. PICK t : t = Walk(p, [Idle EXCEPT !.op = "load", !.depth = 1], st[p].path2, FALSE)
      OBVIOUS
    <2>2. Moves(p, t) /\ inop' = inop \cup {p} /\ UNCHANGED disk
      BY <2>1, <1>3 DEF exec, Go, Moves
    <2>3. t.pc = "namex"
      BY <2>1 DEF Walk, Idle
    <2> QED BY <2>2, <2>3, OpsOpening DEF Opening, Outside, Inv
  <1>4. CASE exit_close(p)
    BY <1>4, FilecloseOps DEF exit_close
  <1>5. CASE exit_cwd(p)
    <2>1. PICK t : t = Put([Idle EXCEPT !.op = "gone"], <<cwd[p]>>, "end")
      OBVIOUS
    <2>2. Moves(p, t) /\ inop' = inop \cup {p} /\ UNCHANGED disk
      BY <2>1, <1>5 DEF exit_cwd, Go, Moves
    <2>3. t.pc = "put"
      BY <2>1 DEF Put, Idle
    <2> QED BY <2>2, <2>3, OpsOpening DEF Opening, Outside, Inv
  <1>6. CASE ~exec(p) /\ ~exit_close(p) /\ ~exit_cwd(p)
    BY <1>2, <1>6, StepOps
  <1> QED BY <1>3, <1>4, <1>5, <1>6


-----------------------------------------------------------------------------
(* The theorems.                                                           *)

\* The inductive invariant: the state of the kernel, the calls that are open, and the durable
\* file system.
IInv == Inv /\ InOps /\ Sound(disk)

LEMMA InitIInv == Init => IInv
  <1> SUFFICES ASSUME Init PROVE IInv
    OBVIOUS
  <1>1. InOps
    BY IdleLocal DEF Init, InOps, Outside
  <1> QED BY <1>1, InitInv DEF IInv

LEMMA NextIInv == IInv /\ [Next]_vars => IInv'
  <1> SUFFICES ASSUME IInv, [Next]_vars PROVE IInv'
    OBVIOUS
  <1>0. Inv /\ InOps /\ Sound(disk)
    BY DEF IInv
  <1>1. CASE UNCHANGED vars
    <2>1. UNCHANGED <<cur, ic, lock, file, ofile, cwd, st, lost, inop, disk>>
      BY <1>1 DEF vars
    <2>2. Inv'
      BY <2>1, <1>0, SameInv
    <2>3. InOps' /\ Sound(disk)'
      BY <2>1, <1>0 DEF InOps
    <2> QED BY <2>2, <2>3 DEF IInv
  <1>2. ASSUME NEW p \in Proc, step(p) PROVE IInv'
    BY <1>0, <1>2, StepInv, StepDisk DEF IInv
  <1>3. ASSUME NEW p \in Proc, \/ call(p) \/ close(p) \/ dup(p) \/ filestat(p) \/ exit(p)
                               \/ \E q \in Proc : fork(p, q)
        PROVE  IInv'
    <2>1. InOps' /\ UNCHANGED disk
      BY <1>0, <1>3, CallOps
    <2>2. Inv'
      BY <1>0, <1>3, CallInv, CloseInv, DupInv, FilestatInv, ExitInv, ForkInv
    <2>3. Sound(disk)'
      BY <1>0, <2>1
    <2> QED BY <2>1, <2>2, <2>3 DEF IInv
  <1>4. CASE Crash
    <2>1. InOps'
      BY <1>4, IdleLocal DEF Crash, Booted, InOps, Outside
    <2> QED BY <1>0, <1>4, <2>1, CrashInv DEF IInv
  <1> QED BY <1>1, <1>2, <1>3, <1>4 DEF Next

LEMMA Invariance == Spec => []IInv
  BY InitIInv, NextIInv, PTL DEF Spec

\* Whatever calls overlap and whichever of them fail, ip->ref of every slot of the inode cache is
\* the number of pointers that calls, current directories and struct files have to the inode,
\* plus the references that open() and exec() are known to lose (sysfile.c:368 and 584).
THEOREM References == Spec => []RefExact
  <1>1. IInv => RefExact
    BY DEF IInv, Inv, Refs, RefExact
  <1> QED BY <1>1, Invariance, PTL

\* f->ref is the number of descriptors that share the struct file, through dup(), fork(), close(),
\* exit() and the failing ends of open().
THEOREM FileReferences == Spec => []FileRefExact
  <1>1. IInv => FileRefExact
    BY DEF IInv, Inv, Files
  <1> QED BY <1>1, Invariance, PTL

\* iupdate() leaves no copy of a type or a link count behind in the inode cache.
THEOREM WriteThrough == Spec => []CacheCoherent
  <1>1. IInv => CacheCoherent
    BY DEF IInv, Inv, Coherent, CacheCoherent
  <1> QED BY <1>1, Invariance, PTL

\* A file system whose link counts cover its entries has no name without an inode.
LEMMA CoveredNames ==
  ASSUME NEW fs \in [Inum -> Dinode], DirsOK(fs), \A i \in Inum : fs[i].nlink >= Entries(fs, i)
  PROVE  Named(fs)
  <1> SUFFICES ASSUME NEW i \in Inum, Entries(fs, i) > 0 PROVE fs[i].type # "none"
    BY DEF Named
  <1>1. Entries(fs, i) \in Nat
    BY EntriesSplit
  <1>2. fs[i].nlink \in Int /\ fs[i].nlink >= Entries(fs, i)
    BY DEF Dinode
  <1>3. fs[i].nlink # 0
    BY <1>1, <1>2
  <1> QED BY <1>3 DEF DirsOK

LEMMA DueCovers ==
  ASSUME Inv
  PROVE  \A i \in Inum : cur[i].nlink \in Int /\ cur[i].nlink >= Entries(cur, i)
  <1> SUFFICES ASSUME NEW i \in Inum PROVE cur[i].nlink \in Int /\ cur[i].nlink >= Entries(cur, i)
    OBVIOUS
  <1>1. Entries(cur, i) \in Nat
    BY EntriesSplit
  <1>2. Cardinality(Owing(i)) \in Nat
    <2>1. Owing(i) \subseteq Proc
      BY DEF Owing
    <2> QED BY <2>1, FSAssumption, FS_Subset, FS_CardinalityType
  <1>3. cur[i].nlink \in Int /\ cur[i].nlink >= Due(i)
    BY DEF Inv, Types, Linked, Dinode
  <1> QED BY <1>1, <1>2, <1>3 DEF Due

\* In the buffer cache, with the writes of unfinished calls: no directory entry refers to a free
\* inode, and no inode has more entries than links.
THEOREM NamesHaveInodes == Spec => []NamesCovered
  <1>1. ASSUME Inv PROVE NamesCovered
    BY <1>1, DueCovers, CoveredNames DEF NamesCovered, Inv, Types, Linked
  <1> QED BY <1>1, Invariance, PTL DEF IInv

\* On the disk, after whatever crash: no name without an inode, and the link counts of the
\* directories are exact.
THEOREM DiskSound == Spec => []DiskNamed
  <1>1. ASSUME Sound(disk) PROVE DiskNamed
    <2>1. Named(disk)
      BY <1>1, CoveredNames DEF Sound
    <2> QED BY <2>1, <1>1 DEF DiskNamed, Sound
  <1> QED BY <1>1, Invariance, PTL DEF IInv

LEMMA InvNoPanic ==
  ASSUME Inv
  PROVE  NoPanic
  <1>1. Types /\ InUse /\ Files /\ Coherent(ic, cur)
    BY DEF Inv
  <1>2. ASSUME NEW p \in Proc, NEW i, i = Wants(p), i # 0, st[p].pc # "put", lock[i] = None
        PROVE  ~NoType(i) /\ (st[p].pc = "unlink_ip" => Loaded(i).nlink > 0)
    <2>1. PICK s : s = st[p]
      OBVIOUS
    <2>2. s \in Local /\ LocalOK(s) /\ UseOK(cur, cwd[p], s)
      BY <1>1, <2>1 DEF Types, InUse
    <2>3. i \in {s.ip, s.dp}
      BY <1>2, <2>1 DEF Wants
    <2>4. i \in Inum /\ cur[i].type # "none"
      BY <1>2, <2>2, <2>3 DEF UseOK, Local, Inum
    <2>5. ~NoType(i)
      BY <2>4 DEF NoType
    <2>6. ASSUME s.pc = "unlink_ip" PROVE Loaded(i).nlink > 0
      <3>1. i = s.ip /\ Lab(s) = "unlink_ip"
        BY <1>2, <2>1, <2>6 DEF Wants, Lab
      <3>2. cur[s.dp].type = "DIR" /\ cur[s.dp].ent[Head(s.path)] = i /\ s.dp \in Inum
        BY <2>2, <3>1 DEF UseOK, OnEntry, LocalOK, Nodes, OnBoth
      <3>3. Head(s.path) \in Name
        <4>1. IsNames(s.path)
          BY <2>2, <3>1 DEF LocalOK, PathOK
        <4> QED BY <4>1 DEF IsNames
      <3>4. <<s.dp, Head(s.path)>> \in Names(cur, i)
        BY <3>2, <3>3 DEF Names
      <3>5. Entries(cur, i) >= 1 /\ Entries(cur, i) \in Nat
        BY <3>4, EntriesSplit
      <3>6. cur[i].nlink \in Int /\ cur[i].nlink >= Entries(cur, i)
        BY <2>4, DueCovers
      <3>7. Loaded(i).nlink = cur[i].nlink
        BY <1>1, <2>4 DEF Loaded, Coherent
      <3> QED BY <3>5, <3>6, <3>7
    <2> QED BY <2>1, <2>5, <2>6
  <1>3. ASSUME NEW f \in File, file[f].ref > 0 PROVE ~NoType(file[f].ip)
    <2>1. file[f].ip \in Inum
      BY <1>1, <1>3 DEF Files
    <2>2. cur[file[f].ip].type # "none"
      BY <1>1, <2>1 DEF InUse, Inum
    <2> QED BY <2>2 DEF NoType
  <1> QED BY <1>2, <1>3 DEF NoPanic

\* ilock() of an inode that a call or a struct file refers to never finds it freed, and unlink()
\* never removes a name of an inode without links (the panics of fs.c:310 and sysfile.c:222).
THEOREM NoPanics == Spec => []NoPanic
  BY InvNoPanic, Invariance, PTL DEF IInv

=============================================================================
