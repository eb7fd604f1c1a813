------------------------------ MODULE LogProofs ------------------------------
(***************************************************************************)
(* Proofs about Log for every number of processes, blocks and crashes.     *)
(*                                                                         *)
(* Three inductive invariants, each resting on the one before:             *)
(*   Control  who is in which part of begin_op/end_op/commit;              *)
(*   Space    the reservation argument: how full the log can be;           *)
(*   Disk     how the home blocks, the log blocks and the header on disk   *)
(*            relate to the contents in memory, in every phase of a commit *)
(*            and of the recovery.                                         *)
(***************************************************************************)
EXTENDS Log, TLAPS, FiniteSetTheorems, FunctionTheorems

-----------------------------------------------------------------------------
(* Control.                                                                *)

Injective(s) == \A i, j \in 1..Len(s) : s[i] = s[j] => i = j

Control ==
  /\ Injective(lh) /\ Injective(hdr)
  /\ outstanding = Cardinality(InOp)
  /\ committing <=> \E p \in Proc : pc[p] \in Committing
  /\ committing => InOp = {}
  /\ \A p, q \in Proc : pc[p] \in Committing /\ pc[q] \in Committing => p = q
  /\ boot # "up" => pc = [p \in Proc |-> "idle"] /\ ~committing
  /\ boot = "read_head" => lh = <<>>
  /\ boot = "install_trans" => tail \in 1..Len(lh)
  /\ \A p \in Proc :
       /\ pc[p] \in {"write_log", "install_trans"} => tail \in 1..Len(lh)
       /\ pc[p] \in {"write_head"} => lh # <<>>
       /\ pc[p] = "finish" => lh = <<>>
       /\ pc[p] = "log_write" <=> req[p] # NoReq
  /\ boot = "up" /\ ~committing /\ InOp = {} => lh = <<>>

ControlInv == TypeOK /\ Control

LEMMA InitControl == Init => ControlInv
    <1> SUFFICES ASSUME Init PROVE ControlInv
    OBVIOUS
  <1>1. TypeOK
    <2>1. lh \in Seq(Home) /\ hdr \in Seq(Home)
      BY DEF Init
    <2>2. data \in [Addr -> Value] /\ disk \in [Addr -> Value]
      BY LogAssumption DEF Init, LogAssumption
    <2>3. pc \in [Proc -> PCs] /\ wrote \in [Proc -> SUBSET Home]
      BY DEF Init, PCs
    <2>4. req \in [Proc -> {NoReq} \cup (Home \X Value)]
      BY DEF Init
    <2>5. outstanding \in Nat /\ crashes \in Nat /\ tail \in Nat \ {0}
      BY DEF Init
    <2>6. dirty \subseteq Home
      BY DEF Init
    <2>7. committing \in BOOLEAN /\ panicked \in BOOLEAN
      BY DEF Init
    <2>8. boot \in {"read_head", "install_trans", "clear_head", "up"}
      BY DEF Init
    <2> QED
      BY <2>1, <2>2, <2>3, <2>4, <2>5, <2>6, <2>7, <2>8 DEF TypeOK
  <1>2. InOp = {}
    BY DEF Init, InOp
  <1>3. Control
    BY <1>2, FS_EmptySet DEF Init, Control, Committing, NoReq, Injective
  <1> QED
    BY <1>1, <1>3 DEF ControlInv

\* A log of distinct blocks is no longer than the file system.
LEMMA InjectiveLen ==
  ASSUME NEW s \in Seq(Home), Injective(s)
  PROVE  Len(s) <= NHome
  <1> USE LogAssumption DEF LogAssumption
  <1>1. s \in Injection(1..Len(s), Home)
    BY Fun_IsInj, 1..Len(s) = DOMAIN s DEF Injective
  <1>2. IsFiniteSet(Home) /\ Cardinality(Home) = NHome
    BY FS_Interval DEF Home
  <1>3. Cardinality(1..Len(s)) = Len(s)
    <2>1. Len(s) \in Nat /\ Len(s) \in Int /\ 1 \in Int
      OBVIOUS
    <2>2. Cardinality(1..Len(s)) = IF 1 > Len(s) THEN 0 ELSE Len(s) - 1 + 1
      BY <2>1, FS_Interval
    <2> QED
      BY <2>1, <2>2
  <1> QED
    BY <1>1, <1>2, <1>3, FS_Injection

LEMMA InOpFinite == IsFiniteSet(InOp) /\ Cardinality(InOp) \in Nat
  BY LogAssumption, FS_Subset, FS_CardinalityType DEF LogAssumption, InOp

LEMMA TypeStep ==
  ASSUME ControlInv, [Next]_vars
  PROVE  TypeOK'
  <1> USE LogAssumption DEF LogAssumption, ControlInv
  <1>0. Home \subseteq Addr /\ \A i \in 1..Len(lh) : i \in Addr
    BY InjectiveLen DEF Control, TypeOK, Home, Addr
  <1>00. \A a \in Addr : bread(a) \in Value
    BY DEF bread, TypeOK
  <1>1. ASSUME read_head PROVE TypeOK'
    BY <1>1, <1>0, <1>00 DEF TypeOK, Control, read_head, bwrite, PCs
  <1>2. ASSUME recover_install PROVE TypeOK'
    BY <1>2, <1>0, <1>00 DEF TypeOK, Control, recover_install, bwrite, PCs
  <1>3. ASSUME recover_clear PROVE TypeOK'
    <2>1. lh' \in Seq(Home) /\ hdr' \in Seq(Home)
      BY <1>3 DEF recover_clear
    <2> QED
      BY <1>3, <2>1 DEF TypeOK, recover_clear
  <1>4. ASSUME NEW p \in Proc, begin_op(p) PROVE TypeOK'
    BY <1>4, <1>0, <1>00 DEF TypeOK, Control, begin_op, Goto, wakeup, bwrite, PCs, Committing
  <1>5. ASSUME NEW p \in Proc, kill(p) PROVE TypeOK'
    BY <1>5, <1>0, <1>00 DEF TypeOK, Control, kill, Goto, wakeup, bwrite, PCs, Committing
  <1>6. ASSUME NEW p \in Proc, log_write(p) PROVE TypeOK'
    <2>1. req[p] \in Home \X Value
      BY <1>6 DEF TypeOK, Control, log_write
    <2>2. req[p][1] \in Home /\ req[p][2] \in Value
      BY <2>1
    <2>3. lh' \in Seq(Home)
      BY <1>6, <2>2 DEF TypeOK, log_write
    <2>4. data' \in [Addr -> Value] /\ dirty' \subseteq Home /\ wrote' \in [Proc -> SUBSET Home]
      BY <1>6, <2>2 DEF TypeOK, log_write
    <2>5. req' \in [Proc -> {NoReq} \cup (Home \X Value)]
      BY <1>6 DEF TypeOK, log_write
    <2> QED
      BY <1>6, <2>3, <2>4, <2>5 DEF TypeOK, log_write, Goto, PCs
  <1>7. ASSUME NEW p \in Proc, end_op(p) PROVE TypeOK'
    <2>1. outstanding # 0
      BY <1>7, InOpFinite, FS_EmptySet DEF Control, end_op, InOp
    <2>2. pc' \in [Proc -> PCs]
      BY <1>7 DEF TypeOK, end_op, Goto, wakeup, PCs, Committing
    <2>3. outstanding' \in Nat
      <3>1. outstanding' = outstanding - 1 /\ outstanding \in Nat
        BY <1>7 DEF TypeOK, end_op
      <3> QED
        BY <2>1, <3>1
    <2>5. committing' \in BOOLEAN /\ tail' \in Nat \ {0}
      <3>1. (committing' = committing \/ committing' = TRUE) /\ (tail' = tail \/ tail' = 1)
        BY <1>7 DEF end_op
      <3>2. committing \in BOOLEAN /\ tail \in Nat \ {0}
        BY DEF TypeOK
      <3>3. committing' \in BOOLEAN
        BY <3>1, <3>2, Zenon
      <3>4. tail' \in Nat \ {0}
        BY <3>1, <3>2
      <3> QED
        BY <3>3, <3>4
    <2>4. panicked' \in BOOLEAN
      BY <1>7 DEF TypeOK, end_op
    <2> QED
      BY <1>7, <2>2, <2>3, <2>4, <2>5 DEF TypeOK, end_op
  <1>8. ASSUME NEW p \in Proc, write_log(p) PROVE TypeOK'
    <2>1. bread(lh[tail]) \in Value
      BY <1>8, <1>0, <1>00 DEF TypeOK, Control, write_log
    <2>2. data' \in [Addr -> Value] /\ disk' \in [Addr -> Value] /\ dirty' \subseteq Home
      BY <1>8, <2>1 DEF TypeOK, write_log, bwrite
    <2>3. pc' \in [Proc -> PCs] /\ tail' \in Nat \ {0}
      BY <1>8 DEF TypeOK, write_log, Goto, PCs, Committing
    <2> QED
      BY <1>8, <2>2, <2>3 DEF TypeOK, write_log
  <1>9. ASSUME NEW p \in Proc, write_head(p) PROVE TypeOK'
    BY <1>9, <1>0, <1>00 DEF TypeOK, Control, write_head, Goto, wakeup, bwrite, PCs, Committing
  <1>10. ASSUME NEW p \in Proc, install_trans(p) PROVE TypeOK'
    BY <1>10, <1>0, <1>00 DEF TypeOK, Control, install_trans, Goto, wakeup, bwrite, PCs, Committing
  <1>11. ASSUME NEW p \in Proc, clear_head(p) PROVE TypeOK'
    BY <1>11, <1>0, <1>00 DEF TypeOK, Control, clear_head, Goto, wakeup, bwrite, PCs, Committing
  <1>12. ASSUME NEW p \in Proc, end_op_finish(p) PROVE TypeOK'
    BY <1>12, <1>0, <1>00 DEF TypeOK, Control, end_op_finish, Goto, wakeup, bwrite, PCs, Committing
  <1>13. ASSUME NEW p \in Proc, NEW b \in Home, NEW v \in Value, log_write_check(p, b, v) PROVE TypeOK'
    <2>1. req' \in [Proc -> {NoReq} \cup (Home \X Value)]
      BY <1>13 DEF TypeOK, log_write_check
    <2> QED
      BY <1>13, <2>1 DEF TypeOK, log_write_check, Goto, PCs
  <1>14. ASSUME Crash PROVE TypeOK'
    <2>1. lh' \in Seq(Home) /\ tail' \in Nat \ {0} /\ outstanding' \in Nat
      BY <1>14 DEF Crash
    <2>2. pc' \in [Proc -> PCs] /\ wrote' \in [Proc -> SUBSET Home]
      BY <1>14 DEF Crash, PCs
    <2>3. req' \in [Proc -> {NoReq} \cup (Home \X Value)]
      BY <1>14 DEF Crash
    <2>4. dirty' \subseteq Home /\ panicked' \in BOOLEAN
      BY <1>14 DEF TypeOK, Crash
    <2>6. crashes' \in Nat
      <3>1. crashes' = crashes + 1 /\ crashes \in Nat
        BY <1>14 DEF TypeOK, Crash
      <3> QED
        BY <3>1
    <2>5. data' \in [Addr -> Value] /\ disk' \in [Addr -> Value] /\ hdr' \in Seq(Home)
      BY <1>14 DEF TypeOK, Crash
    <2> QED
      BY <1>14, <2>1, <2>2, <2>3, <2>4, <2>5, <2>6 DEF TypeOK, Crash
  <1>15. ASSUME UNCHANGED vars PROVE TypeOK'
    BY <1>15, <1>0, <1>00 DEF TypeOK, Control, vars, mem, bwrite, PCs
  <1> QED
    BY <1>1, <1>2, <1>3, <1>4, <1>5, <1>6, <1>7, <1>8, <1>9, <1>10, <1>11, <1>12, <1>13, <1>14, <1>15 DEF Next, recover_from_log, commit

LEMMA ControlStep ==
  ASSUME ControlInv, [Next]_vars
  PROVE  Control'
  <1>t. TypeOK /\ Control /\ TypeOK'
    BY TypeStep DEF ControlInv
  <1>1. ASSUME read_head PROVE Control'
    <2>1. InOp' = InOp
      BY <1>1, <1>t DEF TypeOK, PCs, Control, InOp, Committing, Up, Goto, wakeup, read_head
    <2>2. outstanding' = Cardinality(InOp')
      BY <1>1, <1>t, <2>1, InOpFinite, FS_AddElement, FS_RemoveElement, FS_EmptySet DEF Control, read_head
    <2>3. Injective(lh') /\ Injective(hdr')
      BY <1>1, <1>t DEF TypeOK, Control, Injective, read_head
    <2> QED
      BY <1>1, <1>t, <2>1, <2>2, <2>3 DEF TypeOK, PCs, Control, Committing, Up, Goto, wakeup, read_head
  <1>2. ASSUME recover_install PROVE Control'
    <2>1. InOp' = InOp
      BY <1>2, <1>t DEF TypeOK, PCs, Control, InOp, Committing, Up, Goto, wakeup, recover_install
    <2>2. outstanding' = Cardinality(InOp')
      BY <1>2, <1>t, <2>1, InOpFinite, FS_AddElement, FS_RemoveElement, FS_EmptySet DEF Control, recover_install
    <2>3. Injective(lh') /\ Injective(hdr')
      BY <1>2, <1>t DEF TypeOK, Control, Injective, recover_install
    <2> QED
      BY <1>2, <1>t, <2>1, <2>2, <2>3 DEF TypeOK, PCs, Control, Committing, Up, Goto, wakeup, recover_install
  <1>3. ASSUME recover_clear PROVE Control'
    <2>1. InOp' = InOp
      BY <1>3, <1>t DEF TypeOK, PCs, Control, InOp, Committing, Up, Goto, wakeup, recover_clear
    <2>2. outstanding' = Cardinality(InOp')
      BY <1>3, <1>t, <2>1, InOpFinite, FS_AddElement, FS_RemoveElement, FS_EmptySet DEF Control, recover_clear
    <2>3. Injective(lh') /\ Injective(hdr')
      BY <1>3, <1>t DEF TypeOK, Control, Injective, recover_clear
    <2> QED
      BY <1>3, <1>t, <2>1, <2>2, <2>3 DEF TypeOK, PCs, Control, Committing, Up, Goto, wakeup, recover_clear
  <1>4. ASSUME NEW p \in Proc, begin_op(p) PROVE Control'
    <2>1. InOp' = IF pc'[p] = "op" THEN InOp \cup {p} ELSE InOp
      BY <1>4, <1>t DEF TypeOK, PCs, Control, InOp, Committing, Up, Goto, wakeup, begin_op
    <2>2. outstanding' = Cardinality(InOp')
      <3>1. CASE pc'[p] = "op"
        <4>1. p \notin InOp /\ outstanding' = outstanding + 1
          BY <1>4, <3>1, <1>t DEF TypeOK, InOp, begin_op, Goto
        <4> QED
          BY <4>1, <3>1, <2>1, <1>t, InOpFinite, FS_AddElement DEF Control
      <3>2. CASE pc'[p] # "op"
        <4>1. outstanding' = outstanding
          BY <1>4, <3>2, <1>t DEF TypeOK, begin_op, Goto
        <4> QED
          BY <4>1, <3>2, <2>1, <1>t DEF Control
      <3> QED
        BY <3>1, <3>2
    <2>3. Injective(lh') /\ Injective(hdr')
      BY <1>4, <1>t DEF TypeOK, Control, Injective, begin_op
    <2> QED
      BY <1>4, <1>t, <2>1, <2>2, <2>3 DEF TypeOK, PCs, Control, Committing, Up, Goto, wakeup, begin_op
  <1>5. ASSUME NEW p \in Proc, kill(p) PROVE Control'
    <2>1. InOp' = InOp
      BY <1>5, <1>t DEF TypeOK, PCs, Control, InOp, Committing, Up, Goto, wakeup, kill
    <2>2. outstanding' = Cardinality(InOp')
      BY <1>5, <1>t, <2>1, InOpFinite, FS_AddElement, FS_RemoveElement, FS_EmptySet DEF Control, kill
    <2>3. Injective(lh') /\ Injective(hdr')
      BY <1>5, <1>t DEF TypeOK, Control, Injective, kill
    <2> QED
      BY <1>5, <1>t, <2>1, <2>2, <2>3 DEF TypeOK, PCs, Control, Committing, Up, Goto, wakeup, kill
  <1>6. ASSUME NEW p \in Proc, log_write(p) PROVE Control'
    <2>1. InOp' = InOp
      BY <1>6, <1>t DEF TypeOK, PCs, Control, InOp, Committing, Up, Goto, wakeup, log_write
    <2>2. outstanding' = Cardinality(InOp')
      BY <1>6, <1>t, <2>1, InOpFinite, FS_AddElement, FS_RemoveElement, FS_EmptySet DEF Control, log_write
    <2>3. Injective(lh') /\ Injective(hdr')
      BY <1>6, <1>t DEF TypeOK, Control, Injective, log_write
    <2>4. \A q \in Proc : pc'[q] = "log_write" <=> req'[q] # NoReq
      BY <1>6, <1>t DEF TypeOK, Control, Goto, log_write
    <2>5. InOp # {}
      BY <1>6 DEF InOp, log_write
    <2> QED
      BY <1>6, <1>t, <2>1, <2>2, <2>3, <2>4, <2>5 DEF TypeOK, PCs, Control, Committing, Up, Goto, wakeup, log_write
  <1>7. ASSUME NEW p \in Proc, end_op(p) PROVE Control'
    <2>1. p \in InOp /\ ~committing /\ boot = "up"
      BY <1>7, <1>t DEF Control, end_op, Up, InOp
    <2>2. ~panicked' /\ outstanding' = outstanding - 1 /\ outstanding \in Nat
      BY <1>7, <1>t, <2>1 DEF TypeOK, end_op, Up
    <2>3. InOp' = InOp \ {p}
      BY <1>7, <1>t, <2>1 DEF TypeOK, PCs, InOp, Committing, Goto, wakeup, end_op
    <2>4. outstanding' = Cardinality(InOp') /\ IsFiniteSet(InOp')
      BY <2>1, <2>2, <2>3, <1>t, InOpFinite, FS_RemoveElement DEF Control
    <2>5. outstanding = 1 <=> InOp' = {}
      <3>1. outstanding' = 0 <=> InOp' = {}
        BY <2>4, FS_EmptySet
      <3> QED
        BY <3>1, <2>2
    <2>6. Injective(lh') /\ Injective(hdr')
      BY <1>7, <1>t DEF TypeOK, Control, Injective, end_op
    <2>7. CASE outstanding = 1
      <3>1. committing' /\ InOp' = {} /\ tail' = 1 /\ UNCHANGED <<lh, req, boot>>
        BY <1>7, <2>1, <2>5, <2>7 DEF end_op
      <3>2. pc' = [pc EXCEPT ![p] = IF lh = <<>> THEN "finish" ELSE "write_log"]
        BY <1>7, <2>1, <2>7 DEF end_op, Goto
      <3>3. \A q \in Proc : pc[q] \notin Committing
        BY <1>t, <2>1 DEF Control
      <3>4. lh = <<>> \/ 1 \in 1..Len(lh)
        BY <1>t DEF TypeOK
      <3> QED
        BY <1>7, <1>t, <3>1, <3>2, <3>3, <3>4, <2>1, <2>4, <2>6
           DEF TypeOK, PCs, Control, Committing, end_op
    <2>8. CASE outstanding # 1
      <3>1. UNCHANGED <<committing, lh, req, boot>> /\ InOp' # {}
        BY <1>7, <2>1, <2>5, <2>8 DEF end_op
      <3>2. pc' = wakeup([pc EXCEPT ![p] = "idle"])
        BY <1>7, <2>1, <2>8 DEF end_op
      <3> QED
        BY <1>7, <1>t, <3>1, <3>2, <2>1, <2>4, <2>6
           DEF TypeOK, PCs, Control, Committing, wakeup, end_op
    <2> QED
      BY <2>7, <2>8
  <1>8. ASSUME NEW p \in Proc, write_log(p) PROVE Control'
    <2>1. InOp' = InOp
      BY <1>8, <1>t DEF TypeOK, PCs, Control, InOp, Committing, Up, Goto, wakeup, write_log
    <2>2. outstanding' = Cardinality(InOp')
      BY <1>8, <1>t, <2>1, InOpFinite, FS_AddElement, FS_RemoveElement, FS_EmptySet DEF Control, write_log
    <2>3. Injective(lh') /\ Injective(hdr')
      BY <1>8, <1>t DEF TypeOK, Control, Injective, write_log
    <2> QED
      BY <1>8, <1>t, <2>1, <2>2, <2>3 DEF TypeOK, PCs, Control, Committing, Up, Goto, wakeup, write_log
  <1>9. ASSUME NEW p \in Proc, write_head(p) PROVE Control'
    <2>1. InOp' = InOp
      BY <1>9, <1>t DEF TypeOK, PCs, Control, InOp, Committing, Up, Goto, wakeup, write_head
    <2>2. outstanding' = Cardinality(InOp')
      BY <1>9, <1>t, <2>1, InOpFinite, FS_AddElement, FS_RemoveElement, FS_EmptySet DEF Control, write_head
    <2>3. Injective(lh') /\ Injective(hdr')
      BY <1>9, <1>t DEF TypeOK, Control, Injective, write_head
    <2> QED
      BY <1>9, <1>t, <2>1, <2>2, <2>3 DEF TypeOK, PCs, Control, Committing, Up, Goto, wakeup, write_head
  <1>10. ASSUME NEW p \in Proc, install_trans(p) PROVE Control'
    <2>1. InOp' = InOp
      BY <1>10, <1>t DEF TypeOK, PCs, Control, InOp, Committing, Up, Goto, wakeup, install_trans
    <2>2. outstanding' = Cardinality(InOp')
      BY <1>10, <1>t, <2>1, InOpFinite, FS_AddElement, FS_RemoveElement, FS_EmptySet DEF Control, install_trans
    <2>3. Injective(lh') /\ Injective(hdr')
      BY <1>10, <1>t DEF TypeOK, Control, Injective, install_trans
    <2> QED
      BY <1>10, <1>t, <2>1, <2>2, <2>3 DEF TypeOK, PCs, Control, Committing, Up, Goto, wakeup, install_trans
  <1>11. ASSUME NEW p \in Proc, clear_head(p) PROVE Control'
    <2>1. InOp' = InOp
      BY <1>11, <1>t DEF TypeOK, PCs, Control, InOp, Committing, Up, Goto, wakeup, clear_head
    <2>2. outstanding' = Cardinality(InOp')
      BY <1>11, <1>t, <2>1, InOpFinite, FS_AddElement, FS_RemoveElement, FS_EmptySet DEF Control, clear_head
    <2>3. Injective(lh') /\ Injective(hdr')
      BY <1>11, <1>t DEF TypeOK, Control, Injective, clear_head
    <2> QED
      BY <1>11, <1>t, <2>1, <2>2, <2>3 DEF TypeOK, PCs, Control, Committing, Up, Goto, wakeup, clear_head
  <1>12. ASSUME NEW p \in Proc, end_op_finish(p) PROVE Control'
    <2>1. InOp' = InOp
      BY <1>12, <1>t DEF TypeOK, PCs, Control, InOp, Committing, Up, Goto, wakeup, end_op_finish
    <2>2. outstanding' = Cardinality(InOp')
      BY <1>12, <1>t, <2>1, InOpFinite, FS_AddElement, FS_RemoveElement, FS_EmptySet DEF Control, end_op_finish
    <2>3. Injective(lh') /\ Injective(hdr')
      BY <1>12, <1>t DEF TypeOK, Control, Injective, end_op_finish
    <2> QED
      BY <1>12, <1>t, <2>1, <2>2, <2>3 DEF TypeOK, PCs, Control, Committing, Up, Goto, wakeup, end_op_finish
  <1>13. ASSUME NEW p \in Proc, NEW b \in Home, NEW v \in Value, log_write_check(p, b, v) PROVE Control'
    <2>1. InOp' = InOp
      BY <1>13, <1>t DEF TypeOK, PCs, Control, InOp, Committing, Up, Goto, wakeup, log_write_check
    <2>2. outstanding' = Cardinality(InOp')
      BY <1>13, <1>t, <2>1, InOpFinite, FS_AddElement, FS_RemoveElement, FS_EmptySet DEF Control, log_write_check
    <2>3. Injective(lh') /\ Injective(hdr')
      BY <1>13, <1>t DEF TypeOK, Control, Injective, log_write_check
    <2>4. \A q \in Proc : pc'[q] = "log_write" <=> req'[q] # NoReq
      <3>1. <<b, v>> # NoReq
        BY DEF NoReq
      <3> QED
        BY <1>13, <1>t, <3>1 DEF TypeOK, Control, Goto, log_write_check
    <2>5. InOp # {}
      BY <1>13 DEF InOp, log_write_check
    <2> QED
      BY <1>13, <1>t, <2>1, <2>2, <2>3, <2>4, <2>5 DEF TypeOK, PCs, Control, Committing, Up, Goto, wakeup, log_write_check
  <1>14. ASSUME Crash PROVE Control'
    <2>1. InOp' = {}
      BY <1>14, <1>t DEF TypeOK, PCs, Control, InOp, Committing, Up, Goto, wakeup, Crash
    <2>2. outstanding' = Cardinality(InOp')
      BY <1>14, <1>t, <2>1, InOpFinite, FS_AddElement, FS_RemoveElement, FS_EmptySet DEF Control, Crash
    <2>3. Injective(lh') /\ Injective(hdr')
      BY <1>14, <1>t DEF TypeOK, Control, Injective, Crash
    <2> QED
      BY <1>14, <1>t, <2>1, <2>2, <2>3 DEF TypeOK, PCs, Control, Committing, Up, Goto, wakeup, Crash
  <1>15. ASSUME UNCHANGED vars PROVE Control'
    <2>1. InOp' = InOp
      BY <1>15, <1>t DEF TypeOK, PCs, Control, InOp, Committing, Up, Goto, wakeup, vars, mem
    <2>2. outstanding' = Cardinality(InOp')
      BY <1>15, <1>t, <2>1, InOpFinite, FS_AddElement, FS_RemoveElement, FS_EmptySet DEF Control, vars, mem
    <2>3. Injective(lh') /\ Injective(hdr')
      BY <1>15, <1>t DEF TypeOK, Control, Injective, vars, mem
    <2> QED
      BY <1>15, <1>t, <2>1, <2>2, <2>3 DEF TypeOK, PCs, Control, Committing, Up, Goto, wakeup, vars, mem
  <1> QED
    BY <1>1, <1>2, <1>3, <1>4, <1>5, <1>6, <1>7, <1>8, <1>9, <1>10, <1>11, <1>12, <1>13, <1>14, <1>15 DEF Next, recover_from_log, commit

LEMMA ControlAlways == Spec => []ControlInv
  <1>1. ControlInv /\ [Next]_vars => ControlInv'
    BY TypeStep, ControlStep DEF ControlInv
  <1> QED
    BY InitControl, <1>1, PTL DEF Spec

\* Every behaviour of the log is type correct, for every number of processes
\* and blocks, and however large the transactions are.
THEOREM TypeCorrect == Spec => []TypeOK
  <1>1. ControlInv => TypeOK
    BY DEF ControlInv
  <1> QED
    BY ControlAlways, <1>1, PTL

-----------------------------------------------------------------------------
(* Sleepers.                                                               *)

\* Whoever sleeps in begin_op() has somebody to wake him: a call is open or a commit is
\* under way, and each ends in a wakeup(&log).
Attended == \A p \in Proc : pc[p] = "asleep" => InOp # {} \/ committing

LEMMA AttendedStep == ASSUME ControlInv, Attended, [Next]_vars PROVE Attended'
  <1>1. pc \in [Proc -> PCs] /\ outstanding \in Nat
    BY DEF ControlInv, TypeOK
  <1>2. CASE UNCHANGED <<pc, committing>>
    BY <1>2 DEF Attended, InOp
  <1>3. CASE recover_from_log \/ Crash
    <2>1. \A p \in Proc : pc'[p] = "idle"
      BY <1>3 DEF recover_from_log, read_head, recover_install, recover_clear, Crash, ControlInv, Control
    <2> QED
      BY <2>1 DEF Attended
  <1>4. ASSUME NEW p \in Proc, begin_op(p) PROVE Attended'
    <2>1. CASE committing
      BY <1>4, <2>1 DEF begin_op, Attended
    <2>2. CASE InOp # {} /\ ~committing
      <3>1. InOp' # {}
        BY <1>1, <1>4, <2>2 DEF begin_op, Goto, InOp
      <3> QED
        BY <3>1 DEF Attended
    <2>3. CASE InOp = {} /\ ~committing
      <3>1. lh = <<>> /\ outstanding = 0
        BY <1>4, <2>3, FS_EmptySet DEF begin_op, Up, ControlInv, Control
      <3>2. ~LogFull
        BY <3>1, LogAssumption DEF LogFull, LogAssumption
      <3>3. pc'[p] = "op"
        BY <1>1, <1>4, <2>3, <3>2 DEF begin_op, Goto
      <3> QED
        BY <3>3 DEF Attended, InOp
    <2> QED
      BY <2>1, <2>2, <2>3
  <1>5. ASSUME NEW p \in Proc, kill(p) PROVE Attended'
    <2>1. pc'[p] = "woken" /\ \A q \in Proc \ {p} : pc'[q] = pc[q]
      BY <1>1, <1>5 DEF kill, Goto
    <2>2. InOp' = InOp /\ committing' = committing
      BY <1>5, <2>1 DEF kill, InOp
    <2> QED
      BY <2>1, <2>2 DEF Attended
  <1>6. ASSUME NEW p \in Proc, log_write(p) \/ \E b \in Home, v \in Value : log_write_check(p, b, v)
        PROVE  Attended'
    <2>1. pc'[p] \in {"op", "log_write"}
      BY <1>1, <1>6 DEF log_write, log_write_check, Goto
    <2> QED
      BY <2>1 DEF Attended, InOp
  <1>7. ASSUME NEW p \in Proc, end_op(p) PROVE Attended'
    <2>1. ~committing
      BY <1>7 DEF end_op, ControlInv, Control, InOp
    <2>2. CASE outstanding = 1
      BY <1>7, <2>1, <2>2 DEF end_op, Attended
    <2>3. CASE outstanding # 1
      <3>1. \A q \in Proc : pc'[q] # "asleep"
        BY <1>7, <2>1, <2>3 DEF end_op, wakeup
      <3> QED
        BY <3>1 DEF Attended
    <2> QED
      BY <2>2, <2>3
  <1>8. ASSUME NEW p \in Proc, commit(p) PROVE Attended'
    <2>1. committing /\ committing' = committing
      BY <1>8 DEF commit, write_log, write_head, install_trans, clear_head, ControlInv, Control, Committing
    <2> QED
      BY <2>1 DEF Attended
  <1>9. ASSUME NEW p \in Proc, end_op_finish(p) PROVE Attended'
    <2>1. \A q \in Proc : pc'[q] # "asleep"
      BY <1>9 DEF end_op_finish, wakeup
    <2> QED
      BY <2>1 DEF Attended
  <1>10. UNCHANGED vars => UNCHANGED <<pc, committing>>
    BY DEF vars, mem
  <1> QED
    BY <1>2, <1>3, <1>4, <1>5, <1>6, <1>7, <1>8, <1>9, <1>10 DEF Next

\* No process is left asleep in begin_op() by the last end_op() or by a commit: there is
\* always one in flight that will wake it, also after a kill() and across restarts.
THEOREM SleepersAreAttended == Spec => []Attended
  <1>1. Init => Attended
    BY DEF Init, Attended
  <1>2. ControlInv /\ Attended /\ [Next]_vars => Attended'
    BY AttendedStep
  <1> QED
    BY <1>1, <1>2, ControlAlways, PTL DEF Spec

-----------------------------------------------------------------------------
(* Space.  Every open call holds one credit for each block it may still     *)
(* log; the blocks in the log and the credits fit into the log together.    *)
(* A call that ends gives back at least one credit it did not use, which is *)
(* why the log never gets as full as its last block.                        *)

Slack == OPBLOCKS < MAXOPBLOCKS /\ OPBLOCKS + 2 <= LOGSIZE

Logged == {lh[i] : i \in 1..Len(lh)}

Credit == {c \in Proc \X (1..MAXOPBLOCKS) :
             c[1] \in InOp /\ c[2] > Cardinality(wrote[c[1]])}

Space ==
  /\ ~panicked
  /\ Len(lh) < LOGSIZE /\ Len(hdr) < LOGSIZE
  /\ \A p \in InOp :
       /\ wrote[p] \subseteq Logged
       /\ Cardinality(wrote[p]) <= OPBLOCKS
       /\ pc[p] = "log_write" /\ req[p][1] \notin wrote[p]
            => Cardinality(wrote[p]) < OPBLOCKS
  /\ InOp # {} => Len(lh) + Cardinality(Credit) <= LOGSIZE
  /\ \A p \in Proc : InOp = {p} =>
       Logged \subseteq wrote[p] \/ Len(lh) + Cardinality(Credit) < LOGSIZE

SpaceInv == ControlInv /\ Space

LEMMA CreditFinite == IsFiniteSet(Credit) /\ Cardinality(Credit) \in Nat
  <1>1. IsFiniteSet(1..MAXOPBLOCKS)
    BY LogAssumption, FS_Interval DEF LogAssumption
  <1>2. IsFiniteSet(Proc \X (1..MAXOPBLOCKS))
    BY <1>1, LogAssumption, FS_Product DEF LogAssumption
  <1>3. Credit \subseteq Proc \X (1..MAXOPBLOCKS)
    BY DEF Credit
  <1> QED
    BY <1>2, <1>3, FS_Subset, FS_CardinalityType

LEMMA WroteFinite ==
  ASSUME TypeOK, NEW p \in Proc
  PROVE  IsFiniteSet(wrote[p]) /\ Cardinality(wrote[p]) \in Nat
  <1>1. IsFiniteSet(Home)
    BY LogAssumption, FS_Interval DEF LogAssumption, Home
  <1>2. wrote[p] \subseteq Home
    BY DEF TypeOK
  <1> QED
    BY <1>1, <1>2, FS_Subset, FS_CardinalityType

\* The blocks one call has logged bound the log while nobody else is there.
LEMMA LoggedBound ==
  ASSUME TypeOK, Control, NEW p \in Proc, Logged \subseteq wrote[p]
  PROVE  Len(lh) <= Cardinality(wrote[p])
  <1>1. lh \in Injection(1..Len(lh), wrote[p])
    <2>1. lh \in [1..Len(lh) -> wrote[p]]
      BY DEF TypeOK, Logged
    <2> QED
      BY <2>1, Fun_IsInj DEF Control, Injective
  <1>2. Cardinality(1..Len(lh)) <= Cardinality(wrote[p])
    BY <1>1, WroteFinite, FS_Injection
  <1>3. Cardinality(1..Len(lh)) = Len(lh)
    <2>1. Len(lh) \in Nat /\ Len(lh) \in Int /\ 1 \in Int
      BY DEF TypeOK
    <2>2. Cardinality(1..Len(lh)) = IF 1 > Len(lh) THEN 0 ELSE Len(lh) - 1 + 1
      BY <2>1, FS_Interval
    <2> QED
      BY <2>1, <2>2
  <1> QED
    BY <1>2, <1>3

\* While a call is open two data blocks of the log are free.
LEMMA RoomLeft ==
  ASSUME SpaceInv, Slack, NEW p \in InOp
  PROVE  Len(lh) + 2 <= LOGSIZE
  <1> USE LogAssumption DEF LogAssumption, Slack
  <1>1. /\ TypeOK /\ Control /\ p \in Proc
        /\ Len(lh) \in Nat
        /\ Cardinality(Credit) \in Nat
        /\ Len(lh) + Cardinality(Credit) <= LOGSIZE
    BY CreditFinite DEF SpaceInv, ControlInv, Space, TypeOK, InOp
  <1>2. \A q \in InOp : <<q, MAXOPBLOCKS>> \in Credit
    <2> SUFFICES ASSUME NEW q \in InOp PROVE <<q, MAXOPBLOCKS>> \in Credit
      OBVIOUS
    <2>1. q \in Proc /\ Cardinality(wrote[q]) \in Nat /\ Cardinality(wrote[q]) <= OPBLOCKS
      BY <1>1, WroteFinite DEF InOp, SpaceInv, Space
    <2> QED
      BY <2>1 DEF Credit
  <1>3. CASE InOp = {p}
    <2>1. CASE Logged \subseteq wrote[p]
      BY <1>1, <2>1, LoggedBound, WroteFinite DEF SpaceInv, Space
    <2>2. CASE Len(lh) + Cardinality(Credit) < LOGSIZE
      <3>1. Cardinality(Credit) # 0
        BY <1>2, CreditFinite, FS_EmptySet
      <3> QED
        BY <1>1, <2>2, <3>1
    <2> QED
      BY <2>1, <2>2, <1>1, <1>3 DEF SpaceInv, Space
  <1>4. CASE InOp # {p}
    <2>1. PICK q \in InOp : q # p
      BY <1>4
    <2> DEFINE C == {<<p, MAXOPBLOCKS>>, <<q, MAXOPBLOCKS>>}
    <2>2. C \subseteq Credit
      BY <1>2
    <2>3. Cardinality(C) = 2
      <3> DEFINE A == {<<p, MAXOPBLOCKS>>}  x == <<q, MAXOPBLOCKS>>
      <3>1. IsFiniteSet(A) /\ Cardinality(A) = 1
        BY FS_Singleton
      <3>2. C = A \cup {x} /\ x \notin A
        BY <2>1
      <3> HIDE DEF A, x, C
      <3>3. Cardinality(A \cup {x}) = IF x \in A THEN Cardinality(A) ELSE Cardinality(A) + 1
        BY <3>1, FS_AddElement
      <3> QED
        BY <3>1, <3>2, <3>3
    <2> HIDE DEF C
    <2>4. 2 <= Cardinality(Credit)
      BY <2>2, <2>3, CreditFinite, FS_Subset
    <2> QED
      BY <1>1, <2>4
  <1> QED
    BY <1>3, <1>4

LEMMA InitSpace == Slack /\ Init => Space
  <1> SUFFICES ASSUME Slack, Init PROVE Space
    OBVIOUS
  <1>1. InOp = {}
    BY DEF Init, InOp
  <1>2. 0 < LOGSIZE
    BY LogAssumption DEF LogAssumption, Slack
  <1>3. Len(lh) = 0 /\ Len(hdr) = 0 /\ ~panicked
    BY DEF Init
  <1> QED
    BY <1>1, <1>2, <1>3 DEF Space

\* begin_op() reserves MAXOPBLOCKS for each call, the new one included.
LEMMA BeginSpace ==
  ASSUME SpaceInv, Slack, NEW p \in Proc, begin_op(p), ControlInv'
  PROVE  Space'
  <1> USE LogAssumption DEF LogAssumption, Slack
  <1>1. TypeOK /\ Control /\ Space /\ TypeOK' /\ Control'
    BY DEF SpaceInv, ControlInv
  <1>2. UNCHANGED <<lh, hdr, req, panicked>>
    BY DEF begin_op
  <1>3. CASE committing \/ LogFull
    <2>1. UNCHANGED wrote /\ pc' = [pc EXCEPT ![p] = "asleep"] /\ pc[p] \in {"idle", "woken"}
      BY <1>3 DEF begin_op, Goto
    <2>2. InOp' = InOp
      BY <2>1, <1>1 DEF InOp, TypeOK
    <2>3. Credit' = Credit
      BY <2>1, <2>2 DEF Credit
    <2>4. \A q \in InOp : pc'[q] = pc[q]
      BY <2>1, <1>1 DEF InOp, TypeOK
    <2> QED
      BY <1>1, <1>2, <2>1, <2>2, <2>3, <2>4 DEF Space, Logged
  <1>4. CASE ~(committing \/ LogFull)
    <2>1. /\ wrote' = [wrote EXCEPT ![p] = {}]
          /\ pc' = [pc EXCEPT ![p] = "op"]
          /\ pc[p] \in {"idle", "woken"}
          /\ boot = "up"
          /\ outstanding' = outstanding + 1
          /\ Len(lh) + (outstanding + 1) * MAXOPBLOCKS <= LOGSIZE
      BY <1>1, <1>4 DEF begin_op, Goto, LogFull, Up, TypeOK
    <2>2. InOp' = InOp \cup {p} /\ p \notin InOp
      BY <2>1, <1>1 DEF InOp, TypeOK
    <2>3. Cardinality(Credit') <= outstanding' * MAXOPBLOCKS
      <3>1. Credit' \subseteq InOp' \X (1..MAXOPBLOCKS)
        BY DEF Credit
      <3>2. IsFiniteSet(InOp') /\ Cardinality(InOp') = outstanding'
        BY <1>1, <2>2, InOpFinite, FS_AddElement DEF Control
      <3>3. IsFiniteSet(1..MAXOPBLOCKS) /\ Cardinality(1..MAXOPBLOCKS) = MAXOPBLOCKS
        BY FS_Interval
      <3>4. /\ IsFiniteSet(InOp' \X (1..MAXOPBLOCKS))
            /\ Cardinality(InOp' \X (1..MAXOPBLOCKS)) = outstanding' * MAXOPBLOCKS
        BY <3>2, <3>3, FS_Product
      <3> QED
        BY <3>1, <3>4, FS_Subset
    <2>4. Cardinality(Credit') \in Nat
      <3>1. IsFiniteSet(InOp' \X (1..MAXOPBLOCKS))
        <4>1. IsFiniteSet(InOp')
          BY <2>2, InOpFinite, FS_AddElement
        <4>2. IsFiniteSet(1..MAXOPBLOCKS)
          BY FS_Interval
        <4> QED
          BY <4>1, <4>2, FS_Product
      <3>2. Credit' \subseteq InOp' \X (1..MAXOPBLOCKS)
        BY DEF Credit
      <3> QED
        BY <3>1, <3>2, FS_Subset, FS_CardinalityType
    <2>5. Len(lh) + Cardinality(Credit') <= LOGSIZE
      BY <1>1, <2>1, <2>3, <2>4 DEF TypeOK
    <2>6. \A q \in InOp' : /\ wrote'[q] \subseteq Logged
                           /\ Cardinality(wrote'[q]) <= OPBLOCKS
                           /\ pc'[q] = "log_write" /\ req'[q][1] \notin wrote'[q]
                                => Cardinality(wrote'[q]) < OPBLOCKS
      <3>1. wrote'[p] = {} /\ pc'[p] = "op"
        BY <2>1, <1>1 DEF TypeOK
      <3>2. \A q \in InOp : wrote'[q] = wrote[q] /\ pc'[q] = pc[q]
        BY <2>1, <2>2, <1>1 DEF TypeOK, InOp
      <3>3. Cardinality(wrote'[p]) <= OPBLOCKS
        BY <3>1, FS_EmptySet
      <3>4. UNCHANGED req
        BY <1>2
      <3> QED
        BY <3>1, <3>2, <3>3, <3>4, <2>2, <1>1 DEF Space
    <2>7. \A q \in Proc : InOp' = {q} => Logged \subseteq wrote'[q]
      <3>1. SUFFICES ASSUME NEW q \in Proc, InOp' = {q} PROVE Logged = {}
        OBVIOUS
      <3>2. InOp = {}
        BY <2>2, <3>1
      <3>3. lh = <<>>
        BY <3>2, <2>1, <1>1, <1>4 DEF Control
      <3> QED
        BY <3>3 DEF Logged
    <2> QED
      BY <1>1, <1>2, <2>5, <2>6, <2>7 DEF Space, Logged
  <1> QED
    BY <1>3, <1>4

\* log_write() spends a credit for a block it appends, none for one it absorbs.
LEMMA LogWriteSpace ==
  ASSUME SpaceInv, Slack, NEW p \in Proc, log_write(p), ControlInv'
  PROVE  Space'
  <1> USE LogAssumption DEF LogAssumption, Slack
  <1> DEFINE b == req[p][1]
  <1>1. TypeOK /\ Control /\ Space /\ TypeOK' /\ Control' /\ p \in InOp
    BY DEF SpaceInv, ControlInv, log_write, InOp
  <1>2. UNCHANGED <<hdr, panicked, outstanding>>
    BY DEF log_write
  <1>3. InOp' = InOp
    BY <1>1 DEF log_write, Goto, InOp, TypeOK
  <1>4. b \in Home
    <2>1. req[p] \in Home \X Value
      BY <1>1 DEF TypeOK, Control, log_write
    <2> QED
      BY <2>1
  <1>5. wrote' = [wrote EXCEPT ![p] = @ \cup {b}]
    BY DEF log_write
  <1>6. lh' = IF b \in Logged THEN lh ELSE Append(lh, b)
    <2>1. DOMAIN lh = 1..Len(lh)
      BY <1>1 DEF TypeOK
    <2> QED
      BY <2>1 DEF log_write, Logged
  <1> HIDE DEF b
  <1>7. Logged' = Logged \cup {b}
    <2>1. CASE b \in Logged
      BY <2>1, <1>6 DEF Logged
    <2>2. CASE b \notin Logged
      <3>1. lh' = Append(lh, b) /\ Len(lh') = Len(lh) + 1
        BY <1>6, <2>2, <1>4, <1>1 DEF TypeOK
      <3>2. /\ \A i \in 1..Len(lh) : lh'[i] = lh[i]
            /\ lh'[Len(lh) + 1] = b
        BY <3>1, <1>4, <1>1 DEF TypeOK
      <3>3. 1..Len(lh') = 1..Len(lh) \cup {Len(lh) + 1}
        BY <3>1, <1>1 DEF TypeOK
      <3> QED
        BY <3>2, <3>3 DEF Logged
    <2> QED
      BY <2>1, <2>2
  <1>8. Len(lh) \in Nat /\ Len(lh') \in Nat
    BY <1>1 DEF TypeOK
  <1>9. /\ Cardinality(wrote[p]) \in Nat
        /\ wrote'[p] = wrote[p] \cup {b}
        /\ Cardinality(wrote'[p]) =
             IF b \in wrote[p] THEN Cardinality(wrote[p]) ELSE Cardinality(wrote[p]) + 1
        /\ \A q \in InOp : q # p => wrote'[q] = wrote[q]
    <2>1. wrote'[p] = wrote[p] \cup {b} /\ \A q \in InOp : q # p => wrote'[q] = wrote[q]
      BY <1>5, <1>1 DEF TypeOK, InOp
    <2>2. Cardinality(wrote[p] \cup {b}) =
             IF b \in wrote[p] THEN Cardinality(wrote[p]) ELSE Cardinality(wrote[p]) + 1
      BY <1>1, WroteFinite, FS_AddElement
    <2> QED
      BY <2>1, <2>2, <1>1, WroteFinite
  <1>10. \A q \in InOp : /\ wrote'[q] \subseteq Logged'
                         /\ Cardinality(wrote'[q]) <= OPBLOCKS
                         /\ pc'[q] = "log_write" /\ req'[q][1] \notin wrote'[q]
                              => Cardinality(wrote'[q]) < OPBLOCKS
    <2>1. Cardinality(wrote'[p]) <= OPBLOCKS
      BY <1>1, <1>9 DEF Space, log_write, b
    <2>2. pc'[p] = "op" /\ \A q \in InOp : q # p => pc'[q] = pc[q] /\ req'[q] = req[q]
      BY <1>1 DEF log_write, Goto, TypeOK, InOp
    <2> QED
      BY <2>1, <2>2, <1>1, <1>7, <1>9 DEF Space
  <1>11. Len(lh') + Cardinality(Credit') <= Len(lh) + Cardinality(Credit)
    <2>1. Credit' \subseteq Credit
      <3>1. SUFFICES ASSUME NEW q \in InOp, NEW k \in 1..MAXOPBLOCKS,
                            k > Cardinality(wrote'[q])
                     PROVE  k > Cardinality(wrote[q])
        BY <1>3 DEF Credit
      <3>2. CASE q = p
        <4>1. Cardinality(wrote'[p]) >= Cardinality(wrote[p])
          BY <1>9
        <4>2. Cardinality(wrote'[p]) \in Nat /\ Cardinality(wrote[p]) \in Nat
          BY <1>9
        <4>3. k > Cardinality(wrote'[p])
          BY <3>1, <3>2
        <4> QED
          BY <4>1, <4>2, <4>3, <3>2
      <3>3. CASE q # p
        BY <1>9, <3>1, <3>3
      <3> QED
        BY <3>2, <3>3
    <2>2. CASE b \in Logged
      BY <2>1, <2>2, <1>6, <1>8, CreditFinite, FS_Subset, FS_CardinalityType
    <2>3. CASE b \notin Logged
      <3> DEFINE k == Cardinality(wrote[p]) + 1
      <3>1. b \notin wrote[p] /\ k \in 1..MAXOPBLOCKS
        <4>1. b \notin wrote[p]
          BY <1>1, <2>3 DEF Space
        <4>2. Cardinality(wrote[p]) < OPBLOCKS
          BY <4>1, <1>1 DEF Space, log_write, b
        <4> QED
          BY <4>1, <4>2, <1>9
      <3>2. Cardinality(wrote'[p]) = k
        BY <3>1, <1>9
      <3> HIDE DEF k
      <3>3. <<p, k>> \in Credit
        BY <3>1, <1>1, <1>9 DEF Credit, InOp, k
      <3>4. <<p, k>> \notin Credit'
        BY <3>1, <3>2 DEF Credit
      <3>5. Credit' \subseteq Credit \ {<<p, k>>}
        BY <2>1, <3>4
      <3>6. /\ IsFiniteSet(Credit \ {<<p, k>>})
            /\ Cardinality(Credit \ {<<p, k>>}) = Cardinality(Credit) - 1
        BY <3>3, CreditFinite, FS_RemoveElement
      <3>7. Cardinality(Credit') <= Cardinality(Credit) - 1 /\ Cardinality(Credit') \in Nat
        BY <3>5, <3>6, FS_Subset, FS_CardinalityType
      <3>8. Len(lh') = Len(lh) + 1
        BY <2>3, <1>6, <1>4, <1>1 DEF TypeOK
      <3> QED
        BY <3>7, <3>8, <1>8, CreditFinite
    <2> QED
      BY <2>2, <2>3
  <1>12. Cardinality(Credit') \in Nat /\ Cardinality(Credit) \in Nat
    <2>1. IsFiniteSet(Proc \X (1..MAXOPBLOCKS))
      <3>1. IsFiniteSet(1..MAXOPBLOCKS)
        BY FS_Interval
      <3> QED
        BY <3>1, FS_Product
    <2>2. Credit' \subseteq Proc \X (1..MAXOPBLOCKS)
      BY DEF Credit
    <2> QED
      BY <2>1, <2>2, FS_Subset, FS_CardinalityType, CreditFinite
  <1>13. Len(lh') < LOGSIZE /\ Len(hdr') < LOGSIZE /\ ~panicked'
    <2>1. Len(lh') <= Len(lh) + 1
      BY <1>6, <1>4, <1>1 DEF TypeOK
    <2>2. Len(lh) + 2 <= LOGSIZE
      BY <1>1, RoomLeft
    <2> QED
      BY <2>1, <2>2, <1>8, <1>1, <1>2 DEF Space
  <1>14. InOp' # {} => Len(lh') + Cardinality(Credit') <= LOGSIZE
    BY <1>1, <1>8, <1>11, <1>12 DEF Space
  <1>15. \A q \in Proc : InOp' = {q} =>
           Logged' \subseteq wrote'[q] \/ Len(lh') + Cardinality(Credit') < LOGSIZE
    <2> SUFFICES ASSUME NEW q \in Proc, InOp = {q}
                 PROVE  Logged' \subseteq wrote'[q] \/ Len(lh') + Cardinality(Credit') < LOGSIZE
      BY <1>3
    <2>1. q = p
      BY <1>1
    <2>2. CASE Logged \subseteq wrote[p]
      BY <2>1, <2>2, <1>7, <1>9
    <2>3. CASE Len(lh) + Cardinality(Credit) < LOGSIZE
      BY <2>3, <1>8, <1>11, <1>12
    <2> QED
      BY <2>1, <2>2, <2>3, <1>1 DEF Space
  <1> QED
    BY <1>3, <1>10, <1>13, <1>14, <1>15 DEF Space

\* A call that ends gives back a credit it has not used.
LEMMA EndSpace ==
  ASSUME SpaceInv, Slack, NEW p \in Proc, end_op(p), ControlInv'
  PROVE  Space'
  <1> USE LogAssumption DEF LogAssumption, Slack
  <1>1. TypeOK /\ Control /\ Space /\ p \in InOp /\ ~committing
    BY DEF SpaceInv, ControlInv, end_op, InOp, Control
  <1>2. UNCHANGED <<lh, hdr, wrote, req, panicked>>
    BY <1>1 DEF end_op
  <1>3. InOp' = InOp \ {p}
    BY <1>1 DEF TypeOK, PCs, InOp, Committing, Goto, wakeup, end_op
  <1>4. \A q \in InOp' : pc'[q] = pc[q]
    BY <1>1, <1>3 DEF TypeOK, InOp, Goto, wakeup, end_op
  <1>5. Len(lh) \in Nat /\ Cardinality(Credit) \in Nat /\ Len(lh) + Cardinality(Credit) <= LOGSIZE
    BY <1>1, CreditFinite DEF Space, TypeOK
  <1>6. <<p, MAXOPBLOCKS>> \in Credit
    <2>1. p \in Proc /\ Cardinality(wrote[p]) \in Nat /\ Cardinality(wrote[p]) <= OPBLOCKS
      BY <1>1, WroteFinite DEF Space
    <2> QED
      BY <2>1, <1>1 DEF Credit
  <1>7. Credit' \subseteq Credit \ {<<p, MAXOPBLOCKS>>}
    BY <1>2, <1>3 DEF Credit
  <1>8. Cardinality(Credit') \in Nat /\ Cardinality(Credit') <= Cardinality(Credit) - 1
    <2>1. /\ IsFiniteSet(Credit \ {<<p, MAXOPBLOCKS>>})
          /\ Cardinality(Credit \ {<<p, MAXOPBLOCKS>>}) = Cardinality(Credit) - 1
      BY <1>6, CreditFinite, FS_RemoveElement
    <2> QED
      BY <2>1, <1>7, FS_Subset, FS_CardinalityType
  <1>9. Len(lh) + Cardinality(Credit') < LOGSIZE
    BY <1>5, <1>8
  <1>10. Len(lh') + Cardinality(Credit') < LOGSIZE
    BY <1>2, <1>9
  <1>11. Len(lh') + Cardinality(Credit') <= LOGSIZE
    BY <1>2, <1>5, <1>8
  <1>12. \A q \in InOp' : q \in InOp /\ wrote'[q] = wrote[q] /\ req'[q] = req[q]
    BY <1>2, <1>3
  <1>13. Logged' = Logged
    BY <1>2 DEF Logged
  <1> QED
    BY <1>1, <1>2, <1>4, <1>10, <1>11, <1>12, <1>13 DEF Space

LEMMA SpaceStep ==
  ASSUME Slack, SpaceInv, [Next]_vars
  PROVE  SpaceInv'
  <1>c. ControlInv' /\ TypeOK /\ Control /\ Space /\ TypeOK'
    BY TypeStep, ControlStep DEF SpaceInv, ControlInv
  <1> SUFFICES Space'
    BY <1>c DEF SpaceInv
  \* Most steps leave the calls and the log alone, or shrink the log while no call is open.
  <1>u. ASSUME UNCHANGED <<wrote, panicked>>, InOp' = InOp,
               \A q \in InOp : pc'[q] = "log_write" => pc[q] = "log_write" /\ req'[q] = req[q],
               UNCHANGED lh \/ (InOp = {} /\ Len(lh') < LOGSIZE),
               Len(hdr') < LOGSIZE
        PROVE  Space'
    <2>1. Credit' = Credit
      BY <1>u DEF Credit
    <2>2. CASE UNCHANGED lh
      <3>1. Logged' = Logged
        BY <2>2 DEF Logged
      <3> QED
        BY <1>c, <1>u, <2>1, <2>2, <3>1 DEF Space
    <2>3. CASE InOp = {} /\ Len(lh') < LOGSIZE
      BY <1>c, <1>u, <2>1, <2>3 DEF Space
    <2> QED
      BY <1>u, <2>2, <2>3
  <1>e. 0 < LOGSIZE /\ Len(<<>>) = 0
    BY LogAssumption DEF LogAssumption
  <1>1. ASSUME recover_from_log PROVE Space'
    <2>1. InOp = {} /\ InOp' = {}
      BY <1>1, <1>c DEF InOp, Control, recover_from_log, read_head, recover_install, recover_clear
    <2>2. UNCHANGED <<wrote, panicked>> /\ Len(lh') < LOGSIZE /\ Len(hdr') < LOGSIZE
      BY <1>1, <1>c, <1>e DEF Space, recover_from_log, read_head, recover_install, recover_clear
    <2> QED
      BY <1>u, <2>1, <2>2
  <1>2. ASSUME NEW p \in Proc, kill(p) PROVE Space'
    <2>1. InOp' = InOp /\ UNCHANGED <<wrote, panicked, lh, hdr, req>>
      BY <1>2, <1>c DEF kill, Goto, InOp, TypeOK
    <2>2. \A q \in InOp : pc'[q] = pc[q]
      BY <1>2, <1>c DEF kill, Goto, InOp, TypeOK
    <2> QED
      BY <1>u, <1>c, <2>1, <2>2 DEF Space
  <1>3. ASSUME NEW p \in Proc, commit(p) \/ end_op_finish(p) PROVE Space'
    <2>1. InOp = {} /\ InOp' = {}
      BY <1>3, <1>c DEF commit, write_log, write_head, install_trans, clear_head, end_op_finish,
           Goto, wakeup, InOp, TypeOK, Control, Committing
    <2>2. UNCHANGED <<wrote, panicked>> /\ Len(lh') < LOGSIZE /\ Len(hdr') < LOGSIZE
      BY <1>3, <1>c, <1>e DEF Space, commit, write_log, write_head, install_trans, clear_head,
           end_op_finish
    <2> QED
      BY <1>u, <2>1, <2>2
  <1>4. ASSUME NEW p \in Proc, NEW b \in Home, NEW v \in Value, log_write_check(p, b, v)
        PROVE  Space'
    <2>1. p \in InOp /\ Len(lh) + 2 <= LOGSIZE /\ Len(lh) \in Nat
      BY <1>4, <1>c, RoomLeft DEF log_write_check, InOp, TypeOK
    <2>2. outstanding # 0 /\ outstanding \in Nat
      BY <2>1, <1>c, InOpFinite, FS_EmptySet DEF Control, TypeOK
    <2>3. ~(TooBig \/ outstanding < 1)
      BY <2>1, <2>2, LogAssumption DEF LogAssumption, TooBig
    <2>4. /\ pc' = [pc EXCEPT ![p] = "log_write"] /\ req' = [req EXCEPT ![p] = <<b, v>>]
          /\ UNCHANGED <<lh, hdr, wrote, panicked>>
          /\ b \in wrote[p] \/ Cardinality(wrote[p]) < OPBLOCKS
      BY <1>4, <2>3 DEF log_write_check, Goto
    <2>5. InOp' = InOp
      BY <2>1, <2>4, <1>c DEF InOp, TypeOK
    <2>6. Credit' = Credit /\ Logged' = Logged
      BY <2>4, <2>5 DEF Credit, Logged
    <2>7. \A q \in InOp : pc'[q] = "log_write" /\ req'[q][1] \notin wrote[q]
                            => Cardinality(wrote[q]) < OPBLOCKS
      <3>1. req'[p] = <<b, v>> /\ \A q \in InOp : q # p => req'[q] = req[q] /\ pc'[q] = pc[q]
        BY <2>1, <2>4, <1>c DEF InOp, TypeOK
      <3>2. req'[p][1] = b
        BY <3>1
      <3> QED
        BY <3>1, <3>2, <2>4, <1>c DEF Space
    <2> QED
      BY <1>c, <2>4, <2>5, <2>6, <2>7 DEF Space
  <1>5. ASSUME Crash PROVE Space'
    <2>1. InOp' = {} /\ ~panicked' /\ Len(lh') = 0 /\ hdr' = hdr
      BY <1>5 DEF Crash, InOp
    <2> QED
      BY <2>1, <1>c, <1>e DEF Space
  <1>6. ASSUME UNCHANGED vars PROVE Space'
    <2>1. UNCHANGED <<wrote, panicked, lh, hdr, req, pc>> /\ InOp' = InOp
      BY <1>6 DEF vars, mem, InOp
    <2> QED
      BY <1>u, <1>c, <2>1 DEF Space
  <1> QED
    BY <1>1, <1>2, <1>3, <1>4, <1>5, <1>6, <1>c, BeginSpace, LogWriteSpace, EndSpace DEF Next

LEMMA SpaceAlways == Slack => (Spec => []SpaceInv)
  <1> SUFFICES ASSUME Slack PROVE Spec => []SpaceInv
    OBVIOUS
  <1>1. Init => SpaceInv
    BY InitControl, InitSpace DEF SpaceInv
  <1>2. SpaceInv /\ [Next]_vars => SpaceInv'
    BY SpaceStep
  <1> QED
    BY <1>1, <1>2, PTL DEF Spec

\* The space begin_op() reserves is enough: when every call writes fewer
\* blocks than MAXOPBLOCKS, log.c never panics, although the size check of
\* log_write() compares with the smaller on-disk size and takes no lock.
THEOREM NeverPanics == Slack => (Spec => []NoPanic)
  <1>1. SpaceInv => NoPanic
    BY DEF SpaceInv, Space, NoPanic
  <1> QED
    BY SpaceAlways, <1>1, PTL

\* Under the same assumption a transaction never reaches past the log area
\* of the disk, so write_log() never writes over an inode block.
THEOREM TransactionFits == Slack => (Spec => []LogFits)
  <1>1. SpaceInv => LogFits
    BY LogAssumption DEF SpaceInv, ControlInv, TypeOK, Space, LogFits, LogAssumption
  <1> QED
    BY SpaceAlways, <1>1, PTL

-----------------------------------------------------------------------------
(* Disk.  What the home blocks, the log blocks and the header hold in each  *)
(* phase of a commit and of the recovery.                                   *)

Disk ==
  /\ boot = "read_head" => dirty = {}
  /\ boot = "install_trans" =>
       /\ lh = hdr /\ dirty = {}
       /\ \A i \in 1..Len(lh) : i < tail => disk[lh[i]] = disk[i]
  /\ boot = "clear_head" =>
       /\ lh = hdr /\ dirty = {}
       /\ \A i \in 1..Len(lh) : disk[lh[i]] = disk[i]
  /\ boot = "up" /\ (\A p \in Proc : pc[p] \notin {"install_trans", "clear_head"}) =>
       hdr = <<>> /\ dirty = Logged
  /\ \A p \in Proc :
       /\ pc[p] = "write_log" =>
            \A i \in 1..Len(lh) : i < tail => disk[i] = data[lh[i]]
       /\ pc[p] = "write_head" =>
            \A i \in 1..Len(lh) : disk[i] = data[lh[i]]
       /\ pc[p] = "install_trans" =>
            /\ lh = hdr /\ dirty = {lh[i] : i \in tail..Len(lh)}
            /\ \A i \in 1..Len(lh) : IF i < tail THEN disk[lh[i]] = disk[i]
                                                 ELSE disk[i] = data[lh[i]]
       /\ pc[p] = "clear_head" =>
            /\ lh = hdr /\ dirty = {}
            /\ \A i \in 1..Len(lh) : disk[lh[i]] = disk[i]

DiskInv == SpaceInv /\ Disk

\* Log blocks and home blocks are apart.
LEMMA Layout ==
  ASSUME SpaceInv
  PROVE  /\ Home \subseteq Addr
         /\ \A i \in 1..Len(lh) : i \in Addr /\ i \notin Home /\ lh[i] \in Home
         /\ \A i \in 1..Len(hdr) : i \in Addr /\ i \notin Home /\ hdr[i] \in Home
  BY LogAssumption DEF LogAssumption, SpaceInv, ControlInv, TypeOK, Space, Home, Addr

LEMMA InitDisk == Init => Disk
  BY DEF Init, Disk, Logged

LEMMA RecoverDisk ==
  ASSUME DiskInv, recover_from_log
  PROVE  Disk'
  <1>1. TypeOK /\ Control /\ Space /\ Disk
    BY DEF DiskInv, SpaceInv, ControlInv
  <1>2. boot # "up" /\ pc = [p \in Proc |-> "idle"] /\ UNCHANGED pc
    BY <1>1 DEF recover_from_log, read_head, recover_install, recover_clear, Control
  <1>3. CASE read_head
    <2>1. lh' = hdr /\ hdr' = hdr /\ tail' = 1 /\ dirty' = dirty /\ disk' = disk /\ dirty = {}
      BY <1>1, <1>3 DEF read_head, Disk
    <2>2. boot' = IF hdr = <<>> THEN "clear_head" ELSE "install_trans"
      BY <1>3 DEF read_head
    <2>3. hdr = <<>> => 1..Len(hdr) = {}
      OBVIOUS
    <2>4. \A i \in 1..Len(lh') : ~(i < tail')
      BY <2>1, <1>1 DEF TypeOK
    <2> QED
      BY <1>2, <2>1, <2>2, <2>3, <2>4 DEF Disk
  <1>4. CASE recover_install
    <2>1. /\ lh = hdr /\ UNCHANGED <<lh, hdr>> /\ tail \in 1..Len(lh) /\ tail' = tail + 1
          /\ boot = "install_trans" /\ dirty = {}
          /\ \A i \in 1..Len(lh) : i < tail => disk[lh[i]] = disk[i]
      BY <1>1, <1>4 DEF recover_install, Disk, Control
    <2>2. disk' = [disk EXCEPT ![lh[tail]] = disk[tail]] /\ dirty' = {}
      BY <1>4, <2>1 DEF recover_install, bwrite, bread
    <2>3. \A i \in 1..Len(lh) : disk'[i] = disk[i]
      BY <2>1, <2>2, <1>1, Layout DEF TypeOK, DiskInv
    <2>4. \A i \in 1..Len(lh) : disk'[lh[i]] = IF i = tail THEN disk[tail] ELSE disk[lh[i]]
      BY <2>1, <2>2, <1>1, Layout DEF TypeOK, DiskInv, Control, Injective
    <2>5. \A i \in 1..Len(lh) : i < tail' => disk'[lh[i]] = disk'[i]
      <3> SUFFICES ASSUME NEW i \in 1..Len(lh), i < tail + 1
                   PROVE  disk'[lh[i]] = disk'[i]
        BY <2>1
      <3>1. i = tail \/ i < tail
        BY <2>1
      <3> QED
        BY <3>1, <2>1, <2>3, <2>4
    <2>6. boot' = IF tail = Len(lh) THEN "clear_head" ELSE boot
      BY <1>4 DEF recover_install
    <2>7. CASE tail = Len(lh)
      <3>1. \A i \in 1..Len(lh) : i < tail'
        BY <2>1, <2>7
      <3> QED
        BY <1>2, <2>1, <2>2, <2>5, <2>6, <2>7, <3>1 DEF Disk
    <2>8. CASE tail # Len(lh)
      BY <1>2, <2>1, <2>2, <2>5, <2>6, <2>8 DEF Disk
    <2> QED
      BY <2>7, <2>8
  <1>5. CASE recover_clear
    <2>1. lh' = <<>> /\ hdr' = <<>> /\ boot' = "up" /\ dirty' = {}
      BY <1>1, <1>5 DEF recover_clear, Disk
    <2>2. Logged' = {}
      BY <2>1 DEF Logged
    <2> QED
      BY <1>2, <2>1, <2>2 DEF Disk
  <1> QED
    BY <1>3, <1>4, <1>5 DEF recover_from_log

LEMMA CommitDisk ==
  ASSUME DiskInv, ControlInv', NEW p \in Proc, commit(p)
  PROVE  Disk'
  <1>1. TypeOK /\ Control /\ Space /\ Disk
    BY DEF DiskInv, SpaceInv, ControlInv
  <1>2. /\ boot = "up" /\ boot' = "up" /\ lh \in Seq(Home)
        /\ pc[p] \in Committing /\ \A q \in Proc : q # p => pc[q] \notin Committing
    BY <1>1 DEF commit, write_log, write_head, install_trans, clear_head, Up, Control, Committing,
       TypeOK
  <1>3. \A q \in Proc : q # p => pc'[q] \notin Committing
    BY <1>1, <1>2 DEF commit, write_log, write_head, install_trans, clear_head, Goto, TypeOK
  <1>4. \A i \in 1..Len(lh) : i \in Addr /\ i \notin Home /\ lh[i] \in Home /\ lh[i] \in Addr
    BY Layout DEF DiskInv
  <1>5. CASE write_log(p)
    <2>1. /\ pc[p] = "write_log" /\ tail \in 1..Len(lh) /\ tail' = tail + 1
          /\ UNCHANGED <<lh, hdr>> /\ hdr = <<>> /\ dirty = Logged
          /\ \A i \in 1..Len(lh) : i < tail => disk[i] = data[lh[i]]
      BY <1>1, <1>2, <1>5 DEF write_log, Control, Disk, Committing
    <2>2. lh[tail] \in dirty /\ tail \notin dirty
      BY <2>1, <1>1, <1>4 DEF Logged, TypeOK
    <2>3. /\ disk' = [disk EXCEPT ![tail] = data[lh[tail]]]
          /\ data' = [data EXCEPT ![tail] = data[lh[tail]]]
          /\ dirty' = dirty
      BY <1>5, <2>2 DEF write_log, bwrite, bread
    <2>4. \A i \in 1..Len(lh) : data'[lh[i]] = data[lh[i]]
      BY <2>1, <2>3, <1>4, <1>1 DEF TypeOK
    <2>5. \A i \in 1..Len(lh) : disk'[i] = IF i = tail THEN data[lh[tail]] ELSE disk[i]
      BY <2>1, <2>3, <1>4, <1>1 DEF TypeOK
    <2>6. \A i \in 1..Len(lh) : i < tail' => disk'[i] = data'[lh[i]]
      <3> SUFFICES ASSUME NEW i \in 1..Len(lh), i < tail + 1
                   PROVE  disk'[i] = data'[lh[i]]
        BY <2>1
      <3>1. i = tail \/ i < tail
        BY <2>1
      <3> QED
        BY <3>1, <2>1, <2>4, <2>5
    <2>7. pc'[p] = IF tail = Len(lh) THEN "write_head" ELSE "write_log"
      BY <1>5, <2>1, <1>1 DEF write_log, Goto, TypeOK
    <2>8. Logged' = Logged
      BY <2>1 DEF Logged
    <2>9. tail = Len(lh) => \A i \in 1..Len(lh) : i < tail'
      BY <2>1
    <2> QED
      BY <1>2, <1>3, <2>1, <2>3, <2>6, <2>7, <2>8, <2>9 DEF Disk, Committing
  <1>6. CASE write_head(p)
    <2>1. /\ pc'[p] = "install_trans" /\ hdr' = lh /\ tail' = 1
          /\ UNCHANGED <<lh, data, dirty, disk>> /\ dirty = Logged
          /\ \A i \in 1..Len(lh) : disk[i] = data[lh[i]]
      BY <1>1, <1>2, <1>6 DEF write_head, Goto, Disk, Committing, TypeOK
    <2>2. \A i \in 1..Len(lh) : ~(i < 1)
      BY <1>2
    <2> QED
      BY <1>2, <1>3, <2>1, <2>2 DEF Disk, Committing, Logged
  <1>7. CASE install_trans(p)
    <2>1. /\ pc[p] = "install_trans" /\ tail \in 1..Len(lh) /\ tail' = tail + 1
          /\ UNCHANGED <<lh, hdr>> /\ hdr = lh /\ dirty = {lh[i] : i \in tail..Len(lh)}
          /\ \A i \in 1..Len(lh) : IF i < tail THEN disk[lh[i]] = disk[i]
                                               ELSE disk[i] = data[lh[i]]
      BY <1>1, <1>2, <1>7 DEF install_trans, Control, Disk
    <2>2. tail \notin dirty
      BY <2>1, <1>1, <1>4 DEF TypeOK, SpaceInv, DiskInv
    <2>3. /\ disk' = [disk EXCEPT ![lh[tail]] = disk[tail]]
          /\ data' = [data EXCEPT ![lh[tail]] = disk[tail]]
          /\ dirty' = dirty \ {lh[tail]}
      BY <1>7, <2>2 DEF install_trans, bwrite, bread
    <2>4. \A i \in 1..Len(lh) : disk'[i] = disk[i]
      BY <2>1, <2>3, <1>4, <1>1 DEF TypeOK
    <2>5. \A i \in 1..Len(lh) : i # tail => lh[i] # lh[tail]
      BY <2>1, <1>1 DEF Control, Injective
    <2>6. \A i \in 1..Len(lh) : i # tail => disk'[lh[i]] = disk[lh[i]] /\ data'[lh[i]] = data[lh[i]]
      BY <2>3, <2>5, <1>4, <1>1 DEF TypeOK
    <2>7. disk'[lh[tail]] = disk[tail]
      BY <2>1, <2>3, <1>4, <1>1 DEF TypeOK
    <2>8. \A i \in 1..Len(lh) : IF i < tail' THEN disk'[lh[i]] = disk'[i]
                                             ELSE disk'[i] = data'[lh[i]]
      <3> SUFFICES ASSUME NEW i \in 1..Len(lh)
                   PROVE  IF i < tail + 1 THEN disk'[lh[i]] = disk'[i]
                                          ELSE disk'[i] = data'[lh[i]]
        BY <2>1
      <3>1. CASE i = tail
        BY <3>1, <2>1, <2>4, <2>7
      <3>2. CASE i # tail
        <4>1. i < tail + 1 <=> i < tail
          BY <3>2, <2>1
        <4> QED
          BY <3>2, <4>1, <2>1, <2>4, <2>6
      <3> QED
        BY <3>1, <3>2
    <2>9. dirty' = {lh[i] : i \in tail'..Len(lh)}
      <3>1. tail..Len(lh) = {tail} \cup (tail + 1)..Len(lh) /\ tail \notin (tail + 1)..Len(lh)
        BY <2>1, <1>2
      <3>2. \A i \in (tail + 1)..Len(lh) : i \in 1..Len(lh) /\ i # tail
        BY <2>1, <1>2
      <3> QED
        BY <3>1, <3>2, <2>1, <2>3, <2>5
    <2>10. pc'[p] = IF tail = Len(lh) THEN "clear_head" ELSE "install_trans"
      BY <1>7, <2>1, <1>1 DEF install_trans, Goto, TypeOK
    <2>11. CASE tail = Len(lh)
      <3>1. tail'..Len(lh) = {} /\ \A i \in 1..Len(lh) : i < tail'
        BY <2>1, <2>11, <1>2
      <3>2. dirty' = {}
        BY <3>1, <2>9
      <3> QED
        BY <1>2, <1>3, <2>1, <2>8, <2>10, <2>11, <3>1, <3>2 DEF Disk, Committing
    <2>12. CASE tail # Len(lh)
      BY <1>2, <1>3, <2>1, <2>8, <2>9, <2>10, <2>12 DEF Disk, Committing
    <2> QED
      BY <2>11, <2>12
  <1>8. CASE clear_head(p)
    <2>1. lh' = <<>> /\ hdr' = <<>> /\ dirty' = {} /\ pc'[p] = "finish"
      BY <1>1, <1>8 DEF clear_head, Disk, Goto, TypeOK
    <2>2. Logged' = {}
      BY <2>1 DEF Logged
    <2> QED
      BY <1>2, <1>3, <2>1, <2>2 DEF Disk, Committing
  <1> QED
    BY <1>5, <1>6, <1>7, <1>8 DEF commit

\* The steps of the calls pin what they change and leave the disk alone.
LEMMA CallDisk ==
  ASSUME DiskInv, ControlInv', NEW p \in Proc,
         begin_op(p) \/ kill(p) \/ log_write(p) \/ end_op(p) \/ end_op_finish(p)
  PROVE  Disk'
  <1>1. TypeOK /\ Control /\ Space /\ Disk
    BY DEF DiskInv, SpaceInv, ControlInv
  <1>2. boot = "up" /\ UNCHANGED <<boot, disk, hdr>>
    BY DEF begin_op, kill, log_write, end_op, end_op_finish, Up
  <1>3. CASE log_write(p)
    <2>1. req[p] \in Home \X Value
      BY <1>1, <1>3 DEF TypeOK, Control, log_write
    <2>2. \A q \in Proc : pc[q] \notin Committing /\ pc'[q] \notin Committing
      BY <1>1, <1>3 DEF Control, InOp, log_write, Goto, TypeOK, Committing
    <2>3. hdr = <<>> /\ dirty = Logged
      BY <1>1, <1>2, <2>2 DEF Disk, Committing
    <2>4. Logged' = Logged \cup {req[p][1]}
      <3> DEFINE b == req[p][1]
      <3>1. b \in Home
        BY <2>1
      <3>2. lh' = IF b \in Logged THEN lh ELSE Append(lh, b)
        <4>1. DOMAIN lh = 1..Len(lh)
          BY <1>1 DEF TypeOK
        <4> QED
          BY <4>1, <1>3 DEF log_write, Logged
      <3> HIDE DEF b
      <3>3. CASE b \in Logged
        BY <3>2, <3>3 DEF Logged, b
      <3>4. CASE b \notin Logged
        <4>1. Len(lh') = Len(lh) + 1 /\ lh'[Len(lh) + 1] = b /\ Len(lh) \in Nat
          BY <3>1, <3>2, <3>4, <1>1 DEF TypeOK
        <4>2. \A i \in 1..Len(lh) : lh'[i] = lh[i]
          BY <3>1, <3>2, <3>4, <1>1 DEF TypeOK
        <4>3. 1..Len(lh') = 1..Len(lh) \cup {Len(lh) + 1}
          BY <4>1
        <4> QED
          BY <4>1, <4>2, <4>3 DEF Logged, b
      <3> QED
        BY <3>3, <3>4
    <2>5. dirty' = dirty \cup {req[p][1]}
      BY <1>3 DEF log_write
    <2> QED
      BY <1>2, <2>2, <2>3, <2>4, <2>5 DEF Disk, Committing
  <1>4. CASE begin_op(p) \/ kill(p) \/ end_op(p) \/ end_op_finish(p)
    <2>1. UNCHANGED <<lh, dirty, data>> /\ Logged' = Logged
      BY <1>4 DEF begin_op, kill, end_op, end_op_finish, Logged
    <2>2. \A q \in Proc : pc'[q] \in Committing =>
            pc'[q] = pc[q] \/ pc'[q] = "finish" \/ (pc'[q] = "write_log" /\ tail' = 1)
      <3>1. CASE begin_op(p) \/ kill(p)
        BY <1>1, <3>1 DEF begin_op, kill, Goto, TypeOK, Committing
      <3>2. CASE end_op(p)
        <4>1. ~committing
          BY <1>1, <3>2 DEF end_op, Control, InOp
        <4>2. \/ pc' = [pc EXCEPT ![p] = IF lh = <<>> THEN "finish" ELSE "write_log"] /\ tail' = 1
              \/ pc' = wakeup([pc EXCEPT ![p] = "idle"])
          BY <3>2, <4>1 DEF end_op, Goto
        <4> QED
          BY <1>1, <4>2 DEF wakeup, TypeOK, Committing
      <3>3. CASE end_op_finish(p)
        BY <1>1, <3>3 DEF end_op_finish, wakeup, TypeOK, Committing
      <3> QED
        BY <1>4, <3>1, <3>2, <3>3
    <2>3. tail' = tail \/ (tail' = 1 /\ \A q \in Proc : pc[q] \notin Committing)
      <3>1. CASE end_op(p)
        <4>1. ~committing
          BY <1>1, <3>1 DEF end_op, Control, InOp
        <4>2. \A q \in Proc : pc[q] \notin Committing
          BY <1>1, <4>1 DEF Control
        <4>3. tail' = tail \/ tail' = 1
          BY <3>1, <4>1 DEF end_op
        <4> QED
          BY <4>2, <4>3
      <3>2. CASE begin_op(p) \/ kill(p) \/ end_op_finish(p)
        BY <3>2 DEF begin_op, kill, end_op_finish
      <3> QED
        BY <1>4, <3>1, <3>2
    <2>4. \A i \in 1..Len(lh) : ~(i < 1)
      BY <1>1 DEF TypeOK
    <2>5. (\A q \in Proc : pc'[q] \notin {"install_trans", "clear_head"}) =>
             \A q \in Proc : pc[q] \notin {"install_trans", "clear_head"}
      BY <1>1, <1>4 DEF begin_op, kill, end_op, end_op_finish, Goto, wakeup, TypeOK
    <2> QED
      BY <1>1, <1>2, <2>1, <2>2, <2>3, <2>4, <2>5 DEF Disk, Committing
  <1> QED
    BY <1>3, <1>4

LEMMA DiskStep ==
  ASSUME Slack, DiskInv, [Next]_vars
  PROVE  DiskInv'
  <1>1. SpaceInv' /\ ControlInv'
    BY SpaceStep DEF DiskInv, SpaceInv
  <1>2. ASSUME NEW p \in Proc, NEW b \in Home, NEW v \in Value, log_write_check(p, b, v)
        PROVE  Disk'
    <2>1. UNCHANGED <<lh, hdr, disk, data, dirty, tail, boot>> /\ Logged' = Logged
      BY <1>2 DEF log_write_check, Logged
    <2>2. \A q \in Proc : pc'[q] = pc[q] \/ (pc[q] = "op" /\ pc'[q] = "log_write")
      <3>1. pc[p] = "op" /\ (pc' = pc \/ pc' = [pc EXCEPT ![p] = "log_write"])
        BY <1>2 DEF log_write_check, Goto
      <3>2. pc \in [Proc -> PCs]
        BY DEF DiskInv, SpaceInv, ControlInv, TypeOK
      <3> QED
        BY <3>1, <3>2
    <2> QED
      BY <2>1, <2>2 DEF DiskInv, Disk
  <1>3. ASSUME Crash PROVE Disk'
    BY <1>3 DEF Crash, Disk
  <1>4. ASSUME UNCHANGED vars PROVE Disk'
    BY <1>4 DEF vars, mem, Disk, DiskInv, Logged
  <1>5. Disk'
    BY <1>1, <1>2, <1>3, <1>4, RecoverDisk, CommitDisk, CallDisk DEF Next
  <1> QED
    BY <1>1, <1>5 DEF DiskInv

LEMMA DiskAlways == Slack => (Spec => []DiskInv)
  <1> SUFFICES ASSUME Slack PROVE Spec => []DiskInv
    OBVIOUS
  <1>1. Init => DiskInv
    BY InitControl, InitSpace, InitDisk DEF SpaceInv, DiskInv
  <1>2. DiskInv /\ [Next]_vars => DiskInv'
    BY DiskStep
  <1> QED
    BY <1>1, <1>2, PTL DEF Spec

\* What end_op() of the last call returns with is on disk, and the log is empty.
THEOREM CommitIsDurable == Slack => (Spec => []CommitDurable)
  <1>1. ASSUME DiskInv PROVE CommitDurable
    <2> SUFFICES ASSUME NEW p \in Proc, pc[p] = "finish"
                 PROVE  Recovered = Contents /\ hdr = <<>> /\ lh = <<>> /\ dirty = {}
      BY DEF CommitDurable
    <2>1. boot = "up" /\ \A q \in Proc : pc[q] \notin {"install_trans", "clear_head"}
      BY <1>1 DEF DiskInv, SpaceInv, ControlInv, Control, Committing
    <2>2. hdr = <<>> /\ dirty = Logged /\ lh = <<>>
      BY <1>1, <2>1 DEF DiskInv, SpaceInv, ControlInv, Control, Disk
    <2>3. dirty = {}
      BY <2>2 DEF Logged
    <2> QED
      BY <2>2, <2>3 DEF Recovered, Contents, bread
  <1> QED
    BY DiskAlways, <1>1, PTL

-----------------------------------------------------------------------------
(* The log implements the atomic store.                                    *)

LEMMA RecoveredValue ==
  ASSUME TypeOK, Injective(hdr)
  PROVE  /\ \A i \in 1..Len(hdr) : hdr[i] \in Home /\ Recovered[hdr[i]] = disk[i]
         /\ \A b \in Home : (\A i \in 1..Len(hdr) : hdr[i] # b) => Recovered[b] = disk[b]
  <1>1. DOMAIN hdr = 1..Len(hdr) /\ \A i \in 1..Len(hdr) : hdr[i] \in Home
    BY DEF TypeOK
  <1>2. ASSUME NEW i \in 1..Len(hdr)
        PROVE  Recovered[hdr[i]] = disk[i]
    <2>1. (CHOOSE j \in DOMAIN hdr : hdr[j] = hdr[i]) = i
      BY <1>1 DEF Injective
    <2> QED
      BY <1>1, <2>1 DEF Recovered
  <1> QED
    BY <1>1, <1>2 DEF Recovered

\* Copying a log block to its home does not change what a restart brings back.
LEMMA InstallKeepsRecovered ==
  ASSUME DiskInv, DiskInv', lh = hdr, UNCHANGED hdr, tail \in 1..Len(lh),
         disk' = [disk EXCEPT ![lh[tail]] = disk[tail]]
  PROVE  Recovered' = Recovered
  <1>1. TypeOK /\ TypeOK' /\ Injective(hdr) /\ Injective(hdr')
    BY DEF DiskInv, SpaceInv, ControlInv, Control
  <1>2. \A i \in 1..Len(hdr) : disk'[i] = disk[i]
    BY <1>1, Layout DEF DiskInv, TypeOK
  <1>3. \A b \in Home : Recovered'[b] = Recovered[b]
    <2> SUFFICES ASSUME NEW b \in Home PROVE Recovered'[b] = Recovered[b]
      OBVIOUS
    <2>1. CASE \E i \in 1..Len(hdr) : hdr[i] = b
      <3>1. PICK i \in 1..Len(hdr) : hdr[i] = b
        BY <2>1
      <3>2. Recovered[b] = disk[i]
        BY <1>1, <3>1, RecoveredValue
      <3>3. Recovered'[b] = disk'[i]
        <4>1. (CHOOSE j \in DOMAIN hdr : hdr[j] = b) = i /\ i \in DOMAIN hdr
          BY <1>1, <3>1 DEF Injective, TypeOK
        <4> QED
          BY <4>1, <3>1 DEF Recovered
      <3> QED
        BY <1>2, <3>1, <3>2, <3>3
    <2>2. CASE \A i \in 1..Len(hdr) : hdr[i] # b
      <3>1. disk'[b] = disk[b]
        BY <2>2, <1>1, Layout DEF TypeOK, DiskInv
      <3>2. DOMAIN hdr = 1..Len(hdr)
        BY <1>1 DEF TypeOK
      <3> QED
        BY <2>2, <3>1, <3>2 DEF Recovered
    <2> QED
      BY <2>1, <2>2
  <1>4. Recovered = [b \in Home |-> Recovered[b]] /\ Recovered' = [b \in Home |-> Recovered'[b]]
    BY DEF Recovered
  <1> QED
    BY <1>3, <1>4

\* With every logged block installed the header can be cleared.
LEMMA ClearKeepsRecovered ==
  ASSUME DiskInv, hdr' = <<>>, UNCHANGED disk,
         \A i \in 1..Len(hdr) : disk[hdr[i]] = disk[i]
  PROVE  Recovered' = Recovered
  <1>1. TypeOK /\ Injective(hdr)
    BY DEF DiskInv, SpaceInv, ControlInv, Control
  <1>2. Recovered' = [b \in Home |-> disk[b]]
    BY DEF Recovered
  <1>3. \A b \in Home : Recovered[b] = disk[b]
    BY <1>1, RecoveredValue
  <1>4. Recovered = [b \in Home |-> Recovered[b]]
    BY DEF Recovered
  <1> QED
    BY <1>2, <1>3, <1>4

\* What the running system reads: a restarting system reads what it recovers.
Current == IF boot = "up" THEN Contents ELSE Recovered

LEMMA AbsInit == Init => Abs!Init
  <1> SUFFICES ASSUME Init PROVE Abs!Init
    OBVIOUS
  <1>1. Recovered = [b \in Home |-> Zero]
    BY LogAssumption DEF Init, Recovered, Home, Addr, LogAssumption
  <1>2. InOp = {}
    BY DEF Init, InOp
  <1>3. boot # "up"
    BY DEF Init
  <1> QED
    BY <1>1, <1>2, <1>3 DEF Abs!Init

LEMMA AbsRecover ==
  ASSUME DiskInv, DiskInv', recover_from_log
  PROVE  UNCHANGED <<Recovered, Current, InOp>>
  <1>1. TypeOK /\ Control /\ Disk
    BY DEF DiskInv, SpaceInv, ControlInv
  <1>2. InOp' = InOp
    BY DEF recover_from_log, read_head, recover_install, recover_clear, InOp
  <1>3. CASE read_head
    <2>1. Recovered' = Recovered
      BY <1>3 DEF read_head, Recovered
    <2>2. boot # "up" /\ boot' # "up"
      BY <1>3 DEF read_head
    <2> QED
      BY <1>2, <2>1, <2>2 DEF Current
  <1>4. CASE recover_install
    <2>1. /\ lh = hdr /\ UNCHANGED hdr /\ tail \in 1..Len(lh) /\ dirty = {}
          /\ boot # "up" /\ boot' # "up"
      BY <1>1, <1>4 DEF recover_install, Disk, Control
    <2>2. disk' = [disk EXCEPT ![lh[tail]] = disk[tail]]
      BY <1>4, <2>1 DEF recover_install, bwrite, bread
    <2>3. Recovered' = Recovered
      BY <2>1, <2>2, InstallKeepsRecovered
    <2> QED
      BY <1>2, <2>1, <2>3 DEF Current
  <1>5. CASE recover_clear
    <2>1. /\ hdr' = <<>> /\ UNCHANGED <<disk, dirty>> /\ dirty = {} /\ boot # "up" /\ boot' = "up"
          /\ \A i \in 1..Len(hdr) : disk[hdr[i]] = disk[i]
      BY <1>1, <1>5 DEF recover_clear, Disk
    <2>2. Recovered' = Recovered
      BY <2>1, ClearKeepsRecovered
    <2>3. Contents' = [b \in Home |-> disk[b]]
      BY <2>1 DEF Contents, bread
    <2>4. Recovered' = [b \in Home |-> disk[b]]
      BY <2>1 DEF Recovered
    <2> QED
      BY <1>2, <2>1, <2>2, <2>3, <2>4 DEF Current
  <1> QED
    BY <1>3, <1>4, <1>5 DEF recover_from_log

\* The header write is the commit point; the other steps change nothing.
LEMMA AbsCommit ==
  ASSUME DiskInv, DiskInv', NEW p \in Proc, commit(p)
  PROVE  /\ InOp = {} /\ InOp' = {} /\ Current' = Current
         /\ Recovered' = Current \/ Recovered' = Recovered
  <1>1. TypeOK /\ TypeOK' /\ Control /\ Disk
    BY DEF DiskInv, SpaceInv, ControlInv
  <1>2. boot = "up" /\ boot' = "up" /\ InOp = {} /\ InOp' = {}
    BY <1>1 DEF commit, write_log, write_head, install_trans, clear_head, Up, Control, Committing,
       TypeOK, InOp, Goto
  <1>3. Current = Contents /\ Current' = Contents'
    BY <1>2 DEF Current
  <1>4. \A i \in 1..Len(lh) : i \in Addr /\ i \notin Home /\ lh[i] \in Home /\ lh[i] \in Addr
    BY Layout DEF DiskInv
  <1>5. CASE write_log(p)
    <2>1. /\ pc[p] = "write_log" /\ tail \in 1..Len(lh)
          /\ UNCHANGED hdr /\ hdr = <<>> /\ dirty = Logged
      BY <1>1, <1>2, <1>5 DEF write_log, Control, Disk, Committing
    <2>2. tail \notin dirty /\ tail \notin Home
      BY <2>1, <1>1, <1>4 DEF TypeOK
    <2>3. \A b \in Home : disk'[b] = disk[b] /\ data'[b] = data[b]
      BY <1>5, <2>2, <1>1 DEF write_log, bwrite, TypeOK
    <2>4. dirty' = dirty
      BY <1>5, <2>2 DEF write_log, bwrite
    <2>5. Contents' = Contents
      BY <2>3, <2>4 DEF Contents, bread
    <2>6. Recovered' = Recovered
      BY <2>1, <2>3 DEF Recovered
    <2> QED
      BY <1>2, <1>3, <2>5, <2>6
  <1>6. CASE write_head(p)
    <2>1. /\ hdr' = lh /\ UNCHANGED <<data, dirty, disk>> /\ dirty = Logged
          /\ \A i \in 1..Len(lh) : disk[i] = data[lh[i]]
      BY <1>1, <1>2, <1>6 DEF write_head, Disk, Control, Committing
    <2>2. Contents' = Contents
      BY <2>1 DEF Contents, bread
    <2>3. \A b \in Home : Recovered'[b] = Contents[b]
      <3> SUFFICES ASSUME NEW b \in Home PROVE Recovered'[b] = Contents[b]
        OBVIOUS
      <3>1. DOMAIN hdr' = 1..Len(lh)
        BY <2>1, <1>1 DEF TypeOK
      <3>2. CASE \E i \in 1..Len(lh) : lh[i] = b
        <4>1. PICK i \in 1..Len(lh) : lh[i] = b
          BY <3>2
        <4>2. (CHOOSE j \in DOMAIN hdr' : hdr'[j] = b) = i
          BY <4>1, <3>1, <2>1, <1>1 DEF Control, Injective
        <4>3. Recovered'[b] = disk[i]
          BY <4>1, <4>2, <3>1, <2>1 DEF Recovered
        <4>4. Contents[b] = data[b]
          BY <4>1, <2>1 DEF Contents, bread, Logged
        <4> QED
          BY <4>1, <4>3, <4>4, <2>1
      <3>3. CASE \A i \in 1..Len(lh) : lh[i] # b
        <4>1. Recovered'[b] = disk[b]
          BY <3>1, <3>3, <2>1 DEF Recovered
        <4>2. Contents[b] = disk[b]
          BY <3>3, <2>1 DEF Contents, bread, Logged
        <4> QED
          BY <4>1, <4>2
      <3> QED
        BY <3>2, <3>3
    <2>4. Recovered' = [b \in Home |-> Recovered'[b]] /\ Contents = [b \in Home |-> Contents[b]]
      BY DEF Recovered, Contents
    <2>5. Recovered' = Contents
      BY <2>3, <2>4
    <2> QED
      BY <1>2, <1>3, <2>2, <2>5
  <1>7. CASE install_trans(p)
    <2>1. /\ pc[p] = "install_trans" /\ tail \in 1..Len(lh)
          /\ UNCHANGED <<lh, hdr>> /\ hdr = lh /\ dirty = {lh[i] : i \in tail..Len(lh)}
          /\ disk[tail] = data[lh[tail]]
      BY <1>1, <1>2, <1>7 DEF install_trans, Control, Disk
    <2>2. tail \notin dirty
      BY <2>1, <1>1, <1>4 DEF TypeOK
    <2>3. /\ disk' = [disk EXCEPT ![lh[tail]] = disk[tail]]
          /\ data' = [data EXCEPT ![lh[tail]] = disk[tail]]
          /\ dirty' = dirty \ {lh[tail]}
      BY <1>7, <2>2 DEF install_trans, bwrite, bread
    <2>4. Recovered' = Recovered
      BY <2>1, <2>3, InstallKeepsRecovered
    <2>5. lh[tail] \in dirty
      BY <2>1, <1>1 DEF TypeOK
    <2>6. \A b \in Home : (IF b \in dirty' THEN data'[b] ELSE disk'[b])
                            = IF b \in dirty THEN data[b] ELSE disk[b]
      <3> SUFFICES ASSUME NEW b \in Home
                   PROVE  (IF b \in dirty' THEN data'[b] ELSE disk'[b])
                            = IF b \in dirty THEN data[b] ELSE disk[b]
        OBVIOUS
      <3>1. CASE b = lh[tail]
        BY <3>1, <2>1, <2>3, <2>5, <1>1, <1>4 DEF TypeOK
      <3>2. CASE b # lh[tail]
        BY <3>2, <2>3, <1>1, <1>4 DEF TypeOK
      <3> QED
        BY <3>1, <3>2
    <2>7. Contents' = Contents
      BY <2>6 DEF Contents, bread
    <2> QED
      BY <1>2, <1>3, <2>4, <2>7
  <1>8. CASE clear_head(p)
    <2>1. /\ hdr' = <<>> /\ UNCHANGED <<disk, dirty, data>> /\ dirty = {} /\ hdr = lh
          /\ \A i \in 1..Len(hdr) : disk[hdr[i]] = disk[i]
      BY <1>1, <1>8 DEF clear_head, Disk
    <2>2. Recovered' = Recovered
      BY <2>1, ClearKeepsRecovered
    <2>3. Contents' = Contents
      BY <2>1 DEF Contents, bread
    <2> QED
      BY <1>2, <1>3, <2>2, <2>3
  <1> QED
    BY <1>5, <1>6, <1>7, <1>8 DEF commit

\* The steps of a call are the steps of a transaction.
LEMMA AbsCall ==
  ASSUME DiskInv, NEW p \in Proc,
         begin_op(p) \/ kill(p) \/ end_op(p) \/ end_op_finish(p)
  PROVE  /\ UNCHANGED <<Recovered, Current>>
         /\ \/ InOp' = InOp
            \/ p \notin InOp /\ InOp' = InOp \cup {p}
            \/ p \in InOp /\ InOp' = InOp \ {p}
  <1>1. TypeOK /\ Control
    BY DEF DiskInv, SpaceInv, ControlInv
  <1>2. UNCHANGED <<boot, dirty, data, disk, hdr>>
    BY DEF begin_op, kill, end_op, end_op_finish
  <1>3. Contents' = Contents /\ Recovered' = Recovered
    BY <1>2 DEF Contents, bread, Recovered
  <1>4. Current' = Current
    BY <1>2, <1>3 DEF Current
  <1>5. CASE begin_op(p) \/ kill(p)
    BY <1>1, <1>3, <1>4, <1>5 DEF begin_op, kill, Goto, InOp, TypeOK
  <1>6. CASE end_op(p)
    <2>1. ~committing /\ p \in InOp
      BY <1>1, <1>6 DEF end_op, Control, InOp
    <2>2. \/ pc' = [pc EXCEPT ![p] = IF lh = <<>> THEN "finish" ELSE "write_log"]
          \/ pc' = wakeup([pc EXCEPT ![p] = "idle"])
      BY <1>6, <2>1 DEF end_op, Goto
    <2>3. InOp' = InOp \ {p}
      BY <1>1, <2>1, <2>2 DEF wakeup, InOp, TypeOK
    <2> QED
      BY <1>3, <1>4, <2>1, <2>3
  <1>7. CASE end_op_finish(p)
    BY <1>1, <1>3, <1>4, <1>7 DEF end_op_finish, wakeup, InOp, TypeOK
  <1> QED
    BY <1>5, <1>6, <1>7

LEMMA AbsWrite ==
  ASSUME DiskInv, NEW p \in Proc, log_write(p)
  PROVE  /\ p \in InOp /\ InOp' = InOp /\ Recovered' = Recovered
         /\ \E b \in Home, v \in Value : Current' = [Current EXCEPT ![b] = v]
  <1>1. TypeOK /\ Control
    BY DEF DiskInv, SpaceInv, ControlInv
  <1>2. p \in InOp /\ InOp' = InOp /\ boot = "up" /\ UNCHANGED <<boot, disk, hdr>>
    BY <1>1 DEF log_write, Goto, InOp, TypeOK, Up
  <1>3. Recovered' = Recovered
    BY <1>2 DEF Recovered
  <1>4. PICK b \in Home, v \in Value : req[p] = <<b, v>>
    BY <1>1 DEF TypeOK, Control, log_write
  <1>5. data' = [data EXCEPT ![b] = v] /\ dirty' = dirty \cup {b}
    BY <1>4 DEF log_write
  <1>6. b \in Addr
    BY LogAssumption DEF LogAssumption, Home, Addr
  <1>7. Contents' = [Contents EXCEPT ![b] = v]
    <2>1. \A a \in Home : data'[a] = IF a = b THEN v ELSE data[a]
      BY <1>1, <1>5, <1>6, LogAssumption DEF TypeOK, Home, Addr, LogAssumption
    <2>2. Contents' = [a \in Home |-> IF a = b THEN v ELSE IF a \in dirty THEN data[a] ELSE disk[a]]
      BY <1>2, <1>5, <2>1 DEF Contents, bread
    <2> QED
      BY <2>2 DEF Contents, bread
  <1>8. Current' = [Current EXCEPT ![b] = v]
    BY <1>2, <1>7 DEF Current
  <1> QED
    BY <1>2, <1>3, <1>8

LEMMA AbsStep ==
  ASSUME DiskInv, DiskInv', [Next]_vars
  PROVE  [Abs!Next]_(Abs!vars)
  <1> USE DEF Abs!vars, Current
  <1>1. ASSUME recover_from_log PROVE UNCHANGED Abs!vars
    BY <1>1, AbsRecover
  <1>2. ASSUME NEW p \in Proc, commit(p) PROVE Abs!Commit \/ UNCHANGED Abs!vars
    BY <1>2, AbsCommit DEF Abs!Commit
  <1>3. ASSUME NEW p \in Proc, begin_op(p) \/ kill(p) \/ end_op(p) \/ end_op_finish(p)
        PROVE  Abs!Begin(p) \/ Abs!End(p) \/ UNCHANGED Abs!vars
    BY <1>3, AbsCall DEF Abs!Begin, Abs!End
  <1>4. ASSUME NEW p \in Proc, log_write(p)
        PROVE  \E b \in Home, v \in Value : Abs!Write(p, b, v)
    BY <1>4, AbsWrite DEF Abs!Write
  <1>5. ASSUME NEW p \in Proc, NEW b \in Home, NEW v \in Value, log_write_check(p, b, v)
        PROVE  UNCHANGED Abs!vars
    <2>1. UNCHANGED <<boot, dirty, data, disk, hdr>>
      BY <1>5 DEF log_write_check
    <2>2. Contents' = Contents /\ Recovered' = Recovered
      BY <2>1 DEF Contents, bread, Recovered
    <2>3. InOp' = InOp
      <3>1. pc[p] = "op" /\ (pc' = pc \/ pc' = [pc EXCEPT ![p] = "log_write"])
        BY <1>5 DEF log_write_check, Goto
      <3> QED
        BY <3>1 DEF InOp, DiskInv, SpaceInv, ControlInv, TypeOK
    <2> QED
      BY <2>1, <2>2, <2>3
  <1>6. ASSUME Crash PROVE Abs!Crash
    <2>1. boot' # "up" /\ InOp' = {} /\ UNCHANGED <<disk, hdr>>
      BY <1>6 DEF Crash, InOp
    <2>2. Recovered' = Recovered
      BY <2>1 DEF Recovered
    <2> QED
      BY <2>1, <2>2 DEF Abs!Crash
  <1>7. ASSUME UNCHANGED vars PROVE UNCHANGED Abs!vars
    <2>1. UNCHANGED <<boot, dirty, data, disk, hdr, pc>>
      BY <1>7 DEF vars, mem
    <2>2. Contents' = Contents /\ Recovered' = Recovered /\ InOp' = InOp
      BY <2>1 DEF Contents, bread, Recovered, InOp
    <2> QED
      BY <2>1, <2>2
  <1> QED
    BY <1>1, <1>2, <1>3, <1>4, <1>5, <1>6, <1>7 DEF Next, Abs!Next

\* Crash atomicity for every number of processes, blocks and crashes: the
\* log implements the atomic store as long as no call logs as many blocks as
\* it reserves.
THEOREM LogImplementsAtomicStore == Slack => (Spec => CrashAtomic)
  <1> SUFFICES ASSUME Slack PROVE Spec => CrashAtomic
    OBVIOUS
  <1>1. DiskInv /\ DiskInv' /\ [Next]_vars => [Abs!Next]_(Abs!vars)
    BY AbsStep
  <1>2. Spec => []DiskInv
    BY DiskAlways
  <1> QED
    BY AbsInit, <1>1, <1>2, PTL DEF Spec, CrashAtomic, Abs!Spec

=============================================================================
