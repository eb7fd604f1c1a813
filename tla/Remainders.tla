----------------------------- MODULE Remainders -----------------------------
(***************************************************************************)
(* Facts about remainders, for the rings of the pipes and of the console,  *)
(* whose indices run freely and are reduced when the ring is accessed.     *)
(***************************************************************************)
EXTENDS Integers, TLAPS

\* Division with remainder.
LEMMA ModDivides ==
  ASSUME NEW a \in Nat, NEW n \in Nat \ {0}
  PROVE  a % n \in 0..n - 1 /\ a \div n \in Nat /\ a = n * (a \div n) + (a % n)
  OBVIOUS

\* The remainder is determined by the quotient.
LEMMA ModUnique ==
  ASSUME NEW n \in Nat \ {0}, NEW q \in Nat, NEW r \in 0..n - 1
  PROVE  (n * q + r) % n = r
  OBVIOUS

\* A multiple of the divisor does not change the remainder.
LEMMA ModPeriod ==
  ASSUME NEW a \in Nat, NEW n \in Nat \ {0}, NEW m \in Nat, m % n = 0
  PROVE  (a + m) % n = a % n
  <1> DEFINE q == a \div n
             r == a % n
             k == m \div n
  <1>1. q \in Nat /\ k \in Nat /\ r \in 0..n - 1 /\ a = n * q + r /\ m = n * k
    BY ModDivides
  <1> HIDE DEF q, r, k
  <1>2. q + k \in Nat /\ a + m = n * (q + k) + r
    BY <1>1
  <1>3. (n * (q + k) + r) % n = r
    BY <1>1, <1>2, ModUnique
  <1> QED
    BY <1>2, <1>3 DEF r

\* A number that has passed the divisor once.
LEMMA ModOnce ==
  ASSUME NEW n \in Nat \ {0}, NEW a \in 0..n - 1
  PROVE  (a + n) % n = a
  <1>1. n * 1 + a = a + n
    OBVIOUS
  <1>2. (n * 1 + a) % n = a
    BY ModUnique
  <1> QED
    BY <1>1, <1>2

\* Numbers closer than the divisor have different remainders: no two of the bytes in
\* a ring share a place.
LEMMA ModDistinct ==
  ASSUME NEW a \in Nat, NEW n \in Nat \ {0}, NEW d \in 1..n - 1
  PROVE  (a + d) % n # a % n
  <1> DEFINE q == a \div n
             r == a % n
             k == (a + d) \div n
  <1> SUFFICES ASSUME (a + d) % n = r PROVE FALSE
    OBVIOUS
  <1>0. a + d \in Nat
    OBVIOUS
  <1>1. q \in Nat /\ r \in 0..n - 1 /\ a = n * q + r
    BY ModDivides
  <1>5. k \in Nat /\ a + d = n * k + ((a + d) % n)
    BY <1>0, ModDivides
  <1> HIDE DEF q, r, k
  <1>2. d = n * (k - q)
    BY <1>1, <1>5
  <1>3. k - q >= 1 \/ k - q <= 0
    BY <1>1, <1>5
  <1>4. n * (k - q) >= n \/ n * (k - q) <= 0
    BY <1>1, <1>5, <1>3
  <1> QED
    BY <1>2, <1>4
=============================================================================
