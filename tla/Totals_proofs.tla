---------------------------- MODULE Totals_proofs ----------------------------
(***************************************************************************)
(* What Total computes, for every number of amounts.  The provers cannot   *)
(* instantiate the induction theorems of the library, whose parameter is   *)
(* an operator; every induction here is instead an argument about the      *)
(* least counterexample (LeastElement), which is a fact about sets.        *)
(***************************************************************************)
EXTENDS Totals, WellFoundedInduction, TLAPS

(* A non-empty set of naturals has a least element. *)
LEMMA LeastElement ==
  ASSUME NEW T \in SUBSET Nat, T # {}
  PROVE  \E m \in T : \A k \in T : m <= k
<1> DEFINE R == {ss \in Nat \X Nat : ss[1] < ss[2]}
<1>1. IsWellFoundedOn(R, Nat)
  <2>1. OpToRel(<, Nat) = R
    BY DEF OpToRel
  <2> QED
    BY <2>1, NatLessThanWellFounded
<1> HIDE DEF R
<1>2. PICK m \in T : \A k \in T : ~ (<<k, m>> \in R)
  BY <1>1, WFMin
<1>3. \A k \in Nat, n \in Nat : k < n => <<k, n>> \in R
  BY DEF R
<1>4. ASSUME NEW k \in T
      PROVE  m <= k
  <2>1. ~(k < m)
    BY <1>2, <1>3
  <2> QED
    BY <2>1
<1> QED
  BY <1>4

(* Induction up to n, over a set: a set that holds 0 and is closed under   *)
(* successor below n holds everything up to n.                             *)
LEMMA InductionUpTo ==
  ASSUME NEW n \in Nat, NEW G,
         0 \in G,
         \A i \in 1..n : i - 1 \in G => i \in G
  PROVE  \A i \in 0..n : i \in G
<1> DEFINE T == {i \in 0..n : i \notin G}
<1> SUFFICES ASSUME T # {}
             PROVE  FALSE
  OBVIOUS
<1>1. T \in SUBSET Nat
  OBVIOUS
<1>2. PICK m \in T : \A k \in T : m <= k
  <2> HIDE DEF T
  <2> QED
    BY <1>1, LeastElement
<1>3. m # 0 /\ m \in 1..n /\ m - 1 \in 0..n
  OBVIOUS
<1>4. m - 1 \notin T
  BY <1>2, <1>3
<1>5. m - 1 \in G
  BY <1>3, <1>4
<1> QED
  BY <1>3, <1>5

-----------------------------------------------------------------------------
\* f holds the running totals of q.
IsPrefixSum(f, q, n) ==
  /\ f \in [0..n -> Nat]
  /\ f[0] = 0
  /\ \A i \in 1..n : f[i] = f[i-1] + q[i]

(* Running totals exist, which is what makes the recursive definition of   *)
(* PrefixSum meaningful.                                                   *)
LEMMA PrefixSumExists ==
  ASSUME NEW n \in Nat, NEW q \in [1..n -> Nat]
  PROVE  \E f : IsPrefixSum(f, q, n)
<1> DEFINE G == {i \in 0..n : \E f : IsPrefixSum(f, q, i)}
<1>1. 0 \in G
  <2>1. IsPrefixSum([i \in 0..0 |-> 0], q, 0)
    BY DEF IsPrefixSum
  <2> QED
    BY <2>1
<1>2. ASSUME NEW i \in 1..n, i - 1 \in G
      PROVE  i \in G
  <2>1. PICK f : IsPrefixSum(f, q, i-1)
    BY <1>2
  <2> DEFINE g == [j \in 0..i |-> IF j = i THEN f[i-1] + q[i] ELSE f[j]]
  <2>2. f[i-1] \in Nat /\ q[i] \in Nat
    BY <2>1 DEF IsPrefixSum
  <2>3. g \in [0..i -> Nat]
    BY <2>1, <2>2 DEF IsPrefixSum
  <2>4. g[0] = 0
    BY <2>1 DEF IsPrefixSum
  <2>5. ASSUME NEW j \in 1..i
        PROVE  g[j] = g[j-1] + q[j]
    <3>1. j - 1 \in 0..i /\ j - 1 # i /\ g[j-1] = f[j-1]
      OBVIOUS
    <3>2. CASE j = i
      BY <3>1, <3>2
    <3>3. CASE j # i
      <4>1. j \in 1..(i-1) /\ g[j] = f[j]
        BY <3>3
      <4> QED
        BY <2>1, <3>1, <4>1 DEF IsPrefixSum
    <3> QED
      BY <3>2, <3>3
  <2>6. IsPrefixSum(g, q, i)
    BY <2>3, <2>4, <2>5 DEF IsPrefixSum
  <2> QED
    BY <2>6
<1> HIDE DEF G
<1>3. \A i \in 0..n : i \in G
  BY <1>1, <1>2, InductionUpTo
<1> QED
  BY <1>3 DEF G

(* PrefixSum is the running total of its argument.                         *)
LEMMA PrefixSumIs ==
  ASSUME NEW n \in Nat, NEW q \in [1..n -> Nat]
  PROVE  IsPrefixSum(PrefixSum(q, n), q, n)
<1> DEFINE Eq(f) == f = [i \in 0..n |-> IF i = 0 THEN 0 ELSE f[i-1] + q[i]]
           p == CHOOSE f : Eq(f)
<1>1. PICK f : IsPrefixSum(f, q, n)
  BY PrefixSumExists
<1>2. Eq(f)
  <2>1. f \in [0..n -> Nat]
    BY <1>1 DEF IsPrefixSum
  <2>2. \A i \in 0..n : f[i] = IF i = 0 THEN 0 ELSE f[i-1] + q[i]
    BY <1>1 DEF IsPrefixSum
  <2> QED
    BY <2>1, <2>2
<1>3. Eq(p)
  BY <1>2
<1>4. PrefixSum(q, n) = p
  BY DEF PrefixSum
<1> HIDE DEF p
<1>5. p[0] = 0
  BY <1>3
<1>6. \A i \in 1..n : p[i] = p[i-1] + q[i]
  BY <1>3
<1>7. \A i \in 0..n : p[i] \in Nat
  <2> DEFINE G == {i \in 0..n : p[i] \in Nat}
  <2>1. 0 \in G
    BY <1>5
  <2>2. \A i \in 1..n : i - 1 \in G => i \in G
    BY <1>6
  <2> HIDE DEF G
  <2>3. \A i \in 0..n : i \in G
    BY <2>1, <2>2, InductionUpTo
  <2> QED
    BY <2>3 DEF G
<1>8. p \in [0..n -> Nat]
  <2>1. p = [i \in 0..n |-> IF i = 0 THEN 0 ELSE p[i-1] + q[i]]
    BY <1>3
  <2>2. DOMAIN p = 0..n
    BY <2>1
  <2>3. p = [i \in 0..n |-> p[i]]
    BY <2>1
  <2> QED
    BY <1>7, <2>3
<1> QED
  BY <1>4, <1>5, <1>6, <1>8 DEF IsPrefixSum

-----------------------------------------------------------------------------
(* A total of amounts is an amount. *)
LEMMA TotalType ==
  ASSUME NEW n \in Nat, NEW q \in [1..n -> Nat]
  PROVE  Total(q, n) \in Nat
BY PrefixSumIs DEF Total, IsPrefixSum

(* If every amount is the sum of two parts, the totals of the parts add up *)
(* to the total: split_quoted_escrow loses and invents nothing.            *)
LEMMA TotalSplit ==
  ASSUME NEW n \in Nat,
         NEW q \in [1..n -> Nat], NEW a \in [1..n -> Nat], NEW b \in [1..n -> Nat],
         \A i \in 1..n : q[i] = a[i] + b[i]
  PROVE  Total(q, n) = Total(a, n) + Total(b, n)
<1> DEFINE Q == PrefixSum(q, n)
           A == PrefixSum(a, n)
           B == PrefixSum(b, n)
           G == {i \in 0..n : Q[i] = A[i] + B[i]}
<1>1. IsPrefixSum(Q, q, n) /\ IsPrefixSum(A, a, n) /\ IsPrefixSum(B, b, n)
  BY PrefixSumIs
<1> HIDE DEF Q, A, B
<1>2. 0 \in G
  BY <1>1 DEF IsPrefixSum
<1>3. ASSUME NEW i \in 1..n, i - 1 \in G
      PROVE  i \in G
  <2>1. /\ Q[i] = Q[i-1] + q[i]
        /\ A[i] = A[i-1] + a[i]
        /\ B[i] = B[i-1] + b[i]
    BY <1>1 DEF IsPrefixSum
  <2>2. A[i-1] \in Nat /\ B[i-1] \in Nat /\ Q[i-1] = A[i-1] + B[i-1]
    BY <1>1, <1>3 DEF IsPrefixSum
  <2>3. q[i] = a[i] + b[i] /\ a[i] \in Nat /\ b[i] \in Nat
    OBVIOUS
  <2>4. (A[i-1] + B[i-1]) + (a[i] + b[i]) = (A[i-1] + a[i]) + (B[i-1] + b[i])
    <3> DEFINE x == A[i-1]
               y == B[i-1]
               u == a[i]
               v == b[i]
    <3>1. x \in Nat /\ y \in Nat /\ u \in Nat /\ v \in Nat
      BY <2>2, <2>3
    <3> HIDE DEF x, y, u, v
    <3>2. (x + y) + (u + v) = (x + u) + (y + v)
      BY ONLY <3>1
    <3> QED
      BY <3>2 DEF x, y, u, v
  <2>5. Q[i] = A[i] + B[i]
    BY ONLY <2>1, <2>2, <2>3, <2>4, Zenon
  <2> QED
    BY ONLY <2>5, i \in 1..n, n \in Nat DEF G
<1> HIDE DEF G
<1>4. n \in G
  <2>1. \A i \in 0..n : i \in G
    BY <1>2, <1>3, InductionUpTo
  <2> QED
    BY <2>1
<1> QED
  BY <1>4 DEF G, Q, A, B, Total

(* Changing one amount changes the total by the difference. *)
LEMMA TotalUpdate ==
  ASSUME NEW n \in Nat, NEW q \in [1..n -> Nat], NEW j \in 1..n, NEW v \in Nat
  PROVE  Total([q EXCEPT ![j] = v], n) + q[j] = Total(q, n) + v
<1> DEFINE r == [q EXCEPT ![j] = v]
           Q == PrefixSum(q, n)
           R == PrefixSum(r, n)
           G == {i \in 0..n : IF i < j THEN R[i] = Q[i] ELSE R[i] + q[j] = Q[i] + v}
<1>0. r \in [1..n -> Nat]
  OBVIOUS
<1>r. \A i \in 1..n : r[i] = IF i = j THEN v ELSE q[i]
  OBVIOUS
<1> HIDE DEF r
<1>1. IsPrefixSum(Q, q, n) /\ IsPrefixSum(R, r, n)
  BY <1>0, PrefixSumIs
<1> HIDE DEF Q, R
<1>2. 0 \in G
  BY <1>1 DEF IsPrefixSum
<1>3. ASSUME NEW i \in 1..n, i - 1 \in G
      PROVE  i \in G
  <2>1. Q[i] = Q[i-1] + q[i] /\ R[i] = R[i-1] + r[i]
    BY <1>1 DEF IsPrefixSum
  <2>2. /\ Q[i-1] \in Nat /\ R[i-1] \in Nat /\ Q[i] \in Nat /\ R[i] \in Nat
        /\ q[i] \in Nat /\ q[j] \in Nat /\ r[i] \in Nat
    BY <1>0, <1>1 DEF IsPrefixSum
  <2>3. CASE i < j
    BY <1>3, <1>r, <2>1, <2>2, <2>3
  <2>4. CASE i = j
    <3>1. R[i-1] = Q[i-1] /\ r[i] = v /\ q[i] = q[j]
      BY <1>3, <1>r, <2>4
    <3>2. R[i] + q[j] = Q[i] + v
      BY <2>1, <2>2, <3>1
    <3> QED
      BY <2>4, <3>2
  <2>5. CASE i > j
    <3>1. R[i-1] + q[j] = Q[i-1] + v /\ r[i] = q[i]
      BY <1>3, <1>r, <2>5
    <3> DEFINE x == R[i-1]
               y == Q[i-1]
               c == q[i]
               d == q[j]
    <3>2. x \in Nat /\ y \in Nat /\ c \in Nat /\ d \in Nat /\ x + d = y + v
      BY <2>2, <3>1
    <3>3. R[i] = x + c /\ Q[i] = y + c
      BY <2>1, <3>1
    <3> HIDE DEF x, y, c, d
    <3>4. (x + c) + d = (y + c) + v
      BY <3>2
    <3>5. R[i] + d = Q[i] + v
      BY <3>3, <3>4
    <3> QED
      BY <2>5, <3>5 DEF d
  <2> QED
    BY <2>3, <2>4, <2>5
<1> HIDE DEF G
<1>4. n \in G
  <2>1. \A i \in 0..n : i \in G
    BY <1>2, <1>3, InductionUpTo
  <2> QED
    BY <2>1
<1>5. R[n] + q[j] = Q[n] + v
  BY <1>4 DEF G
<1> QED
  BY <1>5 DEF Q, R, r, Total

(* A total of zeros is zero. *)
LEMMA TotalZero ==
  ASSUME NEW n \in Nat, NEW q \in [1..n -> Nat], \A i \in 1..n : q[i] = 0
  PROVE  Total(q, n) = 0
<1>1. Total(q, n) = Total(q, n) + Total(q, n)
  BY TotalSplit
<1> QED
  BY <1>1, TotalType

(* A total is at least each of its amounts. *)
LEMMA TotalAtLeast ==
  ASSUME NEW n \in Nat, NEW q \in [1..n -> Nat], NEW j \in 1..n
  PROVE  q[j] <= Total(q, n)
<1> DEFINE r == [q EXCEPT ![j] = 0]
<1>1. r \in [1..n -> Nat]
  OBVIOUS
<1>2. Total(r, n) + q[j] = Total(q, n) + 0
  BY TotalUpdate
<1>3. Total(r, n) \in Nat /\ Total(q, n) \in Nat /\ q[j] \in Nat
  BY <1>1, TotalType
<1> HIDE DEF r
<1> QED
  BY <1>2, <1>3

(* Days, hours and epochs: a quotient does not go down with its dividend.  *)
LEMMA QuotientMonotone ==
  ASSUME NEW a \in Nat, NEW b \in Nat, NEW k \in Nat \ {0}, a <= b
  PROVE  a \div k \in Nat /\ b \div k \in Nat /\ a \div k <= b \div k
<1> DEFINE p == a \div k  q == b \div k
<1>1. p \in Nat /\ q \in Nat
  OBVIOUS
<1>2. a = k * p + (a % k) /\ 0 <= a % k /\ a % k < k
  OBVIOUS
<1>3. b = k * q + (b % k) /\ 0 <= b % k /\ b % k < k
  OBVIOUS
<1>4. SUFFICES ASSUME p >= q + 1 PROVE FALSE
  BY <1>1
<1>5. k * p >= k * (q + 1)
  BY <1>1, <1>4
<1>6. k * (q + 1) = k * q + k
  BY <1>1
<1>7. QED
  BY <1>1, <1>2, <1>3, <1>5, <1>6
=============================================================================
