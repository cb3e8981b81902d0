------------------------------- MODULE Numbers -------------------------------
(***************************************************************************)
(* What the proofs need of numbers: remainders, for counters that run over *)
(* and for the octets of integers, and induction.  An induction theorem    *)
(* that takes a predicate is of no use to the provers, but one about a set *)
(* is; the same goes for recursive definitions.                            *)
(***************************************************************************)
EXTENDS Integers, TLAPS, WellFoundedInduction

(***************************************************************************)
(* Induction and recursion.                                                *)
(***************************************************************************)
\* A set of natural numbers that is not empty has a least element.
LEMMA LeastNumber ==
  ASSUME NEW T, T \subseteq Nat, T # {}
  PROVE  \E x \in T : \A y \in T : x <= y
<1>1. PICK x \in T : \A y \in T : ~ (<<y, x>> \in OpToRel(<, Nat))
  BY NatLessThanWellFounded, WFMin, Zenon
<1>2. \A y \in T : ~ (y < x)
  <2> SUFFICES ASSUME NEW y \in T, y < x PROVE FALSE
    OBVIOUS
  <2>1. <<y, x>> \in Nat \X Nat /\ <<y, x>>[1] = y /\ <<y, x>>[2] = x
    OBVIOUS
  <2>2. <<y, x>> \in OpToRel(<, Nat)
    BY <2>1, Zenon DEF OpToRel
  <2>3. QED
    BY <1>1, <2>2, Zenon
<1>3. QED
  BY <1>2

\* Induction: a set with 0 and the successor of each of its numbers has all of them.
LEMMA SetInduction ==
  ASSUME NEW S, 0 \in S, \A n \in Nat : n \in S => n + 1 \in S
  PROVE  Nat \subseteq S
<1> DEFINE T == Nat \ S
<1>1. SUFFICES ASSUME T # {} PROVE FALSE
  OBVIOUS
<1>2. PICK x \in T : \A y \in T : x <= y
  BY <1>1, LeastNumber
<1>3. x \in Nat /\ x \notin S /\ x # 0
  OBVIOUS
<1>4. x - 1 \in Nat /\ x - 1 \notin T
  BY <1>2, <1>3
<1>5. QED
  BY <1>3, <1>4

\* f repeats a step in the set V from v0 on.
Iterates(f, V, v0, step) ==
  f \in [Nat -> V] /\ f[0] = v0 /\ \A n \in Nat : f[n + 1] = step[n][f[n]]

\* Primitive recursion: a step can be repeated as often as one likes.
LEMMA Iteration ==
  ASSUME NEW V, NEW v0, v0 \in V, NEW step, step \in [Nat -> [V -> V]]
  PROVE  \E f : Iterates(f, V, v0, step)
<1> DEFINE Upto(g, n) == /\ g \in [0..n -> V] /\ g[0] = v0
                         /\ \A i \in 0..(n - 1) : g[i + 1] = step[i][g[i]]
           S == {n \in Nat : \E g : Upto(g, n)}
           F(n) == CHOOSE g : Upto(g, n)
           A == {n \in Nat : \A m \in Nat : m >= n => F(m)[n] = F(n)[n]}
           f == [n \in Nat |-> F(n)[n]]
<1>1. 0 \in S
  <2>1. Upto([i \in 0..0 |-> v0], 0)
    OBVIOUS
  <2>2. QED
    BY <2>1
<1>2. \A n \in Nat : n \in S => n + 1 \in S
  <2> HIDE DEF Upto
  <2> SUFFICES ASSUME NEW n \in Nat, NEW g, Upto(g, n) PROVE n + 1 \in Nat /\ \E h : Upto(h, n + 1)
    BY Zenon
  <2> USE DEF Upto
  <2> DEFINE h == [i \in 0..(n + 1) |-> IF i <= n THEN g[i] ELSE step[n][g[n]]]
  <2>1. g[n] \in V
    OBVIOUS
  <2>2. step[n][g[n]] \in V
    <3>1. step[n] \in [V -> V]
      OBVIOUS
    <3>2. QED
      BY <2>1, <3>1
  <2>3. h \in [0..(n + 1) -> V] /\ h[0] = v0
    BY <2>2
  <2>4. \A i \in 0..n : h[i + 1] = step[i][h[i]]
    OBVIOUS
  <2>5. Upto(h, n + 1)
    <3>1. (n + 1) - 1 = n
      OBVIOUS
    <3>2. QED
      BY <2>3, <2>4, <3>1, Zenon
  <2> HIDE DEF Upto, h
  <2>6. QED
    BY <2>5
<1> HIDE DEF S
<1>3. Nat \subseteq S
  BY <1>1, <1>2, SetInduction
<1>4. \A n \in Nat : Upto(F(n), n)
  BY <1>3 DEF S
<1> HIDE DEF F
<1>5. 0 \in A
  BY <1>4
<1>6. \A n \in Nat : n \in A => n + 1 \in A
  <2> SUFFICES ASSUME NEW n \in Nat, n \in A, NEW m \in Nat, m >= n + 1
               PROVE  F(m)[n + 1] = F(n + 1)[n + 1]
    OBVIOUS
  <2>1. F(m)[n] = F(n)[n] /\ F(n + 1)[n] = F(n)[n]
    OBVIOUS
  <2>2. F(m)[n + 1] = step[n][F(m)[n]] /\ F(n + 1)[n + 1] = step[n][F(n + 1)[n]]
    BY <1>4
  <2>3. QED
    BY <2>1, <2>2
<1> HIDE DEF A
<1>7. Nat \subseteq A
  BY <1>5, <1>6, SetInduction
<1>8. f \in [Nat -> V] /\ f[0] = v0
  BY <1>4
<1>9. \A n \in Nat : f[n + 1] = step[n][f[n]]
  <2> SUFFICES ASSUME NEW n \in Nat PROVE F(n + 1)[n + 1] = step[n][F(n)[n]]
    OBVIOUS
  <2>1. F(n + 1)[n] = F(n)[n]
    BY <1>7 DEF A
  <2>2. F(n + 1)[n + 1] = step[n][F(n + 1)[n]]
    BY <1>4
  <2>3. QED
    BY <2>1, <2>2
<1> HIDE DEF f
<1>10. Iterates(f, V, v0, step)
  BY <1>8, <1>9 DEF Iterates
<1>11. QED
  BY <1>10

(***************************************************************************)
(* Quotients and remainders.                                               *)
(***************************************************************************)
\* Quotient and remainder, for the operators of Integers.
LEMMA IntDivision ==
  ASSUME NEW M \in Int, M > 0, NEW n \in Int
  PROVE  n = M * (n \div M) + (n % M)
  BY Z3

\* The same with the ranges of both.
LEMMA Division ==
  ASSUME NEW M \in Nat \ {0}, NEW n \in Int
  PROVE  /\ n % M \in 0..(M - 1)
         /\ n \div M \in Int
         /\ n = M * (n \div M) + (n % M)
<1>1. n % M \in 0..(M - 1) /\ n \div M \in Int
  BY SMT
<1>2. n = M * (n \div M) + (n % M)
  BY IntDivision
<1>3. QED
  BY <1>1, <1>2

\* A product that is less than a factor is less than one.
LEMMA MultipleGap ==
  ASSUME NEW M \in Nat \ {0}, NEW p \in Int, NEW q \in Int, p < q
  PROVE  M * p + M <= M * q /\ M * p \in Int /\ M * q \in Int
<1>1. M * (q - p) >= M
  BY SMT
<1>2. M * (q - p) = M * q - M * p
  BY SMT
<1>3. QED
  BY <1>1, <1>2

\* Quotient and remainder are unique.
LEMMA DivisionUnique ==
  ASSUME NEW M \in Nat \ {0}, NEW q \in Int, NEW r \in 0..(M - 1), NEW n \in Int, n = M * q + r
  PROVE  n \div M = q /\ n % M = r
<1> DEFINE p == n \div M
           s == n % M
<1>1. s \in 0..(M - 1) /\ p \in Int /\ n = M * p + s
  BY Division
<1> HIDE DEF p, s
<1>2. ~ p < q
  <2>1. SUFFICES ASSUME p < q PROVE FALSE
    OBVIOUS
  <2>2. M * p + M <= M * q /\ M * p \in Int /\ M * q \in Int
    BY <1>1, <2>1, MultipleGap
  <2>3. QED
    BY <1>1, <2>2
<1>3. ~ q < p
  <2>1. SUFFICES ASSUME q < p PROVE FALSE
    OBVIOUS
  <2>2. M * q + M <= M * p /\ M * p \in Int /\ M * q \in Int
    BY <1>1, <2>1, MultipleGap
  <2>3. QED
    BY <1>1, <2>2
<1>4. q = p
  BY <1>1, <1>2, <1>3
<1>5. s = r
  BY <1>1, <1>4
<1>6. QED
  BY <1>4, <1>5 DEF p, s

\* The part of it the counters use.
LEMMA RemainderUnique ==
  ASSUME NEW M \in Nat \ {0}, NEW q \in Int, NEW r \in 0..(M - 1), NEW n \in Nat, n = M * q + r
  PROVE  n % M = r
  BY DivisionUnique

\* A number below the modulus, and a negative one not too far below 0.
LEMMA RemainderInRange ==
  ASSUME NEW M \in Nat \ {0}, NEW n \in Int
  PROVE  /\ n \in 0..(M - 1) => n % M = n /\ n \div M = 0
         /\ n \in (-M)..(-1) => n % M = n + M
<1>1. ASSUME n \in 0..(M - 1) PROVE n % M = n /\ n \div M = 0
  <2>1. n = (M * 0) + n
    OBVIOUS
  <2>2. QED
    BY <1>1, <2>1, DivisionUnique
<1>2. ASSUME n \in (-M)..(-1) PROVE n % M = n + M
  <2>1. n = (M * (-1)) + (n + M) /\ n + M \in 0..(M - 1) /\ -1 \in Int
    BY <1>2
  <2>2. QED
    BY <2>1, DivisionUnique
<1>3. QED
  BY <1>1, <1>2

\* Dividing twice is dividing by the product.
LEMMA DivDiv ==
  ASSUME NEW M \in Nat \ {0}, NEW K \in Nat \ {0}, NEW n \in Int
  PROVE  /\ M * K \in Nat \ {0}
         /\ n \div (K * M) = (n \div M) \div K
         /\ n \div M = (K * (n \div (K * M))) + ((n \div M) % K)
<1> DEFINE q == n \div M
           r == n % M
           p == q \div K
           s == q % K
<1>1. q \in Int /\ r \in 0..(M - 1) /\ n = M * q + r
  BY Division
<1> HIDE DEF q, r
<1>2. p \in Int /\ s \in 0..(K - 1) /\ q = K * p + s
  BY <1>1, Division
<1> HIDE DEF p, s
<1>3. K * M \in Nat \ {0} /\ M * K = K * M
  BY SMT
<1>4. M * s + r \in 0..(K * M - 1)
  <2>1. M * s + M <= M * K /\ M * s \in Int
    BY <1>2, MultipleGap
  <2>2. M * s >= 0
    BY <1>2
  <2>3. QED
    BY <1>1, <1>3, <2>1, <2>2
<1>5. n = (K * M) * p + (M * s + r)
  <2> DEFINE a == M * s
             b == (K * M) * p
             c == M * q
  <2>1. M * (K * p + s) = b + a
    BY <1>2
  <2>2. c = b + a /\ a \in Int /\ b \in Int
    BY <1>2, <2>1
  <2>3. n = c + r
    BY <1>1
  <2> HIDE DEF a, b, c
  <2>4. n = b + (a + r)
    BY <1>1, <2>2, <2>3
  <2>5. QED
    BY <2>4 DEF a, b
<1>6. n \div (K * M) = p
  BY <1>2, <1>3, <1>4, <1>5, DivisionUnique
<1>7. QED
  BY <1>2, <1>3, <1>6 DEF q, p, s

\* Incrementing modulo M is incrementing and then taking the remainder.
LEMMA ModSuccessor ==
  ASSUME NEW M \in Nat \ {0}, NEW n \in Nat
  PROVE  ((n % M) + 1) % M = (n + 1) % M
<1> DEFINE q == n \div M
           r == n % M
<1>1. r \in 0..(M - 1) /\ q \in Int /\ n = M * q + r
  BY Division
<1> HIDE DEF q, r
<1>2. CASE r + 1 < M
  <2>1. (n + 1) % M = r + 1
    BY <1>1, <1>2, RemainderUnique
  <2>2. (r + 1) % M = r + 1
    BY <1>1, <1>2
  <2>3. QED
    BY <2>1, <2>2 DEF r
<1>3. CASE r + 1 = M
  <2>1. n + 1 = M * (q + 1) + 0
    BY <1>1, <1>3
  <2>2. (n + 1) % M = 0
    BY <1>1, <2>1, RemainderUnique
  <2>3. (r + 1) % M = 0
    BY <1>1, <1>3
  <2>4. QED
    BY <2>2, <2>3 DEF r
<1>4. QED
  BY <1>1, <1>2, <1>3

\* Equal remainders are a multiple of the modulus apart.
LEMMA ModGap ==
  ASSUME NEW M \in Nat \ {0}, NEW a \in Nat, NEW b \in Nat, a % M = b % M, a # b
  PROVE  a - b >= M \/ b - a >= M
<1> DEFINE p == a \div M
           q == b \div M
           r == a % M
<1>1. /\ r \in 0..(M - 1) /\ p \in Int /\ q \in Int
      /\ a = M * p + r /\ b = M * q + r
  BY Division
<1> HIDE DEF p, q, r
<1>2. CASE p < q
  BY <1>1, <1>2, MultipleGap
<1>3. CASE q < p
  BY <1>1, <1>3, MultipleGap
<1>4. p # q
  BY <1>1
<1>5. QED
  BY <1>1, <1>2, <1>3, <1>4
=============================================================================
