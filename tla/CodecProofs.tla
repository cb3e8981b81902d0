----------------------------- MODULE CodecProofs -----------------------------
(***************************************************************************)
(* Proofs about Codec and Relay.                                           *)
(***************************************************************************)
EXTENDS Relay, Numbers, SequenceTheorems

(***************************************************************************)
(* The recursive functions exist.                                          *)
(***************************************************************************)
LEMMA BaseFacts ==
  /\ B \in Nat \ {0} /\ B >= 4
  /\ TopBit \in Nat /\ SecondBit \in Nat \ {0}
  /\ TopBit = 2 * SecondBit /\ B = 4 * SecondBit /\ B = 2 * TopBit
<1>1. B \in Nat /\ B >= 4 /\ B % 4 = 0
  BY CodecAssumption
<1>2. QED
  BY <1>1 DEF TopBit, SecondBit

\* The powers of B are positive.
LEMMA PowFacts ==
  /\ Pow[0] = 1
  /\ \A n \in Nat : Pow[n] \in Nat \ {0} /\ Pow[n + 1] = B * Pow[n]
<1> DEFINE step == [n \in Nat |-> [v \in Nat |-> B * v]]
<1>1. B \in Nat \ {0}
  BY BaseFacts
<1>2. step \in [Nat -> [Nat -> Nat]]
  BY <1>1
<1>3. \A n \in Nat, v \in Nat : step[n][v] = B * v
  OBVIOUS
<1> HIDE DEF step
<1>a. 1 \in Nat
  OBVIOUS
<1>b. PICK f : Iterates(f, Nat, 1, step)
  BY <1>a, <1>2, Iteration, Zenon
<1>4. f \in [Nat -> Nat] /\ f[0] = 1 /\ \A n \in Nat : f[n + 1] = step[n][f[n]]
  BY <1>b DEF Iterates
<1>5. f = [n \in Nat |-> IF n = 0 THEN 1 ELSE B * f[n - 1]]
  <2> SUFFICES ASSUME NEW n \in Nat PROVE f[n] = IF n = 0 THEN 1 ELSE B * f[n - 1]
    BY <1>4
  <2>1. CASE n = 0
    BY <1>4, <2>1
  <2>2. CASE n # 0
    <3>1. n - 1 \in Nat /\ (n - 1) + 1 = n
      BY <2>2
    <3>2. f[n] = step[n - 1][f[n - 1]] /\ f[n - 1] \in Nat
      BY <1>4, <3>1
    <3>3. QED
      BY <1>3, <2>2, <3>1, <3>2
  <2>3. QED
    BY <2>1, <2>2
<1>6. Pow = [n \in Nat |-> IF n = 0 THEN 1 ELSE B * Pow[n - 1]]
  BY <1>5, Zenon DEF Pow
<1> DEFINE S == {n \in Nat : Pow[n] \in Nat \ {0}}
<1>7. Pow[0] = 1
  BY <1>6
<1>8. \A n \in Nat : Pow[n + 1] = B * Pow[n]
  BY <1>6
<1>9. Nat \subseteq S
  <2>1. 0 \in S
    BY <1>7
  <2>2. \A n \in Nat : n \in S => n + 1 \in S
    BY <1>1, <1>8
  <2> HIDE DEF S
  <2>3. QED
    BY <2>1, <2>2, SetInduction
<1>10. QED
  BY <1>7, <1>8, <1>9

\* The values of the first octets of s, one after the other.
PrefixValues(s, f) ==
  /\ f \in [0..Len(s) -> Int] /\ f[0] = 0
  /\ \A i \in 1..Len(s) : f[i] = (f[i - 1] * B) + s[i]

\* The octets from the left, each prefix a number.
LEMMA UnsignedFacts ==
  ASSUME NEW s \in Seq(Int)
  PROVE  \E f : PrefixValues(s, f) /\ Unsigned(s) = f[Len(s)]
<1> DEFINE n == Len(s)
           step == [i \in Nat |-> [v \in Int |-> (v * B) + (IF i + 1 \in 1..n THEN s[i + 1] ELSE 0)]]
<1>1. B \in Nat \ {0} /\ n \in Nat /\ \A i \in 1..n : s[i] \in Int
  BY BaseFacts
<1>2. step \in [Nat -> [Int -> Int]]
  <2> SUFFICES ASSUME NEW i \in Nat, NEW v \in Int
               PROVE  (v * B) + (IF i + 1 \in 1..n THEN s[i + 1] ELSE 0) \in Int
    OBVIOUS
  <2>1. v * B \in Int
    BY <1>1
  <2>2. (IF i + 1 \in 1..n THEN s[i + 1] ELSE 0) \in Int
    BY <1>1
  <2>3. QED
    BY <2>1, <2>2
<1>3. ASSUME NEW i \in 1..n, NEW v \in Int PROVE step[i - 1][v] = (v * B) + s[i]
  <2>1. i - 1 \in Nat /\ (i - 1) + 1 = i
    BY <1>1
  <2>2. QED
    BY <2>1
<1> HIDE DEF step
<1>a. 0 \in Int
  OBVIOUS
<1>b. PICK f : Iterates(f, Int, 0, step)
  BY <1>a, <1>2, Iteration, Zenon
<1>4. f \in [Nat -> Int] /\ f[0] = 0 /\ \A i \in Nat : f[i + 1] = step[i][f[i]]
  BY <1>b DEF Iterates
<1> DEFINE g == [i \in 0..n |-> f[i]]
<1>5. \A i \in 1..n : f[i] = (f[i - 1] * B) + s[i]
  <2> SUFFICES ASSUME NEW i \in 1..n PROVE f[i] = (f[i - 1] * B) + s[i]
    OBVIOUS
  <2>1. i - 1 \in Nat /\ (i - 1) + 1 = i /\ f[i - 1] \in Int
    BY <1>1, <1>4
  <2>2. f[i] = step[i - 1][f[i - 1]]
    BY <1>4, <2>1
  <2>3. QED
    BY <1>3, <2>1, <2>2
<1>6. g = [i \in 0..n |-> IF i = 0 THEN 0 ELSE (g[i - 1] * B) + s[i]]
  <2> SUFFICES ASSUME NEW i \in 0..n PROVE g[i] = IF i = 0 THEN 0 ELSE (g[i - 1] * B) + s[i]
    OBVIOUS
  <2>1. CASE i = 0
    BY <1>4, <2>1
  <2>2. CASE i # 0
    <3>1. i \in 1..n /\ i - 1 \in 0..n
      BY <1>1, <2>2
    <3>2. g[i] = f[i] /\ g[i - 1] = f[i - 1]
      BY <3>1
    <3>3. QED
      BY <1>5, <2>2, <3>1, <3>2
  <2>3. QED
    BY <2>1, <2>2
<1> DEFINE upto == CHOOSE h : h = [i \in 0..n |-> IF i = 0 THEN 0 ELSE (h[i - 1] * B) + s[i]]
           S == {i \in Nat : i <= n => upto[i] \in Int}
<1> HIDE DEF g
<1>7. upto = [i \in 0..n |-> IF i = 0 THEN 0 ELSE (upto[i - 1] * B) + s[i]]
  BY <1>6, Zenon
<1>8. Unsigned(s) = upto[n]
  BY Zenon DEF Unsigned
<1> HIDE DEF upto
<1>9. Nat \subseteq S
  <2>1. 0 \in S
    BY <1>1, <1>7
  <2>2. \A i \in Nat : i \in S => i + 1 \in S
    BY <1>1, <1>7
  <2> HIDE DEF S
  <2>3. QED
    BY <2>1, <2>2, SetInduction
<1>10. upto \in [0..n -> Int] /\ upto[0] = 0 /\ \A i \in 1..n : upto[i] = (upto[i - 1] * B) + s[i]
  <2>1. \A i \in 0..n : upto[i] \in Int
    BY <1>1, <1>9
  <2>2. upto[0] = 0 /\ DOMAIN upto = 0..n
    BY <1>1, <1>7
  <2>3. upto \in [0..n -> Int]
    BY <1>7, <2>1, <2>2
  <2>4. \A i \in 1..n : i \in 0..n /\ i # 0
    BY <1>1
  <2>5. \A i \in 1..n : upto[i] = (upto[i - 1] * B) + s[i]
    BY <1>7, <2>4, Zenon
  <2>6. QED
    BY <2>2, <2>3, <2>5
<1>11. QED
  BY <1>8, <1>10 DEF PrefixValues

-----------------------------------------------------------------------------
(***************************************************************************)
(* Integers as octets.                                                     *)
(***************************************************************************)
\* One digit more.
LEMMA Digit ==
  ASSUME NEW n \in Int, NEW k \in Nat
  PROVE  n \div Pow[k] = (B * (n \div Pow[k + 1])) + ((n \div Pow[k]) % B)
<1>1. B \in Nat \ {0} /\ Pow[k] \in Nat \ {0} /\ Pow[k + 1] = B * Pow[k]
  BY BaseFacts, PowFacts
<1>2. n \div Pow[k] = (B * (n \div (B * Pow[k]))) + ((n \div Pow[k]) % B)
  BY <1>1, DivDiv, Zenon
<1>3. QED
  BY <1>1, <1>2, Zenon

\* n in w octets is w octets.
LEMMA BigEndianFacts ==
  ASSUME NEW n \in Int, NEW w \in Nat
  PROVE  /\ BigEndian(n, w) \in Seq(Octets)
         /\ Len(BigEndian(n, w)) = w
         /\ \A i \in 1..w : BigEndian(n, w)[i] = (n \div Pow[w - i]) % B
<1>1. ASSUME NEW i \in 1..w PROVE (n \div Pow[w - i]) % B \in Octets
  <2>1. w - i \in Nat
    OBVIOUS
  <2>2. n \div Pow[w - i] \in Int /\ B \in Nat \ {0}
    BY <2>1, PowFacts, BaseFacts, Division
  <2>3. QED
    BY <2>2, Division DEF Octets
<1>2. QED
  BY <1>1 DEF BigEndian

\* Octets are integers.
LEMMA OctetSeqs ==
  /\ Octets \subseteq Int
  /\ \A s \in Seq(Octets) : s \in Seq(Int)
<1>1. Octets \subseteq Int
  BY BaseFacts DEF Octets
<1>2. QED
  BY <1>1, SeqMonotonic, Zenon

\* Reading the octets of n gives n up to a multiple of the range.
LEMMA UnsignedBigEndian ==
  ASSUME NEW n \in Int, NEW w \in Nat
  PROVE  Unsigned(BigEndian(n, w)) = n % Pow[w]
<1> DEFINE s == BigEndian(n, w)
           q == n \div Pow[w]
<1>1. s \in Seq(Int) /\ Len(s) = w /\ \A i \in 1..w : s[i] = (n \div Pow[w - i]) % B
  <2>1. s \in Seq(Octets) /\ Len(s) = w /\ \A i \in 1..w : s[i] = (n \div Pow[w - i]) % B
    BY BigEndianFacts, Zenon
  <2> HIDE DEF s
  <2>2. QED
    BY <2>1, OctetSeqs, Zenon
<1> HIDE DEF s
<1>2. PICK f : PrefixValues(s, f) /\ Unsigned(s) = f[Len(s)]
  BY <1>1, UnsignedFacts
<1>3. f[0] = 0 /\ \A i \in 1..w : f[i] = (f[i - 1] * B) + s[i]
  BY <1>1, <1>2 DEF PrefixValues
<1>4. q \in Int /\ B \in Nat \ {0} /\ Pow[w] \in Nat \ {0}
  BY PowFacts, BaseFacts, Division
<1> DEFINE S == {i \in Nat : i <= w => f[i] = (n \div Pow[w - i]) - (Pow[i] * q)}
<1>5. 0 \in S
  BY <1>3, <1>4, PowFacts
<1>6. \A i \in Nat : i \in S => i + 1 \in S
  <2> SUFFICES ASSUME NEW i \in Nat, i \in S, i + 1 <= w
               PROVE  f[i + 1] = (n \div Pow[w - (i + 1)]) - (Pow[i + 1] * q)
    OBVIOUS
  <2> DEFINE k == w - (i + 1)
             a == n \div Pow[k + 1]
             b == n \div Pow[k]
             d == b % B
             p == Pow[i] * q
  <2>1. k \in Nat /\ w - i = k + 1 /\ i + 1 \in 1..w /\ (i + 1) - 1 = i
    OBVIOUS
  <2>2. f[i] = a - p
    BY <2>1
  <2>3. f[i + 1] = (f[i] * B) + d
    BY <1>1, <1>3, <2>1
  <2>4. b = (B * a) + d
    BY <2>1, Digit
  <2>5. Pow[i + 1] * q = B * p /\ p \in Int
    <3>1. Pow[i + 1] = B * Pow[i] /\ Pow[i] \in Nat
      BY PowFacts
    <3>2. QED
      BY <1>4, <3>1
  <2>6. a \in Int /\ b \in Int /\ d \in Int
    <3>1. Pow[k] \in Nat \ {0} /\ Pow[k + 1] \in Nat \ {0}
      BY <2>1, PowFacts
    <3>2. a \in Int /\ b \in Int
      BY <3>1, Division
    <3>3. QED
      BY <1>4, <3>2, Division
  <2> HIDE DEF k, a, b, d, p
  <2>7. (a - p) * B = (B * a) - (B * p)
    BY <1>4, <2>5, <2>6
  <2>8. f[i + 1] = b - (B * p)
    BY <1>4, <2>2, <2>3, <2>4, <2>5, <2>6, <2>7
  <2>9. QED
    BY <2>5, <2>8 DEF k, b
<1> HIDE DEF S
<1>7. w \in S
  BY <1>5, <1>6, SetInduction
<1>8. f[w] = n - (Pow[w] * q)
  <2>1. w - w = 0 /\ n \div 1 = n
    OBVIOUS
  <2>2. f[w] = (n \div Pow[w - w]) - (Pow[w] * q)
    BY <1>7 DEF S
  <2>3. Pow[w - w] = 1
    BY <2>1, PowFacts
  <2>4. QED
    BY <2>1, <2>2, <2>3, Zenon
<1>9. n = (Pow[w] * q) + (n % Pow[w]) /\ n % Pow[w] \in Int
  <2>1. n = (Pow[w] * q) + (n % Pow[w]) /\ n % Pow[w] \in 0..(Pow[w] - 1)
    BY <1>4, Division, Zenon
  <2>2. QED
    BY <1>4, <2>1
<1>10. Pow[w] * q \in Int
  BY <1>4
<1> HIDE DEF q
<1>11. QED
  BY <1>1, <1>2, <1>8, <1>9, <1>10 DEF s

\* A number that its octets hold comes back.
LEMMA UnsignedRoundTrip ==
  ASSUME NEW w \in Nat, NEW n \in 0..(Pow[w] - 1)
  PROVE  Unsigned(BigEndian(n, w)) = n
<1>1. Pow[w] \in Nat \ {0} /\ n \in Int
  BY PowFacts
<1>2. QED
  BY <1>1, UnsignedBigEndian, RemainderInRange

\* So does one with a sign: the top octet tells.
LEMMA SignedRoundTrip ==
  ASSUME NEW v \in Nat, NEW n \in -(Pow[v + 1] \div 2)..((Pow[v + 1] \div 2) - 1)
  PROVE  Signed(BigEndian(n, v + 1)) = n
<1> DEFINE P == Pow[v]
           T == TopBit
           w == v + 1
           s == BigEndian(n, w)
           q == n \div P
           r == n % P
<1>1. P \in Nat \ {0} /\ T \in Nat \ {0} /\ B = 2 * T /\ Pow[w] = B * P /\ Pow[w] \in Nat \ {0}
  BY PowFacts, BaseFacts
<1>2. Pow[w] = 2 * (T * P) /\ T * P \in Nat
  BY <1>1
<1>3. Pow[w] \div 2 = T * P
  BY <1>2
<1>4. n \in Int /\ -(T * P) <= n /\ n < T * P
  BY <1>2, <1>3
<1>5. q \in Int /\ r \in 0..(P - 1) /\ n = (P * q) + r
  BY <1>1, <1>4, Division
<1>6. w - 1 = v /\ w \in Nat /\ 1 \in 1..w
  OBVIOUS
<1>7. s[1] = q % B /\ Len(s) = w /\ Unsigned(s) = n % Pow[w]
  BY <1>4, <1>6, BigEndianFacts, UnsignedBigEndian
<1>8. Signed(s) = IF s[1] >= T THEN Unsigned(s) - Pow[w] ELSE Unsigned(s)
  BY <1>7 DEF Signed, TopBit
<1> HIDE DEF q, r, s, T, P, w
<1>9. P * T = T * P /\ P * (-T) = -(T * P)
  BY <1>1
<1>10. q < T
  <2>1. SUFFICES ASSUME T <= q PROVE FALSE
    BY <1>1, <1>5
  <2>2. P * T <= P * q
    <3>1. CASE T = q
      BY <1>1, <3>1
    <3>2. CASE T < q
      <4>1. (P * T) + P <= P * q /\ P * T \in Int /\ P * q \in Int
        BY <1>1, <1>5, <3>2, MultipleGap
      <4>2. QED
        BY <1>1, <4>1
    <3>3. QED
      BY <1>1, <1>5, <2>1, <3>1, <3>2
  <2>3. P * q \in Int
    BY <1>1, <1>5
  <2>4. QED
    BY <1>2, <1>4, <1>5, <1>9, <2>2, <2>3
<1>11. -T <= q
  <2>1. SUFFICES ASSUME q < -T PROVE FALSE
    BY <1>1, <1>5
  <2>2. (P * q) + P <= P * (-T) /\ P * q \in Int /\ -T \in Int
    BY <1>1, <1>5, <2>1, MultipleGap
  <2>3. QED
    BY <1>1, <1>2, <1>4, <1>5, <1>9, <2>2
<1>12. CASE n >= 0
  <2>1. 0 <= q
    <3>1. SUFFICES ASSUME q < 0 PROVE FALSE
      BY <1>5
    <3>2. (P * q) + P <= P * 0 /\ P * q \in Int
      BY <1>1, <1>5, <3>1, MultipleGap
    <3>3. QED
      BY <1>1, <1>5, <1>12, <3>2
  <2>2. q % B = q
    BY <1>1, <1>5, <1>10, <2>1, RemainderInRange
  <2>3. n % Pow[w] = n
    BY <1>1, <1>2, <1>4, <1>12, RemainderInRange
  <2>4. QED
    BY <1>1, <1>4, <1>5, <1>7, <1>8, <1>10, <2>2, <2>3 DEF s, w
<1>13. CASE n < 0
  <2>1. q < 0
    <3>1. SUFFICES ASSUME 0 <= q PROVE FALSE
      BY <1>5
    <3>2. 0 <= P * q /\ P * q \in Int
      BY <1>1, <1>5, <3>1
    <3>3. QED
      BY <1>1, <1>5, <1>13, <3>2
  <2>2. q % B = q + B
    <3>1. B \in Nat \ {0} /\ q \in (-B)..(-1)
      BY <1>1, <1>5, <1>11, <2>1
    <3>2. QED
      BY <1>5, <3>1, RemainderInRange
  <2>3. n % Pow[w] = n + Pow[w]
    BY <1>1, <1>2, <1>4, <1>13, RemainderInRange
  <2>4. q + B >= T
    BY <1>1, <1>5, <1>11
  <2>5. QED
    BY <1>1, <1>4, <1>5, <1>7, <1>8, <2>2, <2>3, <2>4 DEF s, w
<1>14. QED
  BY <1>4, <1>12, <1>13 DEF s, w

\* Without the top octet.
LEMMA TailBigEndian ==
  ASSUME NEW n \in Int, NEW w \in Nat
  PROVE  Tail(BigEndian(n, w + 1)) = BigEndian(n, w)
<1> DEFINE s == BigEndian(n, w + 1)
           t == BigEndian(n, w)
<1>1. /\ s \in Seq(Octets) /\ Len(s) = w + 1
      /\ \A i \in 1..(w + 1) : s[i] = (n \div Pow[(w + 1) - i]) % B
  BY BigEndianFacts
<1>2. t \in Seq(Octets) /\ Len(t) = w /\ \A i \in 1..w : t[i] = (n \div Pow[w - i]) % B
  BY BigEndianFacts
<1> HIDE DEF s, t
<1>3. Tail(s) \in Seq(Octets) /\ Len(Tail(s)) = w /\ \A i \in 1..w : Tail(s)[i] = s[i + 1]
  BY <1>1
<1>4. ASSUME NEW i \in 1..w PROVE Tail(s)[i] = t[i]
  <2>1. i + 1 \in 1..(w + 1) /\ (w + 1) - (i + 1) = w - i
    OBVIOUS
  <2>2. s[i + 1] = (n \div Pow[w - i]) % B
    BY <1>1, <2>1
  <2>3. QED
    BY <1>2, <1>3, <2>2
<1>5. Tail(s) = t
  BY <1>2, <1>3, <1>4, SeqEqual
<1>6. QED
  BY <1>5 DEF s, t

\* The top octet of a length that fits is 0.
LEMMA TopOctet ==
  ASSUME NEW w \in Nat, NEW n \in 0..(Pow[w] - 1)
  PROVE  BigEndian(n, w + 1)[1] = 0
<1>1. Pow[w] \in Nat \ {0} /\ n \in Int /\ B \in Nat \ {0}
  BY PowFacts, BaseFacts
<1>2. 1 \in 1..(w + 1) /\ (w + 1) - 1 = w
  OBVIOUS
<1>3. BigEndian(n, w + 1)[1] = (n \div Pow[w]) % B
  BY <1>1, <1>2, BigEndianFacts
<1>4. n \div Pow[w] = 0
  BY <1>1, RemainderInRange
<1>5. 0 % B = 0
  BY <1>1, RemainderInRange
<1>6. QED
  BY <1>3, <1>4, <1>5

\* The flags are read as they were written, if the length leaves the octet free.
LEMMA FlagFacts ==
  ASSUME NEW v \in BOOLEAN, NEW m \in BOOLEAN
  PROVE  LET flags == Or(Or(0, v, TopBit), m, SecondBit)
         IN  /\ flags \in Octets
             /\ IsSet(flags, TopBit) <=> v
             /\ IsSet(flags, SecondBit) <=> m
<1> DEFINE k == SecondBit
           T == TopBit
<1>1. k \in Nat \ {0} /\ T = 2 * k /\ B = 4 * k /\ T \in Nat \ {0}
  BY BaseFacts
<1> HIDE DEF k, T
<1>2. 0 \div T = 0 /\ 0 \div k = 0 /\ k \div T = 0
  BY <1>1, RemainderInRange
<1>3. T \div T = 1 /\ k \div k = 1
  <2>1. T = (T * 1) + 0 /\ k = (k * 1) + 0
    BY <1>1
  <2>2. QED
    BY <1>1, <2>1, DivisionUnique
<1>4. T \div k = 2
  <2>1. T = (k * 2) + 0
    BY <1>1
  <2>2. QED
    BY <1>1, <2>1, DivisionUnique
<1>5. (T + k) \div T = 1 /\ (T + k) \div k = 3
  <2>1. T + k = (T * 1) + k /\ T + k = (k * 3) + 0 /\ k \in 0..(T - 1)
    BY <1>1
  <2>2. QED
    BY <1>1, <2>1, DivisionUnique
<1>6. 0 % 2 # 1 /\ 1 % 2 = 1 /\ 2 % 2 # 1 /\ 3 % 2 = 1
  OBVIOUS
<1>7. 0 + T = T /\ 0 + k = k
  BY <1>1
<1>8. Or(0, v, T) = IF v THEN T ELSE 0
  BY <1>2, <1>6, <1>7 DEF Or, IsSet
<1>9. Or(Or(0, v, T), m, k) = IF v THEN (IF m THEN T + k ELSE T) ELSE (IF m THEN k ELSE 0)
  BY <1>2, <1>4, <1>6, <1>7, <1>8 DEF Or, IsSet
<1>10. {0, k, T, T + k} \subseteq Octets
  BY <1>1 DEF Octets
<1>11. QED
  BY <1>2, <1>3, <1>4, <1>5, <1>6, <1>9, <1>10 DEF IsSet, k, T

\* A flag leaves an octet an octet, whatever is in it already.
LEMMA OrFacts ==
  ASSUME NEW x \in Octets, NEW set, NEW bit \in {TopBit, SecondBit}
  PROVE  Or(x, set, bit) \in Octets
<1> DEFINE k == SecondBit
           T == TopBit
           q == x \div bit
           r == x % bit
<1>1. k \in Nat \ {0} /\ T = 2 * k /\ B = 4 * k
  BY BaseFacts
<1>2. x \in Int /\ 0 <= x /\ x < 4 * k
  BY <1>1 DEF Octets
<1>3. bit \in Nat \ {0} /\ (bit = k \/ bit = T)
  BY <1>1
<1>4. q \in Int /\ r \in 0..(bit - 1) /\ x = (bit * q) + r
  BY <1>2, <1>3, Division
<1>5. SUFFICES ASSUME q % 2 # 1 PROVE x + bit \in Octets
  BY DEF Or, IsSet
<1> HIDE DEF k, T, q, r
<1>6. x + bit < 4 * k
  <2>1. CASE bit = k
    <3>1. q \in 0..3
      BY <1>1, <1>2, <1>4, <2>1
    <3>2. q <= 2
      BY <1>5, <3>1
    <3>3. CASE q = 0
      BY <1>1, <1>4, <2>1, <3>3
    <3>4. CASE q = 2
      BY <1>1, <1>4, <2>1, <3>4
    <3>5. QED
      BY <1>5, <3>1, <3>2, <3>3, <3>4
  <2>2. CASE bit = T
    <3>1. q \in 0..1
      BY <1>1, <1>2, <1>4, <2>2
    <3>2. q = 0
      BY <1>5, <3>1
    <3>3. QED
      BY <1>1, <1>4, <2>2, <3>2
  <2>3. QED
    BY <1>3, <2>1, <2>2
<1>7. QED
  BY <1>1, <1>2, <1>3, <1>6 DEF Octets, k

-----------------------------------------------------------------------------
(***************************************************************************)
(* Parts of sequences.                                                     *)
(***************************************************************************)
LEMMA PartIs ==
  ASSUME NEW S, NEW s \in Seq(S), NEW t \in Seq(S), NEW m \in Nat,
         m + Len(t) <= Len(s), \A i \in 1..Len(t) : s[m + i] = t[i]
  PROVE  SubSeq(s, m + 1, m + Len(t)) = t
<1> DEFINE n == Len(t)
           u == SubSeq(s, m + 1, m + n)
<1>1. n \in Nat /\ Len(s) \in Nat /\ \A i \in 1..Len(s) : s[i] \in S
  OBVIOUS
<1>2. m + 1 \in Int /\ m + n \in Int /\ \A i \in (m + 1)..(m + n) : s[i] \in S
  BY <1>1
<1>3. /\ u \in Seq(S)
      /\ Len(u) = IF m + 1 <= m + n THEN (m + n) - (m + 1) + 1 ELSE 0
      /\ \A i \in 1..((m + n) - (m + 1) + 1) : u[i] = s[(m + 1) + i - 1]
  BY <1>2, SubSeqProperties
<1> HIDE DEF u
<1>4. Len(u) = n
  BY <1>1, <1>3
<1>5. \A i \in 1..n : u[i] = t[i]
  <2> SUFFICES ASSUME NEW i \in 1..n PROVE u[i] = t[i]
    OBVIOUS
  <2>1. i \in 1..((m + n) - (m + 1) + 1) /\ (m + 1) + i - 1 = m + i
    BY <1>1
  <2>2. u[i] = s[m + i] /\ s[m + i] = t[i]
    BY <1>3, <2>1
  <2>3. QED
    BY <2>2
<1> HIDE DEF n
<1>6. u = t
  BY <1>3, <1>4, <1>5, SeqEqual, Zenon DEF n
<1>7. QED
  BY <1>6 DEF u

\* u is s followed by t, both of elements of S.
Joined(u, s, t, S) ==
  /\ u \in Seq(S) /\ Len(u) = Len(s) + Len(t)
  /\ \A i \in 1..Len(s) : u[i] = s[i]
  /\ \A i \in 1..Len(t) : u[Len(s) + i] = t[i]

\* Concatenation joins.
LEMMA ConcatJoins ==
  ASSUME NEW S, NEW s \in Seq(S), NEW t \in Seq(S)
  PROVE  Joined(s \o t, s, t, S)
  BY DEF Joined

\* Concatenation is associative, as a property of three sequences.
Rejoined(s, t, u) == (s \o t) \o u = s \o (t \o u)

\* Concatenation can be regrouped.
LEMMA Associative ==
  ASSUME NEW S, NEW s \in Seq(S), NEW t \in Seq(S), NEW u \in Seq(S)
  PROVE  Rejoined(s, t, u)
  BY ConcatAssociative DEF Rejoined

\* h starts with c, the octet f and l, and v is the rest.
HeaderJoined(h, c, f, l, v, S) ==
  /\ h \in Seq(S) /\ Len(h) = 8 + Len(v)
  /\ \A i \in 1..4 : h[i] = c[i]
  /\ h[5] = f
  /\ \A i \in 1..3 : h[5 + i] = l[i]
  /\ \A i \in 1..Len(v) : h[8 + i] = v[i]

\* The parts of an AVP header are where they were put.
LEMMA HeaderParts ==
  ASSUME NEW S, NEW c \in Seq(S), NEW f \in S, NEW l \in Seq(S), NEW v \in Seq(S),
         Len(c) = 4, Len(l) = 3
  PROVE  HeaderJoined(c \o <<f>> \o l \o v, c, f, l, v, S)
<1> DEFINE g == <<f>>
           p == c \o g
           q == p \o l
           h == q \o v
<1>1. g \in Seq(S) /\ Len(g) = 1 /\ g[1] = f
  OBVIOUS
<1> HIDE DEF g
<1>2. Joined(p, c, g, S)
  BY <1>1, ConcatJoins, Zenon
<1> HIDE DEF p
<1>3. p \in Seq(S) /\ Len(p) = 5 /\ p[5] = f /\ \A i \in 1..4 : p[i] = c[i]
  BY <1>1, <1>2 DEF Joined
<1>4. Joined(q, p, l, S)
  BY <1>3, ConcatJoins, Zenon
<1> HIDE DEF q
<1>5. /\ q \in Seq(S) /\ Len(q) = 8 /\ \A i \in 1..5 : q[i] = p[i]
      /\ \A i \in 1..3 : q[5 + i] = l[i]
  BY <1>3, <1>4 DEF Joined
<1>6. Joined(h, q, v, S)
  BY <1>5, ConcatJoins, Zenon
<1> HIDE DEF h
<1>7. HeaderJoined(h, c, f, l, v, S)
  BY <1>3, <1>5, <1>6 DEF Joined, HeaderJoined
<1>8. QED
  BY <1>7 DEF h, q, p, g

\* Padding is less than a word and fills the last one.
LEMMA PaddingFacts ==
  ASSUME NEW n \in Nat
  PROVE  PaddingOf(n) \in 0..3 /\ (n + PaddingOf(n)) % 4 = 0
  BY DEF PaddingOf

\* Padding changes nothing before it.
LEMMA PaddedFacts ==
  ASSUME NEW s \in Seq(Octets)
  PROVE  /\ Padded(s) \in Seq(Octets)
         /\ Len(Padded(s)) = Len(s) + PaddingOf(Len(s))
         /\ \A i \in 1..Len(s) : Padded(s)[i] = s[i]
<1> DEFINE m == PaddingOf(Len(s))
           z == Zeros(m)
<1>1. m \in Nat
  BY PaddingFacts
<1> HIDE DEF m
<1>2. z \in Seq(Octets) /\ Len(z) = m
  BY <1>1, BaseFacts DEF Zeros, Octets
<1>3. Joined(s \o z, s, z, Octets)
  BY <1>2, ConcatJoins, Zenon
<1>4. QED
  BY <1>2, <1>3 DEF Joined, Padded, m

-----------------------------------------------------------------------------
(***************************************************************************)
(* An AVP as octets.                                                       *)
(***************************************************************************)
FlagsOf(a, n) == Or(Or(BigEndian(n, 4)[1], a.vendor_flag, TopBit), a.mandatory_flag, SecondBit)

\* Octets of an AVP with its padding.
FullSize(a, data) == HeadSize(a) + Len(data) + PaddingOf(HeadSize(a) + Len(data))

\* in starts with the octets of an AVP.
StartsWith(in, a, data, n) ==
  /\ in \in Seq(Octets) /\ Len(in) >= FullSize(a, data)
  /\ \A i \in 1..4 : in[i] = BigEndian(a.avp_code, 4)[i]
  /\ in[5] = FlagsOf(a, n)
  /\ \A i \in 1..3 : in[5 + i] = BigEndian(n, 3)[i]
  /\ a.vendor_id > 0 => \A i \in 1..4 : in[8 + i] = BigEndian(a.vendor_id, 4)[i]
  /\ \A i \in 1..Len(data) : in[HeadSize(a) + i] = data[i]

\* An AVP takes whole words, enough for its header and its data.
LEMMA FullSizeFacts ==
  ASSUME NEW a, NEW data \in Seq(Octets)
  PROVE  /\ HeadSize(a) \in {8, 12}
         /\ FullSize(a, data) \in Nat /\ FullSize(a, data) % 4 = 0
         /\ FullSize(a, data) >= HeadSize(a) + Len(data)
<1>1. HeadSize(a) \in {8, 12} /\ Len(data) \in Nat
  BY DEF HeadSize
<1>2. HeadSize(a) + Len(data) \in Nat
  BY <1>1
<1>3. QED
  BY <1>1, <1>2, PaddingFacts DEF FullSize

\* The octets of an AVP start with its header and its data, and end with padding.
LEMMA AvpOctetsFacts ==
  ASSUME NEW a, a.avp_code \in Int, a.vendor_id \in Int, NEW data \in Seq(Octets), NEW n \in Int
  PROVE  /\ StartsWith(AvpOctets(a, data, n), a, data, n)
         /\ Len(AvpOctets(a, data, n)) = FullSize(a, data)
<1> DEFINE c == BigEndian(a.avp_code, 4)
           g == BigEndian(n, 4)
           l == Tail(g)
           f == FlagsOf(a, n)
           w == BigEndian(a.vendor_id, 4)
           v == IF a.vendor_id > 0 THEN w ELSE <<>>
           h == c \o <<f>> \o l \o v
           p == h \o data
           u == Padded(p)
<1>1. c \in Seq(Octets) /\ Len(c) = 4 /\ w \in Seq(Octets) /\ Len(w) = 4
  BY BigEndianFacts
<1>2. g \in Seq(Octets) /\ Len(g) = 4
  BY BigEndianFacts
<1>3. l = BigEndian(n, 3)
  <2> DEFINE w3 == 3
  <2>1. w3 \in Nat /\ w3 + 1 = 4
    OBVIOUS
  <2> HIDE DEF w3
  <2>2. Tail(BigEndian(n, w3 + 1)) = BigEndian(n, w3)
    BY <2>1, TailBigEndian
  <2>3. QED
    BY <2>1, <2>2, Zenon DEF w3
<1>4. l \in Seq(Octets) /\ Len(l) = 3
  BY <1>3, BigEndianFacts
<1>5. f \in Octets
  <2> HIDE DEF g, f
  <2>1. g[1] \in Octets
    BY <1>2
  <2>2. Or(g[1], a.vendor_flag, TopBit) \in Octets
    BY <2>1, OrFacts
  <2>3. Or(Or(g[1], a.vendor_flag, TopBit), a.mandatory_flag, SecondBit) \in Octets
    BY <2>2, OrFacts
  <2>4. QED
    BY <2>3 DEF FlagsOf, f, g
<1> HIDE DEF w
<1>6. v \in Seq(Octets) /\ Len(v) = HeadSize(a) - 8
  <2>1. CASE a.vendor_id > 0
    <3>1. v = w /\ HeadSize(a) = 12
      BY <2>1, Zenon DEF HeadSize
    <3> HIDE DEF v
    <3>2. QED
      BY <1>1, <3>1
  <2>2. CASE ~ a.vendor_id > 0
    BY <2>2 DEF HeadSize
  <2>3. QED
    BY <2>1, <2>2
<1>7. AvpOctets(a, data, n) = u
  BY Zenon DEF AvpOctets, FlagsOf, w
<1> HIDE DEF c, g, f, l, v
<1>a. HeaderJoined(h, c, f, l, v, Octets)
  BY <1>1, <1>4, <1>5, <1>6, HeaderParts, Zenon
<1> HIDE DEF h
<1>8. /\ h \in Seq(Octets) /\ Len(h) = 8 + Len(v)
      /\ \A i \in 1..4 : h[i] = c[i]
      /\ h[5] = f
      /\ \A i \in 1..3 : h[5 + i] = l[i]
      /\ \A i \in 1..Len(v) : h[8 + i] = v[i]
  BY <1>a, Zenon DEF HeaderJoined
<1>9. Joined(p, h, data, Octets)
  BY <1>8, ConcatJoins, Zenon
<1> HIDE DEF p
<1>b. HeadSize(a) \in {8, 12} /\ Len(data) \in Nat
  BY DEF HeadSize
<1>10. p \in Seq(Octets) /\ Len(p) = HeadSize(a) + Len(data)
  <2>1. p \in Seq(Octets) /\ Len(p) = Len(h) + Len(data)
    BY <1>9, Zenon DEF Joined
  <2>2. Len(h) = HeadSize(a)
    BY <1>6, <1>8, <1>b
  <2>3. QED
    BY <2>1, <2>2
<1>11. /\ u \in Seq(Octets) /\ Len(u) = FullSize(a, data)
       /\ \A i \in 1..Len(p) : u[i] = p[i]
  BY <1>10, PaddedFacts DEF FullSize
<1> HIDE DEF u
<1>12. HeadSize(a) \in {8, 12} /\ Len(data) \in Nat /\ Len(h) = HeadSize(a)
  BY <1>6, <1>8 DEF HeadSize
<1>13. \A i \in 1..HeadSize(a) : u[i] = h[i]
  BY <1>9, <1>10, <1>11, <1>12 DEF Joined
<1>14. \A i \in 1..Len(data) : u[HeadSize(a) + i] = data[i]
  BY <1>9, <1>10, <1>11, <1>12 DEF Joined
<1>15. \A i \in 1..4 : u[i] = c[i]
  BY <1>8, <1>12, <1>13
<1>16. u[5] = f /\ \A i \in 1..3 : u[5 + i] = l[i]
  BY <1>8, <1>12, <1>13
<1>17. ASSUME a.vendor_id > 0 PROVE \A i \in 1..4 : u[8 + i] = w[i]
  <2>1. HeadSize(a) = 12 /\ v = w /\ Len(w) = 4
    BY <1>1, <1>17 DEF HeadSize, v
  <2>2. \A i \in 1..4 : 8 + i \in 1..12 /\ h[8 + i] = w[i]
    BY <1>8, <2>1
  <2>3. QED
    BY <1>13, <2>1, <2>2
<1>18. StartsWith(u, a, data, n)
  BY <1>3, <1>11, <1>14, <1>15, <1>16, <1>17 DEF StartsWith, c, f, w, FullSize
<1>19. QED
  BY <1>7, <1>11, <1>18

-----------------------------------------------------------------------------
(***************************************************************************)
(* What the receiver finds at the start of octets.                         *)
(***************************************************************************)
\* The receiver finds the parts of the AVP that in starts with.
Finds(in, a, data) ==
  /\ VendorFlag(in) = a.vendor_flag
  /\ IsSet(in[5], SecondBit) = a.mandatory_flag
  /\ HeaderOf(in) = HeadSize(a)
  /\ CodeOf(in) = a.avp_code
  /\ VendorOf(in) = a.vendor_id
  /\ LengthOf(in) = HeadSize(a) + Len(data)
  /\ NextOf(in) = FullSize(a, data)
  /\ DataOf(in) = data

\* What an AVP has to be for that: its integers fit, and the flag goes with the id.
HasHeader(a) ==
  /\ a.avp_code \in 0..(Pow[4] - 1) /\ a.vendor_id \in 0..(Pow[4] - 1)
  /\ a.vendor_flag \in BOOLEAN /\ a.mandatory_flag \in BOOLEAN
  /\ a.vendor_flag <=> a.vendor_id > 0

\* Decode_AVP finds in the octets of an AVP what AVP.Encode put there, if the length
\* fits in its three octets.
LEMMA FindsParts ==
  ASSUME NEW a, HasHeader(a), NEW data \in Seq(Octets), HeadSize(a) + Len(data) < Pow[3],
         NEW in, StartsWith(in, a, data, HeadSize(a) + Len(data))
  PROVE  Finds(in, a, data)
<1> DEFINE n == HeadSize(a) + Len(data)
           c == BigEndian(a.avp_code, 4)
           l == BigEndian(n, 3)
           w == BigEndian(a.vendor_id, 4)
<1>1. /\ HeadSize(a) \in {8, 12} /\ Len(data) \in Nat /\ n \in 0..(Pow[3] - 1)
      /\ FullSize(a, data) \in Nat /\ FullSize(a, data) >= n
      /\ FullSize(a, data) = n + PaddingOf(n)
  <2>1. HeadSize(a) \in {8, 12} /\ Len(data) \in Nat
    BY DEF HeadSize
  <2>2. Pow[3] \in Nat
    BY PowFacts
  <2>3. QED
    BY <2>1, <2>2, FullSizeFacts DEF FullSize
<1>2. c \in Seq(Octets) /\ Len(c) = 4 /\ w \in Seq(Octets) /\ Len(w) = 4
  <2>1. a.avp_code \in Int /\ a.vendor_id \in Int
    BY DEF HasHeader
  <2>2. QED
    BY <2>1, BigEndianFacts
<1>3. l \in Seq(Octets) /\ Len(l) = 3
  <2> HIDE DEF n
  <2>1. n \in Int /\ 3 \in Nat
    BY <1>1, PowFacts
  <2>2. BigEndian(n, 3) \in Seq(Octets) /\ Len(BigEndian(n, 3)) = 3
    BY <2>1, BigEndianFacts, Zenon
  <2>3. QED
    BY <2>2
<1>4. Unsigned(c) = a.avp_code /\ Unsigned(w) = a.vendor_id
  BY UnsignedRoundTrip DEF HasHeader
<1>5. Unsigned(l) = n
  BY <1>1, UnsignedRoundTrip
<1>6. in[5] = Or(Or(0, a.vendor_flag, TopBit), a.mandatory_flag, SecondBit)
  <2> DEFINE w3 == 3
  <2>1. w3 \in Nat /\ w3 + 1 = 4 /\ n \in 0..(Pow[w3] - 1)
    BY <1>1
  <2> HIDE DEF w3, n
  <2>2. BigEndian(n, w3 + 1)[1] = 0
    BY <2>1, TopOctet
  <2>3. BigEndian(n, 4)[1] = 0
    BY <2>1, <2>2, Zenon
  <2>4. QED
    BY <2>3, Zenon DEF StartsWith, FlagsOf, n
<1>7. VendorFlag(in) = a.vendor_flag /\ IsSet(in[5], SecondBit) = a.mandatory_flag
  <2>1. a.vendor_flag \in BOOLEAN /\ a.mandatory_flag \in BOOLEAN
    BY DEF HasHeader
  <2>2. /\ IsSet(in[5], TopBit) <=> a.vendor_flag
        /\ IsSet(in[5], SecondBit) <=> a.mandatory_flag
    BY <1>6, <2>1, FlagFacts, Zenon
  <2>3. IsSet(in[5], TopBit) \in BOOLEAN /\ IsSet(in[5], SecondBit) \in BOOLEAN
    BY Zenon DEF IsSet
  <2>4. QED
    BY <2>1, <2>2, <2>3, Zenon DEF VendorFlag
<1> HIDE DEF c, l, w, n
<1>8. /\ in \in Seq(Octets) /\ Len(in) \in Nat /\ Len(in) >= FullSize(a, data)
      /\ \A i \in 1..4 : in[i] = c[i]
      /\ \A i \in 1..3 : in[5 + i] = l[i]
      /\ a.vendor_id > 0 => \A i \in 1..4 : in[8 + i] = w[i]
      /\ \A i \in 1..Len(data) : in[HeadSize(a) + i] = data[i]
  BY DEF StartsWith, c, l, w, n
<1>9. HeaderOf(in) = HeadSize(a)
  <2>1. Len(in) >= 8
    BY <1>1, <1>8 DEF n
  <2>2. a.vendor_flag <=> a.vendor_id > 0
    BY DEF HasHeader
  <2>3. QED
    BY <1>7, <2>1, <2>2 DEF HeaderOf, HeadSize
<1>10. n >= 8 /\ n = HeadSize(a) + Len(data)
  BY <1>1 DEF n
<1>11. CodeOf(in) = a.avp_code
  <2>1. 0 + Len(c) <= Len(in) /\ \A i \in 1..Len(c) : in[0 + i] = c[i]
    BY <1>1, <1>2, <1>8, <1>10
  <2>2. SubSeq(in, 0 + 1, 0 + Len(c)) = c
    BY <1>2, <1>8, <2>1, PartIs
  <2>3. SubSeq(in, 1, 4) = c
    BY <1>2, <2>2
  <2>4. QED
    BY <1>4, <2>3, Zenon DEF CodeOf, c
<1>12. LengthOf(in) = n
  <2>1. 5 + Len(l) <= Len(in) /\ \A i \in 1..Len(l) : in[5 + i] = l[i]
    BY <1>1, <1>3, <1>8, <1>10
  <2>2. SubSeq(in, 5 + 1, 5 + Len(l)) = l
    BY <1>3, <1>8, <2>1, PartIs
  <2>3. SubSeq(in, 6, 8) = l
    BY <1>3, <2>2
  <2>4. QED
    BY <1>5, <2>3, Zenon DEF LengthOf, l
<1>13. VendorOf(in) = a.vendor_id
  <2>1. a.vendor_id \in Nat /\ (a.vendor_flag <=> a.vendor_id > 0)
    BY PowFacts DEF HasHeader
  <2>2. CASE a.vendor_id > 0
    <3>1. HeadSize(a) = 12
      BY <2>2 DEF HeadSize
    <3>2. 8 + Len(w) <= Len(in) /\ \A i \in 1..Len(w) : in[8 + i] = w[i]
      BY <1>1, <1>2, <1>8, <1>10, <2>2, <3>1
    <3>3. SubSeq(in, 8 + 1, 8 + Len(w)) = w
      BY <1>2, <1>8, <3>2, PartIs
    <3>4. SubSeq(in, 9, 12) = w
      BY <1>2, <3>3
    <3>5. QED
      BY <1>4, <1>7, <2>1, <2>2, <3>4 DEF VendorOf
  <2>3. CASE ~ a.vendor_id > 0
    BY <1>7, <2>1, <2>3 DEF VendorOf
  <2>4. QED
    BY <2>2, <2>3
<1>14. NextOf(in) = FullSize(a, data)
  BY <1>1, <1>12 DEF NextOf
<1>15. DataOf(in) = data
  <2> DEFINE m == HeadSize(a)
  <2>1. m \in Nat /\ m + Len(data) <= Len(in) /\ \A i \in 1..Len(data) : in[m + i] = data[i]
    BY <1>1, <1>8, <1>10
  <2> HIDE DEF m
  <2>2. SubSeq(in, m + 1, m + Len(data)) = data
    BY <1>8, <2>1, PartIs
  <2>3. QED
    BY <1>9, <1>10, <1>12, <2>2 DEF DataOf, m
<1>16. QED
  BY <1>7, <1>9, <1>11, <1>12, <1>13, <1>14, <1>15 DEF Finds, n

\* What is read of octets is no less than 0.
LEMMA UnsignedNat ==
  ASSUME NEW s \in Seq(Octets)
  PROVE  Unsigned(s) \in Nat
<1>1. s \in Seq(Int) /\ Len(s) \in Nat /\ \A i \in 1..Len(s) : s[i] \in Octets
  BY OctetSeqs
<1>2. PICK f : PrefixValues(s, f) /\ Unsigned(s) = f[Len(s)]
  BY <1>1, UnsignedFacts
<1> DEFINE S == {i \in Nat : i <= Len(s) => f[i] \in Nat}
<1>3. 0 \in S
  BY <1>2 DEF PrefixValues
<1>4. \A i \in Nat : i \in S => i + 1 \in S
  <2> SUFFICES ASSUME NEW i \in Nat, i \in S, i + 1 <= Len(s) PROVE f[i + 1] \in Nat
    OBVIOUS
  <2>1. i + 1 \in 1..Len(s) /\ (i + 1) - 1 = i /\ f[i] \in Nat
    BY <1>1
  <2>2. f[i + 1] = (f[i] * B) + s[i + 1]
    BY <1>2, <2>1 DEF PrefixValues
  <2>3. s[i + 1] \in Nat /\ B \in Nat
    BY <1>1, <2>1, BaseFacts DEF Octets
  <2>4. f[i] * B \in Nat
    BY <2>1, <2>3
  <2>5. QED
    BY <2>2, <2>3, <2>4
<1> HIDE DEF S
<1>5. Len(s) \in S
  BY <1>1, <1>3, <1>4, SetInduction
<1>6. QED
  BY <1>1, <1>2, <1>5 DEF S

\* A sequence of octets that starts with an AVP as far as Decode_AVPs looks.
HasAvp(in) == ~ Len(in) < HeaderOf(in) /\ ~ (LengthOf(in) < HeaderOf(in) \/ NextOf(in) > Len(in))

\* What remains to be decoded is shorter.
LEMMA Shorter ==
  ASSUME NEW in \in Seq(Octets), HasAvp(in)
  PROVE  /\ DataOf(in) \in Seq(Octets) /\ Len(DataOf(in)) < Len(in)
         /\ RestOf(in) \in Seq(Octets) /\ Len(RestOf(in)) < Len(in)
<1> DEFINE l == LengthOf(in)
           h == HeaderOf(in)
           n == NextOf(in)
<1>1. h \in {8, 12} /\ Len(in) \in Nat /\ Len(in) >= h /\ Len(in) >= 8
  BY DEF HasAvp, HeaderOf
<1>2. SubSeq(in, 6, 8) \in Seq(Octets)
  BY <1>1
<1>3. l \in Nat /\ ~ l < h /\ ~ n > Len(in) /\ n = l + PaddingOf(l)
  BY <1>2, UnsignedNat DEF HasAvp, LengthOf, NextOf
<1>4. PaddingOf(l) \in 0..3
  BY <1>3, PaddingFacts
<1> HIDE DEF l, h, n
<1>5. n \in Nat /\ h <= l /\ l <= n /\ n <= Len(in) /\ h >= 8
  BY <1>1, <1>3, <1>4
<1>6. /\ SubSeq(in, h + 1, l) \in Seq(Octets)
      /\ Len(SubSeq(in, h + 1, l)) < Len(in)
  BY <1>1, <1>3, <1>5
<1>7. /\ SubSeq(in, n + 1, Len(in)) \in Seq(Octets)
      /\ Len(SubSeq(in, n + 1, Len(in))) < Len(in)
  BY <1>1, <1>3, <1>5
<1>8. QED
  BY <1>6, <1>7 DEF DataOf, RestOf, l, h, n

\* One step of Decode_AVPs, with f in its place.
DecodeStep(f, in) ==
  IF Len(in) < HeaderOf(in) THEN <<>>
  ELSE IF LengthOf(in) < HeaderOf(in) \/ NextOf(in) > Len(in) THEN <<Panic>>
  ELSE <<Decode_AVP(in, IF FormatOf(in) = "Grouped" THEN f[DataOf(in)] ELSE <<>>)>>
         \o f[RestOf(in)]

\* It looks only at what is shorter.
LEMMA DecodeStepLocal ==
  ASSUME NEW in \in Seq(Octets), NEW f, NEW g,
         \A x \in Seq(Octets) : Len(x) < Len(in) => f[x] = g[x]
  PROVE  DecodeStep(f, in) = DecodeStep(g, in)
<1>1. CASE HasAvp(in)
  <2>1. f[DataOf(in)] = g[DataOf(in)] /\ f[RestOf(in)] = g[RestOf(in)]
    BY <1>1, Shorter, Zenon
  <2>2. QED
    BY <2>1, Zenon DEF DecodeStep
<1>2. CASE ~ HasAvp(in)
  BY <1>2, Zenon DEF DecodeStep, HasAvp
<1>3. QED
  BY <1>1, <1>2

\* g is Decode_AVPs for fewer than n octets.
Decodes(g, n) ==
  g = [in \in {s \in Seq(Octets) : Len(s) < n} |-> DecodeStep(g, in)]

\* What is defined for octets up to a length is so by the step.
LEMMA DecodesValue ==
  ASSUME NEW g, NEW n \in Nat, Decodes(g, n), NEW in \in Seq(Octets), Len(in) < n
  PROVE  g[in] = DecodeStep(g, in)
  BY Zenon DEF Decodes

\* There is such a function for every length: each step needs shorter octets only.
LEMMA DecodesExists ==
  ASSUME NEW n \in Nat
  PROVE  \E g : Decodes(g, n)
<1> DEFINE S == {k \in Nat : \E g : Decodes(g, k)}
<1>1. 0 \in S
  <2> DEFINE g == [in \in {} |-> <<>>]
  <2>1. {s \in Seq(Octets) : Len(s) < 0} = {}
    OBVIOUS
  <2>2. g = [in \in {s \in Seq(Octets) : Len(s) < 0} |-> DecodeStep(g, in)]
    BY <2>1
  <2> HIDE DEF g
  <2>3. Decodes(g, 0)
    BY <2>2, Zenon DEF Decodes
  <2>4. QED
    BY <2>3
<1>2. \A k \in Nat : k \in S => k + 1 \in S
  <2>a. \A k \in Nat : k + 1 \in Nat
    OBVIOUS
  <2> SUFFICES ASSUME NEW k \in Nat, NEW g, Decodes(g, k) PROVE \E h : Decodes(h, k + 1)
    BY <2>a, Zenon
  <2> DEFINE D == {s \in Seq(Octets) : Len(s) < k + 1}
             h == [in \in D |-> DecodeStep(g, in)]
  <2>1. ASSUME NEW in \in D PROVE DecodeStep(g, in) = DecodeStep(h, in)
    <3>1. in \in Seq(Octets) /\ Len(in) < k + 1
      OBVIOUS
    <3>2. ASSUME NEW x \in Seq(Octets), Len(x) < Len(in) PROVE g[x] = h[x]
      <4>1. Len(x) < k /\ x \in D
        BY <3>1, <3>2
      <4>2. g[x] = DecodeStep(g, x)
        BY <4>1, DecodesValue, Zenon
      <4>3. QED
        BY <4>1, <4>2, Zenon
    <3> HIDE DEF D, h
    <3>3. QED
      BY <3>1, <3>2, DecodeStepLocal, Zenon
  <2>2. h = [in \in D |-> DecodeStep(h, in)]
    <3> DEFINE hh == [in \in D |-> DecodeStep(h, in)]
    <3>1. \A in \in D : h[in] = DecodeStep(h, in)
      <4> HIDE DEF D
      <4> SUFFICES ASSUME NEW in \in D PROVE h[in] = DecodeStep(h, in)
        BY Zenon
      <4>1. h[in] = DecodeStep(g, in)
        BY Zenon
      <4>2. DecodeStep(g, in) = DecodeStep(h, in)
        BY <2>1, Zenon
      <4> HIDE DEF h
      <4>3. QED
        BY <4>1, <4>2, Zenon
    <3>2. DOMAIN h = D /\ h = [in \in D |-> h[in]]
      <4> HIDE DEF D
      <4>1. QED
        BY Zenon
    <3> HIDE DEF h, D
    <3>3. QED
      BY <3>1, <3>2, Zenon
  <2> HIDE DEF h
  <2>3. Decodes(h, k + 1)
    BY <2>2, Zenon DEF Decodes
  <2>4. QED
    BY <2>3, Zenon
<1> HIDE DEF S
<1>3. n \in S
  BY <1>1, <1>2, SetInduction
<1>4. QED
  BY <1>3, Zenon DEF S

\* Such a function.
Decoder(n) == CHOOSE g : Decodes(g, n)

\* It does not matter for which length it is taken.
LEMMA DecodersAgree ==
  ASSUME NEW n \in Nat, NEW m \in Nat, m >= n, NEW in \in Seq(Octets), Len(in) < n
  PROVE  Decoder(m)[in] = Decoder(n)[in]
<1> DEFINE P(k) == \A j \in Nat, x \in Seq(Octets) :
                      j >= k /\ Len(x) < k => Decoder(j)[x] = Decoder(k)[x]
           S == {k \in Nat : P(k)}
<1>1. \A k \in Nat : Decodes(Decoder(k), k)
  BY DecodesExists, Zenon DEF Decoder
<1>2. 0 \in S
  OBVIOUS
<1>3. \A k \in Nat : k \in S => k + 1 \in S
  <2>a. \A k \in Nat : k + 1 \in Nat
    OBVIOUS
  <2> SUFFICES ASSUME NEW k \in Nat, P(k), NEW j \in Nat, NEW x \in Seq(Octets),
                      j >= k + 1, Len(x) < k + 1
               PROVE  Decoder(j)[x] = Decoder(k + 1)[x]
    BY <2>a, Zenon
  <2>1. k + 1 \in Nat /\ Len(x) < j
    OBVIOUS
  <2>2. Decoder(j)[x] = DecodeStep(Decoder(j), x)
    BY <1>1, <2>1, DecodesValue, Zenon
  <2>3. Decoder(k + 1)[x] = DecodeStep(Decoder(k + 1), x)
    BY <1>1, <2>1, DecodesValue, Zenon
  <2>4. ASSUME NEW y \in Seq(Octets), Len(y) < Len(x)
        PROVE  Decoder(j)[y] = Decoder(k + 1)[y]
    <3>1. Len(y) < k /\ j >= k /\ k + 1 >= k
      BY <2>4
    <3>2. Decoder(j)[y] = Decoder(k)[y] /\ Decoder(k + 1)[y] = Decoder(k)[y]
      BY <2>1, <3>1, Zenon
    <3>3. QED
      BY <3>2, Zenon
  <2>5. DecodeStep(Decoder(j), x) = DecodeStep(Decoder(k + 1), x)
    BY <2>4, DecodeStepLocal, Zenon
  <2>6. QED
    BY <2>2, <2>3, <2>5, Zenon
<1> HIDE DEF S
<1>4. n \in S
  BY <1>2, <1>3, SetInduction
<1>5. QED
  BY <1>4, Zenon DEF S

\* Decode_AVPs is the function its definition describes.
LEMMA DecodeAvpsStep ==
  ASSUME NEW in \in Seq(Octets)
  PROVE  Decode_AVPs[in] = DecodeStep(Decode_AVPs, in)
<1> DEFINE F == [s \in Seq(Octets) |-> Decoder(Len(s) + 1)[s]]
<1>1. ASSUME NEW s \in Seq(Octets) PROVE F[s] = DecodeStep(F, s)
  <2> DEFINE k == Len(s) + 1
  <2>1. k \in Nat /\ Len(s) < k
    OBVIOUS
  <2>2. Decodes(Decoder(k), k)
    <3> HIDE DEF k
    <3>1. QED
      BY <2>1, DecodesExists, Zenon DEF Decoder
  <2>3. Decoder(k)[s] = DecodeStep(Decoder(k), s)
    <3> HIDE DEF k
    <3>1. QED
      BY <2>1, <2>2, DecodesValue, Zenon
  <2>4. ASSUME NEW x \in Seq(Octets), Len(x) < Len(s) PROVE Decoder(k)[x] = F[x]
    <3>1. Len(x) + 1 \in Nat /\ k >= Len(x) + 1 /\ Len(x) < Len(x) + 1
      BY <2>4
    <3>2. Decoder(k)[x] = Decoder(Len(x) + 1)[x]
      <4> HIDE DEF k
      <4>1. QED
        BY <2>1, <3>1, DecodersAgree, Zenon
    <3>3. QED
      BY <3>2, Zenon
  <2>5. F[s] = Decoder(k)[s]
    BY Zenon
  <2> HIDE DEF F, k
  <2>6. DecodeStep(Decoder(k), s) = DecodeStep(F, s)
    BY <2>4, DecodeStepLocal, Zenon
  <2>7. QED
    BY <2>3, <2>5, <2>6, Zenon
<1>2. DOMAIN F = Seq(Octets) /\ F = [s \in Seq(Octets) |-> F[s]]
  BY Zenon
<1> HIDE DEF F
<1>3. F = [s \in Seq(Octets) |-> DecodeStep(F, s)]
  BY <1>1, <1>2, Zenon
<1>4. Decode_AVPs = CHOOSE f : f = [s \in Seq(Octets) |-> DecodeStep(f, s)]
  BY Zenon DEF Decode_AVPs, DecodeStep
<1>5. Decode_AVPs = [s \in Seq(Octets) |-> DecodeStep(Decode_AVPs, s)]
  BY <1>3, <1>4, Zenon
<1>6. QED
  BY <1>5, Zenon

-----------------------------------------------------------------------------
(***************************************************************************)
(* The AVPs of each depth of nesting, and what encodes them, as functions. *)
(***************************************************************************)
\* One step of AVPs, with f in its place.
NestStep(f, n) ==
  [avp_code : Int, vendor_flag : BOOLEAN, mandatory_flag : BOOLEAN, vendor_id : Int,
   format : Formats, data : Seq(Int),
   avps : IF n = 0 THEN {<<>>} ELSE Seq(f[n - 1])]

\* A step needs the depth below only.
LEMMA NestStepLocal ==
  ASSUME NEW n \in Nat, NEW f, NEW g, n # 0 => f[n - 1] = g[n - 1]
  PROVE  NestStep(f, n) = NestStep(g, n)
<1>1. (IF n = 0 THEN {<<>>} ELSE Seq(f[n - 1])) = (IF n = 0 THEN {<<>>} ELSE Seq(g[n - 1]))
  BY Zenon
<1>2. QED
  BY <1>1, Zenon DEF NestStep

\* g is AVPs up to depth n.
NestUpto(g, n) == g = [i \in 0..n |-> NestStep(g, i)]

\* What is defined up to a depth is so by the step.
LEMMA NestUptoValue ==
  ASSUME NEW g, NEW n \in Nat, NestUpto(g, n), NEW i \in 0..n
  PROVE  g[i] = NestStep(g, i)
  BY Zenon DEF NestUpto

\* There is such a function for every depth.
LEMMA NestUptoExists ==
  ASSUME NEW n \in Nat
  PROVE  \E g : NestUpto(g, n)
<1> DEFINE S == {k \in Nat : \E g : NestUpto(g, k)}
<1>1. 0 \in S
  <2> DEFINE g == [i \in 0..0 |-> NestStep(<<>>, i)]
  <2>1. ASSUME NEW i \in 0..0 PROVE NestStep(<<>>, i) = NestStep(g, i)
    <3>1. i \in Nat /\ i = 0
      OBVIOUS
    <3> HIDE DEF g
    <3>2. QED
      BY <3>1, NestStepLocal, Zenon
  <2>2. g = [i \in 0..0 |-> NestStep(g, i)]
    <3>1. \A i \in 0..0 : g[i] = NestStep(<<>>, i)
      BY Zenon
    <3>2. g = [i \in 0..0 |-> g[i]]
      BY Zenon
    <3> HIDE DEF g
    <3>3. \A i \in 0..0 : g[i] = NestStep(g, i)
      BY <2>1, <3>1, Zenon
    <3>4. QED
      BY <3>2, <3>3, Zenon
  <2> HIDE DEF g
  <2>3. NestUpto(g, 0)
    BY <2>2, Zenon DEF NestUpto
  <2>4. QED
    BY <2>3
<1>2. \A k \in Nat : k \in S => k + 1 \in S
  <2>a. \A k \in Nat : k + 1 \in Nat
    OBVIOUS
  <2> SUFFICES ASSUME NEW k \in Nat, NEW g, NestUpto(g, k) PROVE \E h : NestUpto(h, k + 1)
    BY <2>a, Zenon
  <2> DEFINE D == 0..(k + 1)
             h == [i \in D |-> NestStep(g, i)]
  <2>1. ASSUME NEW i \in D PROVE NestStep(g, i) = NestStep(h, i)
    <3>1. i \in Nat
      OBVIOUS
    <3>2. ASSUME i # 0 PROVE g[i - 1] = h[i - 1]
      <4>1. i - 1 \in 0..k /\ i - 1 \in D
        BY <3>2
      <4>2. g[i - 1] = NestStep(g, i - 1)
        BY <4>1, NestUptoValue, Zenon
      <4> HIDE DEF D
      <4>3. h[i - 1] = NestStep(g, i - 1)
        BY <4>1, Zenon
      <4>4. QED
        BY <4>2, <4>3, Zenon
    <3> HIDE DEF D, h
    <3>3. QED
      BY <3>1, <3>2, NestStepLocal, Zenon
  <2>2. h = [i \in D |-> NestStep(h, i)]
    <3> HIDE DEF D
    <3>1. (\A i \in D : h[i] = NestStep(g, i)) /\ h = [i \in D |-> h[i]]
      BY Zenon
    <3> HIDE DEF h
    <3>2. QED
      BY <2>1, <3>1, Zenon
  <2> HIDE DEF h
  <2>3. NestUpto(h, k + 1)
    BY <2>2, Zenon DEF NestUpto
  <2>4. QED
    BY <2>3, Zenon
<1> HIDE DEF S
<1>3. n \in S
  BY <1>1, <1>2, SetInduction
<1>4. QED
  BY <1>3, Zenon DEF S

\* Such a function.
NestUpon(n) == CHOOSE g : NestUpto(g, n)

\* It does not matter for which depth it is taken.
LEMMA NestUponAgree ==
  ASSUME NEW n \in Nat, NEW m \in Nat, m >= n
  PROVE  NestUpon(m)[n] = NestUpon(n)[n]
<1> DEFINE P(k) == \A j \in Nat : j >= k => NestUpon(j)[k] = NestUpon(k)[k]
           S == {k \in Nat : P(k)}
<1>1. \A k \in Nat : NestUpto(NestUpon(k), k)
  BY NestUptoExists, Zenon DEF NestUpon
<1>2. ASSUME NEW k \in Nat, NEW j \in Nat, j >= k,
             k # 0 => NestUpon(j)[k - 1] = NestUpon(k)[k - 1]
      PROVE  NestUpon(j)[k] = NestUpon(k)[k]
  <2>1. k \in 0..k /\ k \in 0..j
    BY <1>2
  <2>2. NestUpon(j)[k] = NestStep(NestUpon(j), k)
    BY <1>1, <2>1, NestUptoValue, Zenon
  <2>3. NestUpon(k)[k] = NestStep(NestUpon(k), k)
    BY <1>1, <2>1, NestUptoValue, Zenon
  <2>4. QED
    BY <1>2, <2>2, <2>3, NestStepLocal, Zenon
<1>3. 0 \in S
  <2>1. \A j \in Nat : j >= 0 => NestUpon(j)[0] = NestUpon(0)[0]
    BY <1>2
  <2>2. QED
    BY <2>1
<1>4. \A k \in Nat : k \in S => k + 1 \in S
  <2>a. \A k \in Nat : k + 1 \in Nat
    OBVIOUS
  <2> SUFFICES ASSUME NEW k \in Nat, P(k), NEW j \in Nat, j >= k + 1
               PROVE  NestUpon(j)[k + 1] = NestUpon(k + 1)[k + 1]
    BY <2>a, Zenon
  <2>1. (k + 1) - 1 = k /\ j >= k /\ k + 1 >= k /\ k + 1 \in Nat
    OBVIOUS
  <2>2. NestUpon(j)[k] = NestUpon(k)[k] /\ NestUpon(k + 1)[k] = NestUpon(k)[k]
    BY <2>1, Zenon
  <2>3. NestUpon(j)[(k + 1) - 1] = NestUpon(k + 1)[(k + 1) - 1]
    BY <2>1, <2>2, Zenon
  <2>4. QED
    BY <1>2, <2>1, <2>3, Zenon
<1> HIDE DEF S
<1>5. n \in S
  BY <1>3, <1>4, SetInduction
<1>6. QED
  BY <1>5, Zenon DEF S

\* AVPs is the function its definition describes.
LEMMA NestSteps ==
  ASSUME NEW n \in Nat
  PROVE  AVPs[n] = NestStep(AVPs, n)
<1> DEFINE F == [k \in Nat |-> NestUpon(k)[k]]
<1>1. ASSUME NEW k \in Nat PROVE F[k] = NestStep(F, k)
  <2>1. k \in 0..k
    OBVIOUS
  <2>2. NestUpto(NestUpon(k), k)
    BY NestUptoExists, Zenon DEF NestUpon
  <2>3. NestUpon(k)[k] = NestStep(NestUpon(k), k)
    BY <2>1, <2>2, NestUptoValue, Zenon
  <2>4. ASSUME k # 0 PROVE NestUpon(k)[k - 1] = F[k - 1]
    <3>1. k - 1 \in Nat /\ k >= k - 1
      BY <2>4
    <3>2. NestUpon(k)[k - 1] = NestUpon(k - 1)[k - 1]
      BY <3>1, NestUponAgree, Zenon
    <3>3. QED
      BY <3>1, <3>2, Zenon
  <2>5. F[k] = NestUpon(k)[k]
    BY Zenon
  <2> HIDE DEF F
  <2>6. NestStep(NestUpon(k), k) = NestStep(F, k)
    BY <2>4, NestStepLocal, Zenon
  <2>7. QED
    BY <2>3, <2>5, <2>6, Zenon
<1>2. F = [k \in Nat |-> F[k]]
  BY Zenon
<1> HIDE DEF F
<1>3. F = [k \in Nat |-> NestStep(F, k)]
  BY <1>1, <1>2, Zenon
<1>4. AVPs = CHOOSE f : f = [k \in Nat |-> NestStep(f, k)]
  BY Zenon DEF AVPs, NestStep
<1>5. AVPs = [k \in Nat |-> NestStep(AVPs, k)]
  BY <1>3, <1>4, Zenon
<1>6. QED
  BY <1>5, Zenon

\* AVPs whose members are in T.
Shaped(T) ==
  [avp_code : Int, vendor_flag : BOOLEAN, mandatory_flag : BOOLEAN, vendor_id : Int,
   format : Formats, data : Seq(Int), avps : T]

\* The AVPs of a depth have those of the depth below as members.
LEMMA AvpsFacts ==
  /\ AVPs[0] = Shaped({<<>>})
  /\ \A n \in Nat : AVPs[n + 1] = Shaped(Seq(AVPs[n]))
<1>1. NestStep(AVPs, 0) = Shaped({<<>>})
  BY Zenon DEF NestStep, Shaped
<1>2. ASSUME NEW n \in Nat PROVE NestStep(AVPs, n + 1) = Shaped(Seq(AVPs[n]))
  <2>1. n + 1 # 0 /\ (n + 1) - 1 = n
    OBVIOUS
  <2>2. (IF n + 1 = 0 THEN {<<>>} ELSE Seq(AVPs[(n + 1) - 1])) = Seq(AVPs[n])
    BY <2>1, Zenon
  <2>3. QED
    BY <2>2, Zenon DEF NestStep, Shaped
<1>3. 0 \in Nat /\ \A n \in Nat : n + 1 \in Nat
  OBVIOUS
<1>4. QED
  BY <1>1, <1>2, <1>3, NestSteps, Zenon

\* The fields of an AVP.
LEMMA ShapedFacts ==
  ASSUME NEW T, NEW a \in Shaped(T)
  PROVE  /\ a.avp_code \in Int /\ a.vendor_id \in Int
         /\ a.vendor_flag \in BOOLEAN /\ a.mandatory_flag \in BOOLEAN
         /\ a.format \in Formats /\ a.data \in Seq(Int) /\ a.avps \in T
  BY DEF Shaped

\* What a group has besides its members does not change when it gets some.
IsWith(b, a, m, U) ==
  /\ b \in Shaped(U) /\ b.avps = m
  /\ b.avp_code = a.avp_code /\ b.vendor_id = a.vendor_id
  /\ b.vendor_flag = a.vendor_flag /\ b.mandatory_flag = a.mandatory_flag
  /\ b.format = a.format /\ b.data = a.data

\* An AVP with other members.
LEMMA WithMembers ==
  ASSUME NEW T, NEW a \in Shaped(T), NEW U, NEW m \in U
  PROVE  IsWith([a EXCEPT !.avps = m], a, m, U)
  BY DEF Shaped, IsWith

\* Nesting may be less deep than the bound.
LEMMA AvpsGrow ==
  ASSUME NEW n \in Nat
  PROVE  AVPs[n] \subseteq AVPs[n + 1]
<1> DEFINE S == {k \in Nat : AVPs[k] \subseteq AVPs[k + 1]}
<1>1. ASSUME NEW T, NEW U, T \subseteq U PROVE Shaped(T) \subseteq Shaped(U)
  BY <1>1 DEF Shaped
<1>2. 0 \in S
  <2>1. {<<>>} \subseteq Seq(AVPs[0])
    BY EmptySeq, Zenon
  <2>2. 0 \in Nat
    OBVIOUS
  <2>3. AVPs[0 + 1] = Shaped(Seq(AVPs[0])) /\ AVPs[0] = Shaped({<<>>})
    BY <2>2, AvpsFacts, Zenon
  <2>4. Shaped({<<>>}) \subseteq Shaped(Seq(AVPs[0]))
    BY <1>1, <2>1, Zenon
  <2>5. QED
    BY <2>2, <2>3, <2>4, Zenon
<1>3. \A k \in Nat : k \in S => k + 1 \in S
  <2> SUFFICES ASSUME NEW k \in Nat, AVPs[k] \subseteq AVPs[k + 1]
               PROVE  AVPs[k + 1] \subseteq AVPs[(k + 1) + 1]
    OBVIOUS
  <2>1. Seq(AVPs[k]) \subseteq Seq(AVPs[k + 1])
    BY SeqMonotonic, Zenon
  <2>2. k + 1 \in Nat
    OBVIOUS
  <2>3. AVPs[k + 1] = Shaped(Seq(AVPs[k])) /\ AVPs[(k + 1) + 1] = Shaped(Seq(AVPs[k + 1]))
    BY <2>2, AvpsFacts, Zenon
  <2>4. Shaped(Seq(AVPs[k])) \subseteq Shaped(Seq(AVPs[k + 1]))
    BY <1>1, <2>1, Zenon
  <2>5. QED
    BY <2>3, <2>4, Zenon
<1> HIDE DEF S
<1>4. n \in S
  BY <1>2, <1>3, SetInduction
<1>5. QED
  BY <1>4, Zenon DEF S

\* One step of Encode_group, with f in its place.
EncodeStep(f, n) ==
  [avps \in Seq(AVPs[n]) |->
     FlattenSeq([i \in 1..Len(avps) |->
       EncodeAvp(avps[i],
                 IF avps[i].avps = <<>> THEN <<>> ELSE f[n - 1][avps[i].avps])])]

\* A step needs the depth below only.
LEMMA EncodeStepLocal ==
  ASSUME NEW n \in Nat, NEW f, NEW g, n # 0 => f[n - 1] = g[n - 1]
  PROVE  EncodeStep(f, n) = EncodeStep(g, n)
<1> DEFINE M(h, a) == IF a.avps = <<>> THEN <<>> ELSE h[n - 1][a.avps]
           W(h, avps) == [i \in 1..Len(avps) |-> EncodeAvp(avps[i], M(h, avps[i]))]
<1>1. ASSUME NEW a \in AVPs[n] PROVE M(f, a) = M(g, a)
  <2>1. CASE n = 0
    <3>1. a.avps = <<>>
      BY <2>1, AvpsFacts, ShapedFacts
    <3>2. QED
      BY <3>1, Zenon
  <2>2. CASE n # 0
    BY <2>2, Zenon
  <2>3. QED
    BY <2>1, <2>2
<1> HIDE DEF M
<1>2. ASSUME NEW avps \in Seq(AVPs[n]) PROVE W(f, avps) = W(g, avps)
  <2>1. \A i \in 1..Len(avps) : avps[i] \in AVPs[n]
    OBVIOUS
  <2>2. \A i \in 1..Len(avps) : M(f, avps[i]) = M(g, avps[i])
    BY <1>1, <2>1, Zenon
  <2>3. QED
    BY <2>2, Zenon
<1>3. EncodeStep(f, n) = [avps \in Seq(AVPs[n]) |-> FlattenSeq(W(f, avps))]
  BY Zenon DEF EncodeStep, M
<1>4. EncodeStep(g, n) = [avps \in Seq(AVPs[n]) |-> FlattenSeq(W(g, avps))]
  BY Zenon DEF EncodeStep, M
<1> HIDE DEF W
<1>5. QED
  BY <1>2, <1>3, <1>4, Zenon

\* g is Encode_group up to depth n.
EncodeUpto(g, n) == g = [i \in 0..n |-> EncodeStep(g, i)]

\* What is defined up to a depth is so by the step.
LEMMA EncodeUptoValue ==
  ASSUME NEW g, NEW n \in Nat, EncodeUpto(g, n), NEW i \in 0..n
  PROVE  g[i] = EncodeStep(g, i)
  BY Zenon DEF EncodeUpto

\* There is such a function for every depth.
LEMMA EncodeUptoExists ==
  ASSUME NEW n \in Nat
  PROVE  \E g : EncodeUpto(g, n)
<1> DEFINE S == {k \in Nat : \E g : EncodeUpto(g, k)}
<1>1. 0 \in S
  <2> DEFINE g == [i \in 0..0 |-> EncodeStep(<<>>, i)]
  <2>1. ASSUME NEW i \in 0..0 PROVE EncodeStep(<<>>, i) = EncodeStep(g, i)
    <3>1. i \in Nat /\ i = 0
      OBVIOUS
    <3> HIDE DEF g
    <3>2. QED
      BY <3>1, EncodeStepLocal, Zenon
  <2>2. g = [i \in 0..0 |-> EncodeStep(g, i)]
    <3>1. \A i \in 0..0 : g[i] = EncodeStep(<<>>, i)
      BY Zenon
    <3>2. g = [i \in 0..0 |-> g[i]]
      BY Zenon
    <3> HIDE DEF g
    <3>3. \A i \in 0..0 : g[i] = EncodeStep(g, i)
      BY <2>1, <3>1, Zenon
    <3>4. QED
      BY <3>2, <3>3, Zenon
  <2> HIDE DEF g
  <2>3. EncodeUpto(g, 0)
    BY <2>2, Zenon DEF EncodeUpto
  <2>4. QED
    BY <2>3
<1>2. \A k \in Nat : k \in S => k + 1 \in S
  <2>a. \A k \in Nat : k + 1 \in Nat
    OBVIOUS
  <2> SUFFICES ASSUME NEW k \in Nat, NEW g, EncodeUpto(g, k) PROVE \E h : EncodeUpto(h, k + 1)
    BY <2>a, Zenon
  <2> DEFINE D == 0..(k + 1)
             h == [i \in D |-> EncodeStep(g, i)]
  <2>1. ASSUME NEW i \in D PROVE EncodeStep(g, i) = EncodeStep(h, i)
    <3>1. i \in Nat
      OBVIOUS
    <3>2. ASSUME i # 0 PROVE g[i - 1] = h[i - 1]
      <4>1. i - 1 \in 0..k /\ i - 1 \in D
        BY <3>2
      <4>2. g[i - 1] = EncodeStep(g, i - 1)
        BY <4>1, EncodeUptoValue, Zenon
      <4> HIDE DEF D
      <4>3. h[i - 1] = EncodeStep(g, i - 1)
        BY <4>1, Zenon
      <4>4. QED
        BY <4>2, <4>3, Zenon
    <3> HIDE DEF D, h
    <3>3. QED
      BY <3>1, <3>2, EncodeStepLocal, Zenon
  <2>2. h = [i \in D |-> EncodeStep(h, i)]
    <3> HIDE DEF D
    <3>1. (\A i \in D : h[i] = EncodeStep(g, i)) /\ h = [i \in D |-> h[i]]
      BY Zenon
    <3> HIDE DEF h
    <3>2. QED
      BY <2>1, <3>1, Zenon
  <2> HIDE DEF h
  <2>3. EncodeUpto(h, k + 1)
    BY <2>2, Zenon DEF EncodeUpto
  <2>4. QED
    BY <2>3, Zenon
<1> HIDE DEF S
<1>3. n \in S
  BY <1>1, <1>2, SetInduction
<1>4. QED
  BY <1>3, Zenon DEF S

\* Such a function.
EncodeUpon(n) == CHOOSE g : EncodeUpto(g, n)

\* It does not matter for which depth it is taken.
LEMMA EncodeUponAgree ==
  ASSUME NEW n \in Nat, NEW m \in Nat, m >= n
  PROVE  EncodeUpon(m)[n] = EncodeUpon(n)[n]
<1> DEFINE P(k) == \A j \in Nat : j >= k => EncodeUpon(j)[k] = EncodeUpon(k)[k]
           S == {k \in Nat : P(k)}
<1>1. \A k \in Nat : EncodeUpto(EncodeUpon(k), k)
  BY EncodeUptoExists, Zenon DEF EncodeUpon
<1>2. ASSUME NEW k \in Nat, NEW j \in Nat, j >= k,
             k # 0 => EncodeUpon(j)[k - 1] = EncodeUpon(k)[k - 1]
      PROVE  EncodeUpon(j)[k] = EncodeUpon(k)[k]
  <2>1. k \in 0..k /\ k \in 0..j
    BY <1>2
  <2>2. EncodeUpon(j)[k] = EncodeStep(EncodeUpon(j), k)
    BY <1>1, <2>1, EncodeUptoValue, Zenon
  <2>3. EncodeUpon(k)[k] = EncodeStep(EncodeUpon(k), k)
    BY <1>1, <2>1, EncodeUptoValue, Zenon
  <2>4. QED
    BY <1>2, <2>2, <2>3, EncodeStepLocal, Zenon
<1>3. 0 \in S
  <2>1. \A j \in Nat : j >= 0 => EncodeUpon(j)[0] = EncodeUpon(0)[0]
    BY <1>2
  <2>2. QED
    BY <2>1
<1>4. \A k \in Nat : k \in S => k + 1 \in S
  <2>a. \A k \in Nat : k + 1 \in Nat
    OBVIOUS
  <2> SUFFICES ASSUME NEW k \in Nat, P(k), NEW j \in Nat, j >= k + 1
               PROVE  EncodeUpon(j)[k + 1] = EncodeUpon(k + 1)[k + 1]
    BY <2>a, Zenon
  <2>1. (k + 1) - 1 = k /\ j >= k /\ k + 1 >= k /\ k + 1 \in Nat
    OBVIOUS
  <2>2. EncodeUpon(j)[k] = EncodeUpon(k)[k] /\ EncodeUpon(k + 1)[k] = EncodeUpon(k)[k]
    BY <2>1, Zenon
  <2>3. EncodeUpon(j)[(k + 1) - 1] = EncodeUpon(k + 1)[(k + 1) - 1]
    BY <2>1, <2>2, Zenon
  <2>4. QED
    BY <1>2, <2>1, <2>3, Zenon
<1> HIDE DEF S
<1>5. n \in S
  BY <1>3, <1>4, SetInduction
<1>6. QED
  BY <1>5, Zenon DEF S

\* Encode_group is the function its definition describes.
LEMMA EncodeSteps ==
  ASSUME NEW n \in Nat
  PROVE  Encode_group[n] = EncodeStep(Encode_group, n)
<1> DEFINE F == [k \in Nat |-> EncodeUpon(k)[k]]
<1>1. ASSUME NEW k \in Nat PROVE F[k] = EncodeStep(F, k)
  <2>1. k \in 0..k
    OBVIOUS
  <2>2. EncodeUpto(EncodeUpon(k), k)
    BY EncodeUptoExists, Zenon DEF EncodeUpon
  <2>3. EncodeUpon(k)[k] = EncodeStep(EncodeUpon(k), k)
    BY <2>1, <2>2, EncodeUptoValue, Zenon
  <2>4. ASSUME k # 0 PROVE EncodeUpon(k)[k - 1] = F[k - 1]
    <3>1. k - 1 \in Nat /\ k >= k - 1
      BY <2>4
    <3>2. EncodeUpon(k)[k - 1] = EncodeUpon(k - 1)[k - 1]
      BY <3>1, EncodeUponAgree, Zenon
    <3>3. QED
      BY <3>1, <3>2, Zenon
  <2>5. F[k] = EncodeUpon(k)[k]
    BY Zenon
  <2> HIDE DEF F
  <2>6. EncodeStep(EncodeUpon(k), k) = EncodeStep(F, k)
    BY <2>4, EncodeStepLocal, Zenon
  <2>7. QED
    BY <2>3, <2>5, <2>6, Zenon
<1>2. F = [k \in Nat |-> F[k]]
  BY Zenon
<1> HIDE DEF F
<1>3. F = [k \in Nat |-> EncodeStep(F, k)]
  BY <1>1, <1>2, Zenon
<1>4. Encode_group = CHOOSE f : f = [k \in Nat |-> EncodeStep(f, k)]
  BY Zenon DEF Encode_group, EncodeStep
<1>5. Encode_group = [k \in Nat |-> EncodeStep(Encode_group, k)]
  BY <1>3, <1>4, Zenon
<1>6. QED
  BY <1>5, Zenon

-----------------------------------------------------------------------------
(***************************************************************************)
(* Concatenating what each AVP of a list is encoded to.                    *)
(***************************************************************************)
\* f has the concatenations of the first sequences of seqs.
Flattens(f, seqs, S) ==
  /\ f \in [0..Len(seqs) -> Seq(S)] /\ f[0] = <<>>
  /\ \A i \in 1..Len(seqs) : f[i] = f[i - 1] \o seqs[i]

\* The concatenations of the first sequences, as a function.
LEMMA FlattensExists ==
  ASSUME NEW S, NEW seqs \in Seq(Seq(S))
  PROVE  \E f : Flattens(f, seqs, S)
<1> DEFINE n == Len(seqs)
           E(i) == IF i \in 1..n THEN seqs[i] ELSE <<>>
           step == [i \in Nat |-> [v \in Seq(S) |-> v \o E(i + 1)]]
<1>1. n \in Nat /\ \A i \in 1..n : seqs[i] \in Seq(S)
  OBVIOUS
<1>2. ASSUME NEW i PROVE E(i) \in Seq(S)
  BY <1>1, EmptySeq, Zenon
<1>3. \A i \in 1..n : E(i) = seqs[i]
  BY Zenon
<1> HIDE DEF E
<1>4. step \in [Nat -> [Seq(S) -> Seq(S)]]
  <2>1. ASSUME NEW i \in Nat, NEW v \in Seq(S) PROVE v \o E(i + 1) \in Seq(S)
    BY <1>2, ConcatProperties, Zenon
  <2>2. QED
    BY <2>1, Zenon
<1>5. \A i \in Nat, v \in Seq(S) : step[i][v] = v \o E(i + 1)
  BY Zenon
<1> HIDE DEF step
<1>6. PICK f : Iterates(f, Seq(S), <<>>, step)
  BY <1>4, EmptySeq, Iteration, Zenon
<1>7. f \in [Nat -> Seq(S)] /\ f[0] = <<>> /\ \A i \in Nat : f[i + 1] = step[i][f[i]]
  BY <1>6, Zenon DEF Iterates
<1> DEFINE g == [i \in 0..n |-> f[i]]
<1>8. g \in [0..n -> Seq(S)] /\ g[0] = <<>>
  <2>1. 0 \in 0..n /\ \A i \in 0..n : i \in Nat
    BY <1>1
  <2> HIDE DEF n
  <2>2. QED
    BY <1>7, <2>1, Zenon
<1>9. ASSUME NEW i \in 1..n PROVE g[i] = g[i - 1] \o seqs[i]
  <2>1. i - 1 \in Nat /\ (i - 1) + 1 = i /\ i \in 0..n /\ i - 1 \in 0..n
    BY <1>1
  <2> HIDE DEF n
  <2>2. f[i] = step[i - 1][f[i - 1]] /\ f[i - 1] \in Seq(S)
    BY <1>7, <2>1, Zenon
  <2>3. step[i - 1][f[i - 1]] = f[i - 1] \o E((i - 1) + 1)
    BY <1>5, <2>1, <2>2, Zenon
  <2>4. E((i - 1) + 1) = seqs[i]
    BY <1>3, <2>1, Zenon
  <2>5. g[i] = f[i] /\ g[i - 1] = f[i - 1]
    BY <2>1, Zenon
  <2> HIDE DEF g
  <2>6. QED
    BY <2>2, <2>3, <2>4, <2>5, Zenon
<1> HIDE DEF g
<1>10. Flattens(g, seqs, S)
  BY <1>8, <1>9, Zenon DEF Flattens
<1>11. QED
  BY <1>10, Zenon

\* FlattenSeq concatenates them all.
LEMMA FlattenIs ==
  ASSUME NEW S, NEW seqs \in Seq(Seq(S)), NEW f, Flattens(f, seqs, S)
  PROVE  FlattenSeq(seqs) = f[Len(seqs)]
<1> DEFINE n == Len(seqs)
           Is(g) == g = [i \in 1..n |-> IF i = 1 THEN seqs[i] ELSE g[i - 1] \o seqs[i]]
           g == [i \in 1..n |-> f[i]]
<1>1. n \in Nat /\ \A i \in 1..n : seqs[i] \in Seq(S)
  OBVIOUS
<1>2. f \in [0..n -> Seq(S)] /\ f[0] = <<>> /\ \A i \in 1..n : f[i] = f[i - 1] \o seqs[i]
  BY Zenon DEF Flattens
<1>3. ASSUME 1 \in 1..n PROVE f[1] = seqs[1]
  <2>1. 1 - 1 = 0
    OBVIOUS
  <2>2. f[1] = <<>> \o seqs[1]
    BY <1>2, <1>3, <2>1, Zenon
  <2>3. QED
    BY <1>1, <1>3, <2>2, ConcatEmptySeq, Zenon
<1>4. Is(g)
  <2>1. ASSUME NEW i \in 1..n
        PROVE  f[i] = IF i = 1 THEN seqs[i] ELSE g[i - 1] \o seqs[i]
    <3>1. CASE i = 1
      BY <1>3, <3>1, Zenon
    <3>2. CASE i # 1
      <4>1. i - 1 \in 1..n
        BY <1>1, <3>2
      <4>2. g[i - 1] = f[i - 1]
        BY <4>1, Zenon
      <4> HIDE DEF g
      <4>3. QED
        BY <1>2, <3>2, <4>2, Zenon
    <3>3. QED
      BY <3>1, <3>2, Zenon
  <2>2. \A i \in 1..n : g[i] = f[i]
    BY Zenon
  <2>3. g = [i \in 1..n |-> g[i]]
    BY Zenon
  <2> HIDE DEF g, n
  <2>4. QED
    BY <2>1, <2>2, <2>3, Zenon
<1> HIDE DEF g
<1> DEFINE h == CHOOSE x : Is(x)
<1>5. Is(h)
  BY <1>4, Zenon
<1>6. FlattenSeq(seqs) = IF n = 0 THEN seqs ELSE h[n]
  BY Zenon DEF FlattenSeq
<1> HIDE DEF h
<1> DEFINE T == {i \in Nat : i \in 1..n => h[i] = f[i]}
<1>7. 0 \in T
  OBVIOUS
<1>8. \A i \in Nat : i \in T => i + 1 \in T
  <2> SUFFICES ASSUME NEW i \in Nat, i \in T, i + 1 \in 1..n PROVE h[i + 1] = f[i + 1]
    OBVIOUS
  <2>1. CASE i + 1 = 1
    <3>1. h[1] = seqs[1]
      BY <1>5, <2>1, Zenon
    <3>2. QED
      BY <1>3, <2>1, <3>1, Zenon
  <2>2. CASE i + 1 # 1
    <3>1. i \in 1..n /\ (i + 1) - 1 = i
      BY <1>1, <2>2
    <3>2. h[i] = f[i]
      BY <3>1, Zenon
    <3>3. h[i + 1] = h[(i + 1) - 1] \o seqs[i + 1]
      BY <1>5, <2>2, Zenon
    <3>4. f[i + 1] = f[(i + 1) - 1] \o seqs[i + 1]
      BY <1>2, Zenon
    <3>5. QED
      BY <3>1, <3>2, <3>3, <3>4, Zenon
  <2>3. QED
    BY <2>1, <2>2, Zenon
<1> HIDE DEF T
<1>9. n \in T
  BY <1>1, <1>7, <1>8, SetInduction
<1>10. CASE n = 0
  <2>1. seqs = <<>>
    BY <1>10
  <2>2. QED
    BY <1>2, <1>6, <1>10, <2>1, Zenon
<1>11. CASE n # 0
  <2>1. n \in 1..n
    BY <1>1, <1>11
  <2>2. h[n] = f[n]
    BY <1>9, <2>1, Zenon DEF T
  <2>3. QED
    BY <1>6, <1>11, <2>2, Zenon
<1>12. QED
  BY <1>10, <1>11, Zenon

\* A concatenation of sequences over S is one.
LEMMA FlattenType ==
  ASSUME NEW S, NEW seqs \in Seq(Seq(S))
  PROVE  FlattenSeq(seqs) \in Seq(S)
<1>1. PICK f : Flattens(f, seqs, S)
  BY FlattensExists, Zenon
<1>2. FlattenSeq(seqs) = f[Len(seqs)]
  BY <1>1, FlattenIs, Zenon
<1>3. f \in [0..Len(seqs) -> Seq(S)] /\ Len(seqs) \in 0..Len(seqs)
  BY <1>1 DEF Flattens
<1>4. QED
  BY <1>2, <1>3, Zenon

\* One sequence more at the end.
LEMMA FlattenAppend ==
  ASSUME NEW S, NEW seqs \in Seq(Seq(S)), NEW e \in Seq(S)
  PROVE  FlattenSeq(Append(seqs, e)) = FlattenSeq(seqs) \o e
<1> DEFINE n == Len(seqs)
           t == Append(seqs, e)
<1>1. PICK f : Flattens(f, seqs, S)
  BY FlattensExists, Zenon
<1>2. FlattenSeq(seqs) = f[n]
  BY <1>1, FlattenIs, Zenon
<1>3. /\ t \in Seq(Seq(S)) /\ Len(t) = n + 1 /\ n \in Nat
      /\ \A i \in 1..n : t[i] = seqs[i]
      /\ t[n + 1] = e
  BY AppendProperties
<1>4. f \in [0..n -> Seq(S)] /\ f[0] = <<>> /\ \A i \in 1..n : f[i] = f[i - 1] \o seqs[i]
  BY <1>1, Zenon DEF Flattens
<1> HIDE DEF n, t
<1> DEFINE g == [i \in 0..(n + 1) |-> IF i = n + 1 THEN f[n] \o e ELSE f[i]]
<1>5. f[n] \in Seq(S) /\ f[n] \o e \in Seq(S)
  <2>1. f[n] \in Seq(S)
    BY <1>3, <1>4
  <2>2. QED
    BY <2>1, ConcatProperties, Zenon
<1>6. \A i \in 0..n : i \in 0..(n + 1) /\ i # n + 1
  BY <1>3
<1>7. (n + 1) \in 0..(n + 1) /\ 0 \in 0..n /\ n \in 0..n /\ (n + 1) - 1 = n
  BY <1>3
<1>8. (\A i \in 0..n : g[i] = f[i]) /\ g[n + 1] = f[n] \o e
  BY <1>6, <1>7, Zenon
<1>9. g \in [0..(n + 1) -> Seq(S)]
  <2>1. ASSUME NEW i \in 0..(n + 1) PROVE g[i] \in Seq(S)
    <3>1. i \in 0..n \/ i = n + 1
      BY <1>3
    <3> HIDE DEF g
    <3>2. QED
      BY <1>4, <1>5, <1>8, <3>1, Zenon
  <2>2. g = [i \in 0..(n + 1) |-> g[i]]
    BY Zenon
  <2> HIDE DEF g
  <2>3. QED
    BY <2>1, <2>2, Zenon
<1> HIDE DEF g
<1>10. ASSUME NEW i \in 1..(n + 1) PROVE g[i] = g[i - 1] \o t[i]
  <2>1. CASE i = n + 1
    BY <1>3, <1>7, <1>8, <2>1, Zenon
  <2>2. CASE i # n + 1
    <3>1. i \in 1..n /\ i - 1 \in 0..n /\ i \in 0..n
      BY <1>3, <2>2
    <3>2. QED
      BY <1>3, <1>4, <1>8, <3>1, Zenon
  <2>3. QED
    BY <2>1, <2>2, Zenon
<1>11. Flattens(g, t, S)
  BY <1>3, <1>4, <1>7, <1>8, <1>9, <1>10, Zenon DEF Flattens
<1>12. FlattenSeq(t) = g[n + 1]
  BY <1>3, <1>11, FlattenIs, Zenon
<1>13. QED
  BY <1>2, <1>8, <1>12, Zenon DEF t

\* One sequence more at the front.
LEMMA FlattenCons ==
  ASSUME NEW S, NEW seqs \in Seq(Seq(S)), NEW e \in Seq(S)
  PROVE  FlattenSeq(<<e>> \o seqs) = e \o FlattenSeq(seqs)
<1> DEFINE n == Len(seqs)
           o == <<e>>
           t == o \o seqs
<1>1. PICK f : Flattens(f, seqs, S)
  BY FlattensExists, Zenon
<1>2. FlattenSeq(seqs) = f[n]
  BY <1>1, FlattenIs, Zenon
<1>a. o \in Seq(Seq(S)) /\ Len(o) = 1 /\ o[1] = e
  OBVIOUS
<1> HIDE DEF o
<1>b. Joined(t, o, seqs, Seq(S))
  BY <1>a, ConcatJoins, Zenon
<1> HIDE DEF t
<1>3. /\ t \in Seq(Seq(S)) /\ Len(t) = n + 1 /\ n \in Nat
      /\ \A i \in 1..n : t[i + 1] = seqs[i]
      /\ t[1] = e
  BY <1>a, <1>b DEF Joined
<1>4. f \in [0..n -> Seq(S)] /\ f[0] = <<>> /\ \A i \in 1..n : f[i] = f[i - 1] \o seqs[i]
  BY <1>1, Zenon DEF Flattens
<1>c. \A i \in 1..n : seqs[i] \in Seq(S)
  OBVIOUS
<1> HIDE DEF n
<1> DEFINE g == [i \in 0..(n + 1) |-> IF i = 0 THEN <<>> ELSE e \o f[i - 1]]
<1>5. ASSUME NEW i \in 1..(n + 1) PROVE i - 1 \in 0..n /\ i \in 0..(n + 1) /\ i # 0
  BY <1>3
<1>6. 0 \in 0..(n + 1) /\ n + 1 \in 1..(n + 1) /\ (n + 1) - 1 = n
  BY <1>3
<1>7. g[0] = <<>> /\ \A i \in 1..(n + 1) : g[i] = e \o f[i - 1]
  BY <1>5, <1>6, Zenon
<1>8. g \in [0..(n + 1) -> Seq(S)]
  <2>1. ASSUME NEW i \in 0..(n + 1) PROVE g[i] \in Seq(S)
    <3>1. i = 0 \/ i \in 1..(n + 1)
      BY <1>3
    <3> HIDE DEF g
    <3>2. CASE i = 0
      BY <1>7, <3>2, EmptySeq, Zenon
    <3>3. CASE i \in 1..(n + 1)
      <4>1. f[i - 1] \in Seq(S)
        BY <1>4, <1>5, <3>3, Zenon
      <4>2. QED
        BY <1>7, <3>3, <4>1, ConcatProperties, Zenon
    <3>4. QED
      BY <3>1, <3>2, <3>3, Zenon
  <2>2. g = [i \in 0..(n + 1) |-> g[i]]
    BY Zenon
  <2> HIDE DEF g
  <2>3. QED
    BY <2>1, <2>2, Zenon
<1> HIDE DEF g
<1>9. ASSUME NEW i \in 1..(n + 1) PROVE g[i] = g[i - 1] \o t[i]
  <2>1. CASE i = 1
    <3>1. 1 - 1 = 0
      OBVIOUS
    <3>2. g[1] = e \o <<>> /\ g[1 - 1] \o t[1] = <<>> \o e
      BY <1>3, <1>4, <1>7, <2>1, <3>1, Zenon
    <3>3. QED
      BY <2>1, <3>2, ConcatEmptySeq, Zenon
  <2>2. CASE i # 1
    <3>1. i - 1 \in 1..n /\ i - 1 \in 1..(n + 1) /\ (i - 1) + 1 = i /\ (i - 1) - 1 \in 0..n
      BY <1>3, <2>2
    <3>2. f[i - 1] = f[(i - 1) - 1] \o seqs[i - 1] /\ t[i] = seqs[i - 1]
      BY <1>3, <1>4, <3>1, Zenon
    <3>3. g[i] = e \o f[i - 1] /\ g[i - 1] = e \o f[(i - 1) - 1]
      BY <1>7, <3>1, Zenon
    <3>4. f[(i - 1) - 1] \in Seq(S) /\ seqs[i - 1] \in Seq(S)
      BY <1>4, <1>c, <3>1, Zenon
    <3>5. (e \o f[(i - 1) - 1]) \o seqs[i - 1] = e \o (f[(i - 1) - 1] \o seqs[i - 1])
      <4> DEFINE x == f[(i - 1) - 1]
                 y == seqs[i - 1]
      <4>1. x \in Seq(S) /\ y \in Seq(S)
        BY <3>4
      <4> HIDE DEF x, y
      <4>2. (e \o x) \o y = e \o (x \o y)
        <5>1. Rejoined(e, x, y)
          BY <4>1, Associative, Zenon
        <5>2. QED
          BY <5>1, Zenon DEF Rejoined
      <4>3. QED
        BY <4>2 DEF x, y
    <3>6. QED
      BY <3>2, <3>3, <3>5, Zenon
  <2>3. QED
    BY <2>1, <2>2, Zenon
<1>10. Flattens(g, t, S)
  BY <1>3, <1>7, <1>8, <1>9, Zenon DEF Flattens
<1>11. FlattenSeq(t) = g[n + 1]
  BY <1>3, <1>10, FlattenIs, Zenon
<1>12. g[n + 1] = e \o f[n]
  BY <1>6, <1>7, Zenon
<1>13. QED
  BY <1>2, <1>11, <1>12, Zenon DEF t, o

-----------------------------------------------------------------------------
(***************************************************************************)
(* Lists of AVPs as octets.                                                *)
(***************************************************************************)
\* The octets of one AVP whose members are nested less than n deep.
One(n, a) ==
  EncodeAvp(a, IF a.avps = <<>> THEN <<>> ELSE Encode_group[n - 1][a.avps])

\* What the AVPs of a list are encoded to.
Each(n, avps) == [i \in 1..Len(avps) |-> One(n, avps[i])]

\* Encode_group concatenates what its AVPs are encoded to.
LEMMA EncodeIs ==
  ASSUME NEW n \in Nat, NEW avps \in Seq(AVPs[n])
  PROVE  Encode_group[n][avps] = FlattenSeq(Each(n, avps))
<1>1. Encode_group[n] = EncodeStep(Encode_group, n)
  BY EncodeSteps, Zenon
<1>2. EncodeStep(Encode_group, n)[avps] = FlattenSeq(Each(n, avps))
  BY Zenon DEF EncodeStep, Each, One
<1>3. QED
  BY <1>1, <1>2, Zenon

\* How deep the function could go does not matter.
LEMMA DepthIrrelevant ==
  ASSUME NEW n \in Nat, NEW avps \in Seq(AVPs[n])
  PROVE  Encode_group[n + 1][avps] = Encode_group[n][avps]
<1> DEFINE P(k) == \A s \in Seq(AVPs[k]) : Encode_group[k + 1][s] = Encode_group[k][s]
           S == {k \in Nat : P(k)}
<1>1. ASSUME NEW k \in Nat, \A a \in AVPs[k] : One(k + 1, a) = One(k, a)
      PROVE  P(k)
  <2> SUFFICES ASSUME NEW s \in Seq(AVPs[k])
               PROVE  Encode_group[k + 1][s] = Encode_group[k][s]
    BY Zenon
  <2>1. \A i \in 1..Len(s) : s[i] \in AVPs[k]
    OBVIOUS
  <2>2. \A i \in 1..Len(s) : One(k + 1, s[i]) = One(k, s[i])
    BY <1>1, <2>1, Zenon
  <2>3. Each(k + 1, s) = Each(k, s)
    BY <2>2, Zenon DEF Each
  <2>4. s \in Seq(AVPs[k + 1]) /\ k + 1 \in Nat
    <3>1. AVPs[k] \subseteq AVPs[k + 1]
      BY AvpsGrow, Zenon
    <3>2. s \in Seq(AVPs[k + 1])
      BY <3>1, SeqMonotonic, Zenon
    <3>3. QED
      BY <3>2
  <2>5. QED
    BY <2>3, <2>4, EncodeIs, Zenon
<1>2. 0 \in S
  <2>1. 0 \in Nat
    OBVIOUS
  <2>2. ASSUME NEW a \in AVPs[0] PROVE One(0 + 1, a) = One(0, a)
    <3>1. a.avps = <<>>
      BY AvpsFacts, ShapedFacts
    <3>2. QED
      BY <3>1, Zenon DEF One
  <2>3. P(0)
    BY <1>1, <2>1, <2>2, Zenon
  <2>4. QED
    BY <2>1, <2>3, Zenon
<1>3. \A k \in Nat : k \in S => k + 1 \in S
  <2> SUFFICES ASSUME NEW k \in Nat, k \in S PROVE k + 1 \in S
    OBVIOUS
  <2>1. k + 1 \in Nat /\ ((k + 1) + 1) - 1 = k + 1 /\ (k + 1) - 1 = k
    OBVIOUS
  <2>2. ASSUME NEW a \in AVPs[k + 1] PROVE One((k + 1) + 1, a) = One(k + 1, a)
    <3>1. a \in Shaped(Seq(AVPs[k]))
      BY AvpsFacts, Zenon
    <3>2. a.avps \in Seq(AVPs[k])
      BY <3>1, ShapedFacts, Zenon
    <3>3. Encode_group[k + 1][a.avps] = Encode_group[k][a.avps]
      BY <3>2, Zenon
    <3>4. QED
      BY <2>1, <3>3, Zenon DEF One
  <2>3. P(k + 1)
    BY <1>1, <2>1, <2>2, Zenon
  <2>4. QED
    BY <2>1, <2>3, Zenon
<1> HIDE DEF S
<1>4. n \in S
  BY <1>2, <1>3, SetInduction
<1>5. QED
  BY <1>4, Zenon DEF S

\* An AVP of some depth is one of any greater depth.
LEMMA AvpsMonotone ==
  ASSUME NEW n \in Nat, NEW m \in Nat, n <= m
  PROVE  AVPs[n] \subseteq AVPs[m]
<1> DEFINE S == {k \in Nat : n <= k => AVPs[n] \subseteq AVPs[k]}
<1>1. 0 \in S
  OBVIOUS
<1>2. \A k \in Nat : k \in S => k + 1 \in S
  <2> SUFFICES ASSUME NEW k \in Nat, k \in S, n <= k + 1 PROVE AVPs[n] \subseteq AVPs[k + 1]
    OBVIOUS
  <2>1. CASE n <= k
    BY <2>1, AvpsGrow
  <2>2. CASE n = k + 1
    BY <2>2
  <2>3. QED
    BY <2>1, <2>2
<1> HIDE DEF S
<1>3. m \in S
  BY <1>1, <1>2, SetInduction
<1>4. QED
  BY <1>3 DEF S

-----------------------------------------------------------------------------
(***************************************************************************)
(* A list of AVPs as octets.                                               *)
(***************************************************************************)
AllAvps == AVPs[MaxDepth]
\* The octets of an AVP in a message.
OctetsOf(a) == One(MaxDepth, a)

\* Every AVP in the list can be encoded.
Encodable(avps) ==
  avps \in Seq(AllAvps) /\ \A i \in 1..Len(avps) : OctetsOf(avps[i]) \in Seq(Octets)

\* A list whose AVPs encode to octets encodes to octets.
LEMMA EncodeList ==
  ASSUME NEW avps, Encodable(avps)
  PROVE  /\ Each(MaxDepth, avps) \in Seq(Seq(Octets))
         /\ EncodeAvps(avps) = FlattenSeq(Each(MaxDepth, avps))
         /\ EncodeAvps(avps) \in Seq(Octets)
<1> DEFINE s == Each(MaxDepth, avps)
<1>1. avps \in Seq(AllAvps) /\ \A i \in 1..Len(avps) : One(MaxDepth, avps[i]) \in Seq(Octets)
  BY Zenon DEF Encodable, OctetsOf
<1>2. s \in Seq(Seq(Octets))
  <2>1. Len(avps) \in Nat
    BY <1>1
  <2>2. s = [i \in 1..Len(avps) |-> One(MaxDepth, avps[i])]
    BY Zenon DEF Each
  <2> HIDE DEF s
  <2>3. QED
    BY <1>1, <2>1, <2>2
<1>3. MaxDepth \in Nat
  BY CodecAssumption
<1>4. EncodeAvps(avps) = FlattenSeq(s)
  BY <1>1, <1>3, EncodeIs, Zenon DEF EncodeAvps, AllAvps
<1> HIDE DEF s
<1>5. FlattenSeq(s) \in Seq(Octets)
  BY <1>2, FlattenType, Zenon
<1>6. QED
  BY <1>2, <1>4, <1>5, Zenon DEF s

\* No AVPs, no octets.
LEMMA EncodeEmpty ==
  /\ Encodable(<<>>)
  /\ EncodeAvps(<<>>) = <<>>
<1>1. Encodable(<<>>)
  BY EmptySeq DEF Encodable
<1>2. Each(MaxDepth, <<>>) = <<>>
  BY DEF Each
<1>3. FlattenSeq(<<>>) = <<>>
  BY DEF FlattenSeq
<1>4. QED
  BY <1>1, <1>2, <1>3, EncodeList, Zenon

\* AddAVPs_Tail adds octets at the end.
LEMMA EncodeTail ==
  ASSUME NEW avps, Encodable(avps), NEW a \in AllAvps, OctetsOf(a) \in Seq(Octets)
  PROVE  /\ Encodable(Append(avps, a))
         /\ EncodeAvps(Append(avps, a)) = EncodeAvps(avps) \o OctetsOf(a)
<1> DEFINE t == Append(avps, a)
           s == Each(MaxDepth, avps)
           e == OctetsOf(a)
           n == Len(avps)
<1>1. avps \in Seq(AllAvps) /\ \A i \in 1..n : OctetsOf(avps[i]) \in Seq(Octets)
  BY Zenon DEF Encodable
<1>2. /\ t \in Seq(AllAvps) /\ Len(t) = n + 1 /\ n \in Nat
      /\ \A i \in 1..n : t[i] = avps[i]
      /\ t[n + 1] = a
  BY <1>1, AppendProperties
<1> HIDE DEF t
<1>3. \A i \in 1..(n + 1) : i \in 1..n \/ i = n + 1
  BY <1>2
<1> HIDE DEF n
<1>4. Encodable(t)
  <2>1. \A i \in 1..(n + 1) : OctetsOf(t[i]) \in Seq(Octets)
    BY <1>1, <1>2, <1>3, Zenon
  <2>2. QED
    BY <1>2, <2>1, Zenon DEF Encodable
<1>5. s \in Seq(Seq(Octets)) /\ EncodeAvps(avps) = FlattenSeq(s)
  BY EncodeList, Zenon
<1>6. Each(MaxDepth, t) \in Seq(Seq(Octets)) /\ EncodeAvps(t) = FlattenSeq(Each(MaxDepth, t))
  BY <1>4, EncodeList, Zenon
<1>7. Len(s) = n /\ \A i \in 1..n : s[i] = OctetsOf(avps[i])
  BY <1>2 DEF Each, OctetsOf, n
<1>8. Len(Each(MaxDepth, t)) = n + 1 /\ \A i \in 1..(n + 1) : Each(MaxDepth, t)[i] = OctetsOf(t[i])
  BY <1>2 DEF Each, OctetsOf
<1> HIDE DEF s, e
<1>9. e \in Seq(Octets)
  BY DEF e
<1>10. Each(MaxDepth, t) = Append(s, e)
  <2>1. /\ Append(s, e) \in Seq(Seq(Octets)) /\ Len(Append(s, e)) = n + 1
        /\ \A i \in 1..n : Append(s, e)[i] = s[i]
        /\ Append(s, e)[n + 1] = e
    BY <1>5, <1>7, <1>9, AppendProperties
  <2>2. \A i \in 1..(n + 1) : Each(MaxDepth, t)[i] = Append(s, e)[i]
    BY <1>2, <1>3, <1>7, <1>8, <2>1, Zenon DEF e
  <2>3. QED
    BY <1>6, <1>8, <2>1, <2>2, SeqEqual, Zenon
<1>11. FlattenSeq(Append(s, e)) = FlattenSeq(s) \o e
  BY <1>5, <1>9, FlattenAppend, Zenon
<1>12. QED
  BY <1>4, <1>5, <1>6, <1>10, <1>11, Zenon DEF e, t

\* AddAVPs_Head adds octets at the front.
LEMMA EncodeHead ==
  ASSUME NEW avps, Encodable(avps), NEW a \in AllAvps, OctetsOf(a) \in Seq(Octets)
  PROVE  /\ Encodable(<<a>> \o avps)
         /\ EncodeAvps(<<a>> \o avps) = OctetsOf(a) \o EncodeAvps(avps)
<1> DEFINE o == <<a>>
           t == o \o avps
           s == Each(MaxDepth, avps)
           e == OctetsOf(a)
           n == Len(avps)
<1>1. avps \in Seq(AllAvps) /\ \A i \in 1..n : OctetsOf(avps[i]) \in Seq(Octets)
  BY Zenon DEF Encodable
<1>a. o \in Seq(AllAvps) /\ Len(o) = 1 /\ o[1] = a
  OBVIOUS
<1> HIDE DEF o
<1>b. Joined(t, o, avps, AllAvps)
  BY <1>1, <1>a, ConcatJoins, Zenon
<1> HIDE DEF t
<1>2. /\ t \in Seq(AllAvps) /\ Len(t) = n + 1 /\ n \in Nat
      /\ \A i \in 1..n : t[i + 1] = avps[i]
      /\ t[1] = a
  BY <1>1, <1>a, <1>b DEF Joined
<1>3. \A i \in 1..(n + 1) : i = 1 \/ (i - 1 \in 1..n /\ (i - 1) + 1 = i)
  BY <1>2
<1> HIDE DEF n
<1>4. Encodable(t)
  <2>1. ASSUME NEW i \in 1..(n + 1) PROVE OctetsOf(t[i]) \in Seq(Octets)
    <3>1. CASE i = 1
      BY <1>2, <3>1, Zenon
    <3>2. CASE i - 1 \in 1..n /\ (i - 1) + 1 = i
      <4>1. t[i] = avps[i - 1]
        BY <1>2, <3>2, Zenon
      <4>2. QED
        BY <1>1, <3>2, <4>1, Zenon
    <3>3. QED
      BY <1>3, <3>1, <3>2, Zenon
  <2>2. QED
    BY <1>2, <2>1, Zenon DEF Encodable
<1>5. s \in Seq(Seq(Octets)) /\ EncodeAvps(avps) = FlattenSeq(s)
  BY EncodeList, Zenon
<1>6. Each(MaxDepth, t) \in Seq(Seq(Octets)) /\ EncodeAvps(t) = FlattenSeq(Each(MaxDepth, t))
  BY <1>4, EncodeList, Zenon
<1>7. Len(s) = n /\ \A i \in 1..n : s[i] = OctetsOf(avps[i])
  BY <1>2 DEF Each, OctetsOf, n
<1>8. Len(Each(MaxDepth, t)) = n + 1 /\ \A i \in 1..(n + 1) : Each(MaxDepth, t)[i] = OctetsOf(t[i])
  BY <1>2 DEF Each, OctetsOf
<1> HIDE DEF s, e
<1>9. e \in Seq(Octets)
  BY DEF e
<1> DEFINE p == <<e>>
           u == p \o s
<1>c. p \in Seq(Seq(Octets)) /\ Len(p) = 1 /\ p[1] = e
  BY <1>9
<1> HIDE DEF p
<1>d. Joined(u, p, s, Seq(Octets))
  BY <1>5, <1>c, ConcatJoins, Zenon
<1> HIDE DEF u
<1>10. Each(MaxDepth, t) = u
  <2>1. /\ u \in Seq(Seq(Octets)) /\ Len(u) = n + 1
        /\ \A i \in 1..n : u[i + 1] = s[i]
        /\ u[1] = e
    BY <1>2, <1>7, <1>c, <1>d DEF Joined
  <2>2. ASSUME NEW i \in 1..(n + 1) PROVE Each(MaxDepth, t)[i] = u[i]
    <3>1. CASE i = 1
      BY <1>2, <1>8, <2>1, <3>1, Zenon DEF e
    <3>2. CASE i - 1 \in 1..n /\ (i - 1) + 1 = i
      <4>1. t[i] = avps[i - 1] /\ u[i] = s[i - 1]
        BY <1>2, <2>1, <3>2, Zenon
      <4>2. QED
        BY <1>7, <1>8, <3>2, <4>1, Zenon
    <3>3. QED
      BY <1>3, <3>1, <3>2, Zenon
  <2>3. QED
    BY <1>6, <1>8, <2>1, <2>2, SeqEqual, Zenon
<1>11. FlattenSeq(u) = e \o FlattenSeq(s)
  BY <1>5, <1>9, FlattenCons, Zenon DEF u, p
<1>12. QED
  BY <1>4, <1>5, <1>6, <1>10, <1>11, Zenon DEF e, t, o

\* One AVP alone.
LEMMA EncodeSingle ==
  ASSUME NEW a \in AllAvps, OctetsOf(a) \in Seq(Octets)
  PROVE  /\ Encodable(<<a>>)
         /\ EncodeAvps(<<a>>) = OctetsOf(a)
<1>1. Append(<<>>, a) = <<a>>
  OBVIOUS
<1>2. Encodable(Append(<<>>, a)) /\ EncodeAvps(Append(<<>>, a)) = <<>> \o OctetsOf(a)
  BY EncodeEmpty, EncodeTail, Zenon
<1>3. <<>> \o OctetsOf(a) = OctetsOf(a)
  BY ConcatEmptySeq, Zenon
<1>4. QED
  BY <1>1, <1>2, <1>3, Zenon

\* The octets of an AVP without members, and of one with members.
LEMMA OctetsOfLeaf ==
  ASSUME NEW a, a.avps = <<>>
  PROVE  OctetsOf(a) = EncodeAvp(a, <<>>)
  BY Zenon DEF OctetsOf, One

\* A group encodes what its members encode to, however deep it could go.
LEMMA OctetsOfGroup ==
  ASSUME NEW n \in Nat, n < MaxDepth, NEW a, a.avps \in Seq(AVPs[n])
  PROVE  /\ a.avps \in Seq(AllAvps)
         /\ OctetsOf(a) = EncodeAvp(a, EncodeAvps(a.avps))
<1> DEFINE m == MaxDepth - 1
<1>1. MaxDepth \in Nat
  BY CodecAssumption
<1>2. m \in Nat /\ m + 1 = MaxDepth /\ n <= m /\ n <= MaxDepth
  BY <1>1
<1>3. a.avps \in Seq(AVPs[m]) /\ a.avps \in Seq(AllAvps)
  <2>1. AVPs[n] \subseteq AVPs[m] /\ AVPs[n] \subseteq AVPs[MaxDepth]
    BY <1>1, <1>2, AvpsMonotone
  <2>2. QED
    BY <2>1, SeqMonotonic, Zenon DEF AllAvps
<1>4. Encode_group[m + 1][a.avps] = Encode_group[m][a.avps]
  BY <1>2, <1>3, DepthIrrelevant, Zenon
<1>5. EncodeAvps(a.avps) = Encode_group[m][a.avps]
  BY <1>2, <1>4, Zenon DEF EncodeAvps
<1>6. EncodeAvps(<<>>) = <<>>
  BY EncodeEmpty, Zenon
<1>7. (IF a.avps = <<>> THEN <<>> ELSE Encode_group[MaxDepth - 1][a.avps]) = EncodeAvps(a.avps)
  BY <1>5, <1>6, Zenon
<1>8. QED
  BY <1>3, <1>7, Zenon DEF OctetsOf, One

-----------------------------------------------------------------------------
(***************************************************************************)
(* One AVP decoded.                                                        *)
(***************************************************************************)
\* The octets t start with the AVP a, and go on with rest.
GoesOn(t, a, data, n, rest) ==
  StartsWith(t, a, data, n) /\ SubSeq(t, FullSize(a, data) + 1, Len(t)) = rest

\* What follows an AVP does not change how it starts.
LEMMA FirstAndRest ==
  ASSUME NEW a, a.vendor_id \in Int, a.avp_code \in Int, NEW data \in Seq(Octets), NEW n \in Int,
         NEW u, StartsWith(u, a, data, n), Len(u) = FullSize(a, data), NEW rest \in Seq(Octets)
  PROVE  GoesOn(u \o rest, a, data, n, rest)
<1> DEFINE t == u \o rest
           k == FullSize(a, data)
           h == HeadSize(a)
           c == BigEndian(a.avp_code, 4)
           w == BigEndian(a.vendor_id, 4)
           l == BigEndian(n, 3)
           f == FlagsOf(a, n)
<1>1. /\ u \in Seq(Octets) /\ Len(u) >= k
      /\ \A i \in 1..4 : u[i] = c[i]
      /\ u[5] = f
      /\ \A i \in 1..3 : u[5 + i] = l[i]
      /\ a.vendor_id > 0 => \A i \in 1..4 : u[8 + i] = w[i]
      /\ \A i \in 1..Len(data) : u[h + i] = data[i]
  BY Zenon DEF StartsWith
<1>2. Joined(t, u, rest, Octets)
  BY <1>1, ConcatJoins, Zenon
<1>3. /\ h \in {8, 12} /\ k \in Nat /\ k >= h + Len(data) /\ Len(data) \in Nat
      /\ a.vendor_id > 0 => h = 12
  BY FullSizeFacts DEF HeadSize
<1> HIDE DEF t, k, h, c, w, l, f
<1>4. /\ t \in Seq(Octets) /\ Len(t) = k + Len(rest) /\ Len(rest) \in Nat
      /\ \A i \in 1..k : t[i] = u[i]
      /\ \A i \in 1..Len(rest) : t[k + i] = rest[i]
  BY <1>2 DEF Joined, k
<1>5. StartsWith(t, a, data, n)
  <2>1. Len(t) >= k /\ t[5] = f
    BY <1>1, <1>3, <1>4
  <2>2. (\A i \in 1..4 : t[i] = c[i]) /\ (\A i \in 1..3 : t[5 + i] = l[i])
    <3>1. (\A i \in 1..4 : i \in 1..k) /\ (\A i \in 1..3 : 5 + i \in 1..k)
      BY <1>3
    <3>2. QED
      BY <1>1, <1>4, <3>1, Zenon
  <2>3. a.vendor_id > 0 => \A i \in 1..4 : t[8 + i] = w[i]
    <3>1. a.vendor_id > 0 => \A i \in 1..4 : 8 + i \in 1..k
      BY <1>3
    <3>2. QED
      BY <1>1, <1>4, <3>1, Zenon
  <2>4. \A i \in 1..Len(data) : t[h + i] = data[i]
    <3>1. \A i \in 1..Len(data) : h + i \in 1..k
      BY <1>3
    <3>2. QED
      BY <1>1, <1>4, <3>1
  <2>5. QED
    BY <1>4, <2>1, <2>2, <2>3, <2>4, Zenon DEF StartsWith, k, h, c, w, l, f
<1>6. SubSeq(t, k + 1, k + Len(rest)) = rest
  BY <1>3, <1>4, PartIs
<1>7. QED
  BY <1>4, <1>5, <1>6, Zenon DEF GoesOn, t, k

\* What the receiver makes of the AVP a with these octets of data.
DecodedAs(a, data) ==
  LET format == LookUpAvp(a.avp_code, a.vendor_id)
  IN  [avp_code |-> a.avp_code, vendor_flag |-> a.vendor_flag,
       mandatory_flag |-> a.mandatory_flag, vendor_id |-> a.vendor_id,
       data |-> Value(format, data), format |-> format,
       avps |-> IF format = "Grouped" THEN Decode_AVPs[data] ELSE <<>>]

\* The receiver decodes the first AVP and goes on with what follows it.
LEMMA DecodeOne ==
  ASSUME NEW a, HasHeader(a), NEW data \in Seq(Octets), HeadSize(a) + Len(data) < Pow[3],
         ~ Len(data) < Needed(LookUpAvp(a.avp_code, a.vendor_id)), NEW rest \in Seq(Octets)
  PROVE  Decode_AVPs[AvpOctets(a, data, HeadSize(a) + Len(data)) \o rest]
           = <<DecodedAs(a, data)>> \o Decode_AVPs[rest]
<1> DEFINE n == HeadSize(a) + Len(data)
           u == AvpOctets(a, data, n)
           in == u \o rest
           k == FullSize(a, data)
<1>1. a.vendor_id \in Int /\ a.avp_code \in Int
  BY DEF HasHeader
<1>2. HeadSize(a) \in {8, 12} /\ Len(data) \in Nat /\ n \in Int /\ k \in Nat /\ k >= n
  BY FullSizeFacts
<1>3. StartsWith(u, a, data, n) /\ Len(u) = k
  <2> HIDE DEF n
  <2>1. QED
    BY <1>1, <1>2, AvpOctetsFacts, Zenon
<1>4. StartsWith(in, a, data, n) /\ SubSeq(in, k + 1, Len(in)) = rest
  <2> HIDE DEF n, u
  <2>1. Len(u) = FullSize(a, data)
    BY <1>3
  <2>2. GoesOn(u \o rest, a, data, n, rest)
    BY <1>1, <1>2, <1>3, <2>1, FirstAndRest, Zenon
  <2>3. QED
    BY <2>2, Zenon DEF GoesOn
<1> HIDE DEF u, in, k
<1>5. Finds(in, a, data)
  BY <1>4, FindsParts, Zenon
<1>6. /\ VendorFlag(in) = a.vendor_flag /\ IsSet(in[5], SecondBit) = a.mandatory_flag
      /\ HeaderOf(in) = HeadSize(a) /\ CodeOf(in) = a.avp_code /\ VendorOf(in) = a.vendor_id
      /\ LengthOf(in) = n /\ NextOf(in) = k /\ DataOf(in) = data
  BY <1>5, Zenon DEF Finds, k
<1>7. in \in Seq(Octets) /\ Len(in) \in Nat /\ Len(in) >= k
  BY <1>4 DEF StartsWith, k
<1>8. HasAvp(in)
  BY <1>2, <1>6, <1>7 DEF HasAvp
<1>9. RestOf(in) = rest
  BY <1>4, <1>6, Zenon DEF RestOf
<1>10. FormatOf(in) = LookUpAvp(a.avp_code, a.vendor_id)
  BY <1>6, Zenon DEF FormatOf
<1>11. Decode_AVP(in, IF FormatOf(in) = "Grouped" THEN Decode_AVPs[DataOf(in)] ELSE <<>>)
         = DecodedAs(a, data)
  BY <1>6, <1>10, Zenon DEF Decode_AVP, DecodedAs
<1>12. Decode_AVPs[in] = DecodeStep(Decode_AVPs, in)
  BY <1>7, DecodeAvpsStep, Zenon
<1>13. QED
  BY <1>8, <1>9, <1>11, <1>12, Zenon DEF DecodeStep, HasAvp, in, u

-----------------------------------------------------------------------------
(***************************************************************************)
(* Values of every format.                                                 *)
(***************************************************************************)
IntegerFormats == {"Integer32", "Enumerated", "Unsigned32", "Float32",
                   "Integer64", "Unsigned64", "Float64"}

\* Widths of the formats, and which formats are none of the integers.
LEMMA FormatFacts ==
  /\ DOMAIN Widths = IntegerFormats
  /\ \A f \in IntegerFormats : Widths[f] \in {4, 8}
  /\ SignedFormats \subseteq IntegerFormats
  /\ \A f \in IntegerFormats :
       f \notin StringFormats /\ f # "Time" /\ f # "Address" /\ f # "Grouped"
  /\ \A f \in StringFormats : f # "Time" /\ f # "Address" /\ f # "Grouped"
<1>1. DOMAIN Widths = IntegerFormats
  BY DEF Widths, IntegerFormats
<1>2. \A f \in IntegerFormats : Widths[f] \in {4, 8}
  BY DEF Widths, IntegerFormats
<1>3. SignedFormats \subseteq IntegerFormats
  BY DEF SignedFormats, IntegerFormats
<1>4. \A f \in IntegerFormats :
       f \notin StringFormats /\ f # "Time" /\ f # "Address" /\ f # "Grouped"
  BY DEF StringFormats, IntegerFormats
<1>5. \A f \in StringFormats : f # "Time" /\ f # "Address" /\ f # "Grouped"
  BY DEF StringFormats
<1>6. QED
  BY <1>1, <1>2, <1>3, <1>4, <1>5

\* What a value of a format looks like.
LEMMA IsValueFacts ==
  ASSUME NEW f, NEW d, IsValue(f, d)
  PROVE  /\ f \in IntegerFormats \/ f \in StringFormats \/ f \in {"Time", "Address", "Grouped"}
         /\ f \in IntegerFormats => Len(d) = 1 /\ d[1] \in Integers_of(f)
         /\ f \in StringFormats => d \in Seq(Octets)
         /\ f = "Time" => Len(d) = 1
         /\ f = "Address" => Len(d) >= 1 /\ d[1] \in 0..(Pow[2] - 1) /\ Tail(d) \in Seq(Octets)
         /\ f = "Grouped" => d = <<>>
  BY FormatFacts DEF IsValue

\* The octets of a value, format by format.
LEMMA DataIs ==
  ASSUME NEW a, NEW m
  PROVE  /\ a.format \in IntegerFormats => Data(a, m) = BigEndian(a.data[1], Widths[a.format])
         /\ a.format \in StringFormats => Data(a, m) = a.data
         /\ a.format = "Time" => Data(a, m) = EncodeTime(a.data[1])
         /\ a.format = "Address" => Data(a, m) = BigEndian(a.data[1], 2) \o Tail(a.data)
         /\ a.format = "Grouped" => Data(a, m) = m
  BY FormatFacts DEF Data

\* The value of octets, format by format.
LEMMA ValueIs ==
  ASSUME NEW f, NEW s
  PROVE  /\ f \in SignedFormats /\ Len(s) = Widths[f] =>
              Value(f, s) = <<Signed(SubSeq(s, 1, Widths[f]))>>
         /\ f \in IntegerFormats \ SignedFormats /\ Len(s) = Widths[f] =>
              Value(f, s) = <<Unsigned(SubSeq(s, 1, Widths[f]))>>
         /\ f \in StringFormats => Value(f, s) = s
         /\ f = "Time" => Value(f, s) = <<DecodeTime(SubSeq(s, 1, 4))>>
         /\ f = "Address" => Value(f, s) = <<Unsigned(SubSeq(s, 1, 2))>> \o SubSeq(s, 3, Len(s))
         /\ f = "Grouped" => Value(f, s) = <<>>
<1>1. ReadFormats \subseteq IntegerFormats
  BY DEF ReadFormats, SignedFormats, IntegerFormats
<1>2. ASSUME f \in IntegerFormats, Len(s) = Widths[f]
      PROVE  Len(s) >= Widths[f] /\ ~ Len(s) < Widths[f]
  BY <1>2, FormatFacts
<1>3. ASSUME f \in SignedFormats, Len(s) = Widths[f]
      PROVE  Value(f, s) = <<Signed(SubSeq(s, 1, Widths[f]))>>
  BY <1>1, <1>2, <1>3, FormatFacts DEF Value
<1>4. ASSUME f \in IntegerFormats \ SignedFormats, Len(s) = Widths[f]
      PROVE  Value(f, s) = <<Unsigned(SubSeq(s, 1, Widths[f]))>>
  BY <1>1, <1>2, <1>4, FormatFacts DEF Value
<1>5. ASSUME f \in StringFormats PROVE Value(f, s) = s
  BY <1>1, <1>5, FormatFacts DEF Value
<1>6. ASSUME f = "Time" PROVE Value(f, s) = <<DecodeTime(SubSeq(s, 1, 4))>>
  BY <1>1, <1>6, FormatFacts DEF Value
<1>7. ASSUME f = "Address"
      PROVE  Value(f, s) = <<Unsigned(SubSeq(s, 1, 2))>> \o SubSeq(s, 3, Len(s))
  BY <1>1, <1>7, FormatFacts DEF Value
<1>8. ASSUME f = "Grouped" PROVE Value(f, s) = <<>>
  BY <1>1, <1>8, FormatFacts DEF Value
<1>9. QED
  BY <1>3, <1>4, <1>5, <1>6, <1>7, <1>8, Zenon

\* Octets that a format needs.
LEMMA NeededIs ==
  ASSUME NEW f
  PROVE  /\ f \in IntegerFormats => Needed(f) <= Widths[f]
         /\ f \in StringFormats \union {"Grouped"} => Needed(f) = 0
         /\ f = "Time" => Needed(f) = 4
         /\ f = "Address" => Needed(f) = 2
  BY DEF Needed, Widths, IntegerFormats, StringFormats

\* A time comes back if it lies in the era; the octets do in any case.
LEMMA TimeBack ==
  ASSUME NEW P \in Nat \ {0}, NEW E \in Int, NEW t \in Int
  PROVE  /\ t \in 0..(P - 1) => (((t + E) % P) - E) % P = t
         /\ (((((t + E) % P) - E) % P) + E) % P = (t + E) % P
<1> DEFINE y == (t + E) % P
           q == (t + E) \div P
           z == (y - E) % P
           r == (y - E) \div P
<1>1. t + E \in Int
  OBVIOUS
<1>2. y \in 0..(P - 1) /\ q \in Int /\ t + E = (P * q) + y
  BY <1>1, Division, Zenon
<1> HIDE DEF y, q
<1>3. y - E \in Int
  BY <1>2
<1>4. z \in 0..(P - 1) /\ r \in Int /\ y - E = (P * r) + z
  BY <1>3, Division, Zenon
<1>5. ASSUME t \in 0..(P - 1) PROVE z = t
  <2>1. P * (-q) = -(P * q) /\ P * q \in Int /\ -q \in Int
    BY <1>2
  <2>2. y - E = (P * (-q)) + t
    BY <1>2, <2>1
  <2>3. QED
    BY <1>3, <1>5, <2>1, <2>2, DivisionUnique
<1> HIDE DEF z, r
<1>6. (z + E) % P = y
  <2>1. P * (-r) = -(P * r) /\ P * r \in Int /\ -r \in Int
    BY <1>4
  <2>2. z + E = (P * (-r)) + y /\ z + E \in Int
    BY <1>2, <1>4, <2>1
  <2>3. QED
    BY <1>2, <2>1, <2>2, DivisionUnique
<1>7. QED
  BY <1>5, <1>6, Zenon DEF y, z

\* A value is encoded to octets.
LEMMA DataOctets ==
  ASSUME NEW a, a.data \in Seq(Int), IsValue(a.format, a.data), NEW m \in Seq(Octets)
  PROVE  Data(a, m) \in Seq(Octets)
<1> DEFINE f == a.format
           d == a.data
<1>1. /\ f \in IntegerFormats \/ f \in StringFormats \/ f \in {"Time", "Address", "Grouped"}
      /\ f \in IntegerFormats => Len(d) = 1
      /\ f \in StringFormats => d \in Seq(Octets)
      /\ f = "Time" => Len(d) = 1
      /\ f = "Address" => Len(d) >= 1 /\ Tail(d) \in Seq(Octets)
  BY IsValueFacts, Zenon
<1>2. CASE f \in IntegerFormats
  <2>1. d[1] \in Int /\ Widths[f] \in Nat
    BY <1>1, <1>2, FormatFacts
  <2>2. Data(a, m) = BigEndian(d[1], Widths[f])
    BY <1>2, DataIs, Zenon
  <2>3. QED
    BY <2>1, <2>2, BigEndianFacts, Zenon
<1>3. CASE f \in StringFormats
  BY <1>1, <1>3, DataIs, Zenon
<1>4. CASE f = "Time"
  <2>1. d[1] \in Int
    BY <1>1, <1>4
  <2>2. (d[1] + EpochShift) % Pow[4] \in Int /\ 4 \in Nat
    <3>1. d[1] + EpochShift \in Int
      BY <2>1, CodecAssumption
    <3>2. Pow[4] \in Nat \ {0}
      BY PowFacts
    <3> DEFINE y == (d[1] + EpochShift) % Pow[4]
    <3>3. y \in 0..(Pow[4] - 1)
      BY <3>1, <3>2, Division, Zenon
    <3> HIDE DEF y
    <3>4. y \in Int
      BY <3>2, <3>3
    <3>5. QED
      BY <3>4 DEF y
  <2>3. EncodeTime(d[1]) \in Seq(Octets)
    BY <2>2, BigEndianFacts, Zenon DEF EncodeTime
  <2>4. QED
    BY <1>4, <2>3, DataIs, Zenon
<1>5. CASE f = "Address"
  <2>1. d[1] \in Int /\ 2 \in Nat
    BY <1>1, <1>5
  <2>2. BigEndian(d[1], 2) \in Seq(Octets)
    BY <2>1, BigEndianFacts, Zenon
  <2>3. BigEndian(d[1], 2) \o Tail(d) \in Seq(Octets)
    BY <1>1, <1>5, <2>2, ConcatProperties, Zenon
  <2>4. QED
    BY <1>5, <2>3, DataIs, Zenon
<1>6. CASE f = "Grouped"
  BY <1>6, DataIs, Zenon
<1>7. QED
  BY <1>1, <1>2, <1>3, <1>4, <1>5, <1>6

\* The octets d of a's data, read in the format f, give a value that has the same
\* octets, and a's own if the format is a's and a time lies in the era.
Returns(a, f, d) ==
  /\ ~ Len(d) < Needed(f)
  /\ Value(f, d) \in Seq(Int)
  /\ f # "Grouped" => \A b : b.format = f /\ b.data = Value(f, d) => Data(b, <<>>) = d
  /\ f = a.format /\ (f = "Time" => a.data[1] \in 0..(Pow[4] - 1)) => Value(f, d) = a.data

\* A tuple of one.
LEMMA OneElement ==
  ASSUME NEW d \in Seq(Int), Len(d) = 1
  PROVE  d = <<d[1]>> /\ d[1] \in Int
  OBVIOUS

\* A sequence is a part of itself.
LEMMA SubSeqWhole ==
  ASSUME NEW S, NEW s \in Seq(S), NEW n, Len(s) = n
  PROVE  SubSeq(s, 1, n) = s
  BY SubSeqFull

\* Whatever is read as a string has the octets it came in.
LEMMA ReturnsString ==
  ASSUME NEW a, a.data \in Seq(Int), IsValue(a.format, a.data), NEW m \in Seq(Octets),
         NEW f \in StringFormats
  PROVE  Returns(a, f, Data(a, m))
<1> DEFINE d == Data(a, m)
<1>1. d \in Seq(Octets) /\ d \in Seq(Int)
  BY DataOctets, OctetSeqs, Zenon
<1>2. f = a.format => d = a.data
  BY DataIs, Zenon
<1>3. Value(f, d) = d
  BY ValueIs, Zenon
<1>4. Needed(f) = 0
  BY NeededIs, Zenon
<1>5. \A b : b.format = f /\ b.data = Value(f, d) => Data(b, <<>>) = d
  BY <1>3, DataIs, Zenon
<1> HIDE DEF d
<1>6. ~ Len(d) < Needed(f)
  BY <1>1, <1>4
<1>7. Returns(a, f, d)
  BY <1>1, <1>2, <1>3, <1>5, <1>6, Zenon DEF Returns
<1>8. QED
  BY <1>7, Zenon DEF d

\* An integer comes back, with its sign, from the octets of its width.
LEMMA ReturnsInteger ==
  ASSUME NEW a, a.data \in Seq(Int), IsValue(a.format, a.data), NEW m \in Seq(Octets),
         a.format \in IntegerFormats
  PROVE  Returns(a, a.format, Data(a, m))
<1> DEFINE f == a.format
           w == Widths[f]
           n == a.data[1]
           d == BigEndian(n, w)
<1>1. Len(a.data) = 1 /\ n \in Integers_of(f)
  BY IsValueFacts, Zenon
<1>2. a.data = <<n>> /\ n \in Int
  BY <1>1, OneElement, Zenon
<1>3. w \in {4, 8} /\ w \in Nat /\ w - 1 \in Nat /\ (w - 1) + 1 = w
  BY FormatFacts
<1>4. Data(a, m) = d
  BY DataIs, Zenon
<1>5. d \in Seq(Octets) /\ Len(d) = w /\ SubSeq(d, 1, w) = d
  <2>1. d \in Seq(Octets) /\ Len(d) = w
    BY <1>2, <1>3, BigEndianFacts, Zenon
  <2> HIDE DEF d, w
  <2>2. QED
    BY <2>1, SubSeqWhole, Zenon
<1>6. Value(f, d) = <<n>>
  <2>1. CASE f \in SignedFormats
    <3>1. n \in -(Pow[w] \div 2)..((Pow[w] \div 2) - 1)
      BY <1>1, <2>1, Zenon DEF Integers_of
    <3>2. Signed(d) = n
      <4> DEFINE v == w - 1
      <4>1. v \in Nat /\ v + 1 = w
        BY <1>3
      <4> HIDE DEF v, w, n
      <4>2. n \in -(Pow[v + 1] \div 2)..((Pow[v + 1] \div 2) - 1)
        BY <3>1, <4>1, Zenon
      <4>3. Signed(BigEndian(n, v + 1)) = n
        BY <4>1, <4>2, SignedRoundTrip
      <4>4. QED
        BY <4>1, <4>3, Zenon
    <3> HIDE DEF d
    <3>3. Value(f, d) = <<Signed(SubSeq(d, 1, w))>>
      BY <1>5, <2>1, ValueIs, Zenon
    <3>4. QED
      BY <1>5, <3>2, <3>3, Zenon
  <2>2. CASE f \notin SignedFormats
    <3>1. n \in 0..(Pow[w] - 1)
      BY <1>1, <2>2, Zenon DEF Integers_of
    <3>2. Unsigned(d) = n
      BY <1>3, <3>1, UnsignedRoundTrip, Zenon
    <3> HIDE DEF d
    <3>3. Value(f, d) = <<Unsigned(SubSeq(d, 1, w))>>
      BY <1>5, <2>2, ValueIs, Zenon
    <3>4. QED
      BY <1>5, <3>2, <3>3, Zenon
  <2>3. QED
    BY <2>1, <2>2, Zenon
<1>7. ~ Len(d) < Needed(f)
  <2>1. Needed(f) <= w
    BY NeededIs, Zenon
  <2>2. Needed(f) \in Int
    BY DEF Needed, Widths, IntegerFormats
  <2> HIDE DEF d, w
  <2>3. QED
    BY <1>3, <1>5, <2>1, <2>2
<1>8. ASSUME NEW b, b.format = f, b.data = Value(f, d) PROVE Data(b, <<>>) = d
  <2>1. b.data[1] = n
    <3> HIDE DEF d, n
    <3>1. <<n>>[1] = n
      OBVIOUS
    <3>2. QED
      BY <1>6, <1>8, <3>1, Zenon
  <2>2. b.format \in IntegerFormats
    BY <1>8, Zenon
  <2>3. Data(b, <<>>) = BigEndian(b.data[1], Widths[b.format])
    BY <2>2, DataIs, Zenon
  <2>4. QED
    BY <1>8, <2>1, <2>3, Zenon
<1> HIDE DEF d
<1>9. Value(f, d) \in Seq(Int) /\ Value(f, d) = a.data
  BY <1>2, <1>6, Zenon
<1>10. Returns(a, f, d)
  BY <1>7, <1>8, <1>9, Zenon DEF Returns
<1>11. QED
  BY <1>4, <1>10, Zenon

\* A time comes back from its four octets, up to the era.
LEMMA ReturnsTime ==
  ASSUME NEW a, a.data \in Seq(Int), IsValue(a.format, a.data), NEW m \in Seq(Octets),
         a.format = "Time"
  PROVE  Returns(a, a.format, Data(a, m))
<1> DEFINE t == a.data[1]
           P == Pow[4]
           E == EpochShift
           y == (t + E) % P
           z == (y - E) % P
           d == BigEndian(y, 4)
<1>1. Len(a.data) = 1
  BY IsValueFacts, Zenon
<1>2. a.data = <<t>> /\ t \in Int
  BY <1>1, OneElement, Zenon
<1>3. P \in Nat \ {0} /\ E \in Int
  BY PowFacts, CodecAssumption
<1>4. /\ t \in 0..(P - 1) => z = t
      /\ (z + E) % P = y
  <2> HIDE DEF P, E, t
  <2>1. QED
    BY <1>2, <1>3, TimeBack, Zenon
<1>5. y \in 0..(P - 1) /\ y \in Int
  <2>1. t + E \in Int
    BY <1>2, <1>3
  <2> HIDE DEF P, E, t
  <2>2. y \in 0..(P - 1)
    BY <1>3, <2>1, Division, Zenon
  <2> HIDE DEF y
  <2>3. QED
    BY <1>3, <2>2
<1>6. z \in Int
  <2>1. y - E \in Int
    BY <1>3, <1>5
  <2> HIDE DEF P, E, y
  <2>2. QED
    BY <1>3, <2>1, Division
<1>7. Data(a, m) = d
  BY DataIs, Zenon DEF EncodeTime
<1>a. 4 \in Nat
  OBVIOUS
<1>8. d \in Seq(Octets) /\ Len(d) = 4 /\ SubSeq(d, 1, 4) = d /\ Unsigned(d) = y
  <2>1. d \in Seq(Octets) /\ Len(d) = 4
    BY <1>5, <1>a, BigEndianFacts, Zenon
  <2>2. Unsigned(d) = y
    BY <1>5, <1>a, UnsignedRoundTrip, Zenon
  <2> HIDE DEF d
  <2>3. QED
    BY <2>1, <2>2, SubSeqWhole, Zenon
<1>9. Value("Time", d) = <<z>>
  <2> HIDE DEF d
  <2>1. Value("Time", d) = <<DecodeTime(SubSeq(d, 1, 4))>>
    BY ValueIs, Zenon
  <2>2. QED
    BY <1>8, <2>1, Zenon DEF DecodeTime
<1>10. ~ Len(d) < Needed("Time")
  <2>1. Needed("Time") = 4
    BY NeededIs, Zenon
  <2> HIDE DEF d
  <2>2. QED
    BY <1>8, <2>1
<1>11. ASSUME NEW b, b.format = "Time", b.data = Value("Time", d) PROVE Data(b, <<>>) = d
  <2>1. b.data[1] = z
    <3> HIDE DEF d, z
    <3>1. <<z>>[1] = z
      OBVIOUS
    <3>2. QED
      BY <1>9, <1>11, <3>1, Zenon
  <2>2. Data(b, <<>>) = EncodeTime(b.data[1])
    BY <1>11, DataIs, Zenon
  <2>3. EncodeTime(z) = BigEndian((z + E) % P, 4)
    BY Zenon DEF EncodeTime
  <2>4. QED
    BY <1>4, <2>1, <2>2, <2>3, Zenon
<1> HIDE DEF d, z
<1>12. <<z>> \in Seq(Int)
  BY <1>6
<1>13. Returns(a, "Time", d)
  BY <1>2, <1>4, <1>9, <1>10, <1>11, <1>12, Zenon DEF Returns
<1>14. QED
  BY <1>7, <1>13, Zenon

\* An address comes back with its family.
LEMMA ReturnsAddress ==
  ASSUME NEW a, a.data \in Seq(Int), IsValue(a.format, a.data), NEW m \in Seq(Octets),
         a.format = "Address"
  PROVE  Returns(a, a.format, Data(a, m))
<1> DEFINE n == a.data[1]
           s == BigEndian(n, 2)
           t == Tail(a.data)
           d == s \o t
           o == <<n>>
<1>1. Len(a.data) >= 1 /\ n \in 0..(Pow[2] - 1) /\ t \in Seq(Octets)
  BY IsValueFacts, Zenon
<1>2. n \in Int /\ 2 \in Nat
  BY <1>1, PowFacts
<1>3. s \in Seq(Octets) /\ Len(s) = 2 /\ Unsigned(s) = n
  BY <1>1, <1>2, BigEndianFacts, UnsignedRoundTrip, Zenon
<1>4. o \in Seq(Int) /\ Len(o) = 1 /\ o[1] = n /\ t \in Seq(Int) /\ Len(t) = Len(a.data) - 1
      /\ \A i \in 1..Len(t) : t[i] = a.data[i + 1]
  BY <1>1, <1>2
<1> HIDE DEF o
<1>5. o \o t = a.data
  <2> DEFINE u == o \o t
  <2> HIDE DEF t
  <2>1. Joined(u, o, t, Int)
    BY <1>4, ConcatJoins, Zenon
  <2> HIDE DEF u
  <2>2. u \in Seq(Int) /\ Len(u) = Len(a.data)
    BY <1>4, <2>1 DEF Joined
  <2>3. \A i \in 1..Len(u) : i = 1 \/ (i - 1 \in 1..Len(t) /\ (i - 1) + 1 = i /\ 1 + (i - 1) = i)
    BY <1>4, <2>2
  <2>4. \A i \in 1..Len(u) : u[i] = a.data[i]
    <3> SUFFICES ASSUME NEW i \in 1..Len(u) PROVE u[i] = a.data[i]
      OBVIOUS
    <3>1. CASE i = 1
      BY <1>4, <2>1, <3>1 DEF Joined
    <3>2. CASE i - 1 \in 1..Len(t) /\ (i - 1) + 1 = i /\ 1 + (i - 1) = i
      <4>1. u[1 + (i - 1)] = t[i - 1]
        BY <1>4, <2>1, <3>2 DEF Joined
      <4>2. t[i - 1] = a.data[(i - 1) + 1]
        BY <1>4, <3>2, Zenon
      <4>3. QED
        BY <3>2, <4>1, <4>2, Zenon
    <3>3. QED
      BY <2>3, <3>1, <3>2
  <2>5. QED
    BY <2>2, <2>4, SeqEqual DEF u
<1>6. Data(a, m) = d
  BY DataIs, Zenon
<1> HIDE DEF s
<1>7. Joined(d, s, t, Octets)
  BY <1>1, <1>3, ConcatJoins, Zenon
<1> HIDE DEF d, t
<1>8. /\ d \in Seq(Octets) /\ Len(d) = 2 + Len(t) /\ Len(t) \in Nat /\ 2 \in Nat /\ 0 \in Nat
      /\ \A i \in 1..Len(s) : d[0 + i] = s[i]
      /\ \A i \in 1..Len(t) : d[2 + i] = t[i]
  BY <1>1, <1>3, <1>7 DEF Joined
<1>9. SubSeq(d, 1, 2) = s
  <2>1. SubSeq(d, 0 + 1, 0 + Len(s)) = s
    <3>1. 0 + Len(s) <= Len(d)
      BY <1>3, <1>8
    <3>2. QED
      BY <1>3, <1>8, <3>1, PartIs
  <2>2. QED
    BY <1>3, <2>1
<1>10. SubSeq(d, 3, Len(d)) = t
  <2>1. SubSeq(d, 2 + 1, 2 + Len(t)) = t
    BY <1>1, <1>8, PartIs
  <2>2. QED
    BY <1>8, <2>1
<1>11. Value("Address", d) = a.data
  <2>1. Value("Address", d) = <<Unsigned(SubSeq(d, 1, 2))>> \o SubSeq(d, 3, Len(d))
    BY ValueIs, Zenon
  <2>2. QED
    BY <1>3, <1>5, <1>9, <1>10, <2>1, Zenon DEF o
<1>12. ~ Len(d) < Needed("Address")
  <2>1. Needed("Address") = 2
    BY NeededIs, Zenon
  <2>2. QED
    BY <1>8, <2>1
<1>13. ASSUME NEW b, b.format = "Address", b.data = Value("Address", d) PROVE Data(b, <<>>) = d
  <2>1. Data(b, <<>>) = BigEndian(b.data[1], 2) \o Tail(b.data)
    BY <1>13, DataIs, Zenon
  <2>2. QED
    BY <1>11, <1>13, <2>1, Zenon DEF d, s, t
<1>14. Returns(a, "Address", d)
  BY <1>11, <1>12, <1>13, Zenon DEF Returns
<1>15. QED
  BY <1>6, <1>14, Zenon

\* A group has no data but its members.
LEMMA ReturnsGroup ==
  ASSUME NEW a, a.data \in Seq(Int), IsValue(a.format, a.data), NEW m \in Seq(Octets),
         a.format = "Grouped"
  PROVE  Returns(a, a.format, m) /\ Data(a, m) = m /\ a.data = <<>>
<1>1. a.data = <<>>
  BY IsValueFacts, Zenon
<1>2. Data(a, m) = m
  BY DataIs, Zenon
<1>3. Value("Grouped", m) = <<>>
  BY ValueIs, Zenon
<1>4. ~ Len(m) < Needed("Grouped")
  <2>1. Needed("Grouped") = 0
    BY NeededIs, Zenon
  <2>2. QED
    BY <2>1
<1>5. Returns(a, "Grouped", m)
  BY <1>1, <1>3, <1>4, EmptySeq, Zenon DEF Returns
<1>6. QED
  BY <1>1, <1>2, <1>5, Zenon

\* What the receiver reads as the format it was sent in, or as a string, has the octets
\* it came in; in the format it was sent in it has the value.
LEMMA ValueBack ==
  ASSUME NEW a, a.data \in Seq(Int), IsValue(a.format, a.data), NEW m \in Seq(Octets),
         NEW f \in {a.format} \union StringFormats
  PROVE  Returns(a, f, Data(a, m))
<1>1. CASE f \in StringFormats
  BY <1>1, ReturnsString, Zenon
<1>2. CASE f = a.format
  <2>1. \/ a.format \in IntegerFormats \/ a.format \in StringFormats
        \/ a.format \in {"Time", "Address", "Grouped"}
    BY IsValueFacts, Zenon
  <2>2. CASE a.format = "Grouped"
    BY <1>2, <2>2, ReturnsGroup, Zenon
  <2>3. CASE a.format = "Time"
    BY <1>2, <2>3, ReturnsTime, Zenon
  <2>4. CASE a.format = "Address"
    BY <1>2, <2>4, ReturnsAddress, Zenon
  <2>5. CASE a.format \in IntegerFormats
    BY <1>2, <2>5, ReturnsInteger, Zenon
  <2>6. QED
    BY <1>1, <1>2, <2>1, <2>2, <2>3, <2>4, <2>5, Zenon
<1>3. QED
  BY <1>1, <1>2

-----------------------------------------------------------------------------
(***************************************************************************)
(* AVPs as the receiver has them.                                          *)
(***************************************************************************)
\* InDictionary, for one AVP.
Known(a) ==
  /\ LookUpAvp(a.avp_code, a.vendor_id) = a.format
  /\ a.format = "Time" => a.data[1] \in 0..(Pow[4] - 1)

\* What holds of every AVP that Decode_AVP returns, if it was sent as the dictionary
\* says or as a string.
Sound(a) == HasHeader(a) /\ IsValue(a.format, a.data) /\ Known(a)

\* Sound AVPs with members from S, if they are groups.
Around(S) == {a \in Shaped(Seq(S)) : Sound(a) /\ (a.avps # <<>> => a.format = "Grouped")}

\* Sound AVPs with groups nested at most n deep in them.
IsReceived(f) ==
  Iterates(f, UNION {SUBSET AVPs[n] : n \in Nat}, {a \in Shaped({<<>>}) : Sound(a)},
           [n \in Nat |-> [S \in UNION {SUBSET AVPs[k] : k \in Nat} |-> Around(S)]])
Received == CHOOSE f : IsReceived(f)

\* What Received is at each depth.
LEMMA ReceivedFacts ==
  /\ Received[0] = {a \in Shaped({<<>>}) : Sound(a)}
  /\ \A n \in Nat : Received[n + 1] = Around(Received[n])
<1> DEFINE V == UNION {SUBSET AVPs[n] : n \in Nat}
           v0 == {a \in Shaped({<<>>}) : Sound(a)}
           step == [n \in Nat |-> [S \in V |-> Around(S)]]
<1>1. v0 \in V
  <2>1. v0 \subseteq AVPs[0] /\ 0 \in Nat
    BY AvpsFacts, Zenon
  <2> HIDE DEF v0
  <2>2. QED
    BY <2>1
<1>2. ASSUME NEW S \in V PROVE Around(S) \in V
  <2>1. PICK n \in Nat : S \subseteq AVPs[n]
    BY Zenon
  <2>2. Seq(S) \subseteq Seq(AVPs[n])
    BY <2>1, SeqMonotonic, Zenon
  <2>3. Shaped(Seq(S)) \subseteq Shaped(Seq(AVPs[n]))
    BY <2>2 DEF Shaped
  <2>4. Around(S) \subseteq AVPs[n + 1]
    BY <2>3, AvpsFacts, Zenon DEF Around
  <2>5. n + 1 \in Nat
    OBVIOUS
  <2>6. QED
    BY <2>4, <2>5
<1>a. \A n \in Nat, S \in V : step[n][S] = Around(S)
  BY Zenon
<1>b. step \in [Nat -> [V -> V]]
  <2>1. [S \in V |-> Around(S)] \in [V -> V]
    BY <1>2, Zenon
  <2>2. QED
    BY <2>1, Zenon
<1>c. \A f : IsReceived(f) <=> Iterates(f, V, v0, step)
  BY Zenon DEF IsReceived
<1> HIDE DEF V, v0, step
<1>3. \E f : Iterates(f, V, v0, step)
  BY <1>1, <1>b, Iteration, Zenon
<1>4. IsReceived(Received)
  BY <1>3, <1>c, Zenon DEF Received
<1>5. Iterates(Received, V, v0, step)
  BY <1>4, <1>c, Zenon
<1>6. /\ Received \in [Nat -> V] /\ Received[0] = v0
      /\ \A n \in Nat : Received[n + 1] = step[n][Received[n]]
  BY <1>5, Zenon DEF Iterates
<1>7. ASSUME NEW n \in Nat PROVE Received[n + 1] = Around(Received[n])
  <2>1. Received[n] \in V
    BY <1>6, Zenon
  <2>2. QED
    BY <1>6, <1>a, <2>1, Zenon
<1>8. QED
  BY <1>6, <1>7, Zenon DEF v0

\* They are AVPs, and one without members is there at every depth.
LEMMA ReceivedType ==
  ASSUME NEW n \in Nat
  PROVE  /\ Received[n] \subseteq AVPs[n]
         /\ Received[0] \subseteq Received[n]
         /\ \A a \in Received[n] : Sound(a)
<1> DEFINE S == {k \in Nat : /\ Received[k] \subseteq AVPs[k]
                             /\ Received[0] \subseteq Received[k]
                             /\ \A a \in Received[k] : Sound(a)}
<1>1. 0 \in S
  BY ReceivedFacts, AvpsFacts, Zenon
<1>2. \A k \in Nat : k \in S => k + 1 \in S
  <2> SUFFICES ASSUME NEW k \in Nat, Received[k] \subseteq AVPs[k]
               PROVE  k + 1 \in S
    BY Zenon
  <2>1. Received[k + 1] = Around(Received[k]) /\ AVPs[k + 1] = Shaped(Seq(AVPs[k]))
    BY ReceivedFacts, AvpsFacts, Zenon
  <2>2. Seq(Received[k]) \subseteq Seq(AVPs[k])
    BY SeqMonotonic, Zenon
  <2>3. Shaped(Seq(Received[k])) \subseteq Shaped(Seq(AVPs[k]))
    BY <2>2 DEF Shaped
  <2>4. Shaped({<<>>}) \subseteq Shaped(Seq(Received[k]))
    <3>1. {<<>>} \subseteq Seq(Received[k])
      BY EmptySeq, Zenon
    <3>2. QED
      BY <3>1 DEF Shaped
  <2>5. \A a \in Shaped({<<>>}) : a.avps = <<>>
    BY DEF Shaped
  <2>6. Received[0] \subseteq Around(Received[k])
    BY <2>4, <2>5, ReceivedFacts, Zenon DEF Around
  <2>7. Around(Received[k]) \subseteq AVPs[k + 1] /\ \A a \in Around(Received[k]) : Sound(a)
    BY <2>1, <2>3, Zenon DEF Around
  <2>8. k + 1 \in Nat
    OBVIOUS
  <2>9. QED
    BY <2>1, <2>6, <2>7, <2>8, Zenon
<1> HIDE DEF S
<1>3. n \in S
  BY <1>1, <1>2, SetInduction, Zenon
<1>4. QED
  BY <1>3, Zenon DEF S

\* In a message.
LEMMA ReceivedAvps ==
  ASSUME NEW n \in Nat, n <= MaxDepth
  PROVE  /\ Received[n] \subseteq AllAvps
         /\ Seq(Received[n]) \subseteq Seq(AVPs[n]) /\ Seq(Received[n]) \subseteq Seq(AllAvps)
<1>1. MaxDepth \in Nat
  BY CodecAssumption
<1>2. Received[n] \subseteq AVPs[n] /\ AVPs[n] \subseteq AllAvps
  BY <1>1, ReceivedType, AvpsMonotone, Zenon DEF AllAvps
<1>3. Received[n] \subseteq AllAvps
  BY <1>2, Zenon
<1>4. QED
  BY <1>2, <1>3, SeqMonotonic, Zenon

\* What Value makes of the octets of a value is one.
LEMMA ValueSound ==
  ASSUME NEW a, a.data \in Seq(Int), IsValue(a.format, a.data), NEW m \in Seq(Octets),
         NEW f \in {a.format} \union StringFormats
  PROVE  LET v == Value(f, Data(a, m))
         IN  IsValue(f, v) /\ (f = "Time" => v[1] \in 0..(Pow[4] - 1))
<1> DEFINE d == Data(a, m)
           v == Value(f, d)
<1>1. d \in Seq(Octets) /\ Returns(a, f, d)
  BY DataOctets, ValueBack, Zenon
<1> HIDE DEF d
<1>2. CASE f \in StringFormats
  <2>1. v = d
    BY <1>2, ValueIs, Zenon
  <2>2. f \notin DOMAIN Widths /\ f # "Time" /\ f # "Address" /\ f # "Grouped"
    BY <1>2, FormatFacts
  <2> HIDE DEF v
  <2>3. IsValue(f, v)
    BY <1>1, <1>2, <2>1, <2>2 DEF IsValue
  <2>4. QED
    BY <2>2, <2>3, Zenon DEF d, v
<1>3. CASE f = "Time"
  <2>1. v = <<DecodeTime(SubSeq(d, 1, 4))>> /\ f = a.format
    <3>1. f \notin StringFormats
      BY <1>3 DEF StringFormats
    <3>2. QED
      BY <1>3, <3>1, ValueIs, Zenon
  <2> DEFINE u == Unsigned(SubSeq(d, 1, 4))
             P == Pow[4]
             t == DecodeTime(SubSeq(d, 1, 4))
  <2>2. u \in Nat /\ P \in Nat \ {0} /\ EpochShift \in Nat
    <3>1. ~ Len(d) < 4
      <4>1. Needed("Time") = 4
        BY FormatFacts DEF Needed, Widths
      <4>2. QED
        BY <1>1, <1>3, <4>1, Zenon DEF Returns
    <3>2. SubSeq(d, 1, 4) \in Seq(Octets)
      <4>1. \A i \in 1..4 : d[i] \in Octets
        BY <1>1, <3>1
      <4>2. QED
        BY <4>1, SubSeqProperties
    <3>3. QED
      BY <3>2, UnsignedNat, PowFacts, CodecAssumption
  <2>3. t = (u - EpochShift) % P
    BY Zenon DEF DecodeTime
  <2> HIDE DEF u, P, t
  <2>4. t \in 0..(P - 1)
    BY <2>2, <2>3, Division
  <2>5. v = <<t>>
    BY <2>1, Zenon DEF t
  <2> HIDE DEF v
  <2>6. IsValue(f, v)
    <3>1. f \notin DOMAIN Widths /\ f \notin StringFormats
      BY <1>3, FormatFacts DEF IntegerFormats, StringFormats
    <3>2. Len(v) = 1
      BY <2>5
    <3>3. QED
      BY <1>3, <3>1, <3>2, Zenon DEF IsValue
  <2>7. v[1] = t
    BY <2>5
  <2>8. QED
    BY <2>4, <2>6, <2>7, Zenon DEF v, d, P
<1>4. CASE f = a.format /\ f # "Time"
  <2>1. v = a.data
    BY <1>1, <1>4, Zenon DEF Returns
  <2>2. QED
    BY <1>4, <2>1, Zenon DEF d
<1>5. QED
  BY <1>2, <1>3, <1>4, Zenon

-----------------------------------------------------------------------------
(***************************************************************************)
(* Lists of AVPs there and back.                                           *)
(***************************************************************************)
\* Octets after which the receiver goes on as it should.
Tails == {s \in Seq(Octets) : Decode_AVPs[s] \in Seq(AllAvps)}

\* A tuple of one is a sequence.
LEMMA OneSeq ==
  ASSUME NEW S, NEW b \in S
  PROVE  <<b>> \in Seq(S)
  OBVIOUS

\* Nothing is decoded of no octets.
LEMMA DecodeEmpty ==
  Decode_AVPs[<<>>] = <<>> /\ <<>> \in Tails
<1>1. <<>> \in Seq(Octets) /\ <<>> \in Seq(AllAvps)
  BY EmptySeq, Zenon
<1>2. Len(<<>>) < HeaderOf(<<>>)
  <2>1. Len(<<>>) = 0
    OBVIOUS
  <2>2. HeaderOf(<<>>) \in {8, 12}
    BY Zenon DEF HeaderOf
  <2>3. QED
    BY <2>1, <2>2
<1>3. Decode_AVPs[<<>>] = DecodeStep(Decode_AVPs, <<>>)
  BY <1>1, DecodeAvpsStep, Zenon
<1>4. DecodeStep(Decode_AVPs, <<>>) = <<>>
  BY <1>2, Zenon DEF DecodeStep
<1>5. QED
  BY <1>1, <1>3, <1>4, Zenon DEF Tails

\* The receiver reads r where the sender wrote avps, and r has the same octets.
Reads(avps, r, n) ==
  /\ r \in Seq(Received[n]) /\ Encodable(r) /\ EncodeAvps(r) = EncodeAvps(avps)
  /\ \A rest \in Tails : Decode_AVPs[EncodeAvps(avps) \o rest] = r \o Decode_AVPs[rest]

\* The same for one AVP.
ReadsOne(a, b, n) ==
  /\ b \in Received[n] /\ OctetsOf(b) = OctetsOf(a)
  /\ \A rest \in Seq(Octets) : Decode_AVPs[OctetsOf(a) \o rest] = <<b>> \o Decode_AVPs[rest]

\* No AVPs are read as none.
LEMMA ReadsEmpty ==
  ASSUME NEW n \in Nat
  PROVE  Reads(<<>>, <<>>, n)
<1>1. <<>> \in Seq(Received[n]) /\ Encodable(<<>>) /\ EncodeAvps(<<>>) = <<>>
  BY EmptySeq, EncodeEmpty, Zenon
<1>2. ASSUME NEW rest \in Tails
      PROVE  Decode_AVPs[<<>> \o rest] = <<>> \o Decode_AVPs[rest]
  <2>1. rest \in Seq(Octets) /\ Decode_AVPs[rest] \in Seq(AllAvps)
    BY Zenon DEF Tails
  <2>2. <<>> \o rest = rest /\ <<>> \o Decode_AVPs[rest] = Decode_AVPs[rest]
    BY <2>1, ConcatEmptySeq, Zenon
  <2>3. QED
    BY <2>2, Zenon
<1>3. QED
  BY <1>1, <1>2, Zenon DEF Reads

\* One AVP more at the end is read after the others.
LEMMA ReadsTail ==
  ASSUME NEW n \in Nat, n <= MaxDepth, NEW avps, Encodable(avps), NEW r, Reads(avps, r, n),
         NEW a \in AllAvps, OctetsOf(a) \in Seq(Octets), NEW b, ReadsOne(a, b, n)
  PROVE  Reads(Append(avps, a), Append(r, b), n)
<1> DEFINE e == EncodeAvps(avps)
           o == OctetsOf(a)
           D(s) == Decode_AVPs[s]
           g == <<b>>
<1>1. /\ r \in Seq(Received[n]) /\ Encodable(r) /\ EncodeAvps(r) = e
      /\ \A rest \in Tails : D(e \o rest) = r \o D(rest)
  BY Zenon DEF Reads
<1>2. /\ b \in Received[n] /\ OctetsOf(b) = o
      /\ \A rest \in Seq(Octets) : D(o \o rest) = g \o D(rest)
  BY Zenon DEF ReadsOne
<1>3. b \in AllAvps /\ e \in Seq(Octets) /\ o \in Seq(Octets) /\ r \in Seq(AllAvps)
  <2>1. b \in AllAvps
    BY <1>2, ReceivedAvps, Zenon
  <2>2. QED
    BY <1>1, <2>1, EncodeList, Zenon DEF Encodable
<1>4. /\ Encodable(Append(avps, a)) /\ EncodeAvps(Append(avps, a)) = e \o o
      /\ Encodable(Append(r, b)) /\ EncodeAvps(Append(r, b)) = e \o o
  <2>1. OctetsOf(b) \in Seq(Octets)
    BY <1>2
  <2>2. Encodable(Append(avps, a)) /\ EncodeAvps(Append(avps, a)) = e \o o
    BY EncodeTail, Zenon
  <2>3. Encodable(Append(r, b)) /\ EncodeAvps(Append(r, b)) = EncodeAvps(r) \o OctetsOf(b)
    BY <1>1, <1>3, <2>1, EncodeTail, Zenon
  <2>4. QED
    BY <1>1, <1>2, <2>2, <2>3, Zenon
<1>5. Append(r, b) \in Seq(Received[n]) /\ Append(r, b) = r \o g /\ g \in Seq(AllAvps)
  <2>1. g \in Seq(AllAvps)
    BY <1>3, OneSeq, Zenon
  <2>2. QED
    BY <1>1, <1>2, <2>1, AppendProperties, AppendIsConcat, Zenon
<1> HIDE DEF e, o, g
<1>6. ASSUME NEW rest \in Tails PROVE D((e \o o) \o rest) = (r \o g) \o D(rest)
  <2>1. rest \in Seq(Octets) /\ D(rest) \in Seq(AllAvps)
    BY Zenon DEF Tails
  <2>2. (e \o o) \o rest = e \o (o \o rest)
    <3>1. Rejoined(e, o, rest)
      BY <1>3, <2>1, Associative, Zenon
    <3>2. QED
      BY <3>1, Zenon DEF Rejoined
  <2>3. o \o rest \in Seq(Octets) /\ g \o D(rest) \in Seq(AllAvps)
    BY <1>3, <1>5, <2>1, ConcatProperties, Zenon
  <2>4. D(o \o rest) = g \o D(rest)
    BY <1>2, <2>1, Zenon
  <2>5. o \o rest \in Tails
    BY <2>3, <2>4, Zenon DEF Tails
  <2>6. D(e \o (o \o rest)) = r \o (g \o D(rest))
    BY <1>1, <2>4, <2>5, Zenon
  <2> HIDE DEF D
  <2>7. r \o (g \o D(rest)) = (r \o g) \o D(rest)
    <3>1. Rejoined(r, g, D(rest))
      BY <1>3, <1>5, <2>1, Associative, Zenon
    <3>2. QED
      BY <3>1, Zenon DEF Rejoined
  <2>8. QED
    BY <2>2, <2>6, <2>7, Zenon
<1>7. QED
  BY <1>4, <1>5, <1>6, Zenon DEF Reads

\* One AVP more at the front is read before the others.
LEMMA ReadsHead ==
  ASSUME NEW n \in Nat, n <= MaxDepth, NEW avps, Encodable(avps), NEW r, Reads(avps, r, n),
         NEW a \in AllAvps, OctetsOf(a) \in Seq(Octets), NEW b, ReadsOne(a, b, n)
  PROVE  Reads(<<a>> \o avps, <<b>> \o r, n)
<1> DEFINE e == EncodeAvps(avps)
           o == OctetsOf(a)
           D(s) == Decode_AVPs[s]
           g == <<b>>
           t == <<a>> \o avps
<1>1. /\ r \in Seq(Received[n]) /\ Encodable(r) /\ EncodeAvps(r) = e
      /\ \A rest \in Tails : D(e \o rest) = r \o D(rest)
  BY Zenon DEF Reads
<1>2. /\ b \in Received[n] /\ OctetsOf(b) = o
      /\ \A rest \in Seq(Octets) : D(o \o rest) = g \o D(rest)
  BY Zenon DEF ReadsOne
<1>3. b \in AllAvps /\ e \in Seq(Octets) /\ o \in Seq(Octets) /\ r \in Seq(AllAvps)
  <2>1. b \in AllAvps
    BY <1>2, ReceivedAvps, Zenon
  <2>2. QED
    BY <1>1, <2>1, EncodeList, Zenon DEF Encodable
<1>4. /\ Encodable(t) /\ EncodeAvps(t) = o \o e
      /\ Encodable(g \o r) /\ EncodeAvps(g \o r) = o \o e
  <2>1. OctetsOf(b) \in Seq(Octets)
    BY <1>2
  <2>2. Encodable(t) /\ EncodeAvps(t) = o \o e
    BY EncodeHead, Zenon
  <2>3. Encodable(g \o r) /\ EncodeAvps(g \o r) = OctetsOf(b) \o EncodeAvps(r)
    BY <1>1, <1>3, <2>1, EncodeHead, Zenon
  <2>4. QED
    BY <1>1, <1>2, <2>2, <2>3, Zenon
<1>5. g \o r \in Seq(Received[n]) /\ g \in Seq(AllAvps)
  <2>1. g \in Seq(AllAvps) /\ g \in Seq(Received[n])
    BY <1>2, <1>3, OneSeq, Zenon
  <2> HIDE DEF g
  <2>2. QED
    BY <1>1, <2>1, ConcatProperties, Zenon
<1> HIDE DEF e, o, g, t
<1>6. ASSUME NEW rest \in Tails PROVE D((o \o e) \o rest) = (g \o r) \o D(rest)
  <2>1. rest \in Seq(Octets) /\ D(rest) \in Seq(AllAvps)
    BY Zenon DEF Tails
  <2>2. (o \o e) \o rest = o \o (e \o rest)
    <3>1. Rejoined(o, e, rest)
      BY <1>3, <2>1, Associative, Zenon
    <3>2. QED
      BY <3>1, Zenon DEF Rejoined
  <2>3. e \o rest \in Seq(Octets)
    BY <1>3, <2>1, ConcatProperties, Zenon
  <2>4. D(o \o (e \o rest)) = g \o D(e \o rest)
    BY <1>2, <2>3, Zenon
  <2>5. D(e \o rest) = r \o D(rest)
    BY <1>1, Zenon
  <2> HIDE DEF D
  <2>6. g \o (r \o D(rest)) = (g \o r) \o D(rest)
    <3>1. Rejoined(g, r, D(rest))
      BY <1>3, <1>5, <2>1, Associative, Zenon
    <3>2. QED
      BY <3>1, Zenon DEF Rejoined
  <2>7. QED
    BY <2>2, <2>4, <2>5, <2>6, Zenon
<1>7. QED
  BY <1>4, <1>5, <1>6, Zenon DEF Reads, t, g

\* One AVP alone is read.
LEMMA ReadsSingle ==
  ASSUME NEW n \in Nat, n <= MaxDepth,
         NEW a \in AllAvps, OctetsOf(a) \in Seq(Octets), NEW b, ReadsOne(a, b, n)
  PROVE  Reads(<<a>>, <<b>>, n)
<1>1. Reads(Append(<<>>, a), Append(<<>>, b), n)
  BY ReadsEmpty, EncodeEmpty, ReadsTail, Zenon
<1>2. Append(<<>>, a) = <<a>> /\ Append(<<>>, b) = <<b>>
  OBVIOUS
<1>3. QED
  BY <1>1, <1>2, Zenon

-----------------------------------------------------------------------------
(***************************************************************************)
(* An AVP there and back.                                                  *)
(***************************************************************************)
\* The octets of an AVP are the header's and those of its data.
SameHeader(a, b) ==
  /\ b.avp_code = a.avp_code /\ b.vendor_flag = a.vendor_flag
  /\ b.mandatory_flag = a.mandatory_flag /\ b.vendor_id = a.vendor_id

\* AVPs with the same header and the same octets of data have the same octets.
LEMMA SameOctets ==
  ASSUME NEW a, NEW b, SameHeader(a, b)
  PROVE  \A m, k : Data(b, k) = Data(a, m) => EncodeAvp(b, k) = EncodeAvp(a, m)
<1>1. /\ b.avp_code = a.avp_code /\ b.vendor_flag = a.vendor_flag
      /\ b.mandatory_flag = a.mandatory_flag /\ b.vendor_id = a.vendor_id
  BY Zenon DEF SameHeader
<1> SUFFICES ASSUME NEW m, NEW k, Data(b, k) = Data(a, m)
             PROVE  EncodeAvp(b, k) = EncodeAvp(a, m)
  BY Zenon
<1>2. HeadSize(b) = HeadSize(a)
  BY <1>1, Zenon DEF HeadSize
<1>3. EncodeAvp(b, k) = AvpOctets(b, Data(a, m), HeadSize(a) + Len(Data(a, m)))
  BY <1>2, Zenon DEF EncodeAvp
<1>4. ASSUME NEW d, NEW n PROVE AvpOctets(b, d, n) = AvpOctets(a, d, n)
  BY <1>1, Zenon DEF AvpOctets
<1>5. QED
  BY <1>3, <1>4, Zenon DEF EncodeAvp

\* Encoding gives octets that fill whole words, with the data among them.
LEMMA EncodeAvpOctets ==
  ASSUME NEW a, a.avp_code \in Int, a.vendor_id \in Int, NEW m, Data(a, m) \in Seq(Octets)
  PROVE  /\ EncodeAvp(a, m) \in Seq(Octets)
         /\ Len(EncodeAvp(a, m)) % 4 = 0
         /\ HeadSize(a) + Len(Data(a, m)) <= Len(EncodeAvp(a, m))
<1> DEFINE d == Data(a, m)
           n == HeadSize(a) + Len(d)
           u == AvpOctets(a, d, n)
<1>1. HeadSize(a) \in {8, 12} /\ Len(d) \in Nat
  BY DEF HeadSize
<1> HIDE DEF d
<1>2. n \in Int /\ d \in Seq(Octets)
  BY <1>1 DEF d
<1>3. FullSize(a, d) % 4 = 0 /\ FullSize(a, d) >= n
  BY <1>2, FullSizeFacts, Zenon
<1>4. StartsWith(u, a, d, n) /\ Len(u) = FullSize(a, d)
  <2> HIDE DEF n
  <2>1. QED
    BY <1>2, AvpOctetsFacts, Zenon
<1>5. u \in Seq(Octets)
  BY <1>4, Zenon DEF StartsWith
<1>6. EncodeAvp(a, m) = u
  BY Zenon DEF EncodeAvp, d
<1> HIDE DEF u
<1>7. n <= Len(u) /\ Len(u) % 4 = 0
  <2>1. Len(u) \in Nat
    BY <1>5
  <2> HIDE DEF n
  <2>2. QED
    BY <1>2, <1>3, <1>4, <2>1
<1>8. QED
  BY <1>5, <1>6, <1>7, Zenon DEF d, n

\* An AVP without members that fits the Go types.
Plain(a) == a \in Shaped({<<>>}) /\ HasHeader(a) /\ IsValue(a.format, a.data)

\* Its fields.
LEMMA PlainFacts ==
  ASSUME NEW a, Plain(a)
  PROVE  /\ a \in Shaped({<<>>}) /\ a.avps = <<>> /\ HasHeader(a)
         /\ IsValue(a.format, a.data) /\ a.data \in Seq(Int) /\ a.format \in Formats
         /\ a.avp_code \in Int /\ a.vendor_id \in Int
<1>1. a \in Shaped({<<>>}) /\ HasHeader(a) /\ IsValue(a.format, a.data)
  BY Zenon DEF Plain
<1>2. /\ a.avp_code \in Int /\ a.vendor_id \in Int /\ a.format \in Formats
      /\ a.data \in Seq(Int) /\ a.avps \in {<<>>}
  BY <1>1, ShapedFacts, Zenon
<1>3. QED
  BY <1>1, <1>2, Zenon

\* What the sender makes is such.
LEMMA MadePlain ==
  ASSUME NEW a \in Leaves \union Groups
  PROVE  Plain(a) /\ (a \in Groups => a.format = "Grouped")
<1>1. /\ a \in AVPs[0] /\ IsValue(a.format, a.data)
      /\ a.avp_code \in 0..(Pow[4] - 1) /\ a.vendor_id \in 0..(Pow[4] - 1)
      /\ a.vendor_flag <=> a.vendor_id > 0
      /\ a.format = "Grouped" <=> a \in Groups
  BY CodecAssumption, Zenon
<1>2. a \in Shaped({<<>>})
  BY <1>1, AvpsFacts, Zenon
<1>3. a.vendor_flag \in BOOLEAN /\ a.mandatory_flag \in BOOLEAN
  BY <1>2, ShapedFacts, Zenon
<1>4. HasHeader(a)
  BY <1>1, <1>3, Zenon DEF HasHeader
<1>5. QED
  BY <1>1, <1>2, <1>4, Zenon DEF Plain

\* What KeptAsOctets means, for one AVP.
Kept(a) == LookUpAvp(a.avp_code, a.vendor_id) \in {a.format} \union StringFormats

\* The receiver decodes one AVP to what has the same octets.
ReadsAs(o, b) ==
  \A rest \in Seq(Octets) : Decode_AVPs[o \o rest] = <<b>> \o Decode_AVPs[rest]

\* Decode_AVP after AVP.Encode: header and data come back, and the receiver goes on
\* behind the padding.
LEMMA ReadsData ==
  ASSUME NEW a, HasHeader(a), a.data \in Seq(Int), IsValue(a.format, a.data), Kept(a),
         NEW m \in Seq(Octets), Len(EncodeAvp(a, m)) < Pow[3]
  PROVE  ReadsAs(EncodeAvp(a, m), DecodedAs(a, Data(a, m)))
<1> SUFFICES ASSUME NEW rest \in Seq(Octets)
             PROVE  Decode_AVPs[EncodeAvp(a, m) \o rest]
                      = <<DecodedAs(a, Data(a, m))>> \o Decode_AVPs[rest]
  BY Zenon DEF ReadsAs
<1> DEFINE f == LookUpAvp(a.avp_code, a.vendor_id)
           d == Data(a, m)
<1>1. d \in Seq(Octets)
  BY DataOctets, Zenon
<1>2. Returns(a, f, d)
  BY ValueBack, Zenon DEF Kept
<1>3. ~ Len(d) < Needed(f)
  BY <1>2, Zenon DEF Returns
<1>4. HeadSize(a) + Len(d) < Pow[3]
  <2>1. a.avp_code \in Int /\ a.vendor_id \in Int
    BY DEF HasHeader
  <2>2. EncodeAvp(a, m) \in Seq(Octets) /\ HeadSize(a) + Len(d) <= Len(EncodeAvp(a, m))
    BY <1>1, <2>1, EncodeAvpOctets, Zenon
  <2>3. Len(EncodeAvp(a, m)) \in Nat /\ Pow[3] \in Nat /\ HeadSize(a) + Len(d) \in Int
    <3> HIDE DEF d
    <3>1. HeadSize(a) \in {8, 12} /\ Len(d) \in Nat
      BY <1>1 DEF HeadSize
    <3>2. Len(EncodeAvp(a, m)) \in Nat
      BY <2>2, LenProperties, Zenon
    <3>3. Pow[3] \in Nat
      BY PowFacts
    <3>4. QED
      BY <3>1, <3>2, <3>3
  <2> HIDE DEF d
  <2>4. QED
    BY <2>2, <2>3
<1>5. Decode_AVPs[AvpOctets(a, d, HeadSize(a) + Len(d)) \o rest]
        = <<DecodedAs(a, d)>> \o Decode_AVPs[rest]
  BY <1>1, <1>3, <1>4, DecodeOne, Zenon
<1>6. QED
  BY <1>5, Zenon DEF EncodeAvp

\* Such an AVP at any place in a message.
LEMMA PlainAvp ==
  ASSUME NEW a, Plain(a)
  PROVE  /\ \A n \in Nat : a \in AVPs[n]
         /\ a \in AllAvps
         /\ OctetsOf(a) \in Seq(Octets) /\ Len(OctetsOf(a)) % 4 = 0
<1>1. a.avps = <<>> /\ a \in AVPs[0] /\ a.avp_code \in Int /\ a.vendor_id \in Int
  BY PlainFacts, AvpsFacts, Zenon
<1>2. OctetsOf(a) = EncodeAvp(a, <<>>)
  BY <1>1, OctetsOfLeaf, Zenon
<1>3. Data(a, <<>>) \in Seq(Octets)
  BY PlainFacts, DataOctets, EmptySeq, Zenon
<1>4. ASSUME NEW n \in Nat PROVE a \in AVPs[n]
  <2>1. AVPs[0] \subseteq AVPs[n]
    BY AvpsMonotone
  <2>2. QED
    BY <1>1, <2>1
<1>5. MaxDepth \in Nat
  BY CodecAssumption
<1>6. OctetsOf(a) \in Seq(Octets) /\ Len(OctetsOf(a)) % 4 = 0
  BY <1>1, <1>2, <1>3, EncodeAvpOctets, Zenon
<1>7. QED
  BY <1>4, <1>5, <1>6, Zenon DEF AllAvps

\* It is read as something with the same octets; as the same, if the dictionary knows
\* it.
LEMMA ReadsPlain ==
  ASSUME NEW a, Plain(a), Kept(a), Len(OctetsOf(a)) < Pow[3], NEW n \in Nat
  PROVE  \E b : ReadsOne(a, b, n) /\ (Known(a) => b = a)
<1> DEFINE f == LookUpAvp(a.avp_code, a.vendor_id)
           d == Data(a, <<>>)
           b == DecodedAs(a, d)
<1>1. /\ a \in Shaped({<<>>}) /\ a.avps = <<>> /\ HasHeader(a)
      /\ IsValue(a.format, a.data) /\ a.data \in Seq(Int) /\ a.format \in Formats
      /\ a.avp_code \in Int /\ a.vendor_id \in Int
  BY PlainFacts, Zenon
<1>2. <<>> \in Seq(Octets) /\ f \in {a.format} \union StringFormats
  BY EmptySeq, Zenon DEF Kept
<1>3. Returns(a, f, d)
  BY <1>1, <1>2, ValueBack, Zenon
<1>4. OctetsOf(a) = EncodeAvp(a, <<>>)
  BY <1>1, OctetsOfLeaf, Zenon
<1>b. Len(EncodeAvp(a, <<>>)) < Pow[3]
  BY <1>4
<1>5. ReadsAs(EncodeAvp(a, <<>>), b)
  BY <1>1, <1>2, <1>b, ReadsData, Zenon
<1>6. f = "Grouped" => d = <<>> /\ a.format = "Grouped"
  <2>1. ASSUME f = "Grouped" PROVE a.format = "Grouped"
    BY <1>2, <2>1, FormatFacts
  <2>2. QED
    BY <1>1, <1>2, <2>1, ReturnsGroup, Zenon
<1>7. (IF f = "Grouped" THEN Decode_AVPs[d] ELSE <<>>) = <<>>
  BY <1>6, DecodeEmpty, Zenon
<1>8. b = [avp_code |-> a.avp_code, vendor_flag |-> a.vendor_flag,
           mandatory_flag |-> a.mandatory_flag, vendor_id |-> a.vendor_id,
           data |-> Value(f, d), format |-> f, avps |-> <<>>]
  BY <1>7, Zenon DEF DecodedAs
<1>9. f \in Formats /\ Value(f, d) \in Seq(Int)
  <2>1. \A x \in StringFormats : x \in Formats
    BY DEF Formats
  <2>2. QED
    BY <1>1, <1>2, <1>3, <2>1, Zenon DEF Returns
<1>a. /\ a.vendor_flag \in BOOLEAN /\ a.mandatory_flag \in BOOLEAN
  BY <1>1, ShapedFacts, Zenon
<1>c. IsValue(f, Value(f, d)) /\ (f = "Time" => Value(f, d)[1] \in 0..(Pow[4] - 1))
  BY <1>1, <1>2, ValueSound, Zenon
<1>d. LookUpAvp(a.avp_code, a.vendor_id) = f
  OBVIOUS
<1> HIDE DEF f, d, b
<1>10. b \in Received[n]
  <2>1. b \in Shaped({<<>>})
    BY <1>1, <1>8, <1>9, <1>a, Zenon DEF Shaped
  <2>2. /\ b.avp_code = a.avp_code /\ b.vendor_flag = a.vendor_flag
        /\ b.mandatory_flag = a.mandatory_flag /\ b.vendor_id = a.vendor_id
        /\ b.data = Value(f, d) /\ b.format = f
    BY <1>8, Zenon
  <2>3. Sound(b)
    BY <1>1, <1>c, <1>d, <2>2, Zenon DEF Sound, HasHeader, Known
  <2>4. QED
    BY <2>1, <2>3, ReceivedFacts, ReceivedType, Zenon
<1>11. OctetsOf(b) = OctetsOf(a)
  <2>1. /\ b.avp_code = a.avp_code /\ b.vendor_flag = a.vendor_flag
        /\ b.mandatory_flag = a.mandatory_flag /\ b.vendor_id = a.vendor_id
        /\ b.data = Value(f, d) /\ b.format = f /\ b.avps = <<>>
    BY <1>8, Zenon
  <2>2. Data(b, <<>>) = d
    <3>1. CASE f # "Grouped"
      BY <1>3, <2>1, <3>1, Zenon DEF Returns
    <3>2. CASE f = "Grouped"
      BY <1>6, <2>1, <3>2, DataIs, Zenon
    <3>3. QED
      BY <3>1, <3>2, Zenon
  <2>3. EncodeAvp(b, <<>>) = EncodeAvp(a, <<>>)
    <3>1. SameHeader(a, b)
      BY <2>1, Zenon DEF SameHeader
    <3>2. Data(b, <<>>) = Data(a, <<>>)
      BY <2>2, Zenon DEF d
    <3>3. QED
      BY <3>1, <3>2, SameOctets
  <2>4. OctetsOf(b) = EncodeAvp(b, <<>>)
    BY <2>1, OctetsOfLeaf, Zenon
  <2>5. QED
    BY <1>4, <2>3, <2>4, Zenon
<1>12. Known(a) => b = a
  <2>1. SUFFICES ASSUME Known(a) PROVE b = a
    OBVIOUS
  <2>2. f = a.format /\ (f = "Time" => a.data[1] \in 0..(Pow[4] - 1))
    BY <2>1, Zenon DEF Known, f
  <2>3. Value(f, d) = a.data
    BY <1>3, <2>2, Zenon DEF Returns
  <2>4. b = [avp_code |-> a.avp_code, vendor_flag |-> a.vendor_flag,
             mandatory_flag |-> a.mandatory_flag, vendor_id |-> a.vendor_id,
             data |-> a.data, format |-> a.format, avps |-> a.avps]
    BY <1>1, <1>8, <2>2, <2>3, Zenon
  <2>5. QED
    BY <1>1, <2>4 DEF Shaped
<1>13. ReadsOne(a, b, n)
  <2>1. ReadsAs(OctetsOf(a), b)
    BY <1>4, <1>5, Zenon
  <2>2. QED
    BY <1>10, <1>11, <2>1, Zenon DEF ReadsOne, ReadsAs
<1>14. QED
  BY <1>12, <1>13, Zenon

\* What has been put together as the members of a group.
LEMMA GroupAvp ==
  ASSUME NEW g, Plain(g), g.format = "Grouped", NEW n \in Nat, n < MaxDepth,
         NEW avps \in Seq(AVPs[n]), Encodable(avps)
  PROVE  LET a == [g EXCEPT !.avps = avps]
         IN  /\ a \in AVPs[n + 1] /\ a \in AllAvps /\ a.avps = avps
             /\ OctetsOf(a) = EncodeAvp(a, EncodeAvps(avps))
             /\ OctetsOf(a) \in Seq(Octets) /\ Len(OctetsOf(a)) % 4 = 0
             /\ Len(EncodeAvps(avps)) <= Len(OctetsOf(a))
<1> DEFINE a == [g EXCEPT !.avps = avps]
           m == EncodeAvps(avps)
<1>1. /\ g \in Shaped({<<>>}) /\ HasHeader(g) /\ IsValue(g.format, g.data) /\ g.data \in Seq(Int)
      /\ g.avp_code \in Int /\ g.vendor_id \in Int /\ g.format = "Grouped"
  BY PlainFacts, Zenon
<1>2. /\ a \in Shaped(Seq(AVPs[n])) /\ a.avps = avps /\ a.avp_code = g.avp_code
      /\ a.vendor_id = g.vendor_id /\ a.format = g.format /\ a.data = g.data
  <2>1. IsWith(a, g, avps, Seq(AVPs[n]))
    BY <1>1, WithMembers, Zenon
  <2> HIDE DEF a
  <2>2. QED
    BY <2>1, Zenon DEF IsWith
<1> HIDE DEF a
<1>3. a \in AVPs[n + 1] /\ a \in AllAvps
  <2>1. a \in AVPs[n + 1]
    BY <1>2, AvpsFacts, Zenon
  <2>2. MaxDepth \in Nat /\ n + 1 \in Nat /\ n + 1 <= MaxDepth
    BY CodecAssumption
  <2>3. QED
    BY <2>1, <2>2, AvpsMonotone, Zenon DEF AllAvps
<1>4. OctetsOf(a) = EncodeAvp(a, m)
  BY <1>2, OctetsOfGroup, Zenon
<1>5. m \in Seq(Octets)
  BY EncodeList, Zenon
<1>6. Data(a, m) = m
  BY <1>1, <1>2, DataIs, Zenon
<1> HIDE DEF m
<1>7. EncodeAvp(a, m) \in Seq(Octets) /\ Len(EncodeAvp(a, m)) % 4 = 0
      /\ HeadSize(a) + Len(m) <= Len(EncodeAvp(a, m))
  BY <1>1, <1>2, <1>5, <1>6, EncodeAvpOctets, Zenon
<1>8. Len(m) <= Len(EncodeAvp(a, m))
  <2>1. HeadSize(a) \in {8, 12} /\ Len(m) \in Nat
    BY <1>5 DEF HeadSize
  <2>2. Len(EncodeAvp(a, m)) \in Nat
    BY <1>7, LenProperties, Zenon
  <2>3. QED
    BY <1>7, <2>1, <2>2
<1>9. QED
  BY <1>2, <1>3, <1>4, <1>7, <1>8, Zenon DEF a, m

\* What is read of the members is read of the group.
LEMMA ReadsGroup ==
  ASSUME NEW g, Plain(g), g.format = "Grouped", NEW n \in Nat, n < MaxDepth,
         NEW avps \in Seq(AVPs[n]), Encodable(avps), NEW r, Reads(avps, r, n),
         Kept(g), Len(OctetsOf([g EXCEPT !.avps = avps])) < Pow[3]
  PROVE  \E b : /\ ReadsOne([g EXCEPT !.avps = avps], b, n + 1)
                /\ Known(g) /\ r = avps => b = [g EXCEPT !.avps = avps]
<1> DEFINE a == [g EXCEPT !.avps = avps]
           m == EncodeAvps(avps)
           f == LookUpAvp(g.avp_code, g.vendor_id)
           b == DecodedAs(a, m)
<1>1. /\ g \in Shaped({<<>>}) /\ HasHeader(g) /\ IsValue(g.format, g.data) /\ g.data \in Seq(Int)
      /\ g.avp_code \in Int /\ g.vendor_id \in Int /\ g.format = "Grouped"
      /\ g.vendor_flag \in BOOLEAN /\ g.mandatory_flag \in BOOLEAN
  BY PlainFacts, ShapedFacts, Zenon
<1>2. /\ a \in Shaped(Seq(AVPs[n])) /\ a.avps = avps /\ a.avp_code = g.avp_code
      /\ a.vendor_id = g.vendor_id /\ a.format = g.format /\ a.data = g.data
      /\ a.vendor_flag = g.vendor_flag /\ a.mandatory_flag = g.mandatory_flag
  <2>1. IsWith(a, g, avps, Seq(AVPs[n]))
    BY <1>1, WithMembers, Zenon
  <2> HIDE DEF a
  <2>2. QED
    BY <2>1, Zenon DEF IsWith
<1>3. /\ a \in AVPs[n + 1] /\ OctetsOf(a) = EncodeAvp(a, m)
      /\ Len(OctetsOf(a)) < Pow[3]
  BY GroupAvp, Zenon
<1> HIDE DEF a
<1>4. HasHeader(a) /\ Kept(a) /\ LookUpAvp(a.avp_code, a.vendor_id) = f
  BY <1>1, <1>2, Zenon DEF HasHeader, Kept
<1>5. m \in Seq(Octets)
  BY EncodeList, Zenon
<1>6. Data(a, m) = m /\ f \in {"Grouped"} \union StringFormats
  BY <1>1, <1>2, DataIs, Zenon DEF Kept
<1>7. Returns(a, f, m)
  BY <1>1, <1>2, <1>5, <1>6, ValueBack, Zenon
<1>8. ReadsAs(OctetsOf(a), b)
  <2>1. a.data \in Seq(Int) /\ IsValue(a.format, a.data)
    BY <1>1, <1>2, Zenon
  <2>2. Len(EncodeAvp(a, m)) < Pow[3]
    BY <1>3
  <2>3. ReadsAs(EncodeAvp(a, m), DecodedAs(a, Data(a, m)))
    BY <1>4, <1>5, <2>1, <2>2, ReadsData, Zenon
  <2>4. QED
    BY <1>3, <1>6, <2>3, Zenon
<1>9. Decode_AVPs[m] = r /\ r \in Seq(Received[n]) /\ Encodable(r) /\ EncodeAvps(r) = m
  <2>1. /\ r \in Seq(Received[n]) /\ Encodable(r) /\ EncodeAvps(r) = m
        /\ Decode_AVPs[m \o <<>>] = r \o Decode_AVPs[<<>>]
    BY DecodeEmpty, Zenon DEF Reads
  <2> HIDE DEF m
  <2>2. m \o <<>> = m /\ r \o <<>> = r
    BY <1>5, <2>1, ConcatEmptySeq, Zenon
  <2>3. QED
    BY <2>1, <2>2, DecodeEmpty, Zenon
<1>10. b = [avp_code |-> a.avp_code, vendor_flag |-> a.vendor_flag,
            mandatory_flag |-> a.mandatory_flag, vendor_id |-> a.vendor_id,
            data |-> Value(f, m), format |-> f,
            avps |-> IF f = "Grouped" THEN r ELSE <<>>]
  BY <1>4, <1>9, Zenon DEF DecodedAs
<1>11. Value(f, m) \in Seq(Int) /\ f \in Formats
  <2>1. \A x \in StringFormats : x \in Formats
    BY DEF Formats
  <2>2. "Grouped" \in Formats
    BY DEF Formats
  <2>3. QED
    BY <1>6, <1>7, <2>1, <2>2, Zenon DEF Returns
<1>a. IsValue(f, Value(f, m)) /\ (f = "Time" => Value(f, m)[1] \in 0..(Pow[4] - 1))
  BY <1>1, <1>2, <1>5, <1>6, ValueSound, Zenon
<1> HIDE DEF b, m, f
<1>12. /\ b.avp_code = a.avp_code /\ b.vendor_flag = a.vendor_flag
       /\ b.mandatory_flag = a.mandatory_flag /\ b.vendor_id = a.vendor_id
       /\ b.data = Value(f, m) /\ b.format = f
       /\ b.avps = IF f = "Grouped" THEN r ELSE <<>>
  BY <1>10, Zenon
<1>13. b.avps \in Seq(Received[n]) /\ b.avps \in Seq(AVPs[n])
  <2>1. b.avps \in Seq(Received[n])
    BY <1>9, <1>12, EmptySeq, Zenon
  <2>2. Seq(Received[n]) \subseteq Seq(AVPs[n])
    BY ReceivedType, SeqMonotonic, Zenon
  <2>3. QED
    BY <2>1, <2>2, Zenon
<1>14. b \in Received[n + 1]
  <2>1. b \in Shaped(Seq(Received[n]))
    <3> DEFINE s == IF f = "Grouped" THEN r ELSE <<>>
    <3>1. s \in Seq(Received[n])
      BY <1>12, <1>13, Zenon
    <3>2. b = [avp_code |-> a.avp_code, vendor_flag |-> a.vendor_flag,
               mandatory_flag |-> a.mandatory_flag, vendor_id |-> a.vendor_id,
               data |-> Value(f, m), format |-> f, avps |-> s]
      BY <1>10, Zenon
    <3> HIDE DEF s
    <3>3. QED
      BY <1>1, <1>2, <1>11, <3>1, <3>2, Zenon DEF Shaped
  <2>2. Sound(b)
    BY <1>4, <1>12, <1>a, Zenon DEF Sound, HasHeader, Known
  <2>3. b.avps # <<>> => b.format = "Grouped"
    BY <1>12, Zenon
  <2>4. QED
    BY <2>1, <2>2, <2>3, ReceivedFacts, Zenon DEF Around
<1>15. OctetsOf(b) = OctetsOf(a)
  <2>1. CASE f = "Grouped"
    <3>1. b.avps = r /\ b.format = "Grouped"
      BY <1>12, <2>1, Zenon
    <3>2. OctetsOf(b) = EncodeAvp(b, m)
      BY <1>9, <1>13, <3>1, OctetsOfGroup, Zenon
    <3>3. Data(b, m) = Data(a, m)
      BY <1>6, <3>1, DataIs, Zenon
    <3>4. EncodeAvp(b, m) = EncodeAvp(a, m)
      <4>1. SameHeader(a, b)
        BY <1>12, Zenon DEF SameHeader
      <4>2. QED
        BY <3>3, <4>1, SameOctets
    <3>5. QED
      BY <1>3, <3>2, <3>4, Zenon DEF m
  <2>2. CASE f # "Grouped"
    <3>1. b.avps = <<>>
      BY <1>12, <2>2, Zenon
    <3>2. OctetsOf(b) = EncodeAvp(b, <<>>)
      BY <3>1, OctetsOfLeaf, Zenon
    <3>3. Data(b, <<>>) = Data(a, m)
      BY <1>6, <1>7, <1>12, <2>2, Zenon DEF Returns
    <3>4. EncodeAvp(b, <<>>) = EncodeAvp(a, m)
      <4>1. SameHeader(a, b)
        BY <1>12, Zenon DEF SameHeader
      <4>2. QED
        BY <3>3, <4>1, SameOctets
    <3>5. QED
      BY <1>3, <3>2, <3>4, Zenon DEF m
  <2>3. QED
    BY <2>1, <2>2, Zenon
<1>16. Known(g) /\ r = avps => b = a
  <2>1. SUFFICES ASSUME Known(g), r = avps PROVE b = a
    OBVIOUS
  <2>2. f = "Grouped" /\ f = a.format /\ f # "Time"
    <3>1. f = "Grouped" /\ f = a.format
      BY <1>1, <1>2, <2>1, Zenon DEF Known, f
    <3>2. QED
      BY <3>1
  <2>3. Value(f, m) = a.data
    BY <1>7, <2>2, Zenon DEF Returns
  <2>4. b = [avp_code |-> a.avp_code, vendor_flag |-> a.vendor_flag,
             mandatory_flag |-> a.mandatory_flag, vendor_id |-> a.vendor_id,
             data |-> a.data, format |-> a.format, avps |-> a.avps]
    BY <1>2, <1>10, <2>1, <2>2, <2>3, Zenon
  <2>5. QED
    BY <1>2, <2>4 DEF Shaped
<1>17. ReadsOne(a, b, n + 1)
  BY <1>8, <1>14, <1>15, Zenon DEF ReadsOne, ReadsAs
<1>18. QED
  BY <1>16, <1>17, Zenon DEF a

-----------------------------------------------------------------------------
(***************************************************************************)
(* The header of a message.                                                *)
(***************************************************************************)
\* A header whose fields fit.
HeaderSet ==
  [cmd_flags : Octets, cmd_code : 0..(Pow[3] - 1), app_id : 0..(Pow[4] - 1),
   hop_by_hop : 0..(Pow[4] - 1), end_to_end : 0..(Pow[4] - 1)]

\* Where the parts of a message are.
HasParts(w, h, payload, n) ==
  /\ w \in Seq(Octets) /\ Len(w) = 20 + Len(payload)
  /\ w[1] = 1 /\ w[5] = h.cmd_flags
  /\ SubSeq(w, 2, 4) = BigEndian(n, 3) /\ SubSeq(w, 6, 8) = BigEndian(h.cmd_code, 3)
  /\ SubSeq(w, 9, 12) = BigEndian(h.app_id, 4)
  /\ SubSeq(w, 13, 16) = BigEndian(h.hop_by_hop, 4)
  /\ SubSeq(w, 17, 20) = BigEndian(h.end_to_end, 4)
  /\ SubSeq(w, 21, Len(w)) = payload

\* A sequence begins with the same parts as another.
BeginsAs(u, s) ==
  /\ Len(s) <= Len(u)
  /\ \A i \in Nat, j \in Nat : i >= 1 /\ j <= Len(s) => SubSeq(u, i, j) = SubSeq(s, i, j)

\* Behind the length of s, u is t.
EndsIn(u, s, t) == SubSeq(u, Len(s) + 1, Len(u)) = t

\* Joining two sequences ends in the second.
LEMMA JoinedEnds ==
  ASSUME NEW S, NEW s \in Seq(S), NEW t \in Seq(S), NEW u, Joined(u, s, t, S)
  PROVE  EndsIn(u, s, t)
<1>1. /\ u \in Seq(S) /\ Len(u) = Len(s) + Len(t) /\ Len(s) \in Nat /\ Len(t) \in Nat
      /\ \A k \in 1..Len(t) : u[Len(s) + k] = t[k]
  BY DEF Joined
<1>2. Len(s) + Len(t) <= Len(u)
  BY <1>1
<1>3. QED
  BY <1>1, <1>2, PartIs DEF EndsIn

\* Joining two sequences begins as the first.
LEMMA JoinedBegins ==
  ASSUME NEW S, NEW s \in Seq(S), NEW t \in Seq(S), NEW u, Joined(u, s, t, S)
  PROVE  BeginsAs(u, s)
<1>1. /\ u \in Seq(S) /\ Len(u) = Len(s) + Len(t) /\ Len(s) \in Nat /\ Len(t) \in Nat
      /\ \A i \in 1..Len(s) : u[i] = s[i]
  BY DEF Joined
<1>2. ASSUME NEW i \in Nat, NEW j \in Nat, i >= 1, j <= Len(s)
      PROVE  SubSeq(u, i, j) = SubSeq(s, i, j)
  <2>1. \A k \in i..j : u[k] = s[k] /\ u[k] \in S /\ s[k] \in S
    BY <1>1, <1>2
  <2>2. /\ SubSeq(u, i, j) \in Seq(S)
        /\ Len(SubSeq(u, i, j)) = IF i <= j THEN j - i + 1 ELSE 0
        /\ \A k \in 1..(j - i + 1) : SubSeq(u, i, j)[k] = u[i + k - 1]
    BY <2>1, SubSeqProperties
  <2>3. /\ SubSeq(s, i, j) \in Seq(S)
        /\ Len(SubSeq(s, i, j)) = IF i <= j THEN j - i + 1 ELSE 0
        /\ \A k \in 1..(j - i + 1) : SubSeq(s, i, j)[k] = s[i + k - 1]
    BY <2>1, SubSeqProperties
  <2> DEFINE x == SubSeq(u, i, j)
             y == SubSeq(s, i, j)
  <2> HIDE DEF x, y
  <2>4. Len(x) = Len(y) /\ \A k \in 1..Len(x) : x[k] = y[k]
    <3>1. Len(x) = Len(y) /\ \A k \in 1..Len(x) : k \in 1..(j - i + 1) /\ i + k - 1 \in i..j
      BY <1>2, <2>2, <2>3 DEF x, y
    <3>2. QED
      BY <2>1, <2>2, <2>3, <3>1 DEF x, y
  <2>5. x = y
    BY <2>2, <2>3, <2>4, SeqEqual DEF x, y
  <2>6. QED
    BY <2>5 DEF x, y
<1>3. QED
  BY <1>1, <1>2 DEF BeginsAs

\* A beginning of a beginning.
LEMMA BeginsFurther ==
  ASSUME NEW s, NEW t, NEW u, BeginsAs(t, s), BeginsAs(u, t),
         Len(s) \in Nat, Len(t) \in Nat, Len(u) \in Nat
  PROVE  BeginsAs(u, s)
<1>1. Len(s) <= Len(t) /\ Len(t) <= Len(u) /\ Len(s) <= Len(u)
  BY DEF BeginsAs
<1>2. ASSUME NEW i \in Nat, NEW j \in Nat, i >= 1, j <= Len(s)
      PROVE  SubSeq(u, i, j) = SubSeq(s, i, j)
  <2>1. j <= Len(t)
    BY <1>1, <1>2
  <2>2. SubSeq(u, i, j) = SubSeq(t, i, j)
    BY <1>2, <2>1 DEF BeginsAs
  <2>3. SubSeq(t, i, j) = SubSeq(s, i, j)
    BY <1>2 DEF BeginsAs
  <2>4. QED
    BY <2>2, <2>3
<1>3. QED
  BY <1>1, <1>2 DEF BeginsAs

\* A part that lies in a beginning.
LEMMA PartOfBeginning ==
  ASSUME NEW s, NEW u, BeginsAs(u, s), NEW i \in Nat, NEW j \in Nat, i >= 1, j <= Len(s)
  PROVE  SubSeq(u, i, j) = SubSeq(s, i, j)
BY DEF BeginsAs

\* The parts of a message are where Message.Encode puts them.
LEMMA MessageParts ==
  ASSUME NEW h \in HeaderSet, NEW payload \in Seq(Octets), NEW n \in Nat
  PROVE  HasParts(MessageOctets(h, payload, n), h, payload, n)
<1> DEFINE o == <<1>>
           g == <<h.cmd_flags>>
           l == Tail(BigEndian(n, 4))
           c == Tail(BigEndian(h.cmd_code, 4))
           a == BigEndian(h.app_id, 4)
           p == BigEndian(h.hop_by_hop, 4)
           e == BigEndian(h.end_to_end, 4)
           x1 == o \o l
           x2 == x1 \o g
           x3 == x2 \o c
           x4 == x3 \o a
           x5 == x4 \o p
           x6 == x5 \o e
           w == x6 \o payload
<1>1. /\ h.cmd_flags \in Octets /\ h.cmd_code \in Int /\ h.app_id \in Int
      /\ h.hop_by_hop \in Int /\ h.end_to_end \in Int /\ n \in Int
  <2>1. Pow[3] \in Nat /\ Pow[4] \in Nat
    BY PowFacts
  <2>2. QED
    BY <2>1 DEF HeaderSet
<1>2. /\ a \in Seq(Octets) /\ Len(a) = 4 /\ p \in Seq(Octets) /\ Len(p) = 4
      /\ e \in Seq(Octets) /\ Len(e) = 4
  <2>1. 4 \in Nat
    OBVIOUS
  <2>2. QED
    BY <1>1, <2>1, BigEndianFacts, Zenon
<1>3. ASSUME NEW k \in Int
      PROVE  /\ Tail(BigEndian(k, 4)) = BigEndian(k, 3)
             /\ BigEndian(k, 3) \in Seq(Octets) /\ Len(BigEndian(k, 3)) = 3
  <2> DEFINE w3 == 3
  <2>1. w3 \in Nat /\ w3 + 1 = 4
    OBVIOUS
  <2> HIDE DEF w3
  <2>2. Tail(BigEndian(k, w3 + 1)) = BigEndian(k, w3)
    BY <2>1, TailBigEndian
  <2>3. BigEndian(k, w3) \in Seq(Octets) /\ Len(BigEndian(k, w3)) = w3
    BY <2>1, BigEndianFacts, Zenon
  <2>4. QED
    BY <2>1, <2>2, <2>3, Zenon DEF w3
<1>4. /\ l = BigEndian(n, 3) /\ l \in Seq(Octets) /\ Len(l) = 3
      /\ c = BigEndian(h.cmd_code, 3) /\ c \in Seq(Octets) /\ Len(c) = 3
  BY <1>1, <1>3, Zenon
<1>5. o \in Seq(Octets) /\ Len(o) = 1 /\ o[1] = 1 /\ g \in Seq(Octets) /\ Len(g) = 1
      /\ g[1] = h.cmd_flags
  <2>1. 1 \in Octets
    BY BaseFacts DEF Octets
  <2>2. QED
    BY <1>1, <2>1
<1>6. MessageOctets(h, payload, n) = w
  BY Zenon DEF MessageOctets
<1> HIDE DEF o, g, l, c, a, p, e
<1>7. Joined(x1, o, l, Octets)
  BY <1>4, <1>5, ConcatJoins, Zenon
<1> HIDE DEF x1
<1>8. x1 \in Seq(Octets) /\ Len(x1) = 4 /\ x1[1] = 1
  BY <1>4, <1>5, <1>7 DEF Joined
<1>9. SubSeq(x1, 2, 4) = l
  <2>1. Len(o) = 1 /\ Len(x1) = 4
    BY <1>5, <1>8, Zenon
  <2>2. EndsIn(x1, o, l)
    BY <1>4, <1>5, <1>7, JoinedEnds, Zenon
  <2>3. QED
    BY <2>1, <2>2 DEF EndsIn
<1>10. Joined(x2, x1, g, Octets)
  BY <1>5, <1>8, ConcatJoins, Zenon
<1> HIDE DEF x2
<1>11. x2 \in Seq(Octets) /\ Len(x2) = 5 /\ x2[1] = 1 /\ x2[5] = h.cmd_flags
  BY <1>5, <1>8, <1>10 DEF Joined
<1>12. Joined(x3, x2, c, Octets)
  BY <1>4, <1>11, ConcatJoins, Zenon
<1> HIDE DEF x3
<1>13. x3 \in Seq(Octets) /\ Len(x3) = 8 /\ x3[1] = 1 /\ x3[5] = h.cmd_flags
  BY <1>4, <1>11, <1>12 DEF Joined
<1>14. Joined(x4, x3, a, Octets)
  BY <1>2, <1>13, ConcatJoins, Zenon
<1> HIDE DEF x4
<1>15. x4 \in Seq(Octets) /\ Len(x4) = 12 /\ x4[1] = 1 /\ x4[5] = h.cmd_flags
  BY <1>2, <1>13, <1>14 DEF Joined
<1>16. Joined(x5, x4, p, Octets)
  BY <1>2, <1>15, ConcatJoins, Zenon
<1> HIDE DEF x5
<1>17. x5 \in Seq(Octets) /\ Len(x5) = 16 /\ x5[1] = 1 /\ x5[5] = h.cmd_flags
  BY <1>2, <1>15, <1>16 DEF Joined
<1>18. Joined(x6, x5, e, Octets)
  BY <1>2, <1>17, ConcatJoins, Zenon
<1> HIDE DEF x6
<1>19. x6 \in Seq(Octets) /\ Len(x6) = 20 /\ x6[1] = 1 /\ x6[5] = h.cmd_flags
  BY <1>2, <1>17, <1>18 DEF Joined
<1>20. Joined(w, x6, payload, Octets)
  BY <1>19, ConcatJoins, Zenon
<1> HIDE DEF w
<1>21. w \in Seq(Octets) /\ Len(w) = 20 + Len(payload) /\ w[1] = 1 /\ w[5] = h.cmd_flags
  BY <1>19, <1>20 DEF Joined
<1>22. /\ Len(x1) \in Nat /\ Len(x2) \in Nat /\ Len(x3) \in Nat /\ Len(x4) \in Nat
       /\ Len(x5) \in Nat /\ Len(x6) \in Nat /\ Len(w) \in Nat
  BY <1>8, <1>11, <1>13, <1>15, <1>17, <1>19, <1>21
<1>30. /\ BeginsAs(x2, x1) /\ BeginsAs(x3, x2) /\ BeginsAs(x4, x3) /\ BeginsAs(x5, x4)
       /\ BeginsAs(x6, x5) /\ BeginsAs(w, x6)
  BY <1>2, <1>4, <1>5, <1>8, <1>10, <1>11, <1>12, <1>13, <1>14, <1>15, <1>16, <1>17, <1>18, <1>19,
     <1>20, JoinedBegins, Zenon
<1>31. BeginsAs(w, x5)
  BY <1>22, <1>30, BeginsFurther, Zenon
<1>32. BeginsAs(w, x4)
  BY <1>22, <1>30, <1>31, BeginsFurther, Zenon
<1>33. BeginsAs(w, x3)
  BY <1>22, <1>30, <1>32, BeginsFurther, Zenon
<1>34. BeginsAs(w, x1)
  <2>1. BeginsAs(w, x2)
    BY <1>22, <1>30, <1>33, BeginsFurther, Zenon
  <2>2. QED
    BY <1>22, <1>30, <2>1, BeginsFurther, Zenon
<1>23. SubSeq(w, 2, 4) = l
  <2>1. 2 \in Nat /\ 4 \in Nat /\ 2 >= 1 /\ 4 <= Len(x1)
    BY <1>8
  <2>2. SubSeq(w, 2, 4) = SubSeq(x1, 2, 4)
    BY <1>34, <2>1, PartOfBeginning, Zenon
  <2>3. QED
    BY <1>9, <2>2, Zenon
<1>24. SubSeq(w, 6, 8) = c
  <2>a. Len(x2) = 5 /\ Len(x3) = 8
    BY <1>11, <1>13, Zenon
  <2>1. 6 \in Nat /\ 8 \in Nat /\ 6 >= 1 /\ 8 <= Len(x3)
    BY <2>a
  <2>b. EndsIn(x3, x2, c)
    BY <1>4, <1>11, <1>13, <1>12, JoinedEnds, Zenon
  <2>2. SubSeq(x3, 6, 8) = c
    BY <2>a, <2>b DEF EndsIn
  <2>3. SubSeq(w, 6, 8) = SubSeq(x3, 6, 8)
    BY <1>33, <2>1, PartOfBeginning, Zenon
  <2>4. QED
    BY <2>2, <2>3, Zenon
<1>25. SubSeq(w, 9, 12) = a
  <2>a. Len(x3) = 8 /\ Len(x4) = 12
    BY <1>13, <1>15, Zenon
  <2>1. 9 \in Nat /\ 12 \in Nat /\ 9 >= 1 /\ 12 <= Len(x4)
    BY <2>a
  <2>b. EndsIn(x4, x3, a)
    BY <1>2, <1>13, <1>15, <1>14, JoinedEnds, Zenon
  <2>2. SubSeq(x4, 9, 12) = a
    BY <2>a, <2>b DEF EndsIn
  <2>3. SubSeq(w, 9, 12) = SubSeq(x4, 9, 12)
    BY <1>32, <2>1, PartOfBeginning, Zenon
  <2>4. QED
    BY <2>2, <2>3, Zenon
<1>26. SubSeq(w, 13, 16) = p
  <2>a. Len(x4) = 12 /\ Len(x5) = 16
    BY <1>15, <1>17, Zenon
  <2>1. 13 \in Nat /\ 16 \in Nat /\ 13 >= 1 /\ 16 <= Len(x5)
    BY <2>a
  <2>b. EndsIn(x5, x4, p)
    BY <1>2, <1>15, <1>17, <1>16, JoinedEnds, Zenon
  <2>2. SubSeq(x5, 13, 16) = p
    BY <2>a, <2>b DEF EndsIn
  <2>3. SubSeq(w, 13, 16) = SubSeq(x5, 13, 16)
    BY <1>31, <2>1, PartOfBeginning, Zenon
  <2>4. QED
    BY <2>2, <2>3, Zenon
<1>27. SubSeq(w, 17, 20) = e
  <2>a. Len(x5) = 16 /\ Len(x6) = 20
    BY <1>17, <1>19, Zenon
  <2>1. 17 \in Nat /\ 20 \in Nat /\ 17 >= 1 /\ 20 <= Len(x6)
    BY <2>a
  <2>b. EndsIn(x6, x5, e)
    BY <1>2, <1>17, <1>19, <1>18, JoinedEnds, Zenon
  <2>2. SubSeq(x6, 17, 20) = e
    BY <2>a, <2>b DEF EndsIn
  <2>3. SubSeq(w, 17, 20) = SubSeq(x6, 17, 20)
    BY <1>30, <2>1, PartOfBeginning, Zenon
  <2>4. QED
    BY <2>2, <2>3, Zenon
<1>28. SubSeq(w, 21, Len(w)) = payload
  <2>1. Len(x6) = 20
    BY <1>19, Zenon
  <2>2. EndsIn(w, x6, payload)
    BY <1>19, <1>20, JoinedEnds, Zenon
  <2>3. QED
    BY <2>1, <2>2 DEF EndsIn
<1>29. HasParts(w, h, payload, n)
  BY <1>4, <1>21, <1>23, <1>24, <1>25, <1>26, <1>27, <1>28, Zenon DEF HasParts, a, p, e
<1>35. QED
  BY <1>6, <1>29, Zenon

\* DecodeHeader and Decode after Encode: the fields of the header come back; the
\* length does if it fits in its three octets.
LEMMA HeaderBack ==
  ASSUME NEW h \in HeaderSet, NEW payload \in Seq(Octets), NEW n \in Nat,
         NEW w, HasParts(w, h, payload, n)
  PROVE  /\ DecodeHeader(w) = h
         /\ n < Pow[3] => MessageLength(w) = n
         /\ Decode(w) = [header |-> h, avps |-> Decode_AVPs[payload]]
<1>1. /\ w[5] = h.cmd_flags
      /\ SubSeq(w, 2, 4) = BigEndian(n, 3) /\ SubSeq(w, 6, 8) = BigEndian(h.cmd_code, 3)
      /\ SubSeq(w, 9, 12) = BigEndian(h.app_id, 4)
      /\ SubSeq(w, 13, 16) = BigEndian(h.hop_by_hop, 4)
      /\ SubSeq(w, 17, 20) = BigEndian(h.end_to_end, 4)
      /\ SubSeq(w, 21, Len(w)) = payload
  BY Zenon DEF HasParts
<1>2. /\ h.cmd_code \in 0..(Pow[3] - 1) /\ h.app_id \in 0..(Pow[4] - 1)
      /\ h.hop_by_hop \in 0..(Pow[4] - 1) /\ h.end_to_end \in 0..(Pow[4] - 1)
  BY DEF HeaderSet
<1>3. h = [cmd_flags |-> h.cmd_flags, cmd_code |-> h.cmd_code, app_id |-> h.app_id,
           hop_by_hop |-> h.hop_by_hop, end_to_end |-> h.end_to_end]
  BY DEF HeaderSet
<1>4. 3 \in Nat /\ 4 \in Nat
  OBVIOUS
<1>5. /\ Unsigned(BigEndian(h.cmd_code, 3)) = h.cmd_code
      /\ Unsigned(BigEndian(h.app_id, 4)) = h.app_id
      /\ Unsigned(BigEndian(h.hop_by_hop, 4)) = h.hop_by_hop
      /\ Unsigned(BigEndian(h.end_to_end, 4)) = h.end_to_end
  BY <1>2, <1>4, UnsignedRoundTrip, Zenon
<1>6. DecodeHeader(w) = [cmd_flags |-> h.cmd_flags, cmd_code |-> h.cmd_code, app_id |-> h.app_id,
                         hop_by_hop |-> h.hop_by_hop, end_to_end |-> h.end_to_end]
  BY <1>1, <1>5, Zenon DEF DecodeHeader
<1>7. DecodeHeader(w) = h
  BY <1>3, <1>6, Zenon
<1>8. ASSUME n < Pow[3] PROVE MessageLength(w) = n
  <2>1. Pow[3] \in Nat
    BY PowFacts
  <2>2. n \in 0..(Pow[3] - 1)
    BY <1>8, <2>1
  <2>3. QED
    BY <1>1, <1>4, <2>2, UnsignedRoundTrip, Zenon DEF MessageLength
<1>9. Decode(w) = [header |-> h, avps |-> Decode_AVPs[payload]]
  BY <1>1, <1>7, Zenon DEF Decode
<1>10. QED
  BY <1>7, <1>8, <1>9, Zenon

-----------------------------------------------------------------------------
(***************************************************************************)
(* What the sender puts together.                                          *)
(***************************************************************************)
\* What the sender has put together.
Built(avps, n) ==
  /\ avps \in Seq(AVPs[n]) /\ Encodable(avps)
  /\ Len(EncodeAvps(avps)) % 4 = 0

\* The receiver reads what has been put together of the AVPs in set, unless it is too
\* long: something with the same octets, or the same.
Readable(avps, n, set) ==
  (\A a \in set : Kept(a)) /\ Len(EncodeAvps(avps)) < Pow[3] =>
    \E r : Reads(avps, r, n) /\ ((\A a \in set : Known(a)) => r = avps)

\* Lengths add up; whole words stay whole words.
LEMMA ConcatLengths ==
  ASSUME NEW s \in Seq(Octets), NEW t \in Seq(Octets)
  PROVE  /\ Len(s \o t) = Len(s) + Len(t)
         /\ Len(s) <= Len(s \o t) /\ Len(t) <= Len(s \o t)
         /\ Len(s) % 4 = 0 /\ Len(t) % 4 = 0 => Len(s \o t) % 4 = 0
<1>1. Len(s) \in Nat /\ Len(t) \in Nat /\ Len(s \o t) = Len(s) + Len(t)
  OBVIOUS
<1>2. QED
  BY <1>1

\* The message as GenMess makes it.
LEMMA BuiltEmpty ==
  Built(<<>>, 0) /\ Readable(<<>>, 0, {})
<1>1. Encodable(<<>>) /\ EncodeAvps(<<>>) = <<>>
  BY EncodeEmpty, Zenon
<1>2. <<>> \in Seq(AVPs[0]) /\ Len(<<>>) % 4 = 0 /\ 0 \in Nat
  OBVIOUS
<1>3. Built(<<>>, 0)
  BY <1>1, <1>2, Zenon DEF Built
<1>4. Reads(<<>>, <<>>, 0)
  BY <1>2, ReadsEmpty, Zenon
<1>5. QED
  BY <1>3, <1>4, Zenon DEF Readable

\* AddAVPs_Tail.
LEMMA BuiltTail ==
  ASSUME NEW n \in Nat, n <= MaxDepth, NEW avps, Built(avps, n), NEW a \in Leaves \union Groups
  PROVE  Built(Append(avps, a), n)
<1>1. avps \in Seq(AVPs[n]) /\ Encodable(avps) /\ Len(EncodeAvps(avps)) % 4 = 0
  BY Zenon DEF Built
<1>2. /\ a \in AVPs[n] /\ a \in AllAvps
      /\ OctetsOf(a) \in Seq(Octets) /\ Len(OctetsOf(a)) % 4 = 0
  BY MadePlain, PlainAvp, Zenon
<1>3. /\ Encodable(Append(avps, a))
      /\ EncodeAvps(Append(avps, a)) = EncodeAvps(avps) \o OctetsOf(a)
  BY <1>1, <1>2, EncodeTail, Zenon
<1>4. EncodeAvps(avps) \in Seq(Octets)
  BY <1>1, EncodeList, Zenon
<1>5. Len(EncodeAvps(avps) \o OctetsOf(a)) % 4 = 0
  BY <1>1, <1>2, <1>4, ConcatLengths, Zenon
<1>6. Append(avps, a) \in Seq(AVPs[n])
  BY <1>1, <1>2, AppendProperties, Zenon
<1>7. QED
  BY <1>3, <1>5, <1>6, Zenon DEF Built

\* AddAVPs_Head.
LEMMA BuiltHead ==
  ASSUME NEW n \in Nat, n <= MaxDepth, NEW avps, Built(avps, n), NEW a \in Leaves \union Groups
  PROVE  Built(<<a>> \o avps, n)
<1>1. avps \in Seq(AVPs[n]) /\ Encodable(avps) /\ Len(EncodeAvps(avps)) % 4 = 0
  BY Zenon DEF Built
<1>2. /\ a \in AVPs[n] /\ a \in AllAvps
      /\ OctetsOf(a) \in Seq(Octets) /\ Len(OctetsOf(a)) % 4 = 0
  BY MadePlain, PlainAvp, Zenon
<1>3. /\ Encodable(<<a>> \o avps)
      /\ EncodeAvps(<<a>> \o avps) = OctetsOf(a) \o EncodeAvps(avps)
  BY <1>1, <1>2, EncodeHead, Zenon
<1>4. EncodeAvps(avps) \in Seq(Octets)
  BY <1>1, EncodeList, Zenon
<1>5. Len(OctetsOf(a) \o EncodeAvps(avps)) % 4 = 0
  BY <1>1, <1>2, <1>4, ConcatLengths, Zenon
<1>6. <<a>> \o avps \in Seq(AVPs[n])
  <2>1. <<a>> \in Seq(AVPs[n])
    BY <1>2, OneSeq, Zenon
  <2>2. QED
    BY <1>1, <2>1, ConcatProperties, Zenon
<1>7. QED
  BY <1>3, <1>5, <1>6, Zenon DEF Built

\* A group of what has been put together.
LEMMA BuiltGroup ==
  ASSUME NEW n \in Nat, n < MaxDepth, NEW avps, Built(avps, n), NEW g \in Groups
  PROVE  Built(<<[g EXCEPT !.avps = avps]>>, n + 1)
<1> DEFINE a == [g EXCEPT !.avps = avps]
<1>1. avps \in Seq(AVPs[n]) /\ Encodable(avps)
  BY Zenon DEF Built
<1>2. /\ a \in AVPs[n + 1] /\ a \in AllAvps
      /\ OctetsOf(a) \in Seq(Octets) /\ Len(OctetsOf(a)) % 4 = 0
  BY <1>1, MadePlain, GroupAvp, Zenon
<1> HIDE DEF a
<1>3. Encodable(<<a>>) /\ EncodeAvps(<<a>>) = OctetsOf(a)
  BY <1>2, EncodeSingle, Zenon
<1>4. <<a>> \in Seq(AVPs[n + 1])
  BY <1>2, OneSeq, Zenon
<1>5. Built(<<a>>, n + 1)
  BY <1>2, <1>3, <1>4, Zenon DEF Built
<1>6. QED
  BY <1>5, Zenon DEF a

\* AddAVPs_Tail keeps the message readable.
LEMMA ReadableTail ==
  ASSUME NEW n \in Nat, n <= MaxDepth, NEW avps, Built(avps, n),
         NEW set, Readable(avps, n, set), NEW a \in Leaves \union Groups
  PROVE  Readable(Append(avps, a), n, set \union {a})
<1> SUFFICES ASSUME \A x \in set \union {a} : Kept(x),
                    Len(EncodeAvps(Append(avps, a))) < Pow[3]
             PROVE  \E r : /\ Reads(Append(avps, a), r, n)
                           /\ (\A x \in set \union {a} : Known(x)) => r = Append(avps, a)
  BY Zenon DEF Readable
<1>1. Encodable(avps)
  BY Zenon DEF Built
<1>2. a \in AllAvps /\ OctetsOf(a) \in Seq(Octets)
  BY MadePlain, PlainAvp, Zenon
<1>3. EncodeAvps(Append(avps, a)) = EncodeAvps(avps) \o OctetsOf(a)
  BY <1>1, <1>2, EncodeTail, Zenon
<1>4. Len(EncodeAvps(avps)) < Pow[3] /\ Len(OctetsOf(a)) < Pow[3]
  <2> DEFINE e == EncodeAvps(avps)
             o == OctetsOf(a)
             p == Pow[3]
  <2>1. e \in Seq(Octets) /\ o \in Seq(Octets)
    BY <1>1, <1>2, EncodeList, Zenon
  <2>2. p \in Nat
    BY PowFacts
  <2>3. Len(e \o o) < p
    BY <1>3, Zenon
  <2> HIDE DEF e, o, p
  <2>4. Len(e) <= Len(e \o o) /\ Len(o) <= Len(e \o o)
    BY <2>1, ConcatLengths, Zenon
  <2>5. Len(e) \in Nat /\ Len(o) \in Nat /\ Len(e \o o) \in Nat
    BY <2>1
  <2>6. Len(e) < p /\ Len(o) < p
    BY <2>2, <2>3, <2>4, <2>5
  <2>7. QED
    BY <2>6, Zenon DEF e, o, p
<1>5. PICK r : Reads(avps, r, n) /\ ((\A x \in set : Known(x)) => r = avps)
  BY <1>4, Zenon DEF Readable
<1>6. Kept(a)
  BY Zenon
<1>7. PICK b : ReadsOne(a, b, n) /\ (Known(a) => b = a)
  BY <1>4, <1>6, MadePlain, ReadsPlain, Zenon
<1>8. Reads(Append(avps, a), Append(r, b), n)
  BY <1>1, <1>2, <1>5, <1>7, ReadsTail, Zenon
<1>9. (\A x \in set \union {a} : Known(x)) => Append(r, b) = Append(avps, a)
  BY <1>5, <1>7, Zenon
<1>10. QED
  BY <1>8, <1>9, Zenon

\* AddAVPs_Head keeps the message readable.
LEMMA ReadableHead ==
  ASSUME NEW n \in Nat, n <= MaxDepth, NEW avps, Built(avps, n),
         NEW set, Readable(avps, n, set), NEW a \in Leaves \union Groups
  PROVE  Readable(<<a>> \o avps, n, set \union {a})
<1> SUFFICES ASSUME \A x \in set \union {a} : Kept(x),
                    Len(EncodeAvps(<<a>> \o avps)) < Pow[3]
             PROVE  \E r : /\ Reads(<<a>> \o avps, r, n)
                           /\ (\A x \in set \union {a} : Known(x)) => r = <<a>> \o avps
  BY Zenon DEF Readable
<1>1. Encodable(avps)
  BY Zenon DEF Built
<1>2. a \in AllAvps /\ OctetsOf(a) \in Seq(Octets)
  BY MadePlain, PlainAvp, Zenon
<1>3. EncodeAvps(<<a>> \o avps) = OctetsOf(a) \o EncodeAvps(avps)
  BY <1>1, <1>2, EncodeHead, Zenon
<1>4. Len(EncodeAvps(avps)) < Pow[3] /\ Len(OctetsOf(a)) < Pow[3]
  <2> DEFINE e == EncodeAvps(avps)
             o == OctetsOf(a)
             p == Pow[3]
  <2>1. e \in Seq(Octets) /\ o \in Seq(Octets)
    BY <1>1, <1>2, EncodeList, Zenon
  <2>2. p \in Nat
    BY PowFacts
  <2>3. Len(o \o e) < p
    BY <1>3, Zenon
  <2> HIDE DEF e, o, p
  <2>4. Len(e) <= Len(o \o e) /\ Len(o) <= Len(o \o e)
    BY <2>1, ConcatLengths, Zenon
  <2>5. Len(e) \in Nat /\ Len(o) \in Nat /\ Len(o \o e) \in Nat
    BY <2>1
  <2>6. Len(e) < p /\ Len(o) < p
    BY <2>2, <2>3, <2>4, <2>5
  <2>7. QED
    BY <2>6, Zenon DEF e, o, p
<1>5. PICK r : Reads(avps, r, n) /\ ((\A x \in set : Known(x)) => r = avps)
  BY <1>4, Zenon DEF Readable
<1>6. Kept(a)
  BY Zenon
<1>7. PICK b : ReadsOne(a, b, n) /\ (Known(a) => b = a)
  BY <1>4, <1>6, MadePlain, ReadsPlain, Zenon
<1>8. Reads(<<a>> \o avps, <<b>> \o r, n)
  BY <1>1, <1>2, <1>5, <1>7, ReadsHead, Zenon
<1>9. (\A x \in set \union {a} : Known(x)) => <<b>> \o r = <<a>> \o avps
  BY <1>5, <1>7, Zenon
<1>10. QED
  BY <1>8, <1>9, Zenon

\* So does a group around it.
LEMMA ReadableGroup ==
  ASSUME NEW n \in Nat, n < MaxDepth, NEW avps, Built(avps, n),
         NEW set, Readable(avps, n, set), NEW g \in Groups
  PROVE  Readable(<<[g EXCEPT !.avps = avps]>>, n + 1, set \union {g})
<1> DEFINE a == [g EXCEPT !.avps = avps]
           m == n + 1
<1> SUFFICES ASSUME \A x \in set \union {g} : Kept(x),
                    Len(EncodeAvps(<<a>>)) < Pow[3]
             PROVE  \E r : Reads(<<a>>, r, m) /\ ((\A x \in set \union {g} : Known(x)) => r = <<a>>)
  BY Zenon DEF Readable
<1>1. avps \in Seq(AVPs[n]) /\ Encodable(avps)
  BY Zenon DEF Built
<1>2. /\ a \in AllAvps /\ OctetsOf(a) \in Seq(Octets)
      /\ Len(EncodeAvps(avps)) <= Len(OctetsOf(a))
  BY <1>1, MadePlain, GroupAvp, Zenon
<1>3. EncodeAvps(<<a>>) = OctetsOf(a)
  <2> HIDE DEF a
  <2>1. QED
    BY <1>2, EncodeSingle, Zenon
<1>4. Len(EncodeAvps(avps)) < Pow[3] /\ Len(OctetsOf(a)) < Pow[3]
  <2> DEFINE e == EncodeAvps(avps)
             o == OctetsOf(a)
             p == Pow[3]
  <2>1. e \in Seq(Octets) /\ o \in Seq(Octets) /\ Len(e) <= Len(o)
    BY <1>1, <1>2, EncodeList, Zenon
  <2>2. p \in Nat
    BY PowFacts
  <2>3. Len(o) < p
    BY <1>3, Zenon
  <2> HIDE DEF e, o, p
  <2>4. Len(e) \in Nat /\ Len(o) \in Nat
    BY <2>1
  <2>5. Len(e) < p /\ Len(o) < p
    BY <2>1, <2>2, <2>3, <2>4
  <2>6. QED
    BY <2>5, Zenon DEF e, o, p
<1>5. PICK r : Reads(avps, r, n) /\ ((\A x \in set : Known(x)) => r = avps)
  BY <1>4, Zenon DEF Readable
<1>6. Kept(g)
  BY Zenon
<1>7. PICK b : ReadsOne(a, b, m) /\ (Known(g) /\ r = avps => b = a)
  BY <1>1, <1>4, <1>5, <1>6, MadePlain, ReadsGroup, Zenon
<1>8. m \in Nat /\ m <= MaxDepth
  BY CodecAssumption
<1>9. Reads(<<a>>, <<b>>, m)
  <2> HIDE DEF a, m
  <2>1. QED
    BY <1>2, <1>7, <1>8, ReadsSingle, Zenon
<1>10. (\A x \in set \union {g} : Known(x)) => <<b>> = <<a>>
  <2> HIDE DEF a
  <2>1. QED
    BY <1>5, <1>7, Zenon
<1>11. QED
  BY <1>9, <1>10, Zenon

-----------------------------------------------------------------------------
(***************************************************************************)
(* The invariant and the theorems.                                         *)
(***************************************************************************)
CodecTypeOK ==
  /\ phase \in {"build", "encoded", "decoded"}
  /\ depth \in 0..MaxDepth
  /\ made \subseteq Leaves \union Groups
  /\ mess \in [header : HeaderSet, avps : Seq(AVPs[depth])]

\* What is on the wire is the message, what the receiver has is what it decoded of it.
OnTheWire ==
  /\ phase \in {"encoded", "decoded"} => wire = Encode(mess)
  /\ phase = "decoded" => got = Decode(wire)

\* The inductive invariant.
CodecInv ==
  /\ CodecTypeOK
  /\ Built(mess.avps, depth)
  /\ Readable(mess.avps, depth, made)
  /\ OnTheWire

\* The header GenMess makes fits its fields.
LEMMA HeaderFits ==
  ASSUME NEW h \in Headers
  PROVE  GenMess(h.cmd, h.request, h.proxiable, h.app, h.hop, h.end, <<>>).header \in HeaderSet
<1>1. /\ h.cmd \in 0..(Pow[3] - 1) /\ h.request \in BOOLEAN /\ h.proxiable \in BOOLEAN
      /\ h.app \in 0..(Pow[4] - 1) /\ h.hop \in 0..(Pow[4] - 1) /\ h.end \in 0..(Pow[4] - 1)
  BY CodecAssumption, Zenon
<1>2. Or(Or(0, h.request, TopBit), h.proxiable, SecondBit) \in Octets
  BY <1>1, FlagFacts, Zenon
<1> DEFINE f == Or(Or(0, h.request, TopBit), h.proxiable, SecondBit)
<1>3. GenMess(h.cmd, h.request, h.proxiable, h.app, h.hop, h.end, <<>>).header =
        [cmd_flags |-> f, cmd_code |-> h.cmd, app_id |-> h.app, hop_by_hop |-> h.hop,
         end_to_end |-> h.end]
  BY DEF GenMess
<1> HIDE DEF f
<1>4. f \in Octets
  BY <1>2, Zenon DEF f
<1>5. QED
  BY <1>1, <1>3, <1>4 DEF HeaderSet

\* The invariant at the start.
LEMMA CodecInit == Init => CodecInv
<1> SUFFICES ASSUME Init PROVE CodecInv
  OBVIOUS
<1>1. /\ phase = "build" /\ depth = 0 /\ made = {}
      /\ \E h \in Headers :
           mess = GenMess(h.cmd, h.request, h.proxiable, h.app, h.hop, h.end, <<>>)
  BY DEF Init
<1>2. PICK h \in Headers :
        mess = GenMess(h.cmd, h.request, h.proxiable, h.app, h.hop, h.end, <<>>)
  BY <1>1, Zenon
<1>3. mess.header \in HeaderSet
  BY <1>2, HeaderFits, Zenon
<1>4. mess = [header |-> mess.header, avps |-> <<>>] /\ mess.avps = <<>>
  BY <1>2 DEF GenMess
<1>5. Built(mess.avps, depth) /\ Readable(mess.avps, depth, made)
  BY <1>1, <1>4, BuiltEmpty, Zenon
<1>6. CodecTypeOK
  <2>1. MaxDepth \in Nat
    BY CodecAssumption
  <2>2. mess.avps \in Seq(AVPs[depth])
    BY <1>5, Zenon DEF Built
  <2>3. mess = [header |-> mess.header, avps |-> mess.avps]
    BY <1>4, Zenon
  <2>4. mess \in [header : HeaderSet, avps : Seq(AVPs[depth])]
    BY <1>3, <2>2, <2>3
  <2>5. depth \in 0..MaxDepth
    BY <1>1, <2>1
  <2>6. QED
    BY <1>1, <2>4, <2>5 DEF CodecTypeOK
<1>7. OnTheWire
  BY <1>1 DEF OnTheWire
<1>8. QED
  BY <1>5, <1>6, <1>7, Zenon DEF CodecInv

\* What a step that adds to the message has to show.
LEMMA CodecBuilds ==
  ASSUME CodecInv, NEW STATE avps, NEW a \in Leaves \union Groups, Building(avps, a),
         depth' \in 0..MaxDepth, Built(avps, depth'), Readable(avps, depth', made \union {a})
  PROVE  CodecInv'
<1>1. /\ phase = "build" /\ phase' = "build"
      /\ mess' = [mess EXCEPT !.avps = avps]
      /\ made' = made \union {a}
  BY DEF Building
<1>2. /\ made \subseteq Leaves \union Groups
      /\ mess \in [header : HeaderSet, avps : Seq(AVPs[depth])]
  BY Zenon DEF CodecInv, CodecTypeOK
<1>3. avps \in Seq(AVPs[depth'])
  BY Zenon DEF Built
<1>4. mess'.avps = avps /\ mess' \in [header : HeaderSet, avps : Seq(AVPs[depth'])]
  BY <1>1, <1>2, <1>3
<1>5. CodecTypeOK'
  <2>1. made' \subseteq Leaves \union Groups
    BY <1>1, <1>2
  <2>2. QED
    BY <1>1, <1>4, <2>1 DEF CodecTypeOK
<1>6. Built(mess'.avps, depth') /\ Readable(mess'.avps, depth', made')
  BY <1>1, <1>4, Zenon
<1>7. OnTheWire'
  BY <1>1 DEF OnTheWire
<1>8. QED
  BY <1>5, <1>6, <1>7, Zenon DEF CodecInv

\* Every step preserves the invariant.
LEMMA CodecNext ==
  CodecInv /\ [Next]_vars => CodecInv'
<1> SUFFICES ASSUME CodecInv, [Next]_vars PROVE CodecInv'
  OBVIOUS
<1>1. CodecTypeOK /\ Built(mess.avps, depth) /\ Readable(mess.avps, depth, made) /\ OnTheWire
  BY Zenon DEF CodecInv
<1>2. depth \in 0..MaxDepth /\ MaxDepth \in Nat
  BY <1>1, CodecAssumption DEF CodecTypeOK
<1>3. depth \in Nat /\ depth <= MaxDepth
  BY <1>2
<1>4. ASSUME NEW a \in Leaves, AddAVPs_Tail(a)
      PROVE  CodecInv'
  <2>1. Building(Append(mess.avps, a), a) /\ depth' = depth
    BY <1>4, Zenon DEF AddAVPs_Tail
  <2>2. a \in Leaves \union Groups
    OBVIOUS
  <2>3. Built(Append(mess.avps, a), depth)
    BY <1>1, <1>3, <2>2, BuiltTail, Zenon
  <2>4. Readable(Append(mess.avps, a), depth, made \union {a})
    BY <1>1, <1>3, <2>2, ReadableTail, Zenon
  <2>5. QED
    BY <1>2, <2>1, <2>2, <2>3, <2>4, CodecBuilds, Zenon
<1>5. ASSUME NEW a \in Leaves, AddAVPs_Head(a)
      PROVE  CodecInv'
  <2>1. Building(<<a>> \o mess.avps, a) /\ depth' = depth
    BY <1>5, Zenon DEF AddAVPs_Head
  <2>2. a \in Leaves \union Groups
    OBVIOUS
  <2>3. Built(<<a>> \o mess.avps, depth)
    BY <1>1, <1>3, <2>2, BuiltHead, Zenon
  <2>4. Readable(<<a>> \o mess.avps, depth, made \union {a})
    BY <1>1, <1>3, <2>2, ReadableHead, Zenon
  <2>5. QED
    BY <1>2, <2>1, <2>2, <2>3, <2>4, CodecBuilds, Zenon
<1>6. ASSUME NEW g \in Groups, AVP_Group(g)
      PROVE  CodecInv'
  <2>1. /\ Building(<<[g EXCEPT !.avps = mess.avps]>>, g)
        /\ depth < MaxDepth /\ depth' = depth + 1
    BY <1>6, Zenon DEF AVP_Group
  <2>2. g \in Leaves \union Groups
    OBVIOUS
  <2>3. Built(<<[g EXCEPT !.avps = mess.avps]>>, depth + 1)
    BY <1>1, <1>3, <2>1, BuiltGroup, Zenon
  <2>4. Readable(<<[g EXCEPT !.avps = mess.avps]>>, depth + 1, made \union {g})
    BY <1>1, <1>3, <2>1, ReadableGroup, Zenon
  <2>5. depth' \in 0..MaxDepth
    <3>1. depth < MaxDepth /\ depth' = depth + 1
      BY <2>1, Zenon
    <3>2. QED
      BY <1>2, <1>3, <3>1
  <2>6. QED
    BY <2>1, <2>2, <2>3, <2>4, <2>5, CodecBuilds, Zenon
<1>7. ASSUME phase' \in {"build", "encoded", "decoded"}, UNCHANGED <<depth, made, mess>>,
             OnTheWire'
      PROVE  CodecInv'
  <2>1. CodecTypeOK'
    BY <1>1, <1>7 DEF CodecTypeOK
  <2>2. Built(mess'.avps, depth') /\ Readable(mess'.avps, depth', made')
    <3>1. mess' = mess /\ depth' = depth /\ made' = made
      BY <1>7
    <3>2. QED
      BY <1>1, <3>1, Zenon
  <2>3. QED
    BY <1>7, <2>1, <2>2, Zenon DEF CodecInv
<1>8. CASE Send
  <2>1. /\ phase' = "encoded" /\ wire' = Encode(mess)
        /\ UNCHANGED <<depth, made, mess>>
    BY <1>8 DEF Send
  <2>2. OnTheWire'
    <3>1. mess' = mess
      BY <2>1
    <3>2. wire' = Encode(mess')
      BY <2>1, <3>1, Zenon
    <3>3. phase' # "decoded"
      BY <2>1
    <3>4. QED
      BY <3>2, <3>3, Zenon DEF OnTheWire
  <2>3. phase' \in {"build", "encoded", "decoded"}
    BY <2>1
  <2>4. QED
    BY <1>7, <2>1, <2>2, <2>3, Zenon
<1>9. CASE Receive
  <2>1. /\ phase = "encoded" /\ phase' = "decoded" /\ got' = Decode(wire)
        /\ mess' = mess /\ wire' = wire
        /\ UNCHANGED <<depth, made, mess>>
    BY <1>9 DEF Receive
  <2>2. wire = Encode(mess)
    BY <1>1, <2>1 DEF OnTheWire
  <2>3. wire' = Encode(mess') /\ got' = Decode(wire')
    BY <2>1, <2>2, Zenon
  <2>4. OnTheWire'
    BY <2>3, Zenon DEF OnTheWire
  <2>5. phase' \in {"build", "encoded", "decoded"}
    BY <2>1
  <2>6. QED
    BY <1>7, <2>1, <2>4, <2>5, Zenon
<1>10. CASE UNCHANGED vars
  <2>1. /\ phase' = phase /\ mess' = mess /\ wire' = wire /\ got' = got
        /\ UNCHANGED <<depth, made, mess>>
    BY <1>10 DEF vars
  <2>2. phase' \in {"build", "encoded", "decoded"}
    BY <1>1, <2>1 DEF CodecTypeOK
  <2>3. OnTheWire'
    BY <1>1, <2>1, Zenon DEF OnTheWire
  <2>4. QED
    BY <1>7, <2>1, <2>2, <2>3, Zenon
<1>11. QED
  BY <1>4, <1>5, <1>6, <1>8, <1>9, <1>10, Zenon DEF Next, Done

\* The invariant holds in every state.
LEMMA CodecInvariant == Spec => []CodecInv
  BY CodecInit, CodecNext, PTL DEF Spec

\* What is on the wire once the message is encoded.
LEMMA WireParts ==
  ASSUME CodecInv, phase \in {"encoded", "decoded"}
  PROVE  LET payload == EncodeAvps(mess.avps)
         IN  /\ mess = [header |-> mess.header, avps |-> mess.avps]
             /\ mess.header \in HeaderSet /\ payload \in Seq(Octets)
             /\ wire = MessageOctets(mess.header, payload, 20 + Len(payload))
             /\ HasParts(wire, mess.header, payload, 20 + Len(payload))
             /\ Len(wire) = 20 + Len(payload) /\ Len(payload) \in Nat
<1> DEFINE payload == EncodeAvps(mess.avps)
           n == 20 + Len(payload)
           w == MessageOctets(mess.header, payload, n)
<1>1. mess.header \in HeaderSet /\ mess = [header |-> mess.header, avps |-> mess.avps]
  BY DEF CodecInv, CodecTypeOK
<1>2. Encodable(mess.avps)
  BY Zenon DEF CodecInv, Built
<1>3. payload \in Seq(Octets)
  BY <1>2, EncodeList, Zenon
<1>4. wire = w
  <2>1. wire = Encode(mess)
    BY Zenon DEF CodecInv, OnTheWire
  <2>2. QED
    BY <2>1, Zenon DEF Encode
<1> HIDE DEF payload, w
<1>5. n \in Nat /\ Len(payload) \in Nat
  BY <1>3
<1> HIDE DEF n
<1>6. HasParts(wire, mess.header, payload, n)
  BY <1>1, <1>3, <1>4, <1>5, MessageParts, Zenon DEF w
<1>7. Len(wire) = n
  BY <1>6, Zenon DEF HasParts, n
<1>8. QED
  BY <1>1, <1>3, <1>4, <1>5, <1>6, <1>7, Zenon DEF payload, n, w

\* What the receiver has of the message.
LEMMA WhatIsRead ==
  ASSUME CodecInv, phase = "decoded", WireFits, KeptAsOctets
  PROVE  \E r : /\ got = [header |-> mess.header, avps |-> r]
                /\ EncodeAvps(r) = EncodeAvps(mess.avps)
                /\ r \in Seq(Received[depth])
                /\ InDictionary => r = mess.avps
<1> DEFINE payload == EncodeAvps(mess.avps)
           n == 20 + Len(payload)
<1>1. /\ mess.header \in HeaderSet /\ payload \in Seq(Octets)
      /\ HasParts(wire, mess.header, payload, n)
      /\ Len(wire) = n /\ Len(payload) \in Nat
  BY WireParts, Zenon
<1>2. \A a \in made : Kept(a)
  BY DEF KeptAsOctets, Kept, LookUpAvp, StringFormats
<1>3. InDictionary => \A a \in made : Known(a)
  BY Zenon DEF InDictionary, Known
<1> HIDE DEF payload
<1>4. Len(payload) < Pow[3]
  <2>1. Pow[3] \in Nat
    BY PowFacts
  <2> DEFINE p == Pow[3]
  <2>2. Len(wire) < p
    BY Zenon DEF WireFits
  <2>3. p \in Nat
    BY <2>1, Zenon
  <2>4. Len(wire) = 20 + Len(payload) /\ Len(payload) \in Nat
    BY <1>1, Zenon
  <2> HIDE DEF p
  <2>5. Len(payload) < p
    BY <2>2, <2>3, <2>4
  <2>6. QED
    BY <2>5, Zenon DEF p
<1>5. n \in Nat
  <2>1. Len(payload) \in Nat
    BY <1>1, Zenon
  <2>2. QED
    BY <2>1
<1> HIDE DEF n
<1>6. PICK r : Reads(mess.avps, r, depth) /\ ((\A a \in made : Known(a)) => r = mess.avps)
  BY <1>2, <1>4, Zenon DEF CodecInv, Readable, payload
<1>7. /\ EncodeAvps(r) = payload /\ r \in Seq(Received[depth])
      /\ \A rest \in Tails : Decode_AVPs[payload \o rest] = r \o Decode_AVPs[rest]
  BY <1>6, Zenon DEF Reads, payload
<1>8. Decode_AVPs[payload] = r
  <2>1. Decode_AVPs[payload \o <<>>] = r \o <<>>
    BY <1>7, DecodeEmpty, Zenon
  <2>2. payload \o <<>> = payload
    BY <1>1, ConcatEmptySeq, Zenon
  <2>3. r \o <<>> = r
    BY <1>7, ConcatEmptySeq, Zenon
  <2>4. QED
    BY <2>1, <2>2, <2>3, Zenon
<1>9. got = [header |-> mess.header, avps |-> r]
  <2>1. Decode(wire) = [header |-> mess.header, avps |-> Decode_AVPs[payload]]
    BY <1>1, <1>5, HeaderBack, Zenon
  <2>2. got = Decode(wire)
    BY Zenon DEF CodecInv, OnTheWire
  <2>3. QED
    BY <1>8, <2>1, <2>2, Zenon
<1>10. QED
  BY <1>3, <1>6, <1>7, <1>9, Zenon DEF payload

\* Encode_group never reaches panic("error in padding"), for any AVPs, nested
\* to any depth, and any values.
THEOREM EveryAvpFillsWords == Spec => []WholeWords
<1>1. CodecInv => WholeWords
  BY Zenon DEF CodecInv, Built, WholeWords
<1>2. QED
  BY <1>1, CodecInvariant, PTL

\* Version, length and header that readLoop and a worker read of the octets
\* of any message that fits are those it was encoded with.
THEOREM HeaderReadBeforeDecoding == Spec => []HeaderOnTheWire
<1>1. ASSUME CodecInv PROVE HeaderOnTheWire
  <2> SUFFICES ASSUME phase = "encoded", WireFits
               PROVE  /\ wire[1] = 1
                      /\ MessageLength(wire) = Len(wire)
                      /\ DecodeHeader(wire) = mess.header
    BY Zenon DEF HeaderOnTheWire
  <2> DEFINE payload == EncodeAvps(mess.avps)
             n == 20 + Len(payload)
  <2>a. phase \in {"encoded", "decoded"}
    OBVIOUS
  <2>1. /\ mess.header \in HeaderSet /\ payload \in Seq(Octets)
        /\ HasParts(wire, mess.header, payload, n)
        /\ Len(wire) = n /\ Len(payload) \in Nat
    BY <1>1, <2>a, WireParts, Zenon
  <2>2. wire[1] = 1
    BY <2>1, Zenon DEF HasParts
  <2>3. n < Pow[3]
    BY <2>1, Zenon DEF WireFits
  <2> HIDE DEF payload
  <2>4. n \in Nat
    <3>1. Len(payload) \in Nat
      BY <2>1, Zenon
    <3>2. QED
      BY <3>1
  <2> HIDE DEF n
  <2>5. DecodeHeader(wire) = mess.header /\ MessageLength(wire) = n
    BY <2>1, <2>3, <2>4, HeaderBack, Zenon
  <2>6. QED
    BY <2>1, <2>2, <2>5, Zenon
<1>2. QED
  BY <1>1, CodecInvariant, PTL

\* Decode after Encode is the identity, for any messages that fit: every
\* AVP, flag and value, in groups at any depth, as long as both sides know it alike.
THEOREM DecodedAsPutTogether == Spec => []RoundTrip
<1>1. ASSUME CodecInv PROVE RoundTrip
  <2> SUFFICES ASSUME phase = "decoded", WireFits, InDictionary PROVE got = mess
    BY Zenon DEF RoundTrip
  <2>1. KeptAsOctets
    BY DEF InDictionary, KeptAsOctets, LookUpAvp
  <2>2. PICK r : got = [header |-> mess.header, avps |-> r] /\ (InDictionary => r = mess.avps)
    BY <1>1, <2>1, WhatIsRead, Zenon
  <2>a. phase \in {"encoded", "decoded"}
    OBVIOUS
  <2>3. mess = [header |-> mess.header, avps |-> mess.avps]
    BY <1>1, <2>a, WireParts, Zenon
  <2>4. QED
    BY <2>2, <2>3, Zenon
<1>2. QED
  BY <1>1, CodecInvariant, PTL

\* What has been received encodes to the octets it came in.
LEMMA EncodesAgain == CodecInv => RelayedUnchanged
<1> SUFFICES ASSUME CodecInv, phase = "decoded", WireFits, KeptAsOctets
             PROVE  Encode(got) = wire
  BY Zenon DEF RelayedUnchanged
<1>1. PICK r : /\ got = [header |-> mess.header, avps |-> r]
               /\ EncodeAvps(r) = EncodeAvps(mess.avps)
  BY WhatIsRead, Zenon
<1>2. phase \in {"encoded", "decoded"}
  OBVIOUS
<1> DEFINE payload == EncodeAvps(mess.avps)
<1>3. wire = MessageOctets(mess.header, payload, 20 + Len(payload))
  BY <1>2, WireParts, Zenon
<1>4. got.header = mess.header /\ got.avps = r
  BY <1>1
<1>5. Encode(got) = MessageOctets(mess.header, payload, 20 + Len(payload))
  BY <1>1, <1>4, Zenon DEF Encode
<1>6. QED
  BY <1>3, <1>5, Zenon

\* Encode after Decode gives the octets that came in, for any message that
\* fits, also with AVPs that the dictionary does not know.
THEOREM PassedOnUnchanged == Spec => []RelayedUnchanged
  BY EncodesAgain, CodecInvariant, PTL

-----------------------------------------------------------------------------
(***************************************************************************)
(* What has been received goes there and back as it is.                    *)
(***************************************************************************)
\* A received AVP is one without members, or a group with received ones.
LEMMA ReceivedShape ==
  ASSUME NEW n \in Nat, NEW a \in Received[n]
  PROVE  \/ a.avps = <<>> /\ a \in Received[0] /\ Plain(a) /\ Known(a)
         \/ /\ n > 0 /\ a.format = "Grouped"
            /\ a.avps \in Seq(Received[n - 1])
            /\ \E g : /\ Plain(g) /\ Known(g) /\ g.format = "Grouped"
                      /\ a = [g EXCEPT !.avps = a.avps]
<1>1. ASSUME a \in Shaped({<<>>}), Sound(a)
      PROVE  a.avps = <<>> /\ a \in Received[0] /\ Plain(a) /\ Known(a)
  <2>1. a.avps = <<>>
    BY <1>1 DEF Shaped
  <2>2. QED
    BY <1>1, <2>1, ReceivedFacts, Zenon DEF Sound, Plain
<1>2. CASE n = 0
  BY <1>1, <1>2, ReceivedFacts, Zenon
<1>3. CASE n > 0
  <2> DEFINE m == n - 1
  <2>1. m \in Nat /\ m + 1 = n
    BY <1>3
  <2> HIDE DEF m
  <2>2. /\ a \in Shaped(Seq(Received[m])) /\ Sound(a)
        /\ a.avps # <<>> => a.format = "Grouped"
    BY <2>1, ReceivedFacts, Zenon DEF Around
  <2>3. CASE a.avps = <<>>
    <3>1. a \in Shaped({<<>>})
      BY <2>2, <2>3 DEF Shaped
    <3>2. QED
      BY <1>1, <2>2, <3>1, Zenon
  <2>4. CASE a.avps # <<>>
    <3> DEFINE g == [a EXCEPT !.avps = <<>>]
    <3>1. a.avps \in Seq(Received[m]) /\ a = [g EXCEPT !.avps = a.avps]
      BY <2>2 DEF Shaped
    <3>2. IsWith(g, a, <<>>, {<<>>})
      BY <2>2, WithMembers, Zenon
    <3> HIDE DEF g
    <3>3. Plain(g) /\ Known(g) /\ g.format = "Grouped"
      BY <2>2, <2>4, <3>2, Zenon DEF IsWith, Sound, HasHeader, Known, Plain
    <3>4. QED
      BY <1>3, <2>2, <2>4, <3>1, <3>3, Zenon DEF m
  <2>5. QED
    BY <2>3, <2>4, Zenon
<1>4. QED
  BY <1>2, <1>3

\* A list of AVPs each of which can be encoded.
LEMMA ReceivedList ==
  ASSUME NEW n \in Nat, n <= MaxDepth,
         \A a \in Received[n] : OctetsOf(a) \in Seq(Octets),
         NEW s \in Seq(Received[n])
  PROVE  Encodable(s) /\ s \in Seq(AVPs[n])
<1>1. s \in Seq(AllAvps) /\ s \in Seq(AVPs[n])
  BY ReceivedAvps, Zenon
<1>2. \A i \in 1..Len(s) : s[i] \in Received[n]
  BY ElementOfSeq, Zenon
<1>3. QED
  BY <1>1, <1>2, Zenon DEF Encodable

\* Each of them can.
LEMMA ReceivedOctets ==
  ASSUME NEW n \in Nat, n <= MaxDepth, NEW a \in Received[n]
  PROVE  OctetsOf(a) \in Seq(Octets)
<1> DEFINE S == {k \in Nat : k <= MaxDepth => \A b \in Received[k] : OctetsOf(b) \in Seq(Octets)}
<1>1. 0 \in S
  <2>1. ASSUME NEW b \in Received[0] PROVE Plain(b)
    <3>1. 0 \in Nat /\ ~ 0 > 0
      OBVIOUS
    <3>2. QED
      BY <3>1, ReceivedShape, Zenon
  <2>2. \A b \in Received[0] : OctetsOf(b) \in Seq(Octets)
    BY <2>1, PlainAvp, Zenon
  <2>3. 0 \in Nat
    OBVIOUS
  <2>4. QED
    BY <2>2, <2>3, Zenon
<1>2. \A k \in Nat : k \in S => k + 1 \in S
  <2> SUFFICES ASSUME NEW k \in Nat, k \in S, k + 1 <= MaxDepth, NEW b \in Received[k + 1]
               PROVE  OctetsOf(b) \in Seq(Octets)
    OBVIOUS
  <2>1. k <= MaxDepth /\ k < MaxDepth /\ k + 1 \in Nat /\ (k + 1) - 1 = k
    BY CodecAssumption
  <2>2. \A c \in Received[k] : OctetsOf(c) \in Seq(Octets)
    BY <2>1, Zenon
  <2>3. \/ Plain(b)
        \/ /\ b.avps \in Seq(Received[k])
           /\ \E g : Plain(g) /\ g.format = "Grouped" /\ b = [g EXCEPT !.avps = b.avps]
    BY <2>1, ReceivedShape, Zenon
  <2>4. CASE Plain(b)
    BY <2>4, PlainAvp, Zenon
  <2>5. ASSUME b.avps \in Seq(Received[k]),
               NEW g, Plain(g), g.format = "Grouped", b = [g EXCEPT !.avps = b.avps]
        PROVE  OctetsOf(b) \in Seq(Octets)
    <3>1. Encodable(b.avps) /\ b.avps \in Seq(AVPs[k])
      BY <2>1, <2>2, <2>5, ReceivedList, Zenon
    <3>2. OctetsOf([g EXCEPT !.avps = b.avps]) \in Seq(Octets)
      BY <2>1, <2>5, <3>1, GroupAvp, Zenon
    <3>3. QED
      BY <2>5, <3>2, Zenon
  <2>6. QED
    BY <2>3, <2>4, <2>5, Zenon
<1> HIDE DEF S
<1>3. n \in S
  BY <1>1, <1>2, SetInduction, Zenon
<1>4. QED
  BY <1>3, Zenon DEF S

\* The front of a sequence.
LEMMA FrontPart ==
  ASSUME NEW S, NEW k \in Nat, NEW t \in Seq(S), k <= Len(t)
  PROVE  /\ SubSeq(t, 1, k) \in Seq(S) /\ Len(SubSeq(t, 1, k)) = k
         /\ \A i \in 1..k : SubSeq(t, 1, k)[i] = t[i]
  OBVIOUS

\* A list of AVPs that are each read as they are is read as it is.
LEMMA SelfReadsList ==
  ASSUME NEW n \in Nat, n <= MaxDepth,
         \A a \in Received[n] : Len(OctetsOf(a)) < Pow[3] => ReadsOne(a, a, n),
         NEW s \in Seq(Received[n]), Len(EncodeAvps(s)) < Pow[3]
  PROVE  Reads(s, s, n)
<1> DEFINE S == {k \in Nat : \A t \in Seq(Received[n]) :
                               Len(t) = k /\ Len(EncodeAvps(t)) < Pow[3] => Reads(t, t, n)}
<1>1. 0 \in S
  <2>1. ASSUME NEW t \in Seq(Received[n]), Len(t) = 0 PROVE t = <<>>
    BY <2>1, EmptySeq
  <2>2. 0 \in Nat /\ Reads(<<>>, <<>>, n)
    BY ReadsEmpty
  <2>3. QED
    BY <2>1, <2>2, Zenon
<1>2. \A k \in Nat : k \in S => k + 1 \in S
  <2> SUFFICES ASSUME NEW k \in Nat, k \in S, NEW t \in Seq(Received[n]), Len(t) = k + 1,
                      Len(EncodeAvps(t)) < Pow[3]
               PROVE  Reads(t, t, n)
    OBVIOUS
  <2> DEFINE u == SubSeq(t, 1, k)
             a == t[k + 1]
  <2>1. /\ u \in Seq(Received[n]) /\ Len(u) = k
        /\ a \in Received[n] /\ t = Append(u, a)
    <3>1. \A i \in 1..(k + 1) : t[i] \in Received[n]
      BY ElementOfSeq
    <3>2. k + 1 \in 1..(k + 1)
      OBVIOUS
    <3>3. a \in Received[n]
      BY <3>1, <3>2, Zenon
    <3>4. k <= Len(t)
      OBVIOUS
    <3>5. u \in Seq(Received[n]) /\ Len(u) = k /\ \A i \in 1..k : u[i] = t[i]
      BY <3>4, FrontPart, Zenon
    <3> HIDE DEF u, a
    <3>6. /\ Append(u, a) \in Seq(Received[n]) /\ Len(Append(u, a)) = k + 1
          /\ \A i \in 1..k : Append(u, a)[i] = u[i]
          /\ Append(u, a)[k + 1] = a
      BY <3>3, <3>5, AppendProperties
    <3>7. ASSUME NEW i \in 1..(k + 1) PROVE Append(u, a)[i] = t[i]
      BY <3>5, <3>6 DEF a
    <3>8. t = Append(u, a)
      BY <3>6, <3>7, SeqEqual, Zenon
    <3>9. QED
      BY <3>3, <3>5, <3>8, Zenon
  <2> HIDE DEF u, a
  <2>2. Encodable(u) /\ OctetsOf(a) \in Seq(Octets) /\ a \in AllAvps
    BY <2>1, ReceivedOctets, ReceivedList, ReceivedAvps, Zenon
  <2>3. EncodeAvps(t) = EncodeAvps(u) \o OctetsOf(a)
    BY <2>1, <2>2, EncodeTail, Zenon
  <2>4. Len(EncodeAvps(u)) < Pow[3] /\ Len(OctetsOf(a)) < Pow[3]
    <3> DEFINE e == EncodeAvps(u)
               o == OctetsOf(a)
               p == Pow[3]
    <3>1. e \in Seq(Octets) /\ o \in Seq(Octets)
      BY <2>2, EncodeList, Zenon
    <3>2. p \in Nat
      BY PowFacts
    <3>3. Len(e \o o) < p
      BY <2>3, Zenon
    <3> HIDE DEF e, o, p
    <3>4. Len(e) <= Len(e \o o) /\ Len(o) <= Len(e \o o)
      BY <3>1, ConcatLengths, Zenon
    <3>5. Len(e) \in Nat /\ Len(o) \in Nat /\ Len(e \o o) \in Nat
      BY <3>1
    <3>6. Len(e) < p /\ Len(o) < p
      BY <3>2, <3>3, <3>4, <3>5
    <3>7. QED
      BY <3>6, Zenon DEF e, o, p
  <2>5. Reads(u, u, n) /\ ReadsOne(a, a, n)
    BY <2>1, <2>4, Zenon
  <2>6. QED
    BY <2>1, <2>2, <2>5, ReadsTail, Zenon
<1>3. Len(s) \in Nat
  BY LenProperties, Zenon
<1> HIDE DEF S
<1>4. Len(s) \in S
  BY <1>1, <1>2, <1>3, SetInduction, Zenon
<1>5. QED
  BY <1>4, Zenon DEF S

\* A group of AVPs that are read as they are is read as it is.
LEMMA SelfReadsGroup ==
  ASSUME NEW g, Plain(g), Known(g), g.format = "Grouped", NEW n \in Nat, n < MaxDepth,
         NEW avps \in Seq(AVPs[n]), Encodable(avps), Reads(avps, avps, n),
         Len(OctetsOf([g EXCEPT !.avps = avps])) < Pow[3]
  PROVE  ReadsOne([g EXCEPT !.avps = avps], [g EXCEPT !.avps = avps], n + 1)
<1>1. Kept(g)
  BY Zenon DEF Known, Kept
<1>2. \E b : /\ ReadsOne([g EXCEPT !.avps = avps], b, n + 1)
             /\ Known(g) /\ avps = avps => b = [g EXCEPT !.avps = avps]
  BY <1>1, ReadsGroup, Zenon
<1>3. QED
  BY <1>2, Zenon

\* Received AVPs are read as they are, however deep the groups.
LEMMA SelfReads ==
  ASSUME NEW n \in Nat, n <= MaxDepth, NEW s \in Seq(Received[n]), Len(EncodeAvps(s)) < Pow[3]
  PROVE  Reads(s, s, n)
<1> DEFINE S == {k \in Nat : k <= MaxDepth =>
                   \A a \in Received[k] : Len(OctetsOf(a)) < Pow[3] => ReadsOne(a, a, k)}
<1>a. ASSUME NEW k \in Nat, NEW a, Plain(a), Known(a), Len(OctetsOf(a)) < Pow[3]
      PROVE  ReadsOne(a, a, k)
  <2>1. Kept(a)
    BY <1>a, Zenon DEF Known, Kept
  <2>2. QED
    <3>1. PICK b : ReadsOne(a, b, k) /\ (Known(a) => b = a)
      BY <1>a, <2>1, ReadsPlain, Zenon
    <3>2. QED
      BY <1>a, <3>1, Zenon
<1>1. 0 \in S
  <2>1. ASSUME NEW a \in Received[0] PROVE Plain(a) /\ Known(a)
    <3>1. 0 \in Nat /\ ~ 0 > 0
      OBVIOUS
    <3>2. QED
      BY <3>1, ReceivedShape, Zenon
  <2>2. 0 \in Nat
    OBVIOUS
  <2>3. QED
    BY <1>a, <2>1, <2>2, Zenon
<1>2. \A k \in Nat : k \in S => k + 1 \in S
  <2> SUFFICES ASSUME NEW k \in Nat, k \in S, k + 1 <= MaxDepth, NEW a \in Received[k + 1],
                      Len(OctetsOf(a)) < Pow[3]
               PROVE  ReadsOne(a, a, k + 1)
    OBVIOUS
  <2>1. k <= MaxDepth /\ k < MaxDepth /\ k + 1 \in Nat /\ (k + 1) - 1 = k
    BY CodecAssumption
  <2>2. \A c \in Received[k] : Len(OctetsOf(c)) < Pow[3] => ReadsOne(c, c, k)
    BY <2>1, Zenon
  <2>3. \/ Plain(a) /\ Known(a)
        \/ /\ a.avps \in Seq(Received[k])
           /\ \E g : Plain(g) /\ Known(g) /\ g.format = "Grouped" /\ a = [g EXCEPT !.avps = a.avps]
    BY <2>1, ReceivedShape, Zenon
  <2>4. CASE Plain(a) /\ Known(a)
    BY <1>a, <2>1, <2>4, Zenon
  <2>5. ASSUME a.avps \in Seq(Received[k]),
               NEW g, Plain(g), Known(g), g.format = "Grouped", a = [g EXCEPT !.avps = a.avps]
        PROVE  ReadsOne(a, a, k + 1)
    <3> DEFINE m == a.avps
    <3>1. Encodable(m) /\ m \in Seq(AVPs[k])
      BY <2>1, <2>5, ReceivedOctets, ReceivedList, Zenon
    <3>2. Len(EncodeAvps(m)) <= Len(OctetsOf(a)) /\ OctetsOf(a) \in Seq(Octets)
      BY <2>1, <2>5, <3>1, GroupAvp, Zenon
    <3>3. Len(EncodeAvps(m)) < Pow[3]
      <4> DEFINE e == EncodeAvps(m)
                 o == OctetsOf(a)
                 p == Pow[3]
      <4>1. e \in Seq(Octets) /\ o \in Seq(Octets) /\ p \in Nat
        BY <3>1, <3>2, EncodeList, PowFacts
      <4>2. Len(e) <= Len(o) /\ Len(o) < p
        BY <3>2, Zenon
      <4> HIDE DEF e, o, p
      <4>3. Len(e) \in Nat /\ Len(o) \in Nat
        BY <4>1
      <4>4. Len(e) < p
        BY <4>1, <4>2, <4>3
      <4>5. QED
        BY <4>4, Zenon DEF e, p
    <3>4. Reads(m, m, k)
      BY <2>1, <2>2, <2>5, <3>3, SelfReadsList, Zenon
    <3>6. a = [g EXCEPT !.avps = m]
      BY <2>5
    <3> HIDE DEF m
    <3>7. Len(OctetsOf([g EXCEPT !.avps = m])) < Pow[3]
      BY <3>6, Zenon
    <3>8. ReadsOne([g EXCEPT !.avps = m], [g EXCEPT !.avps = m], k + 1)
      BY <2>1, <2>5, <3>1, <3>4, <3>7, SelfReadsGroup, Zenon
    <3>9. QED
      BY <3>6, <3>8, Zenon
  <2>6. QED
    BY <2>3, <2>4, <2>5, Zenon
<1> HIDE DEF S
<1>3. n \in S
  BY <1>1, <1>2, SetInduction, Zenon
<1>4. QED
  BY <1>3, SelfReadsList, Zenon DEF S

-----------------------------------------------------------------------------
(***************************************************************************)
(* Places in a list of AVPs: the way there, and the list with another AVP  *)
(* there.                                                                  *)
(***************************************************************************)
\* The list itself, as a group.
Top(avps) == [format |-> "Grouped", avps |-> avps]

\* The first m steps of a way.
Walks(f, avps, place, m) ==
  f = [k \in 0..m |-> IF k = 0 THEN Top(avps) ELSE f[k - 1].avps[place[k]]]

\* There is such a way.
LEMMA WalkExists ==
  ASSUME NEW avps, NEW place, NEW m \in Nat
  PROVE  \E f : Walks(f, avps, place, m)
<1> DEFINE S == {n \in Nat : \E f : Walks(f, avps, place, n)}
<1>1. 0 \in S
  <2> DEFINE f == [k \in 0..0 |-> Top(avps)]
  <2>1. Walks(f, avps, place, 0)
    BY DEF Walks
  <2>2. QED
    BY <2>1
<1>2. \A n \in Nat : n \in S => n + 1 \in S
  <2> SUFFICES ASSUME NEW n \in Nat, NEW f, Walks(f, avps, place, n)
               PROVE  \E g : Walks(g, avps, place, n + 1)
    OBVIOUS
  <2> DEFINE x == f[n].avps[place[n + 1]]
             g == [k \in 0..(n + 1) |-> IF k = n + 1 THEN x ELSE f[k]]
             h == [k \in 0..(n + 1) |-> IF k = 0 THEN Top(avps) ELSE g[k - 1].avps[place[k]]]
  <2>1. ASSUME NEW k \in 0..(n + 1) PROVE g[k] = h[k]
    <3>1. CASE k = n + 1
      <4>1. k # 0 /\ k - 1 = n /\ n \in 0..(n + 1) /\ n # n + 1
        BY <3>1
      <4>2. g[k - 1] = f[n]
        BY <4>1
      <4>3. g[k] = x
        BY <3>1
      <4>4. h[k] = g[k - 1].avps[place[k]]
        BY <4>1, Zenon
      <4>5. QED
        BY <3>1, <4>2, <4>3, <4>4, Zenon
    <3>2. CASE k = 0
      <4>1. k \in 0..n /\ k # n + 1
        BY <3>2
      <4>2. g[k] = f[k] /\ f[k] = Top(avps) /\ h[k] = Top(avps)
        BY <3>2, <4>1, Zenon DEF Walks
      <4>3. QED
        BY <4>2, Zenon
    <3>3. CASE k \in 1..n
      <4>1. k \in 0..n /\ k # n + 1 /\ k # 0 /\ k - 1 \in 0..(n + 1) /\ k - 1 # n + 1
        BY <3>3
      <4>2. g[k] = f[k] /\ g[k - 1] = f[k - 1] /\ h[k] = g[k - 1].avps[place[k]]
        BY <4>1, Zenon
      <4>3. f[k] = f[k - 1].avps[place[k]]
        BY <4>1, Zenon DEF Walks
      <4>4. QED
        BY <4>2, <4>3, Zenon
    <3>4. QED
      BY <3>1, <3>2, <3>3
  <2>2. g = h
    BY <2>1, Zenon
  <2>3. Walks(g, avps, place, n + 1)
    BY <2>2, Zenon DEF Walks
  <2>4. QED
    BY <2>3, Zenon
<1> HIDE DEF S
<1>3. m \in S
  BY <1>1, <1>2, SetInduction, Zenon
<1>4. QED
  BY <1>3, Zenon DEF S

\* w goes from member to member.
Steps(w, avps, place) ==
  w[0] = Top(avps) /\ \A k \in 1..Len(place) : w[k] = w[k - 1].avps[place[k]]

\* The way to a place.
LEMMA WayFacts ==
  ASSUME NEW avps, NEW place, Len(place) \in Nat
  PROVE  Steps(Way(avps, place), avps, place)
<1> DEFINE n == Len(place)
           w == Way(avps, place)
<1>1. \E f : Walks(f, avps, place, n)
  BY WalkExists, Zenon
<1>2. w = [k \in 0..n |-> IF k = 0 THEN Top(avps) ELSE w[k - 1].avps[place[k]]]
  <2>1. w = CHOOSE f : f = [k \in 0..n |-> IF k = 0 THEN [format |-> "Grouped", avps |-> avps]
                                          ELSE f[k - 1].avps[place[k]]]
    BY Zenon DEF Way
  <2>2. QED
    BY <1>1, <2>1, Zenon DEF Walks, Top
<1> HIDE DEF w
<1>3. 0 \in 0..n /\ \A k \in 1..n : k \in 0..n /\ k # 0
  OBVIOUS
<1> HIDE DEF n
<1>4. w[0] = Top(avps) /\ \A k \in 1..n : w[k] = w[k - 1].avps[place[k]]
  BY <1>2, <1>3, Zenon
<1>5. QED
  BY <1>4, Zenon DEF w, n, Steps

\* A group with another member.
Put(x, i, v) == [x EXCEPT !.avps[i] = v]

\* The last m groups of a way with a at its end, from the inside.
Changes(f, w, place, a, m) ==
  f = [k \in 0..m |-> IF k = 0 THEN a ELSE Put(w[Len(place) - k], place[Len(place) - k + 1], f[k - 1])]

\* There are such groups.
LEMMA ChangesExist ==
  ASSUME NEW w, NEW place, NEW a, NEW m \in Nat
  PROVE  \E f : Changes(f, w, place, a, m)
<1> DEFINE L == Len(place)
           S == {n \in Nat : \E f : Changes(f, w, place, a, n)}
<1>1. 0 \in S
  <2> DEFINE f == [k \in 0..0 |-> a]
  <2>1. Changes(f, w, place, a, 0)
    BY DEF Changes
  <2>2. QED
    BY <2>1
<1>2. \A n \in Nat : n \in S => n + 1 \in S
  <2> SUFFICES ASSUME NEW n \in Nat, NEW f, Changes(f, w, place, a, n)
               PROVE  \E g : Changes(g, w, place, a, n + 1)
    OBVIOUS
  <2> DEFINE x == Put(w[L - (n + 1)], place[L - (n + 1) + 1], f[n])
             g == [k \in 0..(n + 1) |-> IF k = n + 1 THEN x ELSE f[k]]
             h == [k \in 0..(n + 1) |->
                     IF k = 0 THEN a ELSE Put(w[L - k], place[L - k + 1], g[k - 1])]
  <2>1. ASSUME NEW k \in 0..(n + 1) PROVE g[k] = h[k]
    <3>1. CASE k = n + 1
      <4>1. k # 0 /\ k - 1 = n /\ n \in 0..(n + 1) /\ n # n + 1
        BY <3>1
      <4>2. g[k - 1] = f[n]
        BY <4>1
      <4>3. g[k] = x
        BY <3>1
      <4>4. h[k] = Put(w[L - k], place[L - k + 1], g[k - 1])
        BY <4>1, Zenon
      <4>5. QED
        BY <3>1, <4>2, <4>3, <4>4, Zenon
    <3>2. CASE k = 0
      <4>1. k \in 0..n /\ k # n + 1
        BY <3>2
      <4>2. g[k] = f[k] /\ f[k] = a /\ h[k] = a
        BY <3>2, <4>1, Zenon DEF Changes
      <4>3. QED
        BY <4>2, Zenon
    <3>3. CASE k \in 1..n
      <4>1. k \in 0..n /\ k # n + 1 /\ k # 0 /\ k - 1 \in 0..(n + 1) /\ k - 1 # n + 1
        BY <3>3
      <4>2. g[k] = f[k] /\ g[k - 1] = f[k - 1] /\ h[k] = Put(w[L - k], place[L - k + 1], g[k - 1])
        BY <4>1, Zenon
      <4>3. f[k] = Put(w[L - k], place[L - k + 1], f[k - 1])
        BY <4>1, Zenon DEF Changes
      <4>4. QED
        BY <4>2, <4>3, Zenon
    <3>4. QED
      BY <3>1, <3>2, <3>3
  <2>2. g = h
    BY <2>1, Zenon
  <2>3. Changes(g, w, place, a, n + 1)
    BY <2>2, Zenon DEF Changes
  <2>4. QED
    BY <2>3, Zenon
<1> HIDE DEF S
<1>3. m \in S
  BY <1>1, <1>2, SetInduction, Zenon
<1>4. QED
  BY <1>3, Zenon DEF S

\* The groups on the way to a place, once a is there.
Changed(n, avps, place, a) ==
  /\ n[Len(place)] = a
  /\ \A k \in 1..Len(place) : n[k - 1] = Put(Way(avps, place)[k - 1], place[k], n[k])

\* The list they make.
Ends(n, t) == t = n[0].avps

\* With changes them all.
LEMMA WithFacts ==
  ASSUME NEW avps, NEW place, Len(place) \in Nat, NEW a
  PROVE  \E n : Changed(n, avps, place, a) /\ Ends(n, With(avps, place, a))
<1> DEFINE L == Len(place)
           w == Way(avps, place)
           Is(n) == n = [k \in 0..L |-> IF k = L THEN a ELSE Put(w[k], place[k + 1], n[k + 1])]
           new == CHOOSE n : Is(n)
<1>1. PICK f : Changes(f, w, place, a, L)
  BY ChangesExist, Zenon
<1> DEFINE g == [k \in 0..L |-> f[L - k]]
           h == [k \in 0..L |-> IF k = L THEN a ELSE Put(w[k], place[k + 1], g[k + 1])]
<1>a. L \in Nat
  OBVIOUS
<1>b. f = [k \in 0..L |-> IF k = 0 THEN a ELSE Put(w[L - k], place[L - k + 1], f[k - 1])]
  BY <1>1, Zenon DEF Changes
<1> HIDE DEF L, w
<1>2. ASSUME NEW k \in 0..L PROVE g[k] = h[k]
  <2>1. CASE k = L
    <3>1. L - k = 0 /\ 0 \in 0..L
      BY <1>a, <2>1
    <3>2. f[L - k] = a
      BY <1>b, <3>1, Zenon
    <3>3. QED
      BY <2>1, <3>2, Zenon
  <2>2. CASE k # L
    <3>1. /\ L - k \in 0..L /\ L - k # 0 /\ L - (L - k) = k /\ L - (L - k) + 1 = k + 1
          /\ (L - k) - 1 = L - (k + 1) /\ k + 1 \in 0..L
      BY <1>a, <2>2
    <3>2. f[L - k] = Put(w[L - (L - k)], place[L - (L - k) + 1], f[(L - k) - 1])
      BY <1>b, <3>1, Zenon
    <3>3. g[k] = f[L - k] /\ g[k + 1] = f[L - (k + 1)]
      BY <3>1, Zenon
    <3>4. h[k] = Put(w[k], place[k + 1], g[k + 1])
      BY <2>2, Zenon
    <3>5. QED
      BY <3>1, <3>2, <3>3, <3>4, Zenon
  <2>3. QED
    BY <2>1, <2>2, Zenon
<1>3. g = h
  BY <1>2, Zenon
<1>4. Is(g)
  BY <1>3, Zenon
<1>5. Is(new)
  <2> HIDE DEF Is
  <2>1. QED
    BY <1>4, Zenon
<1>6. With(avps, place, a) = new[0].avps
  BY Zenon DEF With, Put, L, w
<1> HIDE DEF new
<1>7. new[L] = a
  <2>1. L \in 0..L
    BY <1>a
  <2>2. QED
    BY <1>5, <2>1, Zenon
<1>8. ASSUME NEW k \in 1..L PROVE new[k - 1] = Put(w[k - 1], place[k], new[k])
  <2>1. k - 1 \in 0..L /\ k - 1 # L /\ (k - 1) + 1 = k
    BY <1>a
  <2>2. new[k - 1] = Put(w[k - 1], place[(k - 1) + 1], new[(k - 1) + 1])
    BY <1>5, <2>1, Zenon
  <2>3. QED
    BY <2>1, <2>2, Zenon
<1>9. Changed(new, avps, place, a)
  BY <1>7, <1>8, Zenon DEF Changed, L, w
<1>10. QED
  BY <1>6, <1>9, Zenon DEF Ends

\* Sets of AVPs, by depth, that are closed under changing members.
Closed(F) ==
  \A n \in Nat :
    /\ F[0] \subseteq F[n] /\ F[n] \subseteq AVPs[n]
    /\ \A a \in F[n] : a.avps # <<>> => n > 0 /\ a.avps \in Seq(F[n - 1])
    /\ \A a \in F[n + 1], m \in Seq(F[n]) : a.avps # <<>> => [a EXCEPT !.avps = m] \in F[n + 1]

\* All AVPs are such, and so are the received ones.
LEMMA ClosedSets ==
  Closed(AVPs) /\ Closed(Received)
<1>1. ASSUME NEW n \in Nat PROVE n = 0 \/ (n > 0 /\ n - 1 \in Nat /\ (n - 1) + 1 = n)
  OBVIOUS
<1>2. ASSUME NEW n \in Nat, NEW a \in AVPs[n], a.avps # <<>>
      PROVE  n > 0 /\ a.avps \in Seq(AVPs[n - 1])
  <2>1. CASE n = 0
    <3>1. a \in Shaped({<<>>})
      BY <2>1, AvpsFacts, Zenon
    <3>2. QED
      BY <1>2, <3>1 DEF Shaped
  <2>2. CASE n > 0 /\ n - 1 \in Nat /\ (n - 1) + 1 = n
    <3>1. a \in Shaped(Seq(AVPs[n - 1]))
      BY <2>2, AvpsFacts, Zenon
    <3>2. QED
      BY <2>2, <3>1, ShapedFacts, Zenon
  <2>3. QED
    BY <1>1, <2>1, <2>2, Zenon
<1>3. ASSUME NEW n \in Nat, NEW a \in AVPs[n + 1], NEW m \in Seq(AVPs[n])
      PROVE  [a EXCEPT !.avps = m] \in AVPs[n + 1]
  <2>1. IsWith([a EXCEPT !.avps = m], a, m, Seq(AVPs[n]))
    BY AvpsFacts, WithMembers, Zenon
  <2>2. QED
    BY <2>1, AvpsFacts, Zenon DEF IsWith
<1>4. Closed(AVPs)
  <2>1. \A n \in Nat : AVPs[0] \subseteq AVPs[n]
    BY AvpsMonotone
  <2>2. QED
    BY <1>2, <1>3, <2>1, Zenon DEF Closed
<1>5. ASSUME NEW n \in Nat, NEW a \in Received[n], a.avps # <<>>
      PROVE  n > 0 /\ a.avps \in Seq(Received[n - 1])
  BY <1>5, ReceivedShape, Zenon
<1>6. ASSUME NEW n \in Nat, NEW a \in Received[n + 1], NEW m \in Seq(Received[n]), a.avps # <<>>
      PROVE  [a EXCEPT !.avps = m] \in Received[n + 1]
  <2> DEFINE b == [a EXCEPT !.avps = m]
  <2>1. a \in Shaped(Seq(Received[n])) /\ Sound(a) /\ a.format = "Grouped"
    BY <1>6, ReceivedFacts, Zenon DEF Around
  <2>2. IsWith(b, a, m, Seq(Received[n]))
    BY <2>1, WithMembers, Zenon
  <2> HIDE DEF b
  <2>3. Sound(b) /\ b.format = "Grouped" /\ b \in Shaped(Seq(Received[n]))
    BY <2>1, <2>2, Zenon DEF IsWith, Sound, HasHeader, Known
  <2>4. b \in Received[n + 1]
    BY <2>3, ReceivedFacts, Zenon DEF Around
  <2>5. QED
    BY <2>4, Zenon DEF b
<1>7. Closed(Received)
  BY <1>5, <1>6, ReceivedType, Zenon DEF Closed
<1>8. QED
  BY <1>4, <1>7, Zenon

\* A sequence with another element.
Replaced(s, i, v) == [s EXCEPT ![i] = v]

\* What it has.
LEMMA ReplacedFacts ==
  ASSUME NEW S, NEW s \in Seq(S), NEW i \in 1..Len(s), NEW v \in S
  PROVE  /\ Replaced(s, i, v) \in Seq(S) /\ Len(Replaced(s, i, v)) = Len(s)
         /\ Replaced(s, i, v)[i] = v
         /\ \A j \in 1..Len(s) : j # i => Replaced(s, i, v)[j] = s[j]
  BY DEF Replaced

\* There is an AVP at the place.
Leads(avps, place) ==
  /\ place \in Seq(Nat) /\ Len(place) >= 1
  /\ \A k \in 1..Len(place) : place[k] \in 1..Len(Way(avps, place)[k - 1].avps)

\* What is on the way there.
LEMMA WayIn ==
  ASSUME NEW F, Closed(F), NEW n \in Nat, NEW s \in Seq(F[n]), NEW place, Leads(s, place)
  PROVE  \A k \in 1..Len(place) :
           /\ k - 1 \in 0..n /\ n - (k - 1) \in Nat
           /\ Way(s, place)[k - 1].avps \in Seq(F[n - (k - 1)])
           /\ Way(s, place)[k] \in F[n - (k - 1)]
<1> DEFINE L == Len(place)
           w == Way(s, place)
           S == {j \in Nat : j < L => j <= n /\ w[j].avps \in Seq(F[n - j])}
<1>1. L \in Nat /\ L >= 1 /\ \A k \in 1..L : place[k] \in 1..Len(w[k - 1].avps)
  BY DEF Leads
<1>2. w[0].avps = s /\ \A k \in 1..L : w[k] = w[k - 1].avps[place[k]]
  <2>1. w[0] = Top(s) /\ \A k \in 1..L : w[k] = w[k - 1].avps[place[k]]
    <3>1. Len(place) \in Nat
      BY <1>1
    <3>2. Steps(w, s, place)
      BY <3>1, WayFacts, Zenon
    <3>3. QED
      BY <3>2, Zenon DEF Steps
  <2>2. Top(s).avps = s
    BY DEF Top
  <2>3. QED
    BY <2>1, <2>2, Zenon
<1> HIDE DEF w, L
<1>3. ASSUME NEW j \in Nat, j < L, j <= n, w[j].avps \in Seq(F[n - j])
      PROVE  w[j + 1] \in F[n - j]
  <2>1. j + 1 \in 1..L /\ (j + 1) - 1 = j
    BY <1>1, <1>3
  <2>2. w[j + 1] = w[j].avps[place[j + 1]] /\ place[j + 1] \in 1..Len(w[j].avps)
    BY <1>1, <1>2, <2>1, Zenon
  <2>3. QED
    BY <1>3, <2>2, ElementOfSeq, Zenon
<1>4. 0 \in S
  <2>1. 0 \in Nat /\ 0 <= n /\ n - 0 = n
    OBVIOUS
  <2>2. QED
    BY <1>2, <2>1, Zenon
<1>5. \A j \in Nat : j \in S => j + 1 \in S
  <2> SUFFICES ASSUME NEW j \in Nat, j \in S, j + 1 < L
               PROVE  j + 1 <= n /\ w[j + 1].avps \in Seq(F[n - (j + 1)])
    OBVIOUS
  <2>1. /\ j < L /\ (j + 1) + 1 \in 1..L /\ ((j + 1) + 1) - 1 = j + 1
    BY <1>1
  <2>2. j <= n /\ w[j].avps \in Seq(F[n - j])
    BY <2>1, Zenon
  <2>3. w[j + 1] \in F[n - j] /\ n - j \in Nat
    BY <1>3, <2>1, <2>2
  <2>4. w[j + 1].avps # <<>>
    <3>1. place[(j + 1) + 1] \in 1..Len(w[j + 1].avps)
      BY <1>1, <2>1, Zenon
    <3>2. QED
      BY <3>1
  <2>5. n - j > 0 /\ w[j + 1].avps \in Seq(F[(n - j) - 1])
    BY <2>3, <2>4, Zenon DEF Closed
  <2>6. j + 1 <= n /\ (n - j) - 1 = n - (j + 1)
    BY <2>5
  <2>7. QED
    BY <2>5, <2>6, Zenon
<1> HIDE DEF S
<1>6. Nat \subseteq S
  BY <1>4, <1>5, SetInduction, Zenon
<1>7. ASSUME NEW k \in 1..L
      PROVE  /\ k - 1 \in 0..n /\ n - (k - 1) \in Nat
             /\ w[k - 1].avps \in Seq(F[n - (k - 1)]) /\ w[k] \in F[n - (k - 1)]
  <2>1. k - 1 \in Nat /\ k - 1 < L /\ (k - 1) + 1 = k
    BY <1>1
  <2>2. k - 1 \in S
    BY <1>6, <2>1, Zenon
  <2>3. k - 1 <= n /\ w[k - 1].avps \in Seq(F[n - (k - 1)])
    BY <2>1, <2>2, Zenon DEF S
  <2>4. w[k] \in F[n - (k - 1)]
    BY <1>3, <2>1, <2>3, Zenon
  <2>5. k - 1 \in 0..n /\ n - (k - 1) \in Nat
    BY <2>1, <2>3
  <2>6. QED
    BY <2>3, <2>4, <2>5, Zenon
<1>8. QED
  BY <1>7, Zenon DEF w, L

\* A group with another member.
LEMMA PutIn ==
  ASSUME NEW F, Closed(F), NEW n \in Nat, NEW a \in F[n + 1], a.avps \in Seq(F[n]),
         NEW i \in 1..Len(a.avps), NEW v \in F[n]
  PROVE  /\ Put(a, i, v) \in F[n + 1]
         /\ Put(a, i, v).avps = Replaced(a.avps, i, v)
         /\ IsWith(Put(a, i, v), a, Replaced(a.avps, i, v), Seq(AVPs[n]))
<1> DEFINE m == Replaced(a.avps, i, v)
<1>1. m \in Seq(F[n])
  BY ReplacedFacts, Zenon
<1>2. a.avps # <<>>
  OBVIOUS
<1>3. Put(a, i, v) = [a EXCEPT !.avps = m]
  BY Zenon DEF Put, Replaced
<1> HIDE DEF m
<1>4. [a EXCEPT !.avps = m] \in F[n + 1]
  BY <1>1, <1>2, Zenon DEF Closed
<1>5. n + 1 \in Nat
  OBVIOUS
<1>6. a \in Shaped(Seq(AVPs[n])) /\ m \in Seq(AVPs[n])
  <2>1. F[n] \subseteq AVPs[n] /\ F[n + 1] \subseteq AVPs[n + 1]
    BY <1>5, Zenon DEF Closed
  <2>2. a \in AVPs[n + 1]
    BY <2>1, Zenon
  <2>3. Seq(F[n]) \subseteq Seq(AVPs[n])
    BY <2>1, SeqMonotonic, Zenon
  <2>4. QED
    BY <1>1, <2>2, <2>3, AvpsFacts, Zenon
<1>7. IsWith([a EXCEPT !.avps = m], a, m, Seq(AVPs[n]))
  BY <1>6, WithMembers, Zenon
<1>8. QED
  BY <1>3, <1>4, <1>7, Zenon DEF m, IsWith

\* The groups on the way to a changed place.
LEMMA ChangedIn ==
  ASSUME NEW F, Closed(F), NEW n \in Nat, NEW s \in Seq(F[n]), NEW place, Leads(s, place),
         NEW a \in F[0], NEW f, Changed(f, s, place, a)
  PROVE  \A k \in 1..Len(place) : f[k] \in F[n - (k - 1)]
<1> DEFINE L == Len(place)
           w == Way(s, place)
           S == {m \in Nat : m < L => f[L - m] \in F[n - (L - m - 1)]}
<1>1. L \in Nat /\ L >= 1 /\ \A k \in 1..L : place[k] \in 1..Len(w[k - 1].avps)
  BY DEF Leads
<1>2. f[L] = a /\ \A k \in 1..L : f[k - 1] = Put(w[k - 1], place[k], f[k])
  BY Zenon DEF Changed
<1>3. \A k \in 1..L : /\ k - 1 \in 0..n /\ n - (k - 1) \in Nat
                      /\ w[k - 1].avps \in Seq(F[n - (k - 1)]) /\ w[k] \in F[n - (k - 1)]
  BY WayIn, Zenon
<1> HIDE DEF w, L
<1>4. 0 \in S
  <2>1. 0 \in Nat /\ L - 0 = L /\ L - 0 - 1 = L - 1 /\ L \in 1..L
    BY <1>1
  <2>2. n - (L - 1) \in Nat
    BY <1>3, <2>1, Zenon
  <2>3. f[L - 0] \in F[n - (L - 0 - 1)]
    BY <1>2, <2>1, <2>2, Zenon DEF Closed
  <2>4. QED
    BY <2>1, <2>3, Zenon
<1>5. \A m \in Nat : m \in S => m + 1 \in S
  <2> SUFFICES ASSUME NEW m \in Nat, m \in S, m + 1 < L
               PROVE  f[L - (m + 1)] \in F[n - (L - (m + 1) - 1)]
    OBVIOUS
  <2> DEFINE k == L - m
             j == n - (k - 1)
  <2>1. /\ m < L /\ k \in 1..L /\ L - (m + 1) = k - 1 /\ k - 1 \in 1..L
        /\ L - m - 1 = k - 1 /\ L - (m + 1) - 1 = (k - 1) - 1
    BY <1>1
  <2>2. f[k] \in F[j]
    BY <2>1, Zenon
  <2>3. w[k - 1].avps \in Seq(F[j]) /\ j \in Nat /\ w[k - 1] \in F[n - ((k - 1) - 1)]
    BY <1>3, <2>1, Zenon
  <2>4. n - ((k - 1) - 1) = j + 1
    BY <1>1, <2>1
  <2>5. place[k] \in 1..Len(w[k - 1].avps)
    BY <1>1, <2>1, Zenon
  <2> HIDE DEF k, j
  <2>6. Put(w[k - 1], place[k], f[k]) \in F[j + 1]
    BY <2>2, <2>3, <2>4, <2>5, PutIn, Zenon
  <2>7. f[k - 1] = Put(w[k - 1], place[k], f[k])
    BY <1>2, <2>1, Zenon
  <2>8. QED
    BY <2>1, <2>4, <2>6, <2>7, Zenon
<1> HIDE DEF S
<1>6. Nat \subseteq S
  BY <1>4, <1>5, SetInduction, Zenon
<1>7. ASSUME NEW k \in 1..L PROVE f[k] \in F[n - (k - 1)]
  <2>1. L - k \in Nat /\ L - k < L /\ L - (L - k) = k /\ L - (L - k) - 1 = k - 1
    BY <1>1
  <2>2. L - k \in S
    BY <1>6, <2>1, Zenon
  <2>3. QED
    BY <2>1, <2>2, Zenon DEF S
<1>8. QED
  BY <1>7, Zenon DEF L

\* f begins with the list t, which is s with another first AVP on the way.
Begins(f, s, place, t, S) ==
  /\ place[1] \in 1..Len(s) /\ f[1] \in S /\ t \in Seq(S)
  /\ f[0] = Top(t) /\ t = Replaced(s, place[1], f[1])

\* The list with a at a place, where there was another AVP.
LEMMA WithIs ==
  ASSUME NEW F, Closed(F), NEW n \in Nat, NEW s \in Seq(F[n]), NEW place, Leads(s, place),
         NEW a \in F[0], NEW f, Changed(f, s, place, a), NEW t, Ends(f, t)
  PROVE  Begins(f, s, place, t, F[n])
<1>1. Len(place) \in Nat /\ 1 \in 1..Len(place)
      /\ \A k \in 1..Len(place) : place[k] \in 1..Len(Way(s, place)[k - 1].avps)
  BY DEF Leads
<1>2. 1 - 1 = 0 /\ n - (1 - 1) = n
  OBVIOUS
<1>3. Way(s, place)[0] = Top(s)
  BY <1>1, WayFacts, Zenon DEF Steps
<1>4. Top(s).avps = s
  BY DEF Top
<1>5. place[1] \in 1..Len(s)
  BY <1>1, <1>2, <1>3, <1>4, Zenon
<1>6. f[1] \in F[n]
  BY <1>1, <1>2, ChangedIn, Zenon
<1>7. f[0] = Put(Top(s), place[1], f[1])
  BY <1>1, <1>2, <1>3, Zenon DEF Changed
<1>8. Put(Top(s), place[1], f[1]) = Top(Replaced(s, place[1], f[1]))
  BY DEF Put, Top, Replaced
<1>9. f[0] = Top(Replaced(s, place[1], f[1])) /\ f[0].avps = Replaced(s, place[1], f[1])
  BY <1>7, <1>8 DEF Top
<1>10. Replaced(s, place[1], f[1]) \in Seq(F[n])
  BY <1>5, <1>6, ReplacedFacts, Zenon
<1>11. t = Replaced(s, place[1], f[1])
  BY <1>9, Zenon DEF Ends
<1>12. QED
  BY <1>5, <1>6, <1>9, <1>10, <1>11, Zenon DEF Begins

\* f is the way to a place.
Goes(f, t, place) == \A k \in 0..Len(place) : Way(t, place)[k] = f[k]

\* What is at the place then.
LEMMA AtWith ==
  ASSUME NEW F, Closed(F), NEW n \in Nat, NEW s \in Seq(F[n]), NEW place, Leads(s, place),
         NEW a \in F[0], NEW f, Changed(f, s, place, a), NEW t, Ends(f, t)
  PROVE  Goes(f, t, place)
<1> DEFINE L == Len(place)
           w == Way(s, place)
           x == Way(t, place)
           S == {k \in Nat : k <= L => x[k] = f[k]}
<1>1. L \in Nat /\ L >= 1 /\ \A k \in 1..L : place[k] \in 1..Len(w[k - 1].avps)
  BY DEF Leads
<1>2. x[0] = Top(t) /\ \A k \in 1..L : x[k] = x[k - 1].avps[place[k]]
  <2>1. Len(place) \in Nat
    BY <1>1
  <2>2. Steps(x, t, place)
    BY <2>1, WayFacts, Zenon
  <2>3. QED
    BY <2>2, Zenon DEF Steps
<1>3. f[0] = Top(t) /\ t = Replaced(s, place[1], f[1]) /\ place[1] \in 1..Len(s) /\ f[1] \in F[n]
  <2>1. Begins(f, s, place, t, F[n])
    BY WithIs, Zenon
  <2>2. QED
    BY <2>1, Zenon DEF Begins
<1>4. \A k \in 1..L : f[k] \in F[n - (k - 1)]
  BY ChangedIn, Zenon
<1>5. \A k \in 1..L : /\ k - 1 \in 0..n /\ n - (k - 1) \in Nat
                      /\ w[k - 1].avps \in Seq(F[n - (k - 1)]) /\ w[k] \in F[n - (k - 1)]
  BY WayIn, Zenon
<1>6. \A k \in 1..L : f[k - 1] = Put(w[k - 1], place[k], f[k])
  BY Zenon DEF Changed
<1> HIDE DEF x, w, L
<1>7. 0 \in S
  BY <1>2, <1>3
<1>8. \A k \in Nat : k \in S => k + 1 \in S
  <2> SUFFICES ASSUME NEW k \in Nat, k \in S, k + 1 <= L PROVE x[k + 1] = f[k + 1]
    OBVIOUS
  <2>1. k <= L /\ k + 1 \in 1..L /\ (k + 1) - 1 = k
    BY <1>1
  <2>2. x[k] = f[k] /\ x[k + 1] = x[k].avps[place[k + 1]]
    BY <1>2, <2>1, Zenon
  <2>3. f[k].avps[place[k + 1]] = f[k + 1]
    <3>1. CASE k = 0
      <4> DEFINE i == place[1]
                 v == f[1]
      <4>a. t = Replaced(s, i, v) /\ i \in 1..Len(s) /\ v \in F[n]
        BY <1>3
      <4>b. t[i] = v
        <5> HIDE DEF i, v
        <5>1. QED
          BY <4>a DEF Replaced
      <4>1. t[place[1]] = f[1]
        BY <4>b
      <4>2. f[0].avps = t
        BY Zenon DEF Ends
      <4>3. k + 1 = 1
        BY <3>1
      <4>4. QED
        BY <3>1, <4>1, <4>2, <4>3, Zenon
    <3>2. CASE k # 0
      <4> DEFINE j == n - k
      <4>1. k \in 1..L /\ n - (k - 1) = j + 1 /\ n - ((k + 1) - 1) = j
        BY <1>1, <2>1, <3>2
      <4>2. w[k] \in F[j + 1] /\ w[k].avps \in Seq(F[j]) /\ j \in Nat /\ f[k + 1] \in F[j]
        BY <1>4, <1>5, <2>1, <4>1, Zenon
      <4>3. place[k + 1] \in 1..Len(w[k].avps)
        BY <1>1, <2>1, Zenon
      <4> HIDE DEF j
      <4> DEFINE y == w[k]
                 i == place[k + 1]
                 v == f[k + 1]
      <4>4. /\ y \in F[j + 1] /\ y.avps \in Seq(F[j]) /\ v \in F[j] /\ i \in 1..Len(y.avps)
            /\ f[k] = Put(y, i, v)
        BY <1>6, <2>1, <4>2, <4>3, Zenon
      <4> HIDE DEF y, i, v
      <4>5. Put(y, i, v).avps = Replaced(y.avps, i, v)
        BY <4>2, <4>4, PutIn
      <4>6. Replaced(y.avps, i, v)[i] = v
        BY <4>4, ReplacedFacts
      <4>7. f[k].avps[i] = v
        BY <4>4, <4>5, <4>6, Zenon
      <4>8. QED
        BY <4>7 DEF i, v
    <3>3. QED
      BY <3>1, <3>2, Zenon
  <2>4. QED
    BY <2>2, <2>3, Zenon
<1> HIDE DEF S
<1>9. Nat \subseteq S
  BY <1>7, <1>8, SetInduction, Zenon
<1>10. ASSUME NEW k \in 0..L PROVE x[k] = f[k]
  <2>1. k \in Nat /\ k <= L
    BY <1>1, <1>10
  <2>2. QED
    BY <1>9, <2>1, Zenon DEF S
<1>11. QED
  BY <1>10, Zenon DEF x, L, Goes

\* Putting an AVP at the place makes the same groups.
Agree(s, t, place) ==
  \A k \in 1..Len(place) : \A v :
    Put(Way(s, place)[k - 1], place[k], v) = Put(Way(t, place)[k - 1], place[k], v)

\* Two lists that agree on the way but for the member at the place are the same once
\* the same AVP is there.
LEMMA SameChange ==
  ASSUME NEW place, Len(place) \in Nat, NEW s, NEW t, NEW a,
         NEW f, Changed(f, s, place, a), NEW g, Changed(g, t, place, a), Agree(s, t, place),
         NEW r, Ends(f, r)
  PROVE  Ends(g, r)
<1> DEFINE L == Len(place)
           S == {m \in Nat : m <= L => f[L - m] = g[L - m]}
<1>1. L \in Nat
  OBVIOUS
<1>2. /\ f[L] = g[L]
      /\ \A k \in 1..L : /\ f[k - 1] = Put(Way(s, place)[k - 1], place[k], f[k])
                         /\ g[k - 1] = Put(Way(t, place)[k - 1], place[k], g[k])
  BY Zenon DEF Changed
<1>3. \A k \in 1..L : f[k] = g[k] => f[k - 1] = g[k - 1]
  BY <1>2, Zenon DEF Agree
<1> HIDE DEF L
<1>4. 0 \in S
  BY <1>1, <1>2
<1>5. \A m \in Nat : m \in S => m + 1 \in S
  <2> SUFFICES ASSUME NEW m \in Nat, m \in S, m + 1 <= L PROVE f[L - (m + 1)] = g[L - (m + 1)]
    OBVIOUS
  <2>1. m <= L /\ L - m \in 1..L /\ L - (m + 1) = (L - m) - 1
    BY <1>1
  <2>2. f[L - m] = g[L - m]
    BY <2>1, Zenon
  <2>3. QED
    BY <1>3, <2>1, <2>2, Zenon
<1> HIDE DEF S
<1>6. L \in S
  BY <1>1, <1>4, <1>5, SetInduction, Zenon
<1>7. L - L = 0 /\ L <= L
  BY <1>1
<1>8. f[0] = g[0]
  BY <1>6, <1>7, Zenon DEF S
<1>9. QED
  BY <1>8, Zenon DEF Ends

\* A member that is replaced twice.
LEMMA PutTwice ==
  ASSUME NEW x, NEW i, NEW u, NEW v, NEW y, y = Put(x, i, u)
  PROVE  Put(y, i, v) = Put(x, i, v)
<1> DEFINE p == [x.avps EXCEPT ![i] = u]
<1>1. y = [x EXCEPT !.avps = p]
  BY DEF Put
<1>2. [p EXCEPT ![i] = v] = [x.avps EXCEPT ![i] = v]
  OBVIOUS
<1> HIDE DEF p
<1>3. Put(y, i, v) = [y EXCEPT !.avps = [y.avps EXCEPT ![i] = v]]
  BY DEF Put
<1>4. Put(x, i, v) = [x EXCEPT !.avps = [x.avps EXCEPT ![i] = v]]
  BY DEF Put
<1>5. CASE "avps" \in DOMAIN x
  <2>1. y.avps = p
    BY <1>1, <1>5
  <2>2. Put(y, i, v) = [y EXCEPT !.avps = [x.avps EXCEPT ![i] = v]]
    BY <1>2, <1>3, <2>1
  <2> DEFINE q == [x.avps EXCEPT ![i] = v]
  <2> HIDE DEF q
  <2>3. [y EXCEPT !.avps = q] = [x EXCEPT !.avps = q]
    BY <1>1
  <2>4. QED
    BY <1>4, <2>2, <2>3 DEF q
<1>6. CASE "avps" \notin DOMAIN x
  <2> DEFINE q == [y.avps EXCEPT ![i] = v]
             r == [x.avps EXCEPT ![i] = v]
  <2> HIDE DEF q, r
  <2>1. [[x EXCEPT !.avps = p] EXCEPT !.avps = q] = [x EXCEPT !.avps = r]
    BY <1>6
  <2>2. QED
    BY <1>1, <1>3, <1>4, <2>1 DEF q, r
<1>7. QED
  BY <1>5, <1>6

\* Changing twice is changing once.
LEMMA WithTwice ==
  ASSUME NEW F, Closed(F), NEW n \in Nat, NEW s \in Seq(F[n]), NEW place, Leads(s, place),
         NEW a \in F[0], NEW b
  PROVE  With(With(s, place, a), place, b) = With(s, place, b)
<1> DEFINE t == With(s, place, a)
           w == Way(s, place)
<1>1. /\ Len(place) \in Nat /\ 1 \in 1..Len(place)
      /\ \A k \in 1..Len(place) : place[k] \in 1..Len(w[k - 1].avps)
  BY DEF Leads
<1>2. PICK f : Changed(f, s, place, a) /\ Ends(f, t)
  BY <1>1, WithFacts, Zenon
<1>3. PICK g : Changed(g, s, place, b) /\ Ends(g, With(s, place, b))
  BY <1>1, WithFacts, Zenon
<1>4. PICK h : Changed(h, t, place, b) /\ Ends(h, With(t, place, b))
  BY <1>1, WithFacts, Zenon
<1>5. \A k \in 0..Len(place) : Way(t, place)[k] = f[k]
  <2> HIDE DEF t
  <2>1. Goes(f, t, place)
    BY <1>2, AtWith, Zenon
  <2>2. QED
    BY <2>1, Zenon DEF Goes
<1>6. \A k \in 1..Len(place) : f[k - 1] = Put(w[k - 1], place[k], f[k])
  BY <1>2, Zenon DEF Changed
<1> HIDE DEF t, w
<1>8. ASSUME NEW k \in 1..Len(place), NEW v
      PROVE  Put(w[k - 1], place[k], v) = Put(Way(t, place)[k - 1], place[k], v)
  <2>1. k - 1 \in 0..Len(place)
    BY <1>1
  <2>2. Way(t, place)[k - 1] = Put(w[k - 1], place[k], f[k])
    BY <1>5, <1>6, <2>1, Zenon
  <2> DEFINE x == w[k - 1]
             y == Way(t, place)[k - 1]
             i == place[k]
             u == f[k]
  <2>3. y = Put(x, i, u)
    BY <2>2
  <2>4. Put(y, i, v) = Put(x, i, v)
    <3> HIDE DEF x, y, i, u
    <3>1. QED
      BY <2>3, PutTwice
  <2>5. QED
    BY <2>4
<1>9. Len(place) \in Nat /\ Changed(g, s, place, b) /\ Changed(h, t, place, b)
  BY <1>1, <1>3, <1>4, Zenon
<1>10. Agree(s, t, place)
  BY <1>8, Zenon DEF w, Agree
<1>11. Ends(h, With(s, place, b))
  <2>1. Ends(g, With(s, place, b)) /\ Len(place) \in Nat
    BY <1>1, <1>3, Zenon
  <2>2. QED
    BY <1>9, <1>10, <2>1, SameChange, Zenon
<1>12. QED
  BY <1>4, <1>11, Zenon DEF t, Ends

\* Changing nothing.
LEMMA WithSame ==
  ASSUME NEW F, Closed(F), NEW n \in Nat, NEW s \in Seq(F[n]), NEW place, Leads(s, place)
  PROVE  With(s, place, At(s, place)) = s
<1> DEFINE L == Len(place)
           w == Way(s, place)
<1>1. L \in Nat /\ L >= 1 /\ \A k \in 1..L : place[k] \in 1..Len(w[k - 1].avps)
  BY DEF Leads
<1>2. w[0] = Top(s) /\ \A k \in 1..L : w[k] = w[k - 1].avps[place[k]]
  <2>1. Len(place) \in Nat
    BY <1>1
  <2>2. Steps(w, s, place)
    BY <2>1, WayFacts, Zenon
  <2>3. QED
    BY <2>2, Zenon DEF Steps
<1>3. PICK f : Changed(f, s, place, w[L]) /\ Ends(f, With(s, place, w[L]))
  <2>1. Len(place) \in Nat
    BY <1>1
  <2>2. QED
    BY <2>1, WithFacts, Zenon
<1>4. At(s, place) = w[L]
  BY Zenon DEF At
<1>5. \A k \in 1..L : /\ k - 1 \in 0..n /\ n - (k - 1) \in Nat
                      /\ w[k - 1].avps \in Seq(F[n - (k - 1)]) /\ w[k] \in F[n - (k - 1)]
  BY WayIn, Zenon
<1>6. f[L] = w[L] /\ \A k \in 1..L : f[k - 1] = Put(w[k - 1], place[k], f[k])
  BY <1>3, Zenon DEF Changed
<1> HIDE DEF w, L
<1>7. ASSUME NEW k \in 1..L PROVE Put(w[k - 1], place[k], w[k]) = w[k - 1]
  <2> DEFINE x == w[k - 1]
             i == place[k]
  <2>1. x.avps \in Seq(F[n - (k - 1)]) /\ i \in 1..Len(x.avps) /\ w[k] = x.avps[i]
    BY <1>1, <1>2, <1>5, Zenon
  <2>2. x = Top(s) \/ \E T : x \in Shaped(T)
    <3>1. CASE k = 1
      <4>1. k - 1 = 0
        BY <3>1
      <4>2. QED
        BY <1>2, <4>1, Zenon
    <3>2. CASE k # 1
      <4>1. k - 1 \in 1..L
        BY <1>1, <3>2
      <4> DEFINE j == n - ((k - 1) - 1)
      <4>2. x \in F[j] /\ j \in Nat
        BY <1>5, <4>1, Zenon
      <4> HIDE DEF x, j
      <4>3. x \in AVPs[j]
        BY <4>2, Zenon DEF Closed
      <4>4. j = 0 \/ (j - 1 \in Nat /\ (j - 1) + 1 = j)
        BY <4>2
      <4>5. QED
        BY <4>3, <4>4, AvpsFacts, Zenon
    <3>3. QED
      BY <3>1, <3>2, Zenon
  <2> HIDE DEF x, i
  <2>3. [x.avps EXCEPT ![i] = x.avps[i]] = x.avps
    BY <2>1
  <2>4. [x EXCEPT !.avps = x.avps] = x
    <3>1. CASE x = Top(s)
      BY <3>1 DEF Top
    <3>2. ASSUME NEW T, x \in Shaped(T) PROVE [x EXCEPT !.avps = x.avps] = x
      BY <3>2 DEF Shaped
    <3>3. QED
      BY <2>2, <3>1, <3>2, Zenon
  <2>5. Put(x, i, x.avps[i]) = [x EXCEPT !.avps = [x.avps EXCEPT ![i] = x.avps[i]]]
    BY Zenon DEF Put
  <2>6. QED
    BY <2>1, <2>3, <2>4, <2>5, Zenon DEF x, i
<1> DEFINE S == {m \in Nat : m <= L => f[L - m] = w[L - m]}
<1>8. 0 \in S
  BY <1>1, <1>6
<1>9. \A m \in Nat : m \in S => m + 1 \in S
  <2> SUFFICES ASSUME NEW m \in Nat, m \in S, m + 1 <= L PROVE f[L - (m + 1)] = w[L - (m + 1)]
    OBVIOUS
  <2>1. m <= L /\ L - m \in 1..L /\ L - (m + 1) = (L - m) - 1
    BY <1>1
  <2>2. f[L - m] = w[L - m]
    BY <2>1, Zenon
  <2>3. QED
    BY <1>6, <1>7, <2>1, <2>2, Zenon
<1> HIDE DEF S
<1>10. L \in S
  BY <1>1, <1>8, <1>9, SetInduction, Zenon
<1>11. L - L = 0 /\ L <= L
  BY <1>1
<1>12. f[0] = w[0]
  BY <1>10, <1>11, Zenon DEF S
<1>13. Top(s).avps = s
  BY DEF Top
<1>14. QED
  BY <1>2, <1>3, <1>4, <1>12, <1>13, Zenon DEF Ends

-----------------------------------------------------------------------------
(***************************************************************************)
(* What FindAVP finds.                                                     *)
(***************************************************************************)
\* The AVPs of a group that have a key.
WithKey(group, key) == {i \in 1..Len(group.avps) : Key(group.avps[i]) = key}

\* From the place of one AVP to that of the next.
FindStep(avps, keys, k, p) ==
  IF Len(p) # k - 1 \/ At(avps, p).format # "Grouped" \/ WithKey(At(avps, p), keys[k]) = {}
  THEN <<>> ELSE Append(p, Min(WithKey(At(avps, p), keys[k])))

\* The first m steps of FindAVP.
Searches(f, avps, keys, m) ==
  f = [k \in 0..m |-> IF k = 0 THEN <<>> ELSE FindStep(avps, keys, k, f[k - 1])]

\* There are such steps.
LEMMA SearchExists ==
  ASSUME NEW avps, NEW keys, NEW m \in Nat
  PROVE  \E f : Searches(f, avps, keys, m)
<1> DEFINE S == {n \in Nat : \E f : Searches(f, avps, keys, n)}
<1>1. 0 \in S
  <2> DEFINE f == [k \in 0..0 |-> <<>>]
  <2>1. Searches(f, avps, keys, 0)
    BY DEF Searches
  <2>2. QED
    BY <2>1
<1>2. \A n \in Nat : n \in S => n + 1 \in S
  <2> SUFFICES ASSUME NEW n \in Nat, NEW f, Searches(f, avps, keys, n)
               PROVE  \E g : Searches(g, avps, keys, n + 1)
    OBVIOUS
  <2> DEFINE x == FindStep(avps, keys, n + 1, f[n])
             g == [k \in 0..(n + 1) |-> IF k = n + 1 THEN x ELSE f[k]]
             h == [k \in 0..(n + 1) |-> IF k = 0 THEN <<>> ELSE FindStep(avps, keys, k, g[k - 1])]
  <2>1. ASSUME NEW k \in 0..(n + 1) PROVE g[k] = h[k]
    <3>1. CASE k = n + 1
      <4>1. k # 0 /\ k - 1 = n /\ n \in 0..(n + 1) /\ n # n + 1
        BY <3>1
      <4>2. g[k - 1] = f[n]
        BY <4>1
      <4>3. g[k] = x
        BY <3>1
      <4>4. h[k] = FindStep(avps, keys, k, g[k - 1])
        BY <4>1, Zenon
      <4>5. QED
        BY <3>1, <4>2, <4>3, <4>4, Zenon
    <3>2. CASE k = 0
      <4>1. k \in 0..n /\ k # n + 1
        BY <3>2
      <4>2. g[k] = f[k] /\ f[k] = <<>> /\ h[k] = <<>>
        BY <3>2, <4>1, Zenon DEF Searches
      <4>3. QED
        BY <4>2, Zenon
    <3>3. CASE k \in 1..n
      <4>1. k \in 0..n /\ k # n + 1 /\ k # 0 /\ k - 1 \in 0..(n + 1) /\ k - 1 # n + 1
        BY <3>3
      <4>2. g[k] = f[k] /\ g[k - 1] = f[k - 1] /\ h[k] = FindStep(avps, keys, k, g[k - 1])
        BY <4>1, Zenon
      <4>3. f[k] = FindStep(avps, keys, k, f[k - 1])
        BY <4>1, Zenon DEF Searches
      <4>4. QED
        BY <4>2, <4>3, Zenon
    <3>4. QED
      BY <3>1, <3>2, <3>3
  <2>2. g = h
    BY <2>1, Zenon
  <2>3. Searches(g, avps, keys, n + 1)
    BY <2>2, Zenon DEF Searches
  <2>4. QED
    BY <2>3, Zenon
<1> HIDE DEF S
<1>3. m \in S
  BY <1>1, <1>2, SetInduction, Zenon
<1>4. QED
  BY <1>3, Zenon DEF S

\* FindAVP takes them.
LEMMA FindFacts ==
  ASSUME NEW avps, NEW keys, Len(keys) \in Nat
  PROVE  \E f : Searches(f, avps, keys, Len(keys)) /\ FindAVP(avps, keys) = f[Len(keys)]
<1> DEFINE m == Len(keys)
           f == CHOOSE g : Searches(g, avps, keys, m)
<1>1. Searches(f, avps, keys, m)
  BY SearchExists, Zenon
<1>2. FindAVP(avps, keys) = f[m]
  BY Zenon DEF FindAVP, Searches, FindStep, WithKey
<1> HIDE DEF f
<1>3. QED
  BY <1>1, <1>2, Zenon

\* The way to a place begins with the way to the AVP it is in.
LEMMA WayFurther ==
  ASSUME NEW avps, NEW p \in Seq(Nat), NEW i \in Nat
  PROVE  \A k \in 0..Len(p) : Way(avps, Append(p, i))[k] = Way(avps, p)[k]
<1> DEFINE q == Append(p, i)
           x == Way(avps, p)
           y == Way(avps, q)
           S == {k \in Nat : k <= Len(p) => y[k] = x[k]}
<1>1. /\ Len(p) \in Nat /\ Len(q) \in Nat /\ Len(q) = Len(p) + 1
      /\ \A k \in 1..Len(p) : q[k] = p[k]
  OBVIOUS
<1> HIDE DEF q
<1>2. Steps(x, avps, p) /\ Steps(y, avps, q)
  BY <1>1, WayFacts, Zenon
<1> HIDE DEF x, y
<1>3. 0 \in S
  BY <1>2 DEF Steps
<1>4. \A k \in Nat : k \in S => k + 1 \in S
  <2> SUFFICES ASSUME NEW k \in Nat, k \in S, k + 1 <= Len(p) PROVE y[k + 1] = x[k + 1]
    OBVIOUS
  <2>1. k <= Len(p) /\ k + 1 \in 1..Len(p) /\ k + 1 \in 1..Len(q) /\ (k + 1) - 1 = k
    BY <1>1
  <2>2. x[k + 1] = x[k].avps[p[k + 1]] /\ y[k + 1] = y[k].avps[q[k + 1]]
    BY <1>2, <2>1, Zenon DEF Steps
  <2>3. y[k] = x[k] /\ q[k + 1] = p[k + 1]
    BY <1>1, <2>1, Zenon
  <2>4. QED
    BY <2>2, <2>3, Zenon
<1> HIDE DEF S
<1>5. Nat \subseteq S
  BY <1>3, <1>4, SetInduction, Zenon
<1>6. ASSUME NEW k \in 0..Len(p) PROVE y[k] = x[k]
  <2>1. k \in Nat /\ k <= Len(p)
    BY <1>1
  <2>2. QED
    BY <1>5, <2>1, Zenon DEF S
<1>7. QED
  BY <1>6, Zenon DEF x, y, q

\* A place as far in as there were keys; the list itself for none.
LeadsBy(avps, p, k) ==
  /\ p \in Seq(Nat) /\ Len(p) = k
  /\ \A j \in 1..k : p[j] \in 1..Len(Way(avps, p)[j - 1].avps)

\* From an AVP to one of its members.
LEMMA LeadsFurther ==
  ASSUME NEW avps, NEW k \in Nat, NEW p, LeadsBy(avps, p, k),
         NEW i \in 1..Len(At(avps, p).avps), i \in Nat
  PROVE  LeadsBy(avps, Append(p, i), k + 1)
<1> DEFINE q == Append(p, i)
<1>1. p \in Seq(Nat) /\ Len(p) = k /\ \A j \in 1..k : p[j] \in 1..Len(Way(avps, p)[j - 1].avps)
  BY Zenon DEF LeadsBy
<1>2. q \in Seq(Nat) /\ Len(q) = k + 1 /\ q[k + 1] = i /\ \A j \in 1..k : q[j] = p[j]
  BY <1>1
<1>3. \A j \in 0..k : Way(avps, q)[j] = Way(avps, p)[j]
  BY <1>1, WayFurther, Zenon
<1>4. i \in 1..Len(Way(avps, p)[k].avps)
  BY <1>1, Zenon DEF At
<1> HIDE DEF q
<1>5. ASSUME NEW j \in 1..(k + 1) PROVE q[j] \in 1..Len(Way(avps, q)[j - 1].avps)
  <2>1. j - 1 \in 0..k
    OBVIOUS
  <2>2. Way(avps, q)[j - 1] = Way(avps, p)[j - 1]
    BY <1>3, <2>1, Zenon
  <2>3. CASE j \in 1..k
    BY <1>1, <1>2, <2>2, <2>3, Zenon
  <2>4. CASE j = k + 1
    <3>1. j - 1 = k
      BY <2>4
    <3>2. QED
      BY <1>2, <1>4, <2>2, <2>4, <3>1, Zenon
  <2>5. QED
    BY <2>3, <2>4
<1>6. QED
  BY <1>2, <1>5, Zenon DEF q, LeadsBy

\* What is at a place is the list, or an AVP.
LEMMA AtLed ==
  ASSUME NEW F, Closed(F), NEW n \in Nat, NEW s \in Seq(F[n]), NEW k \in Nat, NEW p,
         LeadsBy(s, p, k)
  PROVE  Len(At(s, p).avps) \in Nat
<1>1. p \in Seq(Nat) /\ Len(p) = k /\ \A j \in 1..k : p[j] \in 1..Len(Way(s, p)[j - 1].avps)
  BY Zenon DEF LeadsBy
<1>2. At(s, p) = Way(s, p)[k]
  BY <1>1, Zenon DEF At
<1>3. CASE k = 0
  <2>1. Way(s, p)[0] = Top(s)
    <3>1. Len(p) \in Nat
      BY <1>1
    <3>2. QED
      BY <3>1, WayFacts, Zenon DEF Steps
  <2>2. At(s, p).avps = s
    BY <1>2, <1>3, <2>1 DEF Top
  <2>3. QED
    BY <2>2
<1>4. CASE k # 0
  <2>1. Len(p) >= 1 /\ k \in 1..Len(p)
    BY <1>1, <1>4
  <2>2. Leads(s, p)
    BY <1>1, <2>1, Zenon DEF Leads
  <2> DEFINE j == n - (k - 1)
  <2>3. j \in Nat /\ At(s, p) \in F[j]
    BY <1>2, <2>1, <2>2, WayIn, Zenon
  <2> HIDE DEF j
  <2>4. At(s, p).avps = <<>> \/ At(s, p).avps \in Seq(F[j - 1])
    BY <2>3, Zenon DEF Closed
  <2>5. QED
    BY <2>4
<1>5. QED
  BY <1>3, <1>4

\* What FindAVP finds is there.
LEMMA FindLeads ==
  ASSUME NEW F, Closed(F), NEW n \in Nat, NEW s \in Seq(F[n]), NEW keys, Len(keys) \in Nat,
         FindAVP(s, keys) # <<>>
  PROVE  Leads(s, FindAVP(s, keys))
<1> DEFINE m == Len(keys)
<1>1. PICK f : Searches(f, s, keys, m) /\ FindAVP(s, keys) = f[m]
  BY FindFacts
<1>2. m \in Nat
  OBVIOUS
<1> HIDE DEF m
<1>3. 0 \in 0..m /\ \A k \in 1..m : k \in 0..m /\ k # 0
  BY <1>2
<1>4. f[0] = <<>> /\ \A k \in 1..m : f[k] = FindStep(s, keys, k, f[k - 1])
  BY <1>1, <1>3, Zenon DEF Searches
<1> DEFINE S == {k \in Nat : k <= m => f[k] = <<>> \/ LeadsBy(s, f[k], k)}
<1>5. 0 \in S
  BY <1>4
<1>6. \A k \in Nat : k \in S => k + 1 \in S
  <2> SUFFICES ASSUME NEW k \in Nat, k \in S, k + 1 <= m, f[k + 1] # <<>>
               PROVE  LeadsBy(s, f[k + 1], k + 1)
    OBVIOUS
  <2> DEFINE p == f[k]
             T == WithKey(At(s, p), keys[k + 1])
  <2>1. k <= m /\ k + 1 \in 1..m /\ (k + 1) - 1 = k
    BY <1>2
  <2>2. f[k + 1] = FindStep(s, keys, k + 1, p)
    BY <1>4, <2>1, Zenon
  <2>3. p = <<>> \/ LeadsBy(s, p, k)
    BY <2>1, Zenon
  <2> HIDE DEF p
  <2>4. Len(p) = k /\ T # {} /\ f[k + 1] = Append(p, Min(T))
    BY <2>1, <2>2, Zenon DEF FindStep
  <2>5. LeadsBy(s, p, k)
    <3>1. CASE p = <<>>
      <4>1. k = 0 /\ <<>> \in Seq(Nat)
        BY <2>4, <3>1
      <4>2. QED
        BY <2>4, <3>1, <4>1 DEF LeadsBy
    <3>2. QED
      BY <2>3, <3>1, Zenon
  <2>6. T \subseteq 1..Len(At(s, p).avps) /\ Len(At(s, p).avps) \in Nat
    <3>1. Len(At(s, p).avps) \in Nat
      BY <2>5, AtLed, Zenon
    <3>2. T \subseteq 1..Len(At(s, p).avps)
      BY Zenon DEF WithKey
    <3>3. QED
      BY <3>1, <3>2
  <2> HIDE DEF T
  <2>7. T \subseteq Nat
    BY <2>6
  <2>8. Min(T) \in T
    <3>1. \E x \in T : \A y \in T : x <= y
      BY <2>4, <2>7, LeastNumber, Zenon
    <3>2. QED
      BY <3>1, Zenon DEF Min
  <2>9. Min(T) \in 1..Len(At(s, p).avps) /\ Min(T) \in Nat
    BY <2>6, <2>7, <2>8
  <2>10. LeadsBy(s, Append(p, Min(T)), k + 1)
    BY <2>5, <2>9, LeadsFurther, Zenon
  <2>11. QED
    BY <2>4, <2>10, Zenon
<1> HIDE DEF S
<1>7. m \in S
  BY <1>2, <1>5, <1>6, SetInduction, Zenon
<1> DEFINE place == FindAVP(s, keys)
<1>8. LeadsBy(s, place, m)
  <2>1. m <= m
    BY <1>2
  <2>2. QED
    BY <1>1, <1>7, <2>1, Zenon DEF S
<1> HIDE DEF place
<1>9. /\ place \in Seq(Nat) /\ Len(place) = m
      /\ \A j \in 1..m : place[j] \in 1..Len(Way(s, place)[j - 1].avps)
  BY <1>8, Zenon DEF LeadsBy
<1>10. Len(place) >= 1
  BY <1>9 DEF place
<1>11. Leads(s, place)
  BY <1>9, <1>10, Zenon DEF Leads
<1>12. QED
  BY <1>11, Zenon DEF place

-----------------------------------------------------------------------------
(***************************************************************************)
(* AVPs that are the same on the wire.                                     *)
(***************************************************************************)
Alike(a, b) == OctetsOf(a) = OctetsOf(b)
ListsAlike(s, t) == EncodeAvps(s) = EncodeAvps(t)

\* A list with one of two such AVPs.
LEMMA AlikeInList ==
  ASSUME NEW s \in Seq(AllAvps), NEW i \in 1..Len(s), NEW u \in AllAvps, NEW v \in AllAvps,
         Alike(u, v)
  PROVE  ListsAlike(Replaced(s, i, u), Replaced(s, i, v))
<1> DEFINE x == Replaced(s, i, u)
           y == Replaced(s, i, v)
<1>1. x \in Seq(AllAvps) /\ Len(x) = Len(s) /\ x[i] = u /\ \A j \in 1..Len(s) : j # i => x[j] = s[j]
  <2>1. x \in Seq(AllAvps) /\ Len(x) = Len(s)
    BY ReplacedFacts, SMTT(30)
  <2>2. x[i] = u
    BY DEF Replaced
  <2>3. \A j \in 1..Len(s) : j # i => x[j] = s[j]
    BY DEF Replaced
  <2>4. QED
    BY <2>1, <2>2, <2>3, Zenon
<1>2. y \in Seq(AllAvps) /\ Len(y) = Len(s) /\ y[i] = v /\ \A j \in 1..Len(s) : j # i => y[j] = s[j]
  <2>1. y \in Seq(AllAvps) /\ Len(y) = Len(s)
    BY ReplacedFacts, SMTT(30)
  <2>2. y[i] = v
    BY DEF Replaced
  <2>3. \A j \in 1..Len(s) : j # i => y[j] = s[j]
    BY DEF Replaced
  <2>4. QED
    BY <2>1, <2>2, <2>3, Zenon
<1> HIDE DEF x, y
<1>3. OctetsOf(u) = OctetsOf(v)
  BY Zenon DEF Alike
<1>4. \A j \in 1..Len(s) : OctetsOf(x[j]) = OctetsOf(y[j])
  BY <1>1, <1>2, <1>3, Zenon
<1>5. Each(MaxDepth, x) = Each(MaxDepth, y)
  <2>1. Each(MaxDepth, x) = [j \in 1..Len(s) |-> OctetsOf(x[j])]
    BY <1>1, Zenon DEF Each, OctetsOf
  <2>2. Each(MaxDepth, y) = [j \in 1..Len(s) |-> OctetsOf(y[j])]
    BY <1>2, Zenon DEF Each, OctetsOf
  <2>3. QED
    BY <1>4, <2>1, <2>2, Zenon
<1>6. MaxDepth \in Nat
  BY CodecAssumption
<1>7. EncodeAvps(x) = FlattenSeq(Each(MaxDepth, x)) /\ EncodeAvps(y) = FlattenSeq(Each(MaxDepth, y))
  BY <1>1, <1>2, <1>6, EncodeIs, Zenon DEF EncodeAvps, AllAvps
<1>8. EncodeAvps(x) = EncodeAvps(y)
  BY <1>5, <1>7, Zenon
<1>9. QED
  BY <1>8, Zenon DEF ListsAlike, x, y

\* A group with one of two such AVPs.
LEMMA AlikeInGroup ==
  ASSUME NEW n \in Nat, n < MaxDepth, NEW a \in AVPs[n + 1], a.avps \in Seq(AVPs[n]),
         NEW i \in 1..Len(a.avps), NEW u \in AVPs[n], NEW v \in AVPs[n], Alike(u, v)
  PROVE  Alike(Put(a, i, u), Put(a, i, v))
<1> DEFINE x == Put(a, i, u)
           y == Put(a, i, v)
           p == Replaced(a.avps, i, u)
           q == Replaced(a.avps, i, v)
           T == Seq(AVPs[n])
<1>1. Closed(AVPs)
  BY ClosedSets
<1>2. IsWith(x, a, p, T) /\ IsWith(y, a, q, T)
  BY <1>1, PutIn, Zenon
<1>3. AVPs[n] \subseteq AllAvps /\ a.avps \in Seq(AllAvps)
  <2>1. AVPs[n] \subseteq AllAvps
    <3>1. MaxDepth \in Nat
      BY CodecAssumption
    <3>2. n <= MaxDepth
      BY <3>1
    <3>3. QED
      BY <3>1, <3>2, AvpsMonotone, Zenon DEF AllAvps
  <2>2. QED
    BY <2>1, SeqMonotonic, Zenon
<1>4. ListsAlike(p, q)
  BY <1>3, AlikeInList, Zenon
<1> HIDE DEF x, y, p, q
<1>5. /\ x \in Shaped(T) /\ x.avps = p /\ y \in Shaped(T) /\ y.avps = q
      /\ x.format = y.format /\ x.data = y.data /\ SameHeader(x, y)
  BY <1>2, Zenon DEF IsWith, SameHeader
<1>6. x.avps \in Seq(AVPs[n]) /\ y.avps \in Seq(AVPs[n])
  BY <1>5, ShapedFacts, Zenon
<1>7. OctetsOf(x) = EncodeAvp(x, EncodeAvps(x.avps)) /\ OctetsOf(y) = EncodeAvp(y, EncodeAvps(y.avps))
  BY <1>6, OctetsOfGroup, Zenon
<1>8. EncodeAvps(x.avps) = EncodeAvps(y.avps)
  BY <1>4, <1>5, Zenon DEF ListsAlike
<1>9. Data(x, EncodeAvps(x.avps)) = Data(y, EncodeAvps(y.avps))
  BY <1>5, <1>8, Zenon DEF Data
<1>10. OctetsOf(x) = OctetsOf(y)
  <2> DEFINE m == EncodeAvps(x.avps)
             k == EncodeAvps(y.avps)
  <2>1. Data(y, k) = Data(x, m)
    BY <1>9
  <2>2. OctetsOf(x) = EncodeAvp(x, m) /\ OctetsOf(y) = EncodeAvp(y, k)
    BY <1>7
  <2> HIDE DEF m, k
  <2>3. EncodeAvp(y, k) = EncodeAvp(x, m)
    <3>1. \A i1, i2 : Data(y, i2) = Data(x, i1) => EncodeAvp(y, i2) = EncodeAvp(x, i1)
      BY <1>5, SameOctets
    <3>2. QED
      BY <2>1, <3>1
  <2>4. QED
    BY <2>2, <2>3
<1>11. QED
  BY <1>10, Zenon DEF Alike, x, y

\* A list with one of two such AVPs at a place.
LEMMA AlikeAtPlace ==
  ASSUME NEW n \in Nat, n <= MaxDepth, NEW s \in Seq(AVPs[n]), NEW place, Leads(s, place),
         NEW b \in AVPs[0], NEW c \in AVPs[0], Alike(b, c)
  PROVE  ListsAlike(With(s, place, b), With(s, place, c))
<1> DEFINE L == Len(place)
           w == Way(s, place)
           x == With(s, place, b)
           y == With(s, place, c)
<1>1. L \in Nat /\ L >= 1 /\ \A k \in 1..L : place[k] \in 1..Len(w[k - 1].avps)
  BY DEF Leads
<1>2. Closed(AVPs)
  BY ClosedSets
<1>3. PICK f : Changed(f, s, place, b) /\ Ends(f, x)
  <2>1. Len(place) \in Nat
    BY <1>1
  <2>2. QED
    BY <2>1, WithFacts, Zenon
<1>4. PICK g : Changed(g, s, place, c) /\ Ends(g, y)
  <2>1. Len(place) \in Nat
    BY <1>1
  <2>2. QED
    BY <2>1, WithFacts, Zenon
<1> HIDE DEF x, y
<1>5. /\ \A k \in 1..L : f[k] \in AVPs[n - (k - 1)]
      /\ \A k \in 1..L : g[k] \in AVPs[n - (k - 1)]
  BY <1>2, <1>3, <1>4, ChangedIn, Zenon
<1>6. \A k \in 1..L : /\ k - 1 \in 0..n /\ n - (k - 1) \in Nat
                      /\ w[k - 1].avps \in Seq(AVPs[n - (k - 1)]) /\ w[k] \in AVPs[n - (k - 1)]
  BY <1>2, WayIn, Zenon
<1>7. /\ f[L] = b /\ g[L] = c
      /\ \A k \in 1..L : /\ f[k - 1] = Put(w[k - 1], place[k], f[k])
                         /\ g[k - 1] = Put(w[k - 1], place[k], g[k])
  BY <1>3, <1>4, Zenon DEF Changed
<1> HIDE DEF w, L
<1> DEFINE S == {m \in Nat : m < L => Alike(f[L - m], g[L - m])}
<1>8. 0 \in S
  BY <1>1, <1>7
<1>9. \A m \in Nat : m \in S => m + 1 \in S
  <2> SUFFICES ASSUME NEW m \in Nat, m \in S, m + 1 < L
               PROVE  Alike(f[L - (m + 1)], g[L - (m + 1)])
    OBVIOUS
  <2> DEFINE k == L - m
             j == n - (k - 1)
  <2>1. /\ m < L /\ k \in 1..L /\ L - (m + 1) = k - 1 /\ k - 1 \in 1..L
    BY <1>1
  <2>2. Alike(f[k], g[k]) /\ f[k] \in AVPs[j] /\ g[k] \in AVPs[j]
    BY <1>5, <2>1, Zenon
  <2>3. w[k - 1].avps \in Seq(AVPs[j]) /\ j \in Nat /\ w[k - 1] \in AVPs[n - ((k - 1) - 1)]
        /\ n - ((k - 1) - 1) \in Nat /\ (k - 1) - 1 \in 0..n
    BY <1>6, <2>1, Zenon
  <2>4. n - ((k - 1) - 1) = j + 1 /\ j < MaxDepth
    <3>1. MaxDepth \in Int
      BY CodecAssumption
    <3>2. QED
      BY <1>1, <2>1, <2>3, <3>1
  <2>5. place[k] \in 1..Len(w[k - 1].avps)
    BY <1>1, <2>1, Zenon
  <2> HIDE DEF k, j
  <2>6. w[k - 1] \in AVPs[j + 1]
    BY <2>3, <2>4, Zenon
  <2>7. Alike(Put(w[k - 1], place[k], f[k]), Put(w[k - 1], place[k], g[k]))
    BY <2>2, <2>3, <2>4, <2>5, <2>6, AlikeInGroup, Zenon
  <2>8. /\ f[k - 1] = Put(w[k - 1], place[k], f[k])
        /\ g[k - 1] = Put(w[k - 1], place[k], g[k])
    BY <1>7, <2>1, Zenon
  <2>9. QED
    BY <2>1, <2>7, <2>8, Zenon
<1> HIDE DEF S
<1>10. Nat \subseteq S
  BY <1>8, <1>9, SetInduction, Zenon
<1>11. Alike(f[1], g[1])
  <2>1. L - 1 \in Nat /\ L - 1 < L /\ L - (L - 1) = 1
    BY <1>1
  <2>2. L - 1 \in S
    BY <1>10, <2>1, Zenon
  <2>3. QED
    BY <2>1, <2>2, Zenon DEF S
<1>12. Begins(f, s, place, x, AVPs[n]) /\ Begins(g, s, place, y, AVPs[n])
  BY <1>2, <1>3, <1>4, WithIs, Zenon
<1>13. AVPs[n] \subseteq AllAvps /\ s \in Seq(AllAvps)
  <2>1. AVPs[n] \subseteq AllAvps
    <3>1. MaxDepth \in Nat
      BY CodecAssumption
    <3>2. QED
      BY <3>1, AvpsMonotone, Zenon DEF AllAvps
  <2>2. QED
    BY <2>1, SeqMonotonic, Zenon
<1> DEFINE i == place[1]
           u == f[1]
           v == g[1]
<1>14. /\ i \in 1..Len(s) /\ u \in AllAvps /\ v \in AllAvps /\ Alike(u, v)
       /\ x = Replaced(s, i, u) /\ y = Replaced(s, i, v)
  BY <1>11, <1>12, <1>13 DEF Begins
<1> HIDE DEF i, u, v
<1>15. ListsAlike(Replaced(s, i, u), Replaced(s, i, v))
  BY <1>13, <1>14, AlikeInList, Zenon
<1>16. ListsAlike(x, y)
  BY <1>14, <1>15, Zenon
<1>17. QED
  BY <1>16, Zenon DEF x, y

-----------------------------------------------------------------------------
(***************************************************************************)
(* Integers that are cut off.                                              *)
(***************************************************************************)
\* Octets are determined by the number they are.
LEMMA UnsignedInjective ==
  ASSUME NEW s \in Seq(Octets), NEW t \in Seq(Octets), Len(s) = Len(t), Unsigned(s) = Unsigned(t)
  PROVE  s = t
<1> DEFINE w == Len(s)
<1>1. /\ w \in Nat /\ Len(t) = w /\ B \in Nat \ {0} /\ s \in Seq(Int) /\ t \in Seq(Int)
      /\ \A i \in 1..w : s[i] \in 0..(B - 1) /\ t[i] \in 0..(B - 1)
  BY OctetSeqs, BaseFacts DEF Octets
<1>2. PICK f : PrefixValues(s, f) /\ Unsigned(s) = f[Len(s)]
  BY <1>1, UnsignedFacts
<1>3. PICK g : PrefixValues(t, g) /\ Unsigned(t) = g[Len(t)]
  BY <1>1, UnsignedFacts
<1>4. /\ f \in [0..w -> Int] /\ \A i \in 1..w : f[i] = (f[i - 1] * B) + s[i]
      /\ g \in [0..w -> Int] /\ \A i \in 1..w : g[i] = (g[i - 1] * B) + t[i]
      /\ f[w] = g[w]
  BY <1>1, <1>2, <1>3 DEF PrefixValues
<1> HIDE DEF w
<1>5. ASSUME NEW i \in 1..w, f[i] = g[i] PROVE f[i - 1] = g[i - 1] /\ s[i] = t[i]
  <2> DEFINE p == f[i - 1]
             q == g[i - 1]
             x == s[i]
             y == t[i]
             n == f[i]
  <2>1. i - 1 \in 0..w /\ i \in 0..w
    BY <1>1
  <2>2. p \in Int /\ q \in Int /\ n \in Int
    BY <1>4, <2>1
  <2>3. n = (p * B) + x /\ n = (q * B) + y /\ x \in 0..(B - 1) /\ y \in 0..(B - 1)
    BY <1>1, <1>4, <1>5
  <2> HIDE DEF p, q, x, y, n
  <2>4. B * p \in Int /\ B * q \in Int /\ (B * p) + x = (B * q) + y
    BY <1>1, <2>2, <2>3
  <2>5. ~ (p < q)
    <3>1. SUFFICES ASSUME p < q PROVE FALSE
      OBVIOUS
    <3>2. B * p + B <= B * q
      BY <1>1, <2>2, <3>1, MultipleGap
    <3>3. QED
      BY <1>1, <2>3, <2>4, <3>2
  <2>6. ~ (q < p)
    <3>1. SUFFICES ASSUME q < p PROVE FALSE
      OBVIOUS
    <3>2. B * q + B <= B * p
      BY <1>1, <2>2, <3>1, MultipleGap
    <3>3. QED
      BY <1>1, <2>3, <2>4, <3>2
  <2>7. p = q
    BY <2>2, <2>5, <2>6
  <2>8. x = y
    BY <2>3, <2>4, <2>7
  <2>9. QED
    BY <2>7, <2>8 DEF p, q, x, y
<1> DEFINE S == {k \in Nat : k <= w => f[w - k] = g[w - k]}
<1>6. 0 \in S
  BY <1>1, <1>4
<1>7. \A k \in Nat : k \in S => k + 1 \in S
  <2> SUFFICES ASSUME NEW k \in Nat, k \in S, k + 1 <= w PROVE f[w - (k + 1)] = g[w - (k + 1)]
    OBVIOUS
  <2>1. k <= w /\ w - k \in 1..w /\ w - (k + 1) = (w - k) - 1
    BY <1>1
  <2>2. QED
    BY <1>5, <2>1
<1> HIDE DEF S
<1>8. Nat \subseteq S
  BY <1>6, <1>7, SetInduction, Zenon
<1>9. ASSUME NEW i \in 1..w PROVE s[i] = t[i]
  <2>1. w - i \in Nat /\ w - i <= w /\ w - (w - i) = i
    BY <1>1
  <2>2. w - i \in S
    BY <1>8, <2>1, Zenon
  <2>3. f[i] = g[i]
    BY <2>1, <2>2, Zenon DEF S
  <2>4. QED
    BY <1>5, <2>3
<1>10. QED
  BY <1>1, <1>9 DEF w

\* Integers with the same remainder have the same octets.
LEMMA SameRemainder ==
  ASSUME NEW w \in Nat, NEW n \in Int, NEW m \in Int, n % Pow[w] = m % Pow[w]
  PROVE  BigEndian(n, w) = BigEndian(m, w)
<1> DEFINE s == BigEndian(n, w)
           t == BigEndian(m, w)
<1>1. s \in Seq(Octets) /\ t \in Seq(Octets) /\ Len(s) = Len(t)
  BY BigEndianFacts
<1>2. Unsigned(s) = n % Pow[w] /\ Unsigned(t) = m % Pow[w]
  BY UnsignedBigEndian
<1> HIDE DEF s, t
<1>3. QED
  BY <1>1, <1>2, UnsignedInjective DEF s, t

\* The integers with a sign that v octets hold.
SignedRange(v) == -(Pow[v] \div 2)..((Pow[v] \div 2) - 1)

\* What half of them is.
LEMMA HalfFacts ==
  ASSUME NEW v \in Nat
  PROVE  /\ Pow[v + 1] \in Nat \ {0} /\ Pow[v + 1] \div 2 \in Nat
         /\ Pow[v + 1] = 2 * (Pow[v + 1] \div 2)
<1> DEFINE P == Pow[v]
           T == TopBit
<1>1. P \in Nat \ {0} /\ T \in Nat /\ B = 2 * T /\ Pow[v + 1] = B * P /\ Pow[v + 1] \in Nat \ {0}
  BY PowFacts, BaseFacts
<1> HIDE DEF P, T
<1>2. Pow[v + 1] = 2 * (T * P) /\ T * P \in Nat
  BY <1>1
<1>3. QED
  BY <1>1, <1>2

\* An integer cut off to octets, with a sign: one that they hold, with the same remainder.
LEMMA SignedIn ==
  ASSUME NEW v \in Nat, NEW n \in Int
  PROVE  \E m \in SignedRange(v + 1) :
           Signed(BigEndian(n, v + 1)) = m /\ m % Pow[v + 1] = n % Pow[v + 1]
<1> DEFINE P == Pow[v + 1]
           h == P \div 2
           u == n % P
           m == IF u < h THEN u ELSE u - P
<1>1. P \in Nat \ {0} /\ h \in Nat /\ P = 2 * h /\ SignedRange(v + 1) = (-h)..(h - 1)
  BY HalfFacts DEF SignedRange
<1> HIDE DEF P, h
<1>2. u \in 0..(P - 1)
  BY <1>1, Division
<1> HIDE DEF u
<1>3. m \in Int /\ m \in (-h)..(h - 1)
  BY <1>1, <1>2
<1>4. m % P = u
  <2>1. CASE u < h
    <3>1. u % P = u
      BY <1>1, <1>2, RemainderInRange
    <3>2. QED
      BY <2>1, <3>1
  <2>2. CASE ~ (u < h)
    <3> DEFINE k == u - P
    <3>1. k \in Int /\ k \in (-P)..(-1) /\ k + P = u /\ m = k
      BY <1>1, <1>2, <2>2
    <3> HIDE DEF k
    <3>2. k % P = k + P
      BY <1>1, <3>1, RemainderInRange
    <3>3. QED
      BY <3>1, <3>2
  <2>3. QED
    BY <2>1, <2>2
<1> HIDE DEF m
<1>5. BigEndian(n, v + 1) = BigEndian(m, v + 1)
  <2>1. v + 1 \in Nat
    OBVIOUS
  <2>2. n % Pow[v + 1] = m % Pow[v + 1]
    BY <1>4 DEF u, P
  <2>3. QED
    BY <1>3, <2>1, <2>2, SameRemainder
<1>6. Signed(BigEndian(m, v + 1)) = m
  <2>1. m \in -(Pow[v + 1] \div 2)..((Pow[v + 1] \div 2) - 1)
    BY <1>1, <1>3 DEF SignedRange
  <2>2. QED
    BY <2>1, SignedRoundTrip
<1>7. m \in SignedRange(v + 1) /\ m % P = n % P
  BY <1>1, <1>3, <1>4 DEF u
<1>8. QED
  BY <1>5, <1>6, <1>7 DEF P

\* Eight octets hold what four do, with or without a sign.
LEMMA EightOctets ==
  /\ SignedRange(4) \subseteq SignedRange(8) /\ 0..(Pow[4] - 1) \subseteq SignedRange(8)
  /\ SignedRange(8) \subseteq Int
<1>1. \A v \in {4, 5, 6, 7} : Pow[v] \in Nat \ {0} /\ Pow[v + 1] \in Nat \ {0} /\ Pow[v + 1] >= 4 * Pow[v]
  <2> SUFFICES ASSUME NEW v \in {4, 5, 6, 7}
               PROVE  Pow[v] \in Nat \ {0} /\ Pow[v + 1] \in Nat \ {0} /\ Pow[v + 1] >= 4 * Pow[v]
    OBVIOUS
  <2> DEFINE P == Pow[v]
  <2>1. P \in Nat \ {0} /\ Pow[v + 1] = B * P /\ B \in Nat /\ B >= 4 /\ Pow[v + 1] \in Nat \ {0}
    BY PowFacts, BaseFacts
  <2> HIDE DEF P
  <2>2. B * P >= 4 * P
    BY <2>1
  <2>3. QED
    BY <2>1, <2>2 DEF P
<1> DEFINE p == Pow[4]
           q == Pow[8]
<1>2. p \in Nat \ {0} /\ q \in Nat \ {0} /\ q >= 4 * p
  BY <1>1
<1>3. SignedRange(4) = -(p \div 2)..((p \div 2) - 1) /\ SignedRange(8) = -(q \div 2)..((q \div 2) - 1)
  BY DEF SignedRange
<1> HIDE DEF p, q
<1>4. QED
  BY <1>2, <1>3 DEF p

\* The integer formats that an application sets.
SetFormats == {"Integer32", "Enumerated", "Unsigned32", "Integer64", "Unsigned64"}

\* What SetIntValue makes of an integer: a value of the format, which is read back as
\* the integer exactly if the format holds it.
LEMMA IntegerSet ==
  ASSUME NEW f \in SetFormats, NEW n \in Integers_of("Integer64")
  PROVE  /\ Wrapped(n, f) \in Integers_of(f)
         /\ Wrapped(Wrapped(n, f), "Integer64") = n <=> Holds(f, n)
<1>1. /\ Integers_of("Integer64") = SignedRange(8) /\ Integers_of("Integer32") = SignedRange(4)
      /\ Integers_of("Enumerated") = SignedRange(4)
      /\ Integers_of("Unsigned32") = 0..(Pow[4] - 1) /\ Integers_of("Unsigned64") = 0..(Pow[8] - 1)
  BY DEF Integers_of, SignedFormats, Widths, SignedRange
<1>2. \A m : /\ Wrapped(m, "Integer64") = Signed(BigEndian(m, 8))
             /\ Wrapped(m, "Integer32") = Signed(BigEndian(m, 4))
             /\ Wrapped(m, "Enumerated") = Signed(BigEndian(m, 4))
             /\ Wrapped(m, "Unsigned32") = Unsigned(BigEndian(m, 4))
             /\ Wrapped(m, "Unsigned64") = Unsigned(BigEndian(m, 8))
  BY DEF Wrapped, SignedFormats, Widths
<1>3. /\ \A m : Holds("Integer32", m) <=> m \in SignedRange(4)
      /\ \A m : Holds("Enumerated", m) <=> m \in SignedRange(4)
      /\ \A m : Holds("Unsigned32", m) <=> m \in 0..(Pow[4] - 1)
      /\ \A m : Holds("Integer64", m) /\ Holds("Unsigned64", m)
  BY DEF Holds, SignedRange
<1>4. n \in SignedRange(8) /\ n \in Int
  BY <1>1, EightOctets, Zenon
<1>5. \A m \in SignedRange(8) : Signed(BigEndian(m, 8)) = m
  <2> SUFFICES ASSUME NEW m \in SignedRange(8) PROVE Signed(BigEndian(m, 8)) = m
    OBVIOUS
  <2>1. 7 \in Nat /\ 8 = 7 + 1
    OBVIOUS
  <2>2. m \in -(Pow[7 + 1] \div 2)..((Pow[7 + 1] \div 2) - 1)
    BY <2>1 DEF SignedRange
  <2>3. QED
    BY <2>1, <2>2, SignedRoundTrip
<1>6. \A m \in SignedRange(4) : Signed(BigEndian(m, 4)) = m
  <2> SUFFICES ASSUME NEW m \in SignedRange(4) PROVE Signed(BigEndian(m, 4)) = m
    OBVIOUS
  <2>1. 3 \in Nat /\ 4 = 3 + 1
    OBVIOUS
  <2>2. m \in -(Pow[3 + 1] \div 2)..((Pow[3 + 1] \div 2) - 1)
    BY <2>1 DEF SignedRange
  <2>3. QED
    BY <2>1, <2>2, SignedRoundTrip
<1>7. Signed(BigEndian(n, 4)) \in SignedRange(4)
  <2>1. 3 \in Nat /\ 4 = 3 + 1
    OBVIOUS
  <2>2. \E m \in SignedRange(3 + 1) : Signed(BigEndian(n, 3 + 1)) = m
    BY <1>4, <2>1, SignedIn
  <2>3. QED
    BY <2>1, <2>2
<1>8. /\ Pow[4] \in Nat \ {0} /\ Pow[8] \in Nat \ {0}
      /\ Unsigned(BigEndian(n, 4)) = n % Pow[4] /\ Unsigned(BigEndian(n, 8)) = n % Pow[8]
  BY <1>4, PowFacts, UnsignedBigEndian
<1>9. /\ n % Pow[4] \in 0..(Pow[4] - 1) /\ n % Pow[8] \in 0..(Pow[8] - 1)
      /\ n \in 0..(Pow[4] - 1) => n % Pow[4] = n
  BY <1>4, <1>8, Division, RemainderInRange
<1>10. CASE f \in {"Integer32", "Enumerated"}
  <2> DEFINE m == Signed(BigEndian(n, 4))
  <2>1. Wrapped(n, f) = m /\ Integers_of(f) = SignedRange(4) /\ (Holds(f, n) <=> n \in SignedRange(4))
    BY <1>1, <1>2, <1>3, <1>10
  <2>2. m \in SignedRange(4) /\ m \in SignedRange(8) /\ (n \in SignedRange(4) => m = n)
    BY <1>6, <1>7, EightOctets
  <2> HIDE DEF m
  <2>3. Wrapped(m, "Integer64") = m
    BY <1>2, <1>5, <2>2
  <2>4. QED
    BY <2>1, <2>2, <2>3
<1>11. CASE f = "Unsigned32"
  <2> DEFINE m == n % Pow[4]
  <2>1. Wrapped(n, f) = m /\ Integers_of(f) = 0..(Pow[4] - 1) /\ (Holds(f, n) <=> n \in 0..(Pow[4] - 1))
    BY <1>1, <1>2, <1>3, <1>8, <1>11
  <2>2. m \in 0..(Pow[4] - 1) /\ m \in SignedRange(8) /\ (n \in 0..(Pow[4] - 1) => m = n)
    BY <1>9, EightOctets
  <2> HIDE DEF m
  <2>3. Wrapped(m, "Integer64") = m
    BY <1>2, <1>5, <2>2
  <2>4. QED
    BY <2>1, <2>2, <2>3
<1>12. CASE f = "Integer64"
  BY <1>1, <1>2, <1>3, <1>4, <1>5, <1>12
<1>13. CASE f = "Unsigned64"
  <2> DEFINE m == n % Pow[8]
  <2>1. Wrapped(n, f) = m /\ Integers_of(f) = 0..(Pow[8] - 1) /\ Holds(f, n)
    BY <1>1, <1>2, <1>3, <1>8, <1>13
  <2>2. m \in 0..(Pow[8] - 1) /\ m \in Int /\ m % Pow[8] = m
    BY <1>8, <1>9, RemainderInRange
  <2>3. m % Pow[8] = n % Pow[8]
    BY <2>2
  <2> HIDE DEF m
  <2>4. BigEndian(m, 8) = BigEndian(n, 8)
    BY <1>4, <2>2, <2>3, SameRemainder
  <2>5. Wrapped(m, "Integer64") = n
    BY <1>2, <1>4, <1>5, <2>4
  <2>6. QED
    BY <2>1, <2>2, <2>5
<1>14. QED
  BY <1>10, <1>11, <1>12, <1>13 DEF SetFormats

-----------------------------------------------------------------------------
(***************************************************************************)
(* A received AVP that is set.                                             *)
(***************************************************************************)
\* Adding before the remainder is taken, or after.
LEMMA RemainderPlus ==
  ASSUME NEW M \in Nat \ {0}, NEW n \in Int, NEW e \in Int
  PROVE  ((n % M) + e) % M = (n + e) % M
<1> DEFINE q == n \div M
           u == n % M
           p == (u + e) \div M
           r == (u + e) % M
<1>1. q \in Int /\ u \in 0..(M - 1) /\ n = M * q + u
  BY Division
<1>2. u + e \in Int
  BY <1>1
<1>3. p \in Int /\ r \in 0..(M - 1) /\ u + e = M * p + r
  BY <1>2, Division
<1> HIDE DEF q, u, p, r
<1>4. q + p \in Int /\ n + e \in Int /\ n + e = M * (q + p) + r
  BY <1>1, <1>3
<1>5. (n + e) % M = r
  <2> DEFINE k == q + p
             m == n + e
  <2>1. k \in Int /\ m \in Int /\ m = M * k + r
    BY <1>4
  <2> HIDE DEF k, m
  <2>2. m % M = r
    BY <1>3, <2>1, DivisionUnique
  <2>3. QED
    BY <2>2 DEF m
<1>6. QED
  BY <1>5 DEF r, u

\* b is the leaf a with other data.
HasData(b, a, d) ==
  /\ b \in Shaped({<<>>}) /\ b.avps = <<>> /\ SameHeader(a, b) /\ b.format = a.format /\ b.data = d

\* An AVP with other data.
LEMMA WithData ==
  ASSUME NEW a \in Shaped({<<>>}), NEW d \in Seq(Int)
  PROVE  HasData([a EXCEPT !.data = d], a, d)
  BY DEF Shaped, HasData, SameHeader

\* A received AVP that is not a group is received without groups below it.
LEMMA ReceivedLeaf ==
  ASSUME NEW k \in Nat, NEW a \in Received[k], a.format # "Grouped"
  PROVE  a \in Received[0] /\ a \in Shaped({<<>>}) /\ a.data \in Seq(Int) /\ a.format \in Formats
<1>1. a \in Received[0]
  <2>1. CASE k = 0
    BY <2>1
  <2>2. CASE k # 0
    <3> DEFINE j == k - 1
    <3>1. j \in Nat /\ j + 1 = k
      BY <2>2
    <3> HIDE DEF j
    <3>2. a \in Shaped(Seq(Received[j])) /\ Sound(a) /\ a.avps = <<>>
      BY <3>1, ReceivedFacts, Zenon DEF Around
    <3>3. a \in Shaped({<<>>})
      BY <3>2 DEF Shaped
    <3>4. QED
      BY <3>2, <3>3, ReceivedFacts, Zenon
  <2>3. QED
    BY <2>1, <2>2
<1>2. a \in Shaped({<<>>})
  BY <1>1, ReceivedFacts, Zenon
<1>3. QED
  BY <1>1, <1>2, ShapedFacts, Zenon

\* With other data it is received as well, if they are a value of its format.
LEMMA ReceivedData ==
  ASSUME NEW a \in Received[0], NEW d, IsValue(a.format, d), a.format = "Time" => d[1] \in 0..(Pow[4] - 1),
         NEW b, HasData(b, a, d)
  PROVE  b \in Received[0]
<1>1. Sound(a)
  BY ReceivedFacts, Zenon
<1>2. /\ b \in Shaped({<<>>}) /\ b.format = a.format /\ b.data = d
      /\ b.avp_code = a.avp_code /\ b.vendor_id = a.vendor_id /\ b.vendor_flag = a.vendor_flag
      /\ b.mandatory_flag = a.mandatory_flag
  BY Zenon DEF HasData, SameHeader
<1>3. Sound(b)
  BY <1>1, <1>2, Zenon DEF Sound, HasHeader, Known
<1>4. QED
  BY <1>2, <1>3, ReceivedFacts, Zenon

\* The formats of AVPs with integers.
HoldsInteger(f) == f \in DOMAIN Widths \union {"UTF8String", "Time"}

\* On the wire b is like c, from which n is read if the format of c holds it.
SetAs(b, c, n) ==
  /\ b \in AVPs[0] /\ c \in Received[0] /\ Alike(b, c)
  /\ GetIntValue(c) = n <=> Holds(c.format, n)

\* An integer of Go.
LEMMA SetInteger ==
  ASSUME NEW a \in Received[0], a.format \in SetFormats, NEW n \in IntValues
  PROVE  \E c : SetAs(SetIntValue(a, n), c, n) /\ c.format = a.format
<1> DEFINE f == a.format
           int == Wrapped(n, f)
           b == SetIntValue(a, n)
<1>1. f \in DOMAIN Widths /\ f \notin StringFormats /\ f # "UTF8String" /\ f # "Time" /\ f # "Address"
      /\ f # "Grouped"
  BY FormatFacts DEF SetFormats, IntegerFormats
<1>2. n \in Integers_of("Integer64")
  BY RelayAssumption
<1>3. int \in Integers_of(f) /\ (Wrapped(int, "Integer64") = n <=> Holds(f, n))
  BY <1>2, IntegerSet, Zenon
<1>4. int \in Int
  <2>1. Integers_of(f) \subseteq Int
    BY DEF Integers_of
  <2>2. QED
    BY <1>3, <2>1
<1>5. b = [a EXCEPT !.data = <<int>>]
  BY <1>1, Zenon DEF SetIntValue, SetTo
<1> HIDE DEF int
<1>6. <<int>> \in Seq(Int) /\ Len(<<int>>) = 1 /\ <<int>>[1] = int
  BY <1>4
<1>7. a \in Shaped({<<>>})
  BY ReceivedFacts, Zenon
<1>8. HasData(b, a, <<int>>)
  BY <1>5, <1>6, <1>7, WithData, Zenon
<1> HIDE DEF b
<1>9. IsValue(f, <<int>>)
  BY <1>1, <1>3, <1>6, Zenon DEF IsValue
<1>10. b \in Received[0]
  BY <1>1, <1>8, <1>9, ReceivedData, Zenon
<1>11. b.format = f /\ b.data = <<int>> /\ b \in Shaped({<<>>})
  BY <1>8, Zenon DEF HasData
<1>12. GetIntValue(b) = Wrapped(int, "Integer64")
  <2>1. b.data[1] = int /\ b.format \in DOMAIN Widths
    BY <1>1, <1>6, <1>11
  <2>2. b.format # "UTF8String" /\ b.format # "Time"
    BY <1>1, <1>11
  <2>3. QED
    BY <2>1, <2>2, Zenon DEF GetIntValue
<1>13. b \in AVPs[0]
  BY <1>11, AvpsFacts, Zenon
<1>14. SetAs(b, b, n)
  BY <1>3, <1>10, <1>11, <1>12, <1>13, Zenon DEF SetAs, Alike
<1>15. QED
  BY <1>11, <1>14, Zenon DEF b

\* A text.
LEMMA SetText ==
  ASSUME NEW a \in Received[0], a.format = "UTF8String", NEW n \in IntValues
  PROVE  \E c : SetAs(SetIntValue(a, n), c, n) /\ c.format = a.format
<1> DEFINE d == Sprint[n]
           b == SetIntValue(a, n)
<1>1. a.format \notin DOMAIN Widths /\ a.format \in StringFormats /\ a.format # "Time"
      /\ a.format # "Address" /\ a.format # "Grouped"
  BY FormatFacts DEF StringFormats, IntegerFormats
<1>2. d \in Seq(Octets) /\ d \in Seq(Int) /\ n \in DOMAIN Sprint
  BY RelayAssumption, OctetSeqs
<1>3. \A m \in DOMAIN Sprint : Sprint[m] = d => m = n
  BY <1>2, RelayAssumption DEF IsInjective
<1>4. b = [a EXCEPT !.data = d]
  BY <1>1, Zenon DEF SetIntValue, SetTo
<1>5. a \in Shaped({<<>>})
  BY ReceivedFacts, Zenon
<1>6. HasData(b, a, d)
  BY <1>2, <1>4, <1>5, WithData, Zenon
<1> HIDE DEF b
<1>7. IsValue(a.format, d)
  BY <1>1, <1>2, Zenon DEF IsValue
<1>8. b \in Received[0]
  BY <1>1, <1>6, <1>7, ReceivedData, Zenon
<1>9. b.format = a.format /\ b.data = d /\ b \in Shaped({<<>>})
  BY <1>6, Zenon DEF HasData
<1>10. GetIntValue(b) = n
  <2>1. GetIntValue(b) = IF \E m \in DOMAIN Sprint : Sprint[m] = d
                         THEN CHOOSE m \in DOMAIN Sprint : Sprint[m] = d ELSE -1
    BY <1>1, <1>9, Zenon DEF GetIntValue
  <2>2. (CHOOSE m \in DOMAIN Sprint : Sprint[m] = d) = n
    BY <1>2, <1>3, Zenon
  <2>3. QED
    BY <1>2, <2>1, <2>2, Zenon
<1>11. Holds("UTF8String", n)
  BY DEF Holds
<1>12. b \in AVPs[0]
  BY <1>9, AvpsFacts, Zenon
<1>13. SetAs(b, b, n)
  BY <1>8, <1>9, <1>10, <1>11, <1>12, Zenon DEF SetAs, Alike
<1>14. QED
  BY <1>9, <1>13, Zenon DEF b

\* A time, which is sent within the era.
LEMMA SetTime ==
  ASSUME NEW a \in Received[0], a.format = "Time", NEW n \in IntValues
  PROVE  \E c : SetAs(SetIntValue(a, n), c, n) /\ c.format = a.format
<1> DEFINE u == n % Pow[4]
           b == SetIntValue(a, n)
           c == [a EXCEPT !.data = <<u>>]
<1>1. a.format \notin DOMAIN Widths /\ a.format \notin StringFormats
      /\ a.format # "UTF8String" /\ a.format # "Address" /\ a.format # "Grouped"
  BY FormatFacts DEF StringFormats, IntegerFormats
<1>2. n \in Int /\ Pow[4] \in Nat \ {0} /\ EpochShift \in Int
  <2>1. n \in Int
    <3>1. Integers_of("Integer64") \subseteq Int
      BY DEF Integers_of
    <3>2. QED
      BY <3>1, RelayAssumption
  <2>2. QED
    BY <2>1, PowFacts, CodecAssumption
<1>3. u \in 0..(Pow[4] - 1) /\ u \in Int /\ (n \in 0..(Pow[4] - 1) => u = n)
  <2>1. u \in 0..(Pow[4] - 1)
    BY <1>2, Division, Zenon
  <2>2. n \in 0..(Pow[4] - 1) => u = n
    BY <1>2, RemainderInRange, Zenon
  <2>3. QED
    BY <1>2, <2>1, <2>2
<1>4. (u + EpochShift) % Pow[4] = (n + EpochShift) % Pow[4]
  BY <1>2, RemainderPlus
<1>5. b = [a EXCEPT !.data = <<n>>]
  BY <1>1, Zenon DEF SetIntValue, SetTo
<1> HIDE DEF u
<1>6. /\ <<n>> \in Seq(Int) /\ Len(<<n>>) = 1 /\ <<n>>[1] = n
      /\ <<u>> \in Seq(Int) /\ Len(<<u>>) = 1 /\ <<u>>[1] = u
  BY <1>2, <1>3
<1>7. a \in Shaped({<<>>})
  BY ReceivedFacts, Zenon
<1>8. HasData(b, a, <<n>>) /\ HasData(c, a, <<u>>)
  BY <1>5, <1>6, <1>7, WithData, Zenon
<1> HIDE DEF b, c
<1>9. IsValue(a.format, <<u>>)
  BY <1>1, <1>6, Zenon DEF IsValue
<1>10. c \in Received[0]
  BY <1>3, <1>6, <1>8, <1>9, ReceivedData, Zenon
<1>11. /\ c.format = "Time" /\ c.data = <<u>> /\ c.avps = <<>>
       /\ b.format = "Time" /\ b.data = <<n>> /\ b.avps = <<>> /\ b \in Shaped({<<>>})
       /\ SameHeader(b, c)
  BY <1>8, Zenon DEF HasData, SameHeader
<1>12. Data(c, <<>>) = Data(b, <<>>)
  <2>1. Data(c, <<>>) = EncodeTime(u)
    BY <1>6, <1>11, DataIs, Zenon
  <2>2. Data(b, <<>>) = EncodeTime(n)
    BY <1>6, <1>11, DataIs, Zenon
  <2>3. EncodeTime(u) = EncodeTime(n)
    BY <1>4, Zenon DEF EncodeTime
  <2>4. QED
    BY <2>1, <2>2, <2>3, Zenon
<1>13. Alike(b, c)
  <2>1. OctetsOf(b) = EncodeAvp(b, <<>>) /\ OctetsOf(c) = EncodeAvp(c, <<>>)
    BY <1>11, OctetsOfLeaf, Zenon
  <2>2. \A i1, i2 : Data(c, i2) = Data(b, i1) => EncodeAvp(c, i2) = EncodeAvp(b, i1)
    BY <1>11, SameOctets
  <2>3. EncodeAvp(c, <<>>) = EncodeAvp(b, <<>>)
    BY <1>12, <2>2
  <2>4. QED
    BY <2>1, <2>3, Zenon DEF Alike
<1>14. GetIntValue(c) = u
  <2>1. GetIntValue(c) = c.data[1]
    <3>1. c.format \notin DOMAIN Widths /\ c.format # "UTF8String"
      BY <1>1, <1>11
    <3>2. QED
      BY <1>11, <3>1, Zenon DEF GetIntValue
  <2>2. QED
    BY <1>6, <1>11, <2>1
<1>15. Holds("Time", n) <=> n \in 0..(Pow[4] - 1)
  BY DEF Holds
<1>16. GetIntValue(c) = n <=> Holds(c.format, n)
  BY <1>3, <1>11, <1>14, <1>15
<1>17. b \in AVPs[0]
  BY <1>11, AvpsFacts, Zenon
<1>18. SetAs(b, c, n)
  BY <1>10, <1>13, <1>16, <1>17, Zenon DEF SetAs
<1>19. QED
  BY <1>11, <1>18, Zenon DEF b

\* Whatever is set.
LEMMA SetIs ==
  ASSUME NEW k \in Nat, NEW a \in Received[k], a.format \notin {"Float32", "Float64"},
         NEW n \in IntValues
  PROVE  /\ HoldsInteger(a.format) =>
              \E c : SetAs(SetIntValue(a, n), c, n) /\ c.format = a.format
         /\ ~ HoldsInteger(a.format) => SetIntValue(a, n) = a
<1>1. ASSUME HoldsInteger(a.format)
      PROVE  \E c : SetAs(SetIntValue(a, n), c, n) /\ c.format = a.format
  <2>1. a.format # "Grouped" /\ (a.format \in SetFormats \/ a.format \in {"UTF8String", "Time"})
    BY <1>1, FormatFacts DEF HoldsInteger, SetFormats, IntegerFormats
  <2>2. a \in Received[0]
    BY <2>1, ReceivedLeaf, Zenon
  <2>3. QED
    BY <2>1, <2>2, SetInteger, SetText, SetTime
<1>2. ASSUME ~ HoldsInteger(a.format) PROVE SetIntValue(a, n) = a
  BY <1>2, Zenon DEF HoldsInteger, SetIntValue, SetTo
<1>3. QED
  BY <1>1, <1>2

-----------------------------------------------------------------------------
(***************************************************************************)
(* A list that is changed, encoded and decoded.                            *)
(***************************************************************************)
\* What is read of a list is all of it.
LEMMA ReadsAll ==
  ASSUME NEW n \in Nat, NEW avps, NEW r, Reads(avps, r, n), EncodeAvps(avps) \in Seq(Octets)
  PROVE  Decode_AVPs[EncodeAvps(avps)] = r
<1> DEFINE payload == EncodeAvps(avps)
<1>1. /\ r \in Seq(Received[n])
      /\ \A rest \in Tails : Decode_AVPs[payload \o rest] = r \o Decode_AVPs[rest]
  BY Zenon DEF Reads
<1> HIDE DEF payload
<1>2. Decode_AVPs[payload \o <<>>] = r \o <<>>
  BY <1>1, DecodeEmpty, Zenon
<1>3. payload \o <<>> = payload
  BY ConcatEmptySeq, Zenon DEF payload
<1>4. r \o <<>> = r
  BY <1>1, ConcatEmptySeq, Zenon
<1>5. QED
  BY <1>2, <1>3, <1>4, Zenon DEF payload

\* Received AVPs there and back.
LEMMA SelfDecoded ==
  ASSUME NEW n \in Nat, n <= MaxDepth, NEW s \in Seq(Received[n])
  PROVE  /\ EncodeAvps(s) \in Seq(Octets)
         /\ Len(EncodeAvps(s)) < Pow[3] => Decode_AVPs[EncodeAvps(s)] = s
<1>1. EncodeAvps(s) \in Seq(Octets)
  <2>1. Encodable(s)
    BY ReceivedOctets, ReceivedList, Zenon
  <2>2. QED
    BY <2>1, EncodeList, Zenon
<1>2. Len(EncodeAvps(s)) < Pow[3] => Reads(s, s, n)
  BY SelfReads, Zenon
<1>3. QED
  BY <1>1, <1>2, ReadsAll, Zenon

\* u is what the next receiver has of t, if that is not too long.
Again(t, u) ==
  /\ EncodeAvps(t) = EncodeAvps(u) /\ EncodeAvps(u) \in Seq(Octets)
  /\ Len(EncodeAvps(u)) < Pow[3] => Decode_AVPs[EncodeAvps(u)] = u

\* u is r but for the AVP at the place, which holds n if its format does.
Differs(u, r, place, n) ==
  /\ IF HoldsInteger(At(u, place).format)
     THEN GetIntValue(At(u, place)) = n <=> Holds(At(u, place).format, n)
     ELSE At(u, place) = At(r, place)
  /\ With(u, place, At(r, place)) = r

\* Setting an AVP anywhere in a received list changes that, and nothing else.
LEMMA SetInList ==
  ASSUME NEW k \in Nat, k <= MaxDepth, NEW r \in Seq(Received[k]), NEW place, Leads(r, place),
         NEW n \in IntValues, At(r, place).format \notin {"Float32", "Float64"},
         NEW t, t = With(r, place, SetIntValue(At(r, place), n))
  PROVE  \E u : Again(t, u) /\ Differs(u, r, place, n)
<1> DEFINE x == At(r, place)
           L == Len(place)
           b == SetIntValue(x, n)
<1>1. Closed(Received) /\ L \in Nat /\ L \in 1..L
  BY ClosedSets DEF Leads
<1>2. \E j \in Nat : x \in Received[j]
  <2>1. k - (L - 1) \in Nat /\ Way(r, place)[L] \in Received[k - (L - 1)]
    BY <1>1, WayIn, Zenon
  <2>2. QED
    BY <2>1, Zenon DEF At
<1>3. With(r, place, x) = r
  BY <1>1, WithSame, Zenon
<1> HIDE DEF x
<1>4. CASE ~ HoldsInteger(x.format)
  <2>1. b = x
    BY <1>2, <1>4, SetIs, Zenon DEF x
  <2>2. t = r
    BY <1>3, <2>1 DEF x
  <2>3. Again(t, r)
    BY <2>2, SelfDecoded, Zenon DEF Again
  <2>4. Differs(r, r, place, n)
    BY <1>3, <1>4, Zenon DEF Differs, x
  <2>5. QED
    BY <2>3, <2>4, Zenon
<1>5. CASE HoldsInteger(x.format)
  <2>1. \E c : SetAs(b, c, n) /\ c.format = x.format
    BY <1>2, <1>5, SetIs, Zenon DEF x
  <2> HIDE DEF b
  <2>2. PICK c : SetAs(b, c, n) /\ c.format = x.format
    BY <2>1, Zenon
  <2>3. b \in AVPs[0] /\ c \in Received[0] /\ Alike(b, c) /\ (GetIntValue(c) = n <=> Holds(c.format, n))
    BY <2>2, Zenon DEF SetAs
  <2>4. c \in AVPs[0] /\ r \in Seq(AVPs[k])
    <3>1. 0 \in Nat
      OBVIOUS
    <3>2. Received[0] \subseteq AVPs[0] /\ Received[k] \subseteq AVPs[k]
      BY <3>1, ReceivedType, Zenon
    <3>3. QED
      BY <2>3, <3>2, SeqMonotonic, Zenon
  <2> DEFINE u == With(r, place, c)
  <2>5. t = With(r, place, b)
    BY Zenon DEF b, x
  <2>6. EncodeAvps(t) = EncodeAvps(u)
    <3>1. ListsAlike(With(r, place, b), With(r, place, c))
      BY <2>3, <2>4, AlikeAtPlace, Zenon
    <3>2. QED
      BY <2>5, <3>1, Zenon DEF ListsAlike
  <2>7. PICK f : Changed(f, r, place, c) /\ Ends(f, u)
    BY <1>1, WithFacts, Zenon
  <2>8. With(u, place, x) = r
    <3>1. With(u, place, x) = With(r, place, x)
      BY <1>1, <2>3, WithTwice
    <3>2. QED
      BY <1>3, <3>1, Zenon
  <2> HIDE DEF u
  <2>9. u \in Seq(Received[k])
    <3>1. Begins(f, r, place, u, Received[k])
      BY <1>1, <2>3, <2>7, WithIs, Zenon
    <3>2. QED
      BY <3>1, Zenon DEF Begins
  <2>10. At(u, place) = c
    <3>1. Goes(f, u, place)
      BY <1>1, <2>3, <2>7, AtWith, Zenon
    <3>2. L \in 0..L
      BY <1>1
    <3>3. Way(u, place)[L] = f[L] /\ f[L] = c
      BY <2>7, <3>1, <3>2, Zenon DEF Goes, Changed
    <3>4. QED
      BY <3>3, Zenon DEF At
  <2>11. Again(t, u)
    BY <2>6, <2>9, SelfDecoded, Zenon DEF Again
  <2>12. Differs(u, r, place, n)
    BY <1>5, <2>2, <2>3, <2>8, <2>10, Zenon DEF Differs, x
  <2>13. QED
    BY <2>11, <2>12, Zenon
<1>6. QED
  BY <1>4, <1>5, Zenon

-----------------------------------------------------------------------------
(***************************************************************************)
(* The application that changes an AVP.                                    *)
(***************************************************************************)
\* r with the AVP at the place set to n.
SetAt(r, place, n) == With(r, place, SetIntValue(At(r, place), n))

\* What has been changed was found and set in what had been received.
SetAsFound(keys, n) ==
  /\ Len(keys) \in Nat /\ n \in IntValues
  /\ FindAVP(got.avps, keys) # <<>>
  /\ At(got.avps, FindAVP(got.avps, keys)).format \notin {"Float32", "Float64"}
  /\ changed = [got EXCEPT !.avps = SetAt(@, FindAVP(got.avps, keys), n)]
  /\ change = [place |-> FindAVP(got.avps, keys), n |-> n]

\* The inductive invariant.
RelayInv ==
  /\ CodecInv
  /\ changed # <<>> => phase = "decoded" /\ \E keys, n : SetAsFound(keys, n)

\* The invariant at the start.
LEMMA RelayInvInit == RelayInit => RelayInv
  BY CodecInit DEF RelayInit, RelayInv

\* Setting an AVP leaves the codec alone.
LEMMA RelayStep ==
  [RelayNext]_relayVars => [Next]_vars
  BY DEF RelayNext, relayVars, Change

\* With an application that changes what it received the codec is as without: all
\* that is proved of Spec holds of RelaySpec.
THEOREM RelayKeepsCodec == RelaySpec => Spec
<1>1. RelayInit => Init
  BY DEF RelayInit
<1>2. QED
  BY <1>1, RelayStep, PTL DEF RelaySpec, Spec

\* Every step preserves the invariant.
LEMMA RelayInvNext ==
  RelayInv /\ [RelayNext]_relayVars => RelayInv'
<1> SUFFICES ASSUME RelayInv, [RelayNext]_relayVars PROVE RelayInv'
  OBVIOUS
<1>1. CodecInv /\ (changed # <<>> => phase = "decoded" /\ \E keys, n : SetAsFound(keys, n))
  BY Zenon DEF RelayInv
<1>2. CodecInv'
  BY <1>1, RelayStep, CodecNext, Zenon
<1>3. ASSUME UNCHANGED <<phase, got, changed, change>> PROVE RelayInv'
  <2>1. phase' = phase /\ got' = got /\ changed' = changed /\ change' = change
    BY <1>3
  <2>2. \A keys, n : SetAsFound(keys, n) => SetAsFound(keys, n)'
    BY <2>1 DEF SetAsFound
  <2>3. changed' # <<>> => phase' = "decoded" /\ \E keys, n : SetAsFound(keys, n)'
    BY <1>1, <2>1, <2>2, Zenon
  <2>4. QED
    BY <1>2, <2>3, Zenon DEF RelayInv
<1>4. CASE Next /\ UNCHANGED <<changed, change>>
  <2>1. changed' = changed
    BY <1>4
  <2>2. CASE changed = <<>>
    <3>1. changed' = <<>>
      BY <2>1, <2>2
    <3>2. QED
      BY <1>2, <3>1, Zenon DEF RelayInv
  <2>3. CASE changed # <<>>
    <3>1. phase = "decoded"
      BY <1>1, <2>3, Zenon
    <3>2. UNCHANGED vars
      <4>1. phase # "build" /\ phase # "encoded"
        BY <3>1
      <4>2. QED
        BY <1>4, <4>1, Zenon DEF Next, AddAVPs_Tail, AddAVPs_Head, AVP_Group, Building, Send,
                                Receive, Done
    <3>3. UNCHANGED <<phase, got, changed, change>>
      BY <1>4, <3>2 DEF vars
    <3>4. QED
      BY <1>3, <3>3, Zenon
  <2>4. QED
    BY <2>2, <2>3
<1>5. ASSUME NEW k \in 1..(MaxDepth + 1), NEW n \in IntValues,
             NEW keys \in [1..k -> {Key(a) : a \in made}], Change(keys, n)
      PROVE  RelayInv'
  <2>1. Len(keys) \in Nat
    <3>1. k \in Nat
      BY CodecAssumption
    <3>2. QED
      BY <3>1
  <2> DEFINE place == FindAVP(got.avps, keys)
  <2>2. /\ phase = "decoded" /\ place # <<>>
        /\ At(got.avps, place).format \notin {"Float32", "Float64"}
        /\ changed' = [got EXCEPT !.avps = SetAt(@, place, n)]
        /\ change' = [place |-> place, n |-> n]
        /\ UNCHANGED vars
    BY <1>5, Zenon DEF Change, SetAt
  <2>3. phase' = phase /\ got' = got
    BY <2>2 DEF vars
  <2>4. SetAsFound(keys, n)'
    BY <2>1, <2>2, <2>3 DEF SetAsFound
  <2>5. QED
    BY <1>2, <2>2, <2>3, <2>4, Zenon DEF RelayInv
<1>6. CASE UNCHANGED relayVars
  <2>1. UNCHANGED <<phase, got, changed, change>>
    BY <1>6 DEF relayVars, vars
  <2>2. QED
    BY <1>3, <2>1, Zenon
<1>7. QED
  BY <1>4, <1>5, <1>6, Zenon DEF RelayNext

\* The invariant holds in every state.
LEMMA RelayInvariant == RelaySpec => []RelayInv
  BY RelayInvInit, RelayInvNext, PTL DEF RelaySpec

\* A message in which an application sets an AVP, found by its keys in groups at
\* any depth, goes out with that one changed: the next receiver reads the integer
\* exactly if the format holds it, and all else as it was, for any messages that fit.
THEOREM ChangesOneAvp == RelaySpec => []ChangedOnly
<1>1. ASSUME RelayInv PROVE ChangedOnly
  <2> SUFFICES ASSUME changed # <<>>, WireFits, KeptAsOctets, Len(Encode(changed)) < Pow[3]
               PROVE  LET again == Decode(Encode(changed))
                          a     == At(again.avps, change.place)
                      IN  /\ IF a.format \in DOMAIN Widths \union {"UTF8String", "Time"}
                             THEN GetIntValue(a) = change.n <=> Holds(a.format, change.n)
                             ELSE a = At(got.avps, change.place)
                          /\ [again EXCEPT !.avps = With(@, change.place, At(got.avps, change.place))]
                               = got
    BY Zenon DEF ChangedOnly
  <2>1. CodecInv /\ phase = "decoded" /\ \E keys, n : SetAsFound(keys, n)
    BY <1>1, Zenon DEF RelayInv
  <2>2. PICK keys, n : SetAsFound(keys, n)
    BY <2>1, Zenon
  <2>3. PICK r : got = [header |-> mess.header, avps |-> r] /\ r \in Seq(Received[depth])
    BY <2>1, WhatIsRead, Zenon
  <2> DEFINE place == FindAVP(r, keys)
             t == SetAt(r, place, n)
             h == mess.header
  <2>4. got.avps = r
    BY <2>3
  <2>5. /\ Len(keys) \in Nat /\ n \in IntValues /\ place # <<>>
        /\ At(r, place).format \notin {"Float32", "Float64"}
        /\ change = [place |-> place, n |-> n]
    BY <2>2, <2>4, Zenon DEF SetAsFound
  <2>6. changed = [header |-> h, avps |-> t]
    <3>1. changed = [got EXCEPT !.avps = SetAt(@, place, n)]
      BY <2>2, <2>4, Zenon DEF SetAsFound
    <3>2. changed = [got EXCEPT !.avps = t]
      BY <2>4, <3>1
    <3> HIDE DEF t
    <3>3. QED
      BY <2>3, <3>2
  <2>7. depth \in Nat /\ depth <= MaxDepth /\ h \in HeaderSet
    <3>1. depth \in 0..MaxDepth /\ h \in HeaderSet
      BY <2>1 DEF CodecInv, CodecTypeOK
    <3>2. QED
      BY <3>1, CodecAssumption
  <2>8. Leads(r, place)
    <3>1. Closed(Received)
      BY ClosedSets
    <3>2. QED
      BY <2>3, <2>5, <2>7, <3>1, FindLeads, Zenon
  <2>9. t = With(r, place, SetIntValue(At(r, place), n))
    BY Zenon DEF SetAt
  <2> HIDE DEF place, t, h
  <2>10. PICK u : Again(t, u) /\ Differs(u, r, place, n)
    BY <2>3, <2>5, <2>7, <2>8, <2>9, SetInList, Zenon
  <2> DEFINE payload == EncodeAvps(u)
             m == 20 + Len(payload)
             w == MessageOctets(h, payload, m)
  <2>11. Encode(changed) = w /\ payload \in Seq(Octets)
    <3>1. EncodeAvps(t) = payload /\ payload \in Seq(Octets)
      BY <2>10, Zenon DEF Again
    <3>2. changed.header = h /\ changed.avps = t
      BY <2>6
    <3>3. QED
      BY <3>1, <3>2, Zenon DEF Encode
  <2>12. m \in Nat
    BY <2>11
  <2>13. HasParts(w, h, payload, m)
    <3> HIDE DEF payload, m
    <3>1. QED
      BY <2>7, <2>11, <2>12, MessageParts, Zenon
  <2>14. Decode(Encode(changed)) = [header |-> h, avps |-> Decode_AVPs[payload]]
    <3> HIDE DEF payload, m
    <3>1. Decode(w) = [header |-> h, avps |-> Decode_AVPs[payload]]
      BY <2>7, <2>11, <2>12, <2>13, HeaderBack, Zenon
    <3>2. QED
      BY <2>11, <3>1
  <2>15. Decode_AVPs[payload] = u
    <3>1. Len(w) = m /\ Len(w) < Pow[3]
      BY <2>11, <2>13, Zenon DEF HasParts
    <3>2. Pow[3] \in Nat
      BY PowFacts
    <3> DEFINE p == Pow[3]
    <3> HIDE DEF w, p
    <3>3. Len(payload) < p
      <4>1. p \in Nat /\ m < p
        BY <3>1, <3>2 DEF p
      <4>2. QED
        BY <2>11, <4>1
    <3>4. QED
      BY <2>10, <3>3, Zenon DEF Again, p
  <2> HIDE DEF payload, m, w
  <2> DEFINE again == Decode(Encode(changed))
             a == At(again.avps, change.place)
  <2>16. again = [header |-> h, avps |-> u] /\ change.place = place /\ change.n = n
    BY <2>5, <2>14, <2>15
  <2> HIDE DEF again
  <2>17. again.avps = u /\ a = At(u, place)
    BY <2>16
  <2>18. IF a.format \in DOMAIN Widths \union {"UTF8String", "Time"}
         THEN GetIntValue(a) = change.n <=> Holds(a.format, change.n)
         ELSE a = At(got.avps, change.place)
    BY <2>4, <2>10, <2>16, <2>17, Zenon DEF Differs, HoldsInteger
  <2>19. [again EXCEPT !.avps = With(@, change.place, At(got.avps, change.place))] = got
    <3>1. With(u, place, At(r, place)) = r
      BY <2>10, Zenon DEF Differs
    <3> DEFINE v == With(u, place, At(r, place))
    <3>2. [again EXCEPT !.avps = With(@, change.place, At(got.avps, change.place))]
            = [again EXCEPT !.avps = v]
      BY <2>4, <2>16, <2>17
    <3>3. v = r
      BY <3>1
    <3> HIDE DEF v
    <3>4. [again EXCEPT !.avps = v] = [header |-> h, avps |-> r]
      BY <2>16, <3>3
    <3>5. QED
      BY <2>3, <3>2, <3>4 DEF h
  <2>20. QED
    BY <2>18, <2>19 DEF again
<1>2. QED
  BY <1>1, RelayInvariant, PTL

-----------------------------------------------------------------------------
(***************************************************************************)
(* The printing of AVPs, and the reading of lines, as functions.           *)
(***************************************************************************)
\* One step of avpsToString, with f in its place.
PrintStep(f, n) ==
  [avps \in Seq(AVPs[n]) |-> [level \in Nat |->
     FlattenSeq([i \in 1..Len(avps) |->
       AvpLines(avps[i], level,
                IF avps[i].avps = <<>> THEN <<>> ELSE f[n - 1][avps[i].avps][level + 1])])]]

\* A step needs the depth below only.
LEMMA PrintStepLocal ==
  ASSUME NEW n \in Nat, NEW f, NEW g, n # 0 => f[n - 1] = g[n - 1]
  PROVE  PrintStep(f, n) = PrintStep(g, n)
<1> DEFINE M(h, a, level) == IF a.avps = <<>> THEN <<>> ELSE h[n - 1][a.avps][level + 1]
           W(h, avps, level) ==
             [i \in 1..Len(avps) |-> AvpLines(avps[i], level, M(h, avps[i], level))]
           A(h, avps) == [level \in Nat |-> FlattenSeq(W(h, avps, level))]
<1>1. ASSUME NEW a \in AVPs[n], NEW level PROVE M(f, a, level) = M(g, a, level)
  <2>1. CASE n = 0
    <3>1. a.avps = <<>>
      BY <2>1, AvpsFacts, ShapedFacts
    <3>2. QED
      BY <3>1, Zenon
  <2>2. CASE n # 0
    BY <2>2, Zenon
  <2>3. QED
    BY <2>1, <2>2
<1> HIDE DEF M
<1>2. ASSUME NEW avps \in Seq(AVPs[n]), NEW level PROVE W(f, avps, level) = W(g, avps, level)
  <2>1. \A i \in 1..Len(avps) : avps[i] \in AVPs[n]
    OBVIOUS
  <2>2. \A i \in 1..Len(avps) : M(f, avps[i], level) = M(g, avps[i], level)
    BY <1>1, <2>1, Zenon
  <2>3. QED
    BY <2>2, Zenon
<1>3. PrintStep(f, n) = [avps \in Seq(AVPs[n]) |-> A(f, avps)]
  BY Zenon DEF PrintStep, M
<1>4. PrintStep(g, n) = [avps \in Seq(AVPs[n]) |-> A(g, avps)]
  BY Zenon DEF PrintStep, M
<1> HIDE DEF W
<1>5. ASSUME NEW avps \in Seq(AVPs[n]) PROVE A(f, avps) = A(g, avps)
  BY <1>2, Zenon
<1> HIDE DEF A
<1>6. QED
  BY <1>3, <1>4, <1>5, Zenon

\* g is avpsToString up to depth n.
PrintUpto(g, n) == g = [i \in 0..n |-> PrintStep(g, i)]

\* What is defined up to a depth is so by the step.
LEMMA PrintUptoValue ==
  ASSUME NEW g, NEW n \in Nat, PrintUpto(g, n), NEW i \in 0..n
  PROVE  g[i] = PrintStep(g, i)
  BY Zenon DEF PrintUpto

\* There is such a function for every depth.
LEMMA PrintUptoExists ==
  ASSUME NEW n \in Nat
  PROVE  \E g : PrintUpto(g, n)
<1> DEFINE S == {k \in Nat : \E g : PrintUpto(g, k)}
<1>1. 0 \in S
  <2> DEFINE g == [i \in 0..0 |-> PrintStep(<<>>, i)]
  <2>1. ASSUME NEW i \in 0..0 PROVE PrintStep(<<>>, i) = PrintStep(g, i)
    <3>1. i \in Nat /\ i = 0
      OBVIOUS
    <3> HIDE DEF g
    <3>2. QED
      BY <3>1, PrintStepLocal, Zenon
  <2>2. g = [i \in 0..0 |-> PrintStep(g, i)]
    <3>1. \A i \in 0..0 : g[i] = PrintStep(<<>>, i)
      BY Zenon
    <3>2. g = [i \in 0..0 |-> g[i]]
      BY Zenon
    <3> HIDE DEF g
    <3>3. \A i \in 0..0 : g[i] = PrintStep(g, i)
      BY <2>1, <3>1, Zenon
    <3>4. QED
      BY <3>2, <3>3, Zenon
  <2> HIDE DEF g
  <2>3. PrintUpto(g, 0)
    BY <2>2, Zenon DEF PrintUpto
  <2>4. QED
    BY <2>3
<1>2. \A k \in Nat : k \in S => k + 1 \in S
  <2>a. \A k \in Nat : k + 1 \in Nat
    OBVIOUS
  <2> SUFFICES ASSUME NEW k \in Nat, NEW g, PrintUpto(g, k) PROVE \E h : PrintUpto(h, k + 1)
    BY <2>a, Zenon
  <2> DEFINE D == 0..(k + 1)
             h == [i \in D |-> PrintStep(g, i)]
  <2>1. ASSUME NEW i \in D PROVE PrintStep(g, i) = PrintStep(h, i)
    <3>1. i \in Nat
      OBVIOUS
    <3>2. ASSUME i # 0 PROVE g[i - 1] = h[i - 1]
      <4>1. i - 1 \in 0..k /\ i - 1 \in D
        BY <3>2
      <4>2. g[i - 1] = PrintStep(g, i - 1)
        BY <4>1, PrintUptoValue, Zenon
      <4> HIDE DEF D
      <4>3. h[i - 1] = PrintStep(g, i - 1)
        BY <4>1, Zenon
      <4>4. QED
        BY <4>2, <4>3, Zenon
    <3> HIDE DEF D, h
    <3>3. QED
      BY <3>1, <3>2, PrintStepLocal, Zenon
  <2>2. h = [i \in D |-> PrintStep(h, i)]
    <3> HIDE DEF D
    <3>1. (\A i \in D : h[i] = PrintStep(g, i)) /\ h = [i \in D |-> h[i]]
      BY Zenon
    <3> HIDE DEF h
    <3>2. QED
      BY <2>1, <3>1, Zenon
  <2> HIDE DEF h
  <2>3. PrintUpto(h, k + 1)
    BY <2>2, Zenon DEF PrintUpto
  <2>4. QED
    BY <2>3, Zenon
<1> HIDE DEF S
<1>3. n \in S
  BY <1>1, <1>2, SetInduction
<1>4. QED
  BY <1>3, Zenon DEF S

\* Such a function.
PrintUpon(n) == CHOOSE g : PrintUpto(g, n)

\* It does not matter for which depth it is taken.
LEMMA PrintUponAgree ==
  ASSUME NEW n \in Nat, NEW m \in Nat, m >= n
  PROVE  PrintUpon(m)[n] = PrintUpon(n)[n]
<1> DEFINE P(k) == \A j \in Nat : j >= k => PrintUpon(j)[k] = PrintUpon(k)[k]
           S == {k \in Nat : P(k)}
<1>1. \A k \in Nat : PrintUpto(PrintUpon(k), k)
  BY PrintUptoExists, Zenon DEF PrintUpon
<1>2. ASSUME NEW k \in Nat, NEW j \in Nat, j >= k,
             k # 0 => PrintUpon(j)[k - 1] = PrintUpon(k)[k - 1]
      PROVE  PrintUpon(j)[k] = PrintUpon(k)[k]
  <2>1. k \in 0..k /\ k \in 0..j
    BY <1>2
  <2>2. PrintUpon(j)[k] = PrintStep(PrintUpon(j), k)
    BY <1>1, <2>1, PrintUptoValue, Zenon
  <2>3. PrintUpon(k)[k] = PrintStep(PrintUpon(k), k)
    BY <1>1, <2>1, PrintUptoValue, Zenon
  <2>4. QED
    BY <1>2, <2>2, <2>3, PrintStepLocal, Zenon
<1>3. 0 \in S
  <2>1. \A j \in Nat : j >= 0 => PrintUpon(j)[0] = PrintUpon(0)[0]
    BY <1>2
  <2>2. QED
    BY <2>1
<1>4. \A k \in Nat : k \in S => k + 1 \in S
  <2>a. \A k \in Nat : k + 1 \in Nat
    OBVIOUS
  <2> SUFFICES ASSUME NEW k \in Nat, P(k), NEW j \in Nat, j >= k + 1
               PROVE  PrintUpon(j)[k + 1] = PrintUpon(k + 1)[k + 1]
    BY <2>a, Zenon
  <2>1. (k + 1) - 1 = k /\ j >= k /\ k + 1 >= k /\ k + 1 \in Nat
    OBVIOUS
  <2>2. PrintUpon(j)[k] = PrintUpon(k)[k] /\ PrintUpon(k + 1)[k] = PrintUpon(k)[k]
    BY <2>1, Zenon
  <2>3. PrintUpon(j)[(k + 1) - 1] = PrintUpon(k + 1)[(k + 1) - 1]
    BY <2>1, <2>2, Zenon
  <2>4. QED
    BY <1>2, <2>1, <2>3, Zenon
<1> HIDE DEF S
<1>5. n \in S
  BY <1>3, <1>4, SetInduction
<1>6. QED
  BY <1>5, Zenon DEF S

\* avpsToString is the function its definition describes.
LEMMA PrintSteps ==
  ASSUME NEW n \in Nat
  PROVE  avpsToString[n] = PrintStep(avpsToString, n)
<1> DEFINE F == [k \in Nat |-> PrintUpon(k)[k]]
<1>1. ASSUME NEW k \in Nat PROVE F[k] = PrintStep(F, k)
  <2>1. k \in 0..k
    OBVIOUS
  <2>2. PrintUpto(PrintUpon(k), k)
    BY PrintUptoExists, Zenon DEF PrintUpon
  <2>3. PrintUpon(k)[k] = PrintStep(PrintUpon(k), k)
    BY <2>1, <2>2, PrintUptoValue, Zenon
  <2>4. ASSUME k # 0 PROVE PrintUpon(k)[k - 1] = F[k - 1]
    <3>1. k - 1 \in Nat /\ k >= k - 1
      BY <2>4
    <3>2. PrintUpon(k)[k - 1] = PrintUpon(k - 1)[k - 1]
      BY <3>1, PrintUponAgree, Zenon
    <3>3. QED
      BY <3>1, <3>2, Zenon
  <2>5. F[k] = PrintUpon(k)[k]
    BY Zenon
  <2> HIDE DEF F
  <2>6. PrintStep(PrintUpon(k), k) = PrintStep(F, k)
    BY <2>4, PrintStepLocal, Zenon
  <2>7. QED
    BY <2>3, <2>5, <2>6, Zenon
<1>2. F = [k \in Nat |-> F[k]]
  BY Zenon
<1> HIDE DEF F
<1>3. F = [k \in Nat |-> PrintStep(F, k)]
  BY <1>1, <1>2, Zenon
<1>4. avpsToString = CHOOSE f : f = [k \in Nat |-> PrintStep(f, k)]
  BY Zenon DEF avpsToString, PrintStep
<1>5. avpsToString = [k \in Nat |-> PrintStep(avpsToString, k)]
  BY <1>3, <1>4, Zenon
<1>6. QED
  BY <1>5, Zenon

\* One step of Reread, with f in its place.
RereadStep(f, lines) ==
  IF lines = <<>> THEN <<>>
  ELSE <<Shown(lines[1], f[SubSeq(lines, 2, Block(lines))])>>
         \o f[SubSeq(lines, Block(lines) + 1, Len(lines))]

\* The block of the first line.
LEMMA BlockFacts ==
  ASSUME NEW lines \in Seq(Lines), lines # <<>>
  PROVE  /\ Block(lines) \in 1..Len(lines)
         /\ Block(lines) < Len(lines) => lines[Block(lines) + 1].level <= lines[1].level
         /\ \A k \in 1..Len(lines) :
              (k < Len(lines) => lines[k + 1].level <= lines[1].level) => Block(lines) <= k
<1> DEFINE T == {k \in 1..Len(lines) : k < Len(lines) => lines[k + 1].level <= lines[1].level}
<1>1. Len(lines) \in T /\ T \subseteq Nat
  OBVIOUS
<1>2. PICK x \in T : \A y \in T : x <= y
  BY <1>1, LeastNumber
<1>3. Min(T) \in T /\ \A y \in T : Min(T) <= y
  <2> HIDE DEF T
  <2>1. QED
    BY <1>2, Zenon DEF Min
<1>4. Block(lines) = Min(T)
  BY Zenon DEF Block
<1> DEFINE b == Block(lines)
<1>5. b \in T /\ \A y \in T : b <= y
  BY <1>3, <1>4, Zenon
<1> HIDE DEF b
<1>6. QED
  BY <1>5 DEF b

\* What remains to be read is shorter.
LEMMA ShorterLines ==
  ASSUME NEW lines \in Seq(Lines), lines # <<>>
  PROVE  LET inner == SubSeq(lines, 2, Block(lines))
             rest  == SubSeq(lines, Block(lines) + 1, Len(lines))
         IN  /\ inner \in Seq(Lines) /\ Len(inner) < Len(lines)
             /\ rest \in Seq(Lines) /\ Len(rest) < Len(lines)
<1> DEFINE b == Block(lines)
<1>1. b \in 1..Len(lines)
  BY BlockFacts, Zenon
<1> HIDE DEF b
<1>2. /\ SubSeq(lines, 2, b) \in Seq(Lines) /\ Len(SubSeq(lines, 2, b)) < Len(lines)
  BY <1>1
<1>3. /\ SubSeq(lines, b + 1, Len(lines)) \in Seq(Lines)
      /\ Len(SubSeq(lines, b + 1, Len(lines))) < Len(lines)
  BY <1>1
<1>4. QED
  BY <1>2, <1>3 DEF b

\* It looks only at what is shorter.
LEMMA RereadStepLocal ==
  ASSUME NEW lines \in Seq(Lines), NEW f, NEW g,
         \A x \in Seq(Lines) : Len(x) < Len(lines) => f[x] = g[x]
  PROVE  RereadStep(f, lines) = RereadStep(g, lines)
<1> DEFINE inner == SubSeq(lines, 2, Block(lines))
           rest  == SubSeq(lines, Block(lines) + 1, Len(lines))
<1>1. CASE lines = <<>>
  BY <1>1, Zenon DEF RereadStep
<1>2. CASE lines # <<>>
  <2>1. f[inner] = g[inner] /\ f[rest] = g[rest]
    BY <1>2, ShorterLines, Zenon
  <2>2. QED
    BY <1>2, <2>1, Zenon DEF RereadStep
<1>3. QED
  BY <1>1, <1>2

\* g is Reread for fewer than n lines.
Rereads(g, n) ==
  g = [lines \in {s \in Seq(Lines) : Len(s) < n} |-> RereadStep(g, lines)]

\* What is defined for lines up to a length is so by the step.
LEMMA RereadsValue ==
  ASSUME NEW g, NEW n \in Nat, Rereads(g, n), NEW lines \in Seq(Lines), Len(lines) < n
  PROVE  g[lines] = RereadStep(g, lines)
  BY Zenon DEF Rereads

\* There is such a function for every length: each step needs shorter lines only.
LEMMA RereadsExist ==
  ASSUME NEW n \in Nat
  PROVE  \E g : Rereads(g, n)
<1> DEFINE S == {k \in Nat : \E g : Rereads(g, k)}
<1>1. 0 \in S
  <2> DEFINE g == [lines \in {} |-> <<>>]
  <2>1. {s \in Seq(Lines) : Len(s) < 0} = {}
    OBVIOUS
  <2>2. g = [lines \in {s \in Seq(Lines) : Len(s) < 0} |-> RereadStep(g, lines)]
    BY <2>1
  <2> HIDE DEF g
  <2>3. Rereads(g, 0)
    BY <2>2, Zenon DEF Rereads
  <2>4. QED
    BY <2>3
<1>2. \A k \in Nat : k \in S => k + 1 \in S
  <2>a. \A k \in Nat : k + 1 \in Nat
    OBVIOUS
  <2> SUFFICES ASSUME NEW k \in Nat, NEW g, Rereads(g, k) PROVE \E h : Rereads(h, k + 1)
    BY <2>a, Zenon
  <2> DEFINE D == {s \in Seq(Lines) : Len(s) < k + 1}
             h == [lines \in D |-> RereadStep(g, lines)]
  <2>1. ASSUME NEW lines \in D PROVE RereadStep(g, lines) = RereadStep(h, lines)
    <3>1. lines \in Seq(Lines) /\ Len(lines) < k + 1
      OBVIOUS
    <3>2. ASSUME NEW x \in Seq(Lines), Len(x) < Len(lines) PROVE g[x] = h[x]
      <4>1. Len(x) < k /\ x \in D
        BY <3>1, <3>2
      <4>2. g[x] = RereadStep(g, x)
        BY <4>1, RereadsValue, Zenon
      <4>3. QED
        BY <4>1, <4>2, Zenon
    <3> HIDE DEF D, h
    <3>3. QED
      BY <3>1, <3>2, RereadStepLocal, Zenon
  <2>2. h = [lines \in D |-> RereadStep(h, lines)]
    <3> DEFINE hh == [lines \in D |-> RereadStep(h, lines)]
    <3>1. \A lines \in D : h[lines] = RereadStep(h, lines)
      <4> HIDE DEF D
      <4> SUFFICES ASSUME NEW lines \in D PROVE h[lines] = RereadStep(h, lines)
        BY Zenon
      <4>1. h[lines] = RereadStep(g, lines)
        BY Zenon
      <4>2. RereadStep(g, lines) = RereadStep(h, lines)
        BY <2>1, Zenon
      <4> HIDE DEF h
      <4>3. QED
        BY <4>1, <4>2, Zenon
    <3>2. DOMAIN h = D /\ h = [lines \in D |-> h[lines]]
      <4> HIDE DEF D
      <4>1. QED
        BY Zenon
    <3> HIDE DEF h, D
    <3>3. QED
      BY <3>1, <3>2, Zenon
  <2> HIDE DEF h
  <2>3. Rereads(h, k + 1)
    BY <2>2, Zenon DEF Rereads
  <2>4. QED
    BY <2>3, Zenon
<1> HIDE DEF S
<1>3. n \in S
  BY <1>1, <1>2, SetInduction
<1>4. QED
  BY <1>3, Zenon DEF S

\* Such a function.
Rereader(n) == CHOOSE g : Rereads(g, n)

\* It does not matter for which length it is taken.
LEMMA RereadersAgree ==
  ASSUME NEW n \in Nat, NEW m \in Nat, m >= n, NEW lines \in Seq(Lines), Len(lines) < n
  PROVE  Rereader(m)[lines] = Rereader(n)[lines]
<1> DEFINE P(k) == \A j \in Nat, x \in Seq(Lines) :
                      j >= k /\ Len(x) < k => Rereader(j)[x] = Rereader(k)[x]
           S == {k \in Nat : P(k)}
<1>1. \A k \in Nat : Rereads(Rereader(k), k)
  BY RereadsExist, Zenon DEF Rereader
<1>2. 0 \in S
  OBVIOUS
<1>3. \A k \in Nat : k \in S => k + 1 \in S
  <2>a. \A k \in Nat : k + 1 \in Nat
    OBVIOUS
  <2> SUFFICES ASSUME NEW k \in Nat, P(k), NEW j \in Nat, NEW x \in Seq(Lines),
                      j >= k + 1, Len(x) < k + 1
               PROVE  Rereader(j)[x] = Rereader(k + 1)[x]
    BY <2>a, Zenon
  <2>1. k + 1 \in Nat /\ Len(x) < j
    OBVIOUS
  <2>2. Rereader(j)[x] = RereadStep(Rereader(j), x)
    BY <1>1, <2>1, RereadsValue, Zenon
  <2>3. Rereader(k + 1)[x] = RereadStep(Rereader(k + 1), x)
    BY <1>1, <2>1, RereadsValue, Zenon
  <2>4. ASSUME NEW y \in Seq(Lines), Len(y) < Len(x)
        PROVE  Rereader(j)[y] = Rereader(k + 1)[y]
    <3>1. Len(y) < k /\ j >= k /\ k + 1 >= k
      BY <2>4
    <3>2. Rereader(j)[y] = Rereader(k)[y] /\ Rereader(k + 1)[y] = Rereader(k)[y]
      BY <2>1, <3>1, Zenon
    <3>3. QED
      BY <3>2, Zenon
  <2>5. RereadStep(Rereader(j), x) = RereadStep(Rereader(k + 1), x)
    BY <2>4, RereadStepLocal, Zenon
  <2>6. QED
    BY <2>2, <2>3, <2>5, Zenon
<1> HIDE DEF S
<1>4. n \in S
  BY <1>2, <1>3, SetInduction
<1>5. QED
  BY <1>4, Zenon DEF S

\* Reread is the function its definition describes.
LEMMA RereadAsStep ==
  ASSUME NEW lines \in Seq(Lines)
  PROVE  Reread[lines] = RereadStep(Reread, lines)
<1> DEFINE F == [s \in Seq(Lines) |-> Rereader(Len(s) + 1)[s]]
<1>1. ASSUME NEW s \in Seq(Lines) PROVE F[s] = RereadStep(F, s)
  <2> DEFINE k == Len(s) + 1
  <2>1. k \in Nat /\ Len(s) < k
    OBVIOUS
  <2>2. Rereads(Rereader(k), k)
    <3> HIDE DEF k
    <3>1. QED
      BY <2>1, RereadsExist, Zenon DEF Rereader
  <2>3. Rereader(k)[s] = RereadStep(Rereader(k), s)
    <3> HIDE DEF k
    <3>1. QED
      BY <2>1, <2>2, RereadsValue, Zenon
  <2>4. ASSUME NEW x \in Seq(Lines), Len(x) < Len(s) PROVE Rereader(k)[x] = F[x]
    <3>1. Len(x) + 1 \in Nat /\ k >= Len(x) + 1 /\ Len(x) < Len(x) + 1
      BY <2>4
    <3>2. Rereader(k)[x] = Rereader(Len(x) + 1)[x]
      <4> HIDE DEF k
      <4>1. QED
        BY <2>1, <3>1, RereadersAgree, Zenon
    <3>3. QED
      BY <3>2, Zenon
  <2>5. F[s] = Rereader(k)[s]
    BY Zenon
  <2> HIDE DEF F, k
  <2>6. RereadStep(Rereader(k), s) = RereadStep(F, s)
    BY <2>4, RereadStepLocal, Zenon
  <2>7. QED
    BY <2>3, <2>5, <2>6, Zenon
<1>2. DOMAIN F = Seq(Lines) /\ F = [s \in Seq(Lines) |-> F[s]]
  BY Zenon
<1> HIDE DEF F
<1>3. F = [s \in Seq(Lines) |-> RereadStep(F, s)]
  BY <1>1, <1>2, Zenon
<1>4. Reread = CHOOSE f : f = [s \in Seq(Lines) |-> RereadStep(f, s)]
  BY Zenon DEF Reread, RereadStep
<1>5. Reread = [s \in Seq(Lines) |-> RereadStep(Reread, s)]
  BY <1>3, <1>4, Zenon
<1>6. QED
  BY <1>5, Zenon

-----------------------------------------------------------------------------
(***************************************************************************)
(* What is printed is read back.                                           *)
(***************************************************************************)
\* The lines of one AVP whose members are nested less than n deep.
LinesOf(n, a, level) ==
  AvpLines(a, level, IF a.avps = <<>> THEN <<>> ELSE avpsToString[n - 1][a.avps][level + 1])

\* The lines of each AVP of a list.
EachPrinted(n, avps, level) == [i \in 1..Len(avps) |-> LinesOf(n, avps[i], level)]

\* avpsToString puts the lines of its AVPs one after the other.
LEMMA PrintIs ==
  ASSUME NEW n \in Nat, NEW avps \in Seq(AVPs[n]), NEW level \in Nat
  PROVE  avpsToString[n][avps][level] = FlattenSeq(EachPrinted(n, avps, level))
<1>1. avpsToString[n] = PrintStep(avpsToString, n)
  BY PrintSteps, Zenon
<1>2. PrintStep(avpsToString, n)[avps][level] = FlattenSeq(EachPrinted(n, avps, level))
  BY Zenon DEF PrintStep, EachPrinted, LinesOf
<1>3. QED
  BY <1>1, <1>2, Zenon

\* Lines that are below a level, and lines that start on it or further out.
Below(m, level) == \A i \in 1..Len(m) : m[i].level > level
Follows(rest, level) == rest = <<>> \/ rest[1].level <= level

\* The lines w are x, then m up to e, then rest, and that is how they are read.
Splits(w, x, m, rest, e) ==
  /\ w \in Seq(Lines) /\ w # <<>> /\ w[1] = x
  /\ Block(w) = e
  /\ SubSeq(w, 2, e) = m
  /\ SubSeq(w, e + 1, Len(w)) = rest

\* The block of a line are the lines below it.
LEMMA BlockEnds ==
  ASSUME NEW x \in Lines, NEW m \in Seq(Lines), Below(m, x.level),
         NEW rest \in Seq(Lines), Follows(rest, x.level),
         NEW w, w = <<x>> \o (m \o rest), NEW e, e = Len(m) + 1
  PROVE  Splits(w, x, m, rest, e)
<1> DEFINE o == <<x>>
           t == m \o rest
           k == Len(m)
           r == Len(rest)
<1>1. o \in Seq(Lines) /\ Len(o) = 1 /\ o[1] = x
  OBVIOUS
<1>2. Joined(t, m, rest, Lines)
  BY ConcatJoins, Zenon
<1> HIDE DEF o, t
<1>3. t \in Seq(Lines)
  BY <1>2, Zenon DEF Joined
<1>4. Joined(o \o t, o, t, Lines)
  BY <1>1, <1>3, ConcatJoins, Zenon
<1>5. w = o \o t
  BY Zenon DEF o, t
<1>6. Joined(w, o, t, Lines)
  BY <1>4, <1>5, Zenon
<1>7. k \in Nat /\ r \in Nat
  OBVIOUS
<1>8. /\ w \in Seq(Lines) /\ Len(w) = (k + 1) + r /\ w[1] = x
      /\ \A i \in 1..k : w[1 + i] = m[i]
      /\ \A i \in 1..r : w[(k + 1) + i] = rest[i]
  <2>1. Len(t) = k + r /\ (\A i \in 1..k : t[i] = m[i]) /\ \A i \in 1..r : t[k + i] = rest[i]
    BY <1>2, Zenon DEF Joined
  <2>2. Len(w) = 1 + Len(t) /\ w[1] = o[1] /\ \A i \in 1..Len(t) : w[1 + i] = t[i]
    BY <1>1, <1>6 DEF Joined
  <2>3. w \in Seq(Lines)
    BY <1>6, Zenon DEF Joined
  <2>4. \A i \in 1..k : w[1 + i] = m[i]
    BY <1>7, <2>1, <2>2
  <2>5. ASSUME NEW i \in 1..r PROVE w[(k + 1) + i] = rest[i]
    <3>1. k + i \in 1..Len(t) /\ 1 + (k + i) = (k + 1) + i
      BY <1>7, <2>1
    <3>2. QED
      BY <2>1, <2>2, <3>1
  <2>6. QED
    BY <1>1, <1>7, <2>1, <2>2, <2>3, <2>4, <2>5
<1>9. w # <<>>
  BY <1>7, <1>8
<1> DEFINE b == Block(w)
<1>10. /\ b \in 1..Len(w)
       /\ b < Len(w) => w[b + 1].level <= w[1].level
       /\ \A i \in 1..Len(w) : (i < Len(w) => w[i + 1].level <= w[1].level) => b <= i
  BY <1>8, <1>9, BlockFacts, Zenon
<1> HIDE DEF b, k, r
<1>11. b = k + 1
  <2>1. k + 1 \in 1..Len(w)
    BY <1>7, <1>8
  <2>2. k + 1 < Len(w) => w[(k + 1) + 1].level <= w[1].level
    <3> SUFFICES ASSUME k + 1 < Len(w) PROVE w[(k + 1) + 1].level <= w[1].level
      OBVIOUS
    <3>1. 1 \in 1..r
      BY <1>7, <1>8
    <3>2. rest # <<>>
      BY <3>1 DEF r
    <3>3. rest[1].level <= x.level
      BY <3>2, Zenon DEF Follows
    <3>4. w[(k + 1) + 1] = rest[1]
      BY <1>8, <3>1, Zenon
    <3>5. QED
      BY <1>8, <3>3, <3>4, Zenon
  <2>3. b <= k + 1
    BY <1>10, <2>1, <2>2, Zenon
  <2>4. ASSUME b < k + 1 PROVE FALSE
    <3>1. b \in 1..k /\ b < Len(w) /\ b + 1 = 1 + b
      BY <1>7, <1>8, <1>10, <2>4
    <3>2. w[b + 1] = m[b]
      BY <1>8, <3>1
    <3>3. m[b].level > x.level
      BY <3>1, Zenon DEF k, Below
    <3>4. w[b + 1].level <= w[1].level
      BY <1>10, <3>1, Zenon
    <3>5. m[b].level <= x.level
      BY <1>8, <3>2, <3>4, Zenon
    <3>6. m[b].level \in Nat /\ x.level \in Nat
      <4>1. m[b] \in Lines
        BY <3>1 DEF k
      <4>2. QED
        BY <4>1 DEF Lines
    <3>7. QED
      BY <3>3, <3>5, <3>6
  <2>5. QED
    BY <1>7, <1>10, <2>3, <2>4
<1>12. SubSeq(w, 2, k + 1) = m
  <2>1. SubSeq(w, 1 + 1, 1 + Len(m)) = m
    <3>1. 1 \in Nat /\ Len(w) >= 1 + Len(m)
      BY <1>7, <1>8 DEF k
    <3>2. \A i \in 1..Len(m) : w[1 + i] = m[i]
      BY <1>8, Zenon DEF k
    <3>3. QED
      BY <1>8, <3>1, <3>2, PartIs
  <2>2. 1 + 1 = 2 /\ 1 + Len(m) = k + 1
    BY <1>7 DEF k
  <2>3. QED
    BY <2>1, <2>2
<1>13. SubSeq(w, (k + 1) + 1, Len(w)) = rest
  <2>1. k + 1 \in Nat /\ Len(w) >= (k + 1) + r
    BY <1>7, <1>8
  <2>2. SubSeq(w, (k + 1) + 1, (k + 1) + r) = rest
    BY <1>8, <2>1, PartIs DEF r
  <2>3. QED
    BY <1>8, <2>2, Zenon
<1>14. e = k + 1
  BY DEF k
<1>15. QED
  BY <1>8, <1>9, <1>11, <1>12, <1>13, <1>14, Zenon DEF b, Splits

\* A line with the ones below it is read as one AVP.
LEMMA RereadBlock ==
  ASSUME NEW x \in Lines, NEW m \in Seq(Lines), Below(m, x.level),
         NEW rest \in Seq(Lines), Follows(rest, x.level)
  PROVE  Reread[<<x>> \o (m \o rest)] = <<Shown(x, Reread[m])>> \o Reread[rest]
<1> DEFINE w == <<x>> \o (m \o rest)
           k == Len(m) + 1
<1>1. /\ w \in Seq(Lines) /\ w # <<>> /\ w[1] = x /\ Block(w) = k
      /\ SubSeq(w, 2, k) = m /\ SubSeq(w, k + 1, Len(w)) = rest
  <2> DEFINE v == w
  <2>1. v = <<x>> \o (m \o rest) /\ k = Len(m) + 1
    OBVIOUS
  <2> HIDE DEF v, k
  <2>2. Splits(v, x, m, rest, k)
    BY <2>1, BlockEnds, Zenon
  <2>3. QED
    BY <2>2, Zenon DEF v, Splits
<1> HIDE DEF w, k
<1>2. Reread[w] = RereadStep(Reread, w)
  BY <1>1, RereadAsStep, Zenon
<1>3. RereadStep(Reread, w) = <<Shown(x, Reread[m])>> \o Reread[rest]
  BY <1>1, Zenon DEF RereadStep
<1>4. QED
  BY <1>2, <1>3, Zenon DEF w

\* No lines show no AVPs.
LEMMA RereadEmpty == Reread[<<>>] = <<>>
<1>1. <<>> \in Seq(Lines)
  BY EmptySeq, Zenon
<1>2. Reread[<<>>] = RereadStep(Reread, <<>>)
  BY <1>1, RereadAsStep, Zenon
<1>3. QED
  BY <1>2, Zenon DEF RereadStep

\* The line x shows the AVP a.
Shows(x, a, level) ==
  /\ x \in Lines /\ x.level = level
  /\ a.format = "Grouped" => Shown(x, a.avps) = a
  /\ a.format # "Grouped" => a.avps = <<>> /\ \A m : Shown(x, m) = a

\* The line of a received AVP shows all of it but its members.
LEMMA ShownBack ==
  ASSUME NEW T, NEW a \in Shaped(T), Sound(a), a.avps # <<>> => a.format = "Grouped",
         NEW level \in Nat, NEW x, x = Line(a, level, a.format)
  PROVE  Shows(x, a, level)
<1>1. /\ a.avp_code \in Int /\ a.vendor_id \in Int
      /\ a.vendor_flag \in BOOLEAN /\ a.mandatory_flag \in BOOLEAN
      /\ a.format \in Formats /\ a.data \in Seq(Int)
  BY ShapedFacts
<1>2. /\ a.vendor_flag <=> a.vendor_id > 0
      /\ LookUpAvp(a.avp_code, a.vendor_id) = a.format
      /\ a.format = "Grouped" => a.data = <<>>
  <2>1. HasHeader(a) /\ IsValue(a.format, a.data) /\ Known(a)
    BY Zenon DEF Sound
  <2>2. a.format = "Grouped" => a.data = <<>>
    BY <2>1, IsValueFacts, Zenon
  <2>3. QED
    BY <2>1, <2>2, Zenon DEF HasHeader, Known
<1> DEFINE flags == <<a.vendor_id # 0, a.mandatory_flag>>
           F == {"", "0x%x", "%s(%d)", "string", "%v"}
           L(v) == [level |-> level, avp_code |-> a.avp_code, vendor_id |-> a.vendor_id,
                    f |-> flags, val |-> v]
<1>3. \E form \in F : x = L([form |-> form, data |-> a.data])
  <2>1. CASE a.format = "Grouped"
    <3>1. x = L([form |-> "", data |-> <<>>]) /\ "" \in F
      BY <2>1 DEF Line
    <3>2. a.data = <<>>
      BY <1>2, <2>1
    <3> HIDE DEF L, F
    <3>3. QED
      BY <3>1, <3>2, Zenon
  <2>2. CASE a.format = "unknown"
    <3>1. x = L([form |-> "0x%x", data |-> a.data]) /\ "0x%x" \in F
      BY <2>2 DEF Line
    <3> HIDE DEF L, F
    <3>2. QED
      BY <3>1, Zenon
  <2>3. CASE a.format # "Grouped" /\ a.format # "unknown"
    <3> DEFINE form == CASE a.format = "OctetString" -> "0x%x"
                         [] a.format = "Enumerated" /\ Key(a) \o a.data \in EnumNames -> "%s(%d)"
                         [] a.format = "UTF8String" -> "string"
                         [] OTHER -> "%v"
    <3>1. x = L(avpToValue(a))
      BY <2>3 DEF Line
    <3>2. avpToValue(a) = [form |-> form, data |-> a.data] /\ form \in F
      BY DEF avpToValue
    <3> HIDE DEF form, L, F
    <3>3. QED
      BY <3>1, <3>2, Zenon
  <2>4. QED
    BY <2>1, <2>2, <2>3, Zenon
<1>a. PICK form \in F : x = L([form |-> form, data |-> a.data])
  BY <1>3, Zenon
<1>b. flags \in BOOLEAN \X BOOLEAN /\ flags[2] = a.mandatory_flag
  <2>1. (a.vendor_id # 0) \in BOOLEAN
    BY Zenon
  <2>2. QED
    BY <1>1, <2>1
<1> HIDE DEF flags, F
<1>4. x.level = level /\ x.avp_code = a.avp_code /\ x.vendor_id = a.vendor_id
  BY <1>a
<1>5. x.f[2] = a.mandatory_flag /\ x.val.data = a.data
  BY <1>a, <1>b
<1> DEFINE val == [form |-> form, data |-> a.data]
           FF == BOOLEAN \X BOOLEAN
           VV == [form : F, data : Seq(Int)]
<1>c. val \in VV
  BY <1>1
<1>d. Lines = [level : Nat, avp_code : Int, vendor_id : Int, f : FF, val : VV]
  BY Zenon DEF Lines, F
<1>6. x \in Lines
  <2>1. x = L(val) /\ flags \in FF
    BY <1>a, <1>b
  <2> HIDE DEF FF, VV, val
  <2>2. QED
    BY <1>1, <1>c, <1>d, <2>1
<1> DEFINE w == a.vendor_id > 0
           b == Basic_AVP(a.avp_code, a.format, a.data, a.mandatory_flag, a.vendor_id)
<1>e. w = a.vendor_flag
  BY <1>1, <1>2
<1>f. b = [avp_code |-> a.avp_code, vendor_flag |-> w, mandatory_flag |-> a.mandatory_flag,
           vendor_id |-> a.vendor_id, data |-> a.data, format |-> a.format, avps |-> <<>>]
  BY DEF Basic_AVP
<1> HIDE DEF w, b, L
<1>7. \A m : [b EXCEPT !.avps = m] = [a EXCEPT !.avps = m]
  BY <1>e, <1>f DEF Shaped
<1>8. a = [a EXCEPT !.avps = a.avps] /\ b = [b EXCEPT !.avps = <<>>]
  BY <1>f DEF Shaped
<1>9. ASSUME NEW m
      PROVE  Shown(x, m) = IF a.format = "Grouped" THEN [b EXCEPT !.avps = m] ELSE b
  BY <1>2, <1>4, <1>5, Zenon DEF Shown, b
<1>10. [b EXCEPT !.avps = a.avps] = a
  BY <1>7, <1>8
<1>11. a.avps = <<>> => b = a
  BY <1>7, <1>8
<1>12. a.format = "Grouped" => Shown(x, a.avps) = a
  BY <1>9, <1>10
<1>13. a.format # "Grouped" => a.avps = <<>> /\ \A m : Shown(x, m) = a
  BY <1>9, <1>11, Zenon
<1>14. QED
  BY <1>4, <1>6, <1>12, <1>13, Zenon DEF Shows

\* The AVP a of a list printed n deep is drawn as a line with others below it, from
\* which it is read.
PrintsOne(n, a, level) ==
  \E x \in Lines, m \in Seq(Lines) :
    /\ LinesOf(n, a, level) = <<x>> \o m
    /\ x.level = level /\ Below(m, level)
    /\ Shown(x, Reread[m]) = a

\* The list is drawn as lines from which it is read.
PrintsAll(n, s, level) ==
  LET lines == avpsToString[n][s][level]
  IN  /\ lines \in Seq(Lines) /\ Reread[lines] = s
      /\ Follows(lines, level)
      /\ \A i \in 1..Len(lines) : lines[i].level >= level

\* No members, no lines.
LEMMA NothingBelow ==
  ASSUME NEW level
  PROVE  <<>> \in Seq(Lines) /\ Below(<<>>, level) /\ Reread[<<>>] = <<>>
<1>1. Below(<<>>, level)
  BY DEF Below
<1>2. QED
  BY <1>1, EmptySeq, RereadEmpty, Zenon

\* A received AVP is printed so if its members are.
LEMMA PrintedOne ==
  ASSUME NEW n \in Nat, NEW T, NEW a \in Shaped(T), Sound(a),
         a.avps # <<>> => a.format = "Grouped", NEW level \in Nat,
         a.avps # <<>> => PrintsAll(n - 1, a.avps, level + 1)
  PROVE  PrintsOne(n, a, level)
<1> DEFINE x == Line(a, level, a.format)
           m == IF a.avps = <<>> THEN <<>> ELSE avpsToString[n - 1][a.avps][level + 1]
<1>1. /\ x \in Lines /\ x.level = level
      /\ a.format = "Grouped" => Shown(x, a.avps) = a
      /\ a.format # "Grouped" => a.avps = <<>> /\ \A k : Shown(x, k) = a
  <2> DEFINE y == x
  <2>1. y = Line(a, level, a.format)
    OBVIOUS
  <2> HIDE DEF y
  <2>2. Shows(y, a, level)
    BY <2>1, ShownBack, Zenon
  <2>3. QED
    BY <2>2, Zenon DEF y, Shows
<1>2. m \in Seq(Lines) /\ Below(m, level) /\ Reread[m] = a.avps
  <2>1. CASE a.avps = <<>>
    <3>1. m = <<>>
      BY <2>1, Zenon
    <3> HIDE DEF m
    <3>2. QED
      BY <2>1, <3>1, NothingBelow, Zenon
  <2>2. CASE a.avps # <<>>
    <3> DEFINE k == avpsToString[n - 1][a.avps][level + 1]
    <3>1. m = k
      BY <2>2, Zenon
    <3>2. /\ k \in Seq(Lines) /\ Reread[k] = a.avps
          /\ \A i \in 1..Len(k) : k[i].level >= level + 1
      BY <2>2, Zenon DEF PrintsAll
    <3> HIDE DEF k, m
    <3>3. Below(k, level)
      <4> SUFFICES ASSUME NEW i \in 1..Len(k) PROVE k[i].level > level
        BY Zenon DEF Below
      <4>1. k[i] \in Lines
        BY <3>2, ElementOfSeq, Zenon
      <4>2. k[i].level \in Nat
        BY <4>1 DEF Lines
      <4>3. k[i].level >= level + 1
        BY <3>2, Zenon
      <4>4. QED
        BY <4>2, <4>3
    <3>4. QED
      BY <3>1, <3>2, <3>3, Zenon
  <2>3. QED
    BY <2>1, <2>2
<1>3. LookUpAvp(a.avp_code, a.vendor_id) = a.format
  BY Zenon DEF Sound, Known
<1>4. LinesOf(n, a, level) = AvpLines(a, level, m)
  BY Zenon DEF LinesOf
<1> HIDE DEF x, m
<1>5. CASE a.format = "Grouped"
  <2>1. AvpLines(a, level, m) = <<x>> \o m
    BY <1>3, <1>5 DEF AvpLines, x
  <2>2. Shown(x, Reread[m]) = a
    BY <1>1, <1>2, <1>5, Zenon
  <2>3. QED
    BY <1>1, <1>2, <1>4, <2>1, <2>2, Zenon DEF PrintsOne
<1>6. CASE a.format # "Grouped"
  <2>1. AvpLines(a, level, m) = <<x>>
    BY <1>3, <1>6 DEF AvpLines, x
  <2>2. <<x>> \in Seq(Lines)
    BY <1>1
  <2>3. <<x>> = <<x>> \o <<>>
    BY <2>2, ConcatEmptySeq, Zenon
  <2>4. Shown(x, Reread[<<>>]) = a
    BY <1>1, <1>6, Zenon
  <2>5. <<>> \in Seq(Lines) /\ Below(<<>>, level)
    BY NothingBelow, Zenon
  <2>6. LinesOf(n, a, level) = <<x>> \o <<>>
    BY <1>4, <2>1, <2>3, Zenon
  <2>7. QED
    BY <1>1, <2>4, <2>5, <2>6, Zenon DEF PrintsOne
<1>7. QED
  BY <1>5, <1>6

\* A list is the first of it and the others.
LEMMA FirstAndOthers ==
  ASSUME NEW S, NEW s \in Seq(S), s # <<>>
  PROVE  /\ s = <<s[1]>> \o Tail(s) /\ s[1] \in S /\ Tail(s) \in Seq(S)
         /\ Len(s) = Len(Tail(s)) + 1
<1>1. s[1] \in S /\ Tail(s) \in Seq(S) /\ Len(s) = Len(Tail(s)) + 1
  OBVIOUS
<1> DEFINE o == <<s[1]>>
           t == Tail(s)
<1>2. o \in Seq(S) /\ Len(o) = 1 /\ o[1] = s[1] /\ \A i \in 1..Len(t) : t[i] = s[i + 1]
  BY <1>1
<1>3. t \in Seq(S) /\ Len(s) = Len(t) + 1 /\ Len(t) \in Nat
  BY <1>1
<1> HIDE DEF o, t
<1>4. Joined(o \o t, o, t, S)
  BY <1>2, <1>3, ConcatJoins, Zenon
<1> DEFINE u == o \o t
<1>5. /\ u \in Seq(S) /\ Len(u) = 1 + Len(t) /\ u[1] = o[1]
      /\ \A i \in 1..Len(t) : u[1 + i] = t[i]
  BY <1>2, <1>4 DEF Joined
<1> HIDE DEF u
<1>6. ASSUME NEW i \in 1..Len(u) PROVE u[i] = s[i]
  <2>1. CASE i = 1
    BY <1>2, <1>5, <2>1
  <2>2. CASE i # 1
    <3>1. i - 1 \in 1..Len(t) /\ 1 + (i - 1) = i /\ (i - 1) + 1 = i
      BY <1>3, <1>5, <2>2
    <3>2. QED
      BY <1>2, <1>5, <3>1
  <2>3. QED
    BY <2>1, <2>2
<1>7. Len(u) = Len(s)
  BY <1>3, <1>5
<1>8. u = s
  BY <1>5, <1>6, <1>7, SeqEqual, Zenon
<1>9. QED
  BY <1>1, <1>8, Zenon DEF u, o, t

\* The lines of the list s are those of its first AVP, a, and those of the others, t.
PrintedFirst(n, s, a, t, level) ==
  /\ avpsToString[n][s][level] = LinesOf(n, a, level) \o avpsToString[n][t][level]
  /\ EachPrinted(n, s, level) \in Seq(Seq(Lines))

\* The lines of a list, seen from its front.
LEMMA PrintFirst ==
  ASSUME NEW n \in Nat, NEW level \in Nat, NEW a, NEW t, NEW s, s = <<a>> \o t,
         s \in Seq(AVPs[n]), t \in Seq(AVPs[n]), a \in AVPs[n],
         LinesOf(n, a, level) \in Seq(Lines),
         EachPrinted(n, t, level) \in Seq(Seq(Lines))
  PROVE  PrintedFirst(n, s, a, t, level)
<1> DEFINE p == EachPrinted(n, t, level)
           e == LinesOf(n, a, level)
           q == EachPrinted(n, s, level)
           o == <<e>>
           c == <<a>>
<1>1. c \in Seq(AVPs[n]) /\ Len(c) = 1 /\ c[1] = a /\ s = c \o t
  OBVIOUS
<1> HIDE DEF c
<1>2. Joined(s, c, t, AVPs[n])
  BY <1>1, ConcatJoins, Zenon
<1>3. Len(s) = 1 + Len(t) /\ s[1] = a /\ (\A i \in 1..Len(t) : s[1 + i] = t[i]) /\ Len(t) \in Nat
  BY <1>1, <1>2 DEF Joined
<1>4. /\ Len(p) = Len(t) /\ \A i \in 1..Len(t) : p[i] = LinesOf(n, t[i], level)
      /\ Len(q) = Len(s) /\ \A i \in 1..Len(s) : q[i] = LinesOf(n, s[i], level)
      /\ DOMAIN q = 1..Len(s) /\ q = [i \in 1..Len(s) |-> q[i]]
  BY <1>3 DEF EachPrinted
<1>5. p \in Seq(Seq(Lines)) /\ e \in Seq(Lines)
  OBVIOUS
<1>6. o \in Seq(Seq(Lines)) /\ Len(o) = 1 /\ o[1] = e
  OBVIOUS
<1> HIDE DEF p, q, o
<1>7. Joined(o \o p, o, p, Seq(Lines))
  BY <1>5, <1>6, ConcatJoins, Zenon
<1> DEFINE u == o \o p
<1>8. /\ u \in Seq(Seq(Lines)) /\ Len(u) = 1 + Len(t) /\ u[1] = e
      /\ \A i \in 1..Len(t) : u[1 + i] = p[i]
  BY <1>4, <1>6, <1>7 DEF Joined
<1> HIDE DEF u, e
<1>9. ASSUME NEW i \in 1..Len(s) PROVE q[i] = u[i]
  <2>1. CASE i = 1
    BY <1>3, <1>4, <1>8, <2>1 DEF e
  <2>2. CASE i # 1
    <3>1. i - 1 \in 1..Len(t) /\ 1 + (i - 1) = i
      BY <1>3, <2>2
    <3>2. u[i] = p[i - 1] /\ s[i] = t[i - 1]
      BY <1>3, <1>8, <3>1
    <3>3. p[i - 1] = LinesOf(n, t[i - 1], level) /\ q[i] = LinesOf(n, s[i], level)
      BY <1>4, <3>1, Zenon
    <3>4. QED
      BY <3>2, <3>3, Zenon
  <2>3. QED
    BY <2>1, <2>2
<1>10. q = u
  <2>1. Len(u) = Len(s) /\ \A i \in 1..Len(s) : u[i] \in Seq(Lines)
    BY <1>3, <1>8
  <2>2. \A i \in 1..Len(s) : q[i] \in Seq(Lines)
    BY <1>9, <2>1, Zenon
  <2>3. q \in Seq(Seq(Lines))
    <3>1. Len(s) \in Nat
      BY <1>3
    <3>2. q \in [1..Len(s) -> Seq(Lines)]
      BY <1>4, <2>2, Zenon
    <3>3. QED
      BY <3>1, <3>2
  <2>4. Len(q) = Len(u) /\ \A i \in 1..Len(q) : q[i] = u[i]
    BY <1>4, <1>9, <2>1, Zenon
  <2>5. QED
    BY <1>8, <2>3, <2>4, SeqEqual, Zenon
<1>11. avpsToString[n][s][level] = FlattenSeq(q) /\ avpsToString[n][t][level] = FlattenSeq(p)
  BY PrintIs, Zenon DEF q, p
<1>12. FlattenSeq(u) = e \o FlattenSeq(p)
  BY <1>5, FlattenCons, Zenon DEF u, o, e
<1>13. QED
  BY <1>8, <1>10, <1>11, <1>12, Zenon DEF PrintedFirst, q, e

\* Nothing is printed of no AVPs.
LEMMA PrintNone ==
  ASSUME NEW n \in Nat, NEW level \in Nat
  PROVE  /\ avpsToString[n][<<>>][level] = <<>>
         /\ EachPrinted(n, <<>>, level) \in Seq(Seq(Lines))
<1>1. <<>> \in Seq(AVPs[n])
  BY EmptySeq, Zenon
<1>2. EachPrinted(n, <<>>, level) = <<>>
  BY DEF EachPrinted
<1>3. FlattenSeq(<<>>) = <<>>
  BY DEF FlattenSeq
<1>4. QED
  BY <1>1, <1>2, <1>3, PrintIs, EmptySeq, Zenon

\* A list is printed so that it is read back if each of its AVPs is.
LEMMA PrintedList ==
  ASSUME NEW n \in Nat, NEW level \in Nat, \A a \in Received[n] : PrintsOne(n, a, level),
         NEW s \in Seq(Received[n])
  PROVE  PrintsAll(n, s, level)
<1> DEFINE G(t) == PrintsAll(n, t, level) /\ EachPrinted(n, t, level) \in Seq(Seq(Lines))
           S == {k \in Nat : \A t \in Seq(Received[n]) : Len(t) = k => G(t)}
<1>1. 0 \in S
  <2>1. ASSUME NEW t \in Seq(Received[n]), Len(t) = 0 PROVE t = <<>>
    BY <2>1, EmptySeq
  <2>2. PrintsAll(n, <<>>, level)
    <3>1. avpsToString[n][<<>>][level] = <<>>
      BY PrintNone, Zenon
    <3>2. Follows(<<>>, level) /\ \A i \in 1..Len(<<>>) : <<>>[i].level >= level
      BY DEF Follows
    <3>3. QED
      BY <3>1, <3>2, NothingBelow, Zenon DEF PrintsAll
  <2>3. G(<<>>)
    BY <2>2, PrintNone, Zenon
  <2>4. 0 \in Nat
    OBVIOUS
  <2> HIDE DEF G
  <2>5. QED
    BY <2>1, <2>3, <2>4, Zenon
<1>2. \A k \in Nat : k \in S => k + 1 \in S
  <2>a. \A k \in Nat : k + 1 \in Nat
    OBVIOUS
  <2> SUFFICES ASSUME NEW k \in Nat, \A t \in Seq(Received[n]) : Len(t) = k => G(t),
                      NEW s1 \in Seq(Received[n]), Len(s1) = k + 1
               PROVE  G(s1)
    <3> HIDE DEF G
    <3>1. QED
      BY <2>a, Zenon
  <2> DEFINE a == s1[1]
             t == Tail(s1)
  <2>1. /\ s1 = <<a>> \o t /\ a \in Received[n] /\ t \in Seq(Received[n]) /\ Len(t) = k
    <3>1. s1 # <<>>
      OBVIOUS
    <3>2. /\ s1 = <<a>> \o t /\ a \in Received[n] /\ t \in Seq(Received[n])
          /\ Len(s1) = Len(t) + 1
      BY <3>1, FirstAndOthers, Zenon
    <3> HIDE DEF a, t
    <3>3. Len(t) = k
      BY <3>2
    <3>4. QED
      BY <3>2, <3>3, Zenon
  <2> HIDE DEF a, t
  <2>2. PrintsAll(n, t, level) /\ EachPrinted(n, t, level) \in Seq(Seq(Lines))
    BY <2>1, Zenon
  <2>3. Received[n] \subseteq AVPs[n]
    BY ReceivedType, Zenon
  <2>4. s1 \in Seq(AVPs[n]) /\ t \in Seq(AVPs[n]) /\ a \in AVPs[n]
    BY <2>1, <2>3, SeqMonotonic, Zenon
  <2>5. PICK x \in Lines, m \in Seq(Lines) :
          /\ LinesOf(n, a, level) = <<x>> \o m
          /\ x.level = level /\ Below(m, level)
          /\ Shown(x, Reread[m]) = a
    BY <2>1, Zenon DEF PrintsOne
  <2> DEFINE o == <<x>>
             e == o \o m
             r == avpsToString[n][t][level]
             w == e \o r
  <2>6. o \in Seq(Lines) /\ Len(o) = 1 /\ o[1] = x
    OBVIOUS
  <2>7. /\ r \in Seq(Lines) /\ Reread[r] = t /\ Follows(r, level)
        /\ \A i \in 1..Len(r) : r[i].level >= level
    BY <2>2, Zenon DEF PrintsAll
  <2>8. e \in Seq(Lines)
    BY <2>6, ConcatProperties, Zenon
  <2>9. /\ avpsToString[n][s1][level] = w
        /\ EachPrinted(n, s1, level) \in Seq(Seq(Lines))
    <3>1. s1 = <<a>> \o t /\ LinesOf(n, a, level) = e
      BY <2>1, <2>5, Zenon
    <3>2. LinesOf(n, a, level) \in Seq(Lines)
      BY <2>8, <3>1, Zenon
    <3>3. PrintedFirst(n, s1, a, t, level)
      BY <2>2, <2>4, <3>1, <3>2, PrintFirst, Zenon
    <3>4. QED
      BY <3>1, <3>3, Zenon DEF PrintedFirst
  <2>10. w = o \o (m \o r)
    <3> HIDE DEF o, r
    <3>1. Rejoined(o, m, r)
      BY <2>6, <2>7, Associative, Zenon
    <3>2. QED
      BY <3>1, Zenon DEF Rejoined
  <2>11. Reread[w] = s1
    <3>1. Reread[o \o (m \o r)] = <<Shown(x, Reread[m])>> \o Reread[r]
      BY <2>5, <2>7, RereadBlock, Zenon
    <3>2. QED
      BY <2>1, <2>5, <2>7, <2>10, <3>1, Zenon
  <2> HIDE DEF o, r, e, w
  <2>12. Joined(e, o, m, Lines) /\ Joined(w, e, r, Lines)
    BY <2>6, <2>7, <2>8, ConcatJoins, Zenon DEF e, w
  <2>13. /\ w \in Seq(Lines) /\ Len(w) = (1 + Len(m)) + Len(r) /\ Len(m) \in Nat /\ Len(r) \in Nat
         /\ w[1] = x
         /\ \A i \in 1..Len(m) : w[1 + i] = m[i]
         /\ \A i \in 1..Len(r) : w[(1 + Len(m)) + i] = r[i]
    BY <2>6, <2>7, <2>12 DEF Joined
  <2>14. Follows(w, level)
    <3>1. w[1].level = level
      BY <2>5, <2>13, Zenon
    <3>2. w[1].level <= level
      BY <3>1
    <3>3. QED
      BY <3>2, Zenon DEF Follows
  <2>15. ASSUME NEW i \in 1..Len(w) PROVE w[i].level >= level
    <3>1. CASE i = 1
      <4>1. w[i].level = level
        BY <2>5, <2>13, <3>1, Zenon
      <4>2. QED
        BY <4>1
    <3>2. CASE i \in 2..(1 + Len(m))
      <4>1. i - 1 \in 1..Len(m) /\ 1 + (i - 1) = i
        BY <2>13, <3>2
      <4>2. w[i] = m[i - 1]
        BY <2>13, <4>1
      <4>3. m[i - 1].level > level
        BY <2>5, <4>1, Zenon DEF Below
      <4>4. m[i - 1] \in Lines
        BY <4>1, ElementOfSeq, Zenon
      <4>5. m[i - 1].level \in Nat
        BY <4>4 DEF Lines
      <4>6. m[i - 1].level >= level
        BY <4>3, <4>5
      <4>7. QED
        BY <4>2, <4>6, Zenon
    <3>3. CASE i \in (2 + Len(m))..Len(w)
      <4> DEFINE j == i - (1 + Len(m))
      <4>1. j \in 1..Len(r) /\ (1 + Len(m)) + j = i
        BY <2>13, <3>3
      <4> HIDE DEF j
      <4>2. w[i] = r[j]
        BY <2>13, <4>1
      <4>3. QED
        BY <2>7, <4>1, <4>2, Zenon
    <3>4. QED
      BY <2>13, <3>1, <3>2, <3>3
  <2>16. PrintsAll(n, s1, level)
    BY <2>9, <2>11, <2>13, <2>14, <2>15, Zenon DEF PrintsAll
  <2>17. QED
    BY <2>9, <2>16, Zenon
<1>3. Len(s) \in Nat
  BY LenProperties, Zenon
<1> HIDE DEF S, G
<1>4. Len(s) \in S
  BY <1>1, <1>2, <1>3, SetInduction, Zenon
<1>5. G(s)
  BY <1>4, Zenon DEF S
<1>6. QED
  BY <1>5, Zenon DEF G

\* Received lists are read back from what is printed of them, however deep the groups.
LEMMA PrintedBack ==
  ASSUME NEW n \in Nat, NEW s \in Seq(Received[n]), NEW level \in Nat
  PROVE  PrintsAll(n, s, level)
<1> DEFINE S == {k \in Nat : \A l \in Nat : \A a \in Received[k] : PrintsOne(k, a, l)}
<1>1. 0 \in S
  <2>1. ASSUME NEW l \in Nat, NEW a \in Received[0] PROVE PrintsOne(0, a, l)
    <3>1. a \in Shaped({<<>>}) /\ Sound(a)
      BY ReceivedFacts, Zenon
    <3>2. a.avps = <<>>
      BY <3>1 DEF Shaped
    <3>3. 0 \in Nat
      OBVIOUS
    <3>4. QED
      BY <3>1, <3>2, <3>3, PrintedOne, Zenon
  <2>2. 0 \in Nat
    OBVIOUS
  <2>3. QED
    BY <2>1, <2>2, Zenon
<1>2. \A k \in Nat : k \in S => k + 1 \in S
  <2>a. \A k \in Nat : k + 1 \in Nat
    OBVIOUS
  <2> SUFFICES ASSUME NEW k \in Nat, \A l \in Nat : \A a \in Received[k] : PrintsOne(k, a, l),
                      NEW l \in Nat, NEW a \in Received[k + 1]
               PROVE  PrintsOne(k + 1, a, l)
    BY <2>a, Zenon
  <2>1. k + 1 \in Nat /\ (k + 1) - 1 = k /\ l + 1 \in Nat
    OBVIOUS
  <2>2. /\ a \in Shaped(Seq(Received[k])) /\ Sound(a)
        /\ a.avps # <<>> => a.format = "Grouped"
    BY ReceivedFacts, Zenon DEF Around
  <2>3. a.avps \in Seq(Received[k])
    BY <2>2, ShapedFacts, Zenon
  <2>4. PrintsAll(k, a.avps, l + 1)
    BY <2>1, <2>3, PrintedList, Zenon
  <2>5. PrintsAll((k + 1) - 1, a.avps, l + 1)
    BY <2>1, <2>4, Zenon
  <2>6. QED
    BY <2>1, <2>2, <2>5, PrintedOne, Zenon
<1> HIDE DEF S
<1>3. n \in S
  BY <1>1, <1>2, SetInduction, Zenon
<1>4. QED
  BY <1>3, PrintedList, Zenon DEF S

\* Received AVPs may be nested less deep than the bound.
LEMMA ReceivedGrow ==
  ASSUME NEW n \in Nat
  PROVE  Received[n] \subseteq Received[n + 1]
<1> DEFINE S == {k \in Nat : Received[k] \subseteq Received[k + 1]}
<1>1. 0 \in S
  <2>1. 0 \in Nat /\ 0 + 1 \in Nat
    OBVIOUS
  <2>2. Received[0] \subseteq Received[0 + 1]
    BY <2>1, ReceivedType, Zenon
  <2>3. QED
    BY <2>1, <2>2, Zenon
<1>2. \A k \in Nat : k \in S => k + 1 \in S
  <2> SUFFICES ASSUME NEW k \in Nat, Received[k] \subseteq Received[k + 1]
               PROVE  Received[k + 1] \subseteq Received[(k + 1) + 1]
    OBVIOUS
  <2>1. Seq(Received[k]) \subseteq Seq(Received[k + 1])
    BY SeqMonotonic, Zenon
  <2>2. Shaped(Seq(Received[k])) \subseteq Shaped(Seq(Received[k + 1]))
    BY <2>1 DEF Shaped
  <2>3. Around(Received[k]) \subseteq Around(Received[k + 1])
    BY <2>2, Zenon DEF Around
  <2>4. k + 1 \in Nat
    OBVIOUS
  <2>5. QED
    BY <2>3, <2>4, ReceivedFacts, Zenon
<1> HIDE DEF S
<1>3. n \in S
  BY <1>1, <1>2, SetInduction
<1>4. QED
  BY <1>3, Zenon DEF S

\* Up to any greater depth.
LEMMA ReceivedMonotone ==
  ASSUME NEW n \in Nat, NEW m \in Nat, n <= m
  PROVE  Received[n] \subseteq Received[m]
<1> DEFINE S == {k \in Nat : n <= k => Received[n] \subseteq Received[k]}
<1>1. 0 \in S
  OBVIOUS
<1>2. \A k \in Nat : k \in S => k + 1 \in S
  <2> SUFFICES ASSUME NEW k \in Nat, k \in S, n <= k + 1
               PROVE  Received[n] \subseteq Received[k + 1]
    OBVIOUS
  <2>1. CASE n <= k
    BY <2>1, ReceivedGrow
  <2>2. CASE n = k + 1
    BY <2>2
  <2>3. QED
    BY <2>1, <2>2
<1> HIDE DEF S
<1>3. m \in S
  BY <1>1, <1>2, SetInduction
<1>4. QED
  BY <1>3 DEF S

\* A sequence is the concatenation of its elements, each alone in a sequence.
LEMMA FlattenSingles ==
  ASSUME NEW S, NEW s \in Seq(S)
  PROVE  FlattenSeq([i \in 1..Len(s) |-> <<s[i]>>]) = s
<1> DEFINE n == Len(s)
           t == [i \in 1..n |-> <<s[i]>>]
           f == [i \in 0..n |-> SubSeq(s, 1, i)]
<1>1. n \in Nat /\ \A i \in 1..n : s[i] \in S
  OBVIOUS
<1>2. t \in Seq(Seq(S)) /\ Len(t) = n
  OBVIOUS
<1>3. f \in [0..n -> Seq(S)]
  <2>1. ASSUME NEW i \in 0..n PROVE SubSeq(s, 1, i) \in Seq(S)
    BY <1>1
  <2>2. QED
    BY <2>1, Zenon
<1>4. f[0] = <<>>
  <2>1. SubSeq(s, 1, 0) = <<>>
    OBVIOUS
  <2>2. 0 \in 0..n
    BY <1>1
  <2>3. QED
    BY <2>1, <2>2, Zenon
<1>5. f[n] = s
  <2>1. SubSeq(s, 1, n) = s
    OBVIOUS
  <2>2. n \in 0..n
    BY <1>1
  <2>3. QED
    BY <2>1, <2>2, Zenon
<1>6. ASSUME NEW i \in 1..n PROVE f[i] = f[i - 1] \o t[i]
  <2>1. i - 1 \in 0..n /\ i \in 0..n
    BY <1>1
  <2>2. SubSeq(s, 1, i) = SubSeq(s, 1, i - 1) \o <<s[i]>>
    BY <1>1
  <2>3. QED
    BY <2>1, <2>2, Zenon
<1> HIDE DEF n, t, f
<1>7. Flattens(f, t, S)
  BY <1>2, <1>3, <1>4, <1>6, Zenon DEF Flattens
<1>8. FlattenSeq(t) = s
  BY <1>2, <1>5, <1>7, FlattenIs, Zenon
<1>9. QED
  BY <1>8, Zenon DEF t, n

\* Lines without a line break in them are seen as they are printed.
LEMMA SeenAsPrinted ==
  ASSUME NEW lines \in Seq(Lines), \A i \in 1..Len(lines) : SeenWhole(lines[i])
  PROVE  FlattenSeq([i \in 1..Len(lines) |-> TextLines(lines[i])]) = lines
<1>1. ASSUME NEW i \in 1..Len(lines) PROVE TextLines(lines[i]) = <<lines[i]>>
  BY Zenon DEF SeenWhole, TextLines
<1>2. [i \in 1..Len(lines) |-> TextLines(lines[i])] = [i \in 1..Len(lines) |-> <<lines[i]>>]
  BY <1>1, Zenon
<1>3. QED
  BY <1>2, FlattenSingles, Zenon

\* A received message is printed in full: the octets it came in can be made again of
\* the lines, for any message that fits and has no line break in a string, with groups
\* at any depth and AVPs the dictionary does not know.
THEOREM PrintsAllOfIt == RelaySpec => []PrintedInFull
<1>1. ASSUME CodecInv PROVE PrintedInFull
  <2> SUFFICES ASSUME phase = "decoded", WireFits, KeptAsOctets,
                      LET lines == avpsToString[MaxDepth][got.avps][0]
                      IN  \A i \in 1..Len(lines) : SeenWhole(lines[i])
               PROVE  LET printed == MessageToString(got)
                      IN  Encode([header |-> printed.header, avps |-> Reread[printed.lines]]) = wire
    BY Zenon DEF PrintedInFull
  <2>1. PICK r : got = [header |-> mess.header, avps |-> r] /\ r \in Seq(Received[depth])
    BY <1>1, WhatIsRead, Zenon
  <2>2. depth \in Nat /\ MaxDepth \in Nat /\ depth <= MaxDepth /\ 0 \in Nat
    <3>1. depth \in 0..MaxDepth
      BY <1>1, Zenon DEF CodecInv, CodecTypeOK
    <3>2. QED
      BY <3>1, CodecAssumption
  <2>3. r \in Seq(Received[MaxDepth])
    BY <2>1, <2>2, ReceivedMonotone, SeqMonotonic, Zenon
  <2>4. PrintsAll(MaxDepth, r, 0)
    BY <2>2, <2>3, PrintedBack, Zenon
  <2> DEFINE lines == avpsToString[MaxDepth][r][0]
             printed == MessageToString(got)
  <2>5. Reread[lines] = r /\ lines \in Seq(Lines)
    BY <2>4, Zenon DEF PrintsAll
  <2>6. got.header = mess.header /\ got.avps = r
    BY <2>1
  <2>a. FlattenSeq([i \in 1..Len(lines) |-> TextLines(lines[i])]) = lines
    <3>1. \A i \in 1..Len(lines) : SeenWhole(lines[i])
      BY <2>6, Zenon
    <3> HIDE DEF lines
    <3>2. QED
      BY <2>5, <3>1, SeenAsPrinted, Zenon
  <2>7. printed = [header |-> mess.header, lines |-> lines]
    BY <2>6, <2>a, Zenon DEF MessageToString
  <2> HIDE DEF lines, printed
  <2>8. printed.header = mess.header /\ printed.lines = lines
    BY <2>7
  <2>9. [header |-> printed.header, avps |-> Reread[printed.lines]] = got
    BY <2>1, <2>5, <2>8, Zenon
  <2>10. RelayedUnchanged
    BY <1>1, EncodesAgain, Zenon
  <2>11. Encode(got) = wire
    BY <2>10, Zenon DEF RelayedUnchanged
  <2>12. QED
    BY <2>9, <2>11, Zenon DEF printed
<1>2. RelayInv => CodecInv
  BY Zenon DEF RelayInv
<1>3. QED
  BY <1>1, <1>2, RelayInvariant, PTL

=============================================================================
