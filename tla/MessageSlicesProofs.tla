------------------------- MODULE MessageSlicesProofs -------------------------
(***************************************************************************)
(* Proofs about MessageSlices for any number of variables, workers and     *)
(* calls: a variable that is believed to be its own holds what it is       *)
(* believed to hold, and a worker encodes a message as it was sent.        *)
(*                                                                         *)
(* The argument is about who has an array.  Two variables that have the    *)
(* same one are both unsure; so is a variable that has the array of the    *)
(* pointer or of a message under way without being the one it came from.   *)
(* Whoever has the array of a message under way has at least that message  *)
(* in front, so an append writes behind it.                                *)
(***************************************************************************)
EXTENDS MessageSlices, TLAPS, SequenceTheorems

Slice == [arr : Nat, len : Nat]

Nothing == [arr |-> 0, len |-> 0]

Fits(s) == s.arr \in 1..Len(heap) /\ s.len <= Len(heap[s.arr])

Typed ==
  /\ heap \in Seq(Seq(Nat))
  /\ slice \in [Variables -> Slice]
  /\ \A v \in Variables : slice[v] = Nothing \/ Fits(slice[v])
  /\ pointer \in [arr : Nat, i : Nat, of : Variables \union {None}, at : Nat, fresh : BOOLEAN]
  /\ pointer.arr \in 0..Len(heap)
  /\ pointer.of # None => pointer.arr # 0 /\ pointer.i \in 1..Len(heap[pointer.arr])
  /\ job \in [Workers -> [of : Variables \union {None}, slice : Slice, out : Seq(Nat),
                          meant : Seq(Nat), sure : BOOLEAN]]
  /\ \A w \in Workers : job[w].slice = Nothing \/ Fits(job[w].slice)
  /\ ops \in Nat
  /\ meant \in [Variables -> Seq(Nat)]
  /\ unsure \subseteq Variables

-----------------------------------------------------------------------------
\* v has the array a without being the variable it came from.
Borrows(v, a, from) == Made(v) /\ slice[v].arr = a /\ v # from

\* Whoever shares an array is unsure.
SharingInv ==
  \A v, u \in Variables : Made(u) /\ Borrows(v, slice[u].arr, u) => v \in unsure

\* A fresh pointer points into the variable it was found in; nobody else has its
\* array without being unsure.
PointerInv ==
  /\ \A v \in Variables : Borrows(v, pointer.arr, pointer.of) => v \in unsure
  /\ pointer.fresh =>
       /\ pointer.of \in Variables /\ Made(pointer.of)
       /\ slice[pointer.of].arr = pointer.arr
       /\ pointer.at = pointer.i /\ pointer.i <= slice[pointer.of].len

\* A message under way still lies where it was sent from, and nobody who has its
\* array appends into it.
JobInv(j) ==
  j.sure =>
    /\ Fits(j.slice) /\ Contents(j.slice) = j.meant
    /\ Len(j.out) <= j.slice.len
    /\ \A i \in 1..Len(j.out) : j.out[i] = j.meant[i]
    /\ \A v \in Variables :
         /\ Borrows(v, j.slice.arr, j.of) => v \in unsure
         /\ Made(v) /\ slice[v].arr = j.slice.arr => j.slice.len <= slice[v].len

JobsInv == \A w \in Workers : JobInv(job[w])

IndInv == Typed /\ SharingInv /\ PointerInv /\ JobsInv /\ OwnContents
-----------------------------------------------------------------------------
(***************************************************************************)
(* Memory.                                                                 *)
(***************************************************************************)
\* What a slice of arrays h contains.
LEMMA SliceOf ==
  ASSUME NEW h \in Seq(Seq(Nat)), NEW s \in Slice, s.arr \in 1..Len(h), s.len <= Len(h[s.arr])
  PROVE  LET c == SubSeq(h[s.arr], 1, s.len)
         IN  /\ c \in Seq(Nat) /\ Len(c) = s.len
             /\ \A i \in 1..s.len : c[i] = h[s.arr][i]
<1>1. PICK a \in Seq(Nat) : a = h[s.arr]
  BY ElementOfSeq
<1>2. s.len \in Nat /\ Len(a) \in Nat /\ s.len <= Len(a)
  BY <1>1, LenProperties DEF Slice
<1>3. \A i \in 1..s.len : i \in 1..Len(a) /\ a[i] \in Nat
  BY <1>2, ElementOfSeq
<1>4. QED
  BY <1>1, <1>2, <1>3, SubSeqProperties

\* Elements b written into the array a behind its first n.
LEMMA Written ==
  ASSUME NEW a \in Seq(Nat), NEW b \in Seq(Nat), NEW n \in Nat, n + Len(b) <= Len(a)
  PROVE  LET c == SubSeq(a, 1, n) \o b \o SubSeq(a, n + Len(b) + 1, Len(a))
         IN  /\ c \in Seq(Nat) /\ Len(c) = Len(a)
             /\ \A i \in 1..n : c[i] = a[i]
             /\ \A i \in 1..Len(b) : c[n + i] = b[i]
<1> DEFINE p == SubSeq(a, 1, n)
           r == SubSeq(a, n + Len(b) + 1, Len(a))
<1>1. Len(a) \in Nat /\ Len(b) \in Nat
  BY LenProperties
<1>2. \A i \in 1..Len(a) : a[i] \in Nat
  BY ElementOfSeq
<1>3. p \in Seq(Nat) /\ Len(p) = n /\ \A i \in 1..n : p[i] = a[i]
  <2>1. \A i \in 1..n : i \in 1..Len(a)
    BY <1>1
  <2>2. QED
    BY <1>1, <1>2, <2>1, SubSeqProperties
<1>4. r \in Seq(Nat) /\ Len(r) = Len(a) - (n + Len(b))
  <2> DEFINE m == n + Len(b) + 1
             k == Len(a)
  <2>1. m \in Int /\ k \in Int /\ (IF m <= k THEN k - m + 1 ELSE 0) = k - (n + Len(b))
    BY <1>1
  <2>2. \A i \in m..k : a[i] \in Nat
    BY <1>1, <1>2
  <2> HIDE DEF m, k
  <2>3. SubSeq(a, m, k) \in Seq(Nat) /\ Len(SubSeq(a, m, k)) = IF m <= k THEN k - m + 1 ELSE 0
    BY <2>1, <2>2, SubSeqProperties
  <2>4. QED
    BY <2>1, <2>3 DEF m, k
<1> HIDE DEF p, r
<1>5. PICK q \in Seq(Nat) : /\ q = p \o b /\ Len(q) = n + Len(b)
                            /\ \A i \in 1..n : q[i] = a[i]
                            /\ \A i \in 1..Len(b) : q[n + i] = b[i]
  <2>1. /\ p \o b \in Seq(Nat) /\ Len(p \o b) = n + Len(b)
        /\ \A i \in 1..(n + Len(b)) : (p \o b)[i] = IF i <= n THEN p[i] ELSE b[i - n]
    BY <1>3, ConcatProperties
  <2>2. \A i \in 1..n : i \in 1..(n + Len(b)) /\ i <= n
    BY <1>1
  <2>3. \A i \in 1..Len(b) : n + i \in 1..(n + Len(b)) /\ ~(n + i <= n) /\ (n + i) - n = i
    BY <1>1
  <2>4. \A i \in 1..n : (p \o b)[i] = a[i]
    BY <1>3, <2>1, <2>2
  <2>5. ASSUME NEW i \in 1..Len(b)
        PROVE  (p \o b)[n + i] = b[i]
    <3>1. (p \o b)[n + i] = b[(n + i) - n]
      BY <2>1, <2>3
    <3>2. QED
      BY <2>3, <3>1
  <2>6. QED
    BY <2>1, <2>4, <2>5, Zenon
<1>6. /\ q \o r \in Seq(Nat) /\ Len(q \o r) = Len(q) + Len(r)
      /\ \A i \in 1..Len(q) : (q \o r)[i] = q[i]
  <2> r \in Seq(Nat)
    BY <1>4
  <2>1. /\ q \o r \in Seq(Nat) /\ Len(q \o r) = Len(q) + Len(r)
        /\ \A i \in 1..(Len(q) + Len(r)) : (q \o r)[i] = IF i <= Len(q) THEN q[i] ELSE r[i - Len(q)]
    BY ConcatProperties
  <2>2. \A i \in 1..Len(q) : i \in 1..(Len(q) + Len(r)) /\ i <= Len(q)
    BY <1>4, LenProperties
  <2>3. QED
    BY <2>1, <2>2
<1>7. (n + Len(b)) + Len(r) = Len(a)
  BY <1>1, <1>4
<1>8. /\ \A i \in 1..n : i \in 1..Len(q)
      /\ \A i \in 1..Len(b) : n + i \in 1..Len(q)
  BY <1>1, <1>5
<1>9. QED
  BY <1>5, <1>6, <1>7, <1>8 DEF p, r

\* Slices that do not reach beyond the first n of array a keep what they contain.
Keeps(a, n) ==
  /\ heap' \in Seq(Seq(Nat)) /\ Len(heap) <= Len(heap')
  /\ \A j \in 1..Len(heap) : Len(heap'[j]) = Len(heap[j])
  /\ \A s \in Slice : Fits(s) /\ (s.arr # a \/ s.len <= n) => Contents(s)' = Contents(s)

LEMMA FitsStill ==
  ASSUME Typed, NEW a, NEW n, Keeps(a, n), NEW s \in Slice, Fits(s)
  PROVE  Fits(s)'
<1>1. Len(heap) \in Nat /\ Len(heap') \in Nat
  BY LenProperties DEF Typed, Keeps
<1>2. QED
  BY <1>1 DEF Fits, Keeps

\* An array more, and nothing is written into those there were.
LEMMA AllocatedKeeps ==
  ASSUME Typed, NEW v, NEW avps \in Seq(Nat), NEW believed, Allocated(v, avps, believed)
  PROVE  /\ \A a, n : Keeps(a, n)
         /\ \E s \in Slice : /\ Assigned(v, s, believed)
                             /\ s.arr = Len(heap) + 1 /\ s.len = Len(avps) /\ Fits(s)'
                             /\ Contents(s)' = avps
<1>1. PICK spare \in 0..MaxSpare :
        /\ heap' = Append(heap, avps \o [i \in 1..spare |-> 0])
        /\ Assigned(v, [arr |-> Len(heap) + 1, len |-> Len(avps)], believed)
  BY DEF Allocated
<1>2. PICK z \in Seq(Nat) : z = [i \in 1..spare |-> 0]
  <2>1. spare \in Nat
    BY MessageSlicesAssumption
  <2>2. [i \in 1..spare |-> 0] \in Seq(Nat)
    BY <2>1
  <2>3. QED
    BY <2>2
<1>3. PICK b \in Seq(Nat) : /\ b = avps \o z
                             /\ Len(b) = Len(avps) + Len(z)
                             /\ \A i \in 1..Len(avps) : b[i] = avps[i]
  <2>1. /\ avps \o z \in Seq(Nat) /\ Len(avps \o z) = Len(avps) + Len(z)
        /\ \A i \in 1..(Len(avps) + Len(z)) :
             (avps \o z)[i] = IF i <= Len(avps) THEN avps[i] ELSE z[i - Len(avps)]
    BY ConcatProperties
  <2>2. \A i \in 1..Len(avps) : i \in 1..(Len(avps) + Len(z)) /\ i <= Len(avps)
    BY LenProperties
  <2>3. QED
    BY <2>1, <2>2
<1>4. /\ heap' \in Seq(Seq(Nat)) /\ Len(heap) \in Nat /\ Len(heap') = Len(heap) + 1
      /\ heap'[Len(heap) + 1] = b /\ \A j \in 1..Len(heap) : heap'[j] = heap[j]
  BY <1>1, <1>2, <1>3, AppendProperties, LenProperties DEF Typed
<1>5. ASSUME NEW a, NEW n PROVE Keeps(a, n)
  <2>1. \A s \in Slice : Fits(s) => Contents(s)' = Contents(s)
    BY <1>4 DEF Fits, Contents
  <2>2. QED
    BY <1>4, <2>1 DEF Keeps
<1>6. PICK s \in Slice : s.arr = Len(heap) + 1 /\ s.len = Len(avps) /\ Assigned(v, s, believed)
  BY <1>1, <1>4, LenProperties DEF Slice
<1>7. Fits(s)'
  BY <1>3, <1>4, <1>6, LenProperties DEF Fits
<1>8. Contents(s)' = avps
  <2> DEFINE c == SubSeq(heap'[s.arr], 1, s.len)
  <2>1. c \in Seq(Nat) /\ Len(c) = s.len /\ \A i \in 1..s.len : c[i] = heap'[s.arr][i]
    BY <1>4, <1>7, SliceOf DEF Fits
  <2> HIDE DEF c
  <2>2. \A i \in 1..Len(avps) : c[i] = avps[i]
    BY <1>3, <1>4, <1>6, <2>1
  <2>3. c = avps
    BY <1>6, <2>1, <2>2, SeqEqual
  <2>4. QED
    BY <2>3 DEF c, Contents
<1>9. QED
  BY <1>5, <1>6, <1>7, <1>8

\* append writes behind its first argument or into a new array.
LEMMA AppendToKeeps ==
  ASSUME Typed, NEW v, NEW first \in Slice, Fits(first), NEW avps \in Seq(Nat), NEW believed,
         AppendTo(v, first, avps, believed)
  PROVE  /\ Keeps(first.arr, first.len)
         /\ \E s \in Slice : /\ Assigned(v, s, believed) /\ Fits(s)'
                             /\ Contents(s)' = Contents(first) \o avps
                             /\ \/ s.arr = Len(heap) + 1
                                \/ /\ s.arr = first.arr /\ first.len <= s.len
                                   /\ Len(avps) <= Room(first)
<1>1. /\ heap \in Seq(Seq(Nat)) /\ first.arr \in 1..Len(heap) /\ first.len <= Len(heap[first.arr])
      /\ first.len \in Nat /\ first.arr \in Nat /\ Len(avps) \in Nat /\ Len(heap) \in Nat
  BY LenProperties DEF Typed, Fits, Slice
<1>2. PICK c \in Seq(Nat) :
        c = Contents(first) /\ Len(c) = first.len /\ \A i \in 1..first.len : c[i] = heap[first.arr][i]
  BY <1>1, SliceOf DEF Contents
<1>3. c \o avps \in Seq(Nat)
  BY ConcatProperties
<1>4. CASE ~(Len(avps) <= Room(first))
  <2>1. Allocated(v, c \o avps, believed)
    BY <1>2, <1>4 DEF AppendTo
  <2>2. QED
    BY <1>2, <1>3, <2>1, AllocatedKeeps
<1>5. CASE Len(avps) <= Room(first)
  <2>1. PICK a \in Seq(Nat) : a = heap[first.arr] /\ Len(a) \in Nat
    BY <1>1, ElementOfSeq, LenProperties
  <2>2. first.len + Len(avps) <= Len(a)
    BY <1>1, <1>5, <2>1 DEF Room
  <2>3. PICK b \in Seq(Nat) :
          /\ b = SubSeq(a, 1, first.len) \o avps
                   \o SubSeq(a, first.len + Len(avps) + 1, Len(a))
          /\ Len(b) = Len(a)
          /\ \A i \in 1..first.len : b[i] = a[i]
          /\ \A i \in 1..Len(avps) : b[first.len + i] = avps[i]
    <3> DEFINE written == SubSeq(a, 1, first.len) \o avps
                            \o SubSeq(a, first.len + Len(avps) + 1, Len(a))
    <3>1. /\ written \in Seq(Nat) /\ Len(written) = Len(a)
          /\ \A i \in 1..first.len : written[i] = a[i]
          /\ \A i \in 1..Len(avps) : written[first.len + i] = avps[i]
      BY <1>1, <2>2, Written
    <3>2. QED
      BY <3>1, Zenon
  <2>4. /\ heap' = [heap EXCEPT ![first.arr] = b]
        /\ Assigned(v, [arr |-> first.arr, len |-> first.len + Len(avps)], believed)
    BY <1>5, <2>1, <2>3 DEF AppendTo
  <2>5. /\ heap' \in Seq(Seq(Nat)) /\ Len(heap') = Len(heap) /\ heap'[first.arr] = b
        /\ \A j \in 1..Len(heap) : j # first.arr => heap'[j] = heap[j]
    BY <1>1, <2>4, ExceptSeq
  <2>6. Keeps(first.arr, first.len)
    <3>1. \A j \in 1..Len(heap) : Len(heap'[j]) = Len(heap[j])
      BY <2>1, <2>3, <2>5
    <3>2. ASSUME NEW s \in Slice, Fits(s), s.arr # first.arr \/ s.len <= first.len
          PROVE  Contents(s)' = Contents(s)
      <4>1. CASE s.arr # first.arr
        BY <2>5, <3>2, <4>1 DEF Fits, Contents
      <4>2. CASE s.arr = first.arr /\ s.len <= first.len
        <5>1. /\ s.len \in Nat /\ s.len <= Len(a) /\ s.len <= Len(b) /\ s.arr \in 1..Len(heap)
              /\ \A i \in 1..s.len : i \in 1..first.len
          BY <1>1, <2>1, <2>3, <3>2, <4>2 DEF Fits, Slice
        <5> DEFINE d == SubSeq(heap[s.arr], 1, s.len)
                   e == SubSeq(heap'[s.arr], 1, s.len)
        <5>a. /\ heap \in Seq(Seq(Nat)) /\ heap[s.arr] = a
              /\ heap' \in Seq(Seq(Nat)) /\ s.arr \in 1..Len(heap') /\ heap'[s.arr] = b
          BY <1>1, <2>1, <2>5, <4>2, <5>1
        <5>2. d \in Seq(Nat) /\ Len(d) = s.len /\ \A i \in 1..s.len : d[i] = a[i]
          BY <5>1, <5>a, SliceOf
        <5>3. e \in Seq(Nat) /\ Len(e) = s.len /\ \A i \in 1..s.len : e[i] = b[i]
          BY <5>1, <5>a, SliceOf
        <5> HIDE DEF d, e
        <5>4. \A i \in 1..s.len : d[i] = e[i]
          BY <2>3, <5>1, <5>2, <5>3
        <5>5. d = e
          BY <5>2, <5>3, <5>4, SeqEqual
        <5>6. QED
          BY <5>5 DEF d, e, Contents
      <4>3. QED
        BY <3>2, <4>1, <4>2
    <3>3. QED
      BY <1>1, <2>5, <3>1, <3>2 DEF Keeps
  <2>7. PICK s \in Slice : /\ s.arr = first.arr /\ s.len = first.len + Len(avps)
                            /\ Assigned(v, s, believed)
    <3>1. first.len + Len(avps) \in Nat
      BY <1>1
    <3>2. [arr |-> first.arr, len |-> first.len + Len(avps)] \in Slice
      BY <1>1, <3>1 DEF Slice
    <3>3. QED
      BY <2>4, <3>2
  <2>8. Fits(s)'
    BY <1>1, <2>2, <2>3, <2>5, <2>7 DEF Fits
  <2>9. Contents(s)' = c \o avps
    <3> DEFINE d == SubSeq(heap'[s.arr], 1, s.len)
    <3>1. d \in Seq(Nat) /\ Len(d) = s.len /\ \A i \in 1..s.len : d[i] = b[i]
      BY <2>5, <2>7, <2>8, SliceOf DEF Fits
    <3>2. /\ Len(c \o avps) = first.len + Len(avps)
          /\ \A i \in 1..(first.len + Len(avps)) :
               (c \o avps)[i] = IF i <= first.len THEN c[i] ELSE avps[i - first.len]
      BY <1>2, ConcatProperties
    <3> HIDE DEF d
    <3>3. ASSUME NEW i \in 1..s.len PROVE d[i] = (c \o avps)[i]
      <4>1. CASE i <= first.len
        <5>1. i \in 1..first.len /\ i \in 1..(first.len + Len(avps))
          BY <1>1, <2>7, <4>1
        <5>2. d[i] = heap[first.arr][i]
          BY <2>1, <2>3, <3>1, <5>1
        <5>3. (c \o avps)[i] = heap[first.arr][i]
          BY <1>2, <3>2, <4>1, <5>1
        <5>4. QED
          BY <5>2, <5>3
      <4>2. CASE ~(i <= first.len)
        <5>1. /\ i - first.len \in 1..Len(avps) /\ i = first.len + (i - first.len)
              /\ i \in 1..(first.len + Len(avps))
          <6>1. i \in Nat /\ i <= first.len + Len(avps)
            BY <1>1, <2>7
          <6>2. QED
            BY <1>1, <4>2, <6>1
        <5>2. d[i] = avps[i - first.len]
          BY <2>3, <3>1, <5>1
        <5>3. (c \o avps)[i] = avps[i - first.len]
          BY <3>2, <4>2, <5>1
        <5>4. QED
          BY <5>2, <5>3
      <4>3. QED
        BY <4>1, <4>2
    <3>4. d = c \o avps
      BY <1>3, <2>7, <3>1, <3>2, <3>3, SeqEqual
    <3>5. QED
      BY <3>4 DEF d, Contents
  <2>10. first.len <= s.len
    BY <1>1, <2>7
  <2>11. QED
    BY <1>2, <1>5, <2>6, <2>7, <2>8, <2>9, <2>10
<1>6. QED
  BY <1>4, <1>5
-----------------------------------------------------------------------------
(***************************************************************************)
(* The invariant.                                                          *)
(***************************************************************************)
LEMMA MadeFits ==
  ASSUME Typed, NEW v \in Variables, Made(v)
  PROVE  slice[v] \in Slice /\ Fits(slice[v])
  BY DEF Typed, Made, Nothing

\* A variable gets a slice of a new array, or of the array of f behind what f has
\* there; if that is another variable, both are unsure from then on.
LEMMA AssignKeeps ==
  ASSUME IndInv, ops' \in Nat,
         NEW v \in Variables, NEW s \in Slice, NEW b \in Seq(Nat), Assigned(v, s, b), Fits(s)',
         NEW f \in Variables, Keeps(slice[f].arr, slice[f].len),
         unsure' \subseteq Variables, unsure \ {v} \subseteq unsure',
         v \notin unsure' => Contents(s)' = b,
         \/ s.arr = Len(heap) + 1
         \/ /\ s.arr = slice[f].arr /\ slice[f].len <= s.len
            /\ f = v => (v \in unsure => v \in unsure')
            /\ f # v => v \in unsure' /\ f \in unsure'
  PROVE  IndInv'
<1> USE DEF IndInv
<1>1. /\ slice' = [slice EXCEPT ![v] = s] /\ meant' = [meant EXCEPT ![v] = b]
      /\ pointer' = [pointer EXCEPT !.fresh = @ /\ pointer.of # v] /\ job' = job
  BY DEF Assigned
<1>2. /\ slice'[v] = s /\ \A u \in Variables : u # v => slice'[u] = slice[u]
      /\ meant'[v] = b /\ \A u \in Variables : u # v => meant'[u] = meant[u]
  BY <1>1 DEF Typed
<1>3. /\ pointer'.arr = pointer.arr /\ pointer'.i = pointer.i /\ pointer'.of = pointer.of
      /\ pointer'.at = pointer.at /\ pointer'.fresh \in BOOLEAN
      /\ pointer'.fresh => pointer.fresh /\ pointer.of # v
      /\ pointer' \in [arr : Nat, i : Nat, of : Variables \union {None}, at : Nat, fresh : BOOLEAN]
  BY <1>1 DEF Typed
<1>4. Len(heap) \in Nat /\ Len(heap') \in Nat /\ Len(heap) <= Len(heap') /\ heap' \in Seq(Seq(Nat))
  BY LenProperties DEF Typed, Keeps
<1>5. s.arr \in Nat /\ s.arr # 0 /\ s.len \in Nat
  BY <1>4 DEF Fits, Slice
<1>6. \A u \in Variables : /\ slice[u] \in Slice /\ slice[u].arr \in Nat /\ slice[u].len \in Nat
                           /\ Made(u) => Fits(slice[u]) /\ slice[u].arr <= Len(heap)
  <2>1. \A u \in Variables : slice[u] \in Slice
    BY DEF Typed
  <2>2. \A u \in Variables : Made(u) => Fits(slice[u])
    BY MadeFits
  <2>3. QED
    BY <1>4, <2>1, <2>2 DEF Fits, Slice
\* Who has an array now had it before, or is v.
<1>7. ASSUME NEW a \in 0..Len(heap), NEW from, NEW u \in Variables,
             \A x \in Variables : Borrows(x, a, from) => x \in unsure,
             Made(u)', slice'[u].arr = a, u # from
      PROVE  u \in unsure'
  <2>1. CASE u # v
    <3>1. Borrows(u, a, from)
      BY <1>2, <1>7, <2>1 DEF Borrows, Made
    <3>2. QED
      BY <1>7, <2>1, <3>1
  <2>2. CASE u = v
    <3>1. s.arr = a /\ s.arr # Len(heap) + 1
      BY <1>2, <1>4, <1>7, <2>2
    <3>2. CASE f = v
      <4>1. Borrows(v, a, from)
        BY <1>5, <1>7, <2>2, <3>1, <3>2 DEF Borrows, Made
      <4>2. QED
        BY <1>7, <2>2, <3>1, <3>2, <4>1
    <3>3. CASE f # v
      BY <2>2, <3>1, <3>3
    <3>4. QED
      BY <3>2, <3>3
  <2>3. QED
    BY <2>1, <2>2
<1>8. Typed'
  <2>1. slice' \in [Variables -> Slice] /\ meant' \in [Variables -> Seq(Nat)]
    BY <1>1 DEF Typed
  <2>2. ASSUME NEW u \in Variables PROVE slice'[u] = Nothing \/ Fits(slice[u])'
    <3>1. CASE u = v
      BY <1>2, <3>1 DEF Fits
    <3>2. CASE u # v
      <4>1. slice[u] = Nothing \/ (slice[u] \in Slice /\ Fits(slice[u]))
        BY <1>6 DEF Typed
      <4>2. CASE slice[u] = Nothing
        BY <1>2, <3>2, <4>2
      <4>3. CASE slice[u] \in Slice /\ Fits(slice[u])
        <5>1. PICK t \in Slice : t = slice[u] /\ t = slice'[u]
          BY <1>2, <3>2, <4>3
        <5>2. Fits(t)'
          BY <4>3, <5>1, FitsStill
        <5>3. QED
          BY <5>1, <5>2 DEF Fits
      <4>4. QED
        BY <4>1, <4>2, <4>3
    <3>3. QED
      BY <3>1, <3>2
  <2>3. pointer'.of # None => pointer'.arr # 0 /\ pointer'.i \in 1..Len(heap'[pointer'.arr])
    <3>1. pointer.arr # 0 => pointer.arr \in 1..Len(heap)
      BY <1>4 DEF Typed
    <3>2. QED
      BY <1>3, <3>1 DEF Typed, Keeps
  <2>4. pointer'.arr \in 0..Len(heap')
    BY <1>3, <1>4 DEF Typed
  <2>5. ASSUME NEW w \in Workers PROVE job'[w].slice = Nothing \/ Fits(job[w].slice)'
    <3>1. PICK t \in Slice : t = job[w].slice /\ t = job'[w].slice
      BY <1>1 DEF Typed
    <3>2. Fits(t) => Fits(t)'
      BY FitsStill
    <3>3. QED
      BY <1>1, <3>1, <3>2 DEF Typed, Fits
  <2>6. QED
    BY <1>1, <1>3, <1>4, <2>1, <2>2, <2>3, <2>4, <2>5 DEF Typed
<1>9. SharingInv'
  <2> SUFFICES ASSUME NEW x \in Variables, NEW u \in Variables, Made(u)', Made(x)',
                      slice'[x].arr = slice'[u].arr, x # u
               PROVE  x \in unsure'
    BY DEF SharingInv, Borrows
  <2>1. CASE u # v
    <3>1. slice'[u] = slice[u] /\ Made(u)
      BY <1>2, <2>1 DEF Made
    <3>2. slice[u].arr \in 0..Len(heap)
      BY <1>4, <1>6, <3>1
    <3>3. \A y \in Variables : Borrows(y, slice[u].arr, u) => y \in unsure
      BY <3>1 DEF SharingInv
    <3>4. QED
      BY <1>7, <3>1, <3>2, <3>3
  <2>2. CASE u = v
    <3>1. x # v /\ slice'[x] = slice[x] /\ Made(x) /\ slice[x].arr = s.arr
      BY <1>2, <2>2 DEF Made
    <3>2. s.arr = slice[f].arr /\ Made(f)
      BY <1>4, <1>5, <1>6, <3>1 DEF Made
    <3>3. CASE x = f
      BY <1>4, <1>6, <3>1, <3>2, <3>3
    <3>4. CASE x # f
      <4>1. Borrows(x, slice[f].arr, f)
        BY <3>1, <3>2, <3>4 DEF Borrows
      <4>2. x \in unsure
        BY <3>2, <4>1 DEF SharingInv
      <4>3. QED
        BY <3>1, <4>2
    <3>5. QED
      BY <3>3, <3>4
  <2>3. QED
    BY <2>1, <2>2
<1>10. PointerInv'
  <2>1. ASSUME NEW u \in Variables, Borrows(u, pointer.arr, pointer.of)'
        PROVE  u \in unsure'
    <3>1. pointer.arr \in 0..Len(heap) /\ Made(u)' /\ slice'[u].arr = pointer.arr /\ u # pointer.of
      BY <1>3, <2>1 DEF Borrows, Typed
    <3>2. \A x \in Variables : Borrows(x, pointer.arr, pointer.of) => x \in unsure
      BY DEF PointerInv
    <3>3. QED
      BY <1>7, <3>1, <3>2
  <2>2. ASSUME pointer'.fresh
        PROVE  /\ pointer'.of \in Variables /\ Made(pointer.of)'
               /\ slice'[pointer'.of].arr = pointer'.arr
               /\ pointer'.at = pointer'.i /\ pointer'.i <= slice'[pointer'.of].len
    <3>1. pointer.fresh /\ pointer.of # v
      BY <1>3, <2>2
    <3>2. pointer.of \in Variables /\ slice'[pointer.of] = slice[pointer.of]
      BY <1>2, <3>1 DEF PointerInv
    <3>3. QED
      BY <1>3, <3>1, <3>2 DEF PointerInv, Made
  <2>3. QED
    BY <2>1, <2>2 DEF PointerInv
<1>11. JobsInv'
  <2> SUFFICES ASSUME NEW w \in Workers, NEW j, j = job[w], j.sure
               PROVE  /\ Fits(j.slice)' /\ Contents(j.slice)' = j.meant
                      /\ Len(j.out) <= j.slice.len
                      /\ \A i \in 1..Len(j.out) : j.out[i] = j.meant[i]
                      /\ \A x \in Variables :
                           /\ Borrows(x, j.slice.arr, j.of)' => x \in unsure'
                           /\ Made(x)' /\ slice'[x].arr = j.slice.arr => j.slice.len <= slice'[x].len
    BY <1>1 DEF JobsInv, JobInv, Borrows, Fits, Contents, Made
  <2>1. /\ j.slice \in Slice /\ Fits(j.slice) /\ Contents(j.slice) = j.meant
        /\ Len(j.out) <= j.slice.len
        /\ \A i \in 1..Len(j.out) : j.out[i] = j.meant[i]
    BY DEF Typed, JobsInv, JobInv
  <2>2. \A x \in Variables :
          /\ Borrows(x, j.slice.arr, j.of) => x \in unsure
          /\ Made(x) /\ slice[x].arr = j.slice.arr => j.slice.len <= slice[x].len
    BY DEF JobsInv, JobInv
  <2>3. j.slice.arr \in 0..Len(heap) /\ j.slice.arr # 0 /\ j.slice.arr # Len(heap) + 1
        /\ j.slice.len \in Nat
    BY <1>4, <2>1 DEF Fits, Slice
  <2>4. Fits(j.slice)'
    BY <2>1, FitsStill
  <2>5. Contents(j.slice)' = j.meant
    <3>1. j.slice.arr = slice[f].arr => j.slice.len <= slice[f].len
      BY <2>2, <2>3 DEF Made
    <3>2. QED
      BY <2>1, <3>1 DEF Keeps
  <2>6. ASSUME NEW x \in Variables, Borrows(x, j.slice.arr, j.of)' PROVE x \in unsure'
    BY <1>7, <2>2, <2>3, <2>6 DEF Borrows
  <2>7. ASSUME NEW x \in Variables, Made(x)', slice'[x].arr = j.slice.arr
        PROVE  j.slice.len <= slice'[x].len
    <3>1. CASE x # v
      BY <1>2, <2>2, <2>7, <3>1 DEF Made
    <3>2. CASE x = v
      <4>1. s.arr = j.slice.arr /\ s.arr = slice[f].arr /\ slice[f].len <= s.len
        BY <1>2, <2>3, <2>7, <3>2
      <4>2. j.slice.len <= slice[f].len
        BY <2>2, <2>3, <4>1 DEF Made
      <4>3. QED
        BY <1>2, <1>5, <1>6, <2>3, <3>2, <4>1, <4>2
    <3>3. QED
      BY <3>1, <3>2
  <2>8. QED
    BY <2>1, <2>4, <2>5, <2>6, <2>7
<1>12. OwnContents'
  <2> SUFFICES ASSUME NEW u \in Variables, u \notin unsure', Made(u)'
               PROVE  Contents(slice[u])' = meant'[u]
    BY DEF OwnContents
  <2>1. CASE u = v
    BY <1>2, <2>1 DEF Contents
  <2>2. CASE u # v
    <3>1. PICK t \in Slice : t = slice[u] /\ t = slice'[u]
      BY <1>2, <1>6, <2>2
    <3>2. u \notin unsure /\ Made(u) /\ Fits(t) /\ Contents(t) = meant[u] /\ meant'[u] = meant[u]
      <4>1. u \notin unsure /\ Made(u)
        BY <1>2, <2>2 DEF Made
      <4>2. QED
        BY <1>2, <1>6, <2>2, <3>1, <4>1 DEF OwnContents
    <3>3. t.arr = slice[f].arr => t.len <= slice[f].len
      <4> SUFFICES ASSUME t.arr = slice[f].arr PROVE t.len <= slice[f].len
        OBVIOUS
      <4>1. Made(f)
        BY <3>1, <3>2 DEF Made
      <4>2. u = f
        BY <3>1, <3>2, <4>1 DEF SharingInv, Borrows
      <4>3. t.len = slice[f].len /\ slice[f].len \in Nat
        BY <1>6, <3>1, <4>2
      <4>4. QED
        BY <4>3
    <3>4. Contents(t)' = Contents(t)
      BY <3>2, <3>3 DEF Keeps
    <3>5. QED
      BY <3>1, <3>2, <3>4 DEF Contents
  <2>3. QED
    BY <2>1, <2>2
<1>13. QED
  BY <1>8, <1>9, <1>10, <1>11, <1>12
\* A call that makes an AVP list or a message.
LEMMA NewKeeps ==
  ASSUME IndInv, NEW v \in Variables, New(v)
  PROVE  IndInv'
<1>1. Allocated(v, <<ops + 1>>, <<ops + 1>>) /\ unsure' = unsure \ {v} /\ ops' = ops + 1
  BY DEF New, Call
<1>2. <<ops + 1>> \in Seq(Nat) /\ ops' \in Nat
  BY <1>1 DEF IndInv, Typed
<1>3. /\ Keeps(slice[v].arr, slice[v].len)
      /\ \E s \in Slice : /\ Assigned(v, s, <<ops + 1>>)
                          /\ s.arr = Len(heap) + 1 /\ Fits(s)' /\ Contents(s)' = <<ops + 1>>
  BY <1>1, <1>2, AllocatedKeeps DEF IndInv
<1>4. PICK s \in Slice : /\ Assigned(v, s, <<ops + 1>>)
                          /\ s.arr = Len(heap) + 1 /\ Fits(s)' /\ Contents(s)' = <<ops + 1>>
  BY <1>3
<1>5. unsure' \subseteq Variables /\ unsure \ {v} \subseteq unsure'
  BY <1>1 DEF IndInv, Typed
<1>6. QED
  BY <1>2, <1>3, <1>4, <1>5, AssignKeeps

\* Copying a message, or making one of a list.
LEMMA ShareKeeps ==
  ASSUME IndInv, NEW m \in Variables, NEW v \in Variables, Share(m, v)
  PROVE  IndInv'
<1>1. /\ Made(v) /\ Assigned(m, slice[v], meant[v]) /\ unsure' = unsure \union {m, v}
      /\ heap' = heap /\ ops' = ops + 1
  BY DEF Share, Call
<1>2. PICK s \in Slice, b \in Seq(Nat) : s = slice[v] /\ b = meant[v] /\ Fits(s)
  BY <1>1, MadeFits DEF IndInv, Typed
<1>3. Fits(s)' /\ Keeps(slice[v].arr, slice[v].len)
  <2>1. heap' \in Seq(Seq(Nat)) /\ Len(heap) \in Nat
    BY <1>1, LenProperties DEF IndInv, Typed
  <2>2. QED
    BY <1>1, <1>2, <2>1 DEF Fits, Keeps, Contents
<1>4. Assigned(m, s, b) /\ ops' \in Nat
  BY <1>1, <1>2 DEF IndInv, Typed
<1>5. unsure' \subseteq Variables /\ unsure \ {m} \subseteq unsure' /\ m \in unsure' /\ v \in unsure'
  BY <1>1 DEF IndInv, Typed
<1>6. s.arr = slice[v].arr /\ slice[v].len <= s.len
  BY <1>2 DEF Slice
<1>7. QED
  BY <1>2, <1>3, <1>4, <1>5, <1>6, AssignKeeps

\* What a made variable contains.
LEMMA ContentsOf ==
  ASSUME IndInv, NEW v \in Variables, Made(v)
  PROVE  /\ Contents(slice[v]) \in Seq(Nat) /\ Len(Contents(slice[v])) = slice[v].len
         /\ v \notin unsure => Contents(slice[v]) = meant[v]
<1>1. Fits(slice[v]) /\ slice[v] \in Slice /\ heap \in Seq(Seq(Nat))
  BY MadeFits DEF IndInv, Typed
<1>2. QED
  BY <1>1, SliceOf DEF Fits, Contents, IndInv, OwnContents

\* Appending to a message.
LEMMA TailKeeps ==
  ASSUME IndInv, NEW m \in Variables, NEW l \in Variables, AddAVPs_Tail(m, l)
  PROVE  IndInv'
<1>1. /\ Made(m) /\ Made(l) /\ ops' = ops + 1
      /\ AppendTo(m, slice[m], Contents(slice[l]), meant[m] \o meant[l])
      /\ unsure' = unsure \union (IF l \in unsure THEN {m} ELSE {})
  BY DEF AddAVPs_Tail, Call
<1>2. /\ slice[m] \in Slice /\ Fits(slice[m]) /\ Contents(slice[l]) \in Seq(Nat)
      /\ m \notin unsure => Contents(slice[m]) = meant[m]
      /\ l \notin unsure => Contents(slice[l]) = meant[l]
  BY <1>1, ContentsOf, MadeFits DEF IndInv
<1>3. PICK b \in Seq(Nat) : b = meant[m] \o meant[l]
  <2>1. meant[m] \in Seq(Nat) /\ meant[l] \in Seq(Nat)
    BY DEF IndInv, Typed
  <2>2. meant[m] \o meant[l] \in Seq(Nat)
    BY <2>1, ConcatProperties
  <2>3. QED
    BY <2>2, Zenon
<1>4. AppendTo(m, slice[m], Contents(slice[l]), b)
  BY <1>1, <1>3
<1>5. /\ Keeps(slice[m].arr, slice[m].len)
      /\ \E s \in Slice : /\ Assigned(m, s, b) /\ Fits(s)'
                          /\ Contents(s)' = Contents(slice[m]) \o Contents(slice[l])
                          /\ \/ s.arr = Len(heap) + 1
                             \/ /\ s.arr = slice[m].arr /\ slice[m].len <= s.len
                                /\ Len(Contents(slice[l])) <= Room(slice[m])
  BY <1>2, <1>4, AppendToKeeps DEF IndInv
<1>6. PICK s \in Slice : /\ Assigned(m, s, b) /\ Fits(s)'
                          /\ Contents(s)' = Contents(slice[m]) \o Contents(slice[l])
                          /\ \/ s.arr = Len(heap) + 1
                             \/ s.arr = slice[m].arr /\ slice[m].len <= s.len
  BY <1>5
<1>7. /\ unsure' \subseteq Variables /\ unsure \ {m} \subseteq unsure' /\ ops' \in Nat
      /\ m \in unsure => m \in unsure'
      /\ m \notin unsure' => Contents(s)' = b
  <2>1. unsure \subseteq Variables /\ ops \in Nat
    BY DEF IndInv, Typed
  <2>2. m \notin unsure' => m \notin unsure /\ l \notin unsure
    BY <1>1
  <2>3. m \notin unsure' => Contents(s)' = b
    BY <1>2, <1>3, <1>6, <2>2
  <2>4. QED
    BY <1>1, <2>1, <2>3
<1>8. QED
  BY <1>5, <1>6, <1>7, AssignKeeps

\* Putting a list before a message: into the array of the list, if that has room.
LEMMA HeadKeeps ==
  ASSUME IndInv, NEW m \in Variables, NEW l \in Variables, m # l, AddAVPs_Head(m, l)
  PROVE  IndInv'
<1>1. /\ Made(m) /\ Made(l) /\ ops' = ops + 1
      /\ AppendTo(m, slice[l], Contents(slice[m]), meant[l] \o meant[m])
      /\ unsure' = unsure \union (IF l \in unsure THEN {m} ELSE {})
                          \union (IF slice[m].len <= Room(slice[l]) THEN {m, l} ELSE {})
  BY DEF AddAVPs_Head, Call
<1>2. /\ slice[l] \in Slice /\ Fits(slice[l]) /\ Contents(slice[m]) \in Seq(Nat)
      /\ Len(Contents(slice[m])) = slice[m].len
      /\ m \notin unsure => Contents(slice[m]) = meant[m]
      /\ l \notin unsure => Contents(slice[l]) = meant[l]
  BY <1>1, ContentsOf, MadeFits DEF IndInv
<1>3. PICK b \in Seq(Nat) : b = meant[l] \o meant[m]
  <2>1. meant[m] \in Seq(Nat) /\ meant[l] \in Seq(Nat)
    BY DEF IndInv, Typed
  <2>2. meant[l] \o meant[m] \in Seq(Nat)
    BY <2>1, ConcatProperties
  <2>3. QED
    BY <2>2, Zenon
<1>4. AppendTo(m, slice[l], Contents(slice[m]), b)
  BY <1>1, <1>3
<1>5. /\ Keeps(slice[l].arr, slice[l].len)
      /\ \E s \in Slice : /\ Assigned(m, s, b) /\ Fits(s)'
                          /\ Contents(s)' = Contents(slice[l]) \o Contents(slice[m])
                          /\ \/ s.arr = Len(heap) + 1
                             \/ /\ s.arr = slice[l].arr /\ slice[l].len <= s.len
                                /\ Len(Contents(slice[m])) <= Room(slice[l])
  BY <1>2, <1>4, AppendToKeeps DEF IndInv
<1>6. PICK s \in Slice : /\ Assigned(m, s, b) /\ Fits(s)'
                          /\ Contents(s)' = Contents(slice[l]) \o Contents(slice[m])
                          /\ \/ s.arr = Len(heap) + 1
                             \/ /\ s.arr = slice[l].arr /\ slice[l].len <= s.len
                                /\ slice[m].len <= Room(slice[l])
  BY <1>2, <1>5
<1>7. /\ unsure' \subseteq Variables /\ unsure \ {m} \subseteq unsure' /\ ops' \in Nat
      /\ slice[m].len <= Room(slice[l]) => m \in unsure' /\ l \in unsure'
      /\ m \notin unsure' => Contents(s)' = b
  <2>1. unsure \subseteq Variables /\ ops \in Nat
    BY DEF IndInv, Typed
  <2>2. m \notin unsure' => m \notin unsure /\ l \notin unsure
    BY <1>1
  <2>3. m \notin unsure' => Contents(s)' = b
    BY <1>2, <1>3, <1>6, <2>2
  <2>4. QED
    BY <1>1, <2>1, <2>3
<1>8. QED
  BY <1>5, <1>6, <1>7, AssignKeeps

\* FindAVP changes nothing but the pointer.
LEMMA FindKeeps ==
  ASSUME IndInv, NEW m \in Variables, NEW i \in 1..slice[m].len, FindAVP(m, i)
  PROVE  IndInv'
<1> USE DEF IndInv
<1>1. /\ pointer' = [arr |-> slice[m].arr, i |-> i, of |-> m, at |-> i, fresh |-> TRUE]
      /\ ops' = ops + 1 /\ UNCHANGED <<heap, slice, job, meant, unsure>>
  BY DEF FindAVP, Call
<1>2. slice[m] \in Slice /\ i \in Nat /\ i <= slice[m].len /\ 1 <= i
  BY DEF Typed, Slice
<1>3. Fits(slice[m]) /\ slice[m].arr \in 1..Len(heap) /\ Made(m) /\ i \in 1..Len(heap[slice[m].arr])
  <2>1. Fits(slice[m])
    BY <1>2 DEF Typed, Nothing
  <2>2. heap[slice[m].arr] \in Seq(Nat)
    BY <2>1, ElementOfSeq DEF Typed, Fits
  <2>3. Len(heap[slice[m].arr]) \in Nat /\ slice[m].len \in Nat
    BY <1>2, <2>2, LenProperties DEF Slice
  <2>4. QED
    BY <1>2, <2>1, <2>3 DEF Fits, Made
<1>4. Typed'
  <2>1. pointer' \in [arr : Nat, i : Nat, of : Variables \union {None}, at : Nat, fresh : BOOLEAN]
    BY <1>1, <1>2, <1>3 DEF Slice
  <2>2. pointer'.arr \in 0..Len(heap) /\ pointer'.arr # 0 /\ pointer'.i \in 1..Len(heap[pointer'.arr])
    BY <1>1, <1>3
  <2>3. QED
    BY <1>1, <2>1, <2>2 DEF Typed, Fits
<1>5. SharingInv' /\ OwnContents'
  BY <1>1 DEF SharingInv, OwnContents, Borrows, Made, Contents
<1>6. PointerInv'
  <2>1. \A v \in Variables : Borrows(v, slice[m].arr, m) => v \in unsure
    BY <1>3 DEF SharingInv
  <2>2. QED
    BY <1>1, <1>2, <1>3, <2>1 DEF PointerInv, Borrows, Made
<1>7. JobsInv'
  BY <1>1 DEF JobsInv, JobInv, Borrows, Made, Fits, Contents
<1>8. QED
  BY <1>4, <1>5, <1>6, <1>7
\* SetIntValue changes one AVP: of the pointer's variable, of those that share its
\* array and are unsure, and of no message under way that stays sure.
LEMMA SetKeeps ==
  ASSUME IndInv, SetIntValue
  PROVE  IndInv'
<1> USE DEF IndInv
<1>1. PICK m, a, p : m = pointer.of /\ a = pointer.arr /\ p = pointer.i
  OBVIOUS
<1>2. /\ m # None /\ ops' = ops + 1
      /\ heap' = [heap EXCEPT ![a][p] = ops + 1]
      /\ meant' = IF pointer.fresh THEN [meant EXCEPT ![m][pointer.at] = ops + 1] ELSE meant
      /\ unsure' = IF pointer.fresh THEN unsure ELSE unsure \union {m}
      /\ job' = [w \in Workers |->
                   [job[w] EXCEPT !.sure = /\ @ /\ job[w].of # m
                                           /\ pointer.fresh /\ m \notin unsure]]
      /\ UNCHANGED <<slice, pointer>>
  BY <1>1 DEF SetIntValue, Call
<1>3. /\ a \in 1..Len(heap) /\ p \in 1..Len(heap[a]) /\ a \in Nat /\ a # 0 /\ p \in Nat
      /\ ops + 1 \in Nat /\ heap \in Seq(Seq(Nat)) /\ m \in Variables
  <2>1. a \in 0..Len(heap) /\ a # 0 /\ p \in 1..Len(heap[a])
    BY <1>1, <1>2 DEF Typed
  <2>2. Len(heap) \in Nat
    BY LenProperties DEF Typed
  <2>3. QED
    BY <1>1, <1>2, <2>1, <2>2 DEF Typed
<1>4. PICK b \in Seq(Nat) : /\ b = [heap[a] EXCEPT ![p] = ops + 1]
                             /\ Len(b) = Len(heap[a]) /\ b[p] = ops + 1
                             /\ \A i \in 1..Len(heap[a]) : i # p => b[i] = heap[a][i]
  <2>1. PICK d \in Seq(Nat) : d = heap[a]
    BY <1>3, ElementOfSeq
  <2> DEFINE e == [d EXCEPT ![p] = ops + 1]
  <2>2. /\ e \in Seq(Nat) /\ Len(e) = Len(d)
        /\ \A i \in 1..Len(d) : e[i] = IF i = p THEN ops + 1 ELSE d[i]
    BY <1>3, <2>1, ExceptSeq
  <2>3. QED
    BY <1>3, <2>1, <2>2
<1>5. /\ heap' \in Seq(Seq(Nat)) /\ Len(heap') = Len(heap) /\ heap'[a] = b
      /\ \A j \in 1..Len(heap) : j # a => heap'[j] = heap[j]
  <2>1. heap' = [heap EXCEPT ![a] = b]
    BY <1>2, <1>4
  <2>2. QED
    BY <1>3, <2>1, ExceptSeq
<1>6. \A s : Fits(s)' <=> Fits(s)
  BY <1>4, <1>5 DEF Fits
<1>7. \A s \in Slice : Fits(s) /\ s.arr # a => Contents(s)' = Contents(s)
  BY <1>5 DEF Fits, Contents
<1>8. \A w \in Workers : /\ job'[w].of = job[w].of /\ job'[w].slice = job[w].slice
                         /\ job'[w].out = job[w].out /\ job'[w].meant = job[w].meant
                         /\ job'[w].sure \in BOOLEAN
                         /\ job'[w].sure => /\ job[w].sure /\ job[w].of # m
                                            /\ pointer.fresh /\ m \notin unsure
  BY <1>2 DEF Typed
<1>9. Typed'
  <2>1. meant' \in [Variables -> Seq(Nat)]
    <3>1. CASE pointer.fresh
      <4>1. [meant[m] EXCEPT ![pointer.at] = ops + 1] \in Seq(Nat)
        <5>1. meant[m] \in Seq(Nat)
          BY <1>3 DEF Typed
        <5>2. PICK d \in Seq(Nat), n \in Nat : /\ d = meant[m] /\ n = Len(d)
                                               /\ d \in [1..n -> Nat]
          BY <5>1, LenProperties
        <5>3. [d EXCEPT ![pointer.at] = ops + 1] \in [1..n -> Nat]
          BY <1>3, <5>2
        <5>4. [d EXCEPT ![pointer.at] = ops + 1] \in Seq(Nat)
          BY <5>3
        <5>5. QED
          BY <5>2, <5>4
      <4>2. meant' = [meant EXCEPT ![m] = [meant[m] EXCEPT ![pointer.at] = ops + 1]]
        BY <1>2, <3>1
      <4>3. QED
        BY <4>1, <4>2 DEF Typed
    <3>2. CASE ~pointer.fresh
      BY <1>2, <3>2 DEF Typed
    <3>3. QED
      BY <3>1, <3>2
  <2>2. job' \in [Workers -> [of : Variables \union {None}, slice : Slice, out : Seq(Nat),
                              meant : Seq(Nat), sure : BOOLEAN]]
    BY <1>2 DEF Typed
  <2>3. \A w \in Workers : job'[w].slice = Nothing \/ Fits(job[w].slice)'
    <3>1. \A w \in Workers : Fits(job[w].slice) => Fits(job[w].slice)'
      BY <1>4, <1>5, <1>8 DEF Fits
    <3>2. QED
      BY <1>8, <3>1 DEF Typed
  <2>4. pointer.of # None => pointer.i \in 1..Len(heap'[pointer.arr])
    BY <1>1, <1>3, <1>4, <1>5
  <2>5. unsure' \subseteq Variables
    BY <1>2, <1>3 DEF Typed
  <2>6. \A v \in Variables : slice'[v] = Nothing \/ Fits(slice[v])'
    <3>1. \A v \in Variables : Fits(slice[v]) => Fits(slice[v])'
      BY <1>2, <1>4, <1>5 DEF Fits
    <3>2. QED
      BY <1>2, <3>1 DEF Typed
  <2>7. /\ slice' \in [Variables -> Slice] /\ ops' \in Nat
        /\ pointer' \in [arr : Nat, i : Nat, of : Variables \union {None}, at : Nat,
                         fresh : BOOLEAN]
        /\ pointer'.arr \in 0..Len(heap')
        /\ pointer'.of # None => pointer'.arr # 0 /\ pointer'.i \in 1..Len(heap'[pointer'.arr])
    BY <1>2, <1>3, <1>5, <2>4 DEF Typed
  <2>8. QED
    BY <1>5, <2>1, <2>2, <2>3, <2>5, <2>6, <2>7, Zenon DEF Typed
<1>10. unsure \subseteq unsure'
  BY <1>2
<1>11. SharingInv'
  BY <1>2, <1>10 DEF SharingInv, Borrows, Made
<1>12. PointerInv'
  BY <1>2, <1>10 DEF PointerInv, Borrows, Made
\* Who is sure and not the variable of the pointer has another array.
<1>13. ASSUME NEW v \in Variables, Made(v), v \notin unsure, v # m PROVE slice[v].arr # a
  BY <1>1, <1>13 DEF PointerInv, Borrows
<1>14. JobsInv'
  <2> SUFFICES ASSUME NEW w \in Workers, NEW k, k = job'[w], k.sure
               PROVE  /\ Fits(k.slice)' /\ Contents(k.slice)' = k.meant
                      /\ Len(k.out) <= k.slice.len
                      /\ \A i \in 1..Len(k.out) : k.out[i] = k.meant[i]
                      /\ \A x \in Variables :
                           /\ Borrows(x, k.slice.arr, k.of)' => x \in unsure'
                           /\ Made(x)' /\ slice'[x].arr = k.slice.arr => k.slice.len <= slice'[x].len
    BY DEF JobsInv, JobInv, Borrows, Fits, Contents, Made
  <2>0. PICK j : /\ j = job[w] /\ j.sure /\ j.of # m /\ pointer.fresh /\ m \notin unsure
                 /\ k.of = j.of /\ k.slice = j.slice /\ k.out = j.out /\ k.meant = j.meant
    BY <1>8
  <2>1. JobInv(j) /\ j.slice \in Slice
    BY <2>0 DEF JobsInv, Typed
  <2>2. j.slice.arr # a
    <3>1. Made(m) /\ slice[m].arr = a
      BY <1>1, <2>0 DEF PointerInv
    <3>2. Borrows(m, j.slice.arr, j.of) => m \in unsure
      BY <1>3, <2>0, <2>1 DEF JobInv
    <3>3. QED
      BY <2>0, <3>1, <3>2 DEF Borrows
  <2>3. Fits(j.slice)' /\ Contents(j.slice)' = j.meant
    BY <1>6, <1>7, <2>0, <2>1, <2>2 DEF JobInv
  <2>4. /\ Len(j.out) <= j.slice.len
        /\ \A i \in 1..Len(j.out) : j.out[i] = j.meant[i]
        /\ \A x \in Variables :
             /\ Borrows(x, j.slice.arr, j.of) => x \in unsure
             /\ Made(x) /\ slice[x].arr = j.slice.arr => j.slice.len <= slice[x].len
    BY <2>0, <2>1 DEF JobInv
  <2>5. Fits(k.slice)' /\ Contents(k.slice)' = k.meant
    BY <2>0, <2>3 DEF Fits, Contents
  <2>6. ASSUME NEW x \in Variables, Borrows(x, k.slice.arr, k.of)' PROVE x \in unsure'
    BY <1>2, <1>10, <2>0, <2>4, <2>6 DEF Borrows, Made
  <2>7. ASSUME NEW x \in Variables, Made(x)', slice'[x].arr = k.slice.arr
        PROVE  k.slice.len <= slice'[x].len
    BY <1>2, <2>0, <2>4, <2>7 DEF Made
  <2>8. /\ Len(k.out) <= k.slice.len
        /\ \A i \in 1..Len(k.out) : k.out[i] = k.meant[i]
    BY <2>0, <2>4
  <2>9. QED
    BY <2>5, <2>6, <2>7, <2>8
<1>15. OwnContents'
  <2> SUFFICES ASSUME NEW u \in Variables, u \notin unsure', Made(u)
               PROVE  Contents(slice[u])' = meant'[u]
    BY <1>2 DEF OwnContents, Made
  <2>1. /\ u \notin unsure /\ slice[u] \in Slice /\ Fits(slice[u])
        /\ Contents(slice[u]) = meant[u]
    BY <1>10, MadeFits DEF OwnContents
  <2>2. PICK t \in Slice : t = slice[u] /\ t = slice'[u]
    BY <1>2, <2>1
  <2>3. CASE u # m
    <3>1. t.arr # a
      BY <1>13, <2>1, <2>2, <2>3
    <3>2. Contents(t)' = Contents(t)
      BY <1>7, <2>1, <2>2, <3>1
    <3>3. meant'[u] = meant[u]
      BY <1>2, <2>3 DEF Typed
    <3>4. QED
      BY <2>1, <2>2, <3>2, <3>3 DEF Contents
  <2>4. CASE u = m
    <3>1. pointer.fresh
      BY <1>2, <2>4
    <3>2. t.arr = a /\ pointer.at = p /\ p <= t.len
      BY <1>1, <2>2, <2>4, <3>1 DEF PointerInv
    <3> DEFINE c == SubSeq(heap[t.arr], 1, t.len)
               d == SubSeq(heap'[t.arr], 1, t.len)
    <3>3. c \in Seq(Nat) /\ Len(c) = t.len /\ \A i \in 1..t.len : c[i] = heap[a][i]
      BY <1>3, <2>1, <2>2, <3>2, SliceOf DEF Fits
    <3>4. d \in Seq(Nat) /\ Len(d) = t.len /\ \A i \in 1..t.len : d[i] = b[i]
      <4>1. Fits(t)' /\ t.arr \in 1..Len(heap') /\ t.len <= Len(heap'[t.arr])
        BY <1>6, <2>1, <2>2 DEF Fits
      <4>2. QED
        BY <1>5, <3>2, <4>1, SliceOf
    <3>5. meant[u] = c
      BY <2>1, <2>2 DEF Contents, c
    <3> HIDE DEF c, d
    <3>6. meant'[u] = [c EXCEPT ![p] = ops + 1]
      BY <1>2, <1>3, <2>4, <3>1, <3>2, <3>5 DEF Typed
    <3>7. t.len \in Nat /\ p \in 1..t.len /\ \A i \in 1..t.len : i \in 1..Len(heap[a])
      <4>1. t.len \in Nat /\ Len(heap[a]) \in Nat /\ t.len <= Len(heap[a])
        BY <1>3, <2>1, <2>2, <3>2, ElementOfSeq, LenProperties DEF Slice, Fits
      <4>2. QED
        BY <1>3, <3>2, <4>1
    <3> DEFINE e == [c EXCEPT ![p] = ops + 1]
    <3>8. /\ e \in Seq(Nat) /\ Len(e) = t.len
          /\ \A i \in 1..t.len : e[i] = IF i = p THEN ops + 1 ELSE c[i]
      BY <1>3, <3>3, <3>7, ExceptSeq
    <3> HIDE DEF e
    <3>9. \A i \in 1..t.len : d[i] = e[i]
      BY <1>4, <3>3, <3>4, <3>7, <3>8
    <3>10. d = e
      BY <3>4, <3>8, <3>9, SeqEqual
    <3>11. QED
      BY <2>2, <3>6, <3>10 DEF d, e, Contents
  <2>5. QED
    BY <2>3, <2>4
<1>16. QED
  BY <1>9, <1>11, <1>12, <1>14, <1>15

-----------------------------------------------------------------------------
\* A worker takes a message: it has the message's slice.
LEMMA SendKeeps ==
  ASSUME IndInv, NEW m \in Variables, NEW w \in Workers, Send(m, w)
  PROVE  IndInv'
<1> USE DEF IndInv
<1>1. /\ Made(m) /\ ops' = ops + 1
      /\ job' = [job EXCEPT ![w] = [of |-> m, slice |-> slice[m], out |-> <<>>,
                                    meant |-> meant[m], sure |-> m \notin unsure]]
      /\ UNCHANGED <<heap, slice, pointer, meant, unsure>>
  BY DEF Send, Call
<1>2. slice[m] \in Slice /\ Fits(slice[m])
  BY <1>1, MadeFits
<1>3. /\ job'[w] = [of |-> m, slice |-> slice[m], out |-> <<>>,
                    meant |-> meant[m], sure |-> m \notin unsure]
      /\ \A x \in Workers : x # w => job'[x] = job[x]
  BY <1>1 DEF Typed
<1>4. Typed'
  <2>1. job' \in [Workers -> [of : Variables \union {None}, slice : Slice, out : Seq(Nat),
                              meant : Seq(Nat), sure : BOOLEAN]]
    BY <1>1, <1>2 DEF Typed
  <2>2. \A x \in Workers : job'[x].slice = Nothing \/ Fits(job'[x].slice)
    <3>1. Fits(job'[w].slice)
      BY <1>2, <1>3
    <3>2. QED
      BY <1>3, <3>1 DEF Typed
  <2>3. QED
    BY <1>1, <2>1, <2>2 DEF Typed, Fits
<1>5. SharingInv' /\ PointerInv' /\ OwnContents'
  BY <1>1 DEF SharingInv, PointerInv, OwnContents, Borrows, Made, Contents
<1>6. JobsInv'
  <2>1. ASSUME m \notin unsure
        PROVE  /\ Contents(slice[m]) = meant[m] /\ 0 <= slice[m].len
               /\ \A v \in Variables :
                    /\ Borrows(v, slice[m].arr, m) => v \in unsure
                    /\ Made(v) /\ slice[v].arr = slice[m].arr => slice[m].len <= slice[v].len
    <3>1. slice[m].len \in Nat
      BY <1>2 DEF Slice
    <3>2. ASSUME NEW v \in Variables, Made(v), slice[v].arr = slice[m].arr PROVE v = m
      BY <1>1, <2>1, <3>2 DEF SharingInv, Borrows
    <3>3. \A v \in Variables : Borrows(v, slice[m].arr, m) => v \in unsure
      BY <1>1 DEF SharingInv
    <3>4. QED
      BY <1>1, <2>1, <3>1, <3>2, <3>3 DEF OwnContents
  <2>2. JobInv(job'[w])
    <3>1. job'[w].sure = (m \notin unsure)
      BY <1>3
    <3>2. /\ job'[w].of = m /\ job'[w].slice = slice[m] /\ job'[w].out = <<>>
          /\ job'[w].meant = meant[m] /\ Len(<<>>) = 0
      BY <1>3
    <3>3. ASSUME job'[w].sure PROVE m \notin unsure
      BY <3>1, <3>3, Zenon
    <3>4. QED
      BY <1>2, <2>1, <3>2, <3>3 DEF JobInv
  <2>3. \A x \in Workers : JobInv(job'[x])
    BY <1>3, <2>2 DEF JobsInv
  <2>4. QED
    BY <1>1, <2>3 DEF JobsInv, JobInv, Borrows, Made, Fits, Contents
<1>7. QED
  BY <1>4, <1>5, <1>6

\* A worker reads the next AVP, which nobody has changed.
LEMMA EncodeNextKeeps ==
  ASSUME IndInv, NEW w \in Workers, EncodeNext(w)
  PROVE  IndInv'
<1> USE DEF IndInv
<1>1. PICK j : j = job[w]
  OBVIOUS
<1>2. PICK n : n = Len(j.out) + 1
  OBVIOUS
<1>3. /\ n <= j.slice.len
      /\ job' = [job EXCEPT ![w].out = Append(@, heap[j.slice.arr][n])]
      /\ UNCHANGED <<heap, slice, pointer, ops, meant, unsure>>
  BY <1>1, <1>2 DEF EncodeNext
<1>4. /\ j \in [of : Variables \union {None}, slice : Slice, out : Seq(Nat), meant : Seq(Nat),
                sure : BOOLEAN]
      /\ Len(j.out) \in Nat /\ n \in Nat /\ 1 <= n /\ j.slice.len \in Nat /\ j.slice \in Slice
  <2>1. j \in [of : Variables \union {None}, slice : Slice, out : Seq(Nat), meant : Seq(Nat),
               sure : BOOLEAN]
    BY <1>1 DEF Typed
  <2>2. QED
    BY <1>2, <2>1, LenProperties DEF Slice
<1>5. Fits(j.slice) /\ heap[j.slice.arr][n] \in Nat
  <2>1. Fits(j.slice)
    <3>1. j.slice # Nothing
      BY <1>3, <1>4 DEF Nothing
    <3>2. QED
      BY <1>1, <3>1 DEF Typed
  <2>2. heap[j.slice.arr] \in Seq(Nat)
    BY <2>1, ElementOfSeq DEF Typed, Fits
  <2>3. n \in 1..Len(heap[j.slice.arr])
    BY <1>3, <1>4, <2>1, <2>2, LenProperties DEF Fits
  <2>4. QED
    BY <2>1, <2>2, <2>3, ElementOfSeq
<1>6. PICK out \in Seq(Nat) : /\ out = Append(j.out, heap[j.slice.arr][n])
                               /\ Len(out) = n /\ out[n] = heap[j.slice.arr][n]
                               /\ \A i \in 1..Len(j.out) : out[i] = j.out[i]
  <2>1. j.out \in Seq(Nat)
    BY <1>4
  <2>2. PICK x \in Nat : x = heap[j.slice.arr][n]
    BY <1>5
  <2>3. /\ Append(j.out, x) \in Seq(Nat) /\ Len(Append(j.out, x)) = Len(j.out) + 1
        /\ \A i \in 1..Len(j.out) : Append(j.out, x)[i] = j.out[i]
        /\ Append(j.out, x)[Len(j.out) + 1] = x
    BY <2>1, AppendProperties
  <2>4. Append(j.out, x) = Append(j.out, heap[j.slice.arr][n])
    BY <2>2
  <2>5. Len(Append(j.out, x)) = n /\ Append(j.out, x)[n] = heap[j.slice.arr][n]
    BY <1>2, <2>2, <2>3
  <2>6. PICK y : y = Append(j.out, x)
    OBVIOUS
  <2>7. /\ y \in Seq(Nat) /\ y = Append(j.out, heap[j.slice.arr][n])
        /\ Len(y) = n /\ y[n] = heap[j.slice.arr][n]
        /\ \A i \in 1..Len(j.out) : y[i] = j.out[i]
    BY <2>3, <2>4, <2>5, <2>6, Zenon
  <2>8. QED
    BY <2>7, Zenon
<1>7. PICK k : /\ k = [j EXCEPT !.out = out] /\ job' = [job EXCEPT ![w] = k]
               /\ k \in [of : Variables \union {None}, slice : Slice, out : Seq(Nat),
                         meant : Seq(Nat), sure : BOOLEAN]
               /\ k.of = j.of /\ k.slice = j.slice /\ k.out = out /\ k.meant = j.meant
               /\ k.sure = j.sure
  <2>1. PICK k : k = [j EXCEPT !.out = out]
    OBVIOUS
  <2>2. job' = [job EXCEPT ![w] = k]
    BY <1>1, <1>3, <1>6, <2>1
  <2>3. k \in [of : Variables \union {None}, slice : Slice, out : Seq(Nat), meant : Seq(Nat),
               sure : BOOLEAN]
    BY <1>4, <2>1
  <2>4. k.of = j.of /\ k.slice = j.slice /\ k.out = out /\ k.meant = j.meant
    BY <1>4, <2>1
  <2>5. k.sure = j.sure
    BY <1>4, <2>1
  <2>6. QED
    BY <2>1, <2>2, <2>3, <2>4, <2>5, Zenon
<1>8. job'[w] = k /\ \A x \in Workers : x # w => job'[x] = job[x]
  BY <1>7 DEF Typed
<1>9. Typed'
  <2>1. \A x \in Workers : job'[x].slice = Nothing \/ Fits(job'[x].slice)
    BY <1>1, <1>7, <1>8 DEF Typed
  <2>2. QED
    BY <1>3, <1>7, <2>1 DEF Typed, Fits
<1>10. SharingInv' /\ PointerInv' /\ OwnContents'
  BY <1>3 DEF SharingInv, PointerInv, OwnContents, Borrows, Made, Contents
<1>11. JobsInv'
  <2>1. JobInv(k)
    <3> SUFFICES ASSUME j.sure
                 PROVE  \A i \in 1..n : out[i] = j.meant[i]
      <4>1. JobInv(j)
        BY <1>1 DEF JobsInv
      <4>2. k.of = j.of /\ k.slice = j.slice /\ k.meant = j.meant /\ k.sure = j.sure /\ k.out = out
        BY <1>7
      <4>3. n <= j.slice.len
        BY <1>3
      <4>4. QED
        BY <1>6, <4>1, <4>2, <4>3 DEF JobInv
    <3>1. Contents(j.slice) = j.meant /\ \A i \in 1..Len(j.out) : j.out[i] = j.meant[i]
      BY <1>1 DEF JobsInv, JobInv
    <3>2. j.meant[n] = heap[j.slice.arr][n]
      <4>1. heap \in Seq(Seq(Nat)) /\ n \in 1..j.slice.len
        BY <1>3, <1>4 DEF Typed
      <4>2. \A i \in 1..j.slice.len : Contents(j.slice)[i] = heap[j.slice.arr][i]
        BY <1>4, <1>5, <4>1, SliceOf DEF Fits, Contents
      <4>3. QED
        BY <3>1, <4>1, <4>2
    <3>3. \A i \in 1..n : i \in 1..Len(j.out) \/ i = n
      BY <1>2, <1>4
    <3>4. QED
      BY <1>6, <3>1, <3>2, <3>3
  <2>2. \A x \in Workers : JobInv(job'[x])
    BY <1>8, <2>1 DEF JobsInv
  <2>3. QED
    BY <1>3, <2>2 DEF JobsInv, JobInv, Borrows, Made, Fits, Contents
<1>12. QED
  BY <1>9, <1>10, <1>11

LEMMA EncodedKeeps ==
  ASSUME IndInv, NEW w \in Workers, Encoded(w)
  PROVE  IndInv'
<1> USE DEF IndInv
<1>1. job' = [job EXCEPT ![w] = NoJob] /\ UNCHANGED <<heap, slice, pointer, ops, meant, unsure>>
  BY DEF Encoded
<1>2. job'[w] = NoJob /\ \A x \in Workers : x # w => job'[x] = job[x]
  BY <1>1 DEF Typed
<1>3. /\ NoJob \in [of : Variables \union {None}, slice : Slice, out : Seq(Nat), meant : Seq(Nat),
                    sure : BOOLEAN]
      /\ NoJob.slice = Nothing /\ ~NoJob.sure
  BY DEF NoJob, Nothing, Slice
<1>4. Typed'
  BY <1>1, <1>2, <1>3 DEF Typed, Fits
<1>5. SharingInv' /\ PointerInv' /\ OwnContents'
  BY <1>1 DEF SharingInv, PointerInv, OwnContents, Borrows, Made, Contents
<1>6. JobsInv'
  <2>1. \A x \in Workers : JobInv(job'[x])
    BY <1>2, <1>3 DEF JobsInv, JobInv
  <2>2. QED
    BY <1>1, <2>1 DEF JobsInv, JobInv, Borrows, Made, Fits, Contents
<1>7. QED
  BY <1>4, <1>5, <1>6

-----------------------------------------------------------------------------
LEMMA InitInv == Init => IndInv
<1> SUFFICES ASSUME Init PROVE IndInv
  OBVIOUS
<1> USE DEF Init
<1>1. /\ NoJob \in [of : Variables \union {None}, slice : Slice, out : Seq(Nat), meant : Seq(Nat),
                    sure : BOOLEAN]
      /\ NoJob.slice = Nothing /\ ~NoJob.sure
  BY DEF NoJob, Nothing, Slice
<1>2. NoPointer \in [arr : Nat, i : Nat, of : Variables \union {None}, at : Nat, fresh : BOOLEAN]
  BY DEF NoPointer
<1>3. heap \in Seq(Seq(Nat)) /\ Len(heap) \in Nat
  OBVIOUS
<1>4. Typed
  BY <1>1, <1>2, <1>3 DEF Typed, Slice, Nothing, NoPointer
<1>5. SharingInv /\ PointerInv /\ OwnContents
  BY DEF SharingInv, PointerInv, OwnContents, Borrows, Made, NoPointer
<1>6. JobsInv
  BY <1>1 DEF JobsInv, JobInv
<1>7. QED
  BY <1>4, <1>5, <1>6 DEF IndInv

LEMMA StepInv == IndInv /\ [Next]_vars => IndInv'
<1> SUFFICES ASSUME IndInv, [Next]_vars PROVE IndInv'
  OBVIOUS
<1> USE DEF Variables
<1>1. ASSUME NEW v \in Variables, New(v) PROVE IndInv'
  BY <1>1, NewKeeps
<1>2. ASSUME NEW m \in Messages, NEW k \in Messages, Assign(m, k) PROVE IndInv'
  BY <1>2, ShareKeeps DEF Assign
<1>3. ASSUME NEW m \in Messages, NEW l \in Lists,
             GenMess(m, l) \/ AddAVPs_Tail(m, l) \/ AddAVPs_Head(m, l)
      PROVE  IndInv'
  <2>1. m # l
    BY MessageSlicesAssumption
  <2>2. QED
    BY <1>3, <2>1, ShareKeeps, TailKeeps, HeadKeeps DEF GenMess
<1>4. ASSUME NEW m \in Messages, NEW i \in 1..slice[m].len, FindAVP(m, i) PROVE IndInv'
  BY <1>4, FindKeeps
<1>5. CASE SetIntValue
  BY <1>5, SetKeeps
<1>6. ASSUME NEW w \in Workers, NEW m \in Messages, Send(m, w) PROVE IndInv'
  BY <1>6, SendKeeps
<1>7. ASSUME NEW w \in Workers, EncodeNext(w) \/ Encoded(w) PROVE IndInv'
  BY <1>7, EncodeNextKeeps, EncodedKeeps
<1>8. CASE UNCHANGED vars
  BY <1>8 DEF vars, IndInv, Typed, SharingInv, PointerInv, JobsInv, JobInv, OwnContents,
     Borrows, Made, Fits, Contents
<1>9. QED
  BY <1>1, <1>2, <1>3, <1>4, <1>5, <1>6, <1>7, <1>8 DEF Next, Application

\* The invariant holds in every state of every behaviour.
THEOREM Invariance == Spec => []IndInv
  BY InitInv, StepInv, PTL DEF Spec

\* Messages and lists can be taken for values as long as they have been copied to no
\* other variable, although GenMess, AddAVPs_Head and AddAVPs_Tail copy slices.
THEOREM ContentsAsBelieved == Spec => []OwnContents
  BY Invariance, PTL DEF IndInv

\* A worker encodes a message as it was when it was sent, whatever is appended to the
\* variable it came from while the worker encodes.
THEOREM WrittenAsSent == Spec => []EncodedAsSent
<1>1. IndInv => EncodedAsSent
  <2> SUFFICES ASSUME IndInv, NEW w \in Workers, NEW j, j = job[w], j.sure
               PROVE  /\ j.slice.len = Len(j.meant)
                      /\ j.out = SubSeq(j.meant, 1, Len(j.out))
    BY DEF EncodedAsSent
  <2>1. /\ JobInv(j) /\ j.slice \in Slice /\ j.out \in Seq(Nat) /\ j.meant \in Seq(Nat)
        /\ heap \in Seq(Seq(Nat))
    BY DEF IndInv, Typed, JobsInv
  <2>2. j.slice.len = Len(j.meant)
    BY <2>1, SliceOf DEF JobInv, Fits, Contents
  <2>3. PICK n \in Nat : n = Len(j.out) /\ n <= Len(j.meant)
    BY <2>1, <2>2, LenProperties DEF JobInv
  <2>4. PICK c \in Seq(Nat) : /\ c = SubSeq(j.meant, 1, n) /\ Len(c) = n
                               /\ \A i \in 1..n : c[i] = j.meant[i]
    <3>1. \A i \in 1..n : i \in 1..Len(j.meant)
      BY <2>1, <2>3, LenProperties
    <3>2. \A i \in 1..n : j.meant[i] \in Nat
      BY <2>1, <3>1, ElementOfSeq
    <3>3. n = (IF 1 <= n THEN n - 1 + 1 ELSE 0) /\ \A i \in 1..n : 1 + i - 1 = i /\ i \in 1..(n - 1 + 1)
      BY <2>3
    <3>4. /\ SubSeq(j.meant, 1, n) \in Seq(Nat)
          /\ Len(SubSeq(j.meant, 1, n)) = IF 1 <= n THEN n - 1 + 1 ELSE 0
          /\ \A i \in 1..(n - 1 + 1) : SubSeq(j.meant, 1, n)[i] = j.meant[1 + i - 1]
      BY <3>2, SubSeqProperties
    <3>5. QED
      BY <3>3, <3>4
  <2>5. c = j.out
    BY <2>1, <2>3, <2>4, SeqEqual DEF JobInv
  <2>6. QED
    BY <2>2, <2>3, <2>4, <2>5
<1>2. QED
  BY <1>1, Invariance, PTL
=============================================================================
