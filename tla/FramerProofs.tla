---------------------------- MODULE FramerProofs ----------------------------
(***************************************************************************)
(* Proofs about Framer for frames, reads and arrays of any size: what lies *)
(* in a part that has been cut off is one frame as it was sent and stays   *)
(* so, readLoop goes back to Read only when it needs more bytes, and it    *)
(* implements Intake.                                                      *)
(*                                                                         *)
(* The argument is about the stream of bytes that have not been handed on, *)
(* the contents of collect followed by what is on the wire: reading moves  *)
(* bytes within it, cutting and discarding take bytes off its front, the   *)
(* end of a connection takes some off its end.                             *)
(***************************************************************************)
EXTENDS Framer, TLAPS, SequenceTheorems, FunctionTheorems, FiniteSetTheorems

Byte  == (1..MaxFrames) \X (1..MaxLen)
Cell  == Byte \union {Empty}
Frame == [size : HeadLen..MaxLen, version : {1, 2}, conn : 1..MaxConns]

Fits(s) == s.arr \in 1..Len(heap) /\ s.off + s.len <= Len(heap[s.arr])

Typed ==
  /\ heap \in Seq(Seq(Cell))
  /\ collect \in Slice /\ Fits(collect)
  /\ parts \in Seq(Slice) /\ \A i \in 1..Len(parts) : Fits(parts[i])
  /\ phase \in {"read", "parse"}
  /\ wire \in Seq(Byte)
  /\ open \in BOOLEAN
  /\ sent \in Seq(Frame) /\ Len(sent) <= MaxFrames
  /\ conn \in 1..MaxConns
  /\ received \subseteq 1..Len(sent)

-----------------------------------------------------------------------------
(***************************************************************************)
(* Streams s of bytes of the frames fr.                                    *)
(***************************************************************************)
\* The frame a byte is of, its place in it, and the size of that frame.
No(b)       == b[1]
Pos(b)      == b[2]
Size(b, fr) == fr[b[1]].size

OfFrames(s, fr) ==
  \A i \in 1..Len(s) : No(s[i]) \in 1..Len(fr) /\ Pos(s[i]) \in 1..Size(s[i], fr)

\* After a byte of a frame comes the rest of that frame, as far as the stream goes.
RunsOn(s, fr) ==
  \A i, j \in 1..Len(s) :
    i <= j /\ Pos(s[i]) + (j - i) <= Size(s[i], fr) =>
      No(s[j]) = No(s[i]) /\ Pos(s[j]) = Pos(s[i]) + (j - i)

\* After the last byte of a frame comes the first of a frame.
Joined(s, fr) ==
  \A i, j \in 1..Len(s) : j = i + 1 /\ Pos(s[i]) = Size(s[i], fr) => Pos(s[j]) = 1

InOrder(s) == \A i, j \in 1..Len(s) : i <= j => No(s[i]) <= No(s[j])

\* The last frame in the stream is there to its end.
EndsWhole(s, fr) ==
  \A i \in 1..Len(s) : Size(s[i], fr) <= Pos(s[i]) + (Len(s) - i)

Ordered(s, fr) == OfFrames(s, fr) /\ RunsOn(s, fr) /\ Joined(s, fr) /\ InOrder(s)

-----------------------------------------------------------------------------
Flow == Contents(collect) \o wire

\* Frame k or an earlier one of its connection has another version.
Upset(k) == \E b \in 1..k : sent[b].conn = sent[k].conn /\ sent[b].version # 1

\* What has not been handed on is a stream of the frames of this connection, whole
\* while the peer sends; it begins inside a frame only after a discard.
FlowInv ==
  /\ Flow \in Seq(Byte)
  /\ Ordered(Flow, sent)
  /\ open => EndsWhole(Flow, sent)
  /\ \A i \in 1..Len(Flow) : sent[No(Flow[i])].conn = conn
  /\ Flow # <<>> /\ Pos(Flow[1]) # 1 => Upset(No(Flow[1]))

\* A part is one frame, in memory that readLoop will not write to again.
Away(s) == s.arr # collect.arr \/ s.off + s.len <= collect.off

PartsInv ==
  \A i \in 1..Len(parts) :
    /\ Away(parts[i])
    /\ FrameOf(parts[i]) \in 1..Len(sent)
    /\ Contents(parts[i]) = Bytes(FrameOf(parts[i]))

\* A frame read to its end has been handed on, or will be before the next Read.
ReceivedInv ==
  \A k \in received :
    \/ k \in HandedOn
    \/ Upset(k)
    \/ phase = "parse" /\ \E i \in 1..collect.len : Contents(collect)[i] = <<k, sent[k].size>>

IndInv == Typed /\ FlowInv /\ PartsInv /\ ReceivedInv

-----------------------------------------------------------------------------
LEMMA FrameSize == \A f \in Frame : f.size \in Nat /\ f.size \in 1..MaxLen /\ HeadLen <= f.size
  BY FramerAssumption DEF Frame

\* What a stream ends with can be left out.
LEMMA OrderedPrefix ==
  ASSUME NEW fr \in Seq(Frame), NEW s \in Seq(Byte), NEW u \in Seq(Byte), Ordered(s, fr),
         Len(u) <= Len(s), \A i \in 1..Len(u) : u[i] = s[i]
  PROVE  Ordered(u, fr)
<1>1. \A i \in 1..Len(u) : i \in 1..Len(s)
  BY LenProperties
<1>2. OfFrames(u, fr) /\ Joined(u, fr) /\ InOrder(u)
  BY <1>1 DEF Ordered, OfFrames, Joined, InOrder
<1>3. RunsOn(u, fr)
  BY <1>1 DEF Ordered, RunsOn
<1>4. QED
  BY <1>2, <1>3 DEF Ordered

\* So can the bytes it begins with.
LEMMA OrderedSuffix ==
  ASSUME NEW fr \in Seq(Frame), NEW s \in Seq(Byte), NEW u \in Seq(Byte), Ordered(s, fr),
         NEW n \in Nat, Len(s) = n + Len(u), \A i \in 1..Len(u) : u[i] = s[n + i]
  PROVE  Ordered(u, fr) /\ (EndsWhole(s, fr) => EndsWhole(u, fr))
<1>1. Len(s) \in Nat /\ Len(u) \in Nat
  BY LenProperties
<1>2. \A i \in 1..Len(u) : n + i \in 1..Len(s)
  BY <1>1
<1>3. OfFrames(u, fr)
  BY <1>2 DEF Ordered, OfFrames
<1>4. Joined(u, fr)
  <2> SUFFICES ASSUME NEW i \in 1..Len(u), NEW j \in 1..Len(u), j = i + 1,
                      Pos(u[i]) = Size(u[i], fr)
               PROVE  Pos(u[j]) = 1
    BY DEF Joined
  <2>1. n + j = (n + i) + 1
    OBVIOUS
  <2>2. QED
    BY <1>2, <2>1 DEF Ordered, Joined
<1>5. InOrder(u)
  <2> SUFFICES ASSUME NEW i \in 1..Len(u), NEW j \in 1..Len(u), i <= j
               PROVE  No(u[i]) <= No(u[j])
    BY DEF InOrder
  <2>1. n + i <= n + j
    OBVIOUS
  <2>2. QED
    BY <1>2, <2>1 DEF Ordered, InOrder
<1>6. RunsOn(u, fr)
  <2> SUFFICES ASSUME NEW i \in 1..Len(u), NEW j \in 1..Len(u), i <= j,
                      Pos(u[i]) + (j - i) <= Size(u[i], fr)
               PROVE  No(u[j]) = No(u[i]) /\ Pos(u[j]) = Pos(u[i]) + (j - i)
    BY DEF RunsOn
  <2>1. n + i <= n + j /\ (n + j) - (n + i) = j - i
    OBVIOUS
  <2>2. QED
    BY <1>2, <2>1 DEF Ordered, RunsOn
<1>7. ASSUME EndsWhole(s, fr) PROVE EndsWhole(u, fr)
  <2> SUFFICES ASSUME NEW i \in 1..Len(u)
               PROVE  Size(u[i], fr) <= Pos(u[i]) + (Len(u) - i)
    BY DEF EndsWhole
  <2>1. Len(s) - (n + i) = Len(u) - i
    BY <1>1
  <2>2. QED
    BY <1>2, <1>7, <2>1 DEF EndsWhole
<1>8. QED
  BY <1>3, <1>4, <1>5, <1>6, <1>7 DEF Ordered

\* A frame sent on an open connection goes on where the stream ends.
LEMMA OrderedSend ==
  ASSUME NEW fr \in Seq(Frame), NEW s \in Seq(Byte), NEW u \in Seq(Byte), Ordered(s, fr),
         EndsWhole(s, fr), NEW f \in Frame,
         Len(u) = Len(s) + f.size, \A i \in 1..Len(s) : u[i] = s[i],
         \A i \in 1..f.size : u[Len(s) + i] = <<Len(fr) + 1, i>>
  PROVE  Ordered(u, Append(fr, f)) /\ EndsWhole(u, Append(fr, f))
<1> DEFINE n  == Len(s)
           k  == Len(fr) + 1
           l  == f.size
           fx == Append(fr, f)
<1>1. n \in Nat /\ k \in Nat \ {0} /\ l \in Nat \ {0} /\ Len(u) = n + l
  BY LenProperties, FrameSize
<1>2. /\ Len(fx) = k /\ fx[k] = f /\ \A i \in 1..Len(fr) : fx[i] = fr[i]
  BY AppendProperties
<1>3. \A i \in 1..n : /\ u[i] = s[i] /\ No(s[i]) \in Nat /\ Pos(s[i]) \in Nat
                      /\ No(s[i]) < k /\ 1 <= No(s[i]) /\ 1 <= Pos(s[i])
                      /\ Size(s[i], fx) = Size(s[i], fr) /\ Size(s[i], fr) \in Nat
                      /\ Pos(s[i]) <= Size(s[i], fr)
  <2> SUFFICES ASSUME NEW i \in 1..n
               PROVE  /\ u[i] = s[i] /\ No(s[i]) \in Nat /\ Pos(s[i]) \in Nat
                      /\ No(s[i]) < k /\ 1 <= No(s[i]) /\ 1 <= Pos(s[i])
                      /\ Size(s[i], fx) = Size(s[i], fr) /\ Size(s[i], fr) \in Nat
                      /\ Pos(s[i]) <= Size(s[i], fr)
    OBVIOUS
  <2>1. No(s[i]) \in 1..Len(fr) /\ Pos(s[i]) \in 1..Size(s[i], fr)
    BY DEF Ordered, OfFrames
  <2>2. fr[No(s[i])] \in Frame /\ fx[No(s[i])] = fr[No(s[i])]
    BY <1>2, <2>1, ElementOfSeq
  <2>3. Size(s[i], fx) = Size(s[i], fr) /\ Size(s[i], fr) \in Nat
    BY <2>2, FrameSize DEF Size, No
  <2>4. QED
    BY <1>1, <2>1, <2>3
<1>4. \A i \in 1..Len(u) : i \notin 1..n =>
        No(u[i]) = k /\ Pos(u[i]) = i - n /\ i - n \in 1..l /\ Size(u[i], fx) = l
  <2> SUFFICES ASSUME NEW i \in 1..Len(u), i \notin 1..n
               PROVE  No(u[i]) = k /\ Pos(u[i]) = i - n /\ i - n \in 1..l /\ Size(u[i], fx) = l
    OBVIOUS
  <2> DEFINE h == i - n
  <2>1. h \in 1..l /\ n + h = i
    BY <1>1
  <2> HIDE DEF h
  <2>2. u[i] = <<k, h>>
    BY <2>1
  <2>3. No(u[i]) = k /\ Pos(u[i]) = h /\ Size(u[i], fx) = l
    BY <1>2, <2>2 DEF No, Pos, Size
  <2>4. QED
    BY <2>1, <2>3 DEF h
<1>5. \A i \in 1..n : Size(s[i], fr) <= Pos(s[i]) + (n - i)
  BY DEF EndsWhole
<1>6. /\ \A i, j \in 1..n : j = i + 1 /\ Pos(s[i]) = Size(s[i], fr) => Pos(s[j]) = 1
      /\ \A i, j \in 1..n : i <= j => No(s[i]) <= No(s[j])
      /\ \A i, j \in 1..n :
           i <= j /\ Pos(s[i]) + (j - i) <= Size(s[i], fr) =>
             No(s[j]) = No(s[i]) /\ Pos(s[j]) = Pos(s[i]) + (j - i)
  BY DEF Ordered, Joined, InOrder, RunsOn
<1> HIDE DEF n, k, l, fx
<1>7. OfFrames(u, fx)
  BY <1>1, <1>2, <1>3, <1>4 DEF OfFrames
<1>8. Joined(u, fx)
  <2> SUFFICES ASSUME NEW i \in 1..Len(u), NEW j \in 1..Len(u), j = i + 1,
                      Pos(u[i]) = Size(u[i], fx)
               PROVE  Pos(u[j]) = 1
    BY DEF Joined
  <2>1. CASE i \in 1..n /\ j \in 1..n
    BY <1>3, <1>6, <2>1
  <2>2. CASE i \in 1..n /\ j \notin 1..n
    BY <1>1, <1>4, <2>2
  <2>3. CASE i \notin 1..n
    BY <1>1, <1>4, <2>3
  <2>4. QED
    BY <2>1, <2>2, <2>3
<1>9. InOrder(u)
  <2> SUFFICES ASSUME NEW i \in 1..Len(u), NEW j \in 1..Len(u), i <= j
               PROVE  No(u[i]) <= No(u[j])
    BY DEF InOrder
  <2>1. CASE i \in 1..n /\ j \in 1..n
    BY <1>3, <1>6, <2>1
  <2>2. CASE i \in 1..n /\ j \notin 1..n
    <3>1. No(u[i]) = No(s[i]) /\ No(s[i]) \in Nat /\ No(s[i]) < k
      BY <1>3, <2>2
    <3>2. No(u[j]) = k
      BY <1>4, <2>2
    <3>3. QED
      BY <1>1, <3>1, <3>2
  <2>3. CASE i \notin 1..n
    BY <1>1, <1>4, <2>3
  <2>4. QED
    BY <2>1, <2>2, <2>3
<1>10. RunsOn(u, fx)
  <2> SUFFICES ASSUME NEW i \in 1..Len(u), NEW j \in 1..Len(u), i <= j,
                      Pos(u[i]) + (j - i) <= Size(u[i], fx)
               PROVE  No(u[j]) = No(u[i]) /\ Pos(u[j]) = Pos(u[i]) + (j - i)
    BY DEF RunsOn
  <2>1. CASE i \in 1..n /\ j \in 1..n
    BY <1>3, <1>6, <2>1
  <2>2. CASE i \in 1..n /\ j \notin 1..n
    <3>1. /\ Size(s[i], fr) <= Pos(s[i]) + (n - i)
          /\ Pos(s[i]) + (j - i) <= Size(s[i], fr)
          /\ Pos(s[i]) \in Nat /\ Size(s[i], fr) \in Nat
      BY <1>3, <1>5, <2>2
    <3>2. i \in Nat /\ j \in Nat /\ j > n
      BY <1>1, <2>2
    <3>3. QED
      BY <1>1, <3>1, <3>2
  <2>3. CASE i \notin 1..n
    <3>1. j \notin 1..n
      BY <1>1, <2>3
    <3>2. No(u[j]) = No(u[i]) /\ Pos(u[i]) = i - n /\ Pos(u[j]) = j - n
      BY <1>4, <2>3, <3>1
    <3>3. QED
      BY <1>1, <3>2
  <2>4. QED
    BY <2>1, <2>2, <2>3
<1>11. EndsWhole(u, fx)
  <2> SUFFICES ASSUME NEW i \in 1..Len(u)
               PROVE  Size(u[i], fx) <= Pos(u[i]) + (Len(u) - i)
    BY DEF EndsWhole
  <2>1. CASE i \in 1..n
    <3> DEFINE p == Pos(s[i])
               z == Size(s[i], fr)
    <3>1. Pos(u[i]) = p /\ Size(u[i], fx) = z /\ p \in Nat /\ z \in Nat /\ z <= p + (n - i)
      BY <1>3, <1>5, <2>1
    <3> HIDE DEF p, z
    <3>2. QED
      BY <1>1, <2>1, <3>1
  <2>2. CASE i \notin 1..n
    BY <1>1, <1>4, <2>2
  <2>3. QED
    BY <2>1, <2>2
<1>12. QED
  BY <1>7, <1>8, <1>9, <1>10, <1>11 DEF Ordered, fx

-----------------------------------------------------------------------------
(***************************************************************************)
(* Memory.                                                                 *)
(***************************************************************************)
\* What a slice of arrays h contains.
LEMMA SliceOf ==
  ASSUME NEW h \in Seq(Seq(Cell)), NEW s \in Slice, s.arr \in 1..Len(h),
         s.off + s.len <= Len(h[s.arr])
  PROVE  LET c == SubSeq(h[s.arr], s.off + 1, s.off + s.len)
         IN  /\ c \in Seq(Cell) /\ Len(c) = s.len
             /\ \A i \in 1..s.len : c[i] = h[s.arr][s.off + i]
<1> DEFINE a == h[s.arr]
<1>1. a \in Seq(Cell) /\ Len(a) \in Nat /\ s.off \in Nat /\ s.len \in Nat
  BY ElementOfSeq, LenProperties DEF Slice
<1>0. s.off + s.len <= Len(a)
  OBVIOUS
<1> HIDE DEF a
<1>2. \A i \in (s.off + 1)..(s.off + s.len) : a[i] \in Cell
  <2>1. \A i \in (s.off + 1)..(s.off + s.len) : i \in 1..Len(a)
    BY <1>0, <1>1
  <2>2. QED
    BY <1>1, <2>1, ElementOfSeq
<1>3. /\ SubSeq(a, s.off + 1, s.off + s.len) \in Seq(Cell)
      /\ Len(SubSeq(a, s.off + 1, s.off + s.len)) = s.len
      /\ \A i \in 1..s.len : SubSeq(a, s.off + 1, s.off + s.len)[i] = a[s.off + i]
  <2> DEFINE m == s.off + 1
             k == s.off + s.len
  <2>1. m \in Int /\ k \in Int /\ (IF m <= k THEN k - m + 1 ELSE 0) = s.len
    BY <1>1
  <2>2. \A i \in 1..s.len : i \in 1..(k - m + 1) /\ m + i - 1 = s.off + i
    BY <1>1
  <2>3. \A i \in m..k : a[i] \in Cell
    BY <1>2
  <2> HIDE DEF m, k
  <2>4. /\ SubSeq(a, m, k) \in Seq(Cell)
        /\ Len(SubSeq(a, m, k)) = IF m <= k THEN k - m + 1 ELSE 0
        /\ \A i \in 1..(k - m + 1) : SubSeq(a, m, k)[i] = a[m + i - 1]
    BY <2>1, <2>3, SubSeqProperties
  <2>5. \A i \in 1..s.len : SubSeq(a, m, k)[i] = a[s.off + i]
    BY <2>2, <2>4
  <2>6. QED
    BY <2>1, <2>4, <2>5 DEF m, k
<1>4. QED
  BY <1>3 DEF a

\* A sequence of cells without empty ones is one of bytes.
LEMMA BytesOnly ==
  ASSUME NEW s \in Seq(Cell), \A i \in 1..Len(s) : s[i] \in Byte
  PROVE  s \in Seq(Byte)
  OBVIOUS

\* append writes behind collect or into a new array: no part that lies away from
\* collect changes or comes to lie in its way.
LEMMA AppendKeeps ==
  ASSUME Typed, NEW bytes \in Seq(Byte), Appended(bytes)
  PROVE  /\ heap' \in Seq(Seq(Cell))
         /\ collect' \in Slice /\ Fits(collect)' /\ collect'.len = collect.len + Len(bytes)
         /\ Contents(collect)' = Contents(collect) \o bytes
         /\ \A s \in Slice : Fits(s) /\ Away(s) =>
              Fits(s)' /\ Away(s)' /\ Contents(s)' = Contents(s)
<1> DEFINE a   == heap[collect.arr]
           off == collect.off
           len == collect.len
           end == off + len
           n   == Len(bytes)
           C   == Contents(collect)
<1>1. /\ heap \in Seq(Seq(Cell)) /\ collect \in Slice /\ collect.arr \in 1..Len(heap)
      /\ end <= Len(a) /\ off \in Nat /\ len \in Nat /\ n \in Nat /\ collect.arr \in Nat
      /\ Len(heap) \in Nat /\ a \in Seq(Cell) /\ Len(a) \in Nat
      /\ \A i \in 1..n : bytes[i] \in Cell
      /\ \A i \in 1..Len(a) : a[i] \in Cell
  <2>1. /\ heap \in Seq(Seq(Cell)) /\ collect \in Slice /\ collect.arr \in 1..Len(heap)
        /\ end <= Len(a)
    BY DEF Typed, Fits
  <2>2. /\ off \in Nat /\ len \in Nat /\ collect.arr \in Nat
    BY <2>1 DEF Slice
  <2>3. a \in Seq(Cell)
    BY <2>1, ElementOfSeq
  <2> HIDE DEF a
  <2>4. /\ Len(a) \in Nat /\ n \in Nat /\ Len(heap) \in Nat
        /\ \A i \in 1..Len(a) : a[i] \in Cell
    BY <2>1, <2>3, ElementOfSeq, LenProperties
  <2>5. \A i \in 1..n : bytes[i] \in Cell
    BY ElementOfSeq DEF Cell
  <2>6. QED
    BY <2>1, <2>2, <2>3, <2>4, <2>5
<1>2. /\ C \in Seq(Cell) /\ Len(C) = len /\ \A i \in 1..len : C[i] = a[off + i]
  BY <1>1, SliceOf DEF Contents
<1>3. bytes \in Seq(Cell)
  BY <1>1, SeqMonotonic DEF Cell
<1>4. /\ C \o bytes \in Seq(Cell) /\ Len(C \o bytes) = len + n
      /\ \A i \in 1..(len + n) : (C \o bytes)[i] = IF i <= len THEN C[i] ELSE bytes[i - len]
  <2> HIDE DEF C, len, n
  <2>1. /\ C \o bytes \in Seq(Cell) /\ Len(C \o bytes) = Len(C) + Len(bytes)
        /\ \A i \in 1..(Len(C) + Len(bytes)) :
             (C \o bytes)[i] = IF i <= Len(C) THEN C[i] ELSE bytes[i - Len(C)]
    BY <1>2, <1>3, ConcatProperties
  <2>2. Len(C) = len /\ Len(bytes) = n
    BY <1>2 DEF n
  <2>3. QED
    BY <2>1, <2>2
<1>5. CASE end + n <= Len(a)
  <2> DEFINE b == [i \in 1..Len(a) |-> IF i \in (end + 1)..(end + n) THEN bytes[i - end] ELSE a[i]]
  <2>1. heap' = [heap EXCEPT ![collect.arr] = b] /\ collect' = [collect EXCEPT !.len = @ + n]
    BY <1>5 DEF Appended
  <2>2. b \in Seq(Cell) /\ Len(b) = Len(a)
    <3>1. \A i \in 1..Len(a) : i \in (end + 1)..(end + n) => i - end \in 1..n
      BY <1>1
    <3>2. \A i \in 1..Len(a) : b[i] \in Cell
      BY <1>1, <3>1
    <3>3. b \in [1..Len(a) -> Cell]
      BY <3>2
    <3>4. QED
      BY <1>1, <3>3
  <2>3. /\ \A i \in 1..end : b[i] = a[i]
        /\ \A i \in 1..n : b[end + i] = bytes[i]
    <3>1. \A i \in 1..end : i \in 1..Len(a) /\ i \notin (end + 1)..(end + n)
      BY <1>1
    <3>2. \A i \in 1..n : end + i \in 1..Len(a) /\ end + i \in (end + 1)..(end + n)
                          /\ (end + i) - end = i
      BY <1>1, <1>5
    <3>3. QED
      BY <3>1, <3>2
  <2> HIDE DEF b
  <2>4. /\ heap' \in Seq(Seq(Cell)) /\ Len(heap') = Len(heap) /\ heap'[collect.arr] = b
        /\ \A j \in 1..Len(heap) : j # collect.arr => heap'[j] = heap[j]
    BY <1>1, <2>1, <2>2, ExceptSeq
  <2>5. /\ collect' \in Slice /\ collect'.arr = collect.arr /\ collect'.off = off
        /\ collect'.len = len + n
    <3>1. collect' = [arr |-> collect.arr, off |-> off, len |-> len + n]
      BY <1>1, <2>1 DEF Slice
    <3>2. len + n \in Nat
      BY <1>1
    <3>3. QED
      BY <1>1, <3>1, <3>2 DEF Slice
  <2>6. Fits(collect)'
    BY <1>1, <1>5, <2>2, <2>4, <2>5 DEF Fits
  <2>7. Contents(collect)' = C \o bytes
    <3> DEFINE D == SubSeq(heap'[collect'.arr], collect'.off + 1, collect'.off + collect'.len)
    <3>1. D \in Seq(Cell) /\ Len(D) = len + n /\ \A i \in 1..(len + n) : D[i] = b[off + i]
      BY <2>4, <2>5, <2>6, SliceOf DEF Fits
    <3> HIDE DEF D
    <3>2. ASSUME NEW i \in 1..(len + n) PROVE D[i] = (C \o bytes)[i]
      <4>1. CASE i <= len
        <5>1. i \in 1..len /\ off + i \in 1..end
          BY <1>1, <4>1
        <5>2. QED
          <6>1. D[i] = a[off + i]
            BY <2>3, <3>1, <5>1
          <6>2. (C \o bytes)[i] = C[i] /\ C[i] = a[off + i]
            BY <1>2, <1>4, <4>1, <5>1
          <6>3. QED
            BY <6>1, <6>2
      <4>2. CASE ~(i <= len)
        <5> DEFINE h == i - len
        <5>1. h \in 1..n /\ off + i = end + h
          BY <1>1, <4>2
        <5>2. D[i] = bytes[h]
          <6> HIDE DEF h
          <6>1. QED
            BY <2>3, <3>1, <5>1
        <5>3. QED
          BY <1>4, <4>2, <5>2
      <4>3. QED
        BY <4>1, <4>2
    <3>3. D = C \o bytes
      BY <1>4, <3>1, <3>2, SeqEqual
    <3>4. QED
      BY <3>3 DEF D, Contents
  <2>8. ASSUME NEW s \in Slice, Fits(s), Away(s)
        PROVE  Fits(s)' /\ Away(s)' /\ Contents(s)' = Contents(s)
    <3>1. Away(s)'
      BY <2>5, <2>8 DEF Away
    <3>2. CASE s.arr # collect.arr
      BY <2>4, <2>8, <3>1, <3>2 DEF Fits, Contents
    <3>3. CASE s.arr = collect.arr /\ s.off + s.len <= off
      <4>1. Fits(s)'
        BY <2>2, <2>4, <2>8, <3>3 DEF Fits
      <4> DEFINE D == SubSeq(heap[s.arr], s.off + 1, s.off + s.len)
                 E == SubSeq(heap'[s.arr], s.off + 1, s.off + s.len)
      <4>2. /\ D \in Seq(Cell) /\ Len(D) = s.len
            /\ \A i \in 1..s.len : D[i] = a[s.off + i]
        BY <1>1, <2>8, <3>3, SliceOf DEF Fits
      <4>3. /\ E \in Seq(Cell) /\ Len(E) = s.len
            /\ \A i \in 1..s.len : E[i] = b[s.off + i]
        BY <2>4, <3>3, <4>1, SliceOf DEF Fits
      <4>4. \A i \in 1..s.len : s.off + i \in 1..end
        BY <1>1, <3>3 DEF Slice
      <4> HIDE DEF D, E
      <4>5. \A i \in 1..s.len : D[i] = E[i]
        BY <2>3, <4>2, <4>3, <4>4
      <4>6. D = E
        BY <4>2, <4>3, <4>5, SeqEqual
      <4>7. QED
        BY <3>1, <4>1, <4>6 DEF D, E, Contents
    <3>4. QED
      BY <2>8, <3>2, <3>3 DEF Away
  <2>9. QED
    BY <2>4, <2>5, <2>6, <2>7, <2>8
<1>6. CASE ~(end + n <= Len(a))
  <2>1. PICK spare \in 0..MaxSpare :
          /\ heap' = Append(heap, C \o bytes \o NewArray(spare))
          /\ collect' = [arr |-> Len(heap) + 1, off |-> 0, len |-> len + n]
    BY <1>6 DEF Appended
  <2> DEFINE b == C \o bytes \o NewArray(spare)
  <2>2. NewArray(spare) \in Seq(Cell) /\ Len(NewArray(spare)) \in Nat
    BY FramerAssumption DEF NewArray, Cell
  <2>3. /\ b \in Seq(Cell) /\ len + n <= Len(b)
        /\ \A i \in 1..(len + n) : b[i] = (C \o bytes)[i]
    BY <1>1, <1>4, <2>2, ConcatProperties
  <2> HIDE DEF b
  <2>4. /\ heap' \in Seq(Seq(Cell)) /\ Len(heap') = Len(heap) + 1 /\ heap'[Len(heap) + 1] = b
        /\ \A j \in 1..Len(heap) : heap'[j] = heap[j]
    BY <1>1, <2>1, <2>3, AppendProperties DEF b
  <2>5. /\ collect' \in Slice /\ collect'.arr = Len(heap) + 1 /\ collect'.off = 0
        /\ collect'.len = len + n
    BY <1>1, <2>1 DEF Slice
  <2>6. Fits(collect)'
    BY <1>1, <2>3, <2>4, <2>5 DEF Fits
  <2>7. Contents(collect)' = C \o bytes
    <3> DEFINE D == SubSeq(heap'[collect'.arr], collect'.off + 1, collect'.off + collect'.len)
    <3>1. /\ D \in Seq(Cell) /\ Len(D) = collect'.len
          /\ \A i \in 1..collect'.len : D[i] = heap'[collect'.arr][collect'.off + i]
      BY <2>4, <2>5, <2>6, SliceOf DEF Fits
    <3> HIDE DEF D
    <3>2. /\ Len(D) = len + n
          /\ \A i \in 1..(len + n) : D[i] = (C \o bytes)[i]
      <4>1. \A i \in 1..(len + n) : 0 + i = i
        BY <1>1
      <4>2. \A i \in 1..(len + n) : D[i] = b[0 + i]
        BY <2>4, <2>5, <3>1
      <4>3. \A i \in 1..(len + n) : D[i] = b[i]
        BY <4>1, <4>2
      <4>4. QED
        BY <2>3, <2>5, <3>1, <4>3
    <3>3. D = C \o bytes
      BY <1>4, <3>1, <3>2, SeqEqual
    <3>4. QED
      BY <3>3 DEF D, Contents
  <2>8. ASSUME NEW s \in Slice, Fits(s), Away(s)
        PROVE  Fits(s)' /\ Away(s)' /\ Contents(s)' = Contents(s)
    <3>1. s.arr \in 1..Len(heap) /\ s.arr \in 1..Len(heap') /\ s.arr # collect'.arr
      BY <1>1, <2>4, <2>5, <2>8 DEF Fits
    <3>2. heap'[s.arr] = heap[s.arr]
      BY <2>4, <3>1
    <3>3. QED
      BY <2>8, <3>1, <3>2 DEF Fits, Away, Contents
  <2>9. QED
    BY <2>4, <2>5, <2>6, <2>7, <2>8
<1>7. QED
  BY <1>5, <1>6

-----------------------------------------------------------------------------
(***************************************************************************)
(* The invariant.                                                          *)
(***************************************************************************)
LEMMA Joining ==
  ASSUME NEW c \in Seq(Cell), NEW w \in Seq(Byte)
  PROVE  /\ c \o w \in Seq(Cell) /\ Len(c \o w) = Len(c) + Len(w)
         /\ \A i \in 1..Len(c) : (c \o w)[i] = c[i]
         /\ \A i \in 1..Len(w) : (c \o w)[Len(c) + i] = w[i]
<1>1. w \in Seq(Cell)
  BY SeqMonotonic DEF Cell
<1>2. /\ c \o w \in Seq(Cell) /\ Len(c \o w) = Len(c) + Len(w) /\ Len(c) \in Nat /\ Len(w) \in Nat
      /\ \A i \in 1..(Len(c) + Len(w)) : (c \o w)[i] = IF i <= Len(c) THEN c[i] ELSE w[i - Len(c)]
  BY <1>1, ConcatProperties, LenProperties
<1>3. \A i \in 1..Len(w) : /\ Len(c) + i \in 1..(Len(c) + Len(w)) /\ ~(Len(c) + i <= Len(c))
                           /\ (Len(c) + i) - Len(c) = i
  BY <1>2
<1>4. \A i \in 1..Len(c) : i \in 1..(Len(c) + Len(w)) /\ i <= Len(c)
  BY <1>2
<1>5. QED
  BY <1>2, <1>3, <1>4

\* The stream, and what of it lies in collect.
LEMMA FlowOf ==
  ASSUME Typed
  PROVE  /\ Contents(collect) \in Seq(Cell) /\ Len(Contents(collect)) = collect.len
         /\ collect.len \in Nat /\ Len(wire) \in Nat /\ Len(sent) \in Nat
         /\ Flow \in Seq(Cell) /\ Len(Flow) = collect.len + Len(wire)
         /\ \A i \in 1..collect.len : /\ Flow[i] = Contents(collect)[i]
                                      /\ Flow[i] = heap[collect.arr][collect.off + i]
         /\ \A i \in 1..Len(wire) : Flow[collect.len + i] = wire[i]
<1>1. /\ Contents(collect) \in Seq(Cell) /\ Len(Contents(collect)) = collect.len
      /\ \A i \in 1..collect.len : Contents(collect)[i] = heap[collect.arr][collect.off + i]
  BY SliceOf DEF Typed, Fits, Contents
<1>2. collect.len \in Nat /\ Len(wire) \in Nat /\ Len(sent) \in Nat /\ wire \in Seq(Byte)
  BY LenProperties DEF Typed, Slice
<1>3. /\ Flow \in Seq(Cell) /\ Len(Flow) = Len(Contents(collect)) + Len(wire)
      /\ \A i \in 1..Len(Contents(collect)) : Flow[i] = Contents(collect)[i]
      /\ \A i \in 1..Len(wire) : Flow[Len(Contents(collect)) + i] = wire[i]
  BY <1>1, <1>2, Joining DEF Flow
<1>4. QED
  BY <1>1, <1>2, <1>3

\* Frames that have been sent stay as they are.
SentKept == Len(sent) <= Len(sent)' /\ \A k \in 1..Len(sent) : sent'[k] = sent[k]

LEMMA UpsetKept ==
  ASSUME Typed, SentKept, NEW k \in 1..Len(sent)
  PROVE  Upset(k)' <=> Upset(k)
<1>1. \A b \in 1..k : b \in 1..Len(sent)
  BY FlowOf
<1>2. QED
  BY <1>1 DEF Upset, SentKept

\* The parts stay what they are while memory away from collect is left alone.
LEMMA PartsKept ==
  ASSUME Typed, PartsInv, SentKept, UNCHANGED parts,
         \A s \in Slice : Fits(s) /\ Away(s) => Fits(s)' /\ Away(s)' /\ Contents(s)' = Contents(s)
  PROVE  /\ PartsInv' /\ UNCHANGED HandedOn
         /\ parts' \in Seq(Slice) /\ \A i \in 1..Len(parts) : Fits(parts[i])'
<1>1. \A i \in 1..Len(parts) : parts[i] \in Slice /\ Fits(parts[i]) /\ Away(parts[i])
  BY ElementOfSeq DEF Typed, PartsInv
<1>2. \A i \in 1..Len(parts) : /\ Fits(parts[i])' /\ Away(parts[i])'
                               /\ Contents(parts[i])' = Contents(parts[i])
                               /\ FrameOf(parts[i])' = FrameOf(parts[i])
  <2> SUFFICES ASSUME NEW i \in 1..Len(parts)
               PROVE  /\ Fits(parts[i])' /\ Away(parts[i])'
                      /\ Contents(parts[i])' = Contents(parts[i])
                      /\ FrameOf(parts[i])' = FrameOf(parts[i])
    OBVIOUS
  <2>1. PICK s \in Slice : s = parts[i] /\ s = parts'[i]
    BY <1>1
  <2>2. Fits(s)' /\ Away(s)' /\ Contents(s)' = Contents(s)
    BY <1>1, <2>1
  <2>3. QED
    BY <2>1, <2>2 DEF Fits, Away, Contents, FrameOf
<1>3. \A k \in 1..Len(sent) : Bytes(k)' = Bytes(k) /\ k \in 1..Len(sent')
  BY FlowOf DEF SentKept, Bytes
<1>4. PartsInv'
  <2> SUFFICES ASSUME NEW i \in 1..Len(parts)
               PROVE  /\ Away(parts[i])' /\ FrameOf(parts[i])' \in 1..Len(sent')
                      /\ Contents(parts[i])' = Bytes(FrameOf(parts[i]))'
    BY DEF PartsInv
  <2>1. FrameOf(parts[i]) \in 1..Len(sent) /\ Contents(parts[i]) = Bytes(FrameOf(parts[i]))
    BY DEF PartsInv
  <2>2. Bytes(FrameOf(parts[i]))' = Bytes(FrameOf(parts[i]))
    BY <1>2, <1>3, <2>1 DEF Bytes
  <2>3. Contents(parts[i])' = Bytes(FrameOf(parts[i]))'
    BY <1>2, <2>1, <2>2, Zenon
  <2>4. FrameOf(parts[i])' \in 1..Len(sent')
    BY <1>2, <1>3, <2>1, Zenon
  <2>5. QED
    BY <1>2, <2>3, <2>4
<1>5. UNCHANGED HandedOn
  BY <1>2 DEF HandedOn
<1>6. QED
  BY <1>1, <1>2, <1>4, <1>5 DEF Typed

\* Taking bytes off the front of the stream.
LEMMA FlowCut ==
  ASSUME Typed, FlowInv, UNCHANGED <<sent, open, conn>>, Flow' \in Seq(Cell), NEW n \in Nat,
         Len(Flow) = n + Len(Flow'), \A i \in 1..Len(Flow') : Flow'[i] = Flow[n + i],
         n + 1 <= Len(Flow) => Pos(Flow[n + 1]) = 1 \/ Upset(No(Flow[n + 1]))
  PROVE  FlowInv'
<1>1. Len(Flow') \in Nat /\ Flow \in Seq(Byte) /\ sent \in Seq(Frame)
  BY LenProperties DEF FlowInv, Typed
<1>2. \A i \in 1..Len(Flow') : n + i \in 1..Len(Flow) /\ Flow'[i] \in Byte
  BY <1>1, ElementOfSeq
<1>3. Flow' \in Seq(Byte)
  BY <1>2, BytesOnly
<1>4. Ordered(Flow', sent) /\ (EndsWhole(Flow, sent) => EndsWhole(Flow', sent))
  BY <1>1, <1>3, OrderedSuffix DEF FlowInv
<1>5. \A i \in 1..Len(Flow') : sent[No(Flow'[i])].conn = conn
  BY <1>2 DEF FlowInv
<1>6. Flow' # <<>> /\ Pos(Flow'[1]) # 1 => Upset(No(Flow'[1]))
  <2>1. Flow' # <<>> => 1 \in 1..Len(Flow') /\ n + 1 <= Len(Flow)
    BY <1>1, <1>3, EmptySeq
  <2>2. QED
    BY <2>1
<1>7. Upset(No(Flow'[1])) => Upset(No(Flow[1]))'
  BY DEF Upset
<1>8. QED
  BY <1>3, <1>4, <1>5, <1>6, <1>7 DEF FlowInv, Ordered, OfFrames, RunsOn, Joined, InOrder,
     EndsWhole, Size

\* The byte collect begins with.
LEMMA FirstFrame ==
  ASSUME Typed, FlowInv, collect.len >= HeadLen
  PROVE  LET k == No(Flow[1])
         IN  /\ Flow # <<>> /\ 1 \in 1..collect.len /\ 1 \in 1..Len(Flow) /\ Flow[1] = First
             /\ k \in 1..Len(sent) /\ sent[k] \in Frame /\ Length = sent[k].size
             /\ Length \in Nat \ {0}
             /\ Version = 1 => Pos(Flow[1]) = 1
             /\ Version # 1 => Upset(k)
<1>1. 1 \in 1..collect.len /\ 1 \in 1..Len(Flow)
  BY FlowOf, FramerAssumption
<1>2. Flow # <<>>
  BY <1>1, EmptySeq
<1>3. Flow[1] = First
  BY <1>1, FlowOf DEF First
<1>4. No(Flow[1]) \in 1..Len(sent)
  BY <1>1 DEF FlowInv, Ordered, OfFrames
<1>5. sent[No(Flow[1])] \in Frame
  BY <1>4, ElementOfSeq DEF Typed
<1>6. Length = sent[No(Flow[1])].size /\ Length \in Nat \ {0}
  BY <1>3, <1>5, FrameSize DEF Length, No
<1>7. Version = 1 => Pos(Flow[1]) = 1
  BY <1>3 DEF Version, Pos
<1>8. Version # 1 => Upset(No(Flow[1]))
  <2>1. CASE Pos(Flow[1]) # 1
    BY <1>2, <2>1 DEF FlowInv
  <2>2. CASE Pos(Flow[1]) = 1
    <3>1. Version = sent[No(Flow[1])].version
      BY <1>3, <2>2 DEF Version, Pos, No
    <3>2. No(Flow[1]) \in 1..No(Flow[1])
      BY <1>4
    <3>3. QED
      BY <3>1, <3>2 DEF Upset
  <2>3. QED
    BY <2>1, <2>2
<1>9. QED
  BY <1>1, <1>2, <1>3, <1>4, <1>5, <1>6, <1>7, <1>8

\* After one upset frame all that follow on its connection are.
LEMMA UpsetOn ==
  ASSUME Typed, FlowInv, Flow # <<>>, Upset(No(Flow[1])), NEW i \in 1..Len(Flow)
  PROVE  Upset(No(Flow[i]))
<1>1. 1 \in 1..Len(Flow) /\ 1 <= i
  BY FlowOf
<1>2. /\ No(Flow[1]) \in 1..Len(sent) /\ No(Flow[i]) \in 1..Len(sent)
      /\ No(Flow[1]) <= No(Flow[i])
      /\ sent[No(Flow[1])].conn = sent[No(Flow[i])].conn
  BY <1>1 DEF FlowInv, Ordered, OfFrames, InOrder
<1>3. \A b \in 1..No(Flow[1]) : b \in 1..No(Flow[i])
  BY <1>2
<1>4. QED
  BY <1>2, <1>3 DEF Upset

-----------------------------------------------------------------------------
LEMMA InitInv == Init => IndInv
<1> SUFFICES ASSUME Init PROVE IndInv
  OBVIOUS
<1> USE DEF Init
<1>1. heap \in Seq(Seq(Cell)) /\ Len(heap) = 1 /\ Len(heap[1]) = Capacity
  <2>1. NewArray(Capacity) \in Seq(Cell) /\ Len(NewArray(Capacity)) = Capacity
    BY FramerAssumption DEF NewArray, Cell
  <2>2. QED
    BY <2>1
<1>2. Typed
  <2>1. collect \in Slice /\ Fits(collect)
    BY <1>1, FramerAssumption DEF Slice, Fits
  <2>2. open \in BOOLEAN
    BY Zenon
  <2>3. Len(sent) <= MaxFrames /\ conn \in 1..MaxConns
    BY FramerAssumption
  <2>4. QED
    BY <1>1, <2>1, <2>2, <2>3 DEF Typed
<1>3. Flow = <<>>
  <2>1. Len(Flow) = 0 /\ Flow \in Seq(Cell)
    BY <1>2, FlowOf
  <2>2. QED
    BY <2>1, EmptySeq
<1>4. FlowInv
  BY <1>3 DEF FlowInv, Ordered, OfFrames, RunsOn, Joined, InOrder, EndsWhole
<1>5. PartsInv /\ ReceivedInv
  BY DEF PartsInv, ReceivedInv
<1>6. QED
  BY <1>2, <1>4, <1>5 DEF IndInv

\* Read moves bytes from the wire to collect.
LEMMA ReadKeeps ==
  ASSUME IndInv, Read
  PROVE  IndInv' /\ UNCHANGED <<Flow, HandedOn>>
<1> USE DEF IndInv
<1>1. PICK n \in 1..ReadMax :
        /\ n <= Len(wire)
        /\ Appended(SubSeq(wire, 1, n))
        /\ wire' = SubSeq(wire, n + 1, Len(wire))
        /\ received' = received \union
             {k \in 1..Len(sent) : \E i \in 1..n : wire[i] = <<k, sent[k].size>>}
  BY DEF Read
<1>2. /\ phase = "read" /\ phase' = "parse" /\ UNCHANGED <<parts, open, sent, conn>>
  BY DEF Read
<1> DEFINE C == Contents(collect)
           r == SubSeq(wire, 1, n)
           w == SubSeq(wire, n + 1, Len(wire))
<1>3. /\ wire \in Seq(Byte) /\ n \in 0..Len(wire) /\ Len(wire) \in Nat /\ n \in Nat
  BY <1>1, LenProperties, FramerAssumption DEF Typed
<1>4. /\ r \in Seq(Byte) /\ Len(r) = n /\ \A i \in 1..n : r[i] = wire[i]
      /\ w \in Seq(Byte)
  <2>1. \A i \in 1..Len(wire) : wire[i] \in Byte
    BY <1>3, ElementOfSeq
  <2>2. \A i \in 1..n : i \in 1..Len(wire)
    BY <1>3
  <2>3. \A i \in (n + 1)..Len(wire) : i \in 1..Len(wire)
    BY <1>3
  <2>4. QED
    BY <1>3, <2>1, <2>2, <2>3, SubSeqProperties
<1>5. r \o w = wire
  <2>1. /\ 1 \in 1..(Len(wire) + 1) /\ n \in (1 - 1)..Len(wire) /\ Len(wire) \in n..Len(wire)
    BY <1>3
  <2>2. QED
    BY <1>3, <2>1, ConcatAdjacentSubSeq, SubSeqFull
<1> HIDE DEF r, w
<1>6. /\ heap' \in Seq(Seq(Cell))
      /\ collect' \in Slice /\ Fits(collect)' /\ collect'.len = collect.len + n
      /\ Contents(collect)' = C \o r
      /\ \A s \in Slice : Fits(s) /\ Away(s) =>
           Fits(s)' /\ Away(s)' /\ Contents(s)' = Contents(s)
  <2>1. Appended(r)
    BY <1>1 DEF r
  <2>2. QED
    BY <1>4, <2>1, AppendKeeps
<1>7. SentKept
  BY <1>2, FlowOf DEF SentKept
<1>8. /\ PartsInv' /\ UNCHANGED HandedOn
      /\ parts' \in Seq(Slice) /\ \A i \in 1..Len(parts) : Fits(parts[i])'
  BY <1>2, <1>6, <1>7, PartsKept
<1>9. Typed'
  <2>1. received' \subseteq 1..Len(sent')
    BY <1>1, <1>2 DEF Typed
  <2>2. wire' \in Seq(Byte)
    BY <1>1, <1>4 DEF w
  <2>3. QED
    BY <1>2, <1>6, <1>8, <2>1, <2>2 DEF Typed
<1>10. Flow' = Flow
  <2>1. C \in Seq(Cell) /\ r \in Seq(Cell) /\ w \in Seq(Cell)
    BY <1>4, FlowOf, SeqMonotonic DEF Cell
  <2>2. (C \o r) \o w = C \o (r \o w)
    BY <2>1, ConcatAssociative
  <2>3. wire' = w
    BY <1>1 DEF w
  <2>4. QED
    BY <1>5, <1>6, <2>2, <2>3 DEF Flow
<1>11. FlowInv'
  BY <1>2, <1>10 DEF FlowInv, Ordered, OfFrames, RunsOn, Joined, InOrder, EndsWhole, Size, Upset
<1>12. ReceivedInv'
  <2> SUFFICES ASSUME NEW k \in received'
               PROVE  \/ k \in HandedOn'
                      \/ Upset(k)'
                      \/ \E i \in 1..collect'.len : Contents(collect)'[i] = <<k, sent'[k].size>>
    BY <1>2 DEF ReceivedInv
  <2>1. CASE k \in received
    BY <1>2, <1>8, <2>1 DEF ReceivedInv, Upset
  <2>2. CASE k \notin received
    <3>1. PICK i \in 1..n : wire[i] = <<k, sent[k].size>>
      BY <1>1, <2>2
    <3>2. (C \o r)[collect.len + i] = wire[i]
      <4>1. Len(C) = collect.len /\ C \in Seq(Cell)
        BY FlowOf
      <4>2. QED
        BY <1>4, <4>1, Joining
    <3>3. collect.len + i \in 1..collect'.len
      BY <1>3, <1>6, FlowOf
    <3>4. QED
      BY <1>2, <1>6, <3>1, <3>2, <3>3
  <2>3. QED
    BY <2>1, <2>2
<1>13. QED
  BY <1>10, <1>8, <1>9, <1>11, <1>12

\* A new connection starts with an array of its own.
LEMMA ReadFailsKeeps ==
  ASSUME IndInv, ReadFails
  PROVE  IndInv' /\ Flow' = <<>> /\ UNCHANGED HandedOn
<1> USE DEF IndInv
<1> DEFINE new == NewArray(Capacity)
<1>1. /\ phase = "read" /\ wire = <<>> /\ heap' = Append(heap, new)
      /\ collect' = [arr |-> Len(heap) + 1, off |-> 0, len |-> 0]
      /\ conn' = conn + 1 /\ conn < MaxConns /\ open' = TRUE
      /\ UNCHANGED <<parts, phase, wire, sent, received>>
  BY DEF ReadFails
<1>2. new \in Seq(Cell) /\ Len(new) \in Nat
  BY FramerAssumption DEF NewArray, Cell
<1> HIDE DEF new
<1>3. /\ heap' \in Seq(Seq(Cell)) /\ Len(heap) \in Nat /\ Len(heap') = Len(heap) + 1
      /\ heap'[Len(heap) + 1] = new /\ \A j \in 1..Len(heap) : heap'[j] = heap[j]
  BY <1>1, <1>2, AppendProperties, LenProperties DEF Typed
<1>4. collect' \in Slice /\ Fits(collect)' /\ collect'.len = 0 /\ collect'.arr = Len(heap) + 1
  BY <1>1, <1>2, <1>3 DEF Slice, Fits
<1>5. ASSUME NEW s \in Slice, Fits(s), Away(s)
      PROVE  Fits(s)' /\ Away(s)' /\ Contents(s)' = Contents(s)
  <2>1. s.arr \in 1..Len(heap) /\ s.arr \in 1..Len(heap') /\ s.arr # collect'.arr
    BY <1>3, <1>4, <1>5 DEF Fits
  <2>2. QED
    BY <1>3, <1>5, <2>1 DEF Fits, Away, Contents
<1>6. SentKept
  BY <1>1, FlowOf DEF SentKept
<1>7. /\ PartsInv' /\ UNCHANGED HandedOn
      /\ parts' \in Seq(Slice) /\ \A i \in 1..Len(parts) : Fits(parts[i])'
  BY <1>1, <1>5, <1>6, PartsKept
<1>8. Typed'
  <2>1. conn' \in 1..MaxConns
    BY <1>1, FramerAssumption DEF Typed
  <2>2. open' \in BOOLEAN
    BY <1>1
  <2>3. QED
    BY <1>1, <1>3, <1>4, <1>7, <2>1, <2>2 DEF Typed
<1>9. Flow' = <<>>
  <2>1. Contents(collect)' = <<>>
    <3>1. SubSeq(heap'[collect'.arr], 1, 0) = <<>>
      BY SubSeqEmpty
    <3>2. QED
      BY <1>1, <3>1 DEF Contents
  <2>2. QED
    BY <1>1, <2>1 DEF Flow
<1>10. FlowInv'
  BY <1>9 DEF FlowInv, Ordered, OfFrames, RunsOn, Joined, InOrder, EndsWhole
<1>11. ReceivedInv'
  BY <1>1, <1>7 DEF ReceivedInv, Upset
<1>12. QED
  BY <1>9, <1>7, <1>8, <1>10, <1>11

\* Going back to Read with less than a frame in collect.
LEMMA AwaitKeeps ==
  ASSUME IndInv, AwaitHeader \/ AwaitRest
  PROVE  IndInv' /\ UNCHANGED <<Flow, HandedOn>>
<1> USE DEF IndInv
<1>1. UNCHANGED <<heap, collect, parts, wire, open, sent, conn, received>> /\ phase' = "read"
  BY DEF AwaitHeader, AwaitRest
<1>2. UNCHANGED <<Flow, HandedOn, Contents(collect)>>
  BY <1>1 DEF Flow, HandedOn, FrameOf, Contents
<1>3. Typed'
  BY <1>1 DEF Typed, Fits
<1>4. FlowInv'
  BY <1>1, <1>2 DEF FlowInv, Ordered, OfFrames, RunsOn, Joined, InOrder, EndsWhole, Size, Upset
<1>5. PartsInv'
  BY <1>1 DEF PartsInv, Away, FrameOf, Contents, Bytes
<1>6. ReceivedInv'
  <2> SUFFICES ASSUME NEW k \in received, k \notin HandedOn PROVE Upset(k)
    BY <1>1, <1>2 DEF ReceivedInv, Upset
  <2>1. CASE Upset(k)
    BY <2>1
  <2>2. CASE \E i \in 1..collect.len : Contents(collect)[i] = <<k, sent[k].size>>
    <3>1. PICK i \in 1..collect.len : Contents(collect)[i] = <<k, sent[k].size>>
      BY <2>2
    <3> DEFINE b == No(Flow[1])
               z == sent[b].size
    <3>2. /\ i \in 1..Len(Flow) /\ 1 \in 1..Len(Flow) /\ i \in Nat /\ 1 <= i /\ i <= collect.len
          /\ collect.len \in Nat
      BY FlowOf
    <3>3. No(Flow[i]) = k /\ Pos(Flow[i]) = sent[k].size
      BY <3>1, FlowOf DEF No, Pos
    <3>4. Flow # <<>> /\ b \in 1..Len(sent) /\ Size(Flow[1], sent) = z
      BY <3>2, EmptySeq DEF FlowInv, Ordered, OfFrames, Size, No
    <3>5. z \in Nat /\ HeadLen <= z /\ HeadLen \in Nat
      BY <3>4, ElementOfSeq, FrameSize, FramerAssumption DEF Typed
    <3>6. CASE Upset(b)
      BY <3>2, <3>3, <3>4, <3>6, UpsetOn
    <3>7. CASE ~Upset(b)
      <4>1. Pos(Flow[1]) = 1
        BY <3>4, <3>7 DEF FlowInv
      <4>2. collect.len < z
        <5>1. CASE AwaitHeader
          BY <3>2, <3>5, <5>1 DEF AwaitHeader
        <5>2. CASE AwaitRest
          BY <5>2, FirstFrame DEF AwaitRest, Incomplete
        <5>3. QED
          BY <5>1, <5>2
      <4> HIDE DEF z
      <4>3. 1 + (i - 1) = i /\ i < z /\ i <= z
        BY <3>2, <3>5, <4>2
      <4>4. No(Flow[i]) = b /\ Pos(Flow[i]) = i
        BY <3>2, <3>4, <4>1, <4>3 DEF FlowInv, Ordered, RunsOn
      <4>5. QED
        BY <3>2, <3>3, <3>5, <4>3, <4>4 DEF z
    <3>8. QED
      BY <3>6, <3>7
  <2>3. QED
    BY <2>1, <2>2 DEF ReceivedInv
<1>7. QED
  BY <1>2, <1>3, <1>4, <1>5, <1>6

\* Discarding what is in collect takes it off the front of the stream.
LEMMA DiscardKeeps ==
  ASSUME IndInv, Discard
  PROVE  IndInv' /\ Flow' = wire /\ Flow # <<>> /\ Upset(No(Flow[1])) /\ UNCHANGED HandedOn
<1> USE DEF IndInv
<1>1. /\ collect.len >= HeadLen /\ Version # 1
      /\ collect' = [collect EXCEPT !.len = 0] /\ phase' = "read"
      /\ UNCHANGED <<heap, parts, wire, open, sent, conn, received>>
  BY DEF Discard
<1>2. /\ collect' \in Slice /\ Fits(collect)' /\ collect'.arr = collect.arr
      /\ collect'.off = collect.off /\ collect'.len = 0
  <2>1. collect' = [arr |-> collect.arr, off |-> collect.off, len |-> 0]
    BY <1>1 DEF Typed, Slice
  <2>2. collect.off \in Nat /\ collect.len \in Nat /\ collect.arr \in Nat
    BY DEF Typed, Slice
  <2>3. heap[collect.arr] \in Seq(Cell)
    BY ElementOfSeq DEF Typed, Fits
  <2>4. Len(heap[collect.arr]) \in Nat
    BY <2>3, LenProperties
  <2>5. collect.off + 0 <= Len(heap[collect.arr])
    BY <2>2, <2>4 DEF Typed, Fits
  <2>6. /\ collect' \in Slice /\ collect'.arr = collect.arr /\ collect'.off = collect.off
        /\ collect'.len = 0
    BY <2>1, <2>2 DEF Slice
  <2>7. Fits(collect)'
    BY <1>1, <2>5, <2>6 DEF Typed, Fits
  <2>8. QED
    BY <2>6, <2>7
<1>3. SentKept
  BY <1>1, FlowOf DEF SentKept
<1>4. /\ PartsInv' /\ UNCHANGED HandedOn
      /\ parts' \in Seq(Slice) /\ \A i \in 1..Len(parts) : Fits(parts[i])'
  <2>1. \A s \in Slice : Fits(s) /\ Away(s) => Fits(s)' /\ Away(s)' /\ Contents(s)' = Contents(s)
    BY <1>1, <1>2 DEF Fits, Away, Contents
  <2>2. QED
    BY <1>1, <1>3, <2>1, PartsKept
<1>5. Typed'
  BY <1>1, <1>2, <1>4 DEF Typed
<1>6. Flow # <<>> /\ Upset(No(Flow[1]))
  BY <1>1, FirstFrame
<1>7. Flow' = wire
  <2>1. SubSeq(heap[collect.arr], collect.off + 1, collect.off + 0) = <<>>
    BY SubSeqEmpty DEF Typed, Slice
  <2>2. Contents(collect)' = <<>>
    BY <1>1, <1>2, <2>1 DEF Contents
  <2>3. QED
    BY <1>1, <2>2, ConcatEmptySeq DEF Flow, Typed
<1>8. FlowInv'
  <2>1. wire \in Seq(Cell)
    BY SeqMonotonic DEF Typed, Cell
  <2>2. collect.len + 1 <= Len(Flow) => Upset(No(Flow[collect.len + 1]))
    BY <1>6, FlowOf, UpsetOn
  <2>3. QED
    BY <1>1, <1>7, <2>1, <2>2, FlowOf, FlowCut
<1>9. ReceivedInv'
  <2> SUFFICES ASSUME NEW k \in received, k \notin HandedOn PROVE Upset(k)
    BY <1>1, <1>4 DEF ReceivedInv, Upset
  <2>1. CASE Upset(k)
    BY <2>1
  <2>2. CASE \E i \in 1..collect.len : Contents(collect)[i] = <<k, sent[k].size>>
    <3>1. PICK i \in 1..collect.len : Contents(collect)[i] = <<k, sent[k].size>>
      BY <2>2
    <3>2. i \in 1..Len(Flow) /\ No(Flow[i]) = k
      BY <3>1, FlowOf DEF No
    <3>3. QED
      BY <1>6, <3>2, UpsetOn
  <2>3. QED
    BY <2>1, <2>2 DEF ReceivedInv
<1>10. QED
  BY <1>4, <1>5, <1>6, <1>7, <1>8, <1>9

\* The stream begins with a whole frame, which is handed on.
FrameTaken ==
  \E k \in 1..Len(sent), l \in Nat :
    /\ 1 <= l /\ \A i \in 1..l : Flow[i] = <<k, i>>
    /\ Len(Flow) = l + Len(Flow') /\ \A i \in 1..Len(Flow') : Flow'[i] = Flow[l + i]
    /\ HandedOn' = HandedOn \union {k}

\* The frame at the start of collect becomes a part, and readLoop does not come back
\* to its memory.
LEMMA CutFrameKeeps ==
  ASSUME IndInv, CutFrame
  PROVE  IndInv' /\ FrameTaken
<1> USE DEF IndInv
<1>0. collect.len >= HeadLen /\ Version = 1
  BY DEF CutFrame, Complete
<1>2. PICK l \in Nat, k \in 1..Len(sent) :
        /\ l = Length /\ k = No(Flow[1]) /\ l = sent[k].size /\ 1 <= l
        /\ 1 \in 1..collect.len /\ 1 \in 1..Len(Flow) /\ Pos(Flow[1]) = 1 /\ Flow # <<>>
        /\ Size(Flow[1], sent) = l
  BY <1>0, FirstFrame DEF Size, No
<1>1. /\ phase = "parse" /\ collect.len >= l
      /\ parts' = Append(parts, [collect EXCEPT !.len = l])
      /\ collect' = [collect EXCEPT !.off = @ + l, !.len = @ - l]
      /\ UNCHANGED <<heap, wire, open, sent, conn, received, phase>>
  BY <1>2 DEF CutFrame, Complete, HandOn, Behind
<1>3. /\ collect.off \in Nat /\ collect.len \in Nat /\ collect.arr \in 1..Len(heap)
      /\ collect.off + collect.len <= Len(heap[collect.arr]) /\ collect.arr \in Nat
      /\ Len(heap[collect.arr]) \in Nat
  BY ElementOfSeq, LenProperties DEF Typed, Slice, Fits
<1>4. PICK part \in Slice : /\ parts' = Append(parts, part)
                             /\ part.arr = collect.arr /\ part.off = collect.off /\ part.len = l
  <2> DEFINE p == [collect EXCEPT !.len = l]
  <2>1. /\ p \in Slice /\ p.arr = collect.arr /\ p.off = collect.off /\ p.len = l
    BY DEF Typed, Slice
  <2>2. QED
    BY <1>1, <2>1
<1>5. /\ collect' \in Slice /\ collect'.arr = collect.arr /\ collect'.off = collect.off + l
      /\ collect'.len = collect.len - l
  <2>1. collect' = [arr |-> collect.arr, off |-> collect.off + l, len |-> collect.len - l]
    BY <1>1 DEF Typed, Slice
  <2>2. collect.off + l \in Nat /\ collect.len - l \in Nat
    BY <1>1, <1>2, <1>3
  <2>3. QED
    BY <1>3, <2>1, <2>2 DEF Slice
<1>6. /\ Fits(collect)' /\ Fits(part) /\ Fits(part)'
      /\ collect'.arr \in 1..Len(heap) /\ collect'.off + collect'.len <= Len(heap[collect'.arr])
  <2>1. collect.off + l <= Len(heap[collect.arr])
    BY <1>1, <1>2, <1>3
  <2>2. (collect.off + l) + (collect.len - l) = collect.off + collect.len
    BY <1>2, <1>3
  <2>3. Fits(part)
    BY <1>3, <1>4, <2>1 DEF Fits
  <2>4. collect'.arr \in 1..Len(heap) /\ collect'.off + collect'.len <= Len(heap[collect'.arr])
    BY <1>3, <1>5, <2>2
  <2>5. QED
    BY <1>1, <2>3, <2>4 DEF Fits
<1>7. \A j \in 1..l : j \in 1..Len(Flow) /\ j \in 1..collect.len /\ Flow[j] = <<k, j>>
  <2> SUFFICES ASSUME NEW j \in 1..l
               PROVE  j \in 1..Len(Flow) /\ j \in 1..collect.len /\ Flow[j] = <<k, j>>
    OBVIOUS
  <2>1. j \in 1..Len(Flow) /\ j \in 1..collect.len
    BY <1>1, <1>2, FlowOf
  <2>2. 1 + (j - 1) = j /\ 1 <= j /\ j <= l
    BY <1>2
  <2>3. No(Flow[j]) = k /\ Pos(Flow[j]) = j
    BY <1>2, <2>1, <2>2 DEF FlowInv, Ordered, RunsOn
  <2>4. Flow[j] \in Byte
    BY <2>1, ElementOfSeq DEF FlowInv
  <2>5. QED
    BY <2>1, <2>3, <2>4 DEF Byte, No, Pos
<1>8. Contents(part) = Bytes(k)
  <2>1. /\ Contents(part) \in Seq(Cell) /\ Len(Contents(part)) = l
        /\ \A i \in 1..l : Contents(part)[i] = heap[collect.arr][collect.off + i]
    BY <1>4, <1>6, SliceOf DEF Typed, Fits, Contents
  <2>2. \A i \in 1..l : Contents(part)[i] = <<k, i>> /\ <<k, i>> \in Cell
    <3>1. \A i \in 1..l : Flow[i] \in Byte
      BY <1>7, ElementOfSeq DEF FlowInv
    <3>2. QED
      BY <1>7, <2>1, <3>1, FlowOf DEF Cell
  <2>3. Bytes(k) = [i \in 1..l |-> <<k, i>>]
    BY <1>2 DEF Bytes
  <2>4. [i \in 1..l |-> <<k, i>>] \in Seq(Cell) /\ Len([i \in 1..l |-> <<k, i>>]) = l
    BY <1>2, <2>2
  <2>5. \A i \in 1..l : [j \in 1..l |-> <<k, j>>][i] = <<k, i>>
    OBVIOUS
  <2>6. QED
    BY <2>1, <2>2, <2>3, <2>4, <2>5, SeqEqual
<1>9. FrameOf(part) = k
  <2>1. Bytes(k)[1] = <<k, 1>>
    BY <1>2 DEF Bytes
  <2>2. QED
    BY <1>8, <2>1 DEF FrameOf
<1>10. /\ parts \in Seq(Slice) /\ parts' \in Seq(Slice) /\ Len(parts) \in Nat
       /\ Len(parts') = Len(parts) + 1 /\ parts'[Len(parts) + 1] = part
       /\ \A i \in 1..Len(parts) : parts'[i] = parts[i] /\ parts[i] \in Slice
  BY <1>4, AppendProperties, ElementOfSeq, LenProperties DEF Typed
<1>11. \A i \in 1..Len(parts') : i \in 1..Len(parts) \/ i = Len(parts) + 1
  BY <1>10
<1>12. \A s : /\ Contents(s)' = Contents(s) /\ FrameOf(s)' = FrameOf(s)
              /\ Fits(s)' <=> Fits(s)
  BY <1>1 DEF Contents, FrameOf, Fits
<1>13. PartsInv'
  <2>1. ASSUME NEW s \in Slice, Away(s) PROVE Away(s)'
    <3>1. s.off \in Nat /\ s.len \in Nat
      BY DEF Slice
    <3>2. s.off + s.len <= collect.off => s.off + s.len <= collect.off + l
      BY <1>2, <1>3, <3>1
    <3>3. QED
      BY <1>5, <2>1, <3>2 DEF Away
  <2>2. Away(part)'
    BY <1>2, <1>3, <1>4, <1>5 DEF Away
  <2>3. ASSUME NEW i \in 1..Len(parts')
        PROVE  \E s \in Slice : /\ parts'[i] = s /\ Away(s)' /\ FrameOf(s) \in 1..Len(sent)
                                /\ Contents(s) = Bytes(FrameOf(s))
    <3>1. CASE i \in 1..Len(parts)
      BY <1>10, <2>1, <3>1 DEF PartsInv
    <3>2. CASE i = Len(parts) + 1
      BY <1>2, <1>4, <1>8, <1>9, <1>10, <2>2, <3>2
    <3>3. QED
      BY <1>11, <3>1, <3>2
  <2>4. QED
    BY <1>1, <2>3 DEF PartsInv, Away, FrameOf, Contents, Bytes
<1>14. Typed'
  <2>1. ASSUME NEW i \in 1..Len(parts') PROVE Fits(parts[i])'
    <3>1. CASE i \in 1..Len(parts)
      BY <1>1, <1>10, <3>1 DEF Typed, Fits
    <3>2. CASE i = Len(parts) + 1
      BY <1>6, <1>10, <3>2 DEF Fits
    <3>3. QED
      BY <1>11, <2>1, <3>1, <3>2
  <2>2. QED
    BY <1>1, <1>5, <1>6, <1>10, <2>1 DEF Typed
<1>15. HandedOn' = HandedOn \union {k}
  <2>1. ASSUME NEW i \in 1..Len(parts) PROVE FrameOf(parts[i]) \in HandedOn'
    <3>1. PICK s \in Slice : s = parts[i] /\ s = parts'[i]
      BY <1>10
    <3>2. i \in 1..Len(parts') /\ FrameOf(s)' = FrameOf(s)
      BY <1>10, <1>12
    <3>3. FrameOf(s)' \in HandedOn'
      BY <3>1, <3>2 DEF HandedOn, FrameOf, Contents
    <3>4. QED
      BY <3>1, <3>2, <3>3
  <2>2. Len(parts) + 1 \in 1..Len(parts')
    BY <1>10
  <2>3. FrameOf(part)' \in HandedOn'
    BY <1>10, <2>2 DEF HandedOn, FrameOf, Contents
  <2>4. k \in HandedOn'
    BY <1>9, <1>12, <2>3
  <2>5. ASSUME NEW i \in 1..Len(parts') PROVE FrameOf(parts[i])' \in HandedOn \union {k}
    <3>1. CASE i \in 1..Len(parts)
      <4>1. PICK s \in Slice : s = parts[i] /\ s = parts'[i] /\ FrameOf(s)' = FrameOf(s)
        BY <1>10, <1>12, <3>1
      <4>2. FrameOf(s) \in HandedOn
        BY <3>1, <4>1 DEF HandedOn
      <4>3. FrameOf(parts[i])' = FrameOf(s)'
        BY <4>1 DEF FrameOf, Contents
      <4>4. QED
        BY <4>1, <4>2, <4>3
    <3>2. CASE i = Len(parts) + 1
      <4>1. FrameOf(parts[i])' = FrameOf(part)'
        BY <1>10, <3>2 DEF FrameOf, Contents
      <4>2. QED
        BY <1>9, <1>12, <4>1
    <3>3. QED
      BY <1>11, <2>5, <3>1, <3>2
  <2>6. QED
    BY <2>1, <2>4, <2>5 DEF HandedOn
<1>16. /\ Flow' \in Seq(Cell) /\ Len(Flow) = l + Len(Flow')
       /\ \A i \in 1..Len(Flow') : Flow'[i] = Flow[l + i]
       /\ \A i \in 1..collect'.len : Contents(collect)'[i] = Flow[l + i]
  <2> DEFINE D == SubSeq(heap[collect'.arr], collect'.off + 1, collect'.off + collect'.len)
  <2>1. /\ D \in Seq(Cell) /\ Len(D) = collect'.len
        /\ \A i \in 1..collect'.len : D[i] = heap[collect.arr][collect'.off + i]
    <3>1. /\ D \in Seq(Cell) /\ Len(D) = collect'.len
          /\ \A i \in 1..collect'.len : D[i] = heap[collect'.arr][collect'.off + i]
      BY <1>5, <1>6, SliceOf DEF Typed
    <3>2. QED
      BY <1>5, <3>1
  <2>2. Contents(collect)' = D /\ Flow' = D \o wire
    BY <1>1 DEF Contents, Flow
  <2> HIDE DEF D
  <2>3. \A i \in 1..collect'.len : D[i] = Flow[l + i]
    <3>1. \A i \in 1..collect'.len : /\ l + i \in 1..collect.len
                                     /\ collect'.off + i = collect.off + (l + i)
      BY <1>1, <1>2, <1>3, <1>5
    <3>2. QED
      BY <2>1, <3>1, FlowOf
  <2>4. /\ D \o wire \in Seq(Cell) /\ Len(D \o wire) = Len(D) + Len(wire)
        /\ \A i \in 1..Len(D) : (D \o wire)[i] = D[i]
        /\ \A i \in 1..Len(wire) : (D \o wire)[Len(D) + i] = wire[i]
    BY <2>1, Joining DEF Typed
  <2>5. Len(Flow) = l + Len(Flow')
    <3>1. Len(D) = collect.len - l /\ Len(Flow') = Len(D) + Len(wire)
      BY <1>5, <2>1, <2>2, <2>4
    <3>2. Len(Flow) = collect.len + Len(wire) /\ Len(wire) \in Nat
      BY FlowOf
    <3>3. collect.len + Len(wire) = l + ((collect.len - l) + Len(wire))
      BY <1>3, <3>2
    <3>4. QED
      BY <3>1, <3>2, <3>3
  <2>6. ASSUME NEW i \in 1..Len(D \o wire) PROVE (D \o wire)[i] = Flow[l + i]
    <3>1. CASE i \in 1..Len(D)
      BY <2>1, <2>3, <2>4, <3>1
    <3>2. CASE i \notin 1..Len(D)
      <4> DEFINE h == i - Len(D)
      <4>1. h \in 1..Len(wire) /\ Len(D) + h = i /\ collect.len + h = l + i
        <5>1. Len(D) = collect.len - l /\ Len(D) \in Nat /\ Len(D \o wire) = Len(D) + Len(wire)
          BY <1>1, <1>2, <1>3, <1>5, <2>1, <2>4
        <5>2. Len(wire) \in Nat
          BY FlowOf
        <5>3. i \in Nat /\ 1 <= i /\ i <= Len(D) + Len(wire) /\ ~(i <= Len(D))
          BY <3>2, <5>1, <5>2
        <5>4. h \in 1..Len(wire) /\ Len(D) + h = i
          BY <5>1, <5>2, <5>3
        <5>5. collect.len + h = l + i
          BY <1>3, <5>1, <5>3
        <5>6. QED
          BY <5>4, <5>5
      <4> HIDE DEF h
      <4>2. (D \o wire)[i] = wire[h]
        BY <2>4, <4>1
      <4>3. Flow[l + i] = wire[h]
        BY <4>1, FlowOf
      <4>4. QED
        BY <4>2, <4>3
    <3>3. QED
      BY <3>1, <3>2
  <2>7. QED
    BY <2>2, <2>3, <2>4, <2>5, <2>6
<1>17. FlowInv'
  <2>1. ASSUME l + 1 <= Len(Flow) PROVE Pos(Flow[l + 1]) = 1
    <3>1. l \in 1..Len(Flow) /\ l + 1 \in 1..Len(Flow) /\ l \in 1..l
      BY <1>2, <2>1, FlowOf
    <3>2. Flow[l] = <<k, l>>
      BY <1>7, <3>1
    <3>3. Pos(Flow[l]) = Size(Flow[l], sent)
      BY <1>2, <3>2 DEF Pos, Size
    <3>4. QED
      BY <3>1, <3>3 DEF FlowInv, Ordered, Joined
  <2>2. QED
    BY <1>1, <1>2, <1>16, <2>1, FlowCut
<1>18. ReceivedInv'
  <2> SUFFICES ASSUME NEW g \in received, g \notin HandedOn', ~Upset(g)
               PROVE  \E i \in 1..collect'.len : Contents(collect)'[i] = <<g, sent[g].size>>
    BY <1>1 DEF ReceivedInv, Upset
  <2>1. g \notin HandedOn /\ g # k
    BY <1>15
  <2>2. PICK i \in 1..collect.len : Contents(collect)[i] = <<g, sent[g].size>>
    BY <2>1 DEF ReceivedInv
  <2>3. Flow[i] = <<g, sent[g].size>>
    BY <2>2, FlowOf
  <2>4. i \notin 1..l
    BY <1>7, <2>1, <2>3
  <2> DEFINE h == i - l
  <2>5. h \in 1..collect'.len /\ l + h = i
    BY <1>1, <1>2, <1>3, <1>5, <2>4
  <2> HIDE DEF h
  <2>6. Contents(collect)'[h] = <<g, sent[g].size>>
    BY <1>16, <2>3, <2>5
  <2>7. QED
    BY <2>5, <2>6
<1>19. FrameTaken
  BY <1>2, <1>7, <1>15, <1>16 DEF FrameTaken
<1>20. QED
  BY <1>13, <1>14, <1>17, <1>18, <1>19

\* A whole frame comes to the end of the stream.
FrameAdded ==
  \E b \in Seq(Byte) :
    /\ Len(sent') = Len(sent) + 1 /\ SentKept
    /\ 1 <= Len(b) /\ \A i \in 1..Len(b) : b[i] = <<Len(sent'), i>>
    /\ Len(Flow') = Len(Flow) + Len(b)
    /\ \A i \in 1..Len(Flow) : Flow'[i] = Flow[i]
    /\ \A i \in 1..Len(b) : Flow'[Len(Flow) + i] = b[i]
    /\ UNCHANGED HandedOn

\* A frame the peer sends goes on where the stream ends.
LEMMA SendsKeeps ==
  ASSUME IndInv, PeerSends
  PROVE  IndInv' /\ FrameAdded
<1> USE DEF IndInv
<1>1. PICK size \in HeadLen..MaxLen, version \in {1, 2} :
        /\ sent' = Append(sent, [size |-> size, version |-> version, conn |-> conn])
        /\ wire' = wire \o [i \in 1..size |-> <<Len(sent) + 1, i>>]
  BY DEF PeerSends
<1>2. /\ open /\ Len(sent) < MaxFrames
      /\ UNCHANGED <<heap, collect, parts, phase, open, conn, received>>
  BY DEF PeerSends
<1>3. PICK f \in Frame : f.size = size /\ f.conn = conn /\ sent' = Append(sent, f)
  BY <1>1 DEF Frame, Typed
<1>4. PICK k \in Nat, b \in Seq(Byte) :
        /\ k = Len(sent) + 1 /\ k \in 1..MaxFrames
        /\ wire' = wire \o b /\ Len(b) = f.size /\ \A i \in 1..f.size : b[i] = <<k, i>>
  <2> DEFINE g == [i \in 1..size |-> <<Len(sent) + 1, i>>]
  <2>1. size \in Nat /\ 1 <= size /\ size <= MaxLen
    BY FramerAssumption
  <2>2. Len(sent) + 1 \in Nat /\ Len(sent) + 1 \in 1..MaxFrames
    BY <1>2, FlowOf, FramerAssumption
  <2>3. \A i \in 1..size : <<Len(sent) + 1, i>> \in Byte
    BY <2>1, <2>2, FramerAssumption DEF Byte
  <2>4. g \in Seq(Byte) /\ Len(g) = size /\ \A i \in 1..size : g[i] = <<Len(sent) + 1, i>>
    BY <2>1, <2>3
  <2>5. QED
    BY <1>1, <1>3, <2>2, <2>4
<1>5. /\ sent \in Seq(Frame) /\ sent' \in Seq(Frame) /\ Len(sent') = k /\ Len(sent) \in Nat
      /\ sent'[k] = f /\ \A i \in 1..Len(sent) : sent'[i] = sent[i]
  BY <1>3, <1>4, AppendProperties, LenProperties DEF Typed
<1>6. SentKept
  BY <1>4, <1>5 DEF SentKept
<1>7. /\ PartsInv' /\ UNCHANGED HandedOn
      /\ parts' \in Seq(Slice) /\ \A i \in 1..Len(parts) : Fits(parts[i])'
  <2>1. \A s \in Slice : Fits(s) /\ Away(s) => Fits(s)' /\ Away(s)' /\ Contents(s)' = Contents(s)
    BY <1>2 DEF Fits, Away, Contents
  <2>2. QED
    BY <1>2, <1>6, <2>1, PartsKept
<1>8. Typed'
  <2>1. wire' \in Seq(Byte)
    BY <1>4, ConcatProperties DEF Typed
  <2>2. Len(sent') <= MaxFrames
    BY <1>4, <1>5
  <2>3. received' \subseteq 1..Len(sent')
    BY <1>2, <1>4, <1>5 DEF Typed
  <2>4. QED
    BY <1>2, <1>5, <1>7, <2>1, <2>2, <2>3 DEF Typed, Fits
<1>9. Flow' = Flow \o b
  <2>1. Contents(collect)' = Contents(collect)
    BY <1>2 DEF Contents
  <2>2. Contents(collect) \in Seq(Cell) /\ wire \in Seq(Cell) /\ b \in Seq(Cell)
    BY FlowOf, SeqMonotonic DEF Typed, Cell
  <2>3. (Contents(collect) \o wire) \o b = Contents(collect) \o (wire \o b)
    BY <2>2, ConcatAssociative
  <2>4. QED
    BY <1>4, <2>1, <2>3 DEF Flow
<1>10. /\ Flow \in Seq(Byte) /\ Len(Flow) \in Nat /\ f.size \in Nat /\ 1 <= f.size
       /\ Flow' \in Seq(Byte) /\ Len(Flow') = Len(Flow) + f.size
       /\ \A i \in 1..Len(Flow) : Flow'[i] = Flow[i]
       /\ \A i \in 1..f.size : Flow'[Len(Flow) + i] = <<k, i>>
  <2>1. Flow \in Seq(Byte) /\ Flow \in Seq(Cell) /\ Len(Flow) \in Nat
    BY FlowOf, LenProperties DEF FlowInv
  <2>2. f.size \in Nat /\ 1 <= f.size
    BY FrameSize
  <2>3. Flow \o b \in Seq(Byte)
    BY <2>1, ConcatProperties
  <2>4. /\ Len(Flow \o b) = Len(Flow) + Len(b)
        /\ \A i \in 1..Len(Flow) : (Flow \o b)[i] = Flow[i]
        /\ \A i \in 1..Len(b) : (Flow \o b)[Len(Flow) + i] = b[i]
    BY <2>1, Joining
  <2>5. QED
    BY <1>4, <1>9, <2>1, <2>2, <2>3, <2>4
<1>11. Ordered(Flow', sent') /\ EndsWhole(Flow', sent')
  <2>1. Ordered(Flow, sent) /\ EndsWhole(Flow, sent)
    BY <1>2 DEF FlowInv
  <2>2. \A i \in 1..f.size : Flow'[Len(Flow) + i] = <<Len(sent) + 1, i>>
    BY <1>4, <1>10
  <2> DEFINE s == Flow
             u == Flow'
  <2>4. /\ s \in Seq(Byte) /\ u \in Seq(Byte) /\ Len(u) = Len(s) + f.size
        /\ \A i \in 1..Len(s) : u[i] = s[i]
        /\ \A i \in 1..f.size : u[Len(s) + i] = <<Len(sent) + 1, i>>
        /\ Ordered(s, sent) /\ EndsWhole(s, sent)
    BY <1>10, <2>1, <2>2
  <2> HIDE DEF s, u
  <2>5. Ordered(u, Append(sent, f)) /\ EndsWhole(u, Append(sent, f))
    BY <1>5, <2>4, OrderedSend
  <2>6. QED
    BY <1>3, <2>5 DEF u
<1>12. FlowInv'
  <2>1. ASSUME NEW i \in 1..Len(Flow') PROVE sent'[No(Flow'[i])].conn = conn
    <3>1. CASE i \in 1..Len(Flow)
      <4>1. No(Flow[i]) \in 1..Len(sent) /\ sent[No(Flow[i])].conn = conn
        BY <3>1 DEF FlowInv, Ordered, OfFrames
      <4>2. QED
        BY <1>5, <1>10, <3>1, <4>1
    <3>2. CASE i \notin 1..Len(Flow)
      <4> DEFINE h == i - Len(Flow)
      <4>1. h \in 1..f.size /\ Len(Flow) + h = i
        BY <1>10, <3>2
      <4> HIDE DEF h
      <4>2. No(Flow'[i]) = k
        BY <1>10, <4>1 DEF No
      <4>3. QED
        BY <1>3, <1>5, <4>2
    <3>3. QED
      BY <3>1, <3>2
  <2>2. ASSUME Pos(Flow'[1]) # 1 PROVE Upset(No(Flow[1]))'
    <3>1. CASE Len(Flow) = 0
      <4>1. 1 \in 1..f.size /\ Len(Flow) + 1 = 1
        BY <1>10, <3>1
      <4>2. Flow'[1] = <<k, 1>>
        BY <1>10, <4>1
      <4>3. QED
        BY <2>2, <4>2 DEF Pos
    <3>2. CASE Len(Flow) # 0
      <4>1. 1 \in 1..Len(Flow) /\ Flow # <<>>
        BY <1>10, <3>2, EmptySeq
      <4>2. Flow'[1] = Flow[1] /\ No(Flow[1]) \in 1..Len(sent)
        BY <1>10, <4>1 DEF FlowInv, Ordered, OfFrames
      <4>3. Upset(No(Flow[1]))
        BY <2>2, <4>1, <4>2 DEF FlowInv
      <4>4. PICK n \in 1..Len(sent) : n = No(Flow[1])
        BY <4>2
      <4>5. Upset(n)'
        BY <1>6, <4>3, <4>4, UpsetKept
      <4>6. n = No(Flow'[1])
        BY <4>2, <4>4
      <4>7. QED
        BY <4>5, <4>6 DEF Upset, No
    <3>3. QED
      BY <3>1, <3>2
  <2>3. QED
    BY <1>2, <1>10, <1>11, <2>1, <2>2
       DEF FlowInv, Ordered, OfFrames, RunsOn, Joined, InOrder, EndsWhole, Size
<1>13. ReceivedInv'
  <2> SUFFICES ASSUME NEW g \in received, g \notin HandedOn, ~Upset(g)'
               PROVE  /\ phase = "parse"
                      /\ \E i \in 1..collect.len : Contents(collect)'[i] = <<g, sent'[g].size>>
    BY <1>2, <1>7 DEF ReceivedInv
  <2>1. g \in 1..Len(sent)
    BY DEF Typed
  <2>2. ~Upset(g)
    BY <1>6, <2>1, UpsetKept
  <2>3. phase = "parse" /\ \E i \in 1..collect.len : Contents(collect)[i] = <<g, sent[g].size>>
    BY <2>2 DEF ReceivedInv
  <2>4. Contents(collect)' = Contents(collect)
    BY <1>2 DEF Contents
  <2>5. QED
    BY <1>5, <2>1, <2>3, <2>4
<1>14. FrameAdded
  <2>1. /\ Len(sent') = Len(sent) + 1 /\ SentKept /\ UNCHANGED HandedOn
        /\ 1 <= Len(b) /\ \A i \in 1..Len(b) : b[i] = <<Len(sent'), i>>
        /\ Len(Flow') = Len(Flow) + Len(b)
        /\ \A i \in 1..Len(Flow) : Flow'[i] = Flow[i]
        /\ \A i \in 1..Len(b) : Flow'[Len(Flow) + i] = b[i]
    BY <1>4, <1>5, <1>6, <1>7, <1>10
  <2>2. QED
    BY <2>1, Zenon DEF FrameAdded
<1>15. QED
  BY <1>7, <1>8, <1>12, <1>13, <1>14

\* What was on the wire when the connection ended may be cut short anywhere.
LEMMA EndsKeeps ==
  ASSUME IndInv, ConnectionEnds
  PROVE  /\ IndInv' /\ UNCHANGED HandedOn
         /\ Len(Flow') <= Len(Flow) /\ \A i \in 1..Len(Flow') : Flow'[i] = Flow[i]
<1> USE DEF IndInv
<1>1. PICK n \in 0..Len(wire) : wire' = SubSeq(wire, 1, n)
  BY DEF ConnectionEnds
<1>2. open' = FALSE /\ UNCHANGED <<heap, collect, parts, phase, sent, conn, received>>
  BY DEF ConnectionEnds
<1>3. /\ wire \in Seq(Byte) /\ Len(wire) \in Nat /\ n \in Nat /\ n <= Len(wire)
      /\ wire' \in Seq(Byte) /\ Len(wire') = n /\ \A i \in 1..n : wire'[i] = wire[i]
  <2>1. wire \in Seq(Byte) /\ Len(wire) \in Nat /\ n \in Nat /\ n <= Len(wire)
    BY LenProperties DEF Typed
  <2>2. \A i \in 1..n : i \in 1..Len(wire) /\ wire[i] \in Byte
    BY <2>1, ElementOfSeq
  <2>3. QED
    BY <1>1, <2>1, <2>2, SubSeqProperties
<1>4. SentKept
  BY <1>2, FlowOf DEF SentKept
<1>5. /\ PartsInv' /\ UNCHANGED HandedOn
      /\ parts' \in Seq(Slice) /\ \A i \in 1..Len(parts) : Fits(parts[i])'
  <2>1. \A s \in Slice : Fits(s) /\ Away(s) => Fits(s)' /\ Away(s)' /\ Contents(s)' = Contents(s)
    BY <1>2 DEF Fits, Away, Contents
  <2>2. QED
    BY <1>2, <1>4, <2>1, PartsKept
<1>6. Typed'
  BY <1>2, <1>3, <1>5 DEF Typed, Fits
<1>7. PICK c \in Seq(Cell) : c = Contents(collect) /\ Len(c) = collect.len
  BY FlowOf
<1>8. /\ Flow \in Seq(Byte) /\ Len(Flow) = Len(c) + Len(wire) /\ Len(c) \in Nat
      /\ \A i \in 1..Len(c) : Flow[i] = c[i]
      /\ \A i \in 1..Len(wire) : Flow[Len(c) + i] = wire[i]
  BY <1>7, FlowOf DEF FlowInv
<1>9. /\ Flow' \in Seq(Cell) /\ Len(Flow') = Len(c) + n
      /\ \A i \in 1..Len(c) : Flow'[i] = c[i]
      /\ \A i \in 1..n : Flow'[Len(c) + i] = wire'[i]
  <2>1. Flow' = c \o wire'
    BY <1>2, <1>7 DEF Flow, Contents
  <2>2. QED
    BY <1>3, <2>1, Joining
<1>10. \A i \in 1..Len(Flow') : i \in 1..Len(Flow) /\ Flow'[i] = Flow[i]
  <2> SUFFICES ASSUME NEW i \in 1..Len(Flow') PROVE i \in 1..Len(Flow) /\ Flow'[i] = Flow[i]
    OBVIOUS
  <2>1. i \in 1..Len(Flow)
    BY <1>3, <1>8, <1>9
  <2>2. CASE i \in 1..Len(c)
    BY <1>8, <1>9, <2>1, <2>2
  <2>3. CASE i \notin 1..Len(c)
    <3> DEFINE h == i - Len(c)
    <3>1. h \in 1..n /\ h \in 1..Len(wire) /\ Len(c) + h = i
      BY <1>3, <1>8, <1>9, <2>3
    <3> HIDE DEF h
    <3>2. QED
      BY <1>3, <1>8, <1>9, <2>1, <3>1
  <2>4. QED
    BY <2>2, <2>3
<1>11. Flow' \in Seq(Byte) /\ Len(Flow') <= Len(Flow)
  <2>1. \A i \in 1..Len(Flow') : Flow'[i] \in Byte
    BY <1>8, <1>10, ElementOfSeq
  <2>2. Flow' \in Seq(Byte)
    BY <1>9, <2>1, BytesOnly
  <2>3. Len(c) + n <= Len(c) + Len(wire)
    BY <1>3, <1>8
  <2>4. QED
    BY <1>8, <1>9, <2>2, <2>3
<1>12. Ordered(Flow', sent)
  BY <1>8, <1>10, <1>11, OrderedPrefix DEF FlowInv, Typed
<1>13. FlowInv'
  <2>1. Flow' # <<>> => Flow # <<>> /\ Flow'[1] = Flow[1]
    <3>1. Flow' # <<>> => 1 \in 1..Len(Flow')
      BY <1>11, EmptySeq, LenProperties
    <3>2. QED
      BY <1>10, <3>1, EmptySeq
  <2>2. \A i \in 1..Len(Flow') : sent[No(Flow'[i])].conn = conn
    BY <1>10 DEF FlowInv
  <2>3. QED
    BY <1>2, <1>11, <1>12, <2>1, <2>2
       DEF FlowInv, Ordered, OfFrames, RunsOn, Joined, InOrder, Size, Upset
<1>14. ReceivedInv'
  BY <1>2, <1>5 DEF ReceivedInv, Upset, Contents
<1>15. QED
  BY <1>5, <1>6, <1>10, <1>11, <1>13, <1>14

LEMMA StepInv == IndInv /\ [Next]_vars => IndInv'
<1> SUFFICES ASSUME IndInv, [Next]_vars PROVE IndInv'
  OBVIOUS
<1>1. CASE Read
  BY <1>1, ReadKeeps
<1>2. CASE ReadFails
  BY <1>2, ReadFailsKeeps
<1>3. CASE AwaitHeader \/ AwaitRest
  BY <1>3, AwaitKeeps
<1>4. CASE Discard
  BY <1>4, DiscardKeeps
<1>5. CASE CutFrame
  BY <1>5, CutFrameKeeps
<1>6. CASE PeerSends
  BY <1>6, SendsKeeps
<1>7. CASE ConnectionEnds
  BY <1>7, EndsKeeps
<1>8. CASE UNCHANGED vars
  <2> USE <1>8 DEF vars
  <2>1. UNCHANGED <<Flow, HandedOn, Contents(collect)>>
    BY DEF Flow, HandedOn, FrameOf, Contents
  <2>2. Typed'
    BY DEF IndInv, Typed, Fits
  <2>3. FlowInv'
    BY <2>1 DEF IndInv, FlowInv, Ordered, OfFrames, RunsOn, Joined, InOrder, EndsWhole, Size, Upset
  <2>4. PartsInv'
    BY DEF IndInv, PartsInv, Away, FrameOf, Contents, Bytes
  <2>5. ReceivedInv'
    BY <2>1 DEF IndInv, ReceivedInv, Upset
  <2>6. QED
    BY <2>2, <2>3, <2>4, <2>5 DEF IndInv
<1>9. QED
  BY <1>1, <1>2, <1>3, <1>4, <1>5, <1>6, <1>7, <1>8 DEF Next, ReadLoop, Stopped

-----------------------------------------------------------------------------
\* The invariant holds in every state of every behaviour.
THEOREM Invariance == Spec => []IndInv
  BY InitInv, StepInv, PTL DEF Spec

\* The state stays what its type says, and no slice reaches beyond its array.
THEOREM TypeCorrect == Spec => []TypeOK
<1>1. IndInv => TypeOK
  <2> SUFFICES ASSUME Typed PROVE TypeOK
    BY DEF IndInv
  <2>1. ASSUME NEW a \in 1..Len(heap), NEW i \in 1..Len(heap[a]) PROVE heap[a][i] \in Cell
    BY ElementOfSeq DEF Typed
  <2>2. \A s \in {collect} \union {parts[i] : i \in 1..Len(parts)} : s \in Slice /\ Fits(s)
    BY ElementOfSeq DEF Typed
  <2>3. QED
    BY <2>1, <2>2 DEF Typed, TypeOK, Fits, Cell, Byte
<1>2. QED
  BY <1>1, Invariance, PTL

\* What a worker finds in a part, however late it looks, is exactly one frame as the
\* peer sent it: rcvd_ch gets slices of collect, and append never writes into them.
THEOREM PartsStayIntact == Spec => []PartsIntact
<1>1. IndInv => PartsIntact
  BY DEF IndInv, PartsInv, PartsIntact
<1>2. QED
  BY <1>1, Invariance, PTL

\* readLoop goes back to Read only when every frame read to its end is handed on,
\* unless a frame of another version made it discard what it had.
THEOREM ReadsWhenNeeded == Spec => []ReadsOnlyForMore
<1>1. IndInv => ReadsOnlyForMore
  BY DEF IndInv, ReceivedInv, ReadsOnlyForMore, HandedOn, Upset
<1>2. QED
  BY <1>1, Invariance, PTL

-----------------------------------------------------------------------------
(***************************************************************************)
(* The frames that begin in a stream.                                      *)
(***************************************************************************)
UpTo(s, i) == {j \in Begins(s) : j <= i}

\* The places where frames begin in s, in order.
Lists(s, k, f) ==
  /\ \A n \in 1..k : f[n] \in Begins(s)
  /\ \A n, m \in 1..k : n < m => f[n] < f[m]
  /\ \A i \in Begins(s) : \E n \in 1..k : f[n] = i

LEMMA BeginsFinite ==
  ASSUME NEW s \in Seq(Byte)
  PROVE  /\ Begins(s) \in SUBSET (1..Len(s)) /\ Len(s) \in Nat
         /\ IsFiniteSet(Begins(s)) /\ Cardinality(Begins(s)) \in Nat
         /\ \A i : /\ UpTo(s, i) \subseteq Begins(s) /\ IsFiniteSet(UpTo(s, i))
                   /\ Cardinality(UpTo(s, i)) \in Nat
<1>1. Begins(s) \in SUBSET (1..Len(s)) /\ Len(s) \in Nat
  BY LenProperties DEF Begins
<1>2. IsFiniteSet(1..Len(s))
  BY <1>1, FS_Interval
<1>3. IsFiniteSet(Begins(s))
  BY <1>1, <1>2, FS_Subset
<1>4. ASSUME NEW i
      PROVE  /\ UpTo(s, i) \subseteq Begins(s) /\ IsFiniteSet(UpTo(s, i))
             /\ Cardinality(UpTo(s, i)) \in Nat
  <2>1. UpTo(s, i) \in SUBSET Begins(s)
    BY DEF UpTo
  <2>2. IsFiniteSet(UpTo(s, i))
    BY <1>3, <2>1, FS_Subset
  <2>3. QED
    BY <2>1, <2>2, FS_CardinalityType
<1>5. QED
  BY <1>1, <1>3, <1>4, FS_CardinalityType

\* Whatever lists the places in order is what Begin counts off.
LEMMA ListIsBegin ==
  ASSUME NEW s \in Seq(Byte), NEW k \in Nat, NEW f, Lists(s, k, f)
  PROVE  Cardinality(Begins(s)) = k /\ \A n \in 1..k : Begin(s, n) = f[n]
<1>1. \A i \in Begins(s) : i \in Nat
  BY BeginsFinite
<1>2. ASSUME NEW n \in 0..k, NEW T, T = {f[m] : m \in 1..n}
      PROVE  Cardinality(T) = n
  <2> DEFINE g == [m \in 1..n |-> f[m]]
  <2>1. \A m \in 1..n : m \in 1..k
    OBVIOUS
  <2>2. \A a, b \in 1..n : g[a] = g[b] => a = b
    <3> SUFFICES ASSUME NEW a \in 1..n, NEW b \in 1..n, f[a] = f[b], a # b PROVE FALSE
      OBVIOUS
    <3>1. f[a] \in Nat /\ f[b] \in Nat /\ (a < b \/ b < a)
      BY <1>1, <2>1 DEF Lists
    <3>2. f[a] < f[b] \/ f[b] < f[a]
      BY <2>1, <3>1 DEF Lists
    <3>3. QED
      BY <3>1, <3>2
  <2>3. g \in [1..n -> T]
    BY <1>2
  <2>4. \A t \in T : \E m \in 1..n : g[m] = t
    BY <1>2
  <2>5. g \in Bijection(1..n, T)
    BY <2>2, <2>3, <2>4, Fun_IsBij
  <2>6. QED
    BY <2>5, FS_CountingElements DEF ExistsBijection
<1>3. Cardinality(Begins(s)) = k
  <2>1. Begins(s) = {f[m] : m \in 1..k}
    BY DEF Lists
  <2>2. k \in 0..k
    OBVIOUS
  <2>3. QED
    BY <1>2, <2>1, <2>2
<1>4. ASSUME NEW n \in 1..k PROVE Cardinality(UpTo(s, f[n])) = n
  <2>1. ASSUME NEW m \in 1..k PROVE f[m] <= f[n] <=> m \in 1..n
    <3>1. f[m] \in Nat /\ f[n] \in Nat /\ (m < n \/ m = n \/ n < m)
      BY <1>1 DEF Lists
    <3>2. (m < n => f[m] < f[n]) /\ (n < m => f[n] < f[m])
      BY DEF Lists
    <3>3. QED
      BY <3>1, <3>2
  <2>2. UpTo(s, f[n]) = {f[m] : m \in 1..n}
    <3>1. ASSUME NEW i \in UpTo(s, f[n]) PROVE i \in {f[m] : m \in 1..n}
      <4>1. PICK m \in 1..k : f[m] = i
        BY <3>1 DEF UpTo, Lists
      <4>2. QED
        BY <2>1, <4>1 DEF UpTo
    <3>2. ASSUME NEW m \in 1..n PROVE f[m] \in UpTo(s, f[n])
      BY <2>1 DEF UpTo, Lists
    <3>3. QED
      BY <3>1, <3>2
  <2>3. n \in 0..k
    OBVIOUS
  <2>4. QED
    BY <1>2, <2>2, <2>3
<1>5. ASSUME NEW n \in 1..k PROVE Begin(s, n) = f[n]
  <2>1. \A i \in Begins(s) : Cardinality(UpTo(s, i)) = n => i = f[n]
    BY <1>4 DEF Lists
  <2>2. f[n] \in Begins(s) /\ Cardinality(UpTo(s, f[n])) = n
    BY <1>4 DEF Lists
  <2>3. Begin(s, n) = CHOOSE i \in Begins(s) : Cardinality(UpTo(s, i)) = n
    BY DEF Begin, UpTo
  <2>4. QED
    BY <2>1, <2>2, <2>3
<1>6. QED
  BY <1>3, <1>5

\* Begin does list them.
LEMMA BeginLists ==
  ASSUME NEW s \in Seq(Byte)
  PROVE  Lists(s, Cardinality(Begins(s)), [n \in 1..Cardinality(Begins(s)) |-> Begin(s, n)])
<1> DEFINE k == Cardinality(Begins(s))
           rank == [i \in Begins(s) |-> Cardinality(UpTo(s, i))]
<1>1. /\ k \in Nat /\ IsFiniteSet(Begins(s)) /\ \A i \in Begins(s) : i \in Nat
  BY BeginsFinite
<1>2. ASSUME NEW i \in Begins(s), NEW j \in Begins(s), i < j PROVE rank[i] < rank[j]
  <2>1. UpTo(s, i) \in SUBSET UpTo(s, j) /\ j \notin UpTo(s, i) /\ j \in UpTo(s, j)
    BY <1>1, <1>2 DEF UpTo
  <2>2. IsFiniteSet(UpTo(s, j)) /\ rank[i] \in Nat /\ rank[j] \in Nat
    BY BeginsFinite
  <2>3. rank[i] <= rank[j] /\ (rank[j] = rank[i] => UpTo(s, j) = UpTo(s, i))
    BY <2>1, <2>2, FS_Subset
  <2>4. rank[i] # rank[j]
    BY <2>1, <2>3
  <2>5. QED
    BY <2>2, <2>3, <2>4
<1>3. ASSUME NEW i \in Begins(s) PROVE rank[i] \in 1..k
  <2>1. UpTo(s, i) \in SUBSET Begins(s) /\ i \in UpTo(s, i) /\ IsFiniteSet(UpTo(s, i))
    <3>1. UpTo(s, i) \in SUBSET Begins(s)
      BY DEF UpTo
    <3>2. i \in Nat /\ i <= i
      BY <1>1
    <3>3. i \in UpTo(s, i)
      BY <3>2 DEF UpTo
    <3>4. QED
      BY <3>1, <3>3, BeginsFinite
  <2>2. rank[i] <= k /\ rank[i] \in Nat
    BY <1>1, <2>1, FS_Subset, BeginsFinite
  <2>3. rank[i] # 0
    BY <2>1, FS_EmptySet
  <2>4. QED
    BY <1>1, <2>2, <2>3
<1>4. rank \in Injection(Begins(s), 1..k)
  <2>1. rank \in [Begins(s) -> 1..k]
    BY <1>3
  <2>2. ASSUME NEW a \in Begins(s), NEW b \in Begins(s), rank[a] = rank[b] PROVE a = b
    <3>1. rank[a] \in 1..k /\ rank[b] \in 1..k /\ a \in Nat /\ b \in Nat
      BY <1>1, <1>3
    <3> HIDE DEF rank, k
    <3>2. ~(a < b) /\ ~(b < a)
      BY <1>1, <1>2, <2>2, <3>1
    <3>3. QED
      BY <3>1, <3>2
  <2> HIDE DEF rank
  <2>3. QED
    BY <2>1, <2>2, Fun_IsInj
<1>5. rank \in Surjection(Begins(s), 1..k)
  <2>1. IsFiniteSet(1..k) /\ Cardinality(1..k) = k
    BY <1>1, FS_Interval
  <2>2. QED
    BY <1>4, <2>1, FS_Injection
<1> HIDE DEF rank
<1>6. ASSUME NEW n \in 1..k PROVE Begin(s, n) \in Begins(s) /\ rank[Begin(s, n)] = n
  <2>1. PICK i \in Begins(s) : rank[i] = n
    BY <1>5, <1>6 DEF Surjection
  <2>2. \A j \in Begins(s) : rank[j] = Cardinality({h \in Begins(s) : h <= j})
    BY DEF rank, UpTo
  <2>3. QED
    BY <2>1, <2>2 DEF Begin
<1>7. ASSUME NEW n \in 1..k, NEW m \in 1..k, n < m PROVE Begin(s, n) < Begin(s, m)
  <2> DEFINE a == Begin(s, n)
             b == Begin(s, m)
  <2>1. a \in Begins(s) /\ b \in Begins(s) /\ rank[a] = n /\ rank[b] = m
    BY <1>6
  <2> HIDE DEF a, b
  <2>2. a \in Nat /\ b \in Nat
    BY <1>1, <2>1
  <2>3. n \in Nat /\ m \in Nat /\ ~(m < n) /\ n # m
    BY <1>1, <1>7
  <2>4. ~(b < a) /\ a # b
    BY <1>2, <2>1, <2>3
  <2>5. QED
    BY <2>2, <2>4 DEF a, b
<1>8. ASSUME NEW i \in Begins(s) PROVE \E n \in 1..k : Begin(s, n) = i
  <2>1. PICK n \in 1..k : n = rank[i]
    BY <1>3 DEF rank
  <2>2. Begin(s, n) \in Begins(s) /\ rank[Begin(s, n)] = rank[i]
    BY <1>6, <2>1
  <2>3. \A a, b \in Begins(s) : rank[a] = rank[b] => a = b
    BY <1>4 DEF Injection, IsInjective
  <2>4. QED
    BY <2>1, <2>2, <2>3
<1> HIDE DEF k
<1>9. Lists(s, k, [n \in 1..k |-> Begin(s, n)])
  BY <1>6, <1>7, <1>8 DEF Lists
<1>10. QED
  BY <1>9 DEF k

LEMMA FramesListed ==
  ASSUME NEW s \in Seq(Byte), NEW k \in Nat, NEW f, Lists(s, k, f)
  PROVE  /\ FramesIn(s) \in Seq(Nat) /\ Len(FramesIn(s)) = k
         /\ \A n \in 1..k : FramesIn(s)[n] = s[f[n]][1]
<1>1. Cardinality(Begins(s)) = k /\ \A n \in 1..k : Begin(s, n) = f[n]
  BY ListIsBegin
<1>2. FramesIn(s) = [n \in 1..k |-> s[Begin(s, n)][1]]
  BY <1>1 DEF FramesIn
<1>3. ASSUME NEW n \in 1..k PROVE s[Begin(s, n)][1] = s[f[n]][1] /\ s[Begin(s, n)][1] \in Nat
  <2>1. Begin(s, n) \in 1..Len(s) /\ Begin(s, n) = f[n]
    BY <1>1, BeginsFinite DEF Lists
  <2>2. s[Begin(s, n)] \in Byte
    BY <2>1, ElementOfSeq
  <2>3. QED
    BY <2>1, <2>2 DEF Byte
<1>4. QED
  BY <1>2, <1>3

LEMMA OneAfterOther ==
  ASSUME NEW x \in Seq(Nat), NEW y \in Seq(Nat)
  PROVE  /\ x \o y \in Seq(Nat) /\ Len(x \o y) = Len(x) + Len(y)
         /\ \A n \in 1..Len(x) : (x \o y)[n] = x[n]
         /\ \A n \in 1..Len(y) : (x \o y)[Len(x) + n] = y[n]
<1>1. /\ x \o y \in Seq(Nat) /\ Len(x \o y) = Len(x) + Len(y)
      /\ \A n \in 1..(Len(x) + Len(y)) : (x \o y)[n] = IF n <= Len(x) THEN x[n] ELSE y[n - Len(x)]
  BY ConcatProperties
<1>2. Len(x) \in Nat /\ Len(y) \in Nat
  BY LenProperties
<1>3. \A n \in 1..Len(y) : /\ Len(x) + n \in 1..(Len(x) + Len(y))
                           /\ ~(Len(x) + n <= Len(x)) /\ (Len(x) + n) - Len(x) = n
  BY <1>2
<1>4. \A n \in 1..Len(x) : n \in 1..(Len(x) + Len(y)) /\ n <= Len(x)
  BY <1>2
<1>5. QED
  BY <1>1, <1>3, <1>4

\* The frames of two streams, one after the other, are those of the first and those of
\* the second.
LEMMA FramesJoined ==
  ASSUME NEW s \in Seq(Byte), NEW u \in Seq(Byte), NEW w \in Seq(Byte), Len(w) = Len(s) + Len(u),
         \A i \in 1..Len(s) : w[i] = s[i], \A i \in 1..Len(u) : w[Len(s) + i] = u[i]
  PROVE  /\ FramesIn(s) \in Seq(Nat) /\ FramesIn(u) \in Seq(Nat)
         /\ FramesIn(w) = FramesIn(s) \o FramesIn(u)
<1>0. PICK a \in Nat, b \in Nat : (\E f : Lists(s, a, f)) /\ (\E f : Lists(u, b, f))
  BY BeginLists, BeginsFinite
<1>1. PICK f : Lists(s, a, f)
  BY <1>0
<1>2. PICK g : Lists(u, b, g)
  BY <1>0
<1>3. PICK l \in Nat, m \in Nat : l = Len(s) /\ m = Len(u) /\ Len(w) = l + m
  BY LenProperties
<1>4. PICK h : h = [n \in 1..(a + b) |-> IF n <= a THEN f[n] ELSE l + g[n - a]]
  OBVIOUS
<1>5. \A n \in 1..a : h[n] = f[n] /\ n \in 1..(a + b)
  BY <1>4
<1>6. \A n \in 1..b : h[a + n] = l + g[n] /\ a + n \in 1..(a + b)
  <2> SUFFICES ASSUME NEW n \in 1..b PROVE h[a + n] = l + g[n] /\ a + n \in 1..(a + b)
    OBVIOUS
  <2>1. a + n \in 1..(a + b) /\ ~(a + n <= a) /\ (a + n) - a = n
    OBVIOUS
  <2>2. QED
    BY <1>4, <2>1
<1>7. \A n \in 1..(a + b) : n \in 1..a \/ \E q \in 1..b : n = a + q
  <2> SUFFICES ASSUME NEW n \in 1..(a + b), n \notin 1..a PROVE \E q \in 1..b : n = a + q
    OBVIOUS
  <2>1. n - a \in 1..b /\ n = a + (n - a)
    OBVIOUS
  <2>2. QED
    BY <2>1
<1>8. \A i \in 1..(l + m) : i \in 1..l \/ \E q \in 1..m : i = l + q
  <2> SUFFICES ASSUME NEW i \in 1..(l + m), i \notin 1..l PROVE \E q \in 1..m : i = l + q
    OBVIOUS
  <2>1. i - l \in 1..m /\ i = l + (i - l)
    OBVIOUS
  <2>2. QED
    BY <2>1
<1>9. \A n \in 1..a : f[n] \in 1..l /\ f[n] \in Begins(s) /\ s[f[n]][2] = 1
  BY <1>1, <1>3 DEF Lists, Begins
<1>10. \A n \in 1..b : g[n] \in 1..m /\ g[n] \in Begins(u) /\ u[g[n]][2] = 1
  BY <1>2, <1>3 DEF Lists, Begins
<1>11. Lists(w, a + b, h)
  <2>0. \A i : i \in Begins(w) <=> i \in 1..(l + m) /\ w[i][2] = 1
    BY <1>3 DEF Begins
  <2>1. ASSUME NEW n \in 1..(a + b) PROVE h[n] \in Begins(w)
    <3>1. CASE n \in 1..a
      <4>1. PICK i \in 1..l : i = h[n] /\ s[i][2] = 1
        BY <1>5, <1>9, <3>1
      <4>2. w[i] = s[i]
        BY <1>3
      <4>3. i \in 1..(l + m)
        OBVIOUS
      <4>4. QED
        BY <2>0, <4>1, <4>2, <4>3
    <3>2. CASE \E q \in 1..b : n = a + q
      <4>1. PICK q \in 1..b : n = a + q
        BY <3>2
      <4>2. PICK j \in 1..m : j = g[q] /\ u[j][2] = 1
        BY <1>10
      <4>3. h[n] = l + j
        BY <1>6, <4>1, <4>2
      <4>4. w[l + j] = u[j]
        BY <1>3
      <4>5. l + j \in 1..(l + m)
        OBVIOUS
      <4>6. QED
        BY <2>0, <4>2, <4>3, <4>4, <4>5
    <3>3. QED
      BY <1>7, <3>1, <3>2
  <2>2. ASSUME NEW n \in 1..(a + b), NEW q \in 1..(a + b), n < q PROVE h[n] < h[q]
    <3>1. CASE q \in 1..a
      <4>1. n \in 1..a
        BY <2>2, <3>1
      <4>2. QED
        BY <1>1, <1>5, <2>2, <3>1, <4>1 DEF Lists
    <3>2. CASE n \in 1..a /\ \E x \in 1..b : q = a + x
      <4>1. PICK x \in 1..b : q = a + x
        BY <3>2
      <4>2. PICK j \in 1..m : j = g[x] /\ h[q] = l + j
        BY <1>6, <1>10, <4>1
      <4>3. PICK i \in 1..l : i = f[n] /\ h[n] = i
        BY <1>5, <1>9, <3>2
      <4>4. QED
        BY <4>2, <4>3
    <3>3. CASE (\E x \in 1..b : n = a + x) /\ (\E x \in 1..b : q = a + x)
      <4>1. PICK x \in 1..b : n = a + x
        BY <3>3
      <4>2. PICK y \in 1..b : q = a + y
        BY <3>3
      <4>3. x < y
        BY <2>2, <4>1, <4>2
      <4>4. g[x] < g[y] /\ g[x] \in 1..m /\ g[y] \in 1..m
        BY <1>2, <1>10, <4>3 DEF Lists
      <4>5. h[n] = l + g[x] /\ h[q] = l + g[y]
        BY <1>6, <4>1, <4>2
      <4>6. QED
        BY <4>4, <4>5
    <3>4. QED
      BY <1>7, <3>1, <3>2, <3>3
  <2>3. ASSUME NEW i \in Begins(w) PROVE \E n \in 1..(a + b) : h[n] = i
    <3>1. i \in 1..(l + m) /\ w[i][2] = 1
      BY <1>3 DEF Begins
    <3>2. CASE i \in 1..l
      <4>1. i \in Begins(s)
        BY <1>3, <3>1, <3>2 DEF Begins
      <4>2. PICK n \in 1..a : f[n] = i
        BY <1>1, <4>1 DEF Lists
      <4>3. QED
        BY <1>5, <4>2
    <3>3. CASE \E q \in 1..m : i = l + q
      <4>1. PICK q \in 1..m : i = l + q
        BY <3>3
      <4>2. q \in Begins(u)
        <5>1. w[i] = u[q] /\ q \in 1..Len(u)
          BY <1>3, <4>1
        <5>2. QED
          BY <3>1, <5>1 DEF Begins
      <4>3. PICK n \in 1..b : g[n] = q
        BY <1>2, <4>2 DEF Lists
      <4>4. QED
        BY <1>6, <4>1, <4>3
    <3>4. QED
      BY <1>8, <3>1, <3>2, <3>3
  <2>4. QED
    BY <2>1, <2>2, <2>3 DEF Lists
<1>12. /\ FramesIn(s) \in Seq(Nat) /\ Len(FramesIn(s)) = a
       /\ \A n \in 1..a : FramesIn(s)[n] = s[f[n]][1]
  BY <1>1, FramesListed
<1>13. /\ FramesIn(u) \in Seq(Nat) /\ Len(FramesIn(u)) = b
       /\ \A n \in 1..b : FramesIn(u)[n] = u[g[n]][1]
  BY <1>2, FramesListed
<1>14. /\ FramesIn(w) \in Seq(Nat) /\ Len(FramesIn(w)) = a + b
       /\ \A n \in 1..(a + b) : FramesIn(w)[n] = w[h[n]][1]
  <2>1. a + b \in Nat
    OBVIOUS
  <2>2. QED
    BY <1>11, <2>1, FramesListed
<1>15. PICK t : t = FramesIn(s) \o FramesIn(u)
  OBVIOUS
<1>16. /\ t \in Seq(Nat) /\ Len(t) = a + b
       /\ \A n \in 1..a : t[n] = FramesIn(s)[n]
       /\ \A n \in 1..b : t[a + n] = FramesIn(u)[n]
  BY <1>12, <1>13, <1>15, OneAfterOther, Zenon
<1>17. ASSUME NEW n \in 1..(a + b) PROVE FramesIn(w)[n] = t[n]
  <2>1. CASE n \in 1..a
    <3>1. h[n] = f[n] /\ f[n] \in 1..l /\ w[f[n]] = s[f[n]]
      BY <1>3, <1>5, <1>9, <2>1
    <3>2. t[n] = FramesIn(s)[n]
      BY <1>16, <2>1
    <3>3. QED
      BY <1>12, <1>14, <2>1, <3>1, <3>2
  <2>2. CASE \E q \in 1..b : n = a + q
    <3>1. PICK q \in 1..b : n = a + q
      BY <2>2
    <3>2. h[n] = l + g[q] /\ g[q] \in 1..m
      BY <1>6, <1>10, <3>1
    <3>3. w[h[n]] = u[g[q]]
      BY <1>3, <3>2
    <3>4. t[n] = FramesIn(u)[q]
      BY <1>16, <3>1
    <3>5. QED
      BY <1>13, <1>14, <3>3, <3>4
  <2>3. QED
    BY <1>7, <2>1, <2>2
<1>18. FramesIn(w) = t
  BY <1>14, <1>16, <1>17, SeqEqual
<1>19. QED
  BY <1>12, <1>13, <1>15, <1>18

\* One frame, and a stream in which none begins.
LEMMA FramesOfOne ==
  ASSUME NEW s \in Seq(Byte), NEW l \in Nat, NEW k \in Nat, 1 <= l, Len(s) = l,
         \A i \in 1..l : s[i] = <<k, i>>
  PROVE  FramesIn(s) = <<k>>
<1>1. Begins(s) = {1} /\ 1 \in 1..l /\ s[1] = <<k, 1>>
  BY DEF Begins
<1>2. PICK f : f = [n \in 1..1 |-> 1]
  OBVIOUS
<1>3. Lists(s, 1, f)
  BY <1>1, <1>2 DEF Lists
<1>4. FramesIn(s) \in Seq(Nat) /\ Len(FramesIn(s)) = 1 /\ FramesIn(s)[1] = k
  <2>1. /\ FramesIn(s) \in Seq(Nat) /\ Len(FramesIn(s)) = 1
        /\ \A n \in 1..1 : FramesIn(s)[n] = s[f[n]][1]
    <3> DEFINE one == 1
    <3>1. one \in Nat
      OBVIOUS
    <3> HIDE DEF one
    <3>2. Lists(s, one, f) => /\ FramesIn(s) \in Seq(Nat) /\ Len(FramesIn(s)) = one
                             /\ \A n \in 1..one : FramesIn(s)[n] = s[f[n]][1]
      BY <3>1, FramesListed
    <3>3. QED
      BY <1>3, <3>2 DEF one
  <2>2. QED
    BY <1>1, <1>2, <2>1
<1>5. QED
  BY <1>4

LEMMA FramesOfNone ==
  FramesIn(<<>>) = <<>>
<1>1. <<>> \in Seq(Byte) /\ Begins(<<>>) = {}
  BY EmptySeq DEF Begins
<1>2. Lists(<<>>, 0, <<>>)
  BY <1>1 DEF Lists
<1>3. FramesIn(<<>>) \in Seq(Nat) /\ Len(FramesIn(<<>>)) = 0
  BY <1>1, <1>2, FramesListed
<1>4. QED
  BY <1>3, EmptySeq

-----------------------------------------------------------------------------
(***************************************************************************)
(* readLoop implements Intake.                                             *)
(***************************************************************************)
\* The parts of two sequences put together.
LEMMA LeadingPart ==
  ASSUME NEW a \in Seq(Nat), NEW b \in Seq(Nat)
  PROVE  \E i, j \in 0..Len(a \o b) : a = SubSeq(a \o b, i + 1, j)
<1>1. /\ a \o b \in Seq(Nat) /\ Len(a \o b) = Len(a) + Len(b) /\ Len(a) \in Nat /\ Len(b) \in Nat
      /\ \A n \in 1..Len(a) : (a \o b)[n] = a[n]
  BY OneAfterOther, LenProperties
<1>2. \A n \in 1..Len(a) : (a \o b)[n] \in Nat
  BY <1>1, ElementOfSeq
<1>3. /\ SubSeq(a \o b, 1, Len(a)) \in Seq(Nat) /\ Len(SubSeq(a \o b, 1, Len(a))) = Len(a)
      /\ \A n \in 1..Len(a) : SubSeq(a \o b, 1, Len(a))[n] = a[n]
  BY <1>1, <1>2, SubSeqProperties
<1>4. a = SubSeq(a \o b, 0 + 1, Len(a))
  BY <1>3, SeqEqual
<1>5. 0 \in 0..Len(a \o b) /\ Len(a) \in 0..Len(a \o b)
  BY <1>1
<1>6. QED
  BY <1>4, <1>5

LEMMA LastPart ==
  ASSUME NEW a \in Seq(Nat), NEW b \in Seq(Nat)
  PROVE  \E i, j \in 0..Len(a \o b) : b = SubSeq(a \o b, i + 1, j)
<1> DEFINE l == Len(a)
           m == Len(a \o b)
           c == SubSeq(a \o b, l + 1, m)
<1>1. /\ a \o b \in Seq(Nat) /\ m = l + Len(b) /\ l \in Nat /\ Len(b) \in Nat /\ m \in Nat
      /\ \A n \in 1..Len(b) : (a \o b)[l + n] = b[n]
  BY OneAfterOther, LenProperties
<1>2. \A n \in (l + 1)..m : (a \o b)[n] \in Nat
  <2>1. \A n \in (l + 1)..m : n \in 1..m
    BY <1>1
  <2>2. QED
    BY <1>1, <2>1, ElementOfSeq
<1> HIDE DEF l, m
<1>3. /\ c \in Seq(Nat) /\ Len(c) = Len(b)
      /\ \A n \in 1..Len(b) : c[n] = (a \o b)[(l + 1) + n - 1]
  <2> DEFINE w == a \o b
             f == l + 1
  <2>0. \A n \in f..m : w[n] \in Nat
    BY <1>2
  <2> HIDE DEF w
  <2>1. /\ m - f + 1 = Len(b) /\ (IF f <= m THEN m - f + 1 ELSE 0) = Len(b)
        /\ f \in Int /\ m \in Int
    BY <1>1
  <2> HIDE DEF f
  <2>2. /\ SubSeq(w, f, m) \in Seq(Nat)
        /\ Len(SubSeq(w, f, m)) = (IF f <= m THEN m - f + 1 ELSE 0)
        /\ \A n \in 1..(m - f + 1) : SubSeq(w, f, m)[n] = w[f + n - 1]
    BY <2>0, <2>1, SubSeqProperties
  <2>3. /\ SubSeq(w, f, m) \in Seq(Nat) /\ Len(SubSeq(w, f, m)) = Len(b)
        /\ \A n \in 1..Len(b) : SubSeq(w, f, m)[n] = w[f + n - 1]
    BY <2>1, <2>2
  <2>4. QED
    BY <2>3 DEF w, f
<1>4. \A n \in 1..Len(b) : c[n] = b[n]
  <2>1. \A n \in 1..Len(b) : (l + 1) + n - 1 = l + n
    BY <1>1
  <2>2. QED
    BY <1>1, <1>3, <2>1
<1>5. b = c
  BY <1>3, <1>4, SeqEqual
<1>6. l \in 0..m /\ m \in 0..m
  BY <1>1
<1>7. QED
  BY <1>5, <1>6 DEF m

LEMMA FirstPart ==
  ASSUME NEW k \in Nat, NEW b \in Seq(Nat)
  PROVE  <<k>> \o b # <<>> /\ Head(<<k>> \o b) = k /\ Tail(<<k>> \o b) = b
OBVIOUS

\* What has a frame of another version before it is on a broken connection.
LEMMA UpsetIsBroken ==
  ASSUME Typed, FlowInv, Flow # <<>>, Upset(No(Flow[1]))
  PROVE  Broken
<1>1. 1 \in 1..Len(Flow) /\ Len(sent) \in Nat
  BY FlowOf, EmptySeq
<1>2. PICK k \in 1..Len(sent) : k = No(Flow[1]) /\ sent[k].conn = conn
  BY <1>1 DEF FlowInv, Ordered, OfFrames
<1>3. PICK b \in 1..k : sent[b].conn = sent[k].conn /\ sent[b].version # 1
  BY <1>2 DEF Upset
<1>4. b \in 1..Len(sent)
  BY <1>1
<1>5. QED
  BY <1>2, <1>3, <1>4 DEF Broken

LEMMA InitImplements == Init => Stream!Init
<1> SUFFICES ASSUME Init PROVE Stream!Init
  OBVIOUS
<1>1. Flow = <<>>
  <2>1. SubSeq(heap[collect.arr], 1, 0) = <<>>
    BY SubSeqEmpty
  <2>2. QED
    BY <2>1 DEF Init, Flow, Contents
<1>2. Waiting = <<>>
  BY <1>1, FramesOfNone DEF Waiting, Flow
<1>3. HandedOn = {} /\ Len(sent) = 0
  BY DEF Init, HandedOn
<1>4. Broken \in BOOLEAN
  BY DEF Broken, Init
<1>5. QED
  BY <1>2, <1>3, <1>4 DEF Stream!Init

\* Reading moves bytes within the stream.
LEMMA ReadImplements ==
  ASSUME IndInv, Read \/ AwaitHeader \/ AwaitRest
  PROVE  UNCHANGED Stream!vars
<1>1. UNCHANGED <<Flow, HandedOn>>
  BY ReadKeeps, AwaitKeeps
<1>2. UNCHANGED <<open, sent, conn>>
  BY DEF Read, AwaitHeader, AwaitRest
<1>3. UNCHANGED Waiting
  BY <1>1 DEF Waiting, Flow
<1>4. UNCHANGED Broken
  BY <1>2 DEF Broken
<1>5. QED
  BY <1>1, <1>2, <1>3, <1>4 DEF Stream!vars

\* The next connection begins with an empty stream; so does what is left to read when
\* that connection is known to break.
LEMMA ReadFailsImplements ==
  ASSUME IndInv, ReadFails
  PROVE  Stream!Reconnect \/ Stream!Lose
<1>1. Flow' = <<>> /\ UNCHANGED HandedOn
  BY ReadFailsKeeps
<1>2. Broken /\ UNCHANGED sent
  BY DEF ReadFails, Broken
<1>3. Waiting' = <<>>
  <2>1. Waiting' = FramesIn(Flow')
    BY DEF Waiting, Flow
  <2>2. QED
    BY <1>1, <2>1, FramesOfNone
<1>4. CASE Broken'
  <2>1. FramesIn(Flow) \in Seq(Nat)
    BY FramesListed, BeginLists, BeginsFinite DEF IndInv, FlowInv
  <2>2. 0 \in 0..Len(Waiting) /\ SubSeq(Waiting, 0 + 1, 0) = <<>>
    BY <2>1, LenProperties, SubSeqEmpty DEF Waiting, Flow
  <2>3. QED
    BY <1>1, <1>2, <1>3, <1>4, <2>2 DEF Stream!Lose
<1>5. CASE ~Broken'
  BY <1>1, <1>2, <1>3, <1>5 DEF Stream!Reconnect
<1>6. QED
  BY <1>4, <1>5

\* What is discarded lies at the front of the stream.
LEMMA DiscardImplements ==
  ASSUME IndInv, Discard
  PROVE  Stream!Lose
<1>1. Flow' = wire /\ Flow # <<>> /\ Upset(No(Flow[1])) /\ UNCHANGED HandedOn
  BY DiscardKeeps
<1>2. UNCHANGED <<open, sent, conn>>
  BY DEF Discard
<1>3. Broken'
  <2>1. Broken
    BY <1>1, UpsetIsBroken DEF IndInv
  <2>2. QED
    BY <1>2, <2>1 DEF Broken
<1>4. PICK C \in Seq(Byte) : C = Contents(collect)
  <2>1. Flow \in Seq(Byte)
    BY DEF IndInv, FlowInv
  <2>2. /\ Contents(collect) \in Seq(Cell) /\ Len(Contents(collect)) = collect.len
        /\ Len(Flow) = collect.len + Len(wire) /\ collect.len \in Nat /\ Len(wire) \in Nat
        /\ \A i \in 1..collect.len : Flow[i] = Contents(collect)[i]
    BY FlowOf DEF IndInv
  <2>3. \A i \in 1..collect.len : i \in 1..Len(Flow)
    BY <2>2
  <2>4. \A i \in 1..Len(Contents(collect)) : Contents(collect)[i] \in Byte
    BY <2>1, <2>2, <2>3, ElementOfSeq
  <2>5. QED
    BY <2>2, <2>4, BytesOnly
<1>5. PICK a \in Seq(Nat), b \in Seq(Nat) :
        a = FramesIn(C) /\ b = FramesIn(wire) /\ FramesIn(Flow) = a \o b
  <2>1. /\ Flow \in Seq(Byte) /\ wire \in Seq(Byte) /\ Len(C) = collect.len
        /\ Len(Flow) = Len(C) + Len(wire)
        /\ \A i \in 1..Len(C) : Flow[i] = C[i]
        /\ \A i \in 1..Len(wire) : Flow[Len(C) + i] = wire[i]
    BY <1>4, FlowOf DEF IndInv, FlowInv, Typed
  <2>2. /\ FramesIn(C) \in Seq(Nat) /\ FramesIn(wire) \in Seq(Nat)
        /\ FramesIn(Flow) = FramesIn(C) \o FramesIn(wire)
    BY <2>1, FramesJoined
  <2>3. QED
    BY <2>2
<1>6. Waiting = a \o b /\ Waiting' = b
  BY <1>1, <1>5 DEF Waiting, Flow
<1>7. PICK i \in 0..Len(a \o b), j \in 0..Len(a \o b) : b = SubSeq(a \o b, i + 1, j)
  BY LastPart
<1>8. QED
  BY <1>1, <1>2, <1>3, <1>6, <1>7 DEF Stream!Lose

\* Cutting a frame off hands on the first one of the stream.
LEMMA CutFrameImplements ==
  ASSUME IndInv, CutFrame
  PROVE  Stream!Hand
<1>1. IndInv' /\ FrameTaken
  BY CutFrameKeeps
<1>2. PICK k \in 1..Len(sent), l \in Nat :
        /\ 1 <= l /\ \A i \in 1..l : Flow[i] = <<k, i>>
        /\ Len(Flow) = l + Len(Flow') /\ \A i \in 1..Len(Flow') : Flow'[i] = Flow[l + i]
        /\ HandedOn' = HandedOn \union {k}
  BY <1>1 DEF FrameTaken
<1>3. UNCHANGED <<open, sent, conn>>
  BY DEF CutFrame, HandOn
<1>4. Flow \in Seq(Byte) /\ Flow' \in Seq(Byte) /\ Len(Flow) \in Nat /\ Len(Flow') \in Nat
  BY <1>1, LenProperties DEF IndInv, FlowInv
<1>5. PICK f \in Seq(Byte) : Len(f) = l /\ \A i \in 1..l : f[i] = Flow[i]
  <2> DEFINE g == [i \in 1..l |-> Flow[i]]
  <2>1. \A i \in 1..l : i \in 1..Len(Flow) /\ Flow[i] \in Byte
    BY <1>2, <1>4, ElementOfSeq
  <2>2. g \in Seq(Byte) /\ Len(g) = l /\ \A i \in 1..l : g[i] = Flow[i]
    BY <2>1
  <2>3. QED
    BY <2>2, Zenon
<1>6. FramesIn(f) = <<k>>
  <2>1. k \in Nat /\ \A i \in 1..l : f[i] = <<k, i>>
    BY <1>2, <1>5
  <2>2. QED
    BY <1>2, <1>5, <2>1, FramesOfOne
<1>7. PICK b \in Seq(Nat) : b = FramesIn(Flow') /\ FramesIn(Flow) = <<k>> \o b
  <2> DEFINE u == Flow'
             w == Flow
  <2>1. /\ u \in Seq(Byte) /\ w \in Seq(Byte) /\ Len(w) = Len(f) + Len(u)
        /\ \A i \in 1..Len(f) : w[i] = f[i]
        /\ \A i \in 1..Len(u) : w[Len(f) + i] = u[i]
    BY <1>2, <1>4, <1>5
  <2> HIDE DEF u, w
  <2>2. FramesIn(u) \in Seq(Nat) /\ FramesIn(w) = FramesIn(f) \o FramesIn(u)
    BY <2>1, FramesJoined
  <2>3. QED
    BY <1>6, <2>2 DEF u, w
<1>8. <<k>> \o b # <<>> /\ Head(<<k>> \o b) = k /\ Tail(<<k>> \o b) = b
  BY <1>2, FirstPart
<1>9. Waiting = <<k>> \o b /\ Waiting' = b
  BY <1>7 DEF Waiting, Flow
<1>10. UNCHANGED <<Len(sent), Broken>>
  BY <1>3 DEF Broken
<1>11. QED
  BY <1>2, <1>8, <1>9, <1>10 DEF Stream!Hand

\* A frame that is sent joins the stream at its end.
LEMMA SendsImplements ==
  ASSUME IndInv, PeerSends
  PROVE  Stream!Send
<1>1. IndInv' /\ FrameAdded
  BY SendsKeeps
<1>2. PICK b \in Seq(Byte) :
        /\ Len(sent') = Len(sent) + 1 /\ SentKept
        /\ 1 <= Len(b) /\ \A i \in 1..Len(b) : b[i] = <<Len(sent'), i>>
        /\ Len(Flow') = Len(Flow) + Len(b)
        /\ \A i \in 1..Len(Flow) : Flow'[i] = Flow[i]
        /\ \A i \in 1..Len(b) : Flow'[Len(Flow) + i] = b[i]
        /\ UNCHANGED HandedOn
  BY <1>1 DEF FrameAdded
<1>3. PICK k \in Nat : k = Len(sent')
  BY <1>2, FlowOf DEF IndInv
<1>4. FramesIn(b) = <<k>>
  BY <1>2, <1>3, LenProperties, FramesOfOne
<1>5. PICK a \in Seq(Nat) : a = FramesIn(Flow) /\ FramesIn(Flow') = a \o <<k>>
  <2> DEFINE s == Flow
             w == Flow'
  <2>1. /\ s \in Seq(Byte) /\ w \in Seq(Byte) /\ Len(w) = Len(s) + Len(b)
        /\ \A i \in 1..Len(s) : w[i] = s[i]
        /\ \A i \in 1..Len(b) : w[Len(s) + i] = b[i]
    BY <1>1, <1>2 DEF IndInv, FlowInv
  <2> HIDE DEF s, w
  <2>2. FramesIn(s) \in Seq(Nat) /\ FramesIn(w) = FramesIn(s) \o FramesIn(b)
    BY <2>1, FramesJoined
  <2>3. QED
    BY <1>4, <2>2 DEF s, w
<1>6. Waiting = a /\ Waiting' = a \o <<k>>
  BY <1>5 DEF Waiting, Flow
<1>7. a \o <<k>> = Append(a, k)
  BY AppendIsConcat
<1>8. Broken => Broken'
  <2>1. UNCHANGED <<open, conn>>
    BY DEF PeerSends
  <2>2. \A i \in 1..Len(sent) : i \in 1..Len(sent') /\ sent'[i] = sent[i]
    BY <1>2, FlowOf DEF SentKept, IndInv
  <2>3. QED
    BY <2>1, <2>2 DEF Broken
<1>9. QED
  BY <1>2, <1>3, <1>6, <1>7, <1>8 DEF Stream!Send

\* What is cut off when a connection ends lies at the end of the stream.
LEMMA EndsImplements ==
  ASSUME IndInv, ConnectionEnds
  PROVE  Stream!Lose
<1>1. /\ IndInv' /\ UNCHANGED HandedOn
      /\ Len(Flow') <= Len(Flow) /\ \A i \in 1..Len(Flow') : Flow'[i] = Flow[i]
  BY EndsKeeps
<1>2. Broken' /\ UNCHANGED sent
  BY DEF ConnectionEnds, Broken
<1>3. /\ Flow \in Seq(Byte) /\ Flow' \in Seq(Byte)
      /\ Len(Flow) \in Nat /\ Len(Flow') \in Nat
  BY <1>1, LenProperties DEF IndInv, FlowInv
<1>4. PICK l \in Nat, c \in Seq(Byte) :
        /\ l = Len(Flow') /\ Len(Flow) = l + Len(c)
        /\ \A i \in 1..Len(c) : Flow[l + i] = c[i]
  <2> DEFINE m == Len(Flow) - Len(Flow')
             g == [i \in 1..m |-> Flow[Len(Flow') + i]]
  <2>1. m \in Nat /\ Len(Flow) = Len(Flow') + m
    BY <1>1, <1>3
  <2> HIDE DEF m
  <2>2. \A i \in 1..m : Len(Flow') + i \in 1..Len(Flow)
    BY <1>3, <2>1
  <2>3. \A i \in 1..m : Flow[Len(Flow') + i] \in Byte
    BY <1>3, <2>2, ElementOfSeq
  <2>4. g \in Seq(Byte) /\ Len(g) = m /\ \A i \in 1..m : g[i] = Flow[Len(Flow') + i]
    BY <2>1, <2>3
  <2> HIDE DEF g
  <2>5. QED
    BY <1>3, <2>1, <2>4
<1>5. PICK a \in Seq(Nat), b \in Seq(Nat) : a = FramesIn(Flow') /\ FramesIn(Flow) = a \o b
  <2> DEFINE s == Flow'
             w == Flow
  <2>1. /\ s \in Seq(Byte) /\ w \in Seq(Byte) /\ Len(w) = Len(s) + Len(c)
        /\ \A i \in 1..Len(s) : w[i] = s[i]
        /\ \A i \in 1..Len(c) : w[Len(s) + i] = c[i]
    BY <1>1, <1>3, <1>4
  <2> HIDE DEF s, w
  <2>2. /\ FramesIn(s) \in Seq(Nat) /\ FramesIn(c) \in Seq(Nat)
        /\ FramesIn(w) = FramesIn(s) \o FramesIn(c)
    BY <2>1, FramesJoined
  <2>3. QED
    BY <2>2 DEF s, w
<1>6. Waiting = a \o b /\ Waiting' = a
  BY <1>5 DEF Waiting, Flow
<1>7. PICK i \in 0..Len(a \o b), j \in 0..Len(a \o b) : a = SubSeq(a \o b, i + 1, j)
  BY LeadingPart
<1>8. QED
  BY <1>1, <1>2, <1>6, <1>7 DEF Stream!Lose

LEMMA StepImplements == IndInv /\ [Next]_vars => [Stream!Next]_(Stream!vars)
<1> SUFFICES ASSUME IndInv, [Next]_vars PROVE [Stream!Next]_(Stream!vars)
  OBVIOUS
<1>1. CASE Read \/ AwaitHeader \/ AwaitRest
  BY <1>1, ReadImplements
<1>2. CASE ReadFails
  BY <1>2, ReadFailsImplements DEF Stream!Next
<1>3. CASE Discard
  BY <1>3, DiscardImplements DEF Stream!Next
<1>4. CASE CutFrame
  BY <1>4, CutFrameImplements DEF Stream!Next
<1>5. CASE PeerSends
  BY <1>5, SendsImplements DEF Stream!Next
<1>6. CASE ConnectionEnds
  BY <1>6, EndsImplements DEF Stream!Next
<1>7. CASE UNCHANGED vars
  BY <1>7 DEF vars, Stream!vars, Waiting, Contents, HandedOn, FrameOf, Broken
<1>8. QED
  BY <1>1, <1>2, <1>3, <1>4, <1>5, <1>6, <1>7 DEF Next, ReadLoop, Stopped

\* Whatever the reads return, and wherever a connection ends, frames are handed on one
\* by one in the order they were sent, and are passed over only on a broken connection.
THEOREM ReadLoopReadsFrames == Spec => ReadsFrames
BY InitImplements, StepImplements, Invariance, PTL DEF Spec, ReadsFrames, Stream!Spec
=============================================================================
