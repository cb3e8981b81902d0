------------------------------- MODULE Framer -------------------------------
(***************************************************************************)
(* readLoop (conn/conn.go): how the bytes of a connection become frames.   *)
(* TcpConn takes from here that one read hands on the frames it completes, *)
(* in order; this module is about the bytes and the memory they lie in.    *)
(*                                                                         *)
(* collect is a slice of a backing array.  A frame that is complete is not *)
(* copied: what goes to rcvd_ch is a slice of the same array, which some   *)
(* worker decodes later, while readLoop goes on appending to collect.      *)
(*                                                                         *)
(* A cell stands for a byte: <<k, i>> is byte i of the k-th frame the peer *)
(* sent, and what the code reads at the start of collect (the version, the *)
(* length) is what that frame has there.  Lengths count the header, as in  *)
(* the protocol.  A byte that is not the first of a frame is taken not to  *)
(* be 1 where readLoop, out of step after a discard, looks for a version.  *)
(***************************************************************************)
EXTENDS Integers, FiniteSets, Sequences

CONSTANTS
  HeadLen,    \* bytes before the length can be trusted (20 in the code)
  MaxLen,     \* bound: bytes in a frame
  ReadMax,    \* bytes one Read returns at most (10^6 in the code)
  Capacity,   \* capacity collect is made with (10^7 in the code)
  MaxSpare,   \* bound: room append leaves when it has to move collect
  MaxFrames,  \* bound: frames the peer sends
  MaxConns    \* bound: connections

ASSUME FramerAssumption ==
  /\ HeadLen \in Nat \ {0} /\ MaxLen \in Nat /\ HeadLen <= MaxLen
  /\ ReadMax \in Nat \ {0}
  /\ Capacity \in Nat /\ MaxSpare \in Nat
  /\ MaxFrames \in Nat /\ MaxConns \in Nat \ {0}

Empty == <<0, 0>>  \* a byte of a new array

VARIABLES
  heap,     \* backing arrays, in the order they were made
  collect,  \* slice: array, offset, length
  parts,    \* slices put into rcvd_ch, in order
  phase,    \* read: at c.Conn.Read; parse: in the inner loop
  \* the network and the peer
  wire,     \* bytes sent on this connection and not read
  open,     \* whether the peer still sends on it
  sent,     \* frames sent: size, version, connection
  conn,     \* number of the connection
  \* history
  received  \* frames whose last byte has been read

vars == <<heap, collect, parts, phase, wire, open, sent, conn, received>>

Slice == [arr : Nat, off : Nat, len : Nat]

Contents(s) == SubSeq(heap[s.arr], s.off + 1, s.off + s.len)

Bytes(k) == [i \in 1..sent[k].size |-> <<k, i>>]

TypeOK ==
  /\ \A a \in 1..Len(heap) : \A i \in 1..Len(heap[a]) :
       heap[a][i] = Empty \/ heap[a][i] \in (1..MaxFrames) \X (1..MaxLen)
  /\ \A s \in {collect} \union {parts[i] : i \in 1..Len(parts)} :
       /\ s \in Slice
       /\ s.arr \in 1..Len(heap)
       /\ s.off + s.len <= Len(heap[s.arr])
  /\ phase \in {"read", "parse"}
  /\ open \in BOOLEAN
  /\ conn \in 1..MaxConns
  /\ Len(sent) <= MaxFrames
  /\ received \subseteq 1..Len(sent)

NewArray(n) == [i \in 1..n |-> Empty]

Init ==
  /\ heap = <<NewArray(Capacity)>>
  /\ collect = [arr |-> 1, off |-> 0, len |-> 0]
  /\ parts = <<>>
  /\ phase = "read"
  /\ wire = <<>>
  /\ open = TRUE
  /\ sent = <<>>
  /\ conn = 1
  /\ received = {}

-----------------------------------------------------------------------------
\* collect = append(collect, bufferb[0:nr]...): into the array if it has room,
\* else into a new one; the old array stays with the parts cut from it.
Appended(bytes) ==
  LET a    == heap[collect.arr]
      end  == collect.off + collect.len
      n    == Len(bytes)
  IN  IF end + n <= Len(a)
      THEN /\ heap' = [heap EXCEPT ![collect.arr] =
                         [i \in 1..Len(a) |-> IF i \in (end + 1)..(end + n)
                                              THEN bytes[i - end] ELSE a[i]]]
           /\ collect' = [collect EXCEPT !.len = @ + n]
      ELSE \E spare \in 0..MaxSpare :
             /\ heap' = Append(heap, Contents(collect) \o bytes \o NewArray(spare))
             /\ collect' = [arr |-> Len(heap) + 1, off |-> 0, len |-> collect.len + n]

Read ==
  /\ phase = "read"
  /\ \E n \in 1..ReadMax :
       /\ n <= Len(wire)
       /\ Appended(SubSeq(wire, 1, n))
       /\ wire' = SubSeq(wire, n + 1, Len(wire))
       /\ received' = received \union
            {k \in 1..Len(sent) : \E i \in 1..n : wire[i] = <<k, sent[k].size>>}
  /\ phase' = "parse"
  /\ UNCHANGED <<parts, open, sent, conn>>

\* Read fails; init connects again and readLoop starts with a new collect.
ReadFails ==
  /\ phase = "read"
  /\ ~open /\ wire = <<>>
  /\ conn < MaxConns
  /\ heap' = Append(heap, NewArray(Capacity))
  /\ collect' = [arr |-> Len(heap) + 1, off |-> 0, len |-> 0]
  /\ conn' = conn + 1
  /\ open' = TRUE
  /\ UNCHANGED <<parts, phase, wire, sent, received>>

First == heap[collect.arr][collect.off + 1]

\* The version and the length in the header at the start of collect.
Version == IF First[2] = 1 THEN sent[First[1]].version ELSE 0
Length  == sent[First[1]].size

\* Nothing to cut off: collect is shorter than a header.
AwaitHeader ==
  /\ phase = "parse"
  /\ collect.len < HeadLen
  /\ phase' = "read"
  /\ UNCHANGED <<heap, collect, parts, wire, open, sent, conn, received>>

\* Version is not 1: collect = collect[0:0], complete frames after it included.
Discard ==
  /\ phase = "parse"
  /\ collect.len >= HeadLen
  /\ Version # 1
  /\ collect' = [collect EXCEPT !.len = 0]
  /\ phase' = "read"
  /\ UNCHANGED <<heap, parts, wire, open, sent, conn, received>>

Incomplete ==
  /\ phase = "parse"
  /\ collect.len >= HeadLen
  /\ Version = 1
  /\ collect.len < Length

\* Fault: continue in place of break.
AwaitRestSpins == Incomplete /\ UNCHANGED vars

\* The frame is not complete.
AwaitRest ==
  /\ Incomplete
  /\ phase' = "read"
  /\ UNCHANGED <<heap, collect, parts, wire, open, sent, conn, received>>

\* A whole frame lies at the start of collect.
Complete ==
  /\ phase = "parse"
  /\ collect.len >= HeadLen
  /\ Version = 1
  /\ collect.len >= Length

\* What is left of collect behind the frame.
Behind == [collect EXCEPT !.off = @ + Length, !.len = @ - Length]

\* c_part := collect[0:c_length]; rcvd_ch <- c_part
HandOn(rest) ==
  /\ parts' = Append(parts, [collect EXCEPT !.len = Length])
  /\ collect' = rest
  /\ UNCHANGED <<heap, wire, open, sent, conn, received>>

\* Fault: the room of a frame is reused as soon as nothing is left after it.
CutFrameAndRewind ==
  /\ Complete
  /\ HandOn(IF collect.len = Length THEN [collect EXCEPT !.len = 0] ELSE Behind)
  /\ UNCHANGED phase

\* Fault: one frame for each read.
CutFrameOnce == Complete /\ HandOn(Behind) /\ phase' = "read"

\* Fault: the frame may be one byte short.
CutFrameEarly ==
  /\ phase = "parse" /\ collect.len >= HeadLen /\ Version = 1
  /\ collect.len >= Length - 1
  /\ HandOn(Behind)
  /\ UNCHANGED phase

\* Fault: a frame of no more than a header is passed over.
CutFrameOrSkip ==
  /\ Complete
  /\ IF Length > HeadLen THEN HandOn(Behind)
     ELSE collect' = Behind /\ UNCHANGED <<heap, parts, wire, open, sent, conn, received>>
  /\ UNCHANGED phase

\* collect = collect[c_length:], and the loop goes on with what is left.
CutFrame == Complete /\ HandOn(Behind) /\ UNCHANGED phase

-----------------------------------------------------------------------------
\* The peer sends a frame, of version 1 or of another.
PeerSends ==
  /\ open
  /\ Len(sent) < MaxFrames
  /\ \E size \in HeadLen..MaxLen, version \in {1, 2} :
       /\ sent' = Append(sent, [size |-> size, version |-> version, conn |-> conn])
       /\ wire' = wire \o [i \in 1..size |-> <<Len(sent) + 1, i>>]
  /\ UNCHANGED <<heap, collect, parts, phase, open, conn, received>>

\* The connection ends, in the middle of a frame perhaps.
ConnectionEnds ==
  /\ open
  /\ open' = FALSE
  /\ \E n \in 0..Len(wire) : wire' = SubSeq(wire, 1, n)
  /\ UNCHANGED <<heap, collect, parts, phase, sent, conn, received>>

Stopped ==
  /\ phase = "read" /\ wire = <<>>
  /\ Len(sent) = MaxFrames \/ (~open /\ conn = MaxConns)
  /\ UNCHANGED vars

ReadLoop == Read \/ ReadFails \/ AwaitHeader \/ Discard \/ AwaitRest \/ CutFrame

Next == ReadLoop \/ PeerSends \/ ConnectionEnds \/ Stopped

Spec == Init /\ [][Next]_vars

\* The goroutine that runs readLoop gets to run; rcvd_ch is taken to have room again
\* and again, which EverythingDrains of DiamConn is about.
FairSpec == Spec /\ WF_vars(ReadLoop)

-----------------------------------------------------------------------------
\* The frame a part begins with.
FrameOf(p) == Contents(p)[1][1]

\* What a worker finds in a part, however late it looks, is exactly one frame as
\* the peer sent it: appending to collect never writes into a part that has been
\* cut off, and no frame is put together from two connections.
PartsIntact ==
  \A i \in 1..Len(parts) : Contents(parts[i]) = Bytes(FrameOf(parts[i]))

HandedOn == {FrameOf(parts[i]) : i \in 1..Len(parts)}

\* The connection has ended, or a frame of another version was sent on it.
Broken == ~open \/ \E k \in 1..Len(sent) : sent[k].conn = conn /\ sent[k].version # 1

\* The places in a stream of bytes where frames begin, the n-th of them, and the
\* frames that do, in that order.
Begins(s)   == {i \in 1..Len(s) : s[i][2] = 1}
Begin(s, n) == CHOOSE i \in Begins(s) : Cardinality({j \in Begins(s) : j <= i}) = n
FramesIn(s) == [n \in 1..Cardinality(Begins(s)) |-> s[Begin(s, n)][1]]

\* The frames whose first byte has neither been cut off nor thrown away.
Waiting == FramesIn(Contents(collect) \o wire)

Stream == INSTANCE Intake WITH
  sent <- Len(sent), waiting <- Waiting, handed <- HandedOn, broken <- Broken

\* readLoop is a reader of frames: whatever the reads return, frames are handed
\* on one by one as they were sent, each as often as it was sent, and none is
\* passed over on a connection that is not broken.
ReadsFrames == Stream!Spec

\* No frame is left lying in collect: on a connection that stays in order every
\* frame that is sent is handed on, with no further frame needed to push it out.
EveryFrameHandedOn ==
  \A k \in 1..MaxFrames, c \in 1..MaxConns :
    (k <= Len(sent) /\ sent[k].conn = c) ~> (k \in HandedOn \/ Broken \/ conn > c)

\* readLoop goes back to Read only when it needs more bytes: every frame read to
\* its end has been handed on, unless it or an earlier frame of the same
\* connection has another version and made readLoop discard what it had.
ReadsOnlyForMore ==
  phase = "read" =>
    \A k \in received :
      \/ \E i \in 1..Len(parts) : FrameOf(parts[i]) = k
      \/ \E b \in 1..k : sent[b].conn = sent[k].conn /\ sent[b].version # 1
=============================================================================
