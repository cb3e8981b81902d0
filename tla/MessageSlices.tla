---------------------------- MODULE MessageSlices ----------------------------
(***************************************************************************)
(* Which messages share memory (diam/message.go).  The AVPs of a message   *)
(* are a slice: an array and a length.  Copying a message, making one of a *)
(* list of AVPs and sending one copy the slice, not the array; append, and *)
(* so AddAVPs_Head and AddAVPs_Tail, writes into the array of its first    *)
(* argument if there is room; FindAVP returns a pointer into the array.    *)
(*                                                                         *)
(* The application has variables for messages and for lists of AVPs; the   *)
(* workers of DiamConn take messages and encode them AVP by AVP while the  *)
(* application goes on.  meant is what an application that takes messages  *)
(* and lists for values believes its variables to hold.  An AVP is a       *)
(* number; the AVPs inside a group are not modelled.                       *)
(***************************************************************************)
EXTENDS Integers, Sequences, SequencesExt

CONSTANTS
  Messages,  \* variables of type Message
  Lists,     \* variables of type []AVP
  Workers,   \* goroutines that encode
  MaxSpare,  \* bound: room left in a new array
  MaxOps     \* bound: calls of the application

ASSUME MessageSlicesAssumption == Messages \intersect Lists = {} /\ MaxSpare \in Nat

Variables == Messages \union Lists
None == "none"

VARIABLES
  heap,    \* the arrays, each as long as its capacity
  slice,   \* variable -> its array and length; a slice starts with its array
  pointer, \* what FindAVP returned last
  job,     \* worker -> the message it is encoding
  ops,     \* calls the application has made
  \* history
  meant,   \* variable -> the AVPs it is believed to hold
  unsure   \* variables that may share, or were changed through an old pointer

vars == <<heap, slice, pointer, job, ops, meant, unsure>>

NoPointer == [arr |-> 0, i |-> 0, of |-> None, at |-> 0, fresh |-> FALSE]
NoJob     == [of |-> None, slice |-> [arr |-> 0, len |-> 0], out |-> <<>>,
              meant |-> <<>>, sure |-> FALSE]

Contents(s) == SubSeq(heap[s.arr], 1, s.len)
Room(s) == Len(heap[s.arr]) - s.len

Init ==
  /\ heap = <<>>
  /\ slice = [v \in Variables |-> [arr |-> 0, len |-> 0]]
  /\ pointer = NoPointer
  /\ job = [w \in Workers |-> NoJob]
  /\ ops = 0
  /\ meant = [v \in Variables |-> <<>>]
  /\ unsure = {}

-----------------------------------------------------------------------------
(***************************************************************************)
(* The application.                                                        *)
(***************************************************************************)
Made(v) == slice[v].arr # 0

Call ==
  /\ ops < MaxOps
  /\ ops' = ops + 1

\* v has another slice: pointers into the old one are old.
Assigned(v, s, avps) ==
  /\ slice' = [slice EXCEPT ![v] = s]
  /\ meant' = [meant EXCEPT ![v] = avps]
  /\ pointer' = [pointer EXCEPT !.fresh = @ /\ pointer.of # v]
  /\ UNCHANGED job

Allocated(v, avps, believed) ==
  /\ \E spare \in 0..MaxSpare :
       heap' = Append(heap, avps \o [i \in 1..spare |-> 0])
  /\ Assigned(v, [arr |-> Len(heap) + 1, len |-> Len(avps)], believed)

\* v = a message or a list with an array of its own: FillTemplate, Decode, a
\* literal, a list put together with append.  Every call makes another AVP.
New(v) ==
  /\ Call
  /\ Allocated(v, <<ops + 1>>, <<ops + 1>>)
  /\ unsure' = unsure \ {v}

\* m := k for messages, m := GenMess(..., l) for a list: the array is shared.
Share(m, v) ==
  /\ Call
  /\ Made(v)
  /\ Assigned(m, slice[v], meant[v])
  /\ unsure' = unsure \union {m, v}
  /\ UNCHANGED heap

GenMess(m, l) == Share(m, l)
Assign(m, k) == m # k /\ Share(m, k)

\* v = append(first, avps...), to be read as the value believed.
AppendTo(v, first, avps, believed) ==
  IF Len(avps) <= Room(first)
  THEN /\ heap' = [heap EXCEPT ![first.arr] =
                     SubSeq(@, 1, first.len) \o avps
                       \o SubSeq(@, first.len + Len(avps) + 1, Len(@))]
       /\ Assigned(v, [arr |-> first.arr, len |-> first.len + Len(avps)], believed)
  ELSE Allocated(v, Contents(first) \o avps, believed)

\* d.avps = append(d.avps, n_avp...)
AddAVPs_Tail(m, l) ==
  /\ Call
  /\ Made(m) /\ Made(l)
  /\ AppendTo(m, slice[m], Contents(slice[l]), meant[m] \o meant[l])
  /\ unsure' = unsure \union (IF l \in unsure THEN {m} ELSE {})

\* Fault: the AVPs are moved up and the new ones put before them in the array of
\* the message, if that has room.
AddAVPs_HeadInPlace(m, l) ==
  /\ Call
  /\ Made(m) /\ Made(l)
  /\ LET avps == Contents(slice[l]) \o Contents(slice[m])
     IN  AppendTo(m, [slice[m] EXCEPT !.len = 0], avps, meant[l] \o meant[m])
  /\ unsure' = unsure \union (IF l \in unsure THEN {m} ELSE {})

\* d.avps = append(n_avp, d.avps...): with room in the array of the list, the
\* message and the list share it from now on.
AddAVPs_Head(m, l) ==
  /\ Call
  /\ Made(m) /\ Made(l)
  /\ AppendTo(m, slice[l], Contents(slice[m]), meant[l] \o meant[m])
  /\ unsure' = unsure \union (IF l \in unsure THEN {m} ELSE {})
                      \union (IF slice[m].len <= Room(slice[l]) THEN {m, l} ELSE {})

\* Fault: the loop is over copies of the AVPs, for _, v := range d.avps.
FindAVPCopy(m, i) ==
  /\ Call
  /\ i <= slice[m].len
  /\ heap' = Append(heap, <<heap[slice[m].arr][i]>>)
  /\ pointer' = [arr |-> Len(heap) + 1, i |-> 1, of |-> m, at |-> i, fresh |-> TRUE]
  /\ UNCHANGED <<slice, job, meant, unsure>>

\* FindAVP and FindAVPs: the address of the i-th AVP of m.
FindAVP(m, i) ==
  /\ Call
  /\ i <= slice[m].len
  /\ pointer' = [arr |-> slice[m].arr, i |-> i, of |-> m, at |-> i, fresh |-> TRUE]
  /\ UNCHANGED <<heap, slice, job, meant, unsure>>

\* SetIntValue on what was found.  A message that has not changed its slice since
\* is believed to have changed there; of others nothing is believed any more.
SetIntValue ==
  LET m == pointer.of
  IN  /\ Call
      /\ m # None
      /\ heap' = [heap EXCEPT ![pointer.arr][pointer.i] = ops + 1]
      /\ meant' = IF pointer.fresh THEN [meant EXCEPT ![m][pointer.at] = ops + 1] ELSE meant
      /\ unsure' = IF pointer.fresh THEN unsure ELSE unsure \union {m}
      /\ job' = [w \in Workers |->
                   [job[w] EXCEPT !.sure = /\ @ /\ job[w].of # m
                                           /\ pointer.fresh /\ m \notin unsure]]
      /\ UNCHANGED <<slice, pointer>>

-----------------------------------------------------------------------------
(***************************************************************************)
(* Workers.                                                                *)
(***************************************************************************)
\* send_mess_ch <- m, received by worker w: the message is copied, and its slice.
Send(m, w) ==
  /\ Call
  /\ Made(m)
  /\ job[w].of = None
  /\ job' = [job EXCEPT ![w] = [of |-> m, slice |-> slice[m], out |-> <<>>,
                                meant |-> meant[m], sure |-> m \notin unsure]]
  /\ UNCHANGED <<heap, slice, pointer, meant, unsure>>

\* for _, v := range d.avps: one AVP is read.
EncodeNext(w) ==
  LET n == Len(job[w].out) + 1
  IN  /\ n <= job[w].slice.len
      /\ job' = [job EXCEPT ![w].out = Append(@, heap[job[w].slice.arr][n])]
      /\ UNCHANGED <<heap, slice, pointer, ops, meant, unsure>>

\* Encode returns; the worker goes on to write_tcp_ch and to its select.
Encoded(w) ==
  /\ job[w].of # None
  /\ Len(job[w].out) = job[w].slice.len
  /\ job' = [job EXCEPT ![w] = NoJob]
  /\ UNCHANGED <<heap, slice, pointer, ops, meant, unsure>>

Application ==
  \/ \E v \in Variables : New(v)
  \/ \E m \in Messages, k \in Messages : Assign(m, k)
  \/ \E m \in Messages, l \in Lists :
       GenMess(m, l) \/ AddAVPs_Tail(m, l) \/ AddAVPs_Head(m, l)
  \/ \E m \in Messages : \E i \in 1..slice[m].len : FindAVP(m, i)
  \/ SetIntValue

Next ==
  \/ Application
  \/ \E w \in Workers : (\E m \in Messages : Send(m, w)) \/ EncodeNext(w) \/ Encoded(w)

Spec == Init /\ [][Next]_vars

-----------------------------------------------------------------------------
\* What a worker writes is the message as it was when it was sent, whatever is
\* added to the variable afterwards and wherever that is put, while the worker
\* encodes it: as long as the message shared nothing with another variable when it
\* was sent, and after that neither it nor one that shares is changed through a
\* pointer of FindAVP, nor anything through an old one.
EncodedAsSent ==
  \A w \in Workers : job[w].sure =>
    /\ job[w].slice.len = Len(job[w].meant)
    /\ job[w].out = SubSeq(job[w].meant, 1, Len(job[w].out))

\* Messages and lists can be taken for values: each holds what was put into it, at
\* its place, with what was changed through a pointer to it, and nothing of what
\* was done to others, until it is copied or made of a list that is used again.
OwnContents ==
  \A v \in Variables \ unsure : Made(v) => Contents(slice[v]) = meant[v]
=============================================================================
