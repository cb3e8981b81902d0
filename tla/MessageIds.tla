----------------------------- MODULE MessageIds -----------------------------
(***************************************************************************)
(* The hop-by-hop and end-to-end identifiers of the messages a connection  *)
(* sends (conn/diamconn.go).  The workers of DiamConn share two counters   *)
(* of 32 bits.  next_h_by_h and next_e_to_e increment one and return it    *)
(* without a lock: each is a load, a store and, after the call of the      *)
(* logger, a second load, and the steps of several workers interleave.     *)
(*                                                                         *)
(* A message of the application keeps an identifier it brings along; 0     *)
(* stands for "not set".  A CER always gets two new ones.                  *)
(***************************************************************************)
EXTENDS Integers, FiniteSets

CONSTANTS
  Workers,    \* the goroutines of DiamConn.Start
  IdMod,      \* 2^32 in the code
  OwnIds,     \* identifiers the application sets (0: none)
  MaxMessages \* bound: messages made in a behaviour

ASSUME MessageIdsAssumption ==
  /\ IdMod \in Nat \ {0}
  /\ OwnIds \subseteq 0..(IdMod - 1)
  /\ MaxMessages \in Nat

Fields == {"hop_by_hop", "end_to_end"}
Ids == 0..(IdMod - 1)

VARIABLES
  counter,    \* [field -> c.hop_by_hop or c.end_to_end]
  start,      \* what init drew for them
  pc,         \* idle, hop_by_hop, end_to_end: the field being settled
  sub,        \* start, store, reload: the step of the counter's increment
  tmp,        \* the value the increment loaded, plus one
  mess,       \* identifiers of the message in hand
  \* history
  made,       \* messages begun
  begun,      \* [field -> calls of its next_... begun]
  overlapped, \* fields on which two calls have been under way at once
  given       \* [field -> identifiers handed out, with a serial number]

vars == <<counter, start, pc, sub, tmp, mess, made, begun, overlapped, given>>

TypeOK ==
  /\ counter \in [Fields -> Ids]
  /\ start \in [Fields -> Ids]
  /\ pc \in [Workers -> Fields \union {"idle"}]
  /\ sub \in [Workers -> {"start", "store", "reload"}]
  /\ tmp \in [Workers -> Ids]
  /\ mess \in [Workers -> [Fields -> Ids]]
  /\ made \in 0..MaxMessages
  /\ begun \in [Fields -> 0..MaxMessages]
  /\ overlapped \subseteq Fields
  /\ given \in [Fields -> SUBSET (Ids \X (1..MaxMessages))]

Init ==
  /\ start \in [Fields -> Ids]
  /\ counter = start
  /\ pc = [w \in Workers |-> "idle"]
  /\ sub = [w \in Workers |-> "start"]
  /\ tmp = [w \in Workers |-> 0]
  /\ mess = [w \in Workers |-> [f \in Fields |-> 0]]
  /\ made = 0
  /\ begun = [f \in Fields |-> 0]
  /\ overlapped = {}
  /\ given = [f \in Fields |-> {}]

UnderWay(f) == {w \in Workers : pc[w] = f /\ sub[w] # "start"}

\* msg_to_send := <-c.send_mess_ch, with whatever identifiers it has.
TakeSend(w) ==
  /\ pc[w] = "idle"
  /\ made < MaxMessages
  /\ \E h, e \in OwnIds :
       mess' = [mess EXCEPT ![w] = [hop_by_hop |-> h, end_to_end |-> e]]
  /\ pc' = [pc EXCEPT ![w] = "hop_by_hop"]
  /\ made' = made + 1
  /\ UNCHANGED <<counter, start, sub, tmp, begun, overlapped, given>>

\* createCER: both identifiers are new, the hop-by-hop one first.
TakeCER(w) ==
  /\ pc[w] = "idle"
  /\ made < MaxMessages
  /\ mess' = [mess EXCEPT ![w] = [f \in Fields |-> 0]]
  /\ pc' = [pc EXCEPT ![w] = "hop_by_hop"]
  /\ made' = made + 1
  /\ UNCHANGED <<counter, start, sub, tmp, begun, overlapped, given>>

\* The worker is done with field f of its message.
Settled(w, f) ==
  pc' = [pc EXCEPT ![w] = IF f = "hop_by_hop" THEN "end_to_end" ELSE "idle"]

\* The message brings its own identifier.
Keep(w, f) ==
  /\ pc[w] = f /\ sub[w] = "start"
  /\ mess[w][f] # 0
  /\ Settled(w, f)
  /\ UNCHANGED <<counter, start, sub, tmp, mess, made, begun, overlapped, given>>

\* A call begins, and will store n.
Begin(w, f, n) ==
  /\ pc[w] = f /\ sub[w] = "start"
  /\ mess[w][f] = 0
  /\ tmp' = [tmp EXCEPT ![w] = n]
  /\ sub' = [sub EXCEPT ![w] = "store"]
  /\ begun' = [begun EXCEPT ![f] = @ + 1]
  /\ overlapped' = IF UnderWay(f) = {} THEN overlapped ELSE overlapped \union {f}
  /\ UNCHANGED <<counter, start, pc, mess, made, given>>

\* Fault: the counter is wider than 32 bits.
LoadWide(w, f) == Begin(w, f, counter[f] + 1)

\* Fault: a value receiver, each call increments a copy of what init drew.
LoadFromStart(w, f) == Begin(w, f, (start[f] + 1) % IdMod)

\* The increment's load of the counter.
Load(w, f) == Begin(w, f, (counter[f] + 1) % IdMod)

StoreTo(w, f, field) ==
  /\ pc[w] = f /\ sub[w] = "store"
  /\ counter' = [counter EXCEPT ![field] = tmp[w]]
  /\ sub' = [sub EXCEPT ![w] = "reload"]
  /\ UNCHANGED <<start, pc, tmp, mess, made, begun, overlapped, given>>

\* Fault: the two counters are mixed up.
StoreOther(w, f) == StoreTo(w, f, "hop_by_hop")

\* Its store.
Store(w, f) == StoreTo(w, f, f)

\* The load of the return statement.
Reload(w, f) ==
  /\ pc[w] = f /\ sub[w] = "reload"
  /\ mess' = [mess EXCEPT ![w][f] = counter[f]]
  /\ given' = [given EXCEPT ![f] = @ \union {<<counter[f], Cardinality(@) + 1>>}]
  /\ sub' = [sub EXCEPT ![w] = "start"]
  /\ Settled(w, f)
  /\ UNCHANGED <<counter, start, tmp, made, begun, overlapped>>

Settle(w, f) == Keep(w, f) \/ Load(w, f) \/ Store(w, f) \/ Reload(w, f)

Idle ==
  /\ made = MaxMessages
  /\ \A w \in Workers : pc[w] = "idle"
  /\ UNCHANGED vars

Next ==
  \/ \E w \in Workers : TakeSend(w) \/ TakeCER(w) \/ \E f \in Fields : Settle(w, f)
  \/ Idle

Spec == Init /\ [][Next]_vars

-----------------------------------------------------------------------------
\* As long as no two calls of next_h_by_h (of next_e_to_e) have overlapped, no
\* identifier is handed out twice within the range of the counter: this is what
\* the matching of answers to requests rests on.  The two counters are
\* independent: calls that overlap on one do not disturb the other.
DistinctUnlessOverlapped ==
  \A f \in Fields \ overlapped : \A p, q \in given[f] :
    p # q => p[1] # q[1] \/ p[2] - q[2] >= IdMod \/ q[2] - p[2] >= IdMod

\* Calls that overlap may repeat identifiers and set the counter back, but every
\* identifier still lies in the window of the calls begun: none is invented, and
\* before the window has run over the whole range none is the initial draw.
InWindow ==
  \A f \in Fields : \A p \in given[f] :
    \E k \in 1..begun[f] : p[1] = (start[f] + k) % IdMod
=============================================================================
