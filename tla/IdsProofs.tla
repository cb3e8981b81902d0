------------------------------ MODULE IdsProofs ------------------------------
(***************************************************************************)
(* Proofs about what a connection counts: SessionIds for any set of        *)
(* callers and any width of the counter, MessageIds for any set of workers *)
(* and any width of the counters.  The two are independent of each other.  *)
(***************************************************************************)
EXTENDS SessionIds, MessageIds, Numbers, FiniteSetTheorems

-----------------------------------------------------------------------------
(***************************************************************************)
(* Session-Ids.                                                            *)
(***************************************************************************)
Inside(g) == call_pc[g] \in {"increment", "copy", "unlock"}

\* The call of g has its number.
Counted(g) == call_pc[g] \in {"copy", "unlock", "return"}

\* mtx protects run_ind: one caller at a time between Lock and Unlock.
Exclusion ==
  /\ \A g \in Callers : Inside(g) <=> mtx = g
  /\ \A g \in Callers : call_pc[g] = "increment" => count < MaxIds

\* What each caller holds is the value of the counter after its increment.
CounterInv ==
  /\ run_ind = count % RunMod
  /\ \A g \in Callers :
       /\ Counted(g) => nth[g] \in 1..count
       /\ call_pc[g] = "copy" => nth[g] = count
       /\ call_pc[g] \in {"unlock", "return"} => c_run[g] = nth[g] % RunMod
  /\ \A g, h \in Callers : Counted(g) /\ Counted(h) /\ g # h => nth[g] # nth[h]

\* An id is determined by the life of the process and its number there.
IssuedInv ==
  /\ \A a \in issued :
       /\ a.instance <= instance
       /\ a.run = a.nth % RunMod
       /\ a.instance = instance =>
            /\ a.nth <= count
            /\ a.start = start_time
            /\ \A g \in Callers : Counted(g) => a.nth # nth[g]
  /\ \A a, b \in issued : a.instance = b.instance /\ a.nth = b.nth => a = b

SessionInv == SessionTypeOK /\ Exclusion /\ CounterInv /\ IssuedInv

\* The inductive invariant holds when a connection is made.
LEMMA SessionInitInv == SessionInit => SessionInv
<1> SUFFICES ASSUME SessionInit PROVE SessionInv
  OBVIOUS
<1> USE SessionIdsAssumption, FreeIsNoCaller DEF SessionInit
<1>1. SessionTypeOK
  BY DEF SessionTypeOK
<1>2. Exclusion
  BY DEF Exclusion, Inside
<1>3. CounterInv
  BY RemainderUnique DEF CounterInv, Counted
<1>4. IssuedInv
  BY DEF IssuedInv
<1>5. QED
  BY <1>1, <1>2, <1>3, <1>4 DEF SessionInv

\* No step of a caller and no restart breaks it.
LEMMA SessionStepKeepsInv == SessionInv /\ [SessionNext]_sessionVars => SessionInv'
<1> SUFFICES ASSUME SessionInv, [SessionNext]_sessionVars PROVE SessionInv'
  OBVIOUS
<1> USE SessionIdsAssumption, FreeIsNoCaller DEF SessionInv, Inside, Counted
<1>1. ASSUME NEW g \in Callers, Lock(g) PROVE SessionInv'
  <2> USE <1>1 DEF Lock
  <2>1. SessionTypeOK'
    BY SMT DEF SessionTypeOK, CounterInv
  <2>2. Exclusion'
    BY DEF Exclusion, SessionTypeOK
  <2>3. CounterInv'
    BY SMT DEF CounterInv, SessionTypeOK, Exclusion
  <2>4. IssuedInv'
    BY DEF IssuedInv, SessionTypeOK, CounterInv
  <2>5. QED
    BY <2>1, <2>2, <2>3, <2>4
<1>2. ASSUME NEW g \in Callers, Increment(g) PROVE SessionInv'
  <2> USE <1>2 DEF Increment
  <2>0. (count + 1) % RunMod = run_ind' /\ count < MaxIds /\ run_ind' \in 0..(RunMod - 1)
    <3>1. count \in Nat /\ count + 1 \in Nat /\ count < MaxIds
      BY DEF SessionTypeOK, Exclusion
    <3>2. ((count % RunMod) + 1) % RunMod = (count + 1) % RunMod
      BY <3>1, ModSuccessor
    <3>3. (count + 1) % RunMod \in 0..(RunMod - 1)
      BY <3>1, Division
    <3>4. QED
      BY <3>1, <3>2, <3>3 DEF CounterInv
  <2>1. SessionTypeOK'
    BY <2>0, SMT DEF SessionTypeOK, CounterInv
  <2>2. Exclusion'
    BY DEF Exclusion, SessionTypeOK
  <2>3. CounterInv'
    BY <2>0, SMT DEF CounterInv, SessionTypeOK, Exclusion
  <2>4. IssuedInv'
    BY <2>0, SMT DEF IssuedInv, SessionTypeOK, Id
  <2>5. QED
    BY <2>1, <2>2, <2>3, <2>4
<1>3. ASSUME NEW g \in Callers, Copy(g) PROVE SessionInv'
  <2> USE <1>3 DEF Copy
  <2>1. SessionTypeOK'
    BY SMT DEF SessionTypeOK, CounterInv
  <2>2. Exclusion'
    BY DEF Exclusion, SessionTypeOK
  <2>3. CounterInv'
    BY SMT DEF CounterInv, SessionTypeOK, Exclusion
  <2>4. IssuedInv'
    BY DEF IssuedInv, SessionTypeOK, CounterInv
  <2>5. QED
    BY <2>1, <2>2, <2>3, <2>4
<1>4. ASSUME NEW g \in Callers, Unlock(g) PROVE SessionInv'
  <2> USE <1>4 DEF Unlock
  <2>1. SessionTypeOK'
    BY SMT DEF SessionTypeOK, CounterInv
  <2>2. Exclusion'
    BY DEF Exclusion, SessionTypeOK
  <2>3. CounterInv'
    BY SMT DEF CounterInv, SessionTypeOK, Exclusion
  <2>4. IssuedInv'
    BY DEF IssuedInv, SessionTypeOK, CounterInv
  <2>5. QED
    BY <2>1, <2>2, <2>3, <2>4
<1>5. ASSUME NEW g \in Callers, Return(g) PROVE SessionInv'
  <2> USE <1>5 DEF Return
  <2>0. [instance |-> instance, nth |-> nth[g], start |-> start_time, run |-> c_run[g]] \in Id
    BY SMT DEF SessionTypeOK, CounterInv, Id
  <2>1. SessionTypeOK'
    BY <2>0 DEF SessionTypeOK
  <2>2. Exclusion'
    BY DEF Exclusion, SessionTypeOK
  <2>3. CounterInv'
    BY SMT DEF CounterInv, SessionTypeOK, Exclusion
  <2>4. IssuedInv'
    BY DEF IssuedInv, SessionTypeOK, CounterInv
  <2>5. QED
    BY <2>1, <2>2, <2>3, <2>4
<1>6. CASE Restart
  <2> USE <1>6 DEF Restart
  <2>1. SessionTypeOK'
    BY DEF SessionTypeOK
  <2>2. Exclusion'
    BY DEF Exclusion
  <2>3. CounterInv'
    BY RemainderUnique DEF CounterInv
  <2>4. IssuedInv'
    BY DEF IssuedInv, SessionTypeOK, Id
  <2>5. QED
    BY <2>1, <2>2, <2>3, <2>4
<1>7. CASE UNCHANGED sessionVars
  BY <1>7 DEF sessionVars, SessionTypeOK, Exclusion, CounterInv, IssuedInv
<1>8. QED
  BY <1>1, <1>2, <1>3, <1>4, <1>5, <1>6, <1>7 DEF SessionNext, Call, AllCallsMade

\* The inductive invariant behind the theorem below holds throughout.
THEOREM SessionInvariance == SessionSpec => []SessionInv
  BY SessionInitInv, SessionStepKeepsInv, PTL DEF SessionSpec

\* The counter stays in its range, and what is issued is an id, for any callers
\* and any width of the counter.
THEOREM SessionTypeCorrect == SessionSpec => []SessionTypeOK
<1>1. SessionInv => SessionTypeOK
  BY DEF SessionInv
<1>2. QED
  BY <1>1, SessionInvariance, PTL

\* Whatever the number of callers, one life of the process repeats a Session-Id
\* only after the whole range of the counter.
THEOREM SessionIdsUnique == SessionSpec => []SessionIdsDistinct
<1>1. SessionInv => SessionIdsDistinct
  <2> SUFFICES ASSUME SessionInv, NEW a \in issued, NEW b \in issued, a # b,
                      a.instance = b.instance, a.run = b.run
               PROVE  a.nth - b.nth >= RunMod \/ b.nth - a.nth >= RunMod
    BY DEF SessionIdsDistinct
  <2>1. a.nth \in Nat /\ b.nth \in Nat /\ a.nth # b.nth /\ a.nth % RunMod = b.nth % RunMod
    BY DEF SessionInv, IssuedInv, SessionTypeOK, Id
  <2>2. QED
    BY <2>1, ModGap, SessionIdsAssumption
<1>2. QED
  BY <1>1, SessionInvariance, PTL

-----------------------------------------------------------------------------
(***************************************************************************)
(* Hop-by-hop and end-to-end identifiers.                                  *)
(***************************************************************************)
\* Workers that have a message in hand and may still call next_... for field f.
Before(f) ==
  {w \in Workers : \/ pc[w] = f /\ sub[w] = "start"
                   \/ f = "end_to_end" /\ pc[w] = "hop_by_hop"}

\* A worker is inside a call only while it settles a field.
PcInv == \A w \in Workers : sub[w] # "start" => pc[w] \in Fields

\* Each message made needs at most one identifier of each kind, and a call that has
\* begun has handed one out or is under way.
CountInv ==
  \A f \in Fields :
    /\ IsFiniteSet(Before(f)) /\ IsFiniteSet(UnderWay(f)) /\ IsFiniteSet(given[f])
    /\ begun[f] + Cardinality(Before(f)) <= made
    /\ Cardinality(given[f]) + Cardinality(UnderWay(f)) = begun[f]
    /\ \A p \in given[f] : p[2] <= Cardinality(given[f])

\* The identifier the k-th call would hand out if no calls overlapped.
Nth(f, k) == (start[f] + k) % IdMod

\* A counter, and what a call is about to store into it, is the start plus some number
\* of the calls begun; a call that has stored reads the number of some call.
WindowInv ==
  \A f \in Fields :
    /\ \E k \in 0..begun[f] : counter[f] = Nth(f, k)
    /\ \A w \in UnderWay(f) : \E k \in 1..begun[f] : tmp[w] = Nth(f, k)
    /\ (\E w \in UnderWay(f) : sub[w] = "reload") => \E k \in 1..begun[f] : counter[f] = Nth(f, k)
    /\ \A p \in given[f] : \E k \in 1..begun[f] : p[1] = Nth(f, k)

\* As long as no calls have overlapped, the n-th identifier handed out is the n-th
\* after the start, and the one call that may be under way is the next.
SerialInv ==
  \A f \in Fields \ overlapped :
    LET n == Cardinality(given[f])
    IN  /\ \A p \in given[f] : p[1] = Nth(f, p[2])
        /\ \A v, w \in UnderWay(f) : v = w
        /\ UnderWay(f) = {} => counter[f] = Nth(f, n)
        /\ \A w \in UnderWay(f) :
             IF sub[w] = "store" THEN counter[f] = Nth(f, n) /\ tmp[w] = Nth(f, n + 1)
                                 ELSE counter[f] = Nth(f, n + 1)

IndInv == TypeOK /\ PcInv /\ CountInv /\ WindowInv /\ SerialInv

-----------------------------------------------------------------------------
\* The arithmetic of the counters.
LEMMA NthFacts ==
  ASSUME TypeOK, NEW f \in Fields
  PROVE  /\ Nth(f, 0) = start[f]
         /\ \A k \in Nat : Nth(f, k) \in Ids
         /\ \A k \in Nat : (Nth(f, k) + 1) % IdMod = Nth(f, k + 1)
         /\ \A j, k \in Nat : j # k /\ Nth(f, j) = Nth(f, k) => j - k >= IdMod \/ k - j >= IdMod
<1> DEFINE s == start[f]
<1>1. IdMod \in Nat \ {0} /\ s \in 0..(IdMod - 1) /\ s \in Nat
  BY MessageIdsAssumption DEF TypeOK, Ids
<1>2. \A k \in Nat : s + k \in Nat /\ s + k \in Int /\ (s + k) + 1 = s + (k + 1)
  BY <1>1
<1> HIDE DEF s
<1>3. (s + 0) % IdMod = s
  <2>1. s = IdMod * 0 + s /\ s + 0 = s
    BY <1>1
  <2>2. QED
    BY <1>1, <2>1, RemainderUnique
<1>4. ASSUME NEW k \in Nat
      PROVE  (s + k) % IdMod \in Ids /\ (((s + k) % IdMod) + 1) % IdMod = (s + (k + 1)) % IdMod
  BY <1>1, <1>2, Division, ModSuccessor DEF Ids
<1>5. ASSUME NEW j \in Nat, NEW k \in Nat, j # k, (s + j) % IdMod = (s + k) % IdMod
      PROVE  j - k >= IdMod \/ k - j >= IdMod
  <2>1. (s + j) - (s + k) = j - k /\ (s + k) - (s + j) = k - j /\ s + j # s + k
    BY <1>1, <1>5
  <2>2. (s + j) - (s + k) >= IdMod \/ (s + k) - (s + j) >= IdMod
    BY <1>1, <1>2, <1>5, <2>1, ModGap
  <2>3. QED
    BY <2>1, <2>2
<1>6. QED
  BY <1>3, <1>4, <1>5 DEF Nth, s

\* Which workers a step takes into a call, or closer to one.
LEMMA Moves ==
  ASSUME TypeOK, PcInv, NEW w \in Workers
  PROVE  /\ TakeSend(w) \/ TakeCER(w) =>
              \A g \in Fields : /\ w \notin Before(g) /\ Before(g)' = Before(g) \union {w}
                                /\ UnderWay(g)' = UnderWay(g)
         /\ \A f, g \in Fields :
              /\ Keep(w, f) =>
                   /\ w \in Before(f)
                   /\ Before(g)' = IF g = f THEN Before(g) \ {w} ELSE Before(g)
                   /\ UnderWay(g)' = UnderWay(g)
              /\ Load(w, f) =>
                   /\ w \in Before(f) /\ w \notin UnderWay(f)
                   /\ Before(g)' = IF g = f THEN Before(g) \ {w} ELSE Before(g)
                   /\ UnderWay(g)' = IF g = f THEN UnderWay(g) \union {w} ELSE UnderWay(g)
              /\ Store(w, f) =>
                   /\ w \in UnderWay(f)
                   /\ Before(g)' = Before(g) /\ UnderWay(g)' = UnderWay(g)
              /\ Reload(w, f) =>
                   /\ w \in UnderWay(f)
                   /\ Before(g)' = Before(g)
                   /\ UnderWay(g)' = IF g = f THEN UnderWay(g) \ {w} ELSE UnderWay(g)
<1> USE DEF TypeOK, PcInv, Fields, Before, UnderWay
<1>1. ASSUME TakeSend(w) \/ TakeCER(w), NEW g \in Fields
      PROVE  /\ w \notin Before(g) /\ Before(g)' = Before(g) \union {w}
             /\ UnderWay(g)' = UnderWay(g)
  BY <1>1 DEF TakeSend, TakeCER
<1>2. ASSUME NEW f \in Fields, Keep(w, f), NEW g \in Fields
      PROVE  /\ w \in Before(f) /\ Before(g)' = IF g = f THEN Before(g) \ {w} ELSE Before(g)
             /\ UnderWay(g)' = UnderWay(g)
  BY <1>2 DEF Keep, Settled
<1>3. ASSUME NEW f \in Fields, Load(w, f), NEW g \in Fields
      PROVE  /\ w \in Before(f) /\ Before(g)' = IF g = f THEN Before(g) \ {w} ELSE Before(g)
             /\ w \notin UnderWay(f)
             /\ UnderWay(g)' = IF g = f THEN UnderWay(g) \union {w} ELSE UnderWay(g)
  BY <1>3 DEF Load, Begin
<1>4. ASSUME NEW f \in Fields, Store(w, f), NEW g \in Fields
      PROVE  w \in UnderWay(f) /\ Before(g)' = Before(g) /\ UnderWay(g)' = UnderWay(g)
  BY <1>4 DEF Store, StoreTo
<1>5. ASSUME NEW f \in Fields, Reload(w, f), NEW g \in Fields
      PROVE  /\ w \in UnderWay(f) /\ Before(g)' = Before(g)
             /\ UnderWay(g)' = IF g = f THEN UnderWay(g) \ {w} ELSE UnderWay(g)
  BY <1>5 DEF Reload, Settled
<1> QED
  BY ONLY <1>1, <1>2, <1>3, <1>4, <1>5

\* A finite set with an element more, or less.
LEMMA OneMore ==
  ASSUME NEW S, IsFiniteSet(S), NEW x, x \notin S
  PROVE  /\ IsFiniteSet(S \union {x}) /\ Cardinality(S) \in Nat
         /\ Cardinality(S \union {x}) = Cardinality(S) + 1
  BY FS_AddElement, FS_CardinalityType

LEMMA OneFewer ==
  ASSUME NEW S, IsFiniteSet(S), NEW x
  PROVE  /\ IsFiniteSet(S \ {x}) /\ Cardinality(S) \in Nat /\ Cardinality(S \ {x}) \in Nat
         /\ Cardinality(S \ {x}) <= Cardinality(S)
         /\ x \in S => Cardinality(S) = Cardinality(S \ {x}) + 1
<1>1. IsFiniteSet(S \ {x}) /\ Cardinality(S) \in Nat /\ Cardinality(S \ {x}) \in Nat
  BY FS_RemoveElement, FS_CardinalityType
<1>2. Cardinality(S \ {x}) = IF x \in S THEN Cardinality(S) - 1 ELSE Cardinality(S)
  BY FS_RemoveElement
<1>3. QED
  BY <1>1, <1>2

\* The inductive invariant holds before the first message.
LEMMA InitIndInv == Init => IndInv
<1> SUFFICES ASSUME Init PROVE IndInv
  OBVIOUS
<1> USE MessageIdsAssumption DEF Init
<1>1. TypeOK
  BY DEF TypeOK, Fields, Ids
<1>2. \A f \in Fields : Before(f) = {} /\ UnderWay(f) = {} /\ given[f] = {} /\ begun[f] = 0
  BY DEF Before, UnderWay, Fields
<1>3. PcInv
  BY DEF PcInv
<1>4. CountInv
  BY <1>2, FS_EmptySet DEF CountInv
<1>5. WindowInv
  BY <1>1, <1>2, NthFacts DEF WindowInv
<1>6. SerialInv
  BY <1>1, <1>2, NthFacts, FS_EmptySet DEF SerialInv
<1>7. QED
  BY <1>1, <1>3, <1>4, <1>5, <1>6 DEF IndInv

\* A worker takes a message, or makes a CER.
LEMMA TakeKeepsInv ==
  ASSUME IndInv, NEW w \in Workers, TakeSend(w) \/ TakeCER(w)
  PROVE  IndInv'
<1> USE MessageIdsAssumption DEF IndInv
<1>0. /\ UNCHANGED <<counter, start, sub, tmp, begun, overlapped, given>>
      /\ made' = made + 1 /\ made < MaxMessages /\ made \in Nat
      /\ pc' = [pc EXCEPT ![w] = "hop_by_hop"]
  BY DEF TakeSend, TakeCER, TypeOK
<1>1. TypeOK'
  <2>1. mess' \in [Workers -> [Fields -> Ids]]
    BY DEF TakeSend, TakeCER, TypeOK, Fields, Ids
  <2>2. pc' \in [Workers -> Fields \union {"idle"}] /\ made' \in 0..MaxMessages
    BY <1>0 DEF TypeOK, Fields
  <2>3. QED
    BY <1>0, <2>1, <2>2 DEF TypeOK
<1>2. PcInv'
  BY <1>0 DEF PcInv, TypeOK, Fields
<1>3. \A g \in Fields : /\ w \notin Before(g) /\ Before(g)' = Before(g) \union {w}
                        /\ UnderWay(g)' = UnderWay(g)
  BY Moves
<1>4. CountInv'
  <2> SUFFICES ASSUME NEW f \in Fields
               PROVE  IsFiniteSet(Before(f))' /\ (begun[f] + Cardinality(Before(f)) <= made)'
    BY <1>0, <1>3 DEF CountInv
  <2>1. IsFiniteSet(Before(f)) /\ begun[f] + Cardinality(Before(f)) <= made /\ begun[f] \in Nat
    BY DEF CountInv, TypeOK
  <2>2. /\ IsFiniteSet(Before(f) \union {w}) /\ Cardinality(Before(f)) \in Nat
        /\ Cardinality(Before(f) \union {w}) = Cardinality(Before(f)) + 1
    BY <1>3, <2>1, OneMore
  <2>3. begun'[f] = begun[f] /\ Before(f)' = Before(f) \union {w}
    BY <1>0, <1>3
  <2>4. QED
    BY <1>0, <2>1, <2>2, <2>3
<1>5. WindowInv'
  BY <1>0, <1>3 DEF WindowInv, Nth
<1>6. SerialInv'
  BY <1>0, <1>3 DEF SerialInv, Nth
<1>7. QED
  BY <1>1, <1>2, <1>4, <1>5, <1>6

\* A message keeps the identifier it has.
LEMMA KeepKeepsInv ==
  ASSUME IndInv, NEW w \in Workers, NEW f \in Fields, Keep(w, f)
  PROVE  IndInv'
<1> USE MessageIdsAssumption DEF IndInv
<1>0. /\ UNCHANGED <<counter, start, sub, tmp, mess, made, begun, overlapped, given>>
      /\ pc' = [pc EXCEPT ![w] = IF f = "hop_by_hop" THEN "end_to_end" ELSE "idle"]
      /\ sub[w] = "start"
  BY DEF Keep, Settled
<1>1. TypeOK'
  BY <1>0 DEF TypeOK, Fields
<1>2. PcInv'
  BY <1>0 DEF PcInv, TypeOK, Fields
<1>3. \A g \in Fields : /\ w \in Before(f)
                        /\ Before(g)' = IF g = f THEN Before(g) \ {w} ELSE Before(g)
                        /\ UnderWay(g)' = UnderWay(g)
  BY Moves
<1>4. CountInv'
  <2> SUFFICES ASSUME NEW g \in Fields
               PROVE  IsFiniteSet(Before(g))' /\ (begun[g] + Cardinality(Before(g)) <= made)'
    BY <1>0, <1>3 DEF CountInv
  <2>1. /\ IsFiniteSet(Before(g)) /\ begun[g] + Cardinality(Before(g)) <= made
        /\ begun[g] \in Nat /\ made \in Nat
    BY DEF CountInv, TypeOK
  <2>2. /\ IsFiniteSet(Before(g) \ {w}) /\ Cardinality(Before(g)) \in Nat
        /\ Cardinality(Before(g) \ {w}) <= Cardinality(Before(g))
        /\ Cardinality(Before(g) \ {w}) \in Nat
    BY <2>1, OneFewer
  <2>3. QED
    BY <1>0, <1>3, <2>1, <2>2
<1>5. WindowInv'
  BY <1>0, <1>3 DEF WindowInv, Nth
<1>6. SerialInv'
  BY <1>0, <1>3 DEF SerialInv, Nth
<1>7. QED
  BY <1>1, <1>2, <1>4, <1>5, <1>6

\* A call begins: it loads the counter.
LEMMA LoadKeepsInv ==
  ASSUME IndInv, NEW w \in Workers, NEW f \in Fields, Load(w, f)
  PROVE  IndInv'
<1> USE MessageIdsAssumption DEF IndInv
<1>0. /\ UNCHANGED <<counter, start, pc, mess, made, given>>
      /\ pc[w] = f /\ sub[w] = "start" /\ sub' = [sub EXCEPT ![w] = "store"]
      /\ tmp' = [tmp EXCEPT ![w] = (counter[f] + 1) % IdMod]
      /\ begun' = [begun EXCEPT ![f] = @ + 1]
      /\ overlapped' = IF UnderWay(f) = {} THEN overlapped ELSE overlapped \union {f}
  BY DEF Load, Begin
<1>1. \A g \in Fields :
        /\ w \in Before(f) /\ w \notin UnderWay(f)
        /\ Before(g)' = IF g = f THEN Before(g) \ {w} ELSE Before(g)
        /\ UnderWay(g)' = IF g = f THEN UnderWay(g) \union {w} ELSE UnderWay(g)
  BY Moves
<1>2. /\ begun \in [Fields -> Nat] /\ made \in 0..MaxMessages
      /\ begun'[f] = begun[f] + 1 /\ \A g \in Fields : g # f => begun'[g] = begun[g]
  BY <1>0 DEF TypeOK
<1>3. PcInv'
  BY <1>0 DEF PcInv, TypeOK, Fields
<1>4. /\ IsFiniteSet(Before(f) \ {w}) /\ Cardinality(Before(f) \ {w}) \in Nat
      /\ IsFiniteSet(UnderWay(f) \union {w}) /\ Cardinality(UnderWay(f)) \in Nat
      /\ Cardinality(Before(f)) = Cardinality(Before(f) \ {w}) + 1
      /\ Cardinality(UnderWay(f) \union {w}) = Cardinality(UnderWay(f)) + 1
      /\ begun[f] + Cardinality(Before(f)) <= made
      /\ Cardinality(given[f]) + Cardinality(UnderWay(f)) = begun[f]
      /\ Cardinality(given[f]) \in Nat
  BY <1>1, OneMore, OneFewer, FS_CardinalityType DEF CountInv
<1>5. CountInv'
  <2> SUFFICES ASSUME NEW g \in Fields
               PROVE  /\ IsFiniteSet(Before(g)') /\ IsFiniteSet(UnderWay(g)')
                      /\ begun'[g] + Cardinality(Before(g)') <= made
                      /\ Cardinality(given[g]) + Cardinality(UnderWay(g)') = begun'[g]
    BY <1>0 DEF CountInv
  <2>1. CASE g = f
    <3>1. Before(f)' = Before(f) \ {w} /\ UnderWay(f)' = UnderWay(f) \union {w}
      BY <1>1
    <3>2. QED
      BY <1>2, <1>4, <2>1, <3>1
  <2>2. CASE g # f
    BY <1>1, <1>2, <2>2 DEF CountInv
  <2>3. QED
    BY <2>1, <2>2
<1>6. TypeOK'
  <2>1. begun[f] + 1 \in 0..MaxMessages
    BY <1>2, <1>4
  <2>2. begun' \in [Fields -> 0..MaxMessages]
    BY <1>0, <2>1 DEF TypeOK
  <2>3. (counter[f] + 1) % IdMod \in Ids
    BY DEF TypeOK, Ids
  <2>4. tmp' \in [Workers -> Ids] /\ sub' \in [Workers -> {"start", "store", "reload"}]
    BY <1>0, <2>3 DEF TypeOK
  <2>5. overlapped' \subseteq Fields
    BY <1>0 DEF TypeOK
  <2>6. QED
    BY <1>0, <2>2, <2>4, <2>5 DEF TypeOK
<1>7. \A g \in Fields, k \in Nat : Nth(g, k)' = Nth(g, k)
  BY <1>0 DEF Nth
<1>8. WindowInv'
  <2> SUFFICES ASSUME NEW g \in Fields
               PROVE  /\ \E k \in 0..begun'[g] : counter[g] = Nth(g, k)
                      /\ \A v \in UnderWay(g)' : \E k \in 1..begun'[g] : tmp'[v] = Nth(g, k)
                      /\ (\E v \in UnderWay(g)' : sub'[v] = "reload") =>
                           \E k \in 1..begun'[g] : counter[g] = Nth(g, k)
                      /\ \A p \in given[g] : \E k \in 1..begun'[g] : p[1] = Nth(g, k)
    BY <1>0 DEF WindowInv, Nth
  <2>1. begun[g] \in Nat /\ begun'[g] \in Nat /\ begun[g] <= begun'[g]
    BY <1>2
  <2>2. 0..begun[g] \subseteq 0..begun'[g] /\ 1..begun[g] \subseteq 1..begun'[g]
    BY <2>1
  <2>3. ASSUME NEW v \in UnderWay(g)', v # w
        PROVE  v \in UnderWay(g) /\ tmp'[v] = tmp[v] /\ sub'[v] = sub[v]
    BY <1>0, <1>1, <2>3 DEF TypeOK, UnderWay
  <2>4. ASSUME w \in UnderWay(g)'
        PROVE  sub'[w] = "store" /\ \E k \in 1..begun'[g] : tmp'[w] = Nth(g, k)
    <3>1. g = f
      BY <1>0, <2>4 DEF UnderWay
    <3>2. PICK k \in 0..begun[f] : counter[f] = Nth(f, k)
      BY DEF WindowInv
    <3>3. k \in Nat /\ k + 1 \in 1..begun'[f]
      BY <1>2, <3>2
    <3>4. tmp'[w] = Nth(f, k + 1)
      BY <1>0, <3>2, <3>3, NthFacts DEF TypeOK
    <3>5. QED
      BY <1>0, <3>1, <3>3, <3>4 DEF TypeOK
  <2>5. QED
    BY <2>2, <2>3, <2>4 DEF WindowInv
<1>9. SerialInv'
  <2> SUFFICES ASSUME NEW g \in Fields \ overlapped'
               PROVE  LET n == Cardinality(given[g])
                      IN  /\ \A p \in given[g] : p[1] = Nth(g, p[2])
                          /\ \A u, v \in UnderWay(g)' : u = v
                          /\ UnderWay(g)' = {} => counter[g] = Nth(g, n)
                          /\ \A v \in UnderWay(g)' :
                               IF sub'[v] = "store"
                               THEN counter[g] = Nth(g, n) /\ tmp'[v] = Nth(g, n + 1)
                               ELSE counter[g] = Nth(g, n + 1)
    BY <1>0 DEF SerialInv, Nth
  <2>1. g \in Fields \ overlapped
    BY <1>0
  <2>2. CASE g = f
    <3>1. UnderWay(f) = {} /\ UnderWay(f)' = {w}
      BY <1>0, <1>1, <2>2
    <3>2. counter[f] = Nth(f, Cardinality(given[f]))
      BY <2>1, <2>2, <3>1 DEF SerialInv
    <3>3. sub'[w] = "store" /\ tmp'[w] = Nth(f, Cardinality(given[f]) + 1)
      BY <1>0, <1>4, <3>2, NthFacts DEF TypeOK
    <3>4. QED
      BY <2>1, <2>2, <3>1, <3>2, <3>3 DEF SerialInv
  <2>3. CASE g # f
    <3>1. UnderWay(g)' = UnderWay(g)
      BY <1>1, <2>3
    <3>2. \A v \in UnderWay(g) : tmp'[v] = tmp[v] /\ sub'[v] = sub[v]
      BY <1>0, <2>3 DEF UnderWay, TypeOK
    <3>3. QED
      BY <2>1, <3>1, <3>2 DEF SerialInv
  <2>4. QED
    BY <2>2, <2>3
<1>10. QED
  BY <1>3, <1>5, <1>6, <1>8, <1>9

\* The call under way stores what it has computed.
LEMMA StoreKeepsInv ==
  ASSUME IndInv, NEW w \in Workers, NEW f \in Fields, Store(w, f)
  PROVE  IndInv'
<1> USE MessageIdsAssumption DEF IndInv
<1>0. /\ UNCHANGED <<start, pc, tmp, mess, made, begun, overlapped, given>>
      /\ pc[w] = f /\ sub[w] = "store" /\ sub' = [sub EXCEPT ![w] = "reload"]
      /\ counter' = [counter EXCEPT ![f] = tmp[w]]
  BY DEF Store, StoreTo
<1>1. \A g \in Fields : /\ w \in UnderWay(f)
                        /\ Before(g)' = Before(g) /\ UnderWay(g)' = UnderWay(g)
  BY Moves
<1>2. TypeOK'
  <2>1. counter' \in [Fields -> Ids] /\ sub' \in [Workers -> {"start", "store", "reload"}]
    BY <1>0 DEF TypeOK
  <2>2. QED
    BY <1>0, <2>1 DEF TypeOK
<1>3. PcInv'
  BY <1>0 DEF PcInv, TypeOK, Fields
<1>4. CountInv'
  BY <1>0, <1>1 DEF CountInv
<1>5. /\ counter'[f] = tmp[w] /\ \A g \in Fields : g # f => counter'[g] = counter[g]
      /\ sub'[w] = "reload" /\ \A v \in Workers : v # w => sub'[v] = sub[v]
      /\ \A g \in Fields : g # f => w \notin UnderWay(g)
      /\ \A g \in Fields : begun[g] \in Nat /\ 1..begun[g] \subseteq 0..begun[g]
  BY <1>0 DEF TypeOK, UnderWay
<1>6. WindowInv'
  <2> SUFFICES ASSUME NEW g \in Fields
               PROVE  /\ \E k \in 0..begun[g] : counter'[g] = Nth(g, k)
                      /\ \A v \in UnderWay(g) : \E k \in 1..begun[g] : tmp[v] = Nth(g, k)
                      /\ (\E v \in UnderWay(g) : sub'[v] = "reload") =>
                           \E k \in 1..begun[g] : counter'[g] = Nth(g, k)
                      /\ \A p \in given[g] : \E k \in 1..begun[g] : p[1] = Nth(g, k)
    BY <1>0, <1>1 DEF WindowInv, Nth
  <2>1. CASE g = f
    <3>1. \E k \in 1..begun[f] : counter'[f] = Nth(f, k)
      BY <1>1, <1>5 DEF WindowInv
    <3>2. QED
      BY <1>5, <2>1, <3>1 DEF WindowInv
  <2>2. CASE g # f
    BY <1>5, <2>2 DEF WindowInv, UnderWay
  <2>3. QED
    BY <2>1, <2>2
<1>7. SerialInv'
  <2> SUFFICES ASSUME NEW g \in Fields \ overlapped
               PROVE  LET n == Cardinality(given[g])
                      IN  /\ \A p \in given[g] : p[1] = Nth(g, p[2])
                          /\ \A u, v \in UnderWay(g) : u = v
                          /\ UnderWay(g) = {} => counter'[g] = Nth(g, n)
                          /\ \A v \in UnderWay(g) :
                               IF sub'[v] = "store"
                               THEN counter'[g] = Nth(g, n) /\ tmp[v] = Nth(g, n + 1)
                               ELSE counter'[g] = Nth(g, n + 1)
    BY <1>0, <1>1 DEF SerialInv, Nth
  <2>1. CASE g = f
    <3>1. w \in UnderWay(g) /\ \A v \in UnderWay(g) : v = w
      BY <1>1, <2>1 DEF SerialInv
    <3>2. tmp[w] = Nth(g, Cardinality(given[g]) + 1)
      BY <1>0, <3>1 DEF SerialInv
    <3>3. QED
      BY <1>5, <2>1, <3>1, <3>2 DEF SerialInv
  <2>2. CASE g # f
    BY <1>5, <2>2 DEF SerialInv, UnderWay
  <2>3. QED
    BY <2>1, <2>2
<1>8. QED
  BY <1>2, <1>3, <1>4, <1>6, <1>7

\* The call returns what the counter holds by now.
LEMMA ReloadKeepsInv ==
  ASSUME IndInv, NEW w \in Workers, NEW f \in Fields, Reload(w, f)
  PROVE  IndInv'
<1> USE MessageIdsAssumption DEF IndInv
<1> DEFINE n == Cardinality(given[f])
           new == <<counter[f], n + 1>>
<1>0. /\ UNCHANGED <<counter, start, tmp, made, begun, overlapped>>
      /\ pc[w] = f /\ sub[w] = "reload" /\ sub' = [sub EXCEPT ![w] = "start"]
      /\ pc' = [pc EXCEPT ![w] = IF f = "hop_by_hop" THEN "end_to_end" ELSE "idle"]
      /\ mess' = [mess EXCEPT ![w][f] = counter[f]]
      /\ given' = [given EXCEPT ![f] = given[f] \union {new}]
  BY DEF Reload, Settled
<1>1. \A g \in Fields : /\ w \in UnderWay(f)
                        /\ Before(g)' = Before(g)
                        /\ UnderWay(g)' = IF g = f THEN UnderWay(g) \ {w} ELSE UnderWay(g)
  BY Moves
<1>2. /\ given'[f] = given[f] \union {new} /\ \A g \in Fields : g # f => given'[g] = given[g]
      /\ UnderWay(f)' = UnderWay(f) \ {w}
      /\ \A g \in Fields : g # f => UnderWay(g)' = UnderWay(g)
      /\ \A g \in Fields : \A v \in UnderWay(g)' : v # w /\ sub'[v] = sub[v]
  BY <1>0, <1>1 DEF TypeOK, UnderWay
<1>3. /\ n \in Nat /\ Cardinality(UnderWay(f) \ {w}) \in Nat
      /\ IsFiniteSet(UnderWay(f) \ {w})
      /\ n + Cardinality(UnderWay(f) \ {w}) + 1 = begun[f]
      /\ begun[f] \in 0..MaxMessages
  <2>1. /\ IsFiniteSet(UnderWay(f)) /\ w \in UnderWay(f) /\ begun[f] \in 0..MaxMessages
        /\ n + Cardinality(UnderWay(f)) = begun[f] /\ n \in Nat
    BY <1>1, FS_CardinalityType DEF CountInv, TypeOK
  <2>2. /\ IsFiniteSet(UnderWay(f) \ {w}) /\ Cardinality(UnderWay(f) \ {w}) \in Nat
        /\ Cardinality(UnderWay(f)) = Cardinality(UnderWay(f) \ {w}) + 1
    BY <2>1, OneFewer
  <2>3. QED
    BY <2>1, <2>2
<1>4. IsFiniteSet(given'[f]) /\ Cardinality(given'[f]) = n + 1
  <2>1. new \notin given[f]
    <3>1. new[2] = n + 1
      OBVIOUS
    <3>2. \A p \in given[f] : p[2] <= n
      BY DEF CountInv
    <3>3. QED
      BY <1>3, <3>1, <3>2
  <2>2. QED
    BY <1>2, <2>1, OneMore DEF CountInv
<1>5. TypeOK'
  <2>1. new \in Ids \X (1..MaxMessages)
    BY <1>3 DEF TypeOK
  <2>2. given' \in [Fields -> SUBSET (Ids \X (1..MaxMessages))]
    BY <1>0, <2>1 DEF TypeOK
  <2>3. mess' \in [Workers -> [Fields -> Ids]] /\ sub' \in [Workers -> {"start", "store", "reload"}]
    BY <1>0 DEF TypeOK
  <2>4. pc' \in [Workers -> Fields \union {"idle"}]
    BY <1>0 DEF TypeOK, Fields
  <2>5. QED
    BY <1>0, <2>2, <2>3, <2>4 DEF TypeOK
<1>6. PcInv'
  BY <1>0 DEF PcInv, TypeOK, Fields
<1>7. CountInv'
  <2> SUFFICES ASSUME NEW g \in Fields
               PROVE  /\ IsFiniteSet(UnderWay(g)') /\ IsFiniteSet(given'[g])
                      /\ Cardinality(given'[g]) + Cardinality(UnderWay(g)') = begun[g]
                      /\ \A p \in given'[g] : p[2] <= Cardinality(given'[g])
    BY <1>0, <1>1 DEF CountInv
  <2>1. CASE g = f
    <3>1. \A p \in given'[f] : p[2] <= n + 1
      <4>1. \A p \in given[f] : p[2] <= n /\ p[2] \in Nat
        BY DEF CountInv, TypeOK
      <4>2. QED
        BY <1>2, <1>3, <4>1
    <3>2. n + 1 + Cardinality(UnderWay(f) \ {w}) = begun[f]
      BY <1>3
    <3>3. QED
      BY <1>2, <1>3, <1>4, <2>1, <3>1, <3>2
  <2>2. CASE g # f
    BY <1>2, <2>2 DEF CountInv
  <2>3. QED
    BY <2>1, <2>2
<1> HIDE DEF n
<1>8. WindowInv'
  <2> SUFFICES ASSUME NEW g \in Fields
               PROVE  /\ (\E v \in UnderWay(g)' : sub'[v] = "reload") =>
                           \E k \in 1..begun[g] : counter[g] = Nth(g, k)
                      /\ \A v \in UnderWay(g)' : v \in UnderWay(g)
                      /\ \A p \in given'[g] : \E k \in 1..begun[g] : p[1] = Nth(g, k)
    BY <1>0 DEF WindowInv, Nth
  <2>1. \A v \in UnderWay(g)' : v \in UnderWay(g) /\ sub'[v] = sub[v]
    BY <1>2
  <2>2. CASE g = f
    <3>1. \E k \in 1..begun[f] : counter[f] = Nth(f, k)
      BY <1>0, <1>1 DEF WindowInv
    <3>2. QED
      BY <1>2, <2>1, <2>2, <3>1 DEF WindowInv
  <2>3. CASE g # f
    BY <1>2, <2>1, <2>3 DEF WindowInv
  <2>4. QED
    BY <2>2, <2>3
<1>9. SerialInv'
  <2> SUFFICES ASSUME NEW g \in Fields \ overlapped
               PROVE  LET m == Cardinality(given'[g])
                      IN  /\ \A p \in given'[g] : p[1] = Nth(g, p[2])
                          /\ \A u, v \in UnderWay(g)' : u = v
                          /\ UnderWay(g)' = {} => counter[g] = Nth(g, m)
                          /\ \A v \in UnderWay(g)' :
                               IF sub'[v] = "store"
                               THEN counter[g] = Nth(g, m) /\ tmp[v] = Nth(g, m + 1)
                               ELSE counter[g] = Nth(g, m + 1)
    BY <1>0 DEF SerialInv, Nth
  <2>1. CASE g = f
    <3>1. UnderWay(g)' = {}
      BY <1>1, <1>2, <2>1 DEF SerialInv
    <3>2. counter[f] = Nth(f, n + 1)
      BY <1>0, <1>1, <2>1 DEF SerialInv, n
    <3>3. \A p \in given'[f] : p[1] = Nth(f, p[2])
      BY <1>2, <2>1, <3>2 DEF SerialInv
    <3>4. QED
      BY <1>4, <2>1, <3>1, <3>2, <3>3
  <2>2. CASE g # f
    BY <1>2, <2>2 DEF SerialInv
  <2>3. QED
    BY <2>1, <2>2
<1>10. QED
  BY <1>5, <1>6, <1>7, <1>8, <1>9

\* No step of any worker breaks the invariant.
LEMMA StepKeepsIndInv == IndInv /\ [Next]_vars => IndInv'
<1> SUFFICES ASSUME IndInv, [Next]_vars PROVE IndInv'
  OBVIOUS
<1>1. CASE \E w \in Workers : TakeSend(w) \/ TakeCER(w)
  BY <1>1, TakeKeepsInv
<1>2. CASE \E w \in Workers, f \in Fields : Settle(w, f)
  BY <1>2, KeepKeepsInv, LoadKeepsInv, StoreKeepsInv, ReloadKeepsInv DEF Settle
<1>3. CASE UNCHANGED vars
  <2> USE <1>3 DEF vars, IndInv
  <2>1. TypeOK' /\ PcInv'
    BY DEF TypeOK, PcInv
  <2>2. \A f \in Fields : UnderWay(f)' = UnderWay(f) /\ Before(f)' = Before(f)
    BY DEF UnderWay, Before
  <2>3. CountInv'
    BY <2>2 DEF CountInv
  <2>4. WindowInv' /\ SerialInv'
    BY <2>2 DEF WindowInv, SerialInv, Nth
  <2>5. QED
    BY <2>1, <2>3, <2>4
<1>4. QED
  BY <1>1, <1>2, <1>3 DEF Next, Idle

\* The inductive invariant behind the theorems below holds throughout.
THEOREM Invariance == Spec => []IndInv
  BY InitIndInv, StepKeepsIndInv, PTL DEF Spec

\* Counters and identifiers stay in their range, and no more identifiers of a kind
\* are handed out than messages are made, for any number of workers.
THEOREM TypeCorrect == Spec => []TypeOK
<1>1. IndInv => TypeOK
  BY DEF IndInv
<1>2. QED
  BY <1>1, Invariance, PTL

\* Whatever calls overlap, next_h_by_h and next_e_to_e hand out nothing but successors
\* of the initial draw, and never more of them than there have been calls.
THEOREM NoneInvented == Spec => []InWindow
<1>1. IndInv => InWindow
  BY DEF IndInv, WindowInv, InWindow, Nth
<1>2. QED
  BY <1>1, Invariance, PTL

\* Identifiers of a field on which no two calls have overlapped are a whole range of
\* the counter apart before one is handed out again.
THEOREM DistinctWhileSerial == Spec => []DistinctUnlessOverlapped
<1>1. IndInv => DistinctUnlessOverlapped
  <2> SUFFICES ASSUME IndInv, NEW f \in Fields \ overlapped,
                      NEW p \in given[f], NEW q \in given[f], p # q, p[1] = q[1]
               PROVE  p[2] - q[2] >= IdMod \/ q[2] - p[2] >= IdMod
    BY DEF DistinctUnlessOverlapped
  <2>1. p \in Ids \X (1..MaxMessages) /\ q \in Ids \X (1..MaxMessages)
    BY DEF IndInv, TypeOK
  <2>2. p[2] # q[2] /\ p[2] \in Nat /\ q[2] \in Nat
    BY <2>1
  <2>3. Nth(f, p[2]) = Nth(f, q[2])
    BY DEF IndInv, SerialInv
  <2>4. QED
    BY <2>2, <2>3, NthFacts DEF IndInv
<1>2. QED
  BY <1>1, Invariance, PTL
=============================================================================
