--------------------------- MODULE TemplateProofs ---------------------------
(***************************************************************************)
(* Proofs about Template.                                                  *)
(***************************************************************************)
EXTENDS Template, Numbers, SequenceTheorems

(***************************************************************************)
(* The operators FillTemplate is made of.                                  *)
(***************************************************************************)
\* The numbers that are put in order are those of the set.
LEMMA InOrderFacts ==
  ASSUME NEW S, S \subseteq Nat, NEW n \in Nat
  PROVE  InOrder(S, n) \in Seq(S)
<1> DEFINE step == [k \in Nat |-> [s \in Seq(S) |-> IF k + 1 \in S THEN Append(s, k + 1) ELSE s]]
<1>1. step \in [Nat -> [Seq(S) -> Seq(S)]]
  OBVIOUS
<1>2. \A k \in Nat, s \in Seq(S) : step[k][s] = IF k + 1 \in S THEN Append(s, k + 1) ELSE s
  OBVIOUS
<1>3. <<>> \in Seq(S)
  OBVIOUS
<1> HIDE DEF step
<1>4. PICK f : Iterates(f, Seq(S), <<>>, step)
  BY <1>1, <1>3, Iteration, Zenon
<1>5. f \in [Nat -> Seq(S)] /\ f[0] = <<>> /\ \A k \in Nat : f[k + 1] = step[k][f[k]]
  BY <1>4 DEF Iterates
<1> DEFINE F(g) == [k \in Nat |-> IF k = 0 THEN <<>>
                                  ELSE IF k \in S THEN Append(g[k - 1], k) ELSE g[k - 1]]
<1>6. f = F(f)
  <2> SUFFICES ASSUME NEW k \in Nat
               PROVE  f[k] = IF k = 0 THEN <<>>
                             ELSE IF k \in S THEN Append(f[k - 1], k) ELSE f[k - 1]
    BY <1>5
  <2>1. CASE k = 0
    BY <1>5, <2>1
  <2>2. CASE k # 0
    <3>1. k - 1 \in Nat /\ (k - 1) + 1 = k
      BY <2>2
    <3>2. f[k] = step[k - 1][f[k - 1]] /\ f[k - 1] \in Seq(S)
      BY <1>5, <3>1
    <3>3. QED
      BY <1>2, <2>2, <3>1, <3>2
  <2>3. QED
    BY <2>1, <2>2
<1> DEFINE g == CHOOSE h : h = F(h)
<1>7. g = F(g)
  <2> HIDE DEF F
  <2>1. QED
    BY <1>6, Zenon
<1>8. InOrder(S, n) = g[n]
  BY Zenon DEF InOrder
<1> HIDE DEF g
<1>9. /\ g[0] = <<>>
      /\ \A k \in Nat : g[k + 1] = IF k + 1 \in S THEN Append(g[k], k + 1) ELSE g[k]
  <2>1. \A k \in Nat : k + 1 \in Nat /\ k + 1 # 0 /\ (k + 1) - 1 = k
    OBVIOUS
  <2>2. QED
    BY <1>7, <2>1
<1> DEFINE T == {k \in Nat : g[k] \in Seq(S)}
<1>10. 0 \in T
  <2>1. 0 \in Nat
    OBVIOUS
  <2>2. QED
    BY <1>3, <1>9, <2>1, Zenon
<1>11. \A k \in Nat : k \in T => k + 1 \in T
  <2> SUFFICES ASSUME NEW k \in Nat, g[k] \in Seq(S) PROVE k + 1 \in Nat /\ g[k + 1] \in Seq(S)
    BY Zenon
  <2> DEFINE s == g[k]
  <2>1. k + 1 \in S => Append(s, k + 1) \in Seq(S)
    <3>1. s \in Seq(S)
      OBVIOUS
    <3> HIDE DEF s
    <3>2. QED
      BY <3>1
  <2>2. k + 1 \in Nat
    OBVIOUS
  <2>3. QED
    BY <1>9, <2>1, <2>2, Zenon
<1> HIDE DEF T
<1>12. n \in T
  BY <1>10, <1>11, SetInduction, Zenon
<1>13. QED
  BY <1>8, <1>12 DEF T

\* What a row keeps of its line.
LEMMA RowFacts ==
  ASSUME NEW level, NEW code, NEW type, NEW e
  PROVE  LET row == makeTmplRow(level, code, type, e)
         IN  row.level = level /\ row.avp_code = code /\ row.avp_type = type
  BY DEF makeTmplRow

\* What is computed of each kind of row.
LEMMA ComputedValue ==
  ASSUME NEW row, NEW pars
  PROVE  LET given == row.value \in DOMAIN pars
             val   == IF given THEN pars[row.value] ELSE row.defValue
         IN  /\ row.valueType = 1 => computeValue(row, pars) = <<row.value>>
             /\ row.valueType = 2 => computeValue(row, pars) = <<val>>
             /\ row.valueType = 3 => computeValue(row, pars) = <<val>>
             /\ row.valueType = 4 => computeValue(row, pars) = runAction("", row.action)
             /\ row.valueType = 5 =>
                  computeValue(row, pars) = IF given THEN runAction(val, row.action) ELSE <<val>>
             /\ row.valueType = 6 => computeValue(row, pars) = runAction(val, row.action)
<1> DEFINE given == row.value \in DOMAIN pars
           val == IF given THEN pars[row.value] ELSE row.defValue
           t == row.valueType
           x == computeValue(row, pars)
           fixed == <<row.value>>
           param == <<val>>
           action == runAction("", row.action)
           acted == runAction(val, row.action)
<1>1. x = CASE t = 1 -> fixed
            [] t \in {2, 3} -> param
            [] t = 4 -> action
            [] t = 5 -> IF given THEN acted ELSE param
            [] t = 6 -> acted
  BY Zenon DEF computeValue, VAL_FIX, VAL_PARAM, VAL_PARAM_WITH_DEFAULT, VAL_ACTION,
               VAL_PARAM_WITH_ACTION, VAL_PARAM_WITH_DEFAULT_AND_ACTION
<1> HIDE DEF given, val, t, x, fixed, param, action, acted
<1>2. /\ t = 1 => x = fixed
      /\ t = 2 => x = param
      /\ t = 3 => x = param
      /\ t = 4 => x = action
      /\ t = 5 => x = IF given THEN acted ELSE param
      /\ t = 6 => x = acted
  BY <1>1
<1>3. QED
  BY <1>2, Zenon DEF given, val, t, x, fixed, param, action, acted

\* A value is computed from its row as the line means it.
LEMMA ValueMeant ==
  ASSUME NEW line \in AvpLines, line.avp_type # "Grouped", NEW level, NEW code,
         NEW pars, DOMAIN pars \subseteq Params
  PROVE  computeValue(makeTmplRow(level, code, line.avp_type, line.expr), pars)
           = Meaning(line.expr, pars)
<1> DEFINE e == line.expr
           p == e.param
           d == e.default
           a == e.action
           row == makeTmplRow(level, code, line.avp_type, e)
           given == p \in DOMAIN pars
<1>1. /\ e.kind = "text" \/ (e.kind = "braces" /\ (p = None => d = None /\ a # None))
      /\ None \notin DOMAIN pars
  BY TemplateAssumption
<1>2. CASE e.kind = "text"
  <2>a. e.kind # None
    BY <1>2 DEF None
  <2>1. row.valueType = 1 /\ row.value = e.text
    BY <1>2, <2>a DEF makeTmplRow, VAL_FIX
  <2>2. Meaning(e, pars) = <<e.text>>
    BY <1>2, Zenon DEF Meaning
  <2> HIDE DEF row
  <2>3. computeValue(row, pars) = <<e.text>>
    BY <2>1, ComputedValue, Zenon
  <2>4. QED
    BY <2>2, <2>3, Zenon DEF row
<1>3. CASE e.kind = "braces" /\ p = None
  <2>1. e.kind # "text" /\ e.kind # None /\ d = None /\ a # None /\ p \notin DOMAIN pars
    BY <1>1, <1>3 DEF None
  <2>2. row.valueType = 4 /\ row.action = a
    BY <1>3, <2>1 DEF makeTmplRow, VAL_ACTION
  <2>3. Meaning(e, pars) = runAction("", a)
    BY <1>3, <2>1 DEF Meaning
  <2> HIDE DEF row
  <2>4. computeValue(row, pars) = runAction("", a)
    BY <2>2, ComputedValue, Zenon
  <2>5. QED
    BY <2>3, <2>4, Zenon DEF row
<1>4. CASE e.kind = "braces" /\ p # None
  <2>1. e.kind # "text" /\ e.kind # None
    BY <1>4 DEF None
  <2>2. CASE a = None /\ d = None
    <3>1. row.valueType = 2 /\ row.value = p /\ row.defValue = ""
      BY <1>4, <2>1, <2>2 DEF makeTmplRow, VAL_PARAM
    <3>2. Meaning(e, pars) = IF given THEN <<pars[p]>> ELSE <<"">>
      BY <1>4, <2>1, <2>2 DEF Meaning
    <3> HIDE DEF row
    <3>3. computeValue(row, pars) = IF given THEN <<pars[p]>> ELSE <<"">>
      BY <3>1, ComputedValue, Zenon
    <3>4. QED
      BY <3>2, <3>3, Zenon DEF row
  <2>3. CASE a = None /\ d # None
    <3>1. row.valueType = 3 /\ row.value = p /\ row.defValue = d
      BY <1>4, <2>1, <2>3 DEF makeTmplRow, VAL_PARAM_WITH_DEFAULT
    <3>2. Meaning(e, pars) = IF given THEN <<pars[p]>> ELSE <<d>>
      BY <1>4, <2>1, <2>3 DEF Meaning
    <3> HIDE DEF row
    <3>3. computeValue(row, pars) = IF given THEN <<pars[p]>> ELSE <<d>>
      BY <3>1, ComputedValue, Zenon
    <3>4. QED
      BY <3>2, <3>3, Zenon DEF row
  <2>4. CASE a # None /\ d = None
    <3>1. row.valueType = 5 /\ row.value = p /\ row.defValue = "0" /\ row.action = a
      BY <1>4, <2>1, <2>4 DEF makeTmplRow, VAL_PARAM_WITH_ACTION
    <3>2. Meaning(e, pars) = IF given THEN runAction(pars[p], a) ELSE <<"0">>
      BY <1>4, <2>1, <2>4 DEF Meaning
    <3> HIDE DEF row
    <3>3. computeValue(row, pars) = IF given THEN runAction(pars[p], a) ELSE <<"0">>
      BY <3>1, ComputedValue, Zenon
    <3>4. QED
      BY <3>2, <3>3, Zenon DEF row
  <2>5. CASE a # None /\ d # None
    <3>1. row.valueType = 6 /\ row.value = p /\ row.defValue = d /\ row.action = a
      BY <1>4, <2>1, <2>5 DEF makeTmplRow, VAL_PARAM_WITH_DEFAULT_AND_ACTION
    <3>2. Meaning(e, pars) = IF given THEN runAction(pars[p], a) ELSE runAction(d, a)
      BY <1>4, <2>1, <2>5 DEF Meaning
    <3> HIDE DEF row
    <3>3. computeValue(row, pars) = IF given THEN runAction(pars[p], a) ELSE runAction(d, a)
      BY <3>1, ComputedValue, Zenon
    <3>4. QED
      BY <3>2, <3>3, Zenon DEF row
  <2>6. QED
    BY <2>2, <2>3, <2>4, <2>5, Zenon
<1>5. QED
  BY <1>1, <1>2, <1>3, <1>4, Zenon

\* A value has a text, so it is not mistaken for a panic.
LEMMA NoPanic ==
  /\ \A s : <<s>> # Panic
  /\ \A inp, action : runAction(inp, action) # Panic
<1>1. \A s, t : <<s>> # <<>> /\ <<s, t>> # <<>>
  OBVIOUS
<1>2. QED
  BY <1>1, Zenon DEF Panic, runAction

\* A conversion panics on what is to be an address and is none, and on nothing else.
LEMMA ConvertedPanics ==
  ASSUME NEW line \in AvpLines, line.avp_type # "Grouped", NEW pars
  PROVE  Converted(line.avp_type, Meaning(line.expr, pars)) = Panic <=> NoAddress(line, pars)
<1> DEFINE v == Meaning(line.expr, pars)
<1>1. v # Panic
  BY NoPanic, Zenon DEF Meaning
<1>2. line.avp_type \in {"UTF8String", "Unsigned32", "OctetString", "Time", "Address"}
  BY TemplateAssumption
<1>3. <<"9999">> # Panic /\ <<"00">> # Panic /\ runAction("", "now") # Panic
  BY NoPanic, Zenon
<1>4. NoAddress(line, pars) <=> line.avp_type = "Address" /\ v \notin Readable["Address"]
  BY Zenon DEF NoAddress
<1> DEFINE type == line.avp_type
           nine == <<"9999">>
           zero == <<"00">>
           now == runAction("", "now")
           readable == Readable[type]
           c == Converted(type, v)
<1>5. /\ type = "UTF8String" \/ v \in readable => c = v
      /\ type # "UTF8String" /\ v \notin readable =>
           c = CASE type = "Unsigned32"  -> nine
                 [] type = "OctetString" -> zero
                 [] type = "Time"        -> now
                 [] type = "Address"     -> Panic
  BY Zenon DEF Converted
<1>6. type = "Address" => (v \in readable <=> v \in Readable["Address"])
  BY Zenon
<1>a. /\ type \in {"UTF8String", "Unsigned32", "OctetString", "Time", "Address"}
      /\ v # Panic /\ nine # Panic /\ zero # Panic /\ now # Panic
  BY <1>1, <1>2, <1>3, Zenon
<1> HIDE DEF v, type, nine, zero, now, readable, c
<1>7. c = Panic <=> type = "Address" /\ v \notin readable
  <2>1. CASE v \in readable
    <3>1. c = v
      BY <1>5, <2>1
    <3>2. QED
      BY <1>a, <2>1, <3>1, Zenon
  <2>2. CASE v \notin readable
    <3>1. CASE type = "UTF8String"
      <4>1. c = v
        BY <1>5, <3>1
      <4>2. type # "Address"
        BY <3>1
      <4>3. QED
        BY <1>a, <4>1, <4>2, Zenon
    <3>2. CASE type = "Unsigned32"
      <4>1. c = nine /\ type # "Address"
        BY <1>5, <2>2, <3>2
      <4>2. QED
        BY <1>a, <4>1, Zenon
    <3>3. CASE type = "OctetString"
      <4>1. c = zero /\ type # "Address"
        BY <1>5, <2>2, <3>3
      <4>2. QED
        BY <1>a, <4>1, Zenon
    <3>4. CASE type = "Time"
      <4>1. c = now /\ type # "Address"
        BY <1>5, <2>2, <3>4
      <4>2. QED
        BY <1>a, <4>1, Zenon
    <3>5. CASE type = "Address"
      <4>1. c = Panic
        BY <1>5, <2>2, <3>5
      <4>2. QED
        BY <2>2, <3>5, <4>1, Zenon
    <3>6. QED
      BY <1>a, <3>1, <3>2, <3>3, <3>4, <3>5, Zenon
  <2>3. QED
    BY <2>1, <2>2, Zenon
<1>8. QED
  BY <1>4, <1>6, <1>7, Zenon DEF v, type, c

-----------------------------------------------------------------------------
(***************************************************************************)
(* The recursive functions exist.                                          *)
(***************************************************************************)
\* What collectRow makes of the rows in at, if groups is what it makes of each group.
Gathered(rows, pars, at, groups) ==
  LET value(j) == Converted(rows[j].avp_type, computeValue(rows[j], pars))
      avp(j)   == IF rows[j].avp_type = "Grouped" THEN Group(rows[j].avp_code, groups[j].avps)
                  ELSE Leaf(rows[j].avp_code, value(j))
      panics   == \E j \in at : IF rows[j].avp_type = "Grouped" THEN groups[j].panics
                                ELSE value(j) = Panic
      order    == InOrder(at, Len(rows))
  IN  [panics |-> panics,
       avps |-> IF panics THEN <<>> ELSE [i \in 1..Len(order) |-> avp(order[i])]]

\* The rows of a level in a part of the rows.
OfLevel(rows, from, l, to) == {j \in from..to : rows[j].level = l}

\* A call of collectRow, with f for the calls it makes.
CollectStep(rows, pars, f, from) ==
  [l \in Nat |-> [to \in 0..Len(rows) |->
     Gathered(rows, pars, OfLevel(rows, from, l, to),
              [j \in OfLevel(rows, from, l, to) |-> f[j + 1][l + 1][GroupEnd(rows, j, to)]])]]

\* A call is made of later ones only.
LEMMA CollectStepLocal ==
  ASSUME NEW rows, Len(rows) \in Nat, NEW pars, NEW from \in 1..(Len(rows) + 1), NEW f, NEW g,
         \A k \in (from + 1)..(Len(rows) + 1) : f[k] = g[k]
  PROVE  CollectStep(rows, pars, f, from) = CollectStep(rows, pars, g, from)
<1>1. ASSUME NEW l \in Nat, NEW to \in 0..Len(rows)
      PROVE  [j \in OfLevel(rows, from, l, to) |-> f[j + 1][l + 1][GroupEnd(rows, j, to)]]
               = [j \in OfLevel(rows, from, l, to) |-> g[j + 1][l + 1][GroupEnd(rows, j, to)]]
  <2>1. ASSUME NEW j \in OfLevel(rows, from, l, to) PROVE f[j + 1] = g[j + 1]
    <3>1. j + 1 \in (from + 1)..(Len(rows) + 1)
      BY DEF OfLevel
    <3>2. QED
      BY <3>1, Zenon
  <2>2. QED
    BY <2>1, Zenon
<1>2. QED
  BY <1>1, Zenon DEF CollectStep

\* c is the recursive function of collectRow, from the row k on.
Collects(rows, pars, c, k) ==
  c = [from \in k..(Len(rows) + 1) |-> CollectStep(rows, pars, c, from)]

\* There is one.
LEMMA CollectsExist ==
  ASSUME NEW rows, Len(rows) \in Nat, NEW pars
  PROVE  \E c : Collects(rows, pars, c, 1)
<1> DEFINE n == Len(rows)
           S == {m \in Nat : m <= n => \E c : Collects(rows, pars, c, (n + 1) - m)}
<1>1. 0 \in S
  <2> DEFINE c == [from \in (n + 1)..(n + 1) |-> CollectStep(rows, pars, <<>>, from)]
  <2>1. ASSUME NEW from \in (n + 1)..(n + 1)
        PROVE  CollectStep(rows, pars, <<>>, from) = CollectStep(rows, pars, c, from)
    <3>1. from \in 1..(n + 1) /\ \A k \in (from + 1)..(n + 1) : <<>>[k] = c[k]
      OBVIOUS
    <3> HIDE DEF c
    <3>2. QED
      BY <3>1, CollectStepLocal, Zenon
  <2>2. Collects(rows, pars, c, n + 1)
    BY <2>1, Zenon DEF Collects
  <2>3. (n + 1) - 0 = n + 1 /\ 0 \in Nat
    OBVIOUS
  <2> HIDE DEF n, c
  <2>4. QED
    BY <2>2, <2>3, Zenon
<1>2. \A m \in Nat : m \in S => m + 1 \in S
  <2> SUFFICES ASSUME NEW m \in Nat, m + 1 <= n, NEW c, Collects(rows, pars, c, (n + 1) - m)
               PROVE  \E d : Collects(rows, pars, d, (n + 1) - (m + 1))
    <3>1. \A m \in Nat : m + 1 \in Nat /\ (m + 1 <= n => m <= n)
      OBVIOUS
    <3> HIDE DEF n
    <3>2. QED
      BY <3>1, Zenon
  <2> DEFINE k == (n + 1) - m
             p == (n + 1) - (m + 1)
             d == [from \in p..(n + 1) |->
                     IF from = p THEN CollectStep(rows, pars, c, p) ELSE c[from]]
  <2>1. /\ p \in 1..(n + 1) /\ k \in 1..(n + 1) /\ p + 1 = k /\ p < k
        /\ \A from \in p..(n + 1) : from # p => from \in k..(n + 1)
    OBVIOUS
  <2>2. c = [from \in k..(n + 1) |-> CollectStep(rows, pars, c, from)]
    BY Zenon DEF Collects
  <2> HIDE DEF k, p
  <2>3. \A from \in k..(n + 1) : d[from] = c[from]
    BY <2>1
  <2>4. ASSUME NEW from \in p..(n + 1) PROVE d[from] = CollectStep(rows, pars, d, from)
    <3>1. from \in 1..(n + 1) /\ \A i \in (from + 1)..(n + 1) : c[i] = d[i]
      BY <2>1, <2>3
    <3>2. d[from] = CollectStep(rows, pars, c, from)
      <4>1. CASE from = p
        BY <4>1, Zenon
      <4>2. CASE from # p
        BY <2>1, <2>2, <4>2, Zenon
      <4>3. QED
        BY <4>1, <4>2, Zenon
    <3> HIDE DEF d
    <3>3. QED
      BY <3>1, <3>2, CollectStepLocal, Zenon
  <2>5. d = [from \in p..(n + 1) |-> CollectStep(rows, pars, d, from)]
    <3> DEFINE e == [from \in p..(n + 1) |-> CollectStep(rows, pars, d, from)]
    <3>1. \A from \in p..(n + 1) : d[from] = e[from]
      BY <2>4, Zenon
    <3>2. DOMAIN d = DOMAIN e
      BY Zenon
    <3>3. d = [from \in p..(n + 1) |-> d[from]] /\ e = [from \in p..(n + 1) |-> e[from]]
      BY Zenon
    <3> HIDE DEF d, e
    <3>4. d = e
      BY <3>1, <3>3, Zenon
    <3>5. QED
      BY <3>4, Zenon DEF e
  <2>6. Collects(rows, pars, d, p)
    BY <2>5, Zenon DEF Collects
  <2>7. QED
    BY <2>6, Zenon DEF p
<1> HIDE DEF S
<1>3. n \in S
  BY <1>1, <1>2, SetInduction, Zenon
<1>4. (n + 1) - n = 1 /\ n <= n
  OBVIOUS
<1>5. QED
  BY <1>3, <1>4, Zenon DEF S

\* collectRow, with its recursive function named.
LEMMA CollectRow ==
  ASSUME NEW rows, Len(rows) \in Nat, NEW pars
  PROVE  \E c : /\ Collects(rows, pars, c, 1)
                /\ \A level : collectRow(level, rows, pars) = c[1][level][Len(rows)]
<1> DEFINE
      G(f, from, l, to) ==
        LET at       == {j \in from..to : rows[j].level = l}
            group(j) == f[j + 1][l + 1][GroupEnd(rows, j, to)]
            value(j) == Converted(rows[j].avp_type, computeValue(rows[j], pars))
            avp(j)   == IF rows[j].avp_type = "Grouped" THEN Group(rows[j].avp_code, group(j).avps)
                        ELSE Leaf(rows[j].avp_code, value(j))
            panics   == \E j \in at : IF rows[j].avp_type = "Grouped" THEN group(j).panics
                                      ELSE value(j) = Panic
            order    == InOrder(at, Len(rows))
        IN  [panics |-> panics,
             avps |-> IF panics THEN <<>> ELSE [i \in 1..Len(order) |-> avp(order[i])]]
      H(f, from, l, to) ==
        Gathered(rows, pars, OfLevel(rows, from, l, to),
                 [j \in OfLevel(rows, from, l, to) |-> f[j + 1][l + 1][GroupEnd(rows, j, to)]])
      F(f) == [from \in 1..(Len(rows) + 1) |-> [l \in Nat |-> [to \in 0..Len(rows) |->
                 G(f, from, l, to)]]]
      c == CHOOSE f : f = F(f)
<1>1. ASSUME NEW f PROVE F(f) = [from \in 1..(Len(rows) + 1) |-> CollectStep(rows, pars, f, from)]
  <2>1. ASSUME NEW from \in 1..(Len(rows) + 1), NEW l \in Nat, NEW to \in 0..Len(rows)
        PROVE  G(f, from, l, to) = H(f, from, l, to)
    <3> DEFINE at == OfLevel(rows, from, l, to)
               groups == [j \in at |-> f[j + 1][l + 1][GroupEnd(rows, j, to)]]
               order == InOrder(at, Len(rows))
    <3>1. \A j \in at : groups[j] = f[j + 1][l + 1][GroupEnd(rows, j, to)]
      BY Zenon
    <3>2. at \subseteq Nat
      BY DEF OfLevel
    <3>3. order \in Seq(at)
      <4> HIDE DEF at
      <4>1. QED
        BY <3>2, InOrderFacts, Zenon
    <3>4. \A i \in 1..Len(order) : order[i] \in at
      <4> HIDE DEF order, at
      <4>1. QED
        BY <3>3
    <3>5. at = {j \in from..to : rows[j].level = l}
      BY Zenon DEF OfLevel
    <3>7. H(f, from, l, to) = Gathered(rows, pars, at, groups)
      BY Zenon
    <3> HIDE DEF groups, order, at, H
    <3>6. G(f, from, l, to) = Gathered(rows, pars, at, groups)
      BY <3>1, <3>4, <3>5, Zenon DEF Gathered, order
    <3>8. QED
      BY <3>6, <3>7, Zenon
  <2>2. ASSUME NEW from \in 1..(Len(rows) + 1)
        PROVE  CollectStep(rows, pars, f, from)
                 = [l \in Nat |-> [to \in 0..Len(rows) |-> H(f, from, l, to)]]
    BY Zenon DEF CollectStep
  <2> HIDE DEF G, H
  <2>3. ASSUME NEW from \in 1..(Len(rows) + 1), NEW l \in Nat
        PROVE  [to \in 0..Len(rows) |-> G(f, from, l, to)]
                 = [to \in 0..Len(rows) |-> H(f, from, l, to)]
    BY <2>1, Zenon
  <2>4. ASSUME NEW from \in 1..(Len(rows) + 1)
        PROVE  [l \in Nat |-> [to \in 0..Len(rows) |-> G(f, from, l, to)]]
                 = [l \in Nat |-> [to \in 0..Len(rows) |-> H(f, from, l, to)]]
    BY <2>3, Zenon
  <2>5. \A from \in 1..(Len(rows) + 1) :
          [l \in Nat |-> [to \in 0..Len(rows) |-> G(f, from, l, to)]]
            = CollectStep(rows, pars, f, from)
    BY <2>2, <2>4, Zenon
  <2>6. QED
    BY <2>5, Zenon
<1>2. PICK f : Collects(rows, pars, f, 1)
  BY CollectsExist, Zenon
<1>3. f = F(f)
  <2> HIDE DEF F
  <2>1. QED
    BY <1>1, <1>2, Zenon DEF Collects
<1>4. c = F(c)
  <2> HIDE DEF F
  <2>1. QED
    BY <1>3, Zenon
<1>5. \A level : collectRow(level, rows, pars) = c[1][level][Len(rows)]
  BY Zenon DEF collectRow
<1> HIDE DEF F, c
<1>6. QED
  BY <1>1, <1>4, <1>5, Zenon DEF Collects

-----------------------------------------------------------------------------
\* The lines under line q, and what is drawn there if f is what is drawn under each of them.
Under(ls, q) == {i \in 1..Len(ls) : Parent(ls, i) = q}
DrawnAvp(ls, pars, f, i) ==
  IF ls[i].avp_type = "Grouped" THEN Group(ls[i].avp_code, f[i])
  ELSE Leaf(ls[i].avp_code, Converted(ls[i].avp_type, Meaning(ls[i].expr, pars)))
DrawnStep(ls, pars, f, q) ==
  [k \in 1..Len(InOrder(Under(ls, q), Len(ls))) |->
     DrawnAvp(ls, pars, f, InOrder(Under(ls, q), Len(ls))[k])]

\* The lines before line i that are further out; the parent is the last of them.
Outer(ls, i) == {j \in 1..(i - 1) : ls[j].level < ls[i].level}

LEMMA ParentFacts ==
  ASSUME NEW ls, NEW i \in Nat
  PROVE  /\ Outer(ls, i) = {} => Parent(ls, i) = 0
         /\ Outer(ls, i) # {} => /\ Parent(ls, i) \in Outer(ls, i)
                                 /\ \A k \in Outer(ls, i) : k <= Parent(ls, i)
<1> DEFINE outer == Outer(ls, i)
<1>1. Parent(ls, i) = IF outer = {} THEN 0 ELSE CHOOSE j \in outer : \A k \in outer : k <= j
  BY Zenon DEF Parent, Outer
<1>2. outer \subseteq 1..(i - 1)
  BY DEF Outer
<1> HIDE DEF outer
<1>3. ASSUME outer # {} PROVE \E j \in outer : \A k \in outer : k <= j
  <2> DEFINE T == {i - j : j \in outer}
  <2>1. T \subseteq Nat
    BY <1>2
  <2>2. T # {}
    BY <1>3, Zenon
  <2>3. PICK x \in T : \A y \in T : x <= y
    <3> HIDE DEF T
    <3>1. QED
      BY <2>1, <2>2, LeastNumber, Zenon
  <2>4. PICK j \in outer : x = i - j
    BY Zenon
  <2>5. \A k \in outer : i - j <= i - k
    BY <2>3, <2>4
  <2>6. \A k \in outer : k <= j
    BY <1>2, <2>5
  <2>7. QED
    BY <2>6, Zenon
<1>4. QED
  BY <1>1, <1>3, Zenon DEF outer

\* A line is under an earlier one, or under the message.
LEMMA UnderLater ==
  ASSUME NEW ls, Len(ls) \in Nat, NEW q \in Nat, NEW i \in Under(ls, q)
  PROVE  i \in (q + 1)..Len(ls)
<1>1. i \in 1..Len(ls) /\ Parent(ls, i) = q
  BY DEF Under
<1>2. i \in Nat /\ i >= 1
  BY <1>1
<1>3. CASE Outer(ls, i) = {}
  <2>1. q = 0
    BY <1>1, <1>2, <1>3, ParentFacts, Zenon
  <2>2. QED
    BY <1>1, <2>1
<1>4. CASE Outer(ls, i) # {}
  <2>1. q \in Outer(ls, i)
    BY <1>1, <1>2, <1>4, ParentFacts, Zenon
  <2>2. q \in 1..(i - 1)
    BY <2>1 DEF Outer
  <2>3. QED
    BY <1>1, <2>2
<1>5. QED
  BY <1>3, <1>4, Zenon

\* The lines under a line, in their order, are lines under it.
LEMMA UnderInOrder ==
  ASSUME NEW ls, Len(ls) \in Nat, NEW q
  PROVE  \A k \in 1..Len(InOrder(Under(ls, q), Len(ls))) :
           InOrder(Under(ls, q), Len(ls))[k] \in Under(ls, q)
<1> DEFINE S == Under(ls, q)
           order == InOrder(S, Len(ls))
<1>1. S \subseteq Nat
  BY DEF Under
<1>2. order \in Seq(S)
  <2> HIDE DEF S
  <2>1. QED
    BY <1>1, InOrderFacts, Zenon
<1> HIDE DEF S, order
<1>3. \A k \in 1..Len(order) : order[k] \in S
  BY <1>2
<1>4. QED
  BY <1>3, Zenon DEF S, order

\* What is drawn under a line is made of what is drawn under later ones.
LEMMA DrawnStepLocal ==
  ASSUME NEW ls, Len(ls) \in Nat, NEW pars, NEW q \in 0..Len(ls), NEW f, NEW g,
         \A k \in (q + 1)..Len(ls) : f[k] = g[k]
  PROVE  DrawnStep(ls, pars, f, q) = DrawnStep(ls, pars, g, q)
<1> DEFINE order == InOrder(Under(ls, q), Len(ls))
<1>1. \A k \in 1..Len(order) : order[k] \in Under(ls, q)
  BY UnderInOrder, Zenon
<1>2. q \in Nat
  OBVIOUS
<1>3. \A k \in 1..Len(order) : f[order[k]] = g[order[k]]
  BY <1>1, <1>2, UnderLater, Zenon
<1>4. \A k \in 1..Len(order) : DrawnAvp(ls, pars, f, order[k]) = DrawnAvp(ls, pars, g, order[k])
  BY <1>3, Zenon DEF DrawnAvp
<1>5. QED
  BY <1>4, Zenon DEF DrawnStep

\* d is the recursive function of Drawn, from line q on.
Draws(ls, pars, d, q) == d = [p \in q..Len(ls) |-> DrawnStep(ls, pars, d, p)]

\* There is one.
LEMMA DrawsExist ==
  ASSUME NEW ls, Len(ls) \in Nat, NEW pars
  PROVE  \E d : Draws(ls, pars, d, 0)
<1> DEFINE n == Len(ls)
           S == {m \in Nat : m <= n => \E d : Draws(ls, pars, d, n - m)}
<1>1. 0 \in S
  <2> DEFINE d == [p \in n..n |-> DrawnStep(ls, pars, <<>>, p)]
  <2>1. ASSUME NEW p \in n..n
        PROVE  DrawnStep(ls, pars, <<>>, p) = DrawnStep(ls, pars, d, p)
    <3>1. p \in 0..n /\ \A k \in (p + 1)..n : <<>>[k] = d[k]
      OBVIOUS
    <3> HIDE DEF d
    <3>2. QED
      BY <3>1, DrawnStepLocal, Zenon
  <2>2. Draws(ls, pars, d, n)
    BY <2>1, Zenon DEF Draws
  <2>3. n - 0 = n /\ 0 \in Nat
    OBVIOUS
  <2> HIDE DEF n, d
  <2>4. QED
    BY <2>2, <2>3, Zenon
<1>2. \A m \in Nat : m \in S => m + 1 \in S
  <2> SUFFICES ASSUME NEW m \in Nat, m + 1 <= n, NEW c, Draws(ls, pars, c, n - m)
               PROVE  \E d : Draws(ls, pars, d, n - (m + 1))
    <3>1. \A m \in Nat : m + 1 \in Nat /\ (m + 1 <= n => m <= n)
      OBVIOUS
    <3> HIDE DEF n
    <3>2. QED
      BY <3>1, Zenon
  <2> DEFINE k == n - m
             q == n - (m + 1)
             d == [p \in q..n |-> IF p = q THEN DrawnStep(ls, pars, c, q) ELSE c[p]]
  <2>1. /\ q \in 0..n /\ k \in 0..n /\ q + 1 = k /\ q < k
        /\ \A p \in q..n : p # q => p \in k..n
    OBVIOUS
  <2>2. c = [p \in k..n |-> DrawnStep(ls, pars, c, p)]
    BY Zenon DEF Draws
  <2> HIDE DEF k, q
  <2>3. \A p \in k..n : d[p] = c[p]
    BY <2>1
  <2>4. ASSUME NEW p \in q..n PROVE d[p] = DrawnStep(ls, pars, d, p)
    <3>1. p \in 0..n /\ \A i \in (p + 1)..n : c[i] = d[i]
      BY <2>1, <2>3
    <3>2. d[p] = DrawnStep(ls, pars, c, p)
      <4>1. CASE p = q
        BY <4>1, Zenon
      <4>2. CASE p # q
        BY <2>1, <2>2, <4>2, Zenon
      <4>3. QED
        BY <4>1, <4>2, Zenon
    <3> HIDE DEF d
    <3>3. QED
      BY <3>1, <3>2, DrawnStepLocal, Zenon
  <2>5. d = [p \in q..n |-> DrawnStep(ls, pars, d, p)]
    <3> DEFINE e == [p \in q..n |-> DrawnStep(ls, pars, d, p)]
    <3>1. \A p \in q..n : d[p] = e[p]
      BY <2>4, Zenon
    <3>2. DOMAIN d = DOMAIN e
      BY Zenon
    <3>3. d = [p \in q..n |-> d[p]] /\ e = [p \in q..n |-> e[p]]
      BY Zenon
    <3> HIDE DEF d, e
    <3>4. d = e
      BY <3>1, <3>3, Zenon
    <3>5. QED
      BY <3>4, Zenon DEF e
  <2>6. Draws(ls, pars, d, q)
    BY <2>5, Zenon DEF Draws
  <2>7. QED
    BY <2>6, Zenon DEF q
<1> HIDE DEF S
<1>3. n \in S
  BY <1>1, <1>2, SetInduction, Zenon
<1>4. n - n = 0 /\ n <= n
  OBVIOUS
<1>5. QED
  BY <1>3, <1>4, Zenon DEF S

\* Drawn, with its recursive function named.
IsDrawn(ls, pars, d) == Draws(ls, pars, d, 0) /\ \A p : Drawn(ls, p, pars) = d[p]

LEMMA DrawnFunction ==
  ASSUME NEW ls, Len(ls) \in Nat, NEW pars
  PROVE  \E d : IsDrawn(ls, pars, d)
<1> DEFINE
      G(f, q) ==
        LET members == InOrder({i \in 1..Len(ls) : Parent(ls, i) = q}, Len(ls))
            avp(i)  == IF ls[i].avp_type = "Grouped" THEN Group(ls[i].avp_code, f[i])
                       ELSE Leaf(ls[i].avp_code,
                                 Converted(ls[i].avp_type, Meaning(ls[i].expr, pars)))
        IN  [k \in 1..Len(members) |-> avp(members[k])]
      F(f) == [q \in 0..Len(ls) |-> G(f, q)]
      d == CHOOSE f : f = F(f)
<1>1. ASSUME NEW f PROVE F(f) = [q \in 0..Len(ls) |-> DrawnStep(ls, pars, f, q)]
  <2>1. \A q : G(f, q) = DrawnStep(ls, pars, f, q)
    BY Zenon DEF DrawnStep, DrawnAvp, Under
  <2> HIDE DEF G
  <2>2. QED
    BY <2>1, Zenon
<1>2. PICK f : Draws(ls, pars, f, 0)
  BY DrawsExist, Zenon
<1>3. f = F(f)
  <2> HIDE DEF F
  <2>1. QED
    BY <1>1, <1>2, Zenon DEF Draws
<1>4. d = F(d)
  <2> HIDE DEF F
  <2>1. QED
    BY <1>3, Zenon
<1>5. \A p : Drawn(ls, p, pars) = d[p]
  BY Zenon DEF Drawn
<1> HIDE DEF F, d
<1>6. QED
  BY <1>1, <1>4, <1>5, Zenon DEF Draws, IsDrawn

-----------------------------------------------------------------------------
(***************************************************************************)
(* What the levels of the lines say.                                       *)
(***************************************************************************)
\* The lines of a file that was accepted and whose levels do not jump.
Laid(ls) ==
  /\ Len(ls) \in Nat
  /\ \A i \in 1..Len(ls) : ls[i].level \in Nat
  /\ Aligned(ls)
  /\ NoJumps(ls)

\* The level of line p; the message, line 0, is further out than all lines.
LevelOf(ls, p) == IF p = 0 THEN -1 ELSE ls[p].level

\* The lines after p up to to are the ones further in than p that follow it.
Span(ls, p, to) ==
  /\ p \in 0..Len(ls) /\ to \in p..Len(ls)
  /\ \A k \in (p + 1)..to : ls[k].level > LevelOf(ls, p)
  /\ to < Len(ls) => ls[to + 1].level <= LevelOf(ls, p)

\* What an accepted file without jumps says of a line and the one after it.
LEMMA LevelFacts ==
  ASSUME NEW ls, Laid(ls), NEW p \in 0..Len(ls)
  PROVE  /\ Len(ls) \in Nat /\ p \in Nat
         /\ \A i \in 1..Len(ls) : ls[i].level \in Nat
         /\ LevelOf(ls, p) \in Int /\ LevelOf(ls, p) + 1 \in Nat
         /\ p # 0 => LevelOf(ls, p) = ls[p].level
         /\ p < Len(ls) => p + 1 \in 1..Len(ls) /\ ls[p + 1].level <= LevelOf(ls, p) + 1
         /\ p < Len(ls) /\ p # 0 /\ ls[p + 1].level = ls[p].level + 1 => ls[p].avp_type = "Grouped"
<1>1. Len(ls) \in Nat /\ p \in Nat /\ \A i \in 1..Len(ls) : ls[i].level \in Nat
  BY DEF Laid
<1>2. /\ LevelOf(ls, p) \in Int /\ LevelOf(ls, p) + 1 \in Nat
      /\ p # 0 => LevelOf(ls, p) = ls[p].level
  BY <1>1 DEF LevelOf
<1>3. ASSUME p < Len(ls) PROVE p + 1 \in 1..Len(ls) /\ ls[p + 1].level <= LevelOf(ls, p) + 1
  <2>0. p + 1 \in 1..Len(ls)
    BY <1>1, <1>3
  <2>1. CASE p = 0
    <3>1. ls # <<>>
      BY <1>1, <1>3
    <3>2. ls[1].level = 0
      BY <3>1 DEF Laid, Aligned
    <3>3. QED
      BY <2>0, <2>1, <3>2 DEF LevelOf
  <2>2. CASE p # 0
    <3>1. p + 1 \in 2..Len(ls) /\ (p + 1) - 1 = p
      BY <1>1, <1>3, <2>2
    <3>2. ls[p + 1].level <= ls[p].level + 1
      BY <3>1, Zenon DEF Laid, NoJumps
    <3>3. QED
      BY <1>2, <2>0, <2>2, <3>2
  <2>3. QED
    BY <2>1, <2>2
<1>4. ASSUME p < Len(ls), p # 0, ls[p + 1].level = ls[p].level + 1
      PROVE  ls[p].avp_type = "Grouped"
  <2>1. p + 1 \in 2..Len(ls) /\ (p + 1) - 1 = p
    BY <1>1, <1>4
  <2>2. QED
    BY <1>4, <2>1, Zenon DEF Laid, Aligned
<1>5. QED
  BY <1>1, <1>2, <1>3, <1>4, Zenon

\* The lines further in than p by one level are under it.
LEMMA OneFurtherIn ==
  ASSUME NEW ls, Laid(ls), NEW p, NEW to, Span(ls, p, to),
         NEW i \in (p + 1)..to, ls[i].level = LevelOf(ls, p) + 1
  PROVE  Parent(ls, i) = p
<1>1. /\ p \in 0..Len(ls) /\ to \in p..Len(ls)
      /\ \A k \in (p + 1)..to : ls[k].level > LevelOf(ls, p)
  BY DEF Span
<1>2. /\ Len(ls) \in Nat /\ p \in Nat
      /\ \A k \in 1..Len(ls) : ls[k].level \in Nat
      /\ LevelOf(ls, p) \in Int
      /\ p # 0 => LevelOf(ls, p) = ls[p].level
  BY <1>1, LevelFacts, Zenon
<1>3. i \in Nat /\ i \in 1..Len(ls) /\ i <= to /\ p < i
  BY <1>1, <1>2
<1>4. \A k \in Outer(ls, i) : k <= p
  <2> SUFFICES ASSUME NEW k \in Outer(ls, i), k > p PROVE FALSE
    BY <1>2 DEF Outer
  <2>1. k \in 1..(i - 1) /\ ls[k].level < ls[i].level
    BY DEF Outer
  <2>2. k \in (p + 1)..to /\ k \in 1..Len(ls)
    BY <1>1, <1>2, <1>3, <2>1
  <2>3. ls[k].level > LevelOf(ls, p) /\ ls[k].level \in Nat
    BY <1>1, <1>2, <2>2, Zenon
  <2>4. QED
    BY <1>2, <2>1, <2>3
<1>5. CASE p = 0
  <2>1. Outer(ls, i) = {}
    <3> SUFFICES ASSUME NEW k \in Outer(ls, i) PROVE FALSE
      BY Zenon
    <3>1. k <= 0 /\ k \in 1..(i - 1)
      BY <1>4, <1>5 DEF Outer
    <3>2. QED
      BY <3>1
  <2>2. QED
    BY <1>3, <1>5, <2>1, ParentFacts, Zenon
<1>6. CASE p # 0
  <2>1. p \in Outer(ls, i)
    BY <1>2, <1>3, <1>6 DEF Outer
  <2>2. Outer(ls, i) # {}
    BY <2>1, Zenon
  <2>3. Parent(ls, i) \in Outer(ls, i) /\ p <= Parent(ls, i)
    BY <1>3, <2>1, <2>2, ParentFacts, Zenon
  <2>4. Parent(ls, i) <= p /\ Parent(ls, i) \in Int
    BY <1>4, <2>3 DEF Outer
  <2>5. QED
    BY <1>2, <2>3, <2>4
<1>7. QED
  BY <1>5, <1>6

\* The line after a line that has lines under it is one level further in, and so
\* are the lines under it.
LEMMA UnderLevel ==
  ASSUME NEW ls, Laid(ls), NEW p \in 0..Len(ls), NEW i \in Under(ls, p)
  PROVE  /\ i \in (p + 1)..Len(ls)
         /\ ls[i].level = LevelOf(ls, p) + 1
         /\ ls[p + 1].level = LevelOf(ls, p) + 1
         /\ \A k \in (p + 1)..(i - 1) : ls[k].level >= ls[i].level
<1>1. /\ Len(ls) \in Nat /\ p \in Nat
      /\ \A k \in 1..Len(ls) : ls[k].level \in Nat
      /\ LevelOf(ls, p) \in Int /\ LevelOf(ls, p) + 1 \in Nat
      /\ p # 0 => LevelOf(ls, p) = ls[p].level
      /\ p < Len(ls) => p + 1 \in 1..Len(ls) /\ ls[p + 1].level <= LevelOf(ls, p) + 1
  BY LevelFacts, Zenon
<1>2. i \in (p + 1)..Len(ls)
  BY <1>1, UnderLater, Zenon
<1>3. i \in Nat /\ i \in 1..Len(ls) /\ p < i /\ p < Len(ls) /\ Parent(ls, i) = p
  BY <1>1, <1>2 DEF Under
<1>4. \A k \in Outer(ls, i) : k <= p
  <2>1. CASE Outer(ls, i) = {}
    BY <2>1, Zenon
  <2>2. CASE Outer(ls, i) # {}
    BY <1>3, <2>2, ParentFacts, Zenon
  <2>3. QED
    BY <2>1, <2>2, Zenon
<1>5. \A k \in (p + 1)..(i - 1) : ls[k].level >= ls[i].level
  <2> SUFFICES ASSUME NEW k \in (p + 1)..(i - 1), ls[k].level < ls[i].level PROVE FALSE
    <3>1. \A k \in (p + 1)..(i - 1) : ls[k].level \in Nat /\ ls[i].level \in Nat
      <4>1. \A k \in (p + 1)..(i - 1) : k \in 1..Len(ls)
        BY <1>1, <1>2
      <4>2. QED
        BY <1>1, <1>3, <4>1, Zenon
    <3>2. QED
      BY <3>1
  <2>1. k \in Outer(ls, i) /\ k > p
    BY <1>1, <1>3 DEF Outer
  <2>2. k <= p
    BY <1>4, <2>1, Zenon
  <2>3. QED
    BY <1>1, <2>1, <2>2
<1>6. ls[i].level > LevelOf(ls, p)
  <2>1. CASE p = 0
    BY <1>1, <1>3, <2>1 DEF LevelOf
  <2>2. CASE p # 0
    <3>1. Outer(ls, i) # {}
      BY <1>3, <2>2, ParentFacts, Zenon
    <3>2. p \in Outer(ls, i)
      BY <1>3, <3>1, ParentFacts, Zenon
    <3>3. ls[p].level < ls[i].level
      BY <3>2 DEF Outer
    <3>4. p \in 1..Len(ls)
      BY <1>1, <2>2
    <3>5. QED
      BY <1>1, <1>3, <2>2, <3>3, <3>4
  <2>3. QED
    BY <2>1, <2>2
<1>7. ls[p + 1].level >= ls[i].level
  <2>1. CASE i = p + 1
    BY <1>1, <1>3, <2>1
  <2>2. CASE i # p + 1
    <3>1. p + 1 \in (p + 1)..(i - 1)
      BY <1>1, <1>3, <2>2
    <3>2. QED
      BY <1>5, <3>1, Zenon
  <2>3. QED
    BY <2>1, <2>2
<1>8. ls[p + 1].level \in Nat /\ ls[i].level \in Nat /\ ls[p + 1].level <= LevelOf(ls, p) + 1
  BY <1>1, <1>3, Zenon
<1>9. ls[i].level = LevelOf(ls, p) + 1 /\ ls[p + 1].level = LevelOf(ls, p) + 1
  BY <1>1, <1>6, <1>7, <1>8
<1>10. QED
  BY <1>2, <1>5, <1>9, Zenon

\* A line with lines under it is Grouped.
LEMMA ParentGrouped ==
  ASSUME NEW ls, Laid(ls), NEW i \in 1..Len(ls), Parent(ls, i) # 0
  PROVE  ls[Parent(ls, i)].avp_type = "Grouped"
<1> DEFINE p == Parent(ls, i)
<1>1. Len(ls) \in Nat
  BY DEF Laid
<1>2. i \in Nat
  BY <1>1
<1>3. Outer(ls, i) # {}
  BY <1>2, ParentFacts, Zenon
<1>4. p \in Outer(ls, i)
  BY <1>2, <1>3, ParentFacts, Zenon
<1>5. p \in 1..(i - 1)
  BY <1>4, Zenon DEF Outer
<1>6. i \in Under(ls, p)
  BY Zenon DEF Under
<1> HIDE DEF p
<1>7. p \in 0..Len(ls) /\ p # 0 /\ p < Len(ls)
  BY <1>1, <1>5
<1>8. ls[p + 1].level = LevelOf(ls, p) + 1
  BY <1>6, <1>7, UnderLevel, Zenon
<1>9. LevelOf(ls, p) = ls[p].level
  BY <1>7, LevelFacts, Zenon
<1>10. ls[p].avp_type = "Grouped"
  BY <1>7, <1>8, <1>9, LevelFacts, Zenon
<1>11. QED
  BY <1>10, Zenon DEF p

\* The rows of a call are the lines under p.
LEMMA RowsOfACall ==
  ASSUME NEW ls, Laid(ls), NEW p, NEW to, Span(ls, p, to)
  PROVE  OfLevel(ls, p + 1, LevelOf(ls, p) + 1, to) = Under(ls, p)
<1>1. /\ p \in 0..Len(ls) /\ to \in p..Len(ls)
      /\ to < Len(ls) => ls[to + 1].level <= LevelOf(ls, p)
  BY DEF Span
<1>2. /\ Len(ls) \in Nat /\ p \in Nat
      /\ \A k \in 1..Len(ls) : ls[k].level \in Nat
      /\ LevelOf(ls, p) \in Int
      /\ p # 0 => LevelOf(ls, p) = ls[p].level
  BY <1>1, LevelFacts, Zenon
<1>3. ASSUME NEW i \in OfLevel(ls, p + 1, LevelOf(ls, p) + 1, to) PROVE i \in Under(ls, p)
  <2>1. i \in (p + 1)..to /\ ls[i].level = LevelOf(ls, p) + 1
    BY DEF OfLevel
  <2>2. Parent(ls, i) = p
    BY <2>1, OneFurtherIn, Zenon
  <2>3. i \in 1..Len(ls)
    BY <1>1, <1>2, <2>1
  <2>4. QED
    BY <2>2, <2>3 DEF Under
<1>4. ASSUME NEW i \in Under(ls, p) PROVE i \in OfLevel(ls, p + 1, LevelOf(ls, p) + 1, to)
  <2>1. /\ i \in (p + 1)..Len(ls)
        /\ ls[i].level = LevelOf(ls, p) + 1
        /\ \A k \in (p + 1)..(i - 1) : ls[k].level >= ls[i].level
    BY <1>1, UnderLevel, Zenon
  <2>2. i <= to
    <3> SUFFICES ASSUME to < i PROVE FALSE
      BY <1>1, <1>2, <2>1
    <3>1. to + 1 \in 1..Len(ls) /\ to < Len(ls)
      BY <1>1, <1>2, <2>1
    <3>2. ls[to + 1].level <= LevelOf(ls, p) /\ ls[to + 1].level \in Nat
      BY <1>1, <1>2, <3>1, Zenon
    <3>3. CASE to + 1 = i
      BY <1>2, <2>1, <3>2, <3>3
    <3>4. CASE to + 1 # i
      <4>1. to + 1 \in (p + 1)..(i - 1)
        BY <1>1, <1>2, <2>1, <3>4
      <4>2. ls[to + 1].level >= ls[i].level
        BY <2>1, <4>1, Zenon
      <4>3. QED
        BY <1>2, <2>1, <3>2, <4>2
    <3>5. QED
      BY <3>3, <3>4
  <2>3. QED
    BY <1>1, <1>2, <2>1, <2>2 DEF OfLevel
<1>5. QED
  BY <1>3, <1>4, Zenon

\* The end of a group: the rows up to it are of other levels, the next one is not.
GroupEndsAt(ls, j, to, end) ==
  /\ end \in j..to
  /\ \A k \in (j + 1)..end : ls[k].level # ls[j].level
  /\ end < to => ls[end + 1].level = ls[j].level

LEMMA GroupEndFacts ==
  ASSUME NEW ls, NEW j \in Nat, NEW to \in Nat, j <= to
  PROVE  GroupEndsAt(ls, j, to, GroupEnd(ls, j, to))
<1> DEFINE next == {s \in (j + 1)..to : ls[s].level = ls[j].level}
<1>1. GroupEnd(ls, j, to) = IF next = {} THEN to ELSE Min(next) - 1
  BY Zenon DEF GroupEnd
<1>2. next \subseteq Nat
  OBVIOUS
<1>3. CASE next = {}
  <2>1. GroupEnd(ls, j, to) = to
    BY <1>1, <1>3, Zenon
  <2>2. \A k \in (j + 1)..to : ls[k].level # ls[j].level
    BY <1>3, Zenon
  <2>3. QED
    BY <2>1, <2>2 DEF GroupEndsAt
<1>4. CASE next # {}
  <2>1. GroupEnd(ls, j, to) = Min(next) - 1
    BY <1>1, <1>4, Zenon
  <2>2. Min(next) \in next /\ \A y \in next : Min(next) <= y
    <3> HIDE DEF next
    <3>1. \E x \in next : \A y \in next : x <= y
      BY <1>2, <1>4, LeastNumber, Zenon
    <3>2. QED
      BY <3>1, Zenon DEF Min
  <2> DEFINE m == Min(next)
  <2>3. m \in (j + 1)..to /\ ls[m].level = ls[j].level
    BY <2>2, Zenon
  <2>4. \A y \in (j + 1)..to : ls[y].level = ls[j].level => m <= y
    BY <2>2, Zenon
  <2>5. GroupEnd(ls, j, to) = m - 1
    BY <2>1, Zenon
  <2> HIDE DEF m, next
  <2>6. m - 1 \in j..to /\ (m - 1) + 1 = m
    BY <2>3
  <2>7. \A k \in (j + 1)..(m - 1) : ls[k].level # ls[j].level
    <3> SUFFICES ASSUME NEW k \in (j + 1)..(m - 1), ls[k].level = ls[j].level PROVE FALSE
      BY Zenon
    <3>1. k \in (j + 1)..to
      BY <2>3
    <3>2. m <= k
      BY <2>4, <3>1, Zenon
    <3>3. QED
      BY <2>3, <3>2
  <2>8. QED
    BY <2>3, <2>5, <2>6, <2>7, Zenon DEF GroupEndsAt
<1>5. QED
  BY <1>3, <1>4, Zenon

\* The rows a group takes are its span.
LEMMA SpanOfAGroup ==
  ASSUME NEW ls, Laid(ls), NEW p, NEW to, Span(ls, p, to),
         NEW j \in (p + 1)..to, ls[j].level = LevelOf(ls, p) + 1
  PROVE  Span(ls, j, GroupEnd(ls, j, to))
<1> DEFINE end == GroupEnd(ls, j, to)
<1>1. /\ p \in 0..Len(ls) /\ to \in p..Len(ls)
      /\ \A k \in (p + 1)..to : ls[k].level > LevelOf(ls, p)
      /\ to < Len(ls) => ls[to + 1].level <= LevelOf(ls, p)
  BY DEF Span
<1>2. /\ Len(ls) \in Nat /\ p \in Nat
      /\ \A k \in 1..Len(ls) : ls[k].level \in Nat
      /\ LevelOf(ls, p) \in Int
  BY <1>1, LevelFacts, Zenon
<1>3. j \in Nat /\ to \in Nat /\ j <= to /\ j # 0 /\ p < j
  BY <1>1, <1>2
<1>4. /\ end \in j..to
      /\ \A k \in (j + 1)..end : ls[k].level # ls[j].level
      /\ end < to => ls[end + 1].level = ls[j].level
  <2>1. GroupEndsAt(ls, j, to, end)
    BY <1>3, GroupEndFacts, Zenon
  <2> HIDE DEF end
  <2>2. QED
    BY <2>1, Zenon DEF GroupEndsAt
<1> HIDE DEF end
<1>5. LevelOf(ls, j) = ls[j].level
  BY <1>3, Zenon DEF LevelOf
<1>6. j \in 0..Len(ls) /\ end \in j..Len(ls)
  BY <1>1, <1>2, <1>3, <1>4
<1>7. ASSUME NEW k \in (j + 1)..end PROVE ls[k].level > LevelOf(ls, j)
  <2>1. k \in (p + 1)..to /\ k \in 1..Len(ls)
    BY <1>1, <1>2, <1>3, <1>4
  <2>2. ls[k].level \in Nat /\ ls[k].level > LevelOf(ls, p) /\ ls[k].level # ls[j].level
    BY <1>1, <1>2, <1>4, <2>1, Zenon
  <2>3. QED
    BY <1>2, <1>5, <2>2
<1>8. ASSUME end < Len(ls) PROVE ls[end + 1].level <= LevelOf(ls, j)
  <2>1. end + 1 \in 1..Len(ls)
    BY <1>2, <1>6, <1>8
  <2>2. ls[end + 1].level \in Nat
    BY <1>2, <2>1, Zenon
  <2>3. CASE end < to
    BY <1>4, <1>5, <2>2, <2>3
  <2>4. CASE end = to
    <3>1. ls[end + 1].level <= LevelOf(ls, p)
      BY <1>1, <1>8, <2>4
    <3>2. QED
      BY <1>2, <1>5, <2>2, <3>1
  <2>5. QED
    BY <1>3, <1>4, <2>3, <2>4
<1>9. Span(ls, j, end)
  BY <1>6, <1>7, <1>8 DEF Span
<1>10. QED
  BY <1>9, Zenon DEF end

\* A line in a span is of the rows of the call or in a group that one of them takes.
LEMMA NoLineLeftOut ==
  ASSUME NEW ls, Laid(ls), NEW p, NEW to, Span(ls, p, to), NEW i \in (p + 1)..to,
         ls[i].level # LevelOf(ls, p) + 1
  PROVE  \E j \in OfLevel(ls, p + 1, LevelOf(ls, p) + 1, to) :
           /\ ls[j].avp_type = "Grouped"
           /\ i \in (j + 1)..GroupEnd(ls, j, to)
<1> DEFINE l == LevelOf(ls, p) + 1
<1>1. /\ p \in 0..Len(ls) /\ to \in p..Len(ls)
      /\ \A k \in (p + 1)..to : ls[k].level > LevelOf(ls, p)
  BY DEF Span
<1>2. /\ Len(ls) \in Nat /\ p \in Nat
      /\ \A k \in 1..Len(ls) : ls[k].level \in Nat
      /\ LevelOf(ls, p) \in Int
      /\ p < Len(ls) => ls[p + 1].level <= LevelOf(ls, p) + 1
  BY <1>1, LevelFacts, Zenon
<1>3. i \in Nat /\ i \in 1..Len(ls) /\ p < i /\ p < Len(ls) /\ i <= to /\ to \in Nat
  BY <1>1, <1>2
<1>4. \A k \in (p + 1)..to : ls[k].level \in Nat /\ ls[k].level >= l
  <2> SUFFICES ASSUME NEW k \in (p + 1)..to PROVE ls[k].level \in Nat /\ ls[k].level >= l
    OBVIOUS
  <2>1. k \in 1..Len(ls)
    BY <1>1, <1>2
  <2>2. ls[k].level \in Nat /\ ls[k].level > LevelOf(ls, p)
    BY <1>1, <1>2, <2>1, Zenon
  <2>3. QED
    BY <1>2, <2>2
<1>5. l \in Int /\ ls[p + 1].level <= l /\ ls[i].level # l
  BY <1>2, <1>3
<1>6. p + 1 \in (p + 1)..to
  BY <1>1, <1>2, <1>3
<1>7. ls[p + 1].level = l
  BY <1>4, <1>5, <1>6
<1> DEFINE T == {m \in Nat : i - m \in (p + 1)..(i - 1) /\ ls[i - m].level = l}
<1> HIDE DEF l
<1>8. p + 1 < i
  <2>1. i # p + 1
    BY <1>5, <1>7
  <2>2. QED
    BY <1>2, <1>3, <2>1
<1>9. i - (p + 1) \in T
  <2>1. i - (p + 1) \in Nat /\ i - (i - (p + 1)) = p + 1 /\ p + 1 \in (p + 1)..(i - 1)
    BY <1>2, <1>3, <1>8
  <2>2. QED
    BY <1>7, <2>1, Zenon
<1>10. PICK m \in T : \A y \in T : m <= y
  <2>1. T \subseteq Nat /\ T # {}
    BY <1>9, Zenon
  <2> HIDE DEF T
  <2>2. QED
    BY <2>1, LeastNumber, Zenon
<1> DEFINE j == i - m
<1>11. m \in Nat /\ j \in (p + 1)..(i - 1) /\ ls[j].level = l
  BY <1>10, Zenon
<1>12. ASSUME NEW k \in (j + 1)..(i - 1) PROVE ls[k].level # l
  <2> SUFFICES ASSUME ls[k].level = l PROVE FALSE
    BY Zenon
  <2>1. i - k \in Nat /\ i - (i - k) = k /\ k \in (p + 1)..(i - 1) /\ i - k < m
    BY <1>2, <1>3, <1>11
  <2>2. i - k \in T
    BY <2>1, Zenon
  <2>3. m <= i - k
    BY <1>10, <2>2, Zenon
  <2>4. QED
    BY <1>11, <2>1, <2>3
<1> HIDE DEF j, T
<1>13. /\ j \in (p + 1)..to /\ j \in Nat /\ j <= to /\ j # 0 /\ j < i
       /\ j \in 0..Len(ls) /\ j < Len(ls) /\ j + 1 \in (p + 1)..to
  BY <1>1, <1>2, <1>3, <1>11
<1>14. j \in OfLevel(ls, p + 1, l, to)
  BY <1>11, <1>13, Zenon DEF OfLevel
<1>15. ls[j].avp_type = "Grouped"
  <2>1. ls[j + 1].level # l
    <3>1. CASE j + 1 = i
      BY <1>5, <3>1, Zenon
    <3>2. CASE j + 1 # i
      <4>1. j + 1 \in (j + 1)..(i - 1)
        BY <1>3, <1>13, <3>2
      <4>2. QED
        BY <1>12, <4>1, Zenon
    <3>3. QED
      BY <3>1, <3>2, Zenon
  <2>2. LevelOf(ls, j) = ls[j].level /\ ls[j + 1].level <= LevelOf(ls, j) + 1
    BY <1>13, LevelFacts, Zenon
  <2>3. ls[j + 1].level \in Nat /\ ls[j + 1].level >= l
    BY <1>4, <1>13, Zenon
  <2>4. ls[j + 1].level = ls[j].level + 1
    BY <1>5, <1>11, <2>1, <2>2, <2>3
  <2>5. QED
    BY <1>13, <2>4, LevelFacts, Zenon
<1>16. i \in (j + 1)..GroupEnd(ls, j, to)
  <2> DEFINE end == GroupEnd(ls, j, to)
  <2>a. GroupEndsAt(ls, j, to, end)
    BY <1>3, <1>13, GroupEndFacts, Zenon
  <2> HIDE DEF end
  <2>1. end \in j..to /\ (end < to => ls[end + 1].level = ls[j].level)
    BY <2>a, Zenon DEF GroupEndsAt
  <2>2. i <= end
    <3> SUFFICES ASSUME end < i PROVE FALSE
      BY <1>3, <1>13, <2>1
    <3>1. ls[end + 1].level = l
      BY <1>3, <1>11, <1>13, <2>1
    <3>2. CASE end + 1 = i
      BY <1>5, <3>1, <3>2, Zenon
    <3>3. CASE end + 1 # i
      <4>1. end + 1 \in (j + 1)..(i - 1)
        BY <1>3, <1>13, <2>1, <3>3
      <4>2. QED
        BY <1>12, <3>1, <4>1, Zenon
    <3>4. QED
      BY <3>2, <3>3, Zenon
  <2>3. i \in (j + 1)..end
    BY <1>3, <1>13, <2>1, <2>2
  <2>4. QED
    BY <2>3, Zenon DEF end
<1>17. QED
  BY <1>14, <1>15, <1>16, Zenon DEF l

-----------------------------------------------------------------------------
(***************************************************************************)
(* The rows of a file are those of its lines.                              *)
(***************************************************************************)
\* Lines as AvpLine writes them, and the rows it makes of them.
Written(ls) ==
  /\ \E S : ls \in Seq(S)
  /\ \A i \in 1..Len(ls) :
       /\ ls[i].level \in Nat
       /\ \E line \in AvpLines : ls[i].avp_type = line.avp_type /\ ls[i].expr = line.expr

RowOf(l) == makeTmplRow(l.level, l.avp_code, l.avp_type, l.expr)
RowsOf(ls) == [i \in 1..Len(ls) |-> RowOf(ls[i])]

\* Rows keep the level, the code and the type of their lines.
SameLines(rows, ls) ==
  /\ Len(rows) = Len(ls)
  /\ rows = <<>> <=> ls = <<>>
  /\ \A i \in 1..Len(ls) : /\ rows[i].level = ls[i].level
                           /\ rows[i].avp_code = ls[i].avp_code
                           /\ rows[i].avp_type = ls[i].avp_type

LEMMA RowsAreLines ==
  ASSUME NEW ls, NEW S, ls \in Seq(S)
  PROVE  SameLines(RowsOf(ls), ls)
<1> DEFINE n == Len(ls)
<1>1. Len(RowsOf(ls)) = n
  <2>1. RowsOf(ls) = [i \in 1..n |-> RowOf(ls[i])]
    BY Zenon DEF RowsOf
  <2>2. n \in Nat
    OBVIOUS
  <2> HIDE DEF n
  <2>3. Len([i \in 1..n |-> RowOf(ls[i])]) = n
    BY <2>2
  <2>4. QED
    BY <2>1, <2>3
<1>a. RowsOf(ls) = <<>> <=> ls = <<>>
  <2>1. ls = <<>> <=> n = 0
    OBVIOUS
  <2>2. n \in Nat /\ RowsOf(ls) = [i \in 1..n |-> RowOf(ls[i])]
    BY DEF RowsOf
  <2> HIDE DEF n
  <2>3. [i \in 1..n |-> RowOf(ls[i])] = <<>> <=> n = 0
    BY <2>2
  <2>4. QED
    BY <2>1, <2>2, <2>3, Zenon
<1>2. \A i \in 1..n : RowsOf(ls)[i] = RowOf(ls[i])
  BY Zenon DEF RowsOf
<1>3. ASSUME NEW i \in 1..n
      PROVE  /\ RowsOf(ls)[i].level = ls[i].level
             /\ RowsOf(ls)[i].avp_code = ls[i].avp_code
             /\ RowsOf(ls)[i].avp_type = ls[i].avp_type
  <2>1. RowsOf(ls)[i] = makeTmplRow(ls[i].level, ls[i].avp_code, ls[i].avp_type, ls[i].expr)
    BY <1>2, Zenon DEF RowOf
  <2> DEFINE v == ls[i].level
             c == ls[i].avp_code
             t == ls[i].avp_type
             e == ls[i].expr
             row == makeTmplRow(v, c, t, e)
  <2>2. row.level = v /\ row.avp_code = c /\ row.avp_type = t
    <3> HIDE DEF v, c, t, e
    <3>1. QED
      BY RowFacts
  <2> HIDE DEF row
  <2>3. RowsOf(ls)[i] = row
    BY <2>1, Zenon DEF row
  <2>4. QED
    BY <2>2, <2>3, Zenon
<1>4. QED
  BY <1>1, <1>a, <1>3, Zenon DEF SameLines

\* So what is taken of them by level is the same.
LEMMA SameLevels ==
  ASSUME NEW rows, NEW ls, NEW S, ls \in Seq(S), SameLines(rows, ls)
  PROVE  /\ Aligned(rows) <=> Aligned(ls)
         /\ \A l : \A from \in 1..(Len(ls) + 1), to \in 0..Len(ls) :
              OfLevel(rows, from, l, to) = OfLevel(ls, from, l, to)
         /\ \A j \in 1..Len(ls), to \in 0..Len(ls) : GroupEnd(rows, j, to) = GroupEnd(ls, j, to)
<1> DEFINE n == Len(ls)
<1>a. n \in Nat /\ (ls # <<>> => 1 \in 1..n)
  OBVIOUS
<1>1. /\ Len(rows) = n /\ n \in Nat /\ (rows = <<>> <=> ls = <<>>)
      /\ ls # <<>> => 1 \in 1..n
      /\ \A i \in 1..n : rows[i].level = ls[i].level /\ rows[i].avp_type = ls[i].avp_type
  BY <1>a, Zenon DEF SameLines
<1>2. ASSUME NEW from \in 1..(n + 1), NEW to \in 0..n, NEW l
      PROVE  OfLevel(rows, from, l, to) = OfLevel(ls, from, l, to)
  <2>1. \A j \in from..to : j \in 1..n
    BY <1>1
  <2>2. \A j \in from..to : rows[j].level = ls[j].level
    BY <1>1, <2>1, Zenon
  <2>3. QED
    BY <2>2, Zenon DEF OfLevel
<1>3. ASSUME NEW j \in 1..n, NEW to \in 0..n
      PROVE  GroupEnd(rows, j, to) = GroupEnd(ls, j, to)
  <2>1. \A s \in (j + 1)..to : s \in 1..n
    BY <1>1
  <2>2. \A s \in (j + 1)..to : rows[s].level = ls[s].level
    BY <1>1, <2>1, Zenon
  <2>3. rows[j].level = ls[j].level
    BY <1>1, Zenon
  <2>4. {s \in (j + 1)..to : rows[s].level = rows[j].level}
          = {s \in (j + 1)..to : ls[s].level = ls[j].level}
    BY <2>2, <2>3, Zenon
  <2>5. QED
    BY <2>4, Zenon DEF GroupEnd
<1>4. Aligned(rows) <=> Aligned(ls)
  <2>1. \A j \in 2..n : j \in 1..n /\ j - 1 \in 1..n
    BY <1>1
  <2>2. \A j \in 2..n : /\ rows[j].level = ls[j].level /\ rows[j - 1].level = ls[j - 1].level
                        /\ rows[j - 1].avp_type = ls[j - 1].avp_type
    BY <1>1, <2>1, Zenon
  <2>3. (\A j \in 2..n : rows[j].level = rows[j - 1].level + 1 => rows[j - 1].avp_type = "Grouped")
          <=> (\A j \in 2..n : ls[j].level = ls[j - 1].level + 1 => ls[j - 1].avp_type = "Grouped")
    BY <2>2, Zenon
  <2>4. ls # <<>> => rows[1].level = ls[1].level
    BY <1>1, Zenon
  <2>5. QED
    BY <1>1, <2>3, <2>4, Zenon DEF Aligned
<1>5. QED
  BY <1>2, <1>3, <1>4, Zenon

-----------------------------------------------------------------------------
(***************************************************************************)
(* What collectRow makes of the rows is what the lines draw.               *)
(***************************************************************************)
\* In a call for the lines under p, c does what is drawn there, or panics over an
\* address in their span.
CollectsDrawn(ls, pars, c, d, p) ==
  \A to : Span(ls, p, to) =>
    LET ret == c[p + 1][LevelOf(ls, p) + 1][to]
    IN  /\ ret.panics <=> \E i \in (p + 1)..to : NoAddress(ls[i], pars)
        /\ ~ret.panics => ret.avps = d[p]

\* A row that is not Grouped: its value, and when there is none.
LEMMA ValueOfRow ==
  ASSUME NEW ls, Written(ls), NEW i \in 1..Len(ls), ls[i].avp_type # "Grouped",
         NEW pars, DOMAIN pars \subseteq Params
  PROVE  LET value == Converted(RowsOf(ls)[i].avp_type, computeValue(RowsOf(ls)[i], pars))
         IN  /\ value = Converted(ls[i].avp_type, Meaning(ls[i].expr, pars))
             /\ value = Panic <=> NoAddress(ls[i], pars)
<1>1. PICK line \in AvpLines : ls[i].avp_type = line.avp_type /\ ls[i].expr = line.expr
  BY Zenon DEF Written
<1> DEFINE v == ls[i].level
           c == ls[i].avp_code
           t == ls[i].avp_type
           e == ls[i].expr
           row == RowsOf(ls)[i]
<1>2. row = makeTmplRow(v, c, line.avp_type, line.expr)
  BY <1>1, Zenon DEF RowsOf, RowOf
<1>3. line.avp_type # "Grouped"
  BY <1>1, Zenon
<1>4. row.avp_type = t
  <2>1. \E S : ls \in Seq(S)
    BY Zenon DEF Written
  <2>2. SameLines(RowsOf(ls), ls)
    BY <2>1, RowsAreLines, Zenon
  <2>3. QED
    BY <2>2, Zenon DEF SameLines
<1> HIDE DEF v, c, row
<1>5. computeValue(row, pars) = Meaning(line.expr, pars)
  BY <1>2, <1>3, ValueMeant, Zenon
<1>6. Converted(row.avp_type, computeValue(row, pars)) = Converted(t, Meaning(e, pars))
  BY <1>1, <1>4, <1>5, Zenon
<1>7. Converted(t, Meaning(e, pars)) = Panic <=> NoAddress(line, pars)
  BY <1>1, <1>3, ConvertedPanics, Zenon
<1>8. NoAddress(ls[i], pars) <=> NoAddress(line, pars)
  BY <1>1, Zenon DEF NoAddress
<1>9. QED
  BY <1>6, <1>7, <1>8, Zenon DEF row

\* One call, if the calls for the groups do it.
LEMMA CollectsDrawnStep ==
  ASSUME NEW ls, Written(ls), Laid(ls), NEW pars, DOMAIN pars \subseteq Params,
         NEW c, Collects(RowsOf(ls), pars, c, 1), NEW d, Draws(ls, pars, d, 0),
         NEW p \in 0..Len(ls), \A j \in (p + 1)..Len(ls) : CollectsDrawn(ls, pars, c, d, j)
  PROVE  CollectsDrawn(ls, pars, c, d, p)
<1> DEFINE n == Len(ls)
           rows == RowsOf(ls)
           l == LevelOf(ls, p) + 1
           at == Under(ls, p)
<1> SUFFICES ASSUME NEW to, Span(ls, p, to)
             PROVE  LET ret == c[p + 1][l][to]
                    IN  /\ ret.panics <=> \E i \in (p + 1)..to : NoAddress(ls[i], pars)
                        /\ ~ret.panics => ret.avps = d[p]
  BY Zenon DEF CollectsDrawn
<1>1. to \in p..n
  BY Zenon DEF Span
<1>2. n \in Nat /\ p \in Nat /\ l \in Nat
  BY LevelFacts, Zenon
<1>a. PICK S : ls \in Seq(S)
  BY Zenon DEF Written
<1>3. SameLines(rows, ls)
  BY <1>a, RowsAreLines, Zenon
<1>4. /\ Len(rows) = n
      /\ \A i \in 1..n : /\ rows[i].avp_code = ls[i].avp_code
                        /\ rows[i].avp_type = ls[i].avp_type
  BY <1>3, Zenon DEF SameLines
<1>b. p + 1 \in 1..(n + 1) /\ to \in 0..n /\ to \in Nat
  BY <1>1, <1>2
<1>5. OfLevel(rows, p + 1, l, to) = at
  <2>1. OfLevel(rows, p + 1, l, to) = OfLevel(ls, p + 1, l, to)
    <3> DEFINE from == p + 1
    <3>1. from \in 1..(n + 1)
      BY <1>b
    <3> HIDE DEF from, l, rows
    <3>2. OfLevel(rows, from, l, to) = OfLevel(ls, from, l, to)
      BY <1>a, <1>b, <1>3, <3>1, SameLevels, Zenon
    <3>3. QED
      BY <3>2, Zenon DEF from
  <2>2. QED
    BY <2>1, RowsOfACall, Zenon
<1>6. \A j \in at : j \in (p + 1)..to /\ j \in 1..n /\ ls[j].level = l
  <2>1. \A j \in at : j \in (p + 1)..to /\ ls[j].level = l
    <3>1. at = OfLevel(ls, p + 1, l, to)
      BY RowsOfACall, Zenon
    <3>2. QED
      BY <3>1, Zenon DEF OfLevel
  <2>2. QED
    BY <1>1, <1>2, <2>1
<1> DEFINE end(j) == GroupEnd(rows, j, to)
           group(j) == c[j + 1][l + 1][end(j)]
           groups == [j \in at |-> group(j)]
           ret == c[p + 1][l][to]
<1>7. ret = Gathered(rows, pars, at, groups)
  <2>1. c = [from \in 1..(n + 1) |-> CollectStep(rows, pars, c, from)]
    BY <1>4, Zenon DEF Collects
  <2>2. c[p + 1] = CollectStep(rows, pars, c, p + 1)
    <3> DEFINE from == p + 1
    <3>1. from \in 1..(n + 1)
      BY <1>b
    <3> HIDE DEF from
    <3>2. c[from] = CollectStep(rows, pars, c, from)
      BY <2>1, <3>1, Zenon
    <3>3. QED
      BY <3>2, Zenon DEF from
  <2>3. CollectStep(rows, pars, c, p + 1)[l][to]
          = Gathered(rows, pars, OfLevel(rows, p + 1, l, to),
                     [j \in OfLevel(rows, p + 1, l, to) |-> c[j + 1][l + 1][GroupEnd(rows, j, to)]])
    <3> HIDE DEF rows, l
    <3>1. l \in Nat /\ to \in 0..Len(rows)
      BY <1>2, <1>4, <1>b, Zenon
    <3>2. QED
      BY <3>1, Zenon DEF CollectStep
  <2>4. QED
    BY <1>5, <2>2, <2>3, Zenon
\* What the calls for the groups return.
<1>8. ASSUME NEW j \in at
      PROVE  /\ groups[j].panics <=> \E i \in (j + 1)..end(j) : NoAddress(ls[i], pars)
             /\ ~groups[j].panics => groups[j].avps = d[j]
             /\ end(j) \in j..to
             /\ end(j) = GroupEnd(ls, j, to)
  <2>1. j \in (p + 1)..to /\ j \in 1..n /\ ls[j].level = l
    BY <1>6, Zenon
  <2>2. end(j) = GroupEnd(ls, j, to)
    BY <1>a, <1>b, <1>3, <2>1, SameLevels, Zenon
  <2>3. Span(ls, j, end(j))
    BY <2>1, <2>2, SpanOfAGroup, Zenon
  <2>4. LevelOf(ls, j) = l
    <3>1. j # 0
      BY <2>1
    <3>2. QED
      BY <2>1, <3>1, Zenon DEF LevelOf
  <2>5. CollectsDrawn(ls, pars, c, d, j)
    <3>1. j \in (p + 1)..n
      BY <1>1, <1>2, <2>1
    <3>2. QED
      BY <3>1, Zenon
  <2>6. LET x == c[j + 1][l + 1][end(j)]
        IN  /\ x.panics <=> \E i \in (j + 1)..end(j) : NoAddress(ls[i], pars)
            /\ ~x.panics => x.avps = d[j]
    <3> HIDE DEF l, end
    <3>1. QED
      BY <2>3, <2>4, <2>5, Zenon DEF CollectsDrawn
  <2>7. groups[j] = c[j + 1][l + 1][end(j)]
    <3> HIDE DEF l, end, at
    <3>1. QED
      BY Zenon
  <2>8. end(j) \in j..to
    <3>1. j \in Nat /\ j <= to
      BY <1>2, <1>b, <2>1
    <3>2. GroupEndsAt(ls, j, to, GroupEnd(ls, j, to))
      BY <1>b, <3>1, GroupEndFacts, Zenon
    <3>3. QED
      BY <2>2, <3>2, Zenon DEF GroupEndsAt
  <2> HIDE DEF groups, end
  <2>9. QED
    BY <2>2, <2>6, <2>7, <2>8, Zenon
<1> DEFINE value(j) == Converted(rows[j].avp_type, computeValue(rows[j], pars))
           avp(j)   == IF rows[j].avp_type = "Grouped" THEN Group(rows[j].avp_code, groups[j].avps)
                       ELSE Leaf(rows[j].avp_code, value(j))
           panics   == \E j \in at : IF rows[j].avp_type = "Grouped" THEN groups[j].panics
                                     ELSE value(j) = Panic
           order    == InOrder(at, n)
<1>9. /\ ret.panics <=> panics
      /\ ~panics => ret.avps = [i \in 1..Len(order) |-> avp(order[i])]
  <2> DEFINE made == IF panics THEN <<>> ELSE [i \in 1..Len(order) |-> avp(order[i])]
  <2>1. ret = [panics |-> panics, avps |-> made]
    <3> HIDE DEF groups, rows, at, ret
    <3>1. QED
      BY <1>4, <1>7, Zenon DEF Gathered
  <2> HIDE DEF panics, made, ret
  <2>2. ret.panics = panics /\ ret.avps = made
    BY <2>1
  <2>3. QED
    BY <2>2, Zenon DEF made
<1>10. ASSUME NEW j \in at, rows[j].avp_type # "Grouped"
       PROVE  /\ value(j) = Converted(ls[j].avp_type, Meaning(ls[j].expr, pars))
              /\ value(j) = Panic <=> NoAddress(ls[j], pars)
  <2>1. j \in 1..n
    BY <1>6, Zenon
  <2>2. ls[j].avp_type # "Grouped"
    BY <1>4, <1>10, <2>1, Zenon
  <2>3. QED
    BY <2>1, <2>2, ValueOfRow, Zenon
<1>11. panics <=> \E i \in (p + 1)..to : NoAddress(ls[i], pars)
  <2> HIDE DEF groups, value, end
  <2>1. ASSUME NEW j \in at, rows[j].avp_type = "Grouped", groups[j].panics
        PROVE  \E i \in (p + 1)..to : NoAddress(ls[i], pars)
    <3>1. PICK i \in (j + 1)..end(j) : NoAddress(ls[i], pars)
      BY <1>8, <2>1, Zenon
    <3>2. i \in (p + 1)..to
      <4>1. j \in (p + 1)..to /\ end(j) \in j..to
        BY <1>6, <1>8, Zenon
      <4>2. QED
        BY <1>2, <1>b, <4>1
    <3>3. QED
      BY <3>1, <3>2, Zenon
  <2>2. ASSUME NEW j \in at, rows[j].avp_type # "Grouped", value(j) = Panic
        PROVE  \E i \in (p + 1)..to : NoAddress(ls[i], pars)
    BY <1>6, <1>10, <2>2, Zenon
  <2>3. ASSUME NEW i \in (p + 1)..to, NoAddress(ls[i], pars) PROVE panics
    <3>1. i \in 1..n
      BY <1>1, <1>2
    <3>2. CASE ls[i].level = l
      <4>1. i \in at
        <5>1. i \in OfLevel(ls, p + 1, l, to)
          BY <3>2, Zenon DEF OfLevel
        <5>2. QED
          BY <5>1, RowsOfACall, Zenon
      <4>2. ls[i].avp_type # "Grouped"
        <5>1. ls[i].avp_type = "Address"
          BY <2>3, Zenon DEF NoAddress
        <5>2. QED
          BY <5>1
      <4>3. rows[i].avp_type # "Grouped"
        BY <1>4, <3>1, <4>2, Zenon
      <4>4. value(i) = Panic
        BY <1>10, <2>3, <4>1, <4>3, Zenon
      <4>5. QED
        BY <4>1, <4>3, <4>4, Zenon
    <3>3. CASE ls[i].level # l
      <4>1. PICK j \in OfLevel(ls, p + 1, l, to) :
              ls[j].avp_type = "Grouped" /\ i \in (j + 1)..GroupEnd(ls, j, to)
        BY <3>3, NoLineLeftOut, Zenon
      <4>2. j \in at
        BY RowsOfACall, Zenon
      <4>3. rows[j].avp_type = "Grouped"
        BY <1>4, <1>6, <4>1, <4>2, Zenon
      <4>4. groups[j].panics
        BY <1>8, <2>3, <4>1, <4>2, Zenon
      <4>5. QED
        BY <4>2, <4>3, <4>4, Zenon
    <3>4. QED
      BY <3>2, <3>3, Zenon
  <2>4. QED
    BY <2>1, <2>2, <2>3, Zenon
<1>12. ASSUME ~panics, NEW j \in at PROVE avp(j) = DrawnAvp(ls, pars, d, j)
  <2>1. j \in 1..n
    BY <1>6, Zenon
  <2>2. rows[j].avp_code = ls[j].avp_code /\ rows[j].avp_type = ls[j].avp_type
    BY <1>4, <2>1, Zenon
  <2>3. CASE ls[j].avp_type = "Grouped"
    <3> HIDE DEF groups, value
    <3>1. ~groups[j].panics
      BY <1>12, <2>2, <2>3, Zenon
    <3>2. groups[j].avps = d[j]
      BY <1>8, <3>1, Zenon
    <3>3. QED
      BY <2>2, <2>3, <3>2, Zenon DEF DrawnAvp
  <2>4. CASE ls[j].avp_type # "Grouped"
    <3>1. value(j) = Converted(ls[j].avp_type, Meaning(ls[j].expr, pars))
      BY <1>10, <2>2, <2>4, Zenon
    <3> HIDE DEF groups, value
    <3>2. QED
      BY <2>2, <2>4, <3>1, Zenon DEF DrawnAvp
  <2>5. QED
    BY <2>3, <2>4, Zenon
<1>13. ASSUME ~panics PROVE ret.avps = d[p]
  <2>1. ret.avps = [i \in 1..Len(order) |-> avp(order[i])]
    BY <1>9, <1>13, Zenon
  <2>2. \A i \in 1..Len(order) : order[i] \in at
    BY <1>2, UnderInOrder, Zenon
  <2>3. d[p] = DrawnStep(ls, pars, d, p)
    BY Zenon DEF Draws
  <2>4. DrawnStep(ls, pars, d, p) = [i \in 1..Len(order) |-> DrawnAvp(ls, pars, d, order[i])]
    BY Zenon DEF DrawnStep
  <2>5. \A i \in 1..Len(order) : avp(order[i]) = DrawnAvp(ls, pars, d, order[i])
    <3> HIDE DEF avp, panics, at
    <3>1. QED
      BY <1>12, <1>13, <2>2, Zenon
  <2> HIDE DEF avp, ret, order
  <2>6. QED
    BY <2>1, <2>3, <2>4, <2>5, Zenon
<1> HIDE DEF panics, ret
<1>14. /\ ret.panics <=> \E i \in (p + 1)..to : NoAddress(ls[i], pars)
       /\ ~ret.panics => ret.avps = d[p]
  BY <1>9, <1>11, <1>13, Zenon
<1>15. QED
  BY <1>14, Zenon DEF ret

\* All calls, then; the first one is for the whole file.
LEMMA CollectsWhatIsDrawn ==
  ASSUME NEW ls, Written(ls), Laid(ls), NEW pars, DOMAIN pars \subseteq Params
  PROVE  LET ret == collectRow(0, RowsOf(ls), pars)
         IN  /\ ret.panics <=> \E i \in 1..Len(ls) : NoAddress(ls[i], pars)
             /\ ~ret.panics => ret.avps = Drawn(ls, 0, pars)
<1> DEFINE n == Len(ls)
           rows == RowsOf(ls)
<1>1. n \in Nat
  BY DEF Laid
<1>2. Len(rows) = n
  <2>1. \E S : ls \in Seq(S)
    BY Zenon DEF Written
  <2>2. SameLines(rows, ls)
    BY <2>1, RowsAreLines, Zenon
  <2>3. QED
    BY <2>2, Zenon DEF SameLines
<1>3. PICK c : Collects(rows, pars, c, 1)
               /\ \A level : collectRow(level, rows, pars) = c[1][level][Len(rows)]
  <2>1. Len(rows) \in Nat
    BY <1>1, <1>2
  <2> HIDE DEF rows
  <2>2. QED
    BY <2>1, CollectRow, Zenon
<1>4. PICK d : Draws(ls, pars, d, 0) /\ \A p : Drawn(ls, p, pars) = d[p]
  <2>1. \E d : IsDrawn(ls, pars, d)
    BY <1>1, DrawnFunction, Zenon
  <2>2. QED
    BY <2>1, Zenon DEF IsDrawn
<1>5. \A p \in 0..n : CollectsDrawn(ls, pars, c, d, p)
  <2> SUFFICES ASSUME NEW q \in 0..n, ~CollectsDrawn(ls, pars, c, d, q) PROVE FALSE
    BY Zenon
  <2> DEFINE T == {m \in Nat : n - m \in 0..n /\ ~CollectsDrawn(ls, pars, c, d, n - m)}
  <2>1. n - q \in T
    <3>1. n - q \in Nat /\ n - (n - q) = q
      BY <1>1
    <3>2. QED
      BY <3>1, Zenon
  <2>2. PICK m \in T : \A y \in T : m <= y
    <3>1. T \subseteq Nat /\ T # {}
      BY <2>1, Zenon
    <3> HIDE DEF T
    <3>2. QED
      BY <3>1, LeastNumber, Zenon
  <2> DEFINE p == n - m
  <2>3. m \in Nat /\ p \in 0..n /\ ~CollectsDrawn(ls, pars, c, d, p)
    BY <2>2, Zenon
  <2>4. ASSUME NEW j \in (p + 1)..n PROVE CollectsDrawn(ls, pars, c, d, j)
    <3> SUFFICES ASSUME ~CollectsDrawn(ls, pars, c, d, j) PROVE FALSE
      BY Zenon
    <3>1. n - j \in Nat /\ n - (n - j) = j /\ j \in 0..n /\ n - j < m
      BY <1>1, <2>3
    <3>2. n - j \in T
      BY <3>1, Zenon
    <3>3. m <= n - j
      BY <2>2, <3>2, Zenon
    <3>4. QED
      BY <1>1, <2>3, <3>1, <3>3
  <2> HIDE DEF p, T
  <2>5. QED
    BY <1>3, <1>4, <2>3, <2>4, CollectsDrawnStep, Zenon
<1>6. Span(ls, 0, n)
  <2>1. \A k \in 1..n : ls[k].level \in Nat
    BY DEF Laid
  <2>2. LevelOf(ls, 0) = -1
    BY DEF LevelOf
  <2>3. \A k \in (0 + 1)..n : ls[k].level > LevelOf(ls, 0)
    BY <2>1, <2>2
  <2>4. 0 \in 0..n /\ n \in 0..n /\ ~ n < n
    BY <1>1
  <2>5. QED
    BY <2>3, <2>4, Zenon DEF Span
<1>7. LevelOf(ls, 0) + 1 = 0 /\ 0 + 1 = 1 /\ 0 \in 0..n
  BY <1>1 DEF LevelOf
<1>8. LET ret == c[1][0][n]
      IN  /\ ret.panics <=> \E i \in 1..n : NoAddress(ls[i], pars)
          /\ ~ret.panics => ret.avps = d[0]
  BY <1>5, <1>6, <1>7, Zenon DEF CollectsDrawn
<1>9. QED
  BY <1>2, <1>3, <1>4, <1>8, Zenon

-----------------------------------------------------------------------------
(***************************************************************************)
(* Reading a file line by line.                                            *)
(***************************************************************************)
\* a is s with x added to it.
Adds(a, s, x) ==
  /\ Len(s) \in Nat /\ Len(a) = Len(s) + 1
  /\ \A i \in 1..Len(s) : a[i] = s[i]
  /\ a[Len(s) + 1] = x

LEMMA Appended ==
  ASSUME NEW S, NEW s \in Seq(S), NEW x
  PROVE  Append(s, x) \in Seq(S \union {x}) /\ Adds(Append(s, x), s, x)
<1> DEFINE T == S \union {x}
<1>1. s \in Seq(T) /\ x \in T
  BY SeqMonotonic
<1> HIDE DEF T
<1>2. Append(s, x) \in Seq(T) /\ Len(Append(s, x)) = Len(s) + 1
  BY <1>1
<1>3. Len(s) \in Nat /\ \A i \in 1..Len(s) : Append(s, x)[i] = s[i]
  BY <1>1
<1>4. Append(s, x)[Len(s) + 1] = x
  BY <1>1
<1>5. QED
  BY <1>2, <1>3, <1>4, Zenon DEF T, Adds

\* One more line is one more row.
LEMMA RowAppended ==
  ASSUME NEW ls, Written(ls), NEW x
  PROVE  RowsOf(Append(ls, x)) = Append(RowsOf(ls), RowOf(x))
<1> DEFINE n == Len(ls)
           rows == RowsOf(ls)
           a == Append(ls, x)
<1>1. PICK S : ls \in Seq(S)
  BY Zenon DEF Written
<1>2. /\ Len(a) = n + 1 /\ n \in Nat
      /\ \A i \in 1..n : a[i] = ls[i]
      /\ a[n + 1] = x
  <2>1. a \in Seq(S \union {x}) /\ Adds(a, ls, x)
    BY <1>1, Appended, Zenon
  <2> HIDE DEF a
  <2>2. QED
    BY <2>1, Zenon DEF Adds
<1>3. rows = [i \in 1..n |-> RowOf(ls[i])]
  BY Zenon DEF RowsOf
<1>4. RowsOf(a) = [i \in 1..(n + 1) |-> RowOf(a[i])]
  BY <1>2, Zenon DEF RowsOf
<1> DEFINE V == {RowOf(ls[i]) : i \in 1..n}
<1>5. rows \in [1..n -> V]
  BY <1>3, Zenon
<1>6. rows \in Seq(V) /\ Len(rows) = n
  <2> HIDE DEF rows, V, n
  <2>1. QED
    BY <1>2, <1>5
<1> DEFINE y == RowOf(x)
           r == RowsOf(a)
<1>7. /\ Append(rows, y) \in Seq(V \union {y})
      /\ Len(Append(rows, y)) = n + 1
      /\ \A i \in 1..n : Append(rows, y)[i] = rows[i]
      /\ Append(rows, y)[n + 1] = y
  <2> DEFINE z == Append(rows, y)
  <2> HIDE DEF rows, V, y
  <2>1. z \in Seq(V \union {y}) /\ Adds(z, rows, y)
    BY <1>6, Appended, Zenon
  <2> HIDE DEF z, n
  <2>2. /\ z \in Seq(V \union {y}) /\ Len(z) = n + 1
        /\ \A i \in 1..n : z[i] = rows[i]
        /\ z[n + 1] = y
    BY <1>6, <2>1 DEF Adds
  <2>3. QED
    BY <2>2, Zenon DEF z
<1>8. \A i \in 1..n : r[i] = rows[i] /\ rows[i] \in V
  <2>1. \A i \in 1..n : i \in 1..(n + 1)
    BY <1>2
  <2>2. \A i \in 1..n : r[i] = RowOf(a[i])
    BY <1>4, <2>1, Zenon
  <2>3. \A i \in 1..n : RowOf(a[i]) = rows[i]
    BY <1>2, <1>3, Zenon
  <2>4. \A i \in 1..n : rows[i] \in V
    BY <1>3, Zenon
  <2>5. QED
    BY <2>2, <2>3, <2>4, Zenon
<1>9. r[n + 1] = y
  <2>1. n + 1 \in 1..(n + 1)
    BY <1>2
  <2>2. QED
    BY <1>2, <1>4, <2>1, Zenon
<1>10. DOMAIN r = 1..(n + 1)
  BY <1>4, Zenon
<1>11. r = [i \in 1..(n + 1) |-> r[i]]
  BY <1>4, Zenon
<1> DEFINE W == V \union {y}
<1>12. \A i \in 1..(n + 1) : r[i] \in W
  <2>1. \A i \in 1..(n + 1) : i \in 1..n \/ i = n + 1
    BY <1>2
  <2>2. QED
    BY <1>8, <1>9, <2>1, Zenon
<1> HIDE DEF n, rows, a, V, y, r
<1>13. r \in Seq(W) /\ Len(r) = n + 1
  <2> HIDE DEF W
  <2>1. r \in [1..(n + 1) -> W]
    BY <1>11, <1>12, Zenon
  <2>2. QED
    BY <1>2, <2>1
<1>14. \A i \in 1..(n + 1) : r[i] = Append(rows, y)[i]
  <2>1. \A i \in 1..(n + 1) : i \in 1..n \/ i = n + 1
    BY <1>2
  <2>2. QED
    BY <1>7, <1>8, <1>9, <2>1, Zenon
<1>15. r = Append(rows, y)
  BY <1>7, <1>13, <1>14, SeqEqual, Zenon
<1>16. QED
  BY <1>15, Zenon DEF rows, a, y, r

\* And the lines are written lines again.
LEMMA LineAppended ==
  ASSUME NEW ls, Written(ls), NEW x, x.level \in Nat,
         \E line \in AvpLines : x.avp_type = line.avp_type /\ x.expr = line.expr
  PROVE  Written(Append(ls, x))
<1> DEFINE n == Len(ls)
           a == Append(ls, x)
<1>1. PICK S : ls \in Seq(S)
  BY Zenon DEF Written
<1>2. /\ a \in Seq(S \union {x})
      /\ Len(a) = n + 1 /\ n \in Nat
      /\ \A i \in 1..n : a[i] = ls[i]
      /\ a[n + 1] = x
  <2>1. a \in Seq(S \union {x}) /\ Adds(a, ls, x)
    BY <1>1, Appended, Zenon
  <2> HIDE DEF a
  <2>2. QED
    BY <2>1, Zenon DEF Adds
<1>3. \A i \in 1..Len(a) : i \in 1..n \/ i = n + 1
  BY <1>2
<1> DEFINE W(l) == /\ l.level \in Nat
                   /\ \E line \in AvpLines : l.avp_type = line.avp_type /\ l.expr = line.expr
<1>4. \A i \in 1..n : W(ls[i])
  BY Zenon DEF Written
<1>5. W(x)
  BY Zenon
<1>6. \A i \in 1..Len(a) : W(a[i])
  <2> HIDE DEF W, a, n
  <2>1. QED
    BY <1>2, <1>3, <1>4, <1>5, Zenon
<1>7. QED
  BY <1>2, <1>6, Zenon DEF Written

\* A file without lines.
LEMMA NothingWritten ==
  /\ Written(<<>>)
  /\ RowsOf(<<>>) = <<>>
<1>1. <<>> \in Seq({}) /\ Len(<<>>) = 0 /\ 1..0 = {}
  OBVIOUS
<1>2. Written(<<>>)
  BY <1>1, Zenon DEF Written
<1>3. RowsOf(<<>>) = [i \in {} |-> RowOf(<<>>[i])]
  BY <1>1, Zenon DEF RowsOf
<1>4. [i \in {} |-> RowOf(<<>>[i])] = <<>>
  BY <1>1
<1>5. QED
  BY <1>2, <1>3, <1>4, Zenon

\* The map of the header says what the header lines say.
HeaderSays(h, pairs) ==
  \A key, value : key \in DOMAIN h /\ h[key] = value <=> Says(pairs, key, value)

\* Without header lines the map is empty.
LEMMA NothingSaid == HeaderSays(<<>>, <<>>)
<1>1. DOMAIN <<>> = {} /\ 1..Len(<<>>) = {}
  OBVIOUS
<1>2. QED
  BY <1>1, Zenon DEF HeaderSays, Says

\* One more pair is entered into the map, over an earlier one of its key.
LEMMA PairSaid ==
  ASSUME NEW h, NEW pairs \in Seq(HeadPairs), NEW pair \in HeadPairs, HeaderSays(h, pairs)
  PROVE  HeaderSays(UpdateMap(h, pair[1], pair[2]), Append(pairs, pair))
<1> DEFINE n == Len(pairs)
           a == Append(pairs, pair)
           u == UpdateMap(h, pair[1], pair[2])
           key0 == pair[1]
           value0 == pair[2]
<1>1. /\ Len(a) = n + 1 /\ n \in Nat
      /\ \A i \in 1..n : a[i] = pairs[i]
      /\ a[n + 1] = pair
  <2>1. Adds(a, pairs, pair)
    BY Appended, Zenon
  <2> HIDE DEF a
  <2>2. QED
    BY <2>1, Zenon DEF Adds
<1>2. pair = <<key0, value0>>
  <2>1. HeadPairs \subseteq STRING \X STRING
    BY TemplateAssumption, Zenon
  <2>2. pair \in STRING \X STRING
    BY <2>1, Zenon
  <2>3. QED
    BY <2>2
<1>3. \A key, value : key \in DOMAIN u /\ u[key] = value
        <=> (key = key0 /\ value = value0) \/ (key # key0 /\ key \in DOMAIN h /\ h[key] = value)
  BY Zenon DEF UpdateMap
<1>4. ASSUME NEW key, NEW value
      PROVE  Says(a, key, value)
               <=> (key = key0 /\ value = value0) \/ (key # key0 /\ Says(pairs, key, value))
  <2> HIDE DEF a, n, key0, value0
  <2>1. Says(a, key, value) <=>
          \E i \in 1..(n + 1) : a[i] = <<key, value>> /\ \A j \in (i + 1)..(n + 1) : a[j][1] # key
    BY <1>1, Zenon DEF Says
  <2>2. Says(pairs, key, value) <=>
          \E i \in 1..n : pairs[i] = <<key, value>> /\ \A j \in (i + 1)..n : pairs[j][1] # key
    BY Zenon DEF Says, n
  <2>3. ASSUME key = key0, value = value0 PROVE Says(a, key, value)
    <3>1. n + 1 \in 1..(n + 1) /\ \A j \in ((n + 1) + 1)..(n + 1) : FALSE
      BY <1>1
    <3>2. a[n + 1] = <<key, value>>
      BY <1>1, <1>2, <2>3, Zenon
    <3>3. QED
      BY <2>1, <3>1, <3>2, Zenon
  <2>4. ASSUME key # key0, Says(pairs, key, value) PROVE Says(a, key, value)
    <3>1. PICK i \in 1..n : pairs[i] = <<key, value>> /\ \A j \in (i + 1)..n : pairs[j][1] # key
      BY <2>2, <2>4, Zenon
    <3>2. /\ i \in 1..(n + 1)
          /\ \A j \in (i + 1)..(n + 1) : (j \in (i + 1)..n /\ j \in 1..n) \/ j = n + 1
      BY <1>1
    <3>3. a[n + 1][1] # key
      BY <1>1, <2>4, Zenon DEF key0
    <3>4. \A j \in (i + 1)..(n + 1) : a[j][1] # key
      BY <1>1, <3>1, <3>2, <3>3, Zenon
    <3>5. a[i] = <<key, value>>
      BY <1>1, <3>1, Zenon
    <3>6. QED
      BY <2>1, <3>2, <3>4, <3>5, Zenon
  <2>5. ASSUME Says(a, key, value), key = key0 PROVE value = value0
    <3>1. PICK i \in 1..(n + 1) : a[i] = <<key, value>> /\ \A j \in (i + 1)..(n + 1) : a[j][1] # key
      BY <2>1, <2>5, Zenon
    <3>2. a[n + 1][1] = key
      BY <1>1, <2>5, Zenon DEF key0
    <3>3. ~ n + 1 \in (i + 1)..(n + 1)
      BY <3>1, <3>2, Zenon
    <3>4. i = n + 1
      BY <1>1, <3>3
    <3>5. <<key0, value0>> = <<key, value>>
      BY <1>1, <1>2, <3>1, <3>4, Zenon
    <3>6. QED
      BY <3>5
  <2>6. ASSUME Says(a, key, value), key # key0 PROVE Says(pairs, key, value)
    <3>1. PICK i \in 1..(n + 1) : a[i] = <<key, value>> /\ \A j \in (i + 1)..(n + 1) : a[j][1] # key
      BY <2>1, <2>6, Zenon
    <3>2. i # n + 1
      <4> SUFFICES ASSUME i = n + 1 PROVE FALSE
        BY Zenon
      <4>1. <<key0, value0>> = <<key, value>>
        BY <1>1, <1>2, <3>1, Zenon
      <4>2. QED
        BY <2>6, <4>1
    <3>3. i \in 1..n /\ \A j \in (i + 1)..n : j \in (i + 1)..(n + 1) /\ j \in 1..n
      BY <1>1, <3>2
    <3>4. pairs[i] = <<key, value>> /\ \A j \in (i + 1)..n : pairs[j][1] # key
      BY <1>1, <3>1, <3>3, Zenon
    <3>5. QED
      BY <2>2, <3>3, <3>4, Zenon
  <2>7. QED
    BY <2>3, <2>4, <2>5, <2>6, Zenon
<1> HIDE DEF a, u, key0, value0
<1>5. HeaderSays(u, a)
  BY <1>3, <1>4, Zenon DEF HeaderSays
<1>6. QED
  BY <1>5, Zenon DEF a, u, key0, value0

\* The header of a message says what the header lines say.
LEMMA HeaderFilled ==
  ASSUME NEW h, NEW pairs, HeaderSays(h, pairs)
  PROVE  /\ FillHeader(h).request <=> Says(pairs, "request", "1")
         /\ FillHeader(h).proxiable <=> Says(pairs, "proxiable", "1")
         /\ NumberSaid(pairs, "command_code", FillHeader(h).cmd_code)
         /\ NumberSaid(pairs, "application_id", FillHeader(h).app_id)
<1> DEFINE get(key) == IF key \in DOMAIN h THEN h[key] ELSE ""
           code(key) == Converted("Unsigned32", <<get(key)>>)
<1>1. /\ FillHeader(h).cmd_code = code("command_code")
      /\ FillHeader(h).app_id = code("application_id")
      /\ FillHeader(h).request = (get("request") = "1")
      /\ FillHeader(h).proxiable = (get("proxiable") = "1")
  <2> DEFINE a == code("command_code")
             b == code("application_id")
             c == (get("request") = "1")
             d == (get("proxiable") = "1")
  <2>1. FillHeader(h) = [cmd_code |-> a, app_id |-> b, request |-> c, proxiable |-> d]
    BY Zenon DEF FillHeader
  <2> HIDE DEF a, b, c, d
  <2>2. /\ FillHeader(h).cmd_code = a /\ FillHeader(h).app_id = b
        /\ FillHeader(h).request = c /\ FillHeader(h).proxiable = d
    BY <2>1
  <2>3. QED
    BY <2>2, Zenon DEF a, b, c, d
<1>2. ASSUME NEW key PROVE get(key) = "1" <=> Says(pairs, key, "1")
  <2>1. "" # "1"
    OBVIOUS
  <2>2. key \in DOMAIN h /\ h[key] = "1" <=> Says(pairs, key, "1")
    BY Zenon DEF HeaderSays
  <2>3. QED
    BY <2>1, <2>2, Zenon
<1>3. ASSUME NEW key PROVE NumberSaid(pairs, key, code(key))
  <2> SUFFICES ASSUME NEW pair \in HeadPairs, pair[1] = key, <<pair[2]>> # <<"9999">>,
                      <<pair[2]>> \in Readable["Unsigned32"]
               PROVE  Says(pairs, key, pair[2]) <=> code(key) = <<pair[2]>>
    BY Zenon DEF NumberSaid
  <2> DEFINE v == pair[2]
             g == get(key)
             readable == Readable["Unsigned32"]
             nine == <<"9999">>
  <2>1. Says(pairs, key, v) <=> key \in DOMAIN h /\ h[key] = v
    <3> HIDE DEF v
    <3>1. QED
      BY Zenon DEF HeaderSays
  <2>2. code(key) = IF <<g>> \in readable THEN <<g>> ELSE nine
    <3>1. "Unsigned32" # "UTF8String"
      OBVIOUS
    <3>2. code(key) = IF <<g>> \in readable THEN <<g>>
                      ELSE CASE "Unsigned32" = "Unsigned32" -> nine
                             [] "Unsigned32" = "OctetString" -> <<"00">>
                             [] "Unsigned32" = "Time" -> runAction("", "now")
                             [] "Unsigned32" = "Address" -> Panic
      BY <3>1, Zenon DEF Converted
    <3> DEFINE now == runAction("", "now")
    <3> HIDE DEF now, g, readable, nine
    <3>3. (CASE "Unsigned32" = "Unsigned32" -> nine
             [] "Unsigned32" = "OctetString" -> <<"00">>
             [] "Unsigned32" = "Time" -> now
             [] "Unsigned32" = "Address" -> Panic) = nine
      OBVIOUS
    <3>4. QED
      BY <3>2, <3>3, Zenon DEF now
  <2>3. <<"">> \notin readable
    BY TemplateAssumption, Zenon
  <2>4. /\ key \in DOMAIN h => g = h[key]
        /\ key \notin DOMAIN h => g = ""
    BY Zenon
  <2>5. \A s, t : <<s>> = <<t>> <=> s = t
    OBVIOUS
  <2> HIDE DEF v, g, readable, nine, get, code
  <2>6. ASSUME Says(pairs, key, v) PROVE code(key) = <<v>>
    <3>1. g = v
      BY <2>1, <2>4, <2>6, Zenon
    <3>2. <<v>> \in readable
      BY Zenon DEF v, readable
    <3>3. QED
      BY <2>2, <3>1, <3>2, Zenon
  <2>7. ASSUME code(key) = <<v>> PROVE Says(pairs, key, v)
    <3>1. <<v>> # nine
      BY Zenon DEF v, nine
    <3>2. <<g>> \in readable /\ <<g>> = <<v>>
      BY <2>2, <2>7, <3>1, Zenon
    <3>3. g = v
      BY <2>5, <3>2, Zenon
    <3>4. key \in DOMAIN h
      BY <2>3, <2>4, <3>2, Zenon
    <3>5. QED
      BY <2>1, <2>4, <3>3, <3>4, Zenon
  <2>8. QED
    BY <2>6, <2>7, Zenon DEF v
<1> HIDE DEF get, code
<1>4. QED
  BY <1>1, <1>2, <1>3, Zenon

-----------------------------------------------------------------------------
(***************************************************************************)
(* The invariant.                                                          *)
(***************************************************************************)
\* What is kept of the files are lines and pairs as they are read.
FilesWritten ==
  /\ DOMAIN lines = FileNames /\ DOMAIN head = FileNames
  /\ \A f \in FileNames : Written(lines[f]) /\ head[f] \in Seq(HeadPairs)

\* The template of a file is its lines under its header.
Loaded(f) ==
  /\ f \in DOMAIN templates /\ f \in DOMAIN template_headers
  /\ templates[f] = RowsOf(lines[f])
  /\ Aligned(lines[f])
  /\ HeaderSays(template_headers[f], head[f])

\* A file that is read: the rows and the header so far are those of its lines so
\* far; the files before it are loaded, nothing is known of those after it.
Loading ==
  /\ filled.name = None
  /\ c_file \in 1..Len(Files)
  /\ c_temps = RowsOf(lines[Name])
  /\ HeaderSays(header_params, head[Name])
  /\ header_params # <<>> =>
       Name \in DOMAIN template_headers /\ template_headers[Name] = header_params
  /\ \A i \in 1..Len(Files) :
       /\ i < c_file => Loaded(Files[i])
       /\ i > c_file => lines[Files[i]] = <<>> /\ head[Files[i]] = <<>>

Filling == \A f \in FileNames : Loaded(f)

TemplateInv ==
  /\ phase \in {"load", "ready", "exit"}
  /\ FilesWritten
  /\ phase = "load" => Loading
  /\ phase = "ready" => Filling
  /\ FilledAsDrawn

\* No two files have the same name.
LEMMA NamesApart ==
  /\ \A i \in 1..Len(Files) : Files[i] \in FileNames
  /\ \A i, j \in 1..Len(Files) : Files[i] = Files[j] => i = j
  /\ Len(Files) \in Nat /\ (Files = <<>> => FileNames = {})
  /\ None \notin FileNames
<1>1. Files \in Seq(STRING)
  BY TemplateAssumption, Zenon
<1>2. IsInjective(Files) /\ None \notin FileNames
  BY TemplateAssumption, Zenon
<1>3. DOMAIN Files = 1..Len(Files) /\ Len(Files) \in Nat /\ (Files = <<>> => 1..Len(Files) = {})
  BY <1>1
<1>4. \A i, j \in DOMAIN Files : Files[i] = Files[j] => i = j
  BY <1>2, Zenon DEF IsInjective
<1>5. QED
  BY <1>2, <1>3, <1>4, Zenon DEF FileNames

\* Until something is filled there is nothing to compare.
LEMMA NothingFilled ==
  ASSUME filled.name = None
  PROVE  FilledAsDrawn
<1>1. filled.name \notin FileNames
  BY NamesApart, Zenon
<1>2. QED
  BY <1>1, Zenon DEF FilledAsDrawn

\* A message that is filled is as drawn.
LEMMA Fills ==
  ASSUME FilesWritten, Filling, NEW name \in FileNames, NEW pars \in Parameters,
         FillTemplate(name, pars)
  PROVE  FilledAsDrawn'
<1> DEFINE ls == lines[name]
           pairs == head[name]
           rows == templates[name]
           ret == collectRow(0, rows, pars)
           h == template_headers[name]
           ok == ~ret.panics
           hdr == FillHeader(h)
           tree == ret.avps
<1>1. /\ name \in DOMAIN templates
      /\ rows = RowsOf(ls) /\ Aligned(ls) /\ HeaderSays(h, pairs)
      /\ Written(ls)
  BY Zenon DEF Filling, Loaded, FilesWritten
<1>2. DOMAIN pars \subseteq Params
  BY DEF Parameters
<1>3. /\ filled' = [name |-> name, pars |-> pars, ok |-> ok, header |-> hdr, avps |-> tree]
      /\ phase' = IF ret.panics THEN "exit" ELSE "ready"
      /\ lines' = lines /\ head' = head
  BY <1>1, Zenon DEF FillTemplate
<1>4. filled'.ok <=> phase' = "ready"
  <2>1. "exit" # "ready"
    OBVIOUS
  <2>2. filled'.ok = ok
    <3> HIDE DEF ok, hdr, tree
    <3>1. QED
      BY <1>3
  <2>3. QED
    BY <1>3, <2>1, <2>2, Zenon
<1>5. /\ filled'.name = name /\ filled'.pars = pars /\ filled'.ok = ok
      /\ filled'.header = hdr /\ filled'.avps = tree
  <2> HIDE DEF ok, hdr, tree
  <2>1. QED
    BY <1>3
<1>6. SUFFICES ASSUME NoJumps(ls)
      PROVE  /\ \A i \in 1..Len(ls) : Parent(ls, i) # 0 => ls[Parent(ls, i)].avp_type = "Grouped"
             /\ ok <=> \A i \in 1..Len(ls) : ~NoAddress(ls[i], pars)
             /\ ok =>
                  /\ tree = Drawn(ls, 0, pars)
                  /\ hdr.request <=> Says(pairs, "request", "1")
                  /\ hdr.proxiable <=> Says(pairs, "proxiable", "1")
                  /\ NumberSaid(pairs, "command_code", hdr.cmd_code)
                  /\ NumberSaid(pairs, "application_id", hdr.app_id)
  <2> HIDE DEF ok, hdr, tree
  <2>1. QED
    BY <1>3, <1>4, <1>5, <1>6, Zenon DEF FilledAsDrawn
<1>7. Laid(ls)
  <2>1. \A i \in 1..Len(ls) : ls[i].level \in Nat
    BY <1>1, Zenon DEF Written
  <2>2. Len(ls) \in Nat
    <3>1. \E S : ls \in Seq(S)
      BY <1>1, Zenon DEF Written
    <3> HIDE DEF ls
    <3>2. QED
      BY <3>1
  <2>3. QED
    BY <1>1, <1>6, <2>1, <2>2, Zenon DEF Laid
<1>8. \A i \in 1..Len(ls) : Parent(ls, i) # 0 => ls[Parent(ls, i)].avp_type = "Grouped"
  BY <1>7, ParentGrouped, Zenon
<1>9. /\ ret.panics <=> \E i \in 1..Len(ls) : NoAddress(ls[i], pars)
      /\ ~ret.panics => tree = Drawn(ls, 0, pars)
  <2>1. ret = collectRow(0, RowsOf(ls), pars)
    BY <1>1, Zenon
  <2> HIDE DEF ls, ret
  <2>2. QED
    BY <1>1, <1>2, <1>7, <2>1, CollectsWhatIsDrawn, Zenon
<1>10. /\ hdr.request <=> Says(pairs, "request", "1")
       /\ hdr.proxiable <=> Says(pairs, "proxiable", "1")
       /\ NumberSaid(pairs, "command_code", hdr.cmd_code)
       /\ NumberSaid(pairs, "application_id", hdr.app_id)
  BY <1>1, HeaderFilled, Zenon
<1>11. QED
  BY <1>8, <1>9, <1>10, Zenon

\* At the start nothing is read.
LEMMA TemplateInitInv == Init => TemplateInv
<1> SUFFICES ASSUME Init PROVE TemplateInv
  OBVIOUS
<1>1. /\ phase = IF Files = <<>> THEN "ready" ELSE "load"
      /\ c_file = 1 /\ c_temps = <<>> /\ header_params = <<>>
      /\ lines = [f \in FileNames |-> <<>>] /\ head = [f \in FileNames |-> <<>>]
  BY Zenon DEF Init
<1>2. filled.name = None
  <2>1. filled = NoMessage
    BY Zenon DEF Init
  <2>2. QED
    BY <2>1 DEF NoMessage
<1>3. phase \in {"load", "ready", "exit"}
  BY <1>1, Zenon
<1>4. FilesWritten
  <2>1. <<>> \in Seq(HeadPairs)
    OBVIOUS
  <2>2. QED
    BY <1>1, <2>1, NothingWritten, Zenon DEF FilesWritten
<1>5. ASSUME phase = "load" PROVE Loading
  <2>1. Files # <<>>
    <3>1. "ready" # "load"
      OBVIOUS
    <3>2. QED
      BY <1>1, <1>5, <3>1, Zenon
  <2>2. Files \in Seq(STRING)
    BY TemplateAssumption, Zenon
  <2>3. c_file \in 1..Len(Files) /\ \A i \in 1..Len(Files) : ~ i < c_file
    BY <1>1, <2>1, <2>2
  <2>4. \A i \in 1..Len(Files) : lines[Files[i]] = <<>> /\ head[Files[i]] = <<>>
    BY <1>1, NamesApart, Zenon
  <2>5. c_temps = RowsOf(lines[Name]) /\ HeaderSays(header_params, head[Name])
    BY <1>1, <2>3, <2>4, NothingWritten, NothingSaid, Zenon DEF Name
  <2>6. QED
    BY <1>1, <1>2, <2>3, <2>4, <2>5, Zenon DEF Loading
<1>6. ASSUME phase = "ready" PROVE Filling
  <2>1. Files = <<>>
    <3>1. "ready" # "load"
      OBVIOUS
    <3>2. QED
      BY <1>1, <1>6, <3>1, Zenon
  <2>2. QED
    BY <2>1, NamesApart, Zenon DEF Filling
<1>7. FilledAsDrawn
  BY <1>2, NothingFilled, Zenon
<1>8. QED
  BY <1>3, <1>4, <1>5, <1>6, <1>7, Zenon DEF TemplateInv

\* While a file is read, what is kept of it grows and nothing else changes.
LEMMA Reading ==
  ASSUME TemplateInv, phase = "load", Loading,
         phase' = phase, c_file' = c_file, filled' = filled, templates' = templates,
         FilesWritten',
         \A f \in FileNames \ {Name} : lines'[f] = lines[f] /\ head'[f] = head[f],
         \A f \in DOMAIN template_headers \ {Name} :
           f \in DOMAIN template_headers' /\ template_headers'[f] = template_headers[f],
         c_temps' = RowsOf(lines'[Name]), HeaderSays(header_params', head'[Name]),
         header_params' # <<>> =>
           Name \in DOMAIN template_headers' /\ template_headers'[Name] = header_params'
  PROVE  TemplateInv'
<1>1. Name' = Name /\ c_file \in 1..Len(Files) /\ Name = Files[c_file]
  BY Zenon DEF Name, Loading
<1>2. filled'.name = None
  BY Zenon DEF Loading
<1>3. FilledAsDrawn'
  <2>1. filled'.name \notin FileNames
    BY <1>2, NamesApart, Zenon
  <2>2. QED
    BY <2>1, Zenon DEF FilledAsDrawn
<1>4. ASSUME NEW i \in 1..Len(Files), i < c_file
      PROVE  Loaded(Files[i])'
  <2>1. Loaded(Files[i])
    BY <1>4, Zenon DEF Loading
  <2>2. i # c_file
    BY <1>1, <1>4
  <2>3. Files[i] \in FileNames \ {Name}
    BY <1>1, <2>2, NamesApart, Zenon
  <2>4. QED
    BY <2>1, <2>3, Zenon DEF Loaded
<1>5. ASSUME NEW i \in 1..Len(Files), i > c_file
      PROVE  lines'[Files[i]] = <<>> /\ head'[Files[i]] = <<>>
  <2>1. lines[Files[i]] = <<>> /\ head[Files[i]] = <<>>
    BY <1>5, Zenon DEF Loading
  <2>2. i # c_file
    BY <1>1, <1>5
  <2>3. Files[i] \in FileNames \ {Name}
    BY <1>1, <2>2, NamesApart, Zenon
  <2>4. QED
    BY <2>1, <2>3, Zenon
<1>6. Loading'
  BY <1>1, <1>2, <1>4, <1>5, Zenon DEF Loading
<1>7. phase' \in {"load", "ready", "exit"} /\ phase' # "ready"
  BY Zenon
<1>8. QED
  BY <1>3, <1>6, <1>7, Zenon DEF TemplateInv

\* Once the process is exiting nothing is read and nothing filled.
LEMMA Exits ==
  ASSUME TemplateInv, phase = "load", phase' = "exit",
         filled' = filled, lines' = lines, head' = head
  PROVE  TemplateInv'
<1>1. filled'.name = None
  BY Zenon DEF TemplateInv, Loading
<1>2. FilledAsDrawn'
  <2>1. filled'.name \notin FileNames
    BY <1>1, NamesApart, Zenon
  <2>2. QED
    BY <2>1, Zenon DEF FilledAsDrawn
<1>3. FilesWritten'
  BY Zenon DEF TemplateInv, FilesWritten
<1>4. phase' \in {"load", "ready", "exit"} /\ phase' # "ready" /\ phase' # "load"
  OBVIOUS
<1>5. QED
  BY <1>2, <1>3, <1>4, Zenon DEF TemplateInv

\* Growing one of the files leaves them written.
LEMMA OneFileGrows ==
  ASSUME FilesWritten, NEW ls, Written(ls), NEW pairs \in Seq(HeadPairs),
         DOMAIN lines' = FileNames, DOMAIN head' = FileNames,
         lines'[Name] = ls, head'[Name] = pairs,
         \A f \in FileNames \ {Name} : lines'[f] = lines[f] /\ head'[f] = head[f]
  PROVE  FilesWritten'
<1>1. ASSUME NEW f \in FileNames PROVE Written(lines'[f]) /\ head'[f] \in Seq(HeadPairs)
  <2>1. CASE f = Name
    BY <2>1, Zenon
  <2>2. CASE f # Name
    BY <2>2, Zenon DEF FilesWritten
  <2>3. QED
    BY <2>1, <2>2, Zenon
<1>2. QED
  BY <1>1, Zenon DEF FilesWritten

\* A pair of a header line is entered into the header of its file.
LEMMA HeaderPairKeepsInv ==
  ASSUME TemplateInv, HeaderPair
  PROVE  TemplateInv'
<1>1. phase = "load" /\ Loading /\ FilesWritten
  BY Zenon DEF HeaderPair, TemplateInv
<1>2. Name \in FileNames
  BY <1>1, NamesApart, Zenon DEF Loading, Name
<1>3. PICK pair \in HeadPairs :
        /\ header_params' = UpdateMap(header_params, pair[1], pair[2])
        /\ template_headers' = UpdateMap(template_headers, Name, header_params')
        /\ head' = [head EXCEPT ![Name] = Append(@, pair)]
  BY Zenon DEF HeaderPair
<1>4. /\ phase' = phase /\ c_file' = c_file /\ c_temps' = c_temps /\ templates' = templates
      /\ filled' = filled /\ lines' = lines
  BY Zenon DEF HeaderPair
<1> DEFINE ls == lines[Name]
           pairs == head[Name]
           more == Append(pairs, pair)
<1>5. Written(ls) /\ pairs \in Seq(HeadPairs)
  BY <1>1, <1>2, Zenon DEF FilesWritten
<1>6. more \in Seq(HeadPairs)
  <2> HIDE DEF pairs
  <2>1. QED
    BY <1>5
<1>7. /\ DOMAIN lines' = FileNames /\ DOMAIN head' = FileNames
      /\ lines'[Name] = ls /\ head'[Name] = more
      /\ \A f \in FileNames \ {Name} : lines'[f] = lines[f] /\ head'[f] = head[f]
  <2>1. DOMAIN lines = FileNames /\ DOMAIN head = FileNames
    BY <1>1, Zenon DEF FilesWritten
  <2>2. QED
    BY <1>2, <1>3, <1>4, <2>1, Zenon
<1>9. HeaderSays(header_params', more)
  <2>1. HeaderSays(header_params, pairs)
    BY <1>1, Zenon DEF Loading
  <2> HIDE DEF pairs
  <2>2. HeaderSays(UpdateMap(header_params, pair[1], pair[2]), Append(pairs, pair))
    BY <1>5, <2>1, PairSaid, Zenon
  <2>3. QED
    BY <1>3, <2>2, Zenon
<1>10. c_temps = RowsOf(ls)
  BY <1>1, Zenon DEF Loading
<1> HIDE DEF ls, pairs, more
<1>11. FilesWritten'
  BY <1>1, <1>5, <1>6, <1>7, OneFileGrows, Zenon
<1>12. /\ Name \in DOMAIN template_headers' /\ template_headers'[Name] = header_params'
       /\ \A f \in DOMAIN template_headers \ {Name} :
            f \in DOMAIN template_headers' /\ template_headers'[f] = template_headers[f]
  <2>1. Name \in DOMAIN template_headers' /\ template_headers'[Name] = header_params'
    BY <1>3, Zenon DEF UpdateMap
  <2>2. ASSUME NEW f \in DOMAIN template_headers \ {Name}
        PROVE  f \in DOMAIN template_headers' /\ template_headers'[f] = template_headers[f]
    BY <1>3, Zenon DEF UpdateMap
  <2>3. QED
    BY <2>1, <2>2, Zenon
<1>13. QED
  BY <1>1, <1>4, <1>7, <1>9, <1>10, <1>11, <1>12, Reading, Zenon

\* An AVP line adds the row it stands for.
LEMMA AvpLineKeepsInv ==
  ASSUME TemplateInv, AvpLine
  PROVE  TemplateInv'
<1>1. phase = "load" /\ Loading /\ FilesWritten
  BY Zenon DEF AvpLine, TemplateInv
<1>2. Name \in FileNames
  BY <1>1, NamesApart, Zenon DEF Loading, Name
<1> DEFINE code == LinesRead + 1
           made(line, level) == [level |-> level, avp_code |-> code,
                                 avp_type |-> line.avp_type, expr |-> line.expr]
<1>3. PICK line \in AvpLines, level \in 0..MaxLevel :
        /\ c_temps' = Append(c_temps, makeTmplRow(level, code, line.avp_type, line.expr))
        /\ lines' = [lines EXCEPT ![Name] = Append(@, made(line, level))]
  BY Zenon DEF AvpLine
<1>4. /\ phase' = phase /\ c_file' = c_file /\ header_params' = header_params
      /\ templates' = templates /\ template_headers' = template_headers
      /\ filled' = filled /\ head' = head
  BY Zenon DEF AvpLine
<1> DEFINE ls == lines[Name]
           pairs == head[Name]
           x == made(line, level)
           more == Append(ls, x)
<1>5. Written(ls) /\ pairs \in Seq(HeadPairs)
  BY <1>1, <1>2, Zenon DEF FilesWritten
<1>6. /\ x.level \in Nat /\ x.avp_type = line.avp_type /\ x.expr = line.expr
      /\ x.level = level /\ x.avp_code = code
  <2>1. MaxLevel \in Nat
    BY TemplateAssumption, Zenon
  <2> HIDE DEF code
  <2>2. QED
    BY <2>1
<1>7. RowOf(x) = makeTmplRow(level, code, line.avp_type, line.expr)
  <2> HIDE DEF x, code
  <2>1. QED
    BY <1>6, Zenon DEF RowOf
<1>8. /\ DOMAIN lines' = FileNames /\ DOMAIN head' = FileNames
      /\ lines'[Name] = more /\ head'[Name] = pairs
      /\ \A f \in FileNames \ {Name} : lines'[f] = lines[f] /\ head'[f] = head[f]
  <2>1. DOMAIN lines = FileNames /\ DOMAIN head = FileNames
    BY <1>1, Zenon DEF FilesWritten
  <2>2. QED
    BY <1>2, <1>3, <1>4, <2>1, Zenon
<1> HIDE DEF x, made, code
<1>10. Written(more)
  <2> HIDE DEF ls
  <2>1. QED
    BY <1>5, <1>6, LineAppended, Zenon
<1>11. c_temps' = RowsOf(more)
  <2>1. c_temps = RowsOf(ls)
    BY <1>1, Zenon DEF Loading
  <2>2. c_temps' = Append(RowsOf(ls), RowOf(x))
    BY <1>3, <1>7, <2>1, Zenon
  <2> HIDE DEF ls
  <2>3. RowsOf(Append(ls, x)) = Append(RowsOf(ls), RowOf(x))
    BY <1>5, RowAppended, Zenon
  <2>4. QED
    BY <2>2, <2>3, Zenon
<1>12. /\ HeaderSays(header_params, pairs)
       /\ header_params # <<>> =>
            Name \in DOMAIN template_headers /\ template_headers[Name] = header_params
  BY <1>1, Zenon DEF Loading
<1> HIDE DEF ls, pairs, more
<1>13. FilesWritten'
  BY <1>1, <1>5, <1>8, <1>10, OneFileGrows, Zenon
<1>14. /\ c_temps' = RowsOf(lines'[Name])
       /\ HeaderSays(header_params', head'[Name])
       /\ header_params' # <<>> =>
            Name \in DOMAIN template_headers' /\ template_headers'[Name] = header_params'
       /\ \A f \in DOMAIN template_headers \ {Name} :
            f \in DOMAIN template_headers' /\ template_headers'[f] = template_headers[f]
  BY <1>4, <1>8, <1>11, <1>12, Zenon
<1>15. QED
  BY <1>1, <1>4, <1>8, <1>13, <1>14, Reading, Zenon

\* At its end a file is loaded, and the next one starts with nothing.
LEMMA EndOfFileKeepsInv ==
  ASSUME TemplateInv, EndOfFile
  PROVE  TemplateInv'
<1> DEFINE n == Len(Files)
<1>1. phase = "load" /\ Loading /\ FilesWritten
  BY Zenon DEF EndOfFile, NextFile, TemplateInv
<1>2. /\ Aligned(c_temps) /\ header_params # <<>>
      /\ templates' = UpdateMap(templates, Name, c_temps)
      /\ c_temps' = <<>> /\ header_params' = <<>> /\ c_file' = c_file + 1
      /\ phase' = IF c_file = n THEN "ready" ELSE "load"
      /\ template_headers' = template_headers /\ filled' = filled
      /\ lines' = lines /\ head' = head
  BY Zenon DEF EndOfFile, NextFile, Stored
<1>3. /\ c_file \in 1..n /\ n \in Nat /\ c_temps = RowsOf(lines[Name]) /\ Name = Files[c_file]
      /\ Name \in FileNames
  BY <1>1, NamesApart, Zenon DEF Loading, Name
<1>4. filled'.name = None
  BY <1>1, <1>2, Zenon DEF Loading
<1>5. FilledAsDrawn'
  <2>1. filled'.name \notin FileNames
    BY <1>4, NamesApart, Zenon
  <2>2. QED
    BY <2>1, Zenon DEF FilledAsDrawn
<1>6. FilesWritten'
  BY <1>1, <1>2, Zenon DEF FilesWritten
<1>7. ASSUME NEW f, f = Name PROVE Loaded(f)'
  <2>1. f \in DOMAIN templates' /\ templates'[f] = c_temps
    BY <1>2, <1>7, Zenon DEF UpdateMap
  <2>2. Aligned(lines[f])
    <3> DEFINE ls == lines[f]
    <3>1. PICK S : ls \in Seq(S)
      BY <1>1, <1>3, <1>7, Zenon DEF FilesWritten, Written
    <3>2. Aligned(RowsOf(ls))
      BY <1>2, <1>3, <1>7, Zenon
    <3> HIDE DEF ls
    <3>3. SameLines(RowsOf(ls), ls)
      BY <3>1, RowsAreLines, Zenon
    <3>4. Aligned(ls)
      BY <3>1, <3>2, <3>3, SameLevels, Zenon
    <3>5. QED
      BY <3>4, Zenon DEF ls
  <2>3. f \in DOMAIN template_headers /\ HeaderSays(template_headers[f], head[f])
    BY <1>1, <1>2, <1>7, Zenon DEF Loading
  <2>4. templates'[f] = RowsOf(lines'[f])
    BY <1>2, <1>3, <1>7, <2>1, Zenon
  <2>5. QED
    BY <1>2, <2>1, <2>2, <2>3, <2>4, Zenon DEF Loaded
<1>8. ASSUME NEW i \in 1..n, i < c_file PROVE Loaded(Files[i])'
  <2>1. Loaded(Files[i])
    BY <1>1, <1>8, Zenon DEF Loading
  <2>2. i # c_file
    BY <1>3, <1>8
  <2>3. Files[i] # Name
    BY <1>3, <2>2, NamesApart, Zenon
  <2>4. Files[i] \in DOMAIN templates' /\ templates'[Files[i]] = templates[Files[i]]
    BY <1>2, <2>1, <2>3, Zenon DEF Loaded, UpdateMap
  <2>5. QED
    BY <1>2, <2>1, <2>4, Zenon DEF Loaded
<1>9. ASSUME NEW i \in 1..n, i < c_file + 1 PROVE Loaded(Files[i])'
  <2>1. i < c_file \/ i = c_file
    BY <1>3, <1>9
  <2>2. QED
    BY <1>3, <1>7, <1>8, <2>1, Zenon
<1>10. ASSUME NEW i \in 1..n, i > c_file + 1
       PROVE  lines'[Files[i]] = <<>> /\ head'[Files[i]] = <<>>
  <2>1. i > c_file
    BY <1>3, <1>10
  <2>2. QED
    BY <1>1, <1>2, <2>1, Zenon DEF Loading
<1>11. CASE c_file = n
  <2>1. phase' = "ready"
    BY <1>2, <1>11, Zenon
  <2>2. \A i \in 1..n : i < c_file + 1
    BY <1>3, <1>11
  <2>3. \A i \in 1..n : Loaded(Files[i])'
    BY <1>9, <2>2, Zenon
  <2>4. Filling'
    BY <2>3, Zenon DEF Filling, FileNames
  <2>5. phase' \in {"load", "ready", "exit"} /\ phase' # "load"
    BY <2>1
  <2>6. QED
    BY <1>5, <1>6, <2>4, <2>5, Zenon DEF TemplateInv
<1>12. CASE c_file # n
  <2>1. phase' = "load"
    BY <1>2, <1>12, Zenon
  <2>2. c_file' \in 1..n
    BY <1>2, <1>3, <1>12
  <2>3. lines[Files[c_file + 1]] = <<>> /\ head[Files[c_file + 1]] = <<>>
    <3> DEFINE j == c_file + 1
    <3>1. j \in 1..n /\ j > c_file
      BY <1>3, <1>12
    <3> HIDE DEF j
    <3>2. lines[Files[j]] = <<>> /\ head[Files[j]] = <<>>
      BY <1>1, <3>1, Zenon DEF Loading
    <3>3. QED
      BY <3>2, Zenon DEF j
  <2>4. c_temps' = RowsOf(lines'[Name']) /\ HeaderSays(header_params', head'[Name'])
    BY <1>2, <2>3, NothingWritten, NothingSaid, Zenon DEF Name
  <2>5. \A i \in 1..n : /\ i < c_file' => Loaded(Files[i])'
                        /\ i > c_file' => lines'[Files[i]] = <<>> /\ head'[Files[i]] = <<>>
    BY <1>2, <1>9, <1>10, Zenon
  <2>6. Loading'
    BY <1>2, <1>4, <2>2, <2>4, <2>5, Zenon DEF Loading
  <2>7. phase' \in {"load", "ready", "exit"} /\ phase' # "ready"
    BY <2>1
  <2>8. QED
    BY <1>5, <1>6, <2>6, <2>7, Zenon DEF TemplateInv
<1>13. QED
  BY <1>11, <1>12

\* Filling a message changes none of the templates.
LEMMA FillTemplateKeepsInv ==
  ASSUME TemplateInv, NEW name \in FileNames \union {None}, NEW pars \in Parameters,
         FillTemplate(name, pars)
  PROVE  TemplateInv'
<1>1. phase = "ready" /\ Filling /\ FilesWritten
  BY Zenon DEF FillTemplate, TemplateInv
<1>2. /\ templates' = templates /\ template_headers' = template_headers
      /\ lines' = lines /\ head' = head
  BY Zenon DEF FillTemplate
<1>3. Filling' /\ FilesWritten'
  BY <1>1, <1>2, Zenon DEF Filling, Loaded, FilesWritten
<1>4. phase' \in {"ready", "exit"}
  BY Zenon DEF FillTemplate
<1>5. FilledAsDrawn'
  <2>1. CASE name \in FileNames
    BY <1>1, <2>1, Fills, Zenon
  <2>2. CASE name \notin FileNames
    <3>1. filled'.name = name
      <4>1. CASE name \in DOMAIN templates
        <5> DEFINE ret == collectRow(0, templates[name], pars)
                   ok == ~ret.panics
                   h == FillHeader(template_headers[name])
                   tree == ret.avps
        <5>1. filled' = [name |-> name, pars |-> pars, ok |-> ok, header |-> h, avps |-> tree]
          BY <4>1, Zenon DEF FillTemplate
        <5> HIDE DEF ok, h, tree
        <5>2. QED
          BY <5>1
      <4>2. CASE name \notin DOMAIN templates
        <5>1. filled' = [NoMessage EXCEPT !.name = name]
          BY <4>2, Zenon DEF FillTemplate
        <5>2. QED
          BY <5>1 DEF NoMessage
      <4>3. QED
        BY <4>1, <4>2
    <3>2. QED
      BY <2>2, <3>1, Zenon DEF FilledAsDrawn
  <2>3. QED
    BY <2>1, <2>2
<1>6. phase' \in {"load", "ready", "exit"} /\ phase' # "load"
  BY <1>4
<1>7. QED
  BY <1>3, <1>5, <1>6, Zenon DEF TemplateInv

\* Every step keeps the invariant.
LEMMA TemplateStepKeepsInv == TemplateInv /\ [Next]_vars => TemplateInv'
<1> SUFFICES ASSUME TemplateInv, [Next]_vars PROVE TemplateInv'
  OBVIOUS
<1>1. CASE HeaderPair
  BY <1>1, HeaderPairKeepsInv
<1>2. CASE AvpLine
  BY <1>2, AvpLineKeepsInv
<1>3. CASE BadLine
  <2>1. phase = "load" /\ phase' = "exit" /\ filled' = filled /\ lines' = lines /\ head' = head
    BY <1>3, Zenon DEF BadLine
  <2>2. QED
    BY <2>1, Exits, Zenon
<1>4. CASE EndOfBadFile
  <2>1. phase = "load" /\ phase' = "exit" /\ filled' = filled /\ lines' = lines /\ head' = head
    BY <1>4, Zenon DEF EndOfBadFile
  <2>2. QED
    BY <2>1, Exits, Zenon
<1>5. CASE EndOfFile
  BY <1>5, EndOfFileKeepsInv
<1>6. ASSUME NEW name \in FileNames \union {None}, NEW pars \in Parameters,
             FillTemplate(name, pars)
      PROVE  TemplateInv'
  BY <1>6, FillTemplateKeepsInv
<1>7. CASE UNCHANGED vars
  <2>1. /\ phase' = phase /\ c_file' = c_file /\ c_temps' = c_temps
        /\ header_params' = header_params /\ templates' = templates
        /\ template_headers' = template_headers /\ filled' = filled
        /\ lines' = lines /\ head' = head
    BY <1>7, Zenon DEF vars
  <2>2. (FilesWritten => FilesWritten') /\ (FilledAsDrawn => FilledAsDrawn')
    BY <2>1, Zenon DEF FilesWritten, FilledAsDrawn
  <2>3. (Loading => Loading') /\ (Filling => Filling')
    BY <2>1, Zenon DEF Loading, Filling, Loaded, Name
  <2>4. QED
    BY <2>1, <2>2, <2>3, Zenon DEF TemplateInv
<1>8. CASE Exited
  <2>1. UNCHANGED vars
    BY <1>8, Zenon DEF Exited
  <2>2. QED
    BY <1>7, <2>1, Zenon
<1>9. QED
  BY <1>1, <1>2, <1>3, <1>4, <1>5, <1>6, <1>7, <1>8, Zenon DEF Next

\* A filled message is what its file draws, whichever files there are, whatever
\* their lines say and whatever was filled before.
THEOREM FillsAsDrawn == Spec => []FilledAsDrawn
<1>1. TemplateInv => FilledAsDrawn
  BY Zenon DEF TemplateInv
<1>2. QED
  BY <1>1, TemplateInitInv, TemplateStepKeepsInv, PTL DEF Spec
=============================================================================
