----------------------------- MODULE DictProofs -----------------------------
(***************************************************************************)
(* Proofs about Dict for any entries, in any number and any order: the     *)
(* maps hold what the last entry of an AVP, of a value of an AVP, of a     *)
(* command or of an application says.                                      *)
(*                                                                         *)
(* The invariant says of each key of a map which entry it has its value    *)
(* from, by its place in "loaded".  A key of the files determines vendor   *)
(* and code, and a key that is looked up is one of the files only below    *)
(* ExpLimit.                                                               *)
(***************************************************************************)
EXTENDS Dict, TLAPS, SequenceTheorems

LastOf(S, i) == i \in S /\ \A j \in S : j <= i

EntriesOf(code, vendor) == {i \in 1..Len(loaded) : IsAvp(loaded[i], code, vendor)}

Lists(e, code, vendor, value) ==
  IsAvp(e, code, vendor) /\ \E p \in EnumPairs(e) : Atoi(p) = value

ListersOf(code, vendor, value) ==
  {i \in 1..Len(loaded) : Lists(loaded[i], code, vendor, value)}

NamedAs(type, code) == {i \in 1..Len(loaded) : loaded[i].type = type /\ loaded[i].code = code}

FileKeys == {FileKey(e.vendor, e.code) : e \in Avps}

-----------------------------------------------------------------------------
\* What the value of a key comes from.
EntriesInv ==
  /\ DOMAIN dict \subseteq FileKeys
  /\ \A code \in Codes, vendor \in Vendors :
       IF FileKey(vendor, code) \in DOMAIN dict
       THEN \E i : /\ LastOf(EntriesOf(code, vendor), i)
                   /\ dict[FileKey(vendor, code)] = make_AVPDict(loaded[i])
       ELSE EntriesOf(code, vendor) = {}

EnumsInv ==
  /\ DOMAIN avp_enums \subseteq FileKeys
  /\ \A code \in Codes, vendor \in Vendors, value \in Values :
       LET names == At(avp_enums, FileKey(vendor, code))
       IN  IF value \in DOMAIN names
           THEN \E i : /\ LastOf(ListersOf(code, vendor, value), i)
                       /\ \E p \in EnumPairs(loaded[i]) :
                            Atoi(p) = value /\ names[value] = p.value
           ELSE ListersOf(code, vendor, value) = {}

\* Of commands or of applications.
NamesInv(type, names) ==
  \A code \in Codes :
    IF code \in DOMAIN names
    THEN \E i : LastOf(NamedAs(type, code), i) /\ names[code] = loaded[i].name
    ELSE NamedAs(type, code) = {}

IndInv ==
  /\ loaded \in Seq(Avps \union Named)
  /\ EntriesInv
  /\ EnumsInv
  /\ NamesInv("command", cmd_codes)
  /\ NamesInv("application", app_ids)
-----------------------------------------------------------------------------
(***************************************************************************)
(* Keys.                                                                   *)
(***************************************************************************)
\* No two AVPs share a key.
LEMMA KeysApart ==
  ASSUME NEW c, NEW v, NEW d, NEW w, FileKey(v, c) = FileKey(w, d)
  PROVE  c = d /\ v = w
<1>1. \A n, k : SprintFloat(n) = SprintFloat(k) => n = k
  BY DEF SprintFloat
<1>2. SprintFloat(v) = SprintFloat(w) /\ SprintFloat(c) = SprintFloat(d)
  BY DEF FileKey
<1>3. QED
  BY <1>1, <1>2

\* Code and vendor of an entry, in the terms of the properties.
LEMMA Numbers ==
  /\ \A code \in Codes : code \in Nat
  /\ \A vendor \in Vendors : vendor \in Nat
  BY DictAssumption DEF Codes, Vendors

\* A key that is looked up is the key of the files below ExpLimit, and none of them
\* from there on.
LEMMA KeyLookedUp ==
  ASSUME NEW code \in Nat, NEW vendor \in Nat
  PROVE  /\ code < ExpLimit /\ vendor < ExpLimit => LookUpKey(code, vendor) = FileKey(vendor, code)
         /\ code >= ExpLimit \/ vendor >= ExpLimit => LookUpKey(code, vendor) \notin FileKeys
<1>1. \A n \in Nat : n < ExpLimit => SprintUint(n) = SprintFloat(n)
  BY DEF SprintUint, SprintFloat
<1>2. \A n \in Nat, k \in Nat : n >= ExpLimit => SprintUint(n) # SprintFloat(k)
  <2> SUFFICES ASSUME NEW n \in Nat, NEW k \in Nat, n >= ExpLimit
               PROVE  SprintUint(n) # SprintFloat(k)
    OBVIOUS
  <2>1. CASE k < ExpLimit
    <3>1. n # k
      BY <2>1, DictAssumption
    <3>2. QED
      BY <2>1, <3>1 DEF SprintUint, SprintFloat
  <2>2. CASE ~(k < ExpLimit)
    BY <2>2 DEF SprintUint, SprintFloat
  <2>3. QED
    BY <2>1, <2>2
<1>3. ASSUME code >= ExpLimit \/ vendor >= ExpLimit, NEW e \in Avps
      PROVE  LookUpKey(code, vendor) # FileKey(e.vendor, e.code)
  <2>1. e.vendor \in Nat /\ e.code \in Nat
    BY DictAssumption
  <2>2. SprintUint(vendor) # SprintFloat(e.vendor) \/ SprintUint(code) # SprintFloat(e.code)
    BY <1>2, <1>3, <2>1
  <2>3. QED
    BY <2>2 DEF LookUpKey, FileKey
<1>4. QED
  BY <1>1, <1>3 DEF LookUpKey, FileKey, FileKeys

-----------------------------------------------------------------------------
(***************************************************************************)
(* Entries in the order they are read.                                     *)
(***************************************************************************)
\* The last of a set of places, as the properties choose it.
LEMMA LastChosen ==
  ASSUME NEW n \in Nat, NEW S \in SUBSET (1..n), NEW i, LastOf(S, i)
  PROVE  S # {} /\ i # 0 /\ (CHOOSE k \in S : \A j \in S : j <= k) = i
<1>1. i \in S /\ i \in Nat /\ i # 0 /\ \A j \in S : j \in Nat /\ j <= i
  BY DEF LastOf
<1>2. PICK k : k = CHOOSE x \in S : \A j \in S : j <= x
  OBVIOUS
<1>3. k \in S /\ \A j \in S : j <= k
  BY <1>1, <1>2
<1>4. k = i
  BY <1>1, <1>3
<1>5. QED
  BY <1>1, <1>2, <1>4

LEMMA LastIsNew ==
  ASSUME NEW n \in Nat, NEW S \in SUBSET (1..n)
  PROVE  LastOf(S \union {n + 1}, n + 1)
  BY DEF LastOf

\* An entry more.
LEMMA Grown ==
  ASSUME loaded \in Seq(Avps \union Named), NEW e \in Avps \union Named, loaded' = Append(loaded, e)
  PROVE  LET n == Len(loaded)
         IN  /\ n \in Nat /\ loaded' \in Seq(Avps \union Named) /\ loaded'[n + 1] = e
             /\ Len(loaded') = n + 1
             /\ \A i \in 1..n : loaded'[i] = loaded[i]
             /\ \A i : i \in 1..Len(loaded') <=> i \in 1..n \/ i = n + 1
  BY AppendProperties, LenProperties

LEMMA EntriesGrow ==
  ASSUME loaded \in Seq(Avps \union Named), NEW e \in Avps \union Named,
         loaded' = Append(loaded, e), NEW code, NEW vendor
  PROVE  /\ EntriesOf(code, vendor) \subseteq 1..Len(loaded)
         /\ EntriesOf(code, vendor)' = EntriesOf(code, vendor) \union
              (IF IsAvp(e, code, vendor) THEN {Len(loaded) + 1} ELSE {})
  BY Grown DEF EntriesOf, IsAvp

LEMMA ListersGrow ==
  ASSUME loaded \in Seq(Avps \union Named), NEW e \in Avps \union Named,
         loaded' = Append(loaded, e), NEW code, NEW vendor, NEW value
  PROVE  /\ ListersOf(code, vendor, value) \subseteq 1..Len(loaded)
         /\ ListersOf(code, vendor, value)' = ListersOf(code, vendor, value) \union
              (IF Lists(e, code, vendor, value) THEN {Len(loaded) + 1} ELSE {})
<1>1. \A x : Lists(x, code, vendor, value)' <=> Lists(x, code, vendor, value)
  BY DEF Lists, IsAvp
<1>2. QED
  BY <1>1, Grown DEF ListersOf

LEMMA NamedGrow ==
  ASSUME loaded \in Seq(Avps \union Named), NEW e \in Avps \union Named,
         loaded' = Append(loaded, e), NEW type, NEW code
  PROVE  /\ NamedAs(type, code) \subseteq 1..Len(loaded)
         /\ NamedAs(type, code)' = NamedAs(type, code) \union
              (IF e.type = type /\ e.code = code THEN {Len(loaded) + 1} ELSE {})
  BY Grown DEF NamedAs

-----------------------------------------------------------------------------
(***************************************************************************)
(* The invariant.                                                          *)
(***************************************************************************)
LEMMA InitInv == Init => IndInv
<1> SUFFICES ASSUME Init PROVE IndInv
  OBVIOUS
<1>1. loaded = <<>> /\ loaded \in Seq(Avps \union Named) /\ Len(loaded) = 0
  BY DEF Init
<1>2. /\ \A code, vendor : EntriesOf(code, vendor) = {}
      /\ \A code, vendor, value : ListersOf(code, vendor, value) = {}
      /\ \A type, code : NamedAs(type, code) = {}
  BY <1>1 DEF EntriesOf, ListersOf, NamedAs
<1>3. DOMAIN <<>> = {}
  OBVIOUS
<1>4. DOMAIN dict = {} /\ DOMAIN avp_enums = {} /\ DOMAIN cmd_codes = {} /\ DOMAIN app_ids = {}
  BY <1>3 DEF Init
<1>5. \A key : At(avp_enums, key) = <<>>
  BY <1>4 DEF At
<1>6. QED
  BY <1>1, <1>2, <1>3, <1>4, <1>5 DEF IndInv, EntriesInv, EnumsInv, NamesInv

\* An AVP entry replaces the one its key had.
LEMMA EntriesKeep ==
  ASSUME IndInv, NEW e \in Avps, LoadAvp(e)
  PROVE  EntriesInv'
<1> DEFINE k0 == FileKey(e.vendor, e.code)
           n  == Len(loaded)
<1>1. /\ dict' = Put(dict, k0, make_AVPDict(e)) /\ loaded' = Append(loaded, e)
      /\ loaded \in Seq(Avps \union Named)
  BY DEF LoadAvp, AvpRead, Key, IndInv
<1>2. /\ DOMAIN dict' = {k0} \union DOMAIN dict /\ dict'[k0] = make_AVPDict(e)
      /\ \A key \in DOMAIN dict : key # k0 => dict'[key] = dict[key]
  BY <1>1 DEF Put
<1>3. DOMAIN dict' \subseteq FileKeys
  BY <1>2 DEF IndInv, EntriesInv, FileKeys
<1>4. ASSUME NEW code \in Codes, NEW vendor \in Vendors
      PROVE  IF FileKey(vendor, code) \in DOMAIN dict'
             THEN \E i : /\ LastOf(EntriesOf(code, vendor)', i)
                         /\ dict'[FileKey(vendor, code)] = make_AVPDict(loaded'[i])
             ELSE EntriesOf(code, vendor)' = {}
  <2> DEFINE S == EntriesOf(code, vendor)
  <2>1. n \in Nat /\ S \in SUBSET (1..n) /\ loaded'[n + 1] = e /\ \A i \in 1..n : loaded'[i] = loaded[i]
    BY <1>1, Grown, EntriesGrow
  <2>2. EntriesOf(code, vendor)' = S \union (IF IsAvp(e, code, vendor) THEN {n + 1} ELSE {})
    BY <1>1, EntriesGrow
  <2>3. CASE IsAvp(e, code, vendor)
    <3>1. FileKey(vendor, code) = k0
      BY <2>3 DEF IsAvp
    <3>2. LastOf(EntriesOf(code, vendor)', n + 1)
      BY <2>1, <2>2, <2>3, LastIsNew
    <3>3. QED
      BY <1>2, <2>1, <3>1, <3>2
  <2>4. CASE ~IsAvp(e, code, vendor)
    <3>1. FileKey(vendor, code) # k0
      BY <2>4, KeysApart DEF IsAvp
    <3>2. EntriesOf(code, vendor)' = S
      BY <2>2, <2>4
    <3>3. FileKey(vendor, code) \in DOMAIN dict' <=> FileKey(vendor, code) \in DOMAIN dict
      BY <1>2, <3>1
    <3>4. CASE FileKey(vendor, code) \in DOMAIN dict
      <4>1. PICK i : /\ LastOf(S, i)
                     /\ dict[FileKey(vendor, code)] = make_AVPDict(loaded[i])
        BY <3>4 DEF IndInv, EntriesInv
      <4>2. loaded'[i] = loaded[i]
        BY <2>1, <4>1 DEF LastOf
      <4>3. QED
        BY <1>2, <3>1, <3>2, <3>3, <3>4, <4>1, <4>2
    <3>5. CASE FileKey(vendor, code) \notin DOMAIN dict
      BY <3>2, <3>3, <3>5 DEF IndInv, EntriesInv
    <3>6. QED
      BY <3>4, <3>5
  <2>5. QED
    BY <2>3, <2>4
<1>5. QED
  BY <1>3, <1>4 DEF EntriesInv
\* The names an AVP entry lists replace those of the same values and leave the others.
LEMMA EnumsKeep ==
  ASSUME IndInv, NEW e \in Avps, LoadAvp(e)
  PROVE  EnumsInv'
<1> DEFINE k0 == FileKey(e.vendor, e.code)
           n  == Len(loaded)
<1>1. /\ loaded' = Append(loaded, e) /\ loaded \in Seq(Avps \union Named)
      /\ \E m \in EnumMaps(EnumPairs(e)) : avp_enums' = Added(k0, m)
  BY DEF LoadAvp, AvpRead, Key, IndInv
<1>2. PICK m \in EnumMaps(EnumPairs(e)) : avp_enums' = Added(k0, m)
  BY <1>1
<1>3. /\ \A value : value \in DOMAIN m <=> \E p \in EnumPairs(e) : Atoi(p) = value
      /\ \A value \in DOMAIN m : \E p \in EnumPairs(e) : Atoi(p) = value /\ m[value] = p.value
  BY DEF EnumMaps
<1>4. DOMAIN avp_enums' \subseteq FileKeys
  <2>1. DOMAIN avp_enums' \subseteq {k0} \union DOMAIN avp_enums
    BY <1>2 DEF Added, Put
  <2>2. QED
    BY <2>1 DEF IndInv, EnumsInv, FileKeys
<1>5. ASSUME NEW key, key # k0 PROVE At(avp_enums', key) = At(avp_enums, key)
  BY <1>2, <1>5 DEF At, Added, Put
<1>6. /\ DOMAIN At(avp_enums', k0) = DOMAIN At(avp_enums, k0) \union DOMAIN m
      /\ \A value \in DOMAIN m : At(avp_enums', k0)[value] = m[value]
      /\ \A value \in DOMAIN At(avp_enums, k0) :
           value \notin DOMAIN m => At(avp_enums', k0)[value] = At(avp_enums, k0)[value]
  <2>1. CASE m = <<>>
    <3>1. avp_enums' = avp_enums /\ DOMAIN m = {}
      BY <1>2, <2>1 DEF Added
    <3>2. QED
      BY <3>1
  <2>2. CASE m # <<>>
    <3>1. avp_enums' = Put(avp_enums, k0, PutAll(At(avp_enums, k0), m))
      BY <1>2, <2>2 DEF Added
    <3>2. At(avp_enums', k0) = PutAll(At(avp_enums, k0), m)
      BY <3>1 DEF At, Put
    <3>3. QED
      BY <3>2 DEF PutAll
  <2>3. QED
    BY <2>1, <2>2
<1>7. ASSUME NEW code \in Codes, NEW vendor \in Vendors, NEW value \in Values,
             NEW key, key = FileKey(vendor, code)
      PROVE  IF value \in DOMAIN At(avp_enums', key)
             THEN \E i : /\ LastOf(ListersOf(code, vendor, value)', i)
                         /\ \E p \in EnumPairs(loaded'[i]) :
                              Atoi(p) = value /\ At(avp_enums', key)[value] = p.value
             ELSE ListersOf(code, vendor, value)' = {}
  <2> DEFINE S == ListersOf(code, vendor, value)
  <2>1. n \in Nat /\ S \in SUBSET (1..n) /\ loaded'[n + 1] = e /\ \A i \in 1..n : loaded'[i] = loaded[i]
    BY <1>1, Grown, ListersGrow
  <2>2. ListersOf(code, vendor, value)' =
          S \union (IF Lists(e, code, vendor, value) THEN {n + 1} ELSE {})
    BY <1>1, ListersGrow
  <2>3. CASE Lists(e, code, vendor, value)
    <3>1. key = k0 /\ value \in DOMAIN m
      BY <1>3, <1>7, <2>3 DEF Lists, IsAvp
    <3>2. LastOf(ListersOf(code, vendor, value)', n + 1)
      BY <2>1, <2>2, <2>3, LastIsNew
    <3>3. \E p \in EnumPairs(loaded'[n + 1]) : Atoi(p) = value /\ At(avp_enums', key)[value] = p.value
      BY <1>3, <1>6, <2>1, <3>1
    <3>4. value \in DOMAIN At(avp_enums', key)
      BY <1>6, <3>1
    <3>5. QED
      BY <3>2, <3>3, <3>4
  <2>4. CASE ~Lists(e, code, vendor, value)
    <3>1. ListersOf(code, vendor, value)' = S
      BY <2>2, <2>4
    <3>2. key = k0 => value \notin DOMAIN m
      <4>1. key = k0 => IsAvp(e, code, vendor)
        BY <1>7, KeysApart DEF IsAvp
      <4>2. QED
        BY <1>3, <2>4, <4>1 DEF Lists
    <3>3. /\ value \in DOMAIN At(avp_enums', key) <=> value \in DOMAIN At(avp_enums, key)
          /\ value \in DOMAIN At(avp_enums, key) =>
               At(avp_enums', key)[value] = At(avp_enums, key)[value]
      BY <1>5, <1>6, <3>2
    <3>4. IF value \in DOMAIN At(avp_enums, key)
          THEN \E i : /\ LastOf(S, i)
                      /\ \E p \in EnumPairs(loaded[i]) :
                           Atoi(p) = value /\ At(avp_enums, key)[value] = p.value
          ELSE S = {}
      BY <1>7 DEF IndInv, EnumsInv
    <3>5. \A i : LastOf(S, i) => loaded'[i] = loaded[i]
      BY <2>1 DEF LastOf
    <3> HIDE DEF S
    <3>6. QED
      BY <3>1, <3>3, <3>4, <3>5
  <2>5. QED
    BY <2>3, <2>4
<1>8. QED
  BY <1>4, <1>7 DEF EnumsInv

\* An entry of another kind is none of these.
LEMMA NamesStay ==
  ASSUME loaded \in Seq(Avps \union Named), NEW e \in Avps \union Named, loaded' = Append(loaded, e),
         NEW type, NEW names, e.type # type, NamesInv(type, names)
  PROVE  NamesInv(type, names)'
<1>1. ASSUME NEW code \in Codes
      PROVE  NamedAs(type, code) \subseteq 1..Len(loaded) /\ NamedAs(type, code)' = NamedAs(type, code)
  <2>1. /\ NamedAs(type, code) \subseteq 1..Len(loaded)
        /\ NamedAs(type, code)' = NamedAs(type, code) \union
             (IF e.type = type /\ e.code = code THEN {Len(loaded) + 1} ELSE {})
    BY NamedGrow
  <2>2. QED
    BY <2>1
<1>2. \A i \in 1..Len(loaded) : loaded'[i] = loaded[i]
  BY Grown
<1>3. ASSUME NEW code \in Codes, NEW i, LastOf(NamedAs(type, code), i)
      PROVE  LastOf(NamedAs(type, code)', i) /\ loaded'[i] = loaded[i]
  BY <1>1, <1>2, <1>3 DEF LastOf
<1>4. ASSUME NEW code \in Codes
      PROVE  IF code \in DOMAIN names
             THEN \E i : LastOf(NamedAs(type, code)', i) /\ names[code] = loaded'[i].name
             ELSE NamedAs(type, code)' = {}
  <2>1. IF code \in DOMAIN names
        THEN \E i : LastOf(NamedAs(type, code), i) /\ names[code] = loaded[i].name
        ELSE NamedAs(type, code) = {}
    BY DEF NamesInv
  <2>2. QED
    BY <2>1, <1>1, <1>3
<1>5. QED
  BY <1>4 DEF NamesInv

\* An entry of a kind replaces the name its number had.
LEMMA NamesReplaced ==
  ASSUME loaded \in Seq(Avps \union Named), NEW e \in Avps \union Named, loaded' = Append(loaded, e),
         NEW type, NEW names, NEW new, NamesInv(type, names), e.type = type,
         new = Put(names, e.code, e.name)
  PROVE  NamesInv(type, new)'
<1> SUFFICES ASSUME NEW code \in Codes
             PROVE  IF code \in DOMAIN new
                    THEN \E i : LastOf(NamedAs(type, code)', i) /\ new[code] = loaded'[i].name
                    ELSE NamedAs(type, code)' = {}
  BY DEF NamesInv
<1> DEFINE n == Len(loaded)
           S == NamedAs(type, code)
<1>1. /\ n \in Nat /\ S \in SUBSET (1..n) /\ loaded'[n + 1] = e
      /\ \A i \in 1..n : loaded'[i] = loaded[i]
  BY Grown, NamedGrow
<1>2. S' = S \union (IF e.code = code THEN {n + 1} ELSE {})
  BY NamedGrow
<1>3. CASE e.code = code
  <2>1. LastOf(S', n + 1)
    BY <1>1, <1>2, <1>3, LastIsNew
  <2>2. code \in DOMAIN new /\ new[code] = e.name
    BY <1>3 DEF Put
  <2>3. QED
    BY <1>1, <2>1, <2>2
<1>4. CASE e.code # code
  <2>1. S' = S
    BY <1>2, <1>4
  <2>2. /\ code \in DOMAIN new <=> code \in DOMAIN names
        /\ code \in DOMAIN names => new[code] = names[code]
    BY <1>4 DEF Put
  <2>3. \A i : LastOf(S, i) => loaded'[i] = loaded[i]
    BY <1>1 DEF LastOf
  <2>4. IF code \in DOMAIN names
        THEN \E i : LastOf(S, i) /\ names[code] = loaded[i].name
        ELSE S = {}
    BY DEF NamesInv
  <2>5. QED
    BY <2>1, <2>2, <2>3, <2>4
<1>5. QED
  BY <1>3, <1>4

LEMMA LoadAvpStep ==
  ASSUME IndInv, NEW e \in Avps, LoadAvp(e)
  PROVE  IndInv'
<1>1. /\ loaded \in Seq(Avps \union Named) /\ loaded' = Append(loaded, e)
      /\ cmd_codes' = cmd_codes /\ app_ids' = app_ids
      /\ make_AVPDict(e).avptype # "exit"
  BY DEF IndInv, LoadAvp, AvpRead
<1>2. e.type # "command" /\ e.type # "application"
  BY <1>1 DEF make_AVPDict
<1>3. PICK cmds, apps : cmds = cmd_codes /\ apps = app_ids
  OBVIOUS
<1>4. NamesInv("command", cmds) /\ NamesInv("application", apps)
  BY <1>3 DEF IndInv, NamesInv
<1>5. NamesInv("command", cmds)' /\ NamesInv("application", apps)'
  BY <1>1, <1>2, <1>4, NamesStay
<1>6. NamesInv("command", cmd_codes)' /\ NamesInv("application", app_ids)'
  BY <1>1, <1>3, <1>5 DEF NamesInv
<1>7. QED
  BY <1>1, <1>6, Grown, EntriesKeep, EnumsKeep DEF IndInv

\* An entry of "commands" or of "application" is no AVP's.
LEMMA AvpsStay ==
  ASSUME IndInv, NEW e \in Named, loaded' = Append(loaded, e), UNCHANGED <<dict, avp_enums>>
  PROVE  EntriesInv' /\ EnumsInv'
<1>1. /\ loaded \in Seq(Avps \union Named) /\ EntriesInv /\ EnumsInv
      /\ dict' = dict /\ avp_enums' = avp_enums
  BY DEF IndInv
<1>2. \A i \in 1..Len(loaded) : loaded'[i] = loaded[i]
  BY <1>1, Grown
<1>3. e \notin Avps
  BY DictAssumption
<1>4. ASSUME NEW code, NEW vendor
      PROVE  /\ EntriesOf(code, vendor)' = EntriesOf(code, vendor)
             /\ \A i : LastOf(EntriesOf(code, vendor), i) => loaded'[i] = loaded[i]
  <2>1. /\ EntriesOf(code, vendor) \subseteq 1..Len(loaded)
        /\ EntriesOf(code, vendor)' = EntriesOf(code, vendor) \union
             (IF IsAvp(e, code, vendor) THEN {Len(loaded) + 1} ELSE {})
    BY <1>1, EntriesGrow
  <2>2. ~IsAvp(e, code, vendor)
    BY <1>3 DEF IsAvp
  <2>3. QED
    BY <1>2, <2>1, <2>2 DEF LastOf
<1>5. ASSUME NEW code, NEW vendor, NEW value
      PROVE  /\ ListersOf(code, vendor, value)' = ListersOf(code, vendor, value)
             /\ \A i : LastOf(ListersOf(code, vendor, value), i) => loaded'[i] = loaded[i]
  <2>1. /\ ListersOf(code, vendor, value) \subseteq 1..Len(loaded)
        /\ ListersOf(code, vendor, value)' = ListersOf(code, vendor, value) \union
             (IF Lists(e, code, vendor, value) THEN {Len(loaded) + 1} ELSE {})
    BY <1>1, ListersGrow
  <2>2. ~Lists(e, code, vendor, value)
    BY <1>3 DEF Lists, IsAvp
  <2>3. QED
    BY <1>2, <2>1, <2>2 DEF LastOf
<1>6. EntriesInv'
  <2>1. ASSUME NEW code \in Codes, NEW vendor \in Vendors
        PROVE  IF FileKey(vendor, code) \in DOMAIN dict'
               THEN \E i : /\ LastOf(EntriesOf(code, vendor)', i)
                           /\ dict'[FileKey(vendor, code)] = make_AVPDict(loaded'[i])
               ELSE EntriesOf(code, vendor)' = {}
    <3>1. IF FileKey(vendor, code) \in DOMAIN dict
          THEN \E i : /\ LastOf(EntriesOf(code, vendor), i)
                      /\ dict[FileKey(vendor, code)] = make_AVPDict(loaded[i])
          ELSE EntriesOf(code, vendor) = {}
      BY <1>1 DEF EntriesInv
    <3>2. QED
      BY <1>1, <1>4, <3>1
  <2>2. DOMAIN dict' \subseteq FileKeys
    BY <1>1 DEF EntriesInv
  <2>3. QED
    BY <2>1, <2>2 DEF EntriesInv
<1>7. EnumsInv'
  <2>1. ASSUME NEW code \in Codes, NEW vendor \in Vendors, NEW value \in Values,
               NEW names, names = At(avp_enums, FileKey(vendor, code))
        PROVE  IF value \in DOMAIN names
               THEN \E i : /\ LastOf(ListersOf(code, vendor, value)', i)
                           /\ \E p \in EnumPairs(loaded'[i]) :
                                Atoi(p) = value /\ names[value] = p.value
               ELSE ListersOf(code, vendor, value)' = {}
    <3>1. IF value \in DOMAIN names
          THEN \E i : /\ LastOf(ListersOf(code, vendor, value), i)
                      /\ \E p \in EnumPairs(loaded[i]) :
                           Atoi(p) = value /\ names[value] = p.value
          ELSE ListersOf(code, vendor, value) = {}
      BY <1>1, <2>1 DEF EnumsInv
    <3>2. QED
      BY <1>1, <1>5, <3>1
  <2>2. DOMAIN avp_enums' \subseteq FileKeys
    BY <1>1 DEF EnumsInv
  <2>3. \A key : At(avp_enums', key) = At(avp_enums, key)
    BY <1>1 DEF At
  <2>4. QED
    BY <2>1, <2>2, <2>3 DEF EnumsInv
<1>8. QED
  BY <1>6, <1>7

LEMMA LoadNamedStep ==
  ASSUME IndInv, NEW e \in Named, LoadNamed(e)
  PROVE  IndInv'
<1>1. /\ loaded \in Seq(Avps \union Named) /\ loaded' = Append(loaded, e)
      /\ UNCHANGED <<dict, avp_enums>>
  BY DEF IndInv, LoadNamed
<1>2. EntriesInv' /\ EnumsInv' /\ loaded' \in Seq(Avps \union Named)
  BY <1>1, Grown, AvpsStay
<1>3. PICK cmds, apps, cmds1, apps1 :
        cmds = cmd_codes /\ apps = app_ids /\ cmds1 = cmd_codes' /\ apps1 = app_ids'
  OBVIOUS
<1>4. NamesInv("command", cmds) /\ NamesInv("application", apps)
  BY <1>3 DEF IndInv, NamesInv
<1>5. NamesInv("command", cmds1)' /\ NamesInv("application", apps1)'
  <2>1. CASE e.type = "command" /\ cmds1 = Put(cmds, e.code, e.name) /\ apps1 = apps
    <3>1. e.type # "application"
      BY <2>1
    <3>2. NamesInv("command", cmds1)'
      BY <1>1, <1>4, <2>1, NamesReplaced
    <3>3. NamesInv("application", apps)'
      BY <1>1, <1>4, <3>1, NamesStay
    <3>4. QED
      BY <2>1, <3>2, <3>3
  <2>2. CASE e.type = "application" /\ apps1 = Put(apps, e.code, e.name) /\ cmds1 = cmds
    <3>1. e.type # "command"
      BY <2>2
    <3>2. NamesInv("application", apps1)'
      BY <1>1, <1>4, <2>2, NamesReplaced
    <3>3. NamesInv("command", cmds)'
      BY <1>1, <1>4, <3>1, NamesStay
    <3>4. QED
      BY <2>2, <3>2, <3>3
  <2>3. QED
    BY <1>3, <2>1, <2>2 DEF LoadNamed
<1>6. NamesInv("command", cmd_codes)' /\ NamesInv("application", app_ids)'
  BY <1>3, <1>5 DEF NamesInv
<1>7. QED
  BY <1>2, <1>6 DEF IndInv

LEMMA OthersStep ==
  ASSUME IndInv, UNCHANGED <<dict, avp_enums, cmd_codes, app_ids, loaded>>
  PROVE  IndInv'
  BY DEF IndInv, EntriesInv, EnumsInv, NamesInv, EntriesOf, ListersOf, NamedAs, Lists, IsAvp,
         LastOf, At

LEMMA StepInv == IndInv /\ [Next]_vars => IndInv'
<1> SUFFICES ASSUME IndInv, [Next]_vars PROVE IndInv'
  OBVIOUS
<1>1. ASSUME NEW e \in Avps, LoadAvp(e) PROVE IndInv'
  BY <1>1, LoadAvpStep
<1>2. ASSUME NEW e \in Avps, UnknownType(e) PROVE IndInv'
  BY <1>2, OthersStep DEF UnknownType
<1>3. ASSUME NEW e \in Named, LoadNamed(e) PROVE IndInv'
  BY <1>3, LoadNamedStep
<1>4. CASE EndOfFiles
  BY <1>4, OthersStep DEF EndOfFiles
<1>5. CASE Finished \/ UNCHANGED vars
  BY <1>5, OthersStep DEF Finished, vars
<1>6. QED
  BY <1>1, <1>2, <1>3, <1>4, <1>5 DEF Next

\* Of every reachable state: the maps hold what the entries read so far say.
THEOREM Invariance == Spec => []IndInv
<1>1. QED
  BY InitInv, StepInv, PTL DEF Spec

-----------------------------------------------------------------------------
(***************************************************************************)
(* What the look-ups return.                                               *)
(***************************************************************************)
\* The place of the last entry of a set of places.
Last(S) == IF S = {} THEN 0 ELSE CHOOSE i \in S : \A j \in S : j <= i

LEMMA LastIs ==
  ASSUME NEW S \in SUBSET (1..Len(loaded)), loaded \in Seq(Avps \union Named), NEW i, LastOf(S, i)
  PROVE  S # {} /\ Last(S) = i /\ i # 0
<1>1. Len(loaded) \in Nat
  BY LenProperties
<1>2. QED
  BY <1>1, LastChosen DEF Last

LEMMA EntryFound == IndInv => LastEntryDecides
<1> SUFFICES ASSUME IndInv PROVE LastEntryDecides
  OBVIOUS
<1>1. ASSUME NEW code \in Codes, NEW vendor \in Vendors
      PROVE  LET i == Last(EntriesOf(code, vendor))
             IN  LookUpAvp(code, vendor) =
                   IF i = 0 \/ code >= ExpLimit \/ vendor >= ExpLimit
                   THEN Unknown(code, vendor) ELSE make_AVPDict(loaded[i])
  <2> DEFINE i == Last(EntriesOf(code, vendor))
  <2>1. code \in Nat /\ vendor \in Nat /\ ExpLimit \in Nat
    BY Numbers, DictAssumption
  <2>2. CASE code >= ExpLimit \/ vendor >= ExpLimit
    <3>1. LookUpKey(code, vendor) \notin DOMAIN dict
      BY <2>1, <2>2, KeyLookedUp DEF IndInv, EntriesInv
    <3>2. QED
      BY <2>2, <3>1 DEF LookUpAvp
  <2>3. CASE code < ExpLimit /\ vendor < ExpLimit
    <3>1. LookUpKey(code, vendor) = FileKey(vendor, code)
      BY <2>1, <2>3, KeyLookedUp
    <3>2. ~(code >= ExpLimit) /\ ~(vendor >= ExpLimit)
      BY <2>1, <2>3
    <3>3. CASE FileKey(vendor, code) \in DOMAIN dict
      <4>1. PICK k : /\ LastOf(EntriesOf(code, vendor), k)
                     /\ dict[FileKey(vendor, code)] = make_AVPDict(loaded[k])
        BY <3>3 DEF IndInv, EntriesInv
      <4>2. EntriesOf(code, vendor) \in SUBSET (1..Len(loaded))
        BY DEF EntriesOf
      <4>3. i = k /\ i # 0
        BY <4>1, <4>2, LastIs DEF IndInv
      <4>4. QED
        BY <3>1, <3>2, <3>3, <4>1, <4>3 DEF LookUpAvp
    <3>4. CASE FileKey(vendor, code) \notin DOMAIN dict
      <4>1. EntriesOf(code, vendor) = {}
        BY <3>4 DEF IndInv, EntriesInv
      <4>2. i = 0
        BY <4>1 DEF Last
      <4>3. QED
        BY <3>1, <3>4, <4>2 DEF LookUpAvp
    <3>5. QED
      BY <3>3, <3>4
  <2>4. QED
    BY <2>1, <2>2, <2>3
<1>2. QED
  BY <1>1 DEF LastEntryDecides, LastLoaded, Last, EntriesOf

LEMMA NameFound == IndInv => EnumNamesAddUp
<1> SUFFICES ASSUME IndInv PROVE EnumNamesAddUp
  OBVIOUS
<1>1. ASSUME NEW code \in Codes, NEW vendor \in Vendors, NEW value \in Values
      PROVE  LET i == Last(ListersOf(code, vendor, value))
             IN  IF i = 0 \/ code >= ExpLimit \/ vendor >= ExpLimit
                 THEN LookUpAvp_Enum(code, vendor, value) = NotFound
                 ELSE \E p \in EnumPairs(loaded[i]) :
                        Atoi(p) = value /\ LookUpAvp_Enum(code, vendor, value) = p.value
  <2> DEFINE i == Last(ListersOf(code, vendor, value))
  <2>1. code \in Nat /\ vendor \in Nat /\ ExpLimit \in Nat
    BY Numbers, DictAssumption
  <2>2. CASE code >= ExpLimit \/ vendor >= ExpLimit
    <3>1. LookUpKey(code, vendor) \notin DOMAIN avp_enums
      BY <2>1, <2>2, KeyLookedUp DEF IndInv, EnumsInv
    <3>2. At(avp_enums, LookUpKey(code, vendor)) = <<>>
      BY <3>1 DEF At
    <3>3. value \notin DOMAIN <<>>
      OBVIOUS
    <3>4. QED
      BY <2>2, <3>2, <3>3 DEF LookUpAvp_Enum
  <2>3. CASE code < ExpLimit /\ vendor < ExpLimit
    <3>1. LookUpKey(code, vendor) = FileKey(vendor, code)
      BY <2>1, <2>3, KeyLookedUp
    <3>2. ~(code >= ExpLimit) /\ ~(vendor >= ExpLimit)
      BY <2>1, <2>3
    <3>3. PICK names : names = At(avp_enums, FileKey(vendor, code))
      OBVIOUS
    <3>4. LookUpAvp_Enum(code, vendor, value) = IF value \in DOMAIN names THEN names[value] ELSE NotFound
      BY <3>1, <3>3 DEF LookUpAvp_Enum
    <3>5. IF value \in DOMAIN names
          THEN \E k : /\ LastOf(ListersOf(code, vendor, value), k)
                      /\ \E p \in EnumPairs(loaded[k]) : Atoi(p) = value /\ names[value] = p.value
          ELSE ListersOf(code, vendor, value) = {}
      BY <3>3 DEF IndInv, EnumsInv
    <3>6. CASE value \in DOMAIN names
      <4>1. PICK k : /\ LastOf(ListersOf(code, vendor, value), k)
                     /\ \E p \in EnumPairs(loaded[k]) : Atoi(p) = value /\ names[value] = p.value
        BY <3>5, <3>6
      <4>2. ListersOf(code, vendor, value) \in SUBSET (1..Len(loaded))
        BY DEF ListersOf
      <4>3. i = k /\ i # 0
        BY <4>1, <4>2, LastIs DEF IndInv
      <4>4. QED
        BY <3>2, <3>4, <3>6, <4>1, <4>3
    <3>7. CASE value \notin DOMAIN names
      <4>1. i = 0
        BY <3>5, <3>7 DEF Last
      <4>2. QED
        BY <3>4, <3>7, <4>1
    <3>8. QED
      BY <3>6, <3>7
  <2>4. QED
    BY <2>1, <2>2, <2>3
<1>2. QED
  BY <1>1 DEF EnumNamesAddUp, LastLoaded, Last, ListersOf, Lists

LEMMA KindFound ==
  ASSUME IndInv, NEW type, NEW names, NamesInv(type, names), NEW code \in Codes,
         NEW i, i = Last(NamedAs(type, code))
  PROVE  (IF code \in DOMAIN names THEN names[code] ELSE NotFound) =
           IF i = 0 THEN NotFound ELSE loaded[i].name
<1>1. CASE code \in DOMAIN names
  <2>1. PICK k : LastOf(NamedAs(type, code), k) /\ names[code] = loaded[k].name
    BY <1>1 DEF NamesInv
  <2>2. NamedAs(type, code) \in SUBSET (1..Len(loaded))
    BY DEF NamedAs
  <2>3. i = k /\ i # 0
    BY <2>1, <2>2, LastIs DEF IndInv
  <2>4. QED
    BY <1>1, <2>1, <2>3
<1>2. CASE code \notin DOMAIN names
  <2>1. NamedAs(type, code) = {}
    BY <1>2 DEF NamesInv
  <2>2. i = 0
    BY <2>1 DEF Last
  <2>3. QED
    BY <1>2, <2>2
<1>3. QED
  BY <1>1, <1>2

LEMMA KindsFound == IndInv => NamesKeptApart
<1> SUFFICES ASSUME IndInv PROVE NamesKeptApart
  OBVIOUS
<1>1. ASSUME NEW code \in Codes
      PROVE  LET c == Last(NamedAs("command", code))
                 a == Last(NamedAs("application", code))
             IN  /\ LookUpAvp_command(code) = IF c = 0 THEN NotFound ELSE loaded[c].name
                 /\ LookUpAvp_appid(code) = IF a = 0 THEN NotFound ELSE loaded[a].name
  <2> DEFINE c == Last(NamedAs("command", code))
             a == Last(NamedAs("application", code))
  <2>1. PICK cmds, apps : cmds = cmd_codes /\ apps = app_ids
    OBVIOUS
  <2>2. NamesInv("command", cmds) /\ NamesInv("application", apps)
    BY <2>1 DEF IndInv, NamesInv
  <2>3. /\ (IF code \in DOMAIN cmds THEN cmds[code] ELSE NotFound) =
             IF c = 0 THEN NotFound ELSE loaded[c].name
        /\ (IF code \in DOMAIN apps THEN apps[code] ELSE NotFound) =
             IF a = 0 THEN NotFound ELSE loaded[a].name
    BY <2>2, KindFound
  <2>4. QED
    BY <2>1, <2>3 DEF LookUpAvp_command, LookUpAvp_appid
<1>2. QED
  BY <1>1 DEF NamesKeptApart, LastLoaded, Last, NamedAs

-----------------------------------------------------------------------------
\* LookUpAvp returns what the last entry read for the code and the vendor says,
\* below ExpLimit, and an unknown AVP from there on, whatever the files hold.
THEOREM LastEntryCounts == Spec => []LastEntryDecides
<1>1. QED
  BY Invariance, EntryFound, PTL

\* LookUpAvp_Enum returns the name that the last entry of the AVP to list the value
\* gives it: no later entry of the AVP that lists other values takes it away.
THEOREM EnumNamesAccumulate == Spec => []EnumNamesAddUp
<1>1. QED
  BY Invariance, NameFound, PTL

\* LookUpAvp_command and LookUpAvp_appid never return each other's names.
THEOREM KindsKeptApart == Spec => []NamesKeptApart
<1>1. QED
  BY Invariance, KindsFound, PTL
=============================================================================
