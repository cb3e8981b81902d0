-------------------------------- MODULE Dict --------------------------------
(***************************************************************************)
(* The dictionary (diam/dict.go).  Init reads every JSON file of the       *)
(* directory, in its order, into four maps that are only read afterwards:  *)
(* the AVPs, the names of the values of the Enumerated ones, the commands, *)
(* the applications.  Later entries replace earlier ones.                  *)
(*                                                                         *)
(* Where one file ends and the next begins makes no difference, so the     *)
(* entries of all files are one sequence; "loaded" remembers it.           *)
(***************************************************************************)
EXTENDS Integers, Sequences

CONSTANTS
  Avps,       \* AVP entries the files may have
  Named,      \* entries of "commands" and of "application" they may have
  ExpLimit,   \* 10^6 in the code: fmt.Sprint writes such a float64 with an exponent
  MaxEntries  \* bound: entries in all files

\* Codes and vendors are numbers of the protocol; AVPs, commands and applications are
\* in different members of a file.
ASSUME DictAssumption ==
  /\ ExpLimit \in Nat /\ MaxEntries \in Nat
  /\ \A e \in Avps \union Named : e.code \in Nat
  /\ \A e \in Avps : e.vendor \in Nat
  /\ Avps \intersect Named = {}

\* The member of an AVP entry that Init looks into.
Member == "enumarated"

\* An entry of "avps": code, vendor, type, name, and the JSON object it has as the
\* given member, a set of [key, numeric, value].  A key that is no number has
\* numeric FALSE; the key "", which the code skips, is left out.
NoString == "no string"

VARIABLES
  phase,      \* load, ready, exit
  dict,       \* key -> entry
  avp_enums,  \* key -> value -> name
  cmd_codes,  \* code -> name
  app_ids,    \* id -> name
  \* history
  loaded      \* entries read, in order

vars == <<phase, dict, avp_enums, cmd_codes, app_ids, loaded>>

Init ==
  /\ phase = "load"
  /\ dict = <<>>
  /\ avp_enums = <<>>
  /\ cmd_codes = <<>>
  /\ app_ids = <<>>
  /\ loaded = <<>>

-----------------------------------------------------------------------------
\* fmt.Sprint of a float64 when the files are read, of a uint32 when a key is
\* looked up: the texts agree below ExpLimit.
SprintFloat(n) == IF n < ExpLimit THEN <<"decimal", n>> ELSE <<"exponent", n>>
SprintUint(n)  == <<"decimal", n>>

FileKey(vendor, code)   == <<SprintFloat(vendor), SprintFloat(code)>>
LookUpKey(code, vendor) == <<SprintUint(vendor), SprintUint(code)>>

make_AVPDict(e) ==
  [code |-> e.code, vendor_id |-> e.vendor, name |-> e.name,
   avptype |->
     CASE e.type \in {"OctetString", "IPFilterRule", "IPAddress"} -> "OctetString"
       [] e.type \in {"Unsigned32", "AppId", "VendorId"} -> "Unsigned32"
       [] e.type \in {"UTF8String", "DiameterURI", "DiameterIdentity"} -> "UTF8String"
       [] e.type = "grouped" -> "Grouped"
       [] e.type \in {"Unsigned64", "Integer32", "Integer64", "Float32", "Float64",
                      "Enumerated", "Time", "Address"} -> e.type
       [] OTHER -> "exit"]

\* strconv.Atoi of the key, whose error is logged and not acted on.
Atoi(p) == IF p.numeric THEN p.key ELSE 0

\* The pairs of e the loop goes on with.
EnumPairs(e) ==
  IF e.type = "Enumerated" /\ e.member = Member
  THEN {p \in e.enums : p.value # NoString}
  ELSE {}

\* What the loop can make of the pairs: Go ranges over a map in any order, so of
\* two keys that become one number either may come last.
EnumMaps(pairs) ==
  LET values == {Atoi(p) : p \in pairs}
  IN  {m \in [values -> {p.value : p \in pairs}] :
         \A v \in values : \E p \in pairs : Atoi(p) = v /\ p.value = m[v]}

At(map, key) == IF key \in DOMAIN map THEN map[key] ELSE <<>>

\* map[key] = value
Put(map, key, value) ==
  [k \in DOMAIN map \union {key} |-> IF k = key THEN value ELSE map[k]]

\* The pairs of m put into map, one after the other.
PutAll(map, m) ==
  [k \in DOMAIN map \union DOMAIN m |-> IF k \in DOMAIN m THEN m[k] ELSE map[k]]

\* An entry that is read: what happens to the maps of entries and of names.
AvpRead(e, entries, names(_)) ==
  /\ phase = "load" /\ Len(loaded) < MaxEntries
  /\ make_AVPDict(e).avptype # "exit"
  /\ dict' = entries
  /\ \E m \in EnumMaps(EnumPairs(e)) : avp_enums' = names(m)
  /\ loaded' = Append(loaded, e)
  /\ UNCHANGED <<phase, cmd_codes, app_ids>>

Key(e) == FileKey(e.vendor, e.code)

\* The names of a key are added to those it has.
Added(key, m) ==
  IF m = <<>> THEN avp_enums ELSE Put(avp_enums, key, PutAll(At(avp_enums, key), m))

\* Fault: an AVP that is already known is not replaced.
LoadAvpOnce(e) ==
  AvpRead(e, IF Key(e) \in DOMAIN dict THEN dict ELSE Put(dict, Key(e), make_AVPDict(e)),
          LAMBDA m : Added(Key(e), m))

\* Fault: the inner map is made for every entry.
LoadAvpAfresh(e) ==
  AvpRead(e, Put(dict, Key(e), make_AVPDict(e)), LAMBDA m : Put(avp_enums, Key(e), m))

LoadAvp(e) ==
  AvpRead(e, Put(dict, Key(e), make_AVPDict(e)), LAMBDA m : Added(Key(e), m))

\* make_AVPDict ends the process on a type it does not know.
UnknownType(e) ==
  /\ phase = "load" /\ Len(loaded) < MaxEntries
  /\ make_AVPDict(e).avptype = "exit"
  /\ phase' = "exit"
  /\ UNCHANGED <<dict, avp_enums, cmd_codes, app_ids, loaded>>

\* Fault: applications and commands go into one map.
LoadNamedTogether(e) ==
  /\ phase = "load" /\ Len(loaded) < MaxEntries
  /\ cmd_codes' = Put(cmd_codes, e.code, e.name)
  /\ loaded' = Append(loaded, e)
  /\ UNCHANGED <<phase, dict, avp_enums, app_ids>>

\* An entry of "commands" or of "application".
LoadNamed(e) ==
  /\ phase = "load" /\ Len(loaded) < MaxEntries
  /\ \/ e.type = "command" /\ cmd_codes' = Put(cmd_codes, e.code, e.name) /\ UNCHANGED app_ids
     \/ e.type = "application" /\ app_ids' = Put(app_ids, e.code, e.name) /\ UNCHANGED cmd_codes
  /\ loaded' = Append(loaded, e)
  /\ UNCHANGED <<phase, dict, avp_enums>>

EndOfFiles ==
  /\ phase = "load"
  /\ phase' = "ready"
  /\ UNCHANGED <<dict, avp_enums, cmd_codes, app_ids, loaded>>

Finished == phase \in {"ready", "exit"} /\ UNCHANGED vars

Next ==
  \/ \E e \in Avps : LoadAvp(e) \/ UnknownType(e)
  \/ \E e \in Named : LoadNamed(e)
  \/ EndOfFiles \/ Finished

Spec == Init /\ [][Next]_vars

-----------------------------------------------------------------------------
(***************************************************************************)
(* The look-ups.                                                           *)
(***************************************************************************)
Unknown(code, vendor) ==
  [code |-> code, vendor_id |-> vendor, name |-> "Unknown", avptype |-> "unknown"]

LookUpAvp(code, vendor) ==
  LET key == LookUpKey(code, vendor)
  IN  IF key \in DOMAIN dict THEN dict[key] ELSE Unknown(code, vendor)

NotFound == ""

LookUpAvp_Enum(code, vendor, value) ==
  LET names == At(avp_enums, LookUpKey(code, vendor))
  IN  IF value \in DOMAIN names THEN names[value] ELSE NotFound

LookUpAvp_command(code) == IF code \in DOMAIN cmd_codes THEN cmd_codes[code] ELSE NotFound
LookUpAvp_appid(id)     == IF id \in DOMAIN app_ids THEN app_ids[id] ELSE NotFound

-----------------------------------------------------------------------------
\* The last entry read that passes the test; 0 if there is none.
LastLoaded(Test(_)) ==
  LET which == {i \in 1..Len(loaded) : Test(loaded[i])}
  IN  IF which = {} THEN 0 ELSE CHOOSE i \in which : \A j \in which : j <= i

IsAvp(e, code, vendor) == e \in Avps /\ e.code = code /\ e.vendor = vendor

Codes   == {e.code : e \in Avps \union Named}
Vendors == {e.vendor : e \in Avps}
Values  == UNION {{Atoi(p) : p \in e.enums} : e \in Avps}

\* The format an AVP is decoded with is that of the last entry read for it,
\* whatever was read before, and no other vendor's or code's entry interferes; but
\* with a code or a vendor from ExpLimit on an entry is never found.
LastEntryDecides ==
  \A code \in Codes, vendor \in Vendors :
    LET i == LastLoaded(LAMBDA e : IsAvp(e, code, vendor))
    IN  LookUpAvp(code, vendor) =
          IF i = 0 \/ code >= ExpLimit \/ vendor >= ExpLimit
          THEN Unknown(code, vendor) ELSE make_AVPDict(loaded[i])

\* The names of values add up over the files: a value is named by the last entry
\* of its AVP that lists it (under a key that is that number, or is no number when
\* the value is 0), also if a later entry of the AVP lists other values only.
EnumNamesAddUp ==
  \A code \in Codes, vendor \in Vendors, value \in Values :
    LET lists(e) == IsAvp(e, code, vendor) /\ \E p \in EnumPairs(e) : Atoi(p) = value
        i == LastLoaded(lists)
    IN  IF i = 0 \/ code >= ExpLimit \/ vendor >= ExpLimit
        THEN LookUpAvp_Enum(code, vendor, value) = NotFound
        ELSE \E p \in EnumPairs(loaded[i]) :
               Atoi(p) = value /\ LookUpAvp_Enum(code, vendor, value) = p.value

\* A command and an application with the same number keep their own names.
NamesKeptApart ==
  \A code \in Codes :
    LET c == LastLoaded(LAMBDA e : e.type = "command" /\ e.code = code)
        a == LastLoaded(LAMBDA e : e.type = "application" /\ e.code = code)
    IN  /\ LookUpAvp_command(code) = IF c = 0 THEN NotFound ELSE loaded[c].name
        /\ LookUpAvp_appid(code) = IF a = 0 THEN NotFound ELSE loaded[a].name

\* The value names that a dictionary file gives to an Enumerated AVP can be looked
\* up (dict_vodafone.json:11 gives them in a member "enumerated").
EnumNamesOfFiles ==
  \A i \in 1..Len(loaded) :
    LET e == loaded[i] IN
    e.type = "Enumerated" =>
      \A p \in e.enums : LookUpAvp_Enum(e.code, e.vendor, Atoi(p)) # NotFound
=============================================================================
