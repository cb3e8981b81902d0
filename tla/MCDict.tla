------------------------------- MODULE MCDict -------------------------------
(***************************************************************************)
(* Instances of Dict for TLC.  Numbers from 3 on are the ones fmt.Sprint   *)
(* writes with an exponent.                                                *)
(***************************************************************************)
EXTENDS Dict

Pair(n, v) == [key |-> n, numeric |-> TRUE, value |-> v]
NoNumber(v) == [key |-> 0, numeric |-> FALSE, value |-> v]

Avp(code, vendor, type, name, member, enums) ==
  [code |-> code, vendor |-> vendor, type |-> type, name |-> name,
   member |-> member, enums |-> enums]
Plain(code, vendor, type, name) == Avp(code, vendor, type, name, "", {})

\* One AVP described differently by several files.
Enumerations ==
  {Avp(1, 0, "Enumerated", "a", Member, {Pair(0, "zero"), Pair(1, "one")}),
   Avp(1, 0, "Enumerated", "b", Member, {Pair(1, "ONE"), Pair(2, NoString)}),
   Avp(1, 0, "Unsigned32", "c", Member, {Pair(0, "unused")})}

\* Other vendors and codes, beyond ExpLimit too, and a type nobody knows.
Others ==
  {Plain(1, 2, "grouped", "d"), Plain(1, 3, "Time", "e"), Plain(3, 0, "Address", "f"),
   Plain(2, 0, "Grouped", "g")}

Misspelt == Avp(1, 2, "Enumerated", "h", "enumerated", {Pair(0, "zero")})
BadKeys  == Avp(1, 0, "Enumerated", "i", Member, {NoNumber("none"), Pair(0, "nought")})

MCAvps == Enumerations \union Others \union {Misspelt, BadKeys}

\* What the files of the repository have: no key that is no number, no value that
\* is no string, both spellings of the member.
MCShipped ==
  {Avp(1, 0, "Enumerated", "a", Member, {Pair(0, "zero"), Pair(1, "one")}),
   Plain(1, 2, "grouped", "d"), Misspelt}

MCNamed ==
  {[code |-> 2, type |-> "command", name |-> "CC"],
   [code |-> 2, type |-> "command", name |-> "CCR"],
   [code |-> 2, type |-> "application", name |-> "CreditControl"],
   [code |-> 4, type |-> "application", name |-> "Gx"]}
=============================================================================
