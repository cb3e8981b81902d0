------------------------------- MODULE MCRelay -------------------------------
(***************************************************************************)
(* An instance of Codec and Relay for TLC: octets of 8 values, so that a   *)
(* length runs over at 512 octets and an integer of 32 bits at 4096.       *)
(***************************************************************************)
EXTENDS Relay

W == 4096

\* Codes 1 to 9 without a vendor, 20 and 21 with vendor 9, 30 unknown; 20 is sent as
\* a string, as here, and as a number.
MCDictionary ==
  (<<1, 0>> :> "Integer32") @@ (<<2, 0>> :> "Unsigned32") @@ (<<3, 0>> :> "OctetString")
    @@ (<<4, 0>> :> "Time") @@ (<<5, 0>> :> "Address") @@ (<<6, 0>> :> "Grouped")
    @@ (<<9, 0>> :> "Enumerated") @@ (<<7, 0>> :> "Unsigned64") @@ (<<8, 0>> :> "Integer64")
    @@ (<<20, 9>> :> "UTF8String") @@ (<<21, 9>> :> "Grouped")

MCHeaders ==
  {[cmd |-> 511, request |-> TRUE, proxiable |-> FALSE, app |-> 4, hop |-> W - 1, end |-> 0],
   [cmd |-> 257, request |-> FALSE, proxiable |-> TRUE, app |-> 0, hop |-> 8, end |-> 64]}

Text(n) == [i \in 1..n |-> (7 * i) % 8]

\* The octet 3 breaks lines here; what follows in the second string looks like an AVP.
Broken == <<5, 3, 7, 6>>

MCLineTexts ==
  <<7, 6>> :> [level |-> 0, avp_code |-> 1, vendor_id |-> 0, f |-> <<FALSE, TRUE>>,
               val |-> [form |-> "%v", data |-> <<-2048>>]]

\* The longest string whose message fits, and one octet more.
Longest == 508 - 20 - 8

MCLeaves ==
  {Basic_AVP(1, "Integer32", <<n>>, TRUE, 0) : n \in {-2048}}
    \union {Basic_AVP(9, "Enumerated", <<n>>, TRUE, 0) : n \in {2}}
    \union {Basic_AVP(2, "Unsigned32", <<n>>, FALSE, 0) : n \in {W - 1}}
    \union {Basic_AVP(3, "OctetString", Text(n), TRUE, 0) : n \in {0, 3, Longest, Longest + 1}}
    \union {Basic_AVP(4, "Time", <<t>>, TRUE, 0) : t \in {-1, W - 1}}
    \union {Basic_AVP(5, "Address", <<1>> \o Text(4), TRUE, 0)}
    \union {Basic_AVP(7, "Unsigned64", <<(W * W) - 1>>, FALSE, 0)}
    \union {Basic_AVP(8, "Integer64", <<-5>>, TRUE, 0)}
    \union {Basic_AVP(20, "UTF8String", Text(3), FALSE, 9), Basic_AVP(20, "UTF8String", Broken, FALSE, 9)}
    \union {Basic_AVP(30, "OctetString", Text(6), FALSE, 9),
            Basic_AVP(30, "Unsigned32", <<77>>, TRUE, 0),
            Basic_AVP(20, "Unsigned32", <<5>>, TRUE, 9)}

MCGroups == {Basic_AVP(6, "Grouped", <<>>, TRUE, 0), Basic_AVP(21, "Grouped", <<>>, FALSE, 9)}

MCEnumNames == {<<9, 0, 2>>}

\* Too small, too large or just right for 32 bits with and without a sign.
MCIntValues == {-1, 2, 2048, W + 3}

MCSprint == (-1 :> <<5, 1>>) @@ (2 :> <<2>>) @@ (2048 :> <<2, 0, 4, 7>>) @@ (W + 3 :> <<4, 0, 9 % 8, 7, 7>>)
=============================================================================
