-------------------------------- MODULE Codec --------------------------------
(***************************************************************************)
(* Messages and AVPs as octets (diam/message.go, diam/avp.go): Encode of a *)
(* worker or of the application on one side, Decode of a worker on the     *)
(* other.  An octet is a digit of base B (256 in the code), so that the    *)
(* limits of the length fields and of the integers come within reach.      *)
(*                                                                         *)
(* The behaviour is a sender that puts a message together with the         *)
(* constructors of avp_format.go and AddAVPs_Head and AddAVPs_Tail, then   *)
(* encodes it, and a receiver that decodes it.  data is a tuple: <<n>> for *)
(* an integer or a time (in seconds of the Unix epoch), the octets for a   *)
(* string, <<family>> and the octets for an address; avps are the members  *)
(* of a group.  Floating point AVPs are integers of the same width here:   *)
(* what Encode and Decode do with their bits is the same.                  *)
(*                                                                         *)
(* What recurses is a function, on the depth of nesting or on the octets,  *)
(* so that CodecProofs can say what it computes for all of them.           *)
(***************************************************************************)
EXTENDS Integers, Sequences, SequencesExt

CONSTANTS
  B,          \* values of an octet
  EpochShift, \* 2208988800 in the code: from the NTP era to the Unix epoch
  Dictionary, \* <<code, vendor>> -> format; external data, see Dict
  Headers,    \* headers a message is made with
  Leaves,     \* AVPs the sender makes that are not groups
  Groups,     \* groups it makes, still empty
  MaxAvps,    \* bound: AVPs in a message that are not groups
  MaxDepth    \* bound: nesting of groups

VARIABLES
  phase,  \* build, encoded, decoded
  leaves, \* AVPs added so far
  depth,  \* groups made so far
  mess,   \* the message of the sender: header and avps
  made,   \* history: the AVPs the sender has made, groups without their members
  wire,   \* its octets
  got     \* what the receiver decoded

vars == <<phase, leaves, depth, mess, made, wire, got>>

-----------------------------------------------------------------------------
(***************************************************************************)
(* Octets.                                                                 *)
(***************************************************************************)
Octets == 0..(B - 1)

Pow[n \in Nat] == IF n = 0 THEN 1 ELSE B * Pow[n - 1]

\* n as w octets, most significant first; a negative n in two's complement.
BigEndian(n, w) == [i \in 1..w |-> (n \div Pow[w - i]) % B]

Unsigned(s) ==
  LET upto[i \in 0..Len(s)] == IF i = 0 THEN 0 ELSE (upto[i - 1] * B) + s[i]
  IN  upto[Len(s)]

Signed(s) ==
  LET n == Unsigned(s) IN IF s[1] >= B \div 2 THEN n - Pow[Len(s)] ELSE n

\* The flag bits of an octet: V (or R) and M (or P).
TopBit    == B \div 2
SecondBit == B \div 4
IsSet(octet, bit) == (octet \div bit) % 2 = 1
Or(octet, set, bit) == IF set /\ ~IsSet(octet, bit) THEN octet + bit ELSE octet

Zeros(n) == [i \in 1..n |-> 0]

-----------------------------------------------------------------------------
(***************************************************************************)
(* AVPs.                                                                   *)
(***************************************************************************)
Widths == [Integer32 |-> 4, Enumerated |-> 4, Unsigned32 |-> 4, Float32 |-> 4,
           Integer64 |-> 8, Unsigned64 |-> 8, Float64 |-> 8]
SignedFormats == {"Integer32", "Enumerated", "Integer64"}
StringFormats == {"OctetString", "UTF8String", "unknown"}
\* An AVP the dictionary calls an IPAddress is an OctetString.
Formats == DOMAIN Widths \union StringFormats \union {"Time", "Address", "Grouped"}

\* AVPs with at most n groups in one another below them.
AVPs[n \in Nat] ==
  [avp_code : Int, vendor_flag : BOOLEAN, mandatory_flag : BOOLEAN, vendor_id : Int,
   format : Formats, data : Seq(Int),
   avps : IF n = 0 THEN {<<>>} ELSE Seq(AVPs[n - 1])]

\* Basic_AVP: the vendor flag follows from the vendor id.
Basic_AVP(code, format, data, mandatory, vendor) ==
  [avp_code |-> code, vendor_flag |-> vendor > 0, mandatory_flag |-> mandatory,
   vendor_id |-> vendor, data |-> data, format |-> format, avps |-> <<>>]

PaddingOf(n) == (4 - (n % 4)) % 4

\* Fault: padding only for the last odd octets.
PaddedToTwo(s) == s \o Zeros(Len(s) % 2)

\* Padding to a multiple of four octets.
Padded(s) == s \o Zeros(PaddingOf(Len(s)))

\* An AVP for which the receiver runs out of the slice: Go panics there, and what
\* would come after it does not matter.
Panic == Basic_AVP(-1, "panic", <<>>, FALSE, 0)

\* uint32(c_time.Unix()) + uint32(2208988800)
EncodeTime(t) == BigEndian((t + EpochShift) % Pow[4], 4)
DecodeTime(s) == (Unsigned(s) - EpochShift) % Pow[4]

\* The octets of a value; those of the members of a group are given.
Data(a, members) ==
  CASE a.format \in DOMAIN Widths   -> BigEndian(a.data[1], Widths[a.format])
    [] a.format \in StringFormats   -> a.data
    [] a.format = "Time"            -> EncodeTime(a.data[1])
    [] a.format = "Address"         -> BigEndian(a.data[1], 2) \o Tail(a.data)
    [] a.format = "Grouped"         -> members

HeadSize(a) == IF a.vendor_id > 0 THEN 12 ELSE 8

\* The octets of an AVP with n in its length field: the flags share the first
\* octet with the top of the length.
AvpOctets(a, data, n) ==
  LET length == BigEndian(n, 4)
      flags  == Or(Or(length[1], a.vendor_flag, TopBit), a.mandatory_flag, SecondBit)
      vendor == IF a.vendor_id > 0 THEN BigEndian(a.vendor_id, 4) ELSE <<>>
  IN  Padded(BigEndian(a.avp_code, 4) \o <<flags>> \o Tail(length) \o vendor \o data)

\* Fault: the length counts the padding.
EncodePaddedLength(a, members) ==
  LET data == Data(a, members)
  IN  AvpOctets(a, data, HeadSize(a) + Len(data) + PaddingOf(Len(data)))

\* AVP.Encode: the length does not count the padding.
EncodeAvp(a, members) ==
  LET data == Data(a, members) IN AvpOctets(a, data, HeadSize(a) + Len(data))

\* Encode_group, for groups nested at most n deep.
Encode_group[n \in Nat] ==
  [avps \in Seq(AVPs[n]) |->
     FlattenSeq([i \in 1..Len(avps) |->
       EncodeAvp(avps[i],
                 IF avps[i].avps = <<>> THEN <<>> ELSE Encode_group[n - 1][avps[i].avps])])]

EncodeAvps(avps) == Encode_group[MaxDepth][avps]

\* Fault: the zero value of the type, in place of Avp_code_unknown.
LookUpAvpZero(code, vendor) ==
  IF <<code, vendor>> \in DOMAIN Dictionary THEN Dictionary[<<code, vendor>>] ELSE "Integer32"

LookUpAvp(code, vendor) ==
  IF <<code, vendor>> \in DOMAIN Dictionary THEN Dictionary[<<code, vendor>>] ELSE "unknown"

\* Octets that the conversion of a format reads at least; bin.Read, which the signed
\* and the floating point formats go through, leaves 0 if there are fewer.
ReadFormats == SignedFormats \union {"Float32", "Float64"}
Needed(format) ==
  CASE format \in {"Unsigned32", "Unsigned64"} -> Widths[format]
    [] format = "Time"                         -> 4
    [] format = "Address"                      -> 2
    [] OTHER                                   -> 0

\* The value in the octets s of an AVP.
Value(format, s) ==
  CASE format \in ReadFormats /\ Len(s) < Widths[format] -> <<0>>
    [] format \in SignedFormats /\ Len(s) >= Widths[format] ->
         <<Signed(SubSeq(s, 1, Widths[format]))>>
    [] format \in DOMAIN Widths \ SignedFormats /\ Len(s) >= Widths[format] ->
         <<Unsigned(SubSeq(s, 1, Widths[format]))>>
    [] format \in StringFormats -> s
    [] format = "Time"          -> <<DecodeTime(SubSeq(s, 1, 4))>>
    [] format = "Address"       -> <<Unsigned(SubSeq(s, 1, 2))>> \o SubSeq(s, 3, Len(s))
    [] format = "Grouped"       -> <<>>

\* The first AVP in a sequence of octets: its header, its data, and what follows its
\* padding.
VendorFlag(in) == IsSet(in[5], TopBit)
HeaderOf(in)   == IF Len(in) >= 8 /\ VendorFlag(in) THEN 12 ELSE 8
CodeOf(in)     == Unsigned(SubSeq(in, 1, 4))
VendorOf(in)   == IF VendorFlag(in) THEN Unsigned(SubSeq(in, 9, 12)) ELSE 0
LengthOf(in)   == Unsigned(SubSeq(in, 6, 8))
NextOf(in)     == LengthOf(in) + PaddingOf(LengthOf(in))
FormatOf(in)   == LookUpAvp(CodeOf(in), VendorOf(in))
DataOf(in)     == SubSeq(in, HeaderOf(in) + 1, LengthOf(in))
RestOf(in)     == SubSeq(in, NextOf(in) + 1, Len(in))

\* Decode_AVP: the format is the dictionary's.
Decode_AVP(in, members) ==
  IF Len(DataOf(in)) < Needed(FormatOf(in)) THEN Panic
  ELSE [avp_code |-> CodeOf(in), vendor_flag |-> VendorFlag(in),
        mandatory_flag |-> IsSet(in[5], SecondBit), vendor_id |-> VendorOf(in),
        data |-> Value(FormatOf(in), DataOf(in)), format |-> FormatOf(in),
        avps |-> members]

\* Decode_AVPs: one AVP after the other, each followed by its padding.
Decode_AVPs[in \in Seq(Octets)] ==
  IF Len(in) < HeaderOf(in) THEN <<>>
  ELSE IF LengthOf(in) < HeaderOf(in) \/ NextOf(in) > Len(in) THEN <<Panic>>
  ELSE <<Decode_AVP(in, IF FormatOf(in) = "Grouped" THEN Decode_AVPs[DataOf(in)] ELSE <<>>)>>
         \o Decode_AVPs[RestOf(in)]

-----------------------------------------------------------------------------
(***************************************************************************)
(* Messages.                                                               *)
(***************************************************************************)
\* GenMess; the P bit is the second bit of the command flags.
GenMess(cmd, request, proxiable, app, hop, end, avps) ==
  [header |-> [cmd_flags |-> Or(Or(0, request, TopBit), proxiable, SecondBit),
               cmd_code |-> cmd, app_id |-> app, hop_by_hop |-> hop, end_to_end |-> end],
   avps |-> avps]

IsRequest(h) == IsSet(h.cmd_flags, TopBit)

\* The octets of a message with n in its length field: the version takes the
\* place of the top octet.
MessageOctets(h, payload, n) ==
  <<1>> \o Tail(BigEndian(n, 4)) \o <<h.cmd_flags>> \o Tail(BigEndian(h.cmd_code, 4))
    \o BigEndian(h.app_id, 4) \o BigEndian(h.hop_by_hop, 4) \o BigEndian(h.end_to_end, 4)
    \o payload

\* Fault: the length does not count the header.
EncodePayloadLength(m) ==
  LET payload == EncodeAvps(m.avps) IN MessageOctets(m.header, payload, Len(payload))

\* Message.Encode
Encode(m) ==
  LET payload == EncodeAvps(m.avps) IN MessageOctets(m.header, payload, 20 + Len(payload))

\* DecodeHeader, which a worker uses to choose what to do with a frame.
DecodeHeader(in) ==
  [cmd_flags |-> in[5], cmd_code |-> Unsigned(SubSeq(in, 6, 8)),
   app_id |-> Unsigned(SubSeq(in, 9, 12)), hop_by_hop |-> Unsigned(SubSeq(in, 13, 16)),
   end_to_end |-> Unsigned(SubSeq(in, 17, 20))]

MessageLength(in) == Unsigned(SubSeq(in, 2, 4))

Decode(in) ==
  [header |-> DecodeHeader(in), avps |-> Decode_AVPs[SubSeq(in, 21, Len(in))]]

-----------------------------------------------------------------------------
\* A value that fits the Go type of its format.
Integers_of(format) ==
  IF format \in SignedFormats
  THEN -(Pow[Widths[format]] \div 2)..((Pow[Widths[format]] \div 2) - 1)
  ELSE 0..(Pow[Widths[format]] - 1)

IsValue(format, data) ==
  CASE format \in DOMAIN Widths -> Len(data) = 1 /\ data[1] \in Integers_of(format)
    [] format \in StringFormats -> data \in Seq(Octets)
    [] format = "Time"          -> Len(data) = 1
    [] format = "Address"       ->
         Len(data) >= 1 /\ data[1] \in 0..(Pow[2] - 1) /\ Tail(data) \in Seq(Octets)
    [] format = "Grouped"       -> data = <<>>
    [] OTHER                    -> FALSE

\* What the sender makes are values of the Go types; the command code has the three
\* octets that the header has for it.
ASSUME CodecAssumption ==
  /\ B \in Nat /\ B >= 4 /\ B % 4 = 0
  /\ EpochShift \in Nat /\ MaxAvps \in Nat /\ MaxDepth \in Nat
  /\ \A h \in Headers :
       /\ h.cmd \in 0..(Pow[3] - 1) /\ h.request \in BOOLEAN /\ h.proxiable \in BOOLEAN
       /\ h.app \in 0..(Pow[4] - 1) /\ h.hop \in 0..(Pow[4] - 1) /\ h.end \in 0..(Pow[4] - 1)
  /\ \A a \in Leaves \union Groups :
       /\ a \in AVPs[0] /\ IsValue(a.format, a.data)
       /\ a.avp_code \in 0..(Pow[4] - 1) /\ a.vendor_id \in 0..(Pow[4] - 1)
       /\ a.vendor_flag <=> a.vendor_id > 0
       /\ a.format = "Grouped" <=> a \in Groups

-----------------------------------------------------------------------------
Init ==
  /\ phase = "build"
  /\ leaves = 0
  /\ depth = 0
  /\ \E h \in Headers :
       mess = GenMess(h.cmd, h.request, h.proxiable, h.app, h.hop, h.end, <<>>)
  /\ made = {}
  /\ wire = <<>>
  /\ got = <<>>

Building(avps, a) ==
  /\ phase = "build"
  /\ mess' = [mess EXCEPT !.avps = avps]
  /\ made' = made \union {a}
  /\ UNCHANGED <<phase, wire, got>>

AddAVPs_Tail(a) ==
  /\ leaves < MaxAvps
  /\ leaves' = leaves + 1
  /\ Building(Append(mess.avps, a), a)
  /\ UNCHANGED depth

AddAVPs_Head(a) ==
  /\ leaves < MaxAvps
  /\ leaves' = leaves + 1
  /\ Building(<<a>> \o mess.avps, a)
  /\ UNCHANGED depth

\* AVP_Group: what has been put together so far becomes one AVP.
AVP_Group(group) ==
  /\ depth < MaxDepth
  /\ depth' = depth + 1
  /\ UNCHANGED leaves
  /\ Building(<<[group EXCEPT !.avps = mess.avps]>>, group)

Send ==
  /\ phase = "build"
  /\ phase' = "encoded"
  /\ wire' = Encode(mess)
  /\ UNCHANGED <<leaves, depth, mess, made, got>>

Receive ==
  /\ phase = "encoded"
  /\ phase' = "decoded"
  /\ got' = Decode(wire)
  /\ UNCHANGED <<leaves, depth, mess, made, wire>>

Done == phase = "decoded" /\ UNCHANGED vars

Next ==
  \/ \E a \in Leaves : AddAVPs_Tail(a) \/ AddAVPs_Head(a)
  \/ \E group \in Groups : AVP_Group(group)
  \/ Send \/ Receive \/ Done

Spec == Init /\ [][Next]_vars

-----------------------------------------------------------------------------
\* The length of the message fits in its 24 bits, and with it that of every AVP.
WireFits == Len(wire) < Pow[3]

\* The sender's formats are the dictionary's and its times lie in the era.
InDictionary ==
  \A a \in made :
    /\ LookUpAvp(a.avp_code, a.vendor_id) = a.format
    /\ a.format = "Time" => a.data[1] \in 0..(Pow[4] - 1)

\* What the dictionary of the receiver has under another format than the sender's it
\* has as a string, or does not know.
KeptAsOctets ==
  \A a \in made :
    LET key == <<a.avp_code, a.vendor_id>>
    IN  key \in DOMAIN Dictionary => Dictionary[key] \in {a.format} \union StringFormats

\* What the receiver decodes is what the sender put together: every AVP, flag
\* and value, in order, in groups at any depth, as long as the length fits and both
\* sides use the same formats.
RoundTrip ==
  phase = "decoded" /\ WireFits /\ InDictionary => got = mess

\* A message that is passed on goes out with the octets it came in with, also
\* when it has AVPs the dictionary does not know and times out of range.
RelayedUnchanged ==
  phase = "decoded" /\ WireFits /\ KeptAsOctets => Encode(got) = wire

\* Encode_group never reaches panic("error in padding"): every AVP, and every
\* group of them, fills whole words.
WholeWords ==
  phase = "encoded" => Len(EncodeAvps(mess.avps)) % 4 = 0

\* What readLoop and a worker read of an encoded message before it is decoded is
\* right: version, length of the frame, and the header they dispatch on.
HeaderOnTheWire ==
  phase = "encoded" /\ WireFits =>
    /\ wire[1] = 1
    /\ MessageLength(wire) = Len(wire)
    /\ DecodeHeader(wire) = mess.header
=============================================================================
