-------------------------------- MODULE Relay --------------------------------
(***************************************************************************)
(* What an application does with a message it has received (diam/avp.go,   *)
(* diam/message.go): it looks for AVPs, reads and sets integers, passes    *)
(* the message on, and prints it.  The message itself and its way here are *)
(* Codec's; the receiver may change one AVP of what it decoded.            *)
(* SetIntValue and GetIntValue on floating point AVPs are left out.        *)
(***************************************************************************)
EXTENDS Codec

CONSTANTS
  EnumNames,  \* <<code, vendor, n>> for the values of Enumerated AVPs that have names
  Sprint,     \* integer -> octets of its decimal text, for the integers that occur
  IntValues,  \* what the receiver sets AVPs to
  LineBreak,  \* the octet that ends a line of text: 10 in the code
  LineTexts,  \* octets -> the printed line of an AVP they look like, for those that do
  MaxChange   \* bound: octets of a message that the receiver changes

ASSUME RelayAssumption ==
  /\ LineBreak \in Octets
  /\ IntValues \subseteq DOMAIN Sprint /\ IsInjective(Sprint)
  /\ \A n \in IntValues : n \in Integers_of("Integer64") /\ Sprint[n] \in Seq(Octets)

VARIABLES
  changed, \* got once an AVP in it is set, empty before
  change   \* where it is set, and to what

relayVars == <<vars, changed, change>>

-----------------------------------------------------------------------------
(***************************************************************************)
(* Looking for AVPs, integers.                                             *)
(***************************************************************************)
Key(a) == <<a.avp_code, a.vendor_id>>

\* The AVPs on the way to a place, from the message inwards: it counts as a group.
Way(avps, place) ==
  LET at[k \in 0..Len(place)] ==
        IF k = 0 THEN [format |-> "Grouped", avps |-> avps] ELSE at[k - 1].avps[place[k]]
  IN  at

At(avps, place) == Way(avps, place)[Len(place)]

With(avps, place, a) ==
  LET at == Way(avps, place)
      new[k \in 0..Len(place)] ==
        IF k = Len(place) THEN a ELSE [at[k] EXCEPT !.avps[place[k + 1]] = new[k + 1]]
  IN  new[0].avps

\* Message.FindAVP, then AVP.FindAVP in what was found: the first AVP with the key.
\* The result is the place of the AVP, empty for nil.
FindAVP(avps, keys) ==
  LET found[k \in 0..Len(keys)] ==
        IF k = 0 THEN <<>>
        ELSE LET group == At(avps, found[k - 1])
                 at    == {i \in 1..Len(group.avps) : Key(group.avps[i]) = keys[k]}
             IN  IF Len(found[k - 1]) # k - 1 \/ group.format # "Grouped" \/ at = {} THEN <<>>
                 ELSE Append(found[k - 1], Min(at))
  IN  found[Len(keys)]

\* The integer types of Go: what does not fit is cut off.
Wrapped(n, format) ==
  LET s == BigEndian(n, Widths[format])
  IN  IF format \in SignedFormats THEN Signed(s) ELSE Unsigned(s)

SetTo(a, n, int) ==
  CASE a.format \in DOMAIN Widths -> [a EXCEPT !.data = <<int>>]
    [] a.format = "UTF8String"    -> [a EXCEPT !.data = Sprint[n]]
    [] a.format = "Time"          -> [a EXCEPT !.data = <<n>>]
    [] OTHER                      -> a

\* Fault: every integer goes through 32 bits.
SetIntValueNarrow(a, n) == SetTo(a, n, Wrapped(Wrapped(n, "Integer32"), a.format))

SetIntValue(a, n) == SetTo(a, n, Wrapped(n, a.format))

\* An int has 64 bits; -1 also says that there is no integer.
GetIntValue(a) ==
  CASE a.format \in DOMAIN Widths -> Wrapped(a.data[1], "Integer64")
    [] a.format = "UTF8String"    ->
         IF \E n \in DOMAIN Sprint : Sprint[n] = a.data
         THEN CHOOSE n \in DOMAIN Sprint : Sprint[n] = a.data ELSE -1
    [] a.format = "Time"          -> a.data[1]
    [] OTHER                      -> -1

\* The text of a value: %v shows digits for a number, a time and an address, and
\* the octets themselves for a string.
avpToValue(a) ==
  [form |-> CASE a.format = "OctetString" -> "0x%x"
              [] a.format = "Enumerated" /\ Key(a) \o a.data \in EnumNames -> "%s(%d)"
              [] a.format = "UTF8String" -> "string"
              [] OTHER -> "%v",
   data |-> a.data]

\* What is printed for an AVP that is of the given format in the dictionary.
Line(a, level, format) ==
  [level |-> level, avp_code |-> a.avp_code, vendor_id |-> a.vendor_id,
   f |-> <<a.vendor_id # 0, a.mandatory_flag>>,
   val |-> CASE format = "Grouped" -> [form |-> "", data |-> <<>>]
             [] format = "unknown" -> [form |-> "0x%x", data |-> a.data]
             [] OTHER              -> avpToValue(a)]

\* Fault: a group without members is left out, not only its members.
AvpLinesOfMembers(a, level, members) ==
  LET format == LookUpAvp(a.avp_code, a.vendor_id)
  IN  IF format = "Grouped"
      THEN IF a.avps = <<>> THEN <<>> ELSE <<Line(a, level, format)>> \o members
      ELSE <<Line(a, level, format)>>

\* The lines for an AVP: a group has those of its members below, and nothing at all if
\* it is one only by the dictionary.
AvpLines(a, level, members) ==
  LET format == LookUpAvp(a.avp_code, a.vendor_id)
      line   == Line(a, level, format)
  IN  CASE format # "Grouped"                         -> <<line>>
        [] format = "Grouped" /\ a.format # "Grouped" -> <<>>
        [] format = "Grouped" /\ a.format = "Grouped" -> <<line>> \o members

avpsToString[n \in Nat] ==
  [avps \in Seq(AVPs[n]) |-> [level \in Nat |->
     FlattenSeq([i \in 1..Len(avps) |->
       AvpLines(avps[i], level,
                IF avps[i].avps = <<>> THEN <<>>
                ELSE avpsToString[n - 1][avps[i].avps][level + 1])])]]

\* Where a string breaks the line it is printed on.
Breaks(line) ==
  IF line.val.form = "string"
  THEN {i \in 1..Len(line.val.data) : line.val.data[i] = LineBreak} ELSE {}

\* The lines a reader sees of one that is printed: what comes after a line break stands
\* alone, and may look like one more AVP.
TextLines(line) ==
  LET s    == line.val.data
      ends == SetToSortSeq(Breaks(line) \union {Len(s) + 1}, <)
      text(k) == SubSeq(s, ends[k - 1] + 1, ends[k] - 1)
  IN  IF Breaks(line) = {} THEN <<line>>
      ELSE [k \in 1..Len(ends) |->
              IF k = 1 THEN [line EXCEPT !.val.data = SubSeq(s, 1, ends[1] - 1)]
              ELSE IF text(k) \in DOMAIN LineTexts THEN LineTexts[text(k)]
              ELSE [text |-> text(k)]]

\* Message.ToString: the header is printed field by field, the flags in full.
MessageToString(m) ==
  LET printed == avpsToString[MaxDepth][m.avps][0]
  IN  [header |-> m.header, lines |-> FlattenSeq([i \in 1..Len(printed) |-> TextLines(printed[i])])]

-----------------------------------------------------------------------------
RelayInit == Init /\ changed = <<>> /\ change = <<>>

\* FindAVP(...).SetIntValue(n), before the message is encoded again.
Change(keys, n) ==
  /\ phase = "decoded" /\ changed = <<>>
  /\ LET place == FindAVP(got.avps, keys)
     IN  /\ place # <<>> /\ At(got.avps, place).format \notin {"Float32", "Float64"}
         /\ changed' = [got EXCEPT !.avps = With(@, place, SetIntValue(At(@, place), n))]
         /\ change' = [place |-> place, n |-> n]
  /\ UNCHANGED vars

RelayNext ==
  \/ Next /\ UNCHANGED <<changed, change>>
  \/ /\ phase = "decoded" /\ Len(wire) <= MaxChange
     /\ \E k \in 1..(MaxDepth + 1), n \in IntValues :
          \E keys \in [1..k -> {Key(a) : a \in made}] : Change(keys, n)

RelaySpec == RelayInit /\ [][RelayNext]_relayVars

-----------------------------------------------------------------------------
\* The integers that come back out of a format; an unsigned one of 64 bits takes
\* the negative ones as well.
Holds(format, n) ==
  CASE format \in {"Integer32", "Enumerated"} -> n \in -(Pow[4] \div 2)..((Pow[4] \div 2) - 1)
    [] format \in {"Unsigned32", "Time"}      -> n \in 0..(Pow[4] - 1)
    [] OTHER                                  -> TRUE

\* A message that is passed on with one AVP changed: the next receiver reads the
\* integer that was set exactly if the format holds it, an AVP that holds no
\* integer is as before, and so is everything else, in groups as well.
ChangedOnly ==
  changed # <<>> /\ WireFits /\ KeptAsOctets /\ Len(Encode(changed)) < Pow[3] =>
    LET again == Decode(Encode(changed))
        a     == At(again.avps, change.place)
    IN  /\ IF a.format \in DOMAIN Widths \union {"UTF8String", "Time"}
           THEN GetIntValue(a) = change.n <=> Holds(a.format, change.n)
           ELSE a = At(got.avps, change.place)
        /\ [again EXCEPT !.avps = With(@, change.place, At(got.avps, change.place))] = got

\* The lines up to the next on the level of the first, or further out, are its block.
Lines == [level : Nat, avp_code : Int, vendor_id : Int, f : BOOLEAN \X BOOLEAN,
          val : [form : {"", "0x%x", "%s(%d)", "string", "%v"}, data : Seq(Int)]]
Block(lines) ==
  Min({k \in 1..Len(lines) : k < Len(lines) => lines[k + 1].level <= lines[1].level})

\* The AVP that a line shows, if the lines below it show its members.
Shown(line, members) ==
  LET format == LookUpAvp(line.avp_code, line.vendor_id)
      a      == Basic_AVP(line.avp_code, format, line.val.data, line.f[2], line.vendor_id)
  IN  IF format = "Grouped" THEN [a EXCEPT !.avps = members] ELSE a

\* The AVPs that printed lines show, read by their indentation.
Reread[lines \in Seq(Lines)] ==
  IF lines = <<>> THEN <<>>
  ELSE <<Shown(lines[1], Reread[SubSeq(lines, 2, Block(lines))])>>
         \o Reread[SubSeq(lines, Block(lines) + 1, Len(lines))]

\* All of a value is to be seen on its line: a string has no line break in it, and a
\* number is not in floating point, where a NaN is printed without its bits.
SeenWhole(line) ==
  /\ Breaks(line) = {}
  /\ LookUpAvp(line.avp_code, line.vendor_id) \notin {"Float32", "Float64"}

\* A received message is printed in full, as long as none of its strings breaks the
\* line: the octets it came in can be made again of the lines, so no AVP, empty group,
\* flag or level of nesting is lost or mistaken for another, also for AVPs the
\* dictionary does not know, as long as it has none under another format (what is
\* decoded then is no longer what came in, see RelayedUnchanged).  Of a message with
\* a line break in a string the lines can say anything: this promises nothing there.
PrintedInFull ==
  LET printed == MessageToString(got)
      lines   == avpsToString[MaxDepth][got.avps][0]
  IN  /\ phase = "decoded" /\ WireFits /\ KeptAsOctets
      /\ \A i \in 1..Len(lines) : SeenWhole(lines[i])
      => Encode([header |-> printed.header, avps |-> Reread[printed.lines]]) = wire
=============================================================================
