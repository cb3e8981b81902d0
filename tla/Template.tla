------------------------------ MODULE Template ------------------------------
(***************************************************************************)
(* Message templates (templ/diam_template.go).  Init reads the template    *)
(* files line by line before anything else runs; FillTemplate then makes a *)
(* message of a template and of the parameters of the application.         *)
(*                                                                         *)
(* A file is header lines of key:value pairs and AVP lines, in any order.  *)
(* The indentation of an AVP line is its level; lines below a Grouped one  *)
(* and further in are meant to be members of the group.  An AVP is         *)
(* identified by the line it comes from.                                   *)
(* Texts are members of a small set: what is told apart is which types can *)
(* read a text and whether it is long enough for an action.  Unsigned32    *)
(* stands for all types of numbers, Address for IPAddress as well.         *)
(***************************************************************************)
EXTENDS Integers, Sequences, SequencesExt

CONSTANTS
  Files,      \* template files, in the order of ReadDir
  AvpLines,   \* what AVP lines say: type and value
  HeadPairs,  \* pairs of header lines
  PlainExprs, \* bound: values of lines that count once against MaxRows, others
              \* count three times
  PlainPairs, \* bound: pairs that do not count against MaxRows, others count three
              \* times; they come first in a file
  Texts,      \* values of a parameter
  Readable,   \* type -> values that its conversion accepts
  UserLocs,   \* texts of five characters or more
  Params,     \* names of parameters
  MaxLevel,   \* bound: levels of indentation
  MaxRows     \* bound: AVP lines in all files together

None == "none"
FileNames == {Files[i] : i \in 1..Len(Files)}

(***************************************************************************)
(* The value of a line: 'text', '{{param}}', '{{param:default}}',          *)
(* '{{!action}}', '{{param!action}}' or '{{param:default!action}}'; a      *)
(* Grouped line has none.                                                  *)
(***************************************************************************)
NoExpr                         == [kind |-> None]
Text(s)                        == [kind |-> "text", text |-> s]
Braces(param, default, action) == [kind |-> "braces", param |-> param,
                                   default |-> default, action |-> action]

ASSUME TemplateAssumption ==
  /\ Files \in Seq(STRING) /\ IsInjective(Files)
  /\ None \notin FileNames \union Params
  /\ MaxLevel \in Nat /\ MaxRows \in Nat
  /\ DOMAIN Readable = {"Unsigned32", "OctetString", "Time", "Address"}
  /\ HeadPairs \subseteq STRING \X STRING
  /\ <<"">> \notin Readable["Unsigned32"]
  /\ \A line \in AvpLines :
       IF line.avp_type = "Grouped" THEN line.expr = NoExpr
       ELSE /\ line.avp_type \in DOMAIN Readable \union {"UTF8String"}
            /\ \/ line.expr.kind = "text"
               \/ /\ line.expr.kind = "braces"
                  /\ line.expr.param = None =>
                       line.expr.default = None /\ line.expr.action # None

VARIABLES
  phase,      \* load, ready, exit
  c_file,     \* index of the file being read
  c_temps,    \* rows of it
  header_params, \* key -> value, empty before a header line
  templates,  \* file -> rows
  template_headers, \* file -> key -> value
  filled,     \* what FillTemplate returned last, and its arguments
  \* history
  lines,      \* file -> its AVP lines as they are written
  head        \* file -> its header pairs as they are written

vars == <<phase, c_file, c_temps, header_params, templates, template_headers, filled,
          lines, head>>

NoMessage == [name |-> None, pars |-> <<>>, ok |-> FALSE, header |-> <<>>, avps |-> <<>>]

Init ==
  /\ phase = IF Files = <<>> THEN "ready" ELSE "load"
  /\ c_file = 1
  /\ c_temps = <<>>
  /\ header_params = <<>>
  /\ templates = <<>>
  /\ template_headers = <<>>
  /\ filled = NoMessage
  /\ lines = [f \in FileNames |-> <<>>]
  /\ head = [f \in FileNames |-> <<>>]

-----------------------------------------------------------------------------
(***************************************************************************)
(* FillTemplate.                                                           *)
(***************************************************************************)
VAL_FIX == 1
VAL_PARAM == 2
VAL_PARAM_WITH_DEFAULT == 3
VAL_ACTION == 4
VAL_PARAM_WITH_ACTION == 5
VAL_PARAM_WITH_DEFAULT_AND_ACTION == 6

makeTmplRow(level, avp_code, avp_type, expr) ==
  LET row(valueType, value, defValue, action) ==
        [level |-> level, avp_code |-> avp_code, avp_type |-> avp_type,
         valueType |-> valueType, value |-> value, defValue |-> defValue, action |-> action]
      p == expr.param  d == expr.default  a == expr.action
  IN  CASE expr.kind = "text" -> row(VAL_FIX, expr.text, "", "")
        [] expr.kind = None -> row(VAL_FIX, "_grouped_", "", "")
        [] OTHER ->
             CASE p = None              -> row(VAL_ACTION, "", "", a)
               [] d = None /\ a = None  -> row(VAL_PARAM, p, "", "")
               [] d # None /\ a # None  -> row(VAL_PARAM_WITH_DEFAULT_AND_ACTION, p, d, a)
               [] d # None /\ a = None  -> row(VAL_PARAM_WITH_DEFAULT, p, d, "")
               [] OTHER                 -> row(VAL_PARAM_WITH_ACTION, p, "0", a)

\* A value is <<text>>, or <<action, text>> for what an action makes of a text.
runAction(inp, action) ==
  CASE action = "mccnmc_to_user_loc" ->
         IF inp \in UserLocs THEN <<action, inp>> ELSE <<"0012f607ffffffff">>
    [] action = "now" -> <<action, "">>
    [] OTHER          -> <<"0">>

computeValue(row, pars) ==
  LET given == row.value \in DOMAIN pars
      val   == IF given THEN pars[row.value] ELSE row.defValue
  IN  CASE row.valueType = VAL_FIX -> <<row.value>>
        [] row.valueType \in {VAL_PARAM, VAL_PARAM_WITH_DEFAULT} -> <<val>>
        [] row.valueType = VAL_ACTION -> runAction("", row.action)
        [] row.valueType = VAL_PARAM_WITH_ACTION ->
             IF given THEN runAction(val, row.action) ELSE <<val>>
        [] row.valueType = VAL_PARAM_WITH_DEFAULT_AND_ACTION -> runAction(val, row.action)

\* IPv4ToByte panics on what is not four parts: there is no value.
Panic == <<>>

\* stringToAvp_...: what becomes of a value that cannot be converted.
Converted(avp_type, value) ==
  IF avp_type = "UTF8String" \/ value \in Readable[avp_type] THEN value
  ELSE CASE avp_type = "Unsigned32"  -> <<"9999">>
         [] avp_type = "OctetString" -> <<"00">>
         [] avp_type = "Time"        -> runAction("", "now")
         [] avp_type = "Address"     -> Panic

Leaf(avp_code, value) == [avp_code |-> avp_code, value |-> value, avps |-> <<>>]
Group(avp_code, avps) == [avp_code |-> avp_code, value |-> <<>>, avps |-> avps]

\* The numbers up to n that are in S, in their order.
InOrder(S, n) ==
  LET upTo[k \in Nat] == IF k = 0 THEN <<>>
                         ELSE IF k \in S THEN Append(upTo[k - 1], k) ELSE upTo[k - 1]
  IN  upTo[n]

\* Fault: a group takes one row.
GroupEndShort(rows, j, to) ==
  IF j < to /\ rows[j + 1].level = rows[j].level + 1 THEN j + 1 ELSE j

\* A group takes the rows up to the next one of its level.
GroupEnd(rows, j, to) ==
  LET next == {s \in (j + 1)..to : rows[s].level = rows[j].level}
  IN  IF next = {} THEN to ELSE Min(next) - 1

\* The rows of one level make the AVPs; a part of the rows is given by its ends.
\* A panic ends it all.
collectRow(level, rows, pars) ==
  LET collect[from \in 1..(Len(rows) + 1)] ==
        [l \in Nat |-> [to \in 0..Len(rows) |->
          LET at       == {j \in from..to : rows[j].level = l}
              group(j) == collect[j + 1][l + 1][GroupEnd(rows, j, to)]
              value(j) == Converted(rows[j].avp_type, computeValue(rows[j], pars))
              avp(j)   == IF rows[j].avp_type = "Grouped" THEN Group(rows[j].avp_code, group(j).avps)
                          ELSE Leaf(rows[j].avp_code, value(j))
              panics   == \E j \in at : IF rows[j].avp_type = "Grouped" THEN group(j).panics
                                        ELSE value(j) = Panic
              order    == InOrder(at, Len(rows))
          IN  [panics |-> panics,
               avps |-> IF panics THEN <<>> ELSE [i \in 1..Len(order) |-> avp(order[i])]]]]
  IN  collect[1][level][Len(rows)]

-----------------------------------------------------------------------------
(***************************************************************************)
(* Init.                                                                   *)
(***************************************************************************)
\* The name of the file being read; AVP lines are numbered in all files.
Name == Files[c_file]
LinesRead == FoldLeft(LAMBDA n, f : n + Len(lines[f]), 0, Files)

\* How much of the bound the lines read so far use up.
WeighLine(line) == IF line.expr \in PlainExprs THEN 1 ELSE 3
WeighPair(pair) == IF pair \in PlainPairs THEN 0 ELSE 3
Used ==
  FoldLeft(LAMBDA n, f : FoldLeft(LAMBDA k, line : k + WeighLine(line), n, lines[f])
                           + FoldLeft(LAMBDA k, pair : k + WeighPair(pair), 0, head[f]), 0, Files)

UpdateMap(m, key, value) ==
  [k \in DOMAIN m \union {key} |-> IF k = key THEN value ELSE m[k]]

\* One pair of a header line; all header lines of a file go into one map.
HeaderPair ==
  /\ phase = "load"
  /\ \E used \in {Used}, pair \in HeadPairs :
       /\ used + WeighPair(pair) <= MaxRows
       /\ pair \in PlainPairs => header_params = <<>>
       /\ header_params' = UpdateMap(header_params, pair[1], pair[2])
       /\ template_headers' = UpdateMap(template_headers, Name, header_params')
       /\ head' = [head EXCEPT ![Name] = Append(@, pair)]
  /\ UNCHANGED <<phase, c_file, c_temps, templates, filled, lines>>

AvpLine ==
  /\ phase = "load"
  /\ \E used \in {Used}, line \in AvpLines, level \in 0..MaxLevel :
       /\ used + WeighLine(line) <= MaxRows
       /\ c_temps' = Append(c_temps,
                        makeTmplRow(level, LinesRead + 1, line.avp_type, line.expr))
       /\ lines' = [lines EXCEPT ![Name] = Append(@,
            [level |-> level, avp_code |-> LinesRead + 1,
             avp_type |-> line.avp_type, expr |-> line.expr])]
  /\ UNCHANGED <<phase, c_file, header_params, templates, template_headers, filled, head>>

\* A line that fails one of the checks, or whose braces makeTmplRow cannot take
\* apart: os.Exit(1), or a panic.
BadLine ==
  /\ phase = "load"
  /\ phase' = "exit"
  /\ UNCHANGED <<c_file, c_temps, header_params, templates, template_headers, filled,
                 lines, head>>

\* The checks over the rows of a file.
Aligned(rows) ==
  /\ rows # <<>> => rows[1].level = 0
  /\ \A j \in 2..Len(rows) :
       rows[j].level = rows[j - 1].level + 1 => rows[j - 1].avp_type = "Grouped"

Stored == templates' = UpdateMap(templates, Name, c_temps)

\* Misaligned rows, or no header: the process exits, in the second case after
\* the template has been stored.
EndOfBadFile ==
  /\ phase = "load"
  /\ \/ ~Aligned(c_temps) /\ UNCHANGED templates
     \/ Aligned(c_temps) /\ header_params = <<>> /\ Stored
  /\ phase' = "exit"
  /\ UNCHANGED <<c_file, c_temps, header_params, template_headers, filled, lines, head>>

\* What is left of a file when the next one is read.
NextFile(rows, params) ==
  /\ phase = "load"
  /\ Aligned(c_temps) /\ header_params # <<>>
  /\ Stored
  /\ c_temps' = rows
  /\ header_params' = params
  /\ c_file' = c_file + 1
  /\ phase' = IF c_file = Len(Files) THEN "ready" ELSE "load"
  /\ UNCHANGED <<template_headers, filled, lines, head>>

\* Fault: c_temps is declared outside the loop over the files.
EndOfFileKeepsRows == NextFile(c_temps, <<>>)

EndOfFile == NextFile(<<>>, <<>>)

-----------------------------------------------------------------------------
\* The parameters of a call: some of Params, each with a text.
Parameters == UNION {[P -> Texts] : P \in SUBSET Params}

\* The header of the message; what is not a number becomes 9999 here as well.
FillHeader(h) ==
  LET get(key) == IF key \in DOMAIN h THEN h[key] ELSE ""
  IN  [cmd_code  |-> Converted("Unsigned32", <<get("command_code")>>),
       app_id    |-> Converted("Unsigned32", <<get("application_id")>>),
       request   |-> get("request") = "1",
       proxiable |-> get("proxiable") = "1"]

\* A panic ends the process: there is no message.
FillTemplate(name, pars) ==
  /\ phase = "ready"
  /\ IF name \in DOMAIN templates
     THEN LET ret == collectRow(0, templates[name], pars)
          IN  /\ filled' = [name |-> name, pars |-> pars, ok |-> ~ret.panics,
                            header |-> FillHeader(template_headers[name]), avps |-> ret.avps]
              /\ phase' = IF ret.panics THEN "exit" ELSE "ready"
     ELSE /\ filled' = [NoMessage EXCEPT !.name = name]
          /\ phase' = "ready"
  /\ UNCHANGED <<c_file, c_temps, header_params, templates, template_headers,
                 lines, head>>

Exited == phase = "exit" /\ UNCHANGED vars

Next ==
  \/ HeaderPair \/ AvpLine \/ BadLine \/ EndOfBadFile \/ EndOfFile
  \/ \E name \in FileNames \union {None}, pars \in Parameters : FillTemplate(name, pars)
  \/ Exited

Spec == Init /\ [][Next]_vars

-----------------------------------------------------------------------------
\* What a value says: the parameter if it is given, otherwise the default, put
\* through the action.  Without a default a missing parameter is empty, and is
\* "0", not put through the action, if there is one.
Meaning(e, pars) ==
  LET given == e.param \in DOMAIN pars
      raw   == CASE given -> pars[e.param]
                 [] ~given /\ e.default # None -> e.default
                 [] ~given /\ e.default = None /\ e.param # None /\ e.action # None -> "0"
                 [] OTHER -> ""
      acts  == e.action # None /\ (given \/ e.default # None \/ e.param = None)
  IN  IF e.kind = "text" THEN <<e.text>>
      ELSE IF acts THEN runAction(raw, e.action) ELSE <<raw>>

\* The line that line i is indented under: the last one before it further out.
Parent(ls, i) ==
  LET outer == {j \in 1..(i - 1) : ls[j].level < ls[i].level}
  IN  IF outer = {} THEN 0 ELSE CHOOSE j \in outer : \A k \in outer : k <= j

\* The AVPs that the indentation draws under line p; 0 is the message.
Drawn(ls, p, pars) ==
  LET drawn[q \in 0..Len(ls)] ==
        LET members == InOrder({i \in 1..Len(ls) : Parent(ls, i) = q}, Len(ls))
            avp(i)  == IF ls[i].avp_type = "Grouped" THEN Group(ls[i].avp_code, drawn[i])
                       ELSE Leaf(ls[i].avp_code,
                                 Converted(ls[i].avp_type, Meaning(ls[i].expr, pars)))
        IN  [k \in 1..Len(members) |-> avp(members[k])]
  IN  drawn[p]

\* No line is indented by more than one level against the line before it.
NoJumps(ls) == \A j \in 2..Len(ls) : ls[j].level <= ls[j - 1].level + 1

\* The line is to hold an address, and its value is none.
NoAddress(line, pars) ==
  line.avp_type = "Address" /\ Meaning(line.expr, pars) \notin Readable["Address"]

\* What the header lines of a file say of a key: the last of them decides.
Says(pairs, key, value) ==
  \E i \in 1..Len(pairs) :
    pairs[i] = <<key, value>> /\ \A j \in (i + 1)..Len(pairs) : pairs[j][1] # key

\* A number of the header is the one that is said; 9999 stands for any other text.
NumberSaid(pairs, key, got) ==
  \A pair \in HeadPairs :
    pair[1] = key /\ <<pair[2]>> \in Readable["Unsigned32"] \ {<<"9999">>} =>
      (Says(pairs, key, pair[2]) <=> got = <<pair[2]>>)

\* A filled message is the tree its file draws, line for line and value for
\* value, under the header its header lines give, whatever files were read before
\* it and whichever parameters are given, as long as no line of the file jumps in
\* by more than one level: then every line is the message's or is in a group.
\* Filling it panics exactly if an address it is to hold is none.
FilledAsDrawn ==
  filled.name \in FileNames /\ NoJumps(lines[filled.name]) =>
    LET ls    == lines[filled.name]
        pairs == head[filled.name]
    IN  /\ \A i \in 1..Len(ls) : Parent(ls, i) # 0 => ls[Parent(ls, i)].avp_type = "Grouped"
        /\ filled.ok <=> phase = "ready"
        /\ filled.ok <=> \A i \in 1..Len(ls) : ~NoAddress(ls[i], filled.pars)
        /\ filled.ok =>
             /\ filled.avps = Drawn(ls, 0, filled.pars)
             /\ filled.header.request <=> Says(pairs, "request", "1")
             /\ filled.header.proxiable <=> Says(pairs, "proxiable", "1")
             /\ NumberSaid(pairs, "command_code", filled.header.cmd_code)
             /\ NumberSaid(pairs, "application_id", filled.header.app_id)
=============================================================================
