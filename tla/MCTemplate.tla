----------------------------- MODULE MCTemplate -----------------------------
(***************************************************************************)
(* Instances of Template for TLC.  Groups and AVPs with a fixed text make  *)
(* up the nesting.                                                         *)
(***************************************************************************)
EXTENDS Template

MCTwoFiles == <<"ccr_i", "ccr_t">>
MCOneFile  == <<"ccr_i">>

Line(avp_type, expr) == [avp_type |-> avp_type, expr |-> expr]

MCPlainExprs == {NoExpr, Text("1")}

\* Every form of value, with texts of each kind.
MCForms ==
  {Text(t) : t \in {"0", "abc", "10.0.0.1"}}
    \union {Braces("user_location", d, a) : d \in {None, "216", "21670"},
                                            a \in {None, "mccnmc_to_user_loc", "later"}}
    \union {Braces(None, None, a) : a \in {"now", "mccnmc_to_user_loc"}}

MCReadable ==
  [Unsigned32  |-> {<<n>> : n \in {"0", "1", "4", "216", "272", "21670"}},
   OctetString |-> {<<"">>, <<"0012f607ffffffff">>, <<"mccnmc_to_user_loc", "21670">>},
   Time        |-> {<<"now", "">>},
   Address     |-> {<<"10.0.0.1">>}]

MCPairs ==
  {<<"command_code", "272">>, <<"command_code", "abc">>, <<"application_id", "4">>,
   <<"request", "1">>, <<"request", "0">>, <<"proxiable", "1">>}

MCAvpLines ==
  {Line("Grouped", NoExpr), Line("UTF8String", Text("1"))}
    \union {Line(t, e) : t \in DOMAIN MCReadable \union {"UTF8String"}, e \in MCForms}

MCPlainLines == {Line("Grouped", NoExpr), Line("UTF8String", Text("1"))}
MCPlainPairs == {<<"command_code", "272">>}

RECURSIVE AvpsIn(_)
AvpsIn(avps) == FoldLeft(LAMBDA n, a : n + 1 + AvpsIn(a.avps), 0, avps)

\* Init ends the process on a "misaligned row" (diam_template.go:539), so a template
\* that was accepted puts every one of its lines into the message.
NoLineDropped ==
  filled.ok => AvpsIn(filled.avps) = Len(lines[filled.name])
=============================================================================
