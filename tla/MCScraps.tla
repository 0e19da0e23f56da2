------------------------------ MODULE MCScraps -------------------------------
(* Texts that break off anywhere or go on with anything: the start of a    *)
(* statement of each kind, then up to three arbitrary tokens.              *)
EXTENDS ParsedText

Tks(ts) == FlattenSeq([i \in DOMAIN ts |-> Tk(ts[i])])
Starts ==
  {<< >>} \cup {Tks(ts) : ts \in
     { <<"Id", "ColonEq">>, <<"Set", "Id", "Eq">>, <<"If", "LParen", "Id">>,
       <<"If", "Colon", "Newline", "Indent", "Id", "Newline", "Dedent">>,
       <<"Id", "LParen", "Id", "Colon", "Id">>, <<"Id", "LParen", "RParen", "Less">>,
       <<"Id", "Colon", "Type", "LBrace", "Underscore", "LParen", "Colon", "Id">>,
       <<"TemplateHead", "Id">>, <<"Id", "Dot">>, <<"Tuple", "LParen", "Id">>,
       <<"Class", "Colon", "Newline", "Indent", "Id", "Colon">>,
       <<"Struct", "Colon", "Newline", "Indent", "Var">>,
       <<"Loop", "Colon", "Newline", "Indent", "Id", "LBracket", "Id">>,
       <<"Loop", "Colon", "Newline", "Indent", "Loop", "Colon", "Newline", "Indent", "Id",
         "Newline">> }}
Pieces == {"Id", "True", "Colon", "LParen", "RParen", "Comma", "Eq", "Less", "Plus",
           "Newline", "Indent", "Dedent", "TemplateTail", "Then", "Question"}

(* The lexer drops empty lines, puts Indents and Dedents in front of other *)
(* tokens of a line, and a Dedent behind its Indent.                       *)
Lexed(text) ==
  \A p \in DOMAIN text :
    LET before == IF p = 1 THEN "Newline" ELSE text[p - 1].t
        Are(t) == Cardinality({q \in 1 .. p : text[q].t = t})
    IN  CASE text[p].t = "Newline" -> before \notin {"Newline", "Indent", "Dedent"}
          [] text[p].t = "Indent"  -> before = "Newline"
          [] text[p].t = "Dedent"  -> before \in {"Newline", "Dedent"}
                                        /\ Are("Dedent") <= Are("Indent")
          [] OTHER -> TRUE

Odd == { Named("IntegerLiteral", "too big"), Named("Char32Literal", "surrogate"),
         Named("IntegerLiteral", "1") \o Named("IntegerLiteral", "too big") \o Tk("RParen") }

MCTexts ==
  {text \in {a \o Tks(ts) : a \in Starts, ts \in UNION {[1 .. n -> Pieces] : n \in 0 .. 3}}
              \cup {a \o b : a \in Starts, b \in Odd} : Lexed(text)}
MCBroken == {}
MCCut == {}
=============================================================================
