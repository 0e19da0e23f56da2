------------------------------ MODULE MCLayout ------------------------------
(* Texts of up to four lines, each empty or indented by 0 to 3 blanks, and *)
(* texts with mixed blanks, blanks inside lines, templates, stray braces   *)
(* and lexemes the scanner rejects.  No line is all blanks,                *)
(* and none starts with a stray brace.                                     *)
EXTENDS IndentLexer

Lex(t)      == <<[t |-> t, w |-> 1]>>
Blanks(t, n) == <<[t |-> t, w |-> n]>>
NL == Lex("newline")
X  == Lex("other")

Line == {NL, X \o NL} \cup {Blanks("spaces", n) \o X \o NL : n \in 1 .. 3}
          \cup {Blanks("tabs", 2) \o X \o NL}

PlainTexts == {FlattenSeq(ls) : ls \in UNION {[1 .. n -> Line] : n \in 1 .. 4}}

Indented(s) == X \o NL \o Blanks("spaces", 2) \o s
OtherTexts == UNION {{s, Indented(s), Indented(s) \o NL \o X} : s \in
  { Blanks("spaces", 1) \o Blanks("tabs", 1) \o X,
    X \o Blanks("spaces", 1) \o Blanks("tabs", 1) \o X,
    Lex("bad") \o X,
    Lex("head") \o X \o Lex("middle") \o X \o Lex("tail") \o X,
    Lex("head") \o Lex("head") \o X \o Lex("tail") \o NL \o Lex("tail"),
    X \o Lex("tail") \o X,
    X \o Lex("middle") \o Lex("bad") }}

MCInputs == PlainTexts \cup OtherTexts
MCRescanned == {X, Lex("bad"), X \o NL \o X, Blanks("spaces", 1) \o Blanks("tabs", 1) \o X,
                Blanks("spaces", 1) \o Lex("head") \o X \o Lex("tail")}
=============================================================================
