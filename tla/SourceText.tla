----------------------------- MODULE SourceText -----------------------------
(* How a syntax tree is written: the reference the parser is held against. *)
(* The tokens are those the lexer makes of the text, with parentheses only *)
(* where an operator binds less tightly than its place asks for.           *)
EXTENDS Integers, Sequences, SequencesExt

Tk(t) == << [t |-> t, s |-> ""] >>
Named(t, s) == << [t |-> t, s |-> s] >>

(* How tightly a tree holds together.  Nothing follows a query.            *)
Level(x) ==
  CASE x.k = "CompareChain" -> 1
    [] x.k = "Binary" -> IF x.s \in {"Plus", "Minus"} THEN 2 ELSE 3
    [] x.k = "Unary" -> 4
    [] x.k = "Query" -> 5
    [] x.k \in {"Call", "Construct", "Member"} -> 6
    [] x.k \in {"Init", "Decl", "Set", "If", "Loop", "Type", "Function", "Class", "Break"} -> 0
    [] OTHER -> 7

Separated(texts, sep) ==
  FlattenSeq([i \in DOMAIN texts |-> IF i = 1 THEN texts[i] ELSE sep \o texts[i]])

(* An item ends with its line, or with the block in it.                    *)
Line(text) == IF Last(text).t = "Dedent" THEN text ELSE text \o Tk("Newline")
Lines(texts) == FlattenSeq([i \in DOMAIN texts |-> Line(texts[i])])
Indented(texts) == Tk("Newline") \o Tk("Indent") \o Lines(texts) \o Tk("Dedent")

IsBlock(x) == x.k = "Block"

RawToken(c, i) ==
  CASE i = 1 -> "TemplateHead" [] i = Len(c) -> "TemplateTail" [] OTHER -> "TemplateMiddle"

RECURSIVE Written(_, _)

(* The text of x where a tree of at least this level is expected.          *)
Written(x, least) ==
  LET W(i, l) == Written(x.c[i], l)
      All(l) == [i \in DOMAIN x.c |-> W(i, l)]
      From(j, l) == [i \in 1 .. Len(x.c) - j + 1 |-> W(i + j - 1, l)]
      Var == IF x.s = "var" THEN Tk("Var") ELSE << >>
      Brackets == CASE x.k = "Construct" -> <<"LBrace", "RBrace">>
                    [] x.s = "fallible" -> <<"LBracket", "RBracket">>
                    [] OTHER -> <<"LParen", "RParen">>
  IN
  CASE Level(x) < least -> Tk("LParen") \o Written(x, 0) \o Tk("RParen")
    [] x.k = "CompareChain" -> FlattenSeq(All(2))
    [] x.k = "CompareOp" -> Tk(x.s)
    [] x.k = "Binary" -> W(1, Level(x)) \o Tk(x.s) \o W(2, Level(x) + 1)
    [] x.k = "Unary" -> Tk(x.s) \o W(1, 4)
    [] x.k = "Query" -> W(1, 6) \o Tk("Question")
    [] x.k = "Member" -> W(1, 6) \o Tk("Dot") \o W(2, 7)
    [] x.k \in {"Call", "Construct"} ->
         W(1, 6) \o Tk(Brackets[1]) \o W(2, 0) \o Tk(Brackets[2])
    [] x.k = "List" -> Separated(All(0), Tk("Comma"))
    [] x.k = "Tuple" -> Tk("LParen") \o
         (IF Len(x.c) = 1 THEN W(1, 0) \o Tk("Comma") ELSE Separated(All(0), Tk("Comma")))
         \o Tk("RParen")
    [] x.k = "Template" ->
         FlattenSeq([i \in DOMAIN x.c |-> IF x.c[i].k = "Raw"
                                          THEN Named(RawToken(x.c, i), x.c[i].s) ELSE W(i, 0)])
    [] x.k = "Init" -> W(1, 7) \o Tk("ColonEq") \o W(2, 0)
    [] x.k = "Decl" -> Var \o W(1, 7) \o Tk("Colon") \o W(2, 0) \o Tk("Eq") \o W(3, 0)
    [] x.k = "Field" -> Var \o W(1, 7) \o Tk("Colon") \o W(2, 0)
                        \o (IF Len(x.c) = 3 THEN Tk("Eq") \o W(3, 0) ELSE << >>)
    [] x.k = "Param" -> W(1, 7) \o Tk("Colon") \o W(2, 0)
    [] x.k = "Set" -> Tk("Set") \o W(1, 5) \o Tk("Eq") \o W(2, 0)
    [] x.k = "Block" -> Indented(All(0))
    [] x.k = "Loop" -> Tk("Loop") \o Tk("Colon") \o W(1, 0)
    [] x.k = "If" ->
         (IF IsBlock(x.c[1])
          THEN Tk("If") \o Tk("Colon") \o W(1, 0) \o Tk("Then") \o Tk("Colon") \o W(2, 0)
          ELSE Tk("If") \o Tk("LParen") \o W(1, 0) \o Tk("RParen")
               \o Tk(IF IsBlock(x.c[2]) THEN "Colon" ELSE "Then") \o W(2, 0))
         \o (IF Len(x.c) = 2 THEN << >>
             ELSE Tk("Else") \o (IF IsBlock(x.c[3]) THEN Tk("Colon") ELSE << >>) \o W(3, 0))
    [] x.k = "Function" ->
         W(1, 7) \o Tk("LParen") \o W(2, 0) \o Tk("RParen")
         \o FlattenSeq([i \in DOMAIN x.c[3].c |->
              Tk("Less") \o Written(x.c[3].c[i], 0) \o Tk("Greater")])
         \o Tk("Colon") \o W(4, 0) \o Tk("Eq") \o W(5, 0)
    [] x.k = "Class" -> Tk("Class") \o Tk("Colon") \o Indented(All(0))
    [] x.k = "Struct" -> Tk("Struct") \o Tk("Colon") \o Indented(All(0))
    [] x.k = "Type" -> W(1, 0)
    [] x.k = "Named" -> Named("Id", x.s)
    [] x.k = "TypeType" -> Tk("Type")
    [] x.k = "Option" -> Tk("Question") \o W(1, 0)
    [] x.k = "ArrayType" -> Tk("LBracket") \o Tk("RBracket") \o W(1, 0)
    [] x.k = "TupleType" ->
         Tk("Tuple") \o Tk("LParen") \o Separated(All(0), Tk("Comma")) \o Tk("RParen")
    [] x.k = "FunctionType" ->
         Tk("Type") \o Tk("LBrace") \o Tk("Underscore") \o Tk("LParen")
         \o Separated([i \in DOMAIN x.c[1].c |-> Tk("Colon") \o Written(x.c[1].c[i], 0)],
                      Tk("Comma"))
         \o Tk("RParen") \o Tk("Colon") \o W(2, 0) \o Tk("RBrace")
    [] OTHER -> Named(x.k, x.s)

(* The lexer closes no block at the end of the text.                       *)
RECURSIVE EndOfText(_)
EndOfText(text) ==
  IF text # << >> /\ Last(text).t = "Dedent" THEN EndOfText(Front(text)) ELSE text

ProgramText(items) == EndOfText(Lines([i \in DOMAIN items |-> Written(items[i], 0)]))
=============================================================================
