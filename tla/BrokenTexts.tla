---------------------------- MODULE BrokenTexts -----------------------------
(* Texts with broken lines: at the top level, and as any line of a loop,   *)
(* the blocks of an if, a function, a class and a struct, nested and       *)
(* followed by more text.  No broken line begins with a complete item, and *)
(* what follows one that is cut off is a line of its own.                  *)
EXTENDS ParsedText

Name(s) == Named("Id", s)
Num(s) == Named("IntegerLiteral", s)
Tks(ts) == FlattenSeq([i \in DOMAIN ts |-> Tk(ts[i])])
LP == Tk("LParen")
RP == Tk("RParen")

Good == {Name("x") \o Tk("ColonEq") \o Num("1"), Name("f") \o LP \o Name("x") \o RP}
InLine ==
  { Name("x") \o Tk("ColonEq") \o Tk("Eq") \o Num("1"),
    Name("x") \o Tk("ColonEq") \o Num("too big") \o Tk("Plus") \o Num("1"),
    Name("f") \o LP \o Name("x") \o Name("y") \o RP,
    LP \o Name("x") \o Tk("Colon") \o RP,
    Tks(<<"If", "LParen">>) \o Name("x") \o RP \o Name("y"),
    Tks(<<"If", "LParen">>) \o Name("x") \o Tks(<<"RParen", "Then">>) \o Name("y")
      \o Tk("Else") \o Name("z"),
    Name("f") \o Tks(<<"LParen", "RParen", "Less">>) \o Num("3"),
    Tk("Var") \o Tk("Eq") \o Num("1") }

(* Lines that lead to a block and break off before it.                     *)
Headers ==
  {start \o Name("y") : start \in
     { Tk("Loop"), Tks(<<"Loop", "Colon">>), Tks(<<"If", "Colon">>),
       Tks(<<"If", "LParen">>) \o Name("x") \o Tks(<<"RParen", "Colon">>),
       Name("x") \o Tks(<<"ColonEq", "Class">>),
       Name("x") \o Tks(<<"ColonEq", "Class", "Colon">>),
       Name("x") \o Tks(<<"ColonEq", "Struct">>),
       Name("x") \o Tks(<<"ColonEq", "Struct", "Colon">>) }}
(* Lines that are cut off: in an expression, and before a block.           *)
Unfinished ==
  { Name("x") \o Tk("ColonEq"), Name("f") \o LP \o Name("x"),
    Tks(<<"If", "LParen">>) \o Name("x") \o Tks(<<"RParen", "Then">>) }
Blockless ==
  { Tks(<<"Loop", "Colon">>), Name("x") \o Tks(<<"ColonEq", "Class", "Colon">>),
    Tks(<<"If", "LParen">>) \o Name("x") \o Tks(<<"RParen", "Colon">>),
    Name("f") \o Tks(<<"LParen", "RParen", "Colon">>) \o Name("int") \o Tk("Eq") }
CutMember == Name("z") \o Tk("Colon")

GoodMember == Name("x") \o Tk("Colon") \o Name("int") \o Tk("Eq") \o Num("1")
BrokenMembers == {Name("x") \o Tks(<<"Colon", "Eq">>) \o Num("1"),
                  Name("z") \o Tk("ColonEq") \o Num("2"),
                  Name("z") \o Tk("Colon") \o Name("int") \o Tks(<<"Eq", "Loop", "Colon">>)
                    \o Num("1")}

A == CHOOSE l \in Good : Len(l) = 3
B == CHOOSE l \in InLine : l[1].t = "LParen"
U == CHOOSE l \in Unfinished : Len(l) = 2
L == CHOOSE l \in Blockless : l[1].t = "Loop"
Seqs(S, n) == UNION {[1 .. m -> S] : m \in 1 .. n}

LoopText(lines) == Tks(<<"Loop", "Colon">>) \o Indented(lines)
IfText(test, lines) ==
  Tks(<<"If", "Colon">>) \o Indented(test) \o Tks(<<"Then", "Colon">>) \o Indented(lines)
ElseText(lines, other) ==
  Tks(<<"If", "LParen">>) \o Name("x") \o Tks(<<"RParen", "Colon">>) \o Indented(lines)
    \o Tks(<<"Else", "Colon">>) \o Indented(other)
FunctionText(lines) ==
  Name("f") \o Tks(<<"LParen", "RParen", "Colon">>) \o Name("int") \o Tk("Eq") \o Indented(lines)
ClassText(lines) == Name("x") \o Tks(<<"ColonEq", "Class", "Colon">>) \o Indented(lines)
StructText(lines) == Name("x") \o Tks(<<"ColonEq", "Struct", "Colon">>) \o Indented(lines)

Few == Seqs({A, B}, 2)
Cuts == Seqs({A, B, U, L}, 3) \cup Seqs({A} \cup Unfinished \cup Blockless, 2)
Blocks ==
  {LoopText(ls) : ls \in Seqs(Good \cup InLine, 2) \cup Seqs({A} \cup Headers, 2)}
    \cup {LoopText(ls) : ls \in Seqs({A, B}, 3)}
    \cup {FunctionText(ls) : ls \in Few}
    \cup {IfText(ls, ms) : ls, ms \in Few} \cup {ElseText(ls, ms) : ls, ms \in Few}
    \cup {LoopText(<<LoopText(ls)>> \o ms) : ls, ms \in Few}
    \cup {LoopText(ms \o <<ElseText(ls, <<B>>)>>) : ls, ms \in Few}
    \cup {ClassText(ls) : ls \in Seqs({GoodMember, CutMember} \cup BrokenMembers, 2)}
    \cup {StructText(ls) : ls \in Seqs({GoodMember, CutMember} \cup BrokenMembers, 2)}

CutBlocks ==
  {LoopText(ls) : ls \in Cuts} \cup {FunctionText(ls) : ls \in Cuts}
    \cup {ElseText(<<A>>, ls) : ls \in Cuts}
    \cup {LoopText(<<LoopText(ls)>> \o ms) : ls \in Cuts, ms \in Few}

Recovery ==
  {EndOfText(Lines(ls)) :
     ls \in Seqs(Good \cup InLine, 2) \cup Seqs({A} \cup Headers, 2) \cup Seqs({A, B}, 4)
            \cup {<<b>> : b \in Blocks} \cup {<<b>> \o ms : b \in Blocks, ms \in {<<A>>, <<B>>}}
            \cup {<<B, b, A>> : b \in Blocks}
            \cup Cuts \cup {<<b>> \o ms : b \in CutBlocks, ms \in Few}}
MCBroken == InLine \cup Headers \cup BrokenMembers
MCCut == Unfinished \cup Blockless \cup {CutMember}
=============================================================================
