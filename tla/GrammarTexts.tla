---------------------------- MODULE GrammarTexts ----------------------------
(* The texts of small trees: every form of expression over every other,    *)
(* and every statement, type and block.                                    *)
EXTENDS ParsedText

N0(k, s) == Node(k, s, << >>)
Id(s) == N0("Id", s)
One  == N0("IntegerLiteral", "1")
Ty   == N0("Named", "int")
Args(c) == Node("List", "", c)
Bin(op, l, r) == Node("Binary", op, <<l, r>>)
Un(op, x) == Node("Unary", op, <<x>>)
Cmp(l, op, r) == Node("CompareChain", "", <<l, N0("CompareOp", op), r>>)
CallOf(f, args) == Node("Call", "", <<f, Args(args)>>)
Fallible(f, args) == Node("Call", "fallible", <<f, Args(args)>>)
New(f, args) == Node("Construct", "", <<f, Args(args)>>)
Dot(x) == Node("Member", "", <<x, Id("m")>>)
Query(x) == Node("Query", "", <<x>>)
Raw(s) == N0("Raw", s)
Templ(x, y) == Node("Template", "", <<Raw("a"), x, Raw("b"), y, Raw("c")>>)
Tup(c) == Node("Tuple", "", c)
BlockOf(c) == Node("Block", "", c)
IfOf(c) == Node("If", "", c)
InitOf(x) == Node("Init", "", <<Id("x"), x>>)

Pairs(l, r) ==
  {Bin("Plus", l, r), Bin("Slash", l, r), Cmp(l, "Less", r), CallOf(l, <<r>>),
   Fallible(l, <<r, r>>), New(l, <<r>>), Tup(<<l, r>>), Templ(l, r), IfOf(<<l, r>>)}
Singles(x) == {Un("Minus", x), Un("Not", x), Dot(x), Query(x), Tup(<<x>>),
               CallOf(x, << >>), Cmp(x, "Eq", x)}

Atoms  == {Id("a"), One}
First  == Pairs(Id("a"), Id("b")) \cup Singles(Id("a"))
             \cup {N0(k, "l") : k \in Literals \ {"IntegerLiteral"}}
             \cup {Node("CompareChain", "", Cmp(Id("a"), "Less", Id("b")).c
                       \o <<N0("CompareOp", "GreaterEq"), One>>)}
(* What begins with a() and < is taken for a definition.                   *)
LikeDefinitions == {Cmp(CallOf(Id("a"), << >>), "Less", x) : x \in First \cup {Id("b")}}
Second ==
  (UNION {Pairs(x, y) : x, y \in First \cup {Id("b")}} \cup UNION {Singles(x) : x \in First})
    \ LikeDefinitions
Third  == UNION {{Bin("Plus", x, y), Bin("Star", x, y), Cmp(x, "Eq", y)} :
                   x, y \in {Bin("Minus", Id("a"), Id("b")), Bin("Star", Id("a"), Id("b")),
                             Un("Minus", Id("a")), Cmp(Id("a"), "Less", Id("b")),
                             Un("Not", Bin("Plus", Id("a"), Id("b"))), InitOf(One)}}

Types == {Ty, N0("TypeType", ""), Node("Option", "", <<Ty>>),
          Node("ArrayType", "", <<Node("Option", "", <<Ty>>)>>),
          Node("TupleType", "", <<Ty, Node("TupleType", "", <<Ty>>)>>),
          Node("FunctionType", "", <<Args(<<Ty, Ty>>), Ty>>),
          Node("FunctionType", "", <<Args(<< >>), N0("TypeType", "")>>)}
DeclOf(var, ty, x) == Node("Decl", var, <<Id("x"), ty, x>>)
StructType == Node("Struct", "", <<DeclOf("", Ty, One), DeclOf("", Ty, Id("y"))>>)
ParamOf(ty) == Node("Param", "", <<Id("p"), ty>>)
FunctionOf(params, effects, ty, body) ==
  Node("Function", "", <<Id("f"), Args(params), Args(effects), ty, body>>)
FieldOf(var, c) == Node("Field", var, <<Id("x")>> \o c)
LoopOf(c) == Node("Loop", "", <<BlockOf(c)>>)
BreakIt == N0("Break", "")

Functions2 ==
  {FunctionOf(params, effects, ty, body) :
     params \in {<< >>, <<ParamOf(Ty)>>,
                 <<ParamOf(Ty), ParamOf(Node("ArrayType", "", <<Ty>>))>>},
     effects \in {<< >>, <<Id("e")>>, <<Id("e"), Id("d")>>},
     ty \in {Ty, Node("Option", "", <<Ty>>)},
     body \in {Id("a"), Bin("Plus", Id("a"), One), BlockOf(<<InitOf(One), Id("x")>>)}}

Ifs ==
  {IfOf(<<t, c>>) : t \in {Id("a"), BlockOf(<<Id("a"), One>>)}, c \in {BlockOf(<<One>>)}}
    \cup {IfOf(<<t, c, e>>) :
            t \in {Cmp(Id("a"), "Less", One), BlockOf(<<Id("a")>>)},
            c \in {BlockOf(<<One, LoopOf(<<BreakIt>>)>>)},
            e \in {BlockOf(<<Id("b")>>), IfOf(<<Id("c"), BlockOf(<<One>>)>>)}}
    \cup {IfOf(<<Id("a"), Id("b"), e>>) : e \in {BlockOf(<<One>>), IfOf(<<One, Id("b")>>)}}

Statements ==
  {InitOf(x) : x \in First} \cup {Node("Set", "", <<x, InitOf(One)>>) : x \in
     {Id("a"), Dot(Id("a")), CallOf(Id("a"), <<One>>), Fallible(Id("a"), <<One>>), Query(Id("a"))}}
  \cup {DeclOf(var, ty, One) : var \in {"", "var"}, ty \in Types \cup {StructType}}
  \cup {Node("Type", "", <<ty>>) :
          ty \in {StructType} \cup {t \in Types : t.k \notin {"Named", "ArrayType"}}}
  \cup Functions2 \cup Ifs
  \cup {LoopOf(<<IfOf(<<Id("a"), BreakIt>>), One>>), LoopOf(<<LoopOf(<<BreakIt>>)>>)}
  \cup {Node("Class", "", c) : c \in
          {<<FieldOf("", <<Ty>>)>>,
           <<FieldOf("var", <<Ty, One>>), FunctionOf(<< >>, << >>, Ty, One),
             FieldOf("", <<Node("Option", "", <<Ty>>), Id("a")>>)>>}}
  \cup {InitOf(Node("Class", "", <<FieldOf("", <<Ty>>)>>)), InitOf(FunctionOf(<< >>, << >>, Ty, One))}

Programs ==
  {<<x>> : x \in Atoms \cup First \cup Second \cup Third \cup Statements}
    \cup {<<x, Id("a")>> : x \in Statements}
    \cup {<<LoopOf(<<x, BreakIt>>)>> : x \in Ifs \cup {LoopOf(<<One>>)}}

Grammar == {ProgramText(p) : p \in Programs} \cup {<< >>}
=============================================================================
