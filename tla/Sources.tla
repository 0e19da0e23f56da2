------------------------------ MODULE Sources ------------------------------
(***************************************************************************)
(* Programs for the pipeline, as the syntax trees the parser makes of      *)
(* them.  A program is a few statements and the declarations of what they  *)
(* name; most are a statement with a hole, filled with an expression of    *)
(* any type: the analyzer is to tell which make sense.                     *)
(***************************************************************************)
EXTENDS Integers, Sequences, SequencesExt, TLC

T(k, s, c) == [k |-> k, s |-> s, c |-> c]

Id(n)        == T("Id", n, << >>)
Num(n)       == T("IntegerLiteral", ToString(n), << >>)
True         == T("True", "", << >>)
False        == T("False", "", << >>)
Txt          == T("StringLiteral", "text", << >>)
Named(n)     == T("Named", n, << >>)
IntT         == Named("int")
OptT         == T("Option", "", <<IntT>>)
TupT         == T("TupleType", "", <<IntT, OptT>>)
FunT         == T("FunctionType", "", << T("List", "", <<IntT>>), IntT >>)
List(es)     == T("List", "", es)
Init(n, e)   == T("Init", "", <<Id(n), e>>)
Let(n, t, e) == T("Decl", "", <<Id(n), t, e>>)
Var(n, t, e) == T("Decl", "var", <<Id(n), t, e>>)
Set(l, e)    == T("Set", "", <<l, e>>)
Seqn(es)     == T("Block", "", es)
Call(f, es)  == T("Call", "", <<f, List(es)>>)
Index(a, e)  == T("Call", "fallible", <<a, List(<<e>>)>>)
Make(n, es)  == T("Construct", "", <<Id(n), List(es)>>)
Dot(o, n)    == T("Member", "", <<o, Id(n)>>)
Query(e)     == T("Query", "", <<e>>)
Op(s, l, r)  == T("Binary", s, <<l, r>>)
Un(s, e)     == T("Unary", s, <<e>>)
Cmp(l, s, r) == T("CompareChain", "", <<l, T("CompareOp", s, << >>), r>>)
Between(l, m, r) ==
  LET less == T("CompareOp", "Less", << >>) IN T("CompareChain", "", <<l, less, m, less, r>>)
Pair(l, r)   == T("Tuple", "", <<l, r>>)
IfElse(c, t, f) == T("If", "", <<c, t, f>>)
IfThen(c, t) == T("If", "", <<c, t>>)
LoopOf(e)    == T("Loop", "", <<e>>)
Break        == T("Break", "", << >>)
Fun(n, ps, t, e) ==
  T("Function", "", << Id(n), List([i \in DOMAIN ps |-> T("Param", "", <<Id(ps[i][1]), ps[i][2]>>)]),
                       List(<< >>), t, e >>)
Field(n, t)      == T("Field", "", <<Id(n), t>>)
VarField(n, t, e) == T("Field", "var", <<Id(n), t, e>>)

-----------------------------------------------------------------------------
(* What statements may name, in the order of declaration.                  *)
Given ==
  << << "x", Var("x", IntT, Num(1)) >>,
     << "o", Var("o", OptT, Make("option", <<Num(2)>>)) >>,
     << "oo", Init("oo", Make("option", <<Id("o")>>)) >>,
     << "t", Var("t", TupT, Pair(Num(3), False)) >>,
     << "a", Init("a", Make("array", <<Num(4), Num(5)>>)) >>,
     << "P", Init("P", T("Type", "", << T("Struct", "", <<Let("u", IntT, Num(6)),
                                                           Let("v", OptT, False)>>) >>)) >>,
     << "p", Var("p", Named("P"), Make("P", <<Init("u", Num(7))>>)) >>,
     << "m", Fun("m", << >>, IntT, Num(8)) >>,
     << "C", Init("C", T("Class", "", << VarField("n", IntT, Num(9)), Field("w", OptT),
                                         Fun("m", << >>, IntT, Num(0)) >>)) >>,
     << "c", Init("c", Make("C", <<Init("w", False)>>)) >>,
     << "f", Fun("f", << <<"y", IntT>> >>, IntT, Op("Plus", Id("y"), Id("x"))) >>,
     << "g", Fun("g", << <<"z", OptT>> >>, OptT, Id("z")) >>,
     << "k", Fun("k", << <<"i", IntT>> >>, FunT,
                 Seqn(<< Fun("add", << <<"j", IntT>> >>, IntT,
                             Seqn(<< Set(Id("i"), Op("Plus", Id("i"), Id("j"))), Id("i") >>)),
                         Id("add") >>)) >>,
     << "up", Init("up", Call(Id("k"), <<Num(1)>>)) >> >>

RECURSIVE NamesIn(_)
NamesIn(x) ==
  (IF x.k \in {"Id", "Named"} THEN {x.s} ELSE {}) \cup UNION {NamesIn(x.c[i]) : i \in DOMAIN x.c}

(* The declarations statements need, and what those need in turn.          *)
Closure(names) ==
  FoldLeft(LAMBDA ns, g : IF g[1] \in ns THEN ns \cup NamesIn(g[2]) ELSE ns,
           names, Reverse(Given))
WithGiven(stmts) ==
  LET names == Closure(UNION {NamesIn(stmts[i]) : i \in DOMAIN stmts})
      decls == SelectSeq(Given, LAMBDA g : g[1] \in names)
  IN  [i \in DOMAIN decls |-> decls[i][2]] \o stmts

Exprs ==
  { Num(1), Id("x"), True, False, Txt, Id("o"), Id("t"), Id("a"), Id("p"), Id("c"), Id("f"),
    Id("z"), Id("int"), Id("up"), Id("oo"),
    Make("option", <<Num(1)>>), Make("option", <<False>>), Make("option", <<Id("o")>>),
    Make("array", << >>), Make("array", <<Id("x"), Num(2)>>), Make("array", <<Id("x"), Txt>>),
    Pair(Num(1), False), Pair(Id("x"), Id("o")), Call(Id("t"), <<Num(0)>>),
    Call(Id("t"), <<Num(1)>>), Call(Id("t"), <<Num(2)>>),
    Index(Id("a"), Num(0)), Index(Id("a"), Num(2)), Index(Id("a"), Id("x")),
    Dot(Id("p"), "u"), Dot(Id("p"), "v"), Dot(Id("p"), "w"), Dot(Id("c"), "n"),
    Dot(Id("c"), "w"), Call(Dot(Id("c"), "m"), << >>), Dot(Id("a"), "Length"), Dot(Id("x"), "Length"),
    Call(Id("f"), <<Num(2)>>), Call(Id("g"), <<False>>), Call(Id("g"), <<Id("o")>>),
    Call(Id("up"), <<Id("x")>>), Call(Id("k"), <<Id("x")>>), Call(Id("f"), << >>),
    Op("Plus", Id("x"), Num(2)), Op("Slash", Id("x"), Id("x")), Op("Slash", Id("x"), Num(0)),
    Op("Plus", Txt, Op("Plus", Txt, Txt)), Op("Minus", Txt, Txt),
    Un("Minus", Id("x")), Un("Plus", Id("x")), Un("Not", True), Un("Not", Id("x")),
    Cmp(Id("x"), "Less", Num(2)), Between(Num(0), Id("x"), Num(3)), Between(Id("x"), Num(2), Num(1)),
    Query(Id("o")), Query(Dot(Id("p"), "v")), Call(Id("int"), <<Id("x")>>),
    Call(Id("int"), <<Id("o")>>),
    IfElse(Cmp(Id("x"), "Less", Num(2)), Id("x"), Num(3)),
    IfThen(Cmp(Id("x"), "Greater", Num(1)), Id("x")),
    IfElse(Query(Id("o")), Query(Id("o")), Num(1)),
    IfElse(Query(Id("o")), False, Id("o")),
    IfElse(Index(Id("a"), Num(2)), Num(1), Txt),
    Make("P", << >>), Make("P", <<Init("v", Id("o"))>>), Make("C", << >>),
    Make("C", <<Init("w", Id("o")), Init("n", Id("x"))>>),
    T("Template", "", <<T("Raw", "", << >>), Id("x"), T("Raw", "", << >>)>>) }

(* The statements with a hole, filled with e.  The type int is not cast to *)
(* int: see the README.                                                    *)
Statements(e) ==
  { << Fun("h", << >>, IntT, e), Init("r", Call(Id("h"), << >>)) >>,
    << Fun("h", << >>, OptT, e), Init("r", Call(Id("h"), << >>)) >>,
    << Fun("h", << >>, Named("void"), e), Init("r", Call(Id("h"), << >>)) >>,
    << Fun("h", << <<"x", OptT>> >>, IntT, Seqn(<<Id("o"), e>>)), Init("r", Call(Id("h"), <<False>>)) >>,
    << e >>, << Init("r", e) >>, << Let("r", IntT, e) >>, << Let("r", OptT, e) >>,
    << Let("r", Named("any"), e) >>, << Let("r", TupT, e) >>, << Let("r", T("ArrayType", "", <<IntT>>), e) >>,
    << Set(Id("x"), e) >>, << Set(Id("o"), e) >>, << Set(Id("t"), e) >>,
    << Set(Dot(Id("p"), "v"), e) >>, << Set(Dot(Id("p"), "u"), e) >>,
    << Set(Dot(Id("c"), "n"), e) >>, << Set(Dot(Id("c"), "w"), e) >>,
    << Init("r", Make("option", <<e>>)) >>, << Init("r", Make("array", <<Id("x"), e>>)) >>,
    << Init("r", Pair(e, Id("x"))), Set(Id("x"), Num(2)) >>,
    << Init("r", Call(Id("f"), <<e>>)) >>, << Init("r", Call(Id("g"), <<e>>)) >>,
    << Init("r", Call(Id("up"), <<e>>)) >>,
    << Init("r", IfElse(e, Num(1), Num(2))) >>,
    << Let("r", OptT, IfThen(Cmp(Num(1), "Less", Num(2)), e)) >>,
    << Let("r", OptT, IfElse(Cmp(Num(2), "LessEq", Num(1)), Id("o"), e)) >>,
    << Init("r", IfElse(Cmp(Id("x"), "Eq", Num(1)), e, Id("x"))) >>,
    << Init("r", Op("Star", e, Num(2))) >>, << Init("r", IfThen(Cmp(e, "GreaterEq", Id("x")), Id("x"))) >>,
    << Init("r", IfThen(Query(e), Num(2))) >>, << Init("r", IfThen(Index(e, Num(0)), Num(2))) >>,
    << Init("r", Call(e, <<Num(0)>>)) >>,
    << Init("r", Make("P", <<Init("v", e)>>)) >>,
    << Init("r", Make("C", <<Init("w", e), Init("n", Num(2))>>)) >>,
    << Init("r", IfElse(Seqn(<<Set(Id("x"), Num(5)), e>>), Id("x"), Op("Minus", Id("x"), Num(1)))) >> }
  \cup (IF e = Id("int") THEN {} ELSE { << Init("r", IfThen(Call(Id("int"), <<e>>), Num(2))) >> })

Filled == {WithGiven(s) : s \in UNION {Statements(e) : e \in Exprs}}

-----------------------------------------------------------------------------
(* Two or three steps that change what others see: variables of the root   *)
(* code and of functions, structs that are copied, arrays and objects that *)
(* are shared, assignments in tests that fail.                             *)
If2(c, t)    == IfElse(c, t, Num(0))
AddTo(v, e)  == Set(v, Op("Plus", v, e))
Steps ==
  { AddTo(Id("x"), Num(1)), Set(Id("o"), IfThen(Cmp(Id("x"), "Less", Num(2)), Id("x"))),
    Init("q", Id("p")), Set(Dot(Id("p"), "u"), Id("x")), Set(Id("t"), Pair(Id("x"), Id("o"))),
    Set(Call(Id("t"), <<Num(0)>>), Dot(Id("p"), "u")),
    Init("b", Id("a")), IfThen(Set(Index(Id("a"), Id("x")), Num(6)), Num(1)),
    AddTo(Dot(Id("c"), "n"), Id("x")), Init("d", Id("c")), Set(Id("p"), Make("P", <<Init("v", Id("o"))>>)),
    Init("r", Call(Id("up"), <<Id("x")>>)), Init("s", Call(Id("f"), <<Dot(Id("c"), "n")>>)),
    If2(Cmp(Seqn(<<AddTo(Id("x"), Num(2)), Query(Id("o"))>>), "Greater", Id("x")), Num(1)),
    Init("up", Call(Id("k"), <<Id("x")>>)),
    Fun("f", << <<"x", IntT>> >>, IntT, Seqn(<< AddTo(Id("x"), Num(1)), Id("x") >>)) }
Sequences2 == {WithGiven(<<s1, s2>>) : s1, s2 \in Steps}

(* Functions in functions.                                                 *)
OneParam(n, p, es) == Fun(n, << <<p, IntT>> >>, IntT, Seqn(es))
NoParam(n, es) == Fun(n, << >>, IntT, Seqn(es))
Nested ==
  { << Fun("k", << <<"i", IntT>> >>, T("TupleType", "", <<FunT, FunT>>),
           Seqn(<< OneParam("inc", "j", <<AddTo(Id("i"), Id("j")), Id("i")>>),
                   OneParam("get", "j", <<Op("Minus", Id("i"), Id("j"))>>),
                   Pair(Id("inc"), Id("get")) >>)),
       Init("c1", Call(Id("k"), <<Num(1)>>)), Init("c2", Call(Id("k"), <<Num(5)>>)),
       Init("r1", Call(Call(Id("c1"), <<Num(0)>>), <<Num(2)>>)),
       Init("r2", Call(Call(Id("c1"), <<Num(1)>>), <<Num(1)>>)),
       Init("r3", Call(Call(Id("c2"), <<Num(1)>>), <<Num(1)>>)) >>,
    << OneParam("k", "i", << Var("s", IntT, Id("i")),
                             NoParam("mid", << NoParam("deep", <<AddTo(Id("s"), Num(1)), Id("s")>>),
                                               Call(Id("deep"), << >>) >>),
                             Call(Id("mid"), << >>), Call(Id("mid"), << >>), Id("s") >>),
       Init("r", Call(Id("k"), <<Num(3)>>)) >>,
    << OneParam("k", "n", << IfElse(Cmp(Id("n"), "Less", Num(2)), Num(1),
                                    Op("Star", Id("n"), Call(Id("k"), <<Op("Minus", Id("n"), Num(1))>>))) >>),
       Init("r", Call(Id("k"), <<Num(4)>>)) >>,
    << OneParam("k", "n", << OneParam("in", "n", << AddTo(Id("n"), Num(1)), Id("n") >>),
                             Init("s", Call(Id("in"), <<Id("n")>>)),
                             Op("Minus", Op("Star", Id("s"), Num(2)), Id("n")) >>),
       Init("r", Call(Id("k"), <<Num(4)>>)) >>,
    << Var("x", IntT, Num(1)),
       OneParam("k", "y", << Set(Id("x"), Id("y")), Op("Slash", Num(6), Op("Minus", Id("y"), Num(2))) >>),
       Init("r", IfElse(Cmp(Call(Id("k"), <<Num(2)>>), "Less", Num(9)), Num(1), Id("x"))),
       Init("s", IfElse(Cmp(Call(Id("k"), <<Num(3)>>), "Less", Num(9)), Num(1), Id("x"))),
       Call(Id("k"), <<Num(2)>>), Set(Id("x"), Num(9)) >>,
    << Var("x", IntT, Num(1)), Fun("k", << >>, Named("void"), AddTo(Id("x"), Num(1))),
       Call(Id("k"), << >>), Fun("k", << >>, IntT, Id("x")), Init("x", Num(7)), Init("r", Call(Id("k"), << >>)) >>,
    << Var("x", IntT, Num(1)),
       LoopOf(Seqn(<< AddTo(Id("x"), Num(1)), IfThen(Cmp(Id("x"), "Greater", Num(3)), Break) >>)),
       Init("r", Id("x")) >>,
    << Break >>, << LoopOf(Seqn(<<Id("z"), Break>>)), Break >>,
    << LoopOf(Seqn(<< Fun("k", << >>, Named("void"), Break), Call(Id("k"), << >>), Break >>)) >>,
    << Fun("k", << >>, IntT, Id("k")), Set(Id("k"), Num(1)) >>,
    << NoParam("k", <<Init("i", Num(1)), NoParam("in", <<Set(Id("i"), Num(2)), Id("i")>>), Id("i")>>) >>,
    << Id("x"), Var("x", IntT, Num(1)) >>, << Init("x", Id("x")) >>,
    << NoParam("k", <<Id("x")>>), Var("x", IntT, Num(1)) >>,
    << IfElse(Cmp(Num(1), "Less", Num(2)), Id("y"), Init("y", Num(1))) >>,
    << Let("y", Named("z"), Num(1)) >> }

AllTexts == Filled \cup Sequences2 \cup Nested
=============================================================================
