--------------------------- MODULE SourceMeaning ---------------------------
(***************************************************************************)
(* What a program's text means, name by name: the reference the compiler   *)
(* and the machine are held against together.  There are no slots,         *)
(* upvalues, static types, code or operands: a name leads through the      *)
(* scopes around it to a location.                                         *)
(*                                                                         *)
(* An environment e has                                                    *)
(*   scopes  of the global names, the root code, and each function and     *)
(*           branch around the expression: from name to location and the   *)
(*           type it was declared with,                                    *)
(*   store   what the locations hold,                                      *)
(*   defs    the fields of the structs and classes, and the scopes they    *)
(*           were written in.                                              *)
(* Values are <<"int", n>>, <<"logic", b>>, <<"string">>, <<"void">>,      *)
(* <<"none">>, <<"some", x>>, <<"type", t>>, <<"print">>, tuples and       *)
(* structs <<"tuple", struct, elements>>, arrays and objects               *)
(* <<"ref", location, definition>>, functions <<"func", tree, scopes>>.    *)
(*                                                                         *)
(* Covered: all but floats and characters, the length of a text, and a     *)
(* method's object.  Arithmetic is that of module VmValues.                *)
(***************************************************************************)
EXTENDS TypedIr, VmValues, TLC

Yields(v, e) == [how |-> "value", v |-> v, e |-> e]
Fails(e)     == [how |-> "fail", v |-> << "void" >>, e |-> e]
Breaks(e)    == [how |-> "break", v |-> << "void" >>, e |-> e]

(* What follows when there is a value.                                     *)
Then(r, Rest(_, _)) == IF r.how = "value" THEN Rest(r.v, r.e) ELSE r

Names == << "int", "float", "logic", "char", "char32", "string", "any", "void" >>
Beginning ==
  [scopes |-> << [n \in ToSet(Names) \cup {"Print"} |->
                    [at |-> IF n = "Print" THEN 9 ELSE SelectInSeq(Names, LAMBDA m : m = n),
                     ty |-> Unknown]],
                 << >> >>,
   store  |-> [i \in 1 .. 9 |-> IF i = 9 THEN << "print" >> ELSE << "type", Prim(Names[i]) >>],
   defs   |-> << >>]

(* The innermost declaration of a name.                                    *)
Found(name, e) ==
  LET i == SelectLastInSeq(e.scopes, LAMBDA s : name \in DOMAIN s) IN e.scopes[i][name]

New(v, e) == [e EXCEPT !.store = Append(@, v)]

(* A name declared twice in a scope is one variable.                       *)
Bound(name, ty, v, e) ==
  LET here  == Last(e.scopes)
      again == name \in DOMAIN here
      at    == IF again THEN here[name].at ELSE Len(e.store) + 1
      b     == IF again THEN [e EXCEPT !.store[at] = v] ELSE New(v, e)
  IN  [b EXCEPT !.scopes[Len(e.scopes)] = (name :> [at |-> at, ty |-> ty]) @@ @]

Enter(e) == [e EXCEPT !.scopes = Append(@, << >>)]
Leave(e, outer) == [e EXCEPT !.scopes = SubSeq(@, 1, Len(outer.scopes))]

RECURSIVE TypeIn(_, _)
TypeIn(x, e) ==
  CASE x.k = "Named"     -> e.store[Found(x.s, e).at][2]
    [] x.k = "Option"    -> OptionType(TypeIn(x.c[1], e))
    [] x.k = "TupleType" -> TupleType([i \in DOMAIN x.c |-> TypeIn(x.c[i], e)])
    [] x.k = "ArrayType" -> ArrayType(TypeIn(x.c[1], e))
    [] OTHER -> FunctionType([i \in DOMAIN x.c[1].c |-> TypeIn(x.c[1].c[i], e)],
                             TypeIn(x.c[2], e))

(* The type a part of a value of type t is to have.                        *)
OptionPart(t)    == IF t[1] = "option" THEN t[2] ELSE Unknown
TuplePart(t, i)  == IF t[1] = "tuple" THEN t[2][i] ELSE Unknown

-----------------------------------------------------------------------------
RECURSIVE Eval(_, _, _)

(* In turn, up to the first that yields none; ts the types expected.       *)
EvalAll(xs, ts, e) ==
  FoldLeft(LAMBDA r, i : Then(r, LAMBDA vs, b :
                           Then(Eval(xs[i], ts[i], b), LAMBDA v, d : Yields(Append(vs, v), d))),
           Yields(<< >>, e), [i \in DOMAIN xs |-> i])
AllUnknown(xs) == [i \in DOMAIN xs |-> Unknown]

Define(name, ty, r) == Then(r, LAMBDA v, e : Yields(v, Bound(name, ty, v, e)))

EvalBlock(x, t, e) ==
  LET n == Len(x.c)
  IN  Then(EvalAll(x.c, [i \in 1 .. n |-> IF i = n THEN t ELSE Unknown], e),
           LAMBDA vs, b : Yields(Last(vs), b))

(* Operators and operands alternate; the value is the first operand.       *)
MachineOp == [Eq |-> "Eq", NotEq |-> "Ne", Greater |-> "Gt", GreaterEq |-> "Ge",
              Less |-> "Lt", LessEq |-> "Le"]
EvalChain(x, e) ==
  LET Compared(vs, i, v, b) ==
        IF Holds(MachineOp[x.c[i - 1].s], Last(vs)[2], v[2]) THEN Yields(Append(vs, v), b)
        ELSE Fails(b)
      Link(r, i) ==
        Then(r, LAMBDA vs, b :
          IF x.c[i].k = "CompareOp" THEN r
          ELSE Then(Eval(x.c[i], Unknown, b), LAMBDA v, d : Compared(vs, i, v, d)))
  IN  Then(FoldLeft(Link, EvalAll(<<x.c[1]>>, <<Unknown>>, e),
                    [i \in 1 .. Len(x.c) - 1 |-> i + 1]),
           LAMBDA vs, b : Yields(Head(vs), b))

(* What was assigned in a test that failed stays assigned.                 *)
EvalIf(x, t, e) ==
  LET has == Len(x.c) = 3
      Left(r) == [r EXCEPT !.e = Leave(@, e)]
      Alternate(b) == IF has THEN Eval(x.c[3], t, Enter(Leave(b, e))) ELSE Yields(<< "none" >>, b)
      Branch(b) == IF has THEN Eval(x.c[2], t, b)
                   ELSE Then(Eval(x.c[2], OptionPart(t), b),
                             LAMBDA v, d : Yields(<< "some", v >>, d))
      After(test) == CASE test.how = "value" -> Branch(test.e)
                       [] test.how = "fail" -> Alternate(test.e)
                       [] OTHER -> test
  IN  Left(After(Eval(x.c[1], Unknown, Enter(e))))

RECURSIVE EvalLoop(_, _)
EvalLoop(body, e) ==
  LET Turn(r) == CASE r.how = "value" -> EvalLoop(body, r.e)
                   [] r.how = "break" -> Yields(<< "void" >>, r.e)
                   [] OTHER -> r
  IN  Turn(Eval(body, Unknown, e))

-----------------------------------------------------------------------------
(* Functions keep the scopes they were written in; a call adds one for the *)
(* parameters and what the body declares.                                  *)
EvalFunction(x, e) ==
  LET name == x.c[1].s
      b    == Bound(name, Unknown, << "void" >>, e)
      f    == << "func", x, b.scopes >>
  IN  Yields(f, [b EXCEPT !.store[Last(b.scopes)[name].at] = f])

ParamTypes(f, e) ==
  LET ps == f[2].c[2].c
  IN  [i \in DOMAIN ps |-> TypeIn(ps[i].c[2], [e EXCEPT !.scopes = f[3]])]

Called(f, args, e) ==
  LET ts == ParamTypes(f, e)
      ready == FoldLeft(LAMBDA b, i : Bound(f[2].c[2].c[i].c[1].s, ts[i], args[i], b),
                        [e EXCEPT !.scopes = Append(f[3], << >>)], [i \in DOMAIN args |-> i])
      ret == TypeIn(f[2].c[4], [e EXCEPT !.scopes = f[3]])
      Returned(r) == [r EXCEPT !.v = IF ret = Prim("void") THEN << "void" >> ELSE @,
                               !.e.scopes = e.scopes]
  IN  Returned(Eval(f[2].c[5], ret, ready))

KindName(v) == IF v[1] = "type" THEN "none" ELSE v[1]

Apply(f, args, e) ==
  LET i == args[1][2] + 1
  IN  CASE f[1] = "func"  -> Called(f, args, e)
        [] f[1] = "print" -> Yields(<< "void" >>, e)
        [] f[1] = "tuple" -> Yields(f[3][i], e)
        [] f[1] = "ref"   -> IF i \in DOMAIN e.store[f[2]][3]
                             THEN Yields(e.store[f[2]][3][i], e) ELSE Fails(e)
        [] f[1] = "type"  -> IF Prim(KindName(args[1])) = f[2] THEN Yields(args[1], e) ELSE Fails(e)

EvalCall(x, e) ==
  LET xs == x.c[2].c
      Types(f, b) == IF f[1] = "func" THEN ParamTypes(f, b) ELSE AllUnknown(xs)
  IN  Then(Eval(x.c[1], Unknown, e), LAMBDA f, b :
        Then(EvalAll(xs, Types(f, b), b), LAMBDA args, d : Apply(f, args, d)))

-----------------------------------------------------------------------------
(* Fields, and what is set.                                                *)
FieldsOf(v, e) == e.defs[IF v[1] = "tuple" THEN v[2] ELSE v[3]].fields
FieldAt(v, name, e) ==
  SelectInSeq(FieldsOf(v, e), LAMBDA d : d.c[1].s = name /\ d.k # "Function")
MethodAt(v, name, e) ==
  SelectInSeq(FieldsOf(v, e), LAMBDA d : d.c[1].s = name /\ d.k = "Function")

(* A definition's fields come before its methods.                          *)
Elements(v, e) == IF v[1] = "tuple" THEN v[3] ELSE e.store[v[2]][3]

MemberOf(o, name, e) ==
  LET isArray == o[1] = "ref" /\ o[3] = 0
      i   == FieldAt(o, name, e)
      def == e.defs[o[3]]
  IN  CASE isArray -> Yields(<< "int", Len(Elements(o, e)) >>, e)
        [] ~isArray /\ i # 0 -> Yields(Elements(o, e)[i], e)
        [] OTHER -> Yields(<< "func", def.fields[MethodAt(o, name, e)], def.scopes >>, e)
EvalMember(x, e) ==
  Then(Eval(x.c[1], Unknown, e), LAMBDA o, b : MemberOf(o, x.c[2].s, b))

(* A place in the store: a location, a way into what it holds, and the     *)
(* type expected there.  The way into a tuple goes on from where the tuple *)
(* is; arrays and objects have locations of their own.                     *)
RECURSIVE PlaceOf(_, _)
PlaceIn(inner, o, i, ty) ==
  IF o[1] = "tuple" THEN [at |-> inner.at, way |-> Append(inner.way, i), ty |-> ty]
  ELSE [at |-> o[2], way |-> <<i>>, ty |-> ty]
FieldPlace(inner, o, name, e) ==
  LET i == FieldAt(o, name, e)
      def == e.defs[IF o[1] = "tuple" THEN o[2] ELSE o[3]]
  IN  PlaceIn(inner, o, i, TypeIn(FieldsOf(o, e)[i].c[2], [e EXCEPT !.scopes = def.scopes]))
PlaceOf(x, e) ==
  CASE x.k = "Id" -> [at |-> Found(x.s, e).at, way |-> << >>, ty |-> Found(x.s, e).ty]
    [] x.k = "Member" ->
         FieldPlace(PlaceOf(x.c[1], e), Eval(x.c[1], Unknown, e).v, x.c[2].s, e)
    [] x.k = "Call" ->
         PlaceIn(PlaceOf(x.c[1], e), Eval(x.c[1], Unknown, e).v,
                 Eval(x.c[2].c[1], Unknown, e).v[2] + 1, Unknown)

RECURSIVE Changed(_, _, _)
Changed(v, way, new) ==
  IF way = << >> THEN new
  ELSE [v EXCEPT ![3][Head(way)] = Changed(v[3][Head(way)], Tail(way), new)]

Exists(p, e) == p.way = << >> \/ Head(p.way) \in DOMAIN e.store[p.at][3]

Put(p, v, e) ==
  IF Exists(p, e) THEN Yields(v, [e EXCEPT !.store[p.at] = Changed(@, p.way, v)]) ELSE Fails(e)
EvalSet(x, e) ==
  Then(Eval(x.c[2], PlaceOf(x.c[1], e).ty, e), LAMBDA v, b : Put(PlaceOf(x.c[1], b), v, b))

(* A definition's members, fields before methods, with its scopes.         *)
Definition(x, e) ==
  LET fields == SelectSeq(x.c, LAMBDA d : d.k # "Function")
      b == [e EXCEPT !.defs = Append(@, [fields |-> fields \o SelectSeq(x.c, LAMBDA d : d.k = "Function"),
                                         n |-> Len(fields), scopes |-> e.scopes])]
  IN  Yields(<< "type", << IF x.k = "Class" THEN "class" ELSE "struct", Len(b.defs) >> >>, b)

(* Fields in the order of the definition: as given, or by default.         *)
EvalFields(def, xs, e) ==
  LET Given(d) == SelectInSeq(xs, LAMBDA a : a.c[1].s = d.c[1].s)
      Within(s, b) == [b EXCEPT !.scopes = s]
      Filled(d, t, b) == IF Given(d) = 0 THEN Eval(d.c[3], t, Within(def.scopes, b))
                         ELSE Eval(xs[Given(d)].c[2], t, b)
      Here(r) == [r EXCEPT !.e = Within(e.scopes, @)]
      Field(d, b) == Here(Filled(d, TypeIn(d.c[2], Within(def.scopes, b)), b))
  IN  FoldLeft(LAMBDA r, i : Then(r, LAMBDA vs, b :
                 Then(Field(def.fields[i], b), LAMBDA v, d : Yields(Append(vs, v), d))),
               Yields(<< >>, e), [i \in 1 .. def.n |-> i])

EvalConstruct(x, t, e) ==
  LET name == x.c[1].s
      xs   == x.c[2].c
      ty   == e.store[Found(name, e).at][2]
      Located(d, vs, b) == Yields(<< "ref", Len(b.store) + 1, d >>, New(<< "cells", 0, vs >>, b))
  IN  CASE name = "option" -> Then(EvalAll(xs, <<OptionPart(t)>>, e),
                                   LAMBDA vs, b : Yields(<< "some", vs[1] >>, b))
        [] name = "array" -> Then(EvalAll(xs, AllUnknown(xs), e),
                                  LAMBDA vs, b : Located(0, vs, b))
        [] OTHER -> Then(EvalFields(e.defs[ty[2]], xs, e), LAMBDA vs, b :
                      IF ty[1] = "class" THEN Located(ty[2], vs, b)
                      ELSE Yields(<< "tuple", ty[2], vs >>, b))

-----------------------------------------------------------------------------
ArithOf == [Plus |-> "Add", Minus |-> "Sub", Star |-> "Mul"]
BinaryOf(op, vs, e) ==
  LET l == vs[1]
      m == vs[2]
  IN  CASE l[1] = "string" -> Yields(l, e)
        [] l[1] # "string" /\ op # "Slash" -> Yields(<< "int", Arith(ArithOf[op], l[2], m[2]) >>, e)
        [] l[1] # "string" /\ op = "Slash" /\ m[2] # 0 -> Yields(<< "int", Quotient(l[2], m[2]) >>, e)
        [] OTHER -> Fails(e)
EvalBinary(x, e) ==
  Then(EvalAll(x.c, AllUnknown(x.c), e), LAMBDA vs, b : BinaryOf(x.s, vs, b))

UnaryOf(op, v) == CASE op = "Plus" -> v [] op = "Minus" -> << "int", -v[2] >>
                    [] OTHER -> << "logic", ~v[2] >>
EvalUnary(x, e) ==
  Then(Eval(x.c[1], Unknown, e), LAMBDA v, b : Yields(UnaryOf(x.s, v), b))

EvalQuery(x, e) ==
  Then(Eval(x.c[1], Unknown, e),
       LAMBDA v, b : IF v[1] = "some" THEN Yields(v[2], b) ELSE Fails(b))

EvalTemplate(x, e) ==
  LET xs == SelectSeq(x.c, LAMBDA y : y.k # "Raw")
  IN  Then(EvalAll(xs, AllUnknown(xs), e), LAMBDA vs, b : Yields(<< "string" >>, b))

EvalTuple(x, t, e) ==
  Then(EvalAll(x.c, [i \in DOMAIN x.c |-> TuplePart(t, i)], e),
       LAMBDA vs, b : Yields(<< "tuple", 0, vs >>, b))

Numeral(s) == CHOOSE n \in 0 .. 9 : ToString(n) = s

(* A literal false where an option is expected is the empty one.           *)
Eval(x, t, e) ==
  CASE x.k = "IntegerLiteral" -> Yields(<< "int", Numeral(x.s) >>, e)
    [] x.k = "StringLiteral"  -> Yields(<< "string" >>, e)
    [] x.k = "False" /\ t[1] = "option" -> Yields(<< "none" >>, e)
    [] x.k \in {"True", "False"} /\ ~(x.k = "False" /\ t[1] = "option") ->
         Yields(<< "logic", x.k = "True" >>, e)
    [] x.k = "Id"       -> Yields(e.store[Found(x.s, e).at], e)
    [] x.k = "Init"     -> Define(x.c[1].s, Unknown, Eval(x.c[2], Unknown, e))
    [] x.k = "Decl"     -> LET ty == TypeIn(x.c[2], e)
                           IN  Define(x.c[1].s, ty, Eval(x.c[3], ty, e))
    [] x.k = "Set"      -> EvalSet(x, e)
    [] x.k = "Block"    -> EvalBlock(x, t, e)
    [] x.k = "CompareChain" -> EvalChain(x, e)
    [] x.k = "Template" -> EvalTemplate(x, e)
    [] x.k = "Tuple"    -> EvalTuple(x, t, e)
    [] x.k = "If"       -> EvalIf(x, t, e)
    [] x.k = "Loop"     -> EvalLoop(x.c[1], e)
    [] x.k = "Break"    -> Breaks(e)
    [] x.k = "Function" -> EvalFunction(x, e)
    [] x.k = "Call"     -> EvalCall(x, e)
    [] x.k = "Binary"   -> EvalBinary(x, e)
    [] x.k = "Unary"    -> EvalUnary(x, e)
    [] x.k = "Type"     -> IF x.c[1].k = "Struct" THEN Definition(x.c[1], e)
                           ELSE Yields(<< "type", TypeIn(x.c[1], e) >>, e)
    [] x.k = "Class"    -> Definition(x, e)
    [] x.k = "Member"   -> EvalMember(x, e)
    [] x.k = "Construct" -> EvalConstruct(x, t, e)
    [] x.k = "Query"    -> EvalQuery(x, e)

(* The items in turn, up to one that fails.                                *)
Meaning(items) == EvalAll(items, AllUnknown(items), Beginning)
=============================================================================
