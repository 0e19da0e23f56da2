------------------------------ MODULE Analyzer ------------------------------
(***************************************************************************)
(* SemanticAnalyzer of compiler/semantic.rs: from a syntax tree to typed   *)
(* IR.  An operator takes the analyzer's state and returns it with the IR, *)
(* a sequence of at most one node: none stands for None, after which the   *)
(* code's ? leaves the function.  stuck tells that a todo!() was reached.  *)
(*                                                                         *)
(* Trees are those the parser makes (module Parser): a kind, a word, and   *)
(* trees.  Spans, the names errors mention and the names of structs are    *)
(* left out.                                                               *)
(***************************************************************************)
EXTENDS TypedIr, TLC

NewScope(isFunction, next) ==
  [isFunction |-> isFunction, next |-> next, vars |-> << >>, upvalues |-> << >>]

Declared(scope, name, ty, mutable) ==
  LET known == name \in DOMAIN scope.vars
      slot  == IF known THEN scope.vars[name].slot ELSE scope.next
      var   == [slot |-> slot, ty |-> ty, mutable |-> mutable]
  IN  [scope EXCEPT !.next = IF known THEN @ ELSE @ + 1,
                    !.vars = (name :> var) @@ @]

Predefined ==
  [i \in 1 .. 9 |->
     LET names == << "int", "float", "logic", "char", "char32", "string", "any", "void" >>
     IN  IF i <= 8 THEN << names[i], MetaType(Prim(names[i])) >>
         ELSE << "Print", FunctionType(<< Prim("any") >>, Prim("void")) >>]

(* The global scope, and that of the root code, whose slots go on.         *)
NewAnalyzer ==
  LET global == FoldLeft(LAMBDA s, p : Declared(s, p[1], p[2], FALSE),
                         NewScope(FALSE, 0), Predefined)
  IN  [scopes |-> << global, NewScope(TRUE, global.next) >>,
       loops |-> 0, failing |-> 0, structs |-> << >>, classes |-> << >>,
       errors |-> << >>, stuck |-> FALSE]

Err(a, kind) == [a EXCEPT !.errors = Append(@, kind)]
ErrIf(wrong, a, kind) == IF wrong THEN Err(a, kind) ELSE a

Lowered(a, ir)   == [a |-> a, ir |-> <<ir>>]
Dropped(a)       == [a |-> a, ir |-> << >>]
Refused(a, kind) == Dropped(Err(a, kind))
Todo(a)          == Dropped([a EXCEPT !.stuck = TRUE])

(* The code's ?: the rest only happens with the IR there; after several    *)
(* expressions with that of all.                                           *)
Then(x, Rest(_, _))    == IF x.ir = << >> THEN x ELSE Rest(x.a, x.ir[1])
ThenAll(r, Rest(_, _)) == IF r.ok THEN Rest(r.a, r.irs) ELSE Dropped(r.a)

PushScope(a, isFunction) == [a EXCEPT !.scopes = Append(@, NewScope(isFunction, 0))]
PopScope(a) == [a EXCEPT !.scopes = Front(@)]
Declare(a, name, ty, mutable) ==
  [a EXCEPT !.scopes[Len(a.scopes)] = Declared(@, name, ty, mutable)]

ScopeOf(a, name) ==
  CHOOSE i \in DOMAIN a.scopes :
    /\ name \in DOMAIN a.scopes[i].vars
    /\ \A j \in i + 1 .. Len(a.scopes) : name \notin DOMAIN a.scopes[j].vars

IsKnown(a, name) == \E i \in DOMAIN a.scopes : name \in DOMAIN a.scopes[i].vars

(* Mutant: scopes are counted, of blocks and functions alike.              *)
ScopesBetween(a, i) == Len(a.scopes) - i

(* The functions entered since scope i.                                    *)
FunctionsBetween(a, i) ==
  Len(SelectSeq(SubSeq(a.scopes, i + 1, Len(a.scopes)), LAMBDA s : s.isFunction))

(* lookup: the innermost declaration and where it is.                      *)
LookUp(a, name) ==
  LET i == ScopeOf(a, name)
  IN  [isGlobal |-> i <= 2, depth |-> FunctionsBetween(a, i)]
        @@ a.scopes[i].vars[name]

(* capture notes an upvalue in the innermost scope, whatever its kind.     *)
Capture(a, var) ==
  LET desc == [depth |-> var.depth, slot |-> var.slot]
  IN  [a EXCEPT !.scopes[Len(a.scopes)].upvalues =
                   IF Contains(@, desc) THEN @ ELSE Append(@, desc)]
CaptureIndex(a, var) ==
  CHOOSE i \in 0 .. Len(Last(a.scopes).upvalues) - 1 :
    Last(a.scopes).upvalues[i + 1] = [depth |-> var.depth, slot |-> var.slot]

(* make_load_ir and make_store_ir: value is << >> or the node to store.    *)
Access(a, var, value) ==
  LET op == IF value = << >> THEN "Load" ELSE "Store"
      captured == Capture(a, var)
  IN  CASE var.isGlobal -> Lowered(a, Ir(op \o "Global", var.ty, var.slot, value))
        [] ~var.isGlobal /\ var.depth > 0 ->
             Lowered(captured, Ir(op \o "Upvalue", var.ty, CaptureIndex(captured, var), value))
        [] OTHER -> Lowered(a, Ir(op \o "Local", var.ty, var.slot, value))

EnsureNotFallible(a) == ErrIf(a.failing = 0, a, "UnexpectedFallibleExpr")

-----------------------------------------------------------------------------
(* ensure_type_match: the parts of a node are compared where that is       *)
(* possible; expected may be inferred, and a literal false where an option *)
(* is expected becomes the empty option.                                   *)

MatchWhole(a, t, ir) ==
  LET r == TryMatch(ir.ty, t)
  IN  [a |-> ErrIf(~r.ok, a, "TypeMismatch"), t |-> r.dst, ir |-> ir]

RECURSIVE MatchType(_, _, _)

(* The i-th node against t.                                                *)
PutPart(m, ir, i) == [m EXCEPT !.ir = [ir EXCEPT !.irs[i] = m.ir]]
MatchPart(a, t, ir, i) == PutPart(MatchType(a, t, ir.irs[i]), ir, i)

PutElem(m, t, i) == [m EXCEPT !.t = [t EXCEPT ![2][i] = m.t]]
MatchTuple(a, t, ir) ==
  FoldLeft(LAMBDA r, i : PutElem(MatchPart(r.a, r.t[2][i], r.ir, i), r.t, i),
           [a |-> a, t |-> t, ir |-> ir], [i \in DOMAIN ir.irs |-> i])

MatchAlternate(m) == MatchPart(m.a, m.t, m.ir, 3)

MatchType(a, t, ir) ==
  CASE t[1] = "tuple" /\ ir.kind = "Tuple" /\ Len(t[2]) = Len(ir.irs) -> MatchTuple(a, t, ir)
    [] t[1] = "option" /\ ir.irs # << >>
         /\ (ir.kind = "Option" \/ (ir.kind = "If" /\ ~HasAlternate(ir))) ->
         [MatchPart(a, t[2], ir, Len(ir.irs)) EXCEPT !.t = OptionType(@)]
    [] ir.kind = "If" /\ HasAlternate(ir) -> MatchAlternate(MatchPart(a, t, ir, 2))
    [] ir.kind = "Block" /\ ir.irs # << >> -> MatchPart(a, t, ir, Len(ir.irs))
    [] t[1] = "option" /\ ir.kind = "Logic" /\ ir.v = FALSE ->
         [a |-> a, t |-> t, ir |-> Ir("Option", t, 0, << >>)]
    [] OTHER -> MatchWhole(a, t, ir)

(* What is lowered is matched, if it is there; the rest has its type, too. *)
Fitted(m) == [m EXCEPT !.ir = <<@>>]
Fit(x, t) == IF x.ir = << >> THEN [a |-> x.a, t |-> t, ir |-> << >>]
             ELSE Fitted(MatchType(x.a, t, x.ir[1]))
ThenFit(m, Rest(_, _, _)) == IF m.ir = << >> THEN Dropped(m.a) ELSE Rest(m.a, m.t, m.ir)

-----------------------------------------------------------------------------
RECURSIVE Lower(_, _)

(* Several expressions in turn, up to the first that gives no IR.          *)
All(a) == [a |-> a, irs |-> << >>, ok |-> TRUE]
AndThen(r, x) ==
  [a |-> x.a, irs |-> r.irs \o x.ir, ok |-> x.ir # << >>]
LowerAll(a, es) ==
  FoldLeft(LAMBDA r, e : IF r.ok THEN AndThen(r, Lower(r.a, e)) ELSE r, All(a), es)

(* parse_type_expr                                                         *)
RECURSIVE ParseType(_, _)
ParseTypes(a, es) ==
  LET AddType(ts, ty) == [a |-> ty.a, ts |-> Append(ts, ty.t)]
  IN  FoldLeft(LAMBDA r, e : AddType(r.ts, ParseType(r.a, e)), [a |-> a, ts |-> << >>], es)

(* An OrderMap: a key that is there keeps its place.                       *)
FieldIndex(fields, name) == SelectInSeq(fields, LAMBDA f : f.name = name)
PutField(fields, f) ==
  LET i == FieldIndex(fields, f.name)
  IN  IF i = 0 THEN Append(fields, f) ELSE [fields EXCEPT ![i] = f]

(* An expression where a type is written.                                  *)
LowerAs(ty, e) == Fit(Lower(ty.a, e), ty.t)

(* A struct's default that gives no IR is Invalid; an error was reported.  *)
AddStructField(fs, name, m) ==
  [a |-> m.a,
   fs |-> PutField(fs, [name |-> name, ty |-> m.t, mutable |-> TRUE,
                        ir |-> IF m.ir = << >> THEN <<Ir("Invalid", m.t, 0, << >>)>> ELSE m.ir])]
AddStruct(r) == [a |-> [r.a EXCEPT !.structs = Append(@, r.fs)],
                 t |-> StructType(Len(r.a.structs))]
ParseStruct(a, decls) ==
  AddStruct(FoldLeft(LAMBDA r, d : AddStructField(r.fs, d.c[1].s,
                                                  LowerAs(ParseType(r.a, d.c[2]), d.c[3])),
                     [a |-> a, fs |-> << >>], decls))

FunctionTypeOf(params, ret) == [a |-> ret.a, t |-> FunctionType(params, ret.t)]
NamedType(a, var) ==
  IF var.ty[1] = "type" THEN [a |-> a, t |-> var.ty[2]]
  ELSE [a |-> Err(a, "ExpectedTypeGotValue"), t |-> Prim("any")]
TypeOfParts(kind, parts) ==
  [a |-> parts.a, t |-> CASE kind = "Option"    -> OptionType(parts.ts[1])
                          [] kind = "TupleType" -> TupleType(parts.ts)
                          [] kind = "ArrayType" -> ArrayType(parts.ts[1])]
ParseType(a, e) ==
  CASE e.k = "Named" /\ ~IsKnown(a, e.s) -> [a |-> Err(a, "UndefinedName"), t |-> Prim("any")]
    [] e.k = "Named" /\ IsKnown(a, e.s) -> NamedType(a, LookUp(a, e.s))
    [] e.k \in {"Option", "TupleType", "ArrayType"} -> TypeOfParts(e.k, ParseTypes(a, e.c))
    [] e.k = "Struct" -> ParseStruct(a, e.c)
    [] e.k = "FunctionType" ->
         LET Result(params) == FunctionTypeOf(params.ts, ParseType(params.a, e.c[2]))
         IN  Result(ParseTypes(a, e.c[1].c))
    [] OTHER -> [a |-> a, t |-> MetaType(Unknown)]

TypeNode(ty) == Lowered(ty.a, Ir("Type", MetaType(ty.t), ty.t, << >>))
LowerType(a, e) == TypeNode(ParseType(a, e.c[1]))

-----------------------------------------------------------------------------
(* Declarations, assignments and names.                                    *)
StoreNew(a, name, t, ir) == Lowered(a, Ir("StoreLocal", t, Last(a.scopes).vars[name].slot, ir))
DeclareAs(a, name, t, mutable, ir) ==
  StoreNew(Declare(ErrIf(~IsComplete(t), a, "TypeAnnotationRequired"), name, t, mutable),
           name, t, ir)

LowerInit(a, e) ==
  Then(Lower(a, e.c[2]), LAMBDA b, x : DeclareAs(b, e.c[1].s, x.ty, FALSE, <<x>>))
LowerDecl(a, e) ==
  ThenFit(LowerAs(ParseType(a, e.c[2]), e.c[3]),
          LAMBDA b, t, ir : DeclareAs(b, e.c[1].s, t, e.s = "var", ir))

LowerId(a, e) ==
  IF IsKnown(a, e.s) THEN Access(a, LookUp(a, e.s), << >>) ELSE Refused(a, "UndefinedName")

(* What is set must be mutable and of the type of the value.               *)
MatchSet(a, place, value) ==
  Fit(Lowered(ErrIf(~place.mutable, a, "ImmutableAssignment"), value), place.ty)

SetKnown(a, var, value) ==
  ThenFit(MatchSet(a, var, value), LAMBDA b, t, ir : Access(b, [var EXCEPT !.ty = t], ir))
SetVariable(a, name, value) ==
  IF IsKnown(a, name) THEN SetKnown(a, LookUp(a, name), value) ELSE Refused(a, "UndefinedName")

(* A struct's fields may all be set.                                       *)
SetMember(a, obj, name, value) ==
  LET isStruct == obj.ty[1] = "struct"
      fields == IF isStruct THEN a.structs[obj.ty[2] + 1] ELSE a.classes[obj.ty[2] + 1].fields
      i == FieldIndex(fields, name)
      kind == IF isStruct THEN "SetTupleElement" ELSE "StoreObjectField"
  IN  CASE obj.ty[1] \notin {"struct", "class"} -> Refused(a, "InvalidAssignmentTarget")
        [] obj.ty[1] \in {"struct", "class"} /\ i # 0 ->
             ThenFit(MatchSet(a, fields[i], value),
                     LAMBDA b, t, ir : Lowered(b, Ir(kind, t, i - 1, Append(ir, obj))))
        [] isStruct /\ i = 0 -> Refused(a, "UndefinedStructField")
        [] OTHER -> Refused(a, "InvalidAssignmentTarget")

SetElement(a, callee, value) ==
  CASE callee.kind = "IndexTuple" ->
         Lowered(a, Ir("SetTupleElement", callee.ty, callee.v, <<value>> \o callee.irs))
    [] callee.kind = "LoadArrayElement" ->
         Lowered(a, Ir("StoreArrayElement", callee.ty, 0, <<value>> \o callee.irs))
    [] OTHER -> Refused(a, "InvalidAssignmentTarget")

(* The value set in front of a call is lowered a second time.              *)
SetTo(a, lhs, rhs, value) ==
  CASE lhs.k = "Id" -> SetVariable(a, lhs.s, value)
    [] lhs.k = "Member" ->
         Then(Lower(a, lhs.c[1]), LAMBDA b, obj : SetMember(b, obj, lhs.c[2].s, value))
    [] lhs.k = "Call" ->
         ThenAll(LowerAll(a, <<lhs, rhs>>), LAMBDA b, irs : SetElement(b, irs[1], irs[2]))
    [] OTHER -> Refused(a, "InvalidAssignmentTarget")
LowerSet(a, e) == Then(Lower(a, e.c[2]), LAMBDA b, x : SetTo(b, e.c[1], e.c[2], x))

-----------------------------------------------------------------------------
(* Expressions.                                                            *)

(* An item that gives no IR is left out, unless it is the last.            *)
LowerBlock(a, e) ==
  ThenAll(FoldLeft(LAMBDA r, x : AndThen(r, Lower(r.a, x)), All(a), e.c),
          LAMBDA b, irs : Lowered(b, Ir("Block", IF irs = << >> THEN Prim("void")
                                                 ELSE Last(irs).ty, 0, irs)))

(* The operands are the trees that are no operators.                       *)
SameTypes(r) ==
  [r EXCEPT !.a = ErrIf(r.ok /\ Last(r.irs).ty # r.irs[1].ty, @, "TypeMismatch")]
LowerChain(a, e) ==
  LET IsOp(x) == x.k = "CompareOp"
      ops == SelectSeq(e.c, IsOp)
  IN  ThenAll(FoldLeft(LAMBDA r, x : IF r.ok THEN SameTypes(AndThen(r, Lower(r.a, x))) ELSE r,
                       All(EnsureNotFallible(a)), SelectSeq(e.c, LAMBDA x : ~IsOp(x))),
              LAMBDA b, irs : Lowered(b, Ir("CompareChain", irs[1].ty,
                                            [i \in DOMAIN ops |-> ops[i].s], irs)))

Text == Ir("Text", Prim("string"), 0, << >>)
LowerTemplate(a, e) ==
  LET Elem(r, x) == CASE ~r.ok -> r
                      [] r.ok /\ x.k = "Raw" -> [r EXCEPT !.irs = Append(@, Text)]
                      [] OTHER -> AndThen(r, Lower(r.a, x))
  IN  ThenAll(FoldLeft(Elem, All(a), e.c),
              LAMBDA b, irs : Lowered(b, Ir("Template", Prim("string"), 0, irs)))

TypesOf(irs) == [i \in DOMAIN irs |-> irs[i].ty]
LowerTuple(a, e) ==
  ThenAll(LowerAll(a, e.c),
          LAMBDA b, irs : Lowered(b, Ir("Tuple", TupleType(TypesOf(irs)), 0, irs)))

Failing(a, n) == [a EXCEPT !.failing = @ + n]

(* The scope of an if holds its test and its consequent, another one the   *)
(* alternate.  Each is left before the code returns for want of IR.        *)
IfType(irs) ==
  CASE Len(irs) = 2 -> OptionType(irs[2].ty)
    [] Len(irs) = 3 /\ irs[2].ty = irs[3].ty -> irs[2].ty
    [] OTHER -> Prim("any")
IfNode(a, irs) == Lowered(a, Ir("If", IfType(irs), 0, irs))

(* Mutant: the alternate's scope stays when there is no IR.                *)
AlternateLeft(x, irs) ==
  IF x.ir = << >> THEN Dropped(x.a) ELSE IfNode(PopScope(x.a), irs \o x.ir)

Alternate(x, irs) ==
  IF x.ir = << >> THEN Dropped(PopScope(x.a)) ELSE IfNode(PopScope(x.a), irs \o x.ir)
Branches(test, then, e) ==
  LET a   == ErrIf(test.ir # << >> /\ ~IsFallible(test.ir[1]), PopScope(then.a),
                   "ExpectedFallibleExpr")
      irs == test.ir \o then.ir
  IN  CASE Len(irs) < 2 -> Dropped(a)
        [] Len(irs) = 2 /\ Len(e.c) = 2 -> IfNode(a, irs)
        [] OTHER -> Alternate(Lower(PushScope(a, FALSE), e.c[3]), irs)
Tested(test, e) == Branches(test, Lower(Failing(test.a, -1), e.c[2]), e)
LowerIf(a, e) == Tested(Lower(Failing(PushScope(a, FALSE), 1), e.c[1]), e)

AfterLoop(x) == [x EXCEPT !.a.loops = @ - 1]
LowerLoop(a, e) ==
  Then(AfterLoop(Lower([a EXCEPT !.loops = @ + 1], e.c[1])),
       LAMBDA b, x : Lowered(b, Ir("Loop", Prim("true"), 0, <<x>>)))

LowerBreak(a) ==
  IF a.loops = 0 THEN Refused(a, "BreakOutsideLoop")
  ELSE Lowered(a, Ir("Break", Prim("bottom"), 0, << >>))

-----------------------------------------------------------------------------
(* Functions.  The name is declared around the body, parameters in it; the *)
(* result type is matched with the body unless it is void.                 *)
Params(e) == e.c[2].c
FunctionTypes(a, e) ==
  LET With(ps, ret) == [a |-> ps.a, params |-> ps.ts, ret |-> ret]
      ParamTypes(ret) ==
        With(ParseTypes(ret.a, [i \in DOMAIN Params(e) |-> Params(e)[i].c[2]]), ret.t)
  IN  ParamTypes(ParseType(a, e.c[4]))

CheckEffects(a, effects) ==
  FoldLeft(LAMBDA b, f : ErrIf(f.s # "decides", b, "InvalidEffect"), a, effects)

(* The scope in which the body is lowered.                                 *)
EnterFunction(a, e, types) ==
  LET f == FunctionType(types.params, types.ret)
      b == CheckEffects(Declare(a, e.c[1].s, f, FALSE), e.c[3].c)
  IN  FoldLeft(LAMBDA s, i : Declare(s, Params(e)[i].c[1].s, types.params[i], TRUE),
               PushScope(b, TRUE), [i \in DOMAIN Params(e) |-> i])

FitResult(x, ret) ==
  IF ret = Prim("void") THEN [a |-> x.a, t |-> ret, ir |-> x.ir] ELSE Fit(x, ret)
FunctionNode(body, types, e) ==
  LET info == [upvalues |-> Last(body.a.scopes).upvalues,
               decides  |-> \E i \in DOMAIN e.c[3].c : e.c[3].c[i].s = "decides",
               void     |-> types.ret = Prim("void")]
  IN  ThenFit(FitResult([body EXCEPT !.a = PopScope(@)], types.ret),
              LAMBDA b, t, ir :
                Lowered(b, Ir("Func", FunctionType(types.params, types.ret),
                              [info EXCEPT !.void = t = Prim("void")], ir)))
FunctionOf(types, e) ==
  FunctionNode(Lower(EnterFunction(types.a, e, types), e.c[5]), types, e)
LowerFunction(a, e) == FunctionOf(FunctionTypes(a, e), e)

LowerFunctionDecl(a, e) ==
  Then(LowerFunction(a, e),
       LAMBDA b, f : Lowered(b, Ir("StoreLocal", f.ty, LookUp(b, e.c[1].s).slot, <<f>>)))

(* A callee is called, indexed or casts, as its type says.                 *)
LowerArgs(a, params, args) ==
  FoldLeft(LAMBDA r, i : IF r.ok THEN AndThen(r, Fit(Lower(r.a, args[i]), params[i])) ELSE r,
           All(a),
           [i \in 1 .. (IF Len(params) < Len(args) THEN Len(params) ELSE Len(args)) |-> i])

CallFunction(a, callee, args) ==
  LET params == callee.ty[2]
  IN  ThenAll(LowerArgs(ErrIf(Len(params) # Len(args), a, "ArgCountMismatch"), params, args),
              LAMBDA b, irs : Lowered(b, Ir("Call", callee.ty[3], 0, <<callee>> \o irs)))

IndexTuple(a, tuple, x) ==
  LET types == tuple.ty[2]
  IN  CASE x.kind # "Int" -> Refused(a, "InvalidTupleIndex")
        [] x.kind = "Int" /\ x.v \in 0 .. Len(types) - 1 ->
             Lowered(a, Ir("IndexTuple", types[x.v + 1], x.v, <<tuple>>))
        [] OTHER -> Refused(a, "TupleIndexOutOfBounds")
IndexTupleBy(a, tuple, arg) == Then(Lower(a, arg), LAMBDA b, x : IndexTuple(b, tuple, x))

IndexArrayBy(a, array, arg) ==
  Then(Lower(a, arg),
       LAMBDA b, x : Lowered(b, Ir("LoadArrayElement", array.ty[2], 0, <<array, x>>)))

TypeCast(a, ty, arg) ==
  Then(Lower(EnsureNotFallible(a), arg), LAMBDA b, x : Lowered(b, Ir("Cast", ty, ty, <<x>>)))

CallAs(a, f, args, fallible) ==
  LET kind == f.ty[1]
      checked == IF kind = "array" THEN EnsureNotFallible(a) ELSE a
      one == Len(args) = 1 /\ (fallible <=> kind = "array")
  IN  CASE kind = "function" -> CallFunction(a, f, args)
        [] kind = "tuple" /\ one -> IndexTupleBy(a, f, args[1])
        [] kind = "array" /\ one -> IndexArrayBy(checked, f, args[1])
        [] kind = "type" /\ one -> TypeCast(a, f.ty[2], args[1])
        [] kind \in {"tuple", "array", "type"} /\ ~one -> Refused(checked, "InvalidExpression")
        [] OTHER -> Refused(a, "NotCallable")
LowerCall(a, e) ==
  Then(Lower(a, e.c[1]), LAMBDA b, f : CallAs(b, f, e.c[2].c, e.s = "fallible"))

-----------------------------------------------------------------------------
Numeric == {Prim("int"), Prim("float"), Prim("rational")}
BinaryKind == [Plus |-> "Add", Minus |-> "Sub", Star |-> "Mul", Slash |-> "Div"]

BinaryOf(a, op, irs) ==
  LET l == irs[1].ty
      same == irs[2].ty = l
  IN  CASE same /\ l = Prim("string") /\ op = "Plus" ->
             Lowered(a, Ir("Concat", l, 0, Summands(irs[1]) \o Summands(irs[2])))
        [] same /\ l \in Numeric -> Lowered(a, Ir(BinaryKind[op], l, 0, irs))
        [] OTHER -> Refused(a, "InvalidBinaryOp")
LowerBinary(a, e) == ThenAll(LowerAll(a, e.c), LAMBDA b, irs : BinaryOf(b, e.s, irs))

UnaryOf(a, op, x) ==
  CASE op = "Not" /\ x.ty = Prim("logic") -> Lowered(a, Ir("Not", x.ty, 0, <<x>>))
    [] op = "Minus" /\ x.ty \in Numeric  -> Lowered(a, Ir("Neg", x.ty, 0, <<x>>))
    [] op = "Plus" /\ x.ty \in Numeric   -> Lowered(a, x)
    [] OTHER -> Refused(a, "InvalidUnaryOp")
LowerUnary(a, e) == Then(Lower(a, e.c[1]), LAMBDA b, x : UnaryOf(b, e.s, x))

LowerQuery(a, e) ==
  Then(Lower(EnsureNotFallible(a), e.c[1]),
       LAMBDA b, x : IF x.ty[1] = "option" THEN Lowered(b, Ir("Unwrap", x.ty[2], 0, <<x>>))
                     ELSE Refused(b, "InvalidExpression"))

(* A member of a value of another type is a todo!().                       *)
ClassMember(a, obj, name) ==
  LET class == a.classes[obj.ty[2] + 1]
      i == FieldIndex(class.fields, name)
      m == FieldIndex(class.methods, name)
  IN  CASE i # 0 -> Lowered(a, Ir("LoadObjectField", class.fields[i].ty, i - 1, <<obj>>))
        [] i = 0 /\ m # 0 -> Lowered(a, Ir("Method", class.methods[m].ir.ty,
                                           <<obj.ty[2], m - 1>>, <<obj>>))
        [] OTHER -> Refused(a, "UndefinedStructField")
StructMember(a, obj, name) ==
  LET fields == a.structs[obj.ty[2] + 1]
      i == FieldIndex(fields, name)
  IN  IF i = 0 THEN Refused(a, "UndefinedStructField")
      ELSE Lowered(a, Ir("IndexTuple", fields[i].ty, i - 1, <<obj>>))
MemberOf(a, obj, name) ==
  CASE obj.ty[1] \in {"string", "array"} /\ name = "Length" ->
         Lowered(a, Ir("GetLength", Prim("int"), 0, <<obj>>))
    [] obj.ty[1] = "struct" -> StructMember(a, obj, name)
    [] obj.ty[1] = "class" -> ClassMember(a, obj, name)
    [] OTHER -> Todo(a)
LowerMember(a, e) == Then(Lower(a, e.c[1]), LAMBDA b, x : MemberOf(b, x, e.c[2].s))

-----------------------------------------------------------------------------
(* Structs, classes and what constructs them.  Fields are records of name, *)
(* ty, mutable and ir, the default or << >>.                               *)
InitField(r, i, m) ==
  IF m.ir = << >> THEN [r EXCEPT !.a = m.a, !.ok = FALSE]
  ELSE [r EXCEPT !.a = m.a, !.fs[i] = [@ EXCEPT !.ty = m.t, !.ir = m.ir]]
LowerInits(a, fields, args) ==
  LET Init1(r, arg) ==
        LET i == FieldIndex(r.fs, arg.c[1].s)
        IN  CASE ~r.ok -> r
              [] r.ok /\ arg.k # "Init" -> [r EXCEPT !.a = Err(@, "InvalidExpression")]
              [] r.ok /\ arg.k = "Init" /\ i = 0 -> [r EXCEPT !.a = Err(@, "UndefinedStructField")]
              [] OTHER -> InitField(r, i, Fit(Lower(r.a, arg.c[2]), r.fs[i].ty))
  IN  FoldLeft(Init1, [a |-> a, fs |-> fields, ok |-> TRUE], args)

FieldsNode(r, t, kind) ==
  LET irs == FlattenSeq([i \in DOMAIN r.fs |-> r.fs[i].ir])
  IN  CASE ~r.ok -> Dropped(r.a)
        [] r.ok /\ Len(irs) < Len(r.fs) -> Refused(r.a, "IncompleteClassConstruction")
        [] OTHER -> Lowered(r.a, Ir(kind, t, t[2], irs))
Construct(a, t, kind, fields, args) == FieldsNode(LowerInits(a, fields, args), t, kind)

ConstructOption(a, args) ==
  LET TypeOf(x) == IF x.kind = "Logic" /\ x.v = FALSE THEN Unknown ELSE x.ty
  IN  IF Len(args) = 1
      THEN Then(Lower(a, args[1]),
                LAMBDA b, x : Lowered(b, Ir("Option", OptionType(TypeOf(x)), 0, <<x>>)))
      ELSE Refused(a, "InvalidExpression")

ElementType(irs) ==
  CASE irs = << >> -> Unknown
    [] irs # << >> /\ (\A i \in DOMAIN irs : irs[i].ty = irs[1].ty) -> irs[1].ty
    [] OTHER -> Prim("any")
ConstructArray(a, args) ==
  ThenAll(LowerAll(a, args),
          LAMBDA b, irs : Lowered(b, Ir("Array", ArrayType(ElementType(irs)), 0, irs)))

LowerConstruct(a, e) ==
  LET name == e.c[1].s
      args == e.c[2].c
      t    == LookUp(a, name).ty
      isId == e.c[1].k = "Id"
      isType == isId /\ IsKnown(a, name) /\ t[1] = "type"
  IN  CASE isId /\ name = "option" -> ConstructOption(a, args)
        [] isId /\ name = "array" -> ConstructArray(a, args)
        [] name \notin {"option", "array"} /\ isType /\ t[2][1] = "struct" ->
             Construct(a, t[2], "MakeStruct", a.structs[t[2][2] + 1], args)
        [] name \notin {"option", "array"} /\ isType /\ t[2][1] = "class" ->
             Construct(a, t[2], "MakeObject", a.classes[t[2][2] + 1].fields, args)
        [] OTHER -> Todo(a)

(* Fields first, then methods; one that fails ends the class.              *)
ClassField(r, f, x, ty) ==
  [a |-> x.a, fs |-> PutField(r.fs, [name |-> f.c[1].s, ty |-> ty,
                                     mutable |-> f.s = "var", ir |-> x.ir])]
ClassFields(a, e) ==
  LET Typed(r, f, ty) ==
        ClassField(r, f, IF Len(f.c) = 3 THEN Lower(ty.a, f.c[3]) ELSE Dropped(ty.a), ty.t)
  IN  FoldLeft(LAMBDA r, f : Typed(r, f, ParseType(r.a, f.c[2])), [a |-> a, fs |-> << >>],
               SelectSeq(e.c, LAMBDA m : m.k = "Field"))

AddMethod(r, name, f) ==
  IF f.ir = << >> THEN [r EXCEPT !.a = f.a, !.ok = FALSE]
  ELSE [r EXCEPT !.a = f.a, !.ms = PutField(@, [name |-> name, ir |-> f.ir[1]])]
ClassMethods(a, e) ==
  FoldLeft(LAMBDA r, m : IF r.ok THEN AddMethod(r, m.c[1].s, LowerFunction(r.a, m)) ELSE r,
           [a |-> a, ms |-> << >>, ok |-> TRUE],
           SelectSeq(e.c, LAMBDA m : m.k = "Function"))

AddClass(fields, r) ==
  LET ty == MetaType(ClassType(Len(r.a.classes)))
  IN  IF r.ok THEN Lowered([r.a EXCEPT !.classes = Append(@, [fields |-> fields, methods |-> r.ms])],
                           Ir("Type", ty, ty, << >>))
      ELSE Dropped(r.a)
LowerClass(a, e) ==
  LET Methods(r) == AddClass(r.fs, ClassMethods(r.a, e)) IN Methods(ClassFields(a, e))

-----------------------------------------------------------------------------
(* Words that stand for small numbers.                                     *)
NumberOf(s) == CHOOSE n \in 0 .. 9 : ToString(n) = s

LowerLiteral(e) ==
  CASE e.k = "IntegerLiteral" -> Ir("Int", Prim("int"), NumberOf(e.s), << >>)
    [] e.k = "FloatLiteral"   -> Ir("Float", Prim("float"), 1, << >>)
    [] e.k = "CharLiteral"    -> Ir("Char", Prim("char"), 65, << >>)
    [] e.k = "Char32Literal"  -> Ir("Char32", Prim("char32"), 65, << >>)
    [] e.k = "StringLiteral"  -> Ir("String", Prim("string"), 0, << >>)
    [] OTHER                  -> Ir("Logic", Prim("logic"), e.k = "True", << >>)

Lower(a, e) ==
  CASE e.k = "Id"       -> LowerId(a, e)
    [] e.k = "Init"     -> LowerInit(a, e)
    [] e.k = "Decl"     -> LowerDecl(a, e)
    [] e.k = "Set"      -> LowerSet(a, e)
    [] e.k = "Block"    -> LowerBlock(a, e)
    [] e.k = "CompareChain" -> LowerChain(a, e)
    [] e.k = "Template" -> LowerTemplate(a, e)
    [] e.k = "Tuple"    -> LowerTuple(a, e)
    [] e.k = "If"       -> LowerIf(a, e)
    [] e.k = "Loop"     -> LowerLoop(a, e)
    [] e.k = "Break"    -> LowerBreak(a)
    [] e.k = "Function" -> LowerFunctionDecl(a, e)
    [] e.k = "Call"     -> LowerCall(a, e)
    [] e.k = "Binary"   -> LowerBinary(a, e)
    [] e.k = "Unary"    -> LowerUnary(a, e)
    [] e.k = "Type"     -> LowerType(a, e)
    [] e.k = "Member"   -> LowerMember(a, e)
    [] e.k = "Construct" -> LowerConstruct(a, e)
    [] e.k = "Query"    -> LowerQuery(a, e)
    [] e.k = "Class"    -> LowerClass(a, e)
    [] OTHER            -> Lowered(a, LowerLiteral(e))

(* One turn of analyze's loop.                                             *)
LowerItem(a, e) == Lower(a, e)
=============================================================================
