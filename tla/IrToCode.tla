------------------------------ MODULE IrToCode ------------------------------
(***************************************************************************)
(* From the analyzer's typed IR to the generator's trees: compile_ir of    *)
(* compiler/compiler.rs, which picks what to generate by the kind of a     *)
(* node, and the type ids that TypeRegistry of core/types.rs gives out.    *)
(***************************************************************************)
EXTENDS TypedIr, Codegen, TLC

(* The types a node makes the generator intern.                            *)
RECURSIVE TypesNamed(_)
TypesNamed(ir) ==
  << ir.ty >> \o (IF ir.kind = "Type" THEN << ir.v >> ELSE << >>)
    \o FlattenSeq([i \in DOMAIN ir.irs |-> TypesNamed(ir.irs[i])])

PredefinedTypes == << "any", "bottom", "char", "char32", "float", "int", "logic",
                      "rational", "string", "void" >>

(* intern: a type that is there keeps its place.                           *)
Intern(set, t) == IF Contains(set, t) THEN set ELSE Append(set, t)

(* The registry after the program's types.                                 *)
Registry(irs) ==
  FoldLeft(Intern, [i \in DOMAIN PredefinedTypes |-> Prim(PredefinedTypes[i])],
           FlattenSeq([i \in DOMAIN irs |-> TypesNamed(irs[i])]))

TypeId(reg, t) == SelectInSeq(reg, LAMBDA u : u = t) - 1

OpcodeOf == [Eq |-> "Eq", NotEq |-> "Ne", Greater |-> "Gt", GreaterEq |-> "Ge",
             Less |-> "Lt", LessEq |-> "Le"]

(* compile_ir.  cs are the trees of a node's nodes.                        *)
RECURSIVE ToCode(_, _)
ToCode(ir, reg) ==
  LET k  == ir.kind
      ty == TypeId(reg, ir.ty)
      cs == [i \in DOMAIN ir.irs |-> ToCode(ir.irs[i], reg)]
  IN
  CASE k = "Int"    -> IntLit(ir.v)
    [] k = "Float"  -> FloatLit(ir.v)
    [] k = "Char"   -> Char(ir.v)
    [] k = "Char32" -> Char32(ir.v)
    [] k \in {"String", "Text"} -> StringLit
    [] k = "Logic"  -> LogicLit(ir.v)
    [] k = "Option" -> IF cs = << >> THEN None(ty) ELSE Some(ty, cs[1])
    [] k = "StoreLocal"   -> SetLocal(ir.v, cs[1])
    [] k = "LoadLocal"    -> GetLocal(ir.v)
    [] k = "StoreGlobal"  -> SetGlobal(ir.v, cs[1])
    [] k = "LoadGlobal"   -> GetGlobal(ir.v)
    [] k = "StoreUpvalue" -> SetUpvalue(ir.v, cs[1])
    [] k = "LoadUpvalue"  -> GetUpvalue(ir.v)
    [] k \in {"Tuple", "MakeStruct"} -> Tuple(ty, cs)
    [] k = "Array"  -> Array(ty, cs)
    [] k = "IndexTuple"        -> IndexTuple(cs[1], ir.v)
    [] k = "SetTupleElement"   -> SetTupleElem(cs[2], ir.v, cs[1])
    [] k = "LoadArrayElement"  -> IndexArray(cs[1], cs[2])
    [] k = "StoreArrayElement" -> SetArrayElem(cs[2], cs[3], cs[1])
    [] k \in {"Add", "Sub", "Mul", "Div"} -> Bin(k, cs[1], cs[2])
    [] k \in {"Neg", "Not"}    -> Unary(k, cs[1])
    [] k = "If"     -> If(ty, cs[1], cs[2], SubSeq(cs, 3, Len(cs)))
    [] k = "CompareChain" ->
         CompareChain(cs[1], [i \in DOMAIN ir.v |-> << OpcodeOf[ir.v[i]], cs[i + 1] >>])
    [] k = "Loop"   -> Loop(cs[1])
    [] k = "Break"  -> Break
    [] k = "Block"  -> Block(cs)
    [] k = "Func"   -> Func(ty, cs[1], ir.v.upvalues, ir.v.void)
    [] k = "Call"   -> Invoke(cs[1], Tail(cs))
    [] k = "Template" ->
         Template([i \in DOMAIN cs |-> IF ir.irs[i].kind = "Text" THEN << >> ELSE << cs[i] >>])
    [] k = "Type"   -> TypeLit(TypeId(reg, ir.v))
    [] k = "Cast"   -> CastTo(ty, cs[1])
    [] k = "GetLength" -> GetLength(cs[1])
    [] k = "Concat" -> ConcatAll(cs)
    [] k = "Unwrap" -> UnwrapOf(cs[1])
    [] k = "MakeObject"       -> NewObject(ty, ir.v, cs)
    [] k = "LoadObjectField"  -> GetField(cs[1], ir.v)
    [] k = "StoreObjectField" -> SetField(cs[2], ir.v, cs[1])
    [] k = "Method" -> Method(cs[1], ir.v[1], ir.v[2])
=============================================================================
