------------------------------- MODULE TypedIr -------------------------------
(***************************************************************************)
(* TypeInfo of core/types.rs and the IR of compiler/ir.rs, with what the   *)
(* analyzer asks of them.  A type is a tuple that begins with its variant; *)
(* a node of the IR has a kind, a type, what the kind has besides nodes    *)
(* (a slot, an index, a number, ...), and nodes in the order they are      *)
(* evaluated.                                                              *)
(***************************************************************************)
EXTENDS Integers, Sequences, SequencesExt

Prim(name)         == <<name>>
OptionType(t)      == <<"option", t>>
TupleType(ts)      == <<"tuple", ts>>
ArrayType(t)       == <<"array", t>>
StructType(id)     == <<"struct", id>>
ClassType(id)      == <<"class", id>>
FunctionType(params, ret) == <<"function", params, ret>>
MetaType(t)        == <<"type", t>>
Unknown            == <<"unknown">>

RECURSIVE IsComplete(_)
IsComplete(t) ==
  CASE t = Unknown -> FALSE
    [] t[1] \in {"option", "array", "type"} -> IsComplete(t[2])
    [] t[1] = "tuple" -> \A i \in DOMAIN t[2] : IsComplete(t[2][i])
    [] t[1] = "function" -> /\ \A i \in DOMAIN t[2] : IsComplete(t[2][i])
                            /\ IsComplete(t[3])
    [] OTHER -> TRUE

(* Mutant: options match whatever is in them.                              *)
MatchLoosely(src, dst) ==
  CASE dst = Prim("any") -> [ok |-> TRUE, dst |-> dst]
    [] dst = Unknown -> [ok |-> TRUE, dst |-> src]
    [] OTHER -> [ok |-> src = dst \/ (src[1] = "option" /\ dst[1] = "option"), dst |-> dst]

(* try_to_make_type_match: whether src is good for dst, and what dst is    *)
(* then: an unknown type is inferred.                                      *)
RECURSIVE TryMatch(_, _)
TryMatch(src, dst) ==
  CASE dst = Prim("any") -> [ok |-> TRUE, dst |-> dst]
    [] dst = Unknown -> [ok |-> TRUE, dst |-> src]
    [] src[1] = "option" /\ dst[1] = "option" ->
         LET r == TryMatch(src[2], dst[2]) IN [r EXCEPT !.dst = OptionType(@)]
    [] OTHER -> [ok |-> src = dst, dst |-> dst]

-----------------------------------------------------------------------------
Ir(kind, ty, v, irs) == [kind |-> kind, ty |-> ty, v |-> v, irs |-> irs]

(* An if without alternate has two nodes, an option without value none.    *)
HasAlternate(ir) == Len(ir.irs) = 3

AlwaysFallible == {"Cast", "Div", "CompareChain", "LoadArrayElement",
                   "StoreArrayElement", "Unwrap"}
NeverFallible == {"IndexTuple", "LoadObjectField", "Method"}

(* IrKind::is_fallible.  A call is as fallible as its callee, and a        *)
(* function as its effects say; a store as what it stores.                 *)
RECURSIVE IsFallible(_)
IsFallible(ir) ==
  CASE ir.kind \in AlwaysFallible -> TRUE
    [] ir.kind \in NeverFallible -> FALSE
    [] ir.kind = "Func" -> ir.v.decides
    [] ir.kind \in {"Call", "SetTupleElement", "StoreObjectField"} -> IsFallible(ir.irs[1])
    [] OTHER -> \E i \in DOMAIN ir.irs : IsFallible(ir.irs[i])

(* flatten_add_ir                                                          *)
RECURSIVE Summands(_)
Summands(ir) ==
  IF ir.kind = "Add" THEN Summands(ir.irs[1]) \o Summands(ir.irs[2]) ELSE <<ir>>
=============================================================================
