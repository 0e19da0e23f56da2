------------------------------- MODULE Codegen -------------------------------
(***************************************************************************)
(* The bytecode generator, compiler/compiler.rs: from a tree of IR nodes   *)
(* to a program of the stack machine.  Besides the code it keeps           *)
(* op_stack_depth, the generator's idea of how many operands are on the    *)
(* stack, which it stores in every failure handler.                        *)
(*                                                                         *)
(* Type ids, slots and upvalue descriptors are those the earlier phases    *)
(* put into the IR; interning is not modelled here.                        *)
(***************************************************************************)
EXTENDS Integers, Sequences, SequencesExt

In(op, a, b, c) == [op |-> op, a |-> a, b |-> b, c |-> c]

-----------------------------------------------------------------------------
(* The IR.  Most nodes are compiled alike: their operands in order, then   *)
(* one instruction, announced with the change of depth the code gives it.  *)

Node(args, ins, delta) == [n |-> "node", args |-> args, ins |-> ins, delta |-> delta]

IntLit(v)      == Node(<< >>, In("PushInt", v, 0, 0), 1)
FloatLit(z)    == Node(<< >>, In("PushFloat", z, 0, 0), 1)
Char(v)        == Node(<< >>, In("PushChar", v, 0, 0), 1)
Char32(v)      == Node(<< >>, In("PushChar32", v, 0, 0), 1)
StringLit      == Node(<< >>, In("PushString", 0, 0, 0), 1)
LogicLit(b)    == Node(<< >>, In(IF b THEN "PushTrue" ELSE "PushFalse", 0, 0, 0), 1)
None(ty)       == Node(<< >>, In("PushNone", ty, 0, 0), 1)
Some(ty, v)    == Node(<<v>>, In("MakeOption", ty, 0, 0), 0)
TypeLit(ty)    == Node(<< >>, In("PushType", ty, 0, 0), 1)
SetLocal(s, v)   == Node(<<v>>, In("StoreLocal", s, 0, 0), 0)
GetLocal(s)      == Node(<< >>, In("LoadLocal", s, 0, 0), 1)
SetGlobal(s, v)  == Node(<<v>>, In("StoreGlobal", s, 0, 0), 0)
GetGlobal(s)     == Node(<< >>, In("LoadGlobal", s, 0, 0), 1)
SetUpvalue(i, v) == Node(<<v>>, In("StoreUpvalue", i, 0, 0), 0)
GetUpvalue(i)    == Node(<< >>, In("LoadUpvalue", i, 0, 0), 1)
Tuple(ty, es)  == Node(es, In("MakeTuple", ty, Len(es), 0), 1 - Len(es))
Array(ty, es)  == Node(es, In("MakeArray", ty, Len(es), 0), 1 - Len(es))
IndexTuple(t, i)       == Node(<<t>>, In("LoadTupleElement", i, 0, 0), 0)
SetTupleElem(t, i, v)  == Node(<<v, t>>, In("StoreTupleElement", i, 0, 0), -1)
IndexArray(a, i)       == Node(<<a, i>>, In("LoadArrayElement", 0, 0, 0), 0)
SetArrayElem(a, i, v)  == Node(<<v, a, i>>, In("StoreArrayElement", 0, 0, 0), -2)
Bin(op, l, r)  == Node(<<l, r>>, In(op, 0, 0, 0), -1)
Unary(op, v)   == Node(<<v>>, In(op, 0, 0, 0), 0)
Invoke(f, args)  == Node(<<f>> \o args, In("Call", Len(args), 0, 0), -Len(args))
ConcatAll(es)  == Node(es, In("Concat", Len(es), 0, 0), 1 - Len(es))
CastTo(ty, v)  == Node(<<v>>, In("Cast", ty, 0, 0), 0)
GetLength(v)   == Node(<<v>>, In("Len", 0, 0, 0), 0)
UnwrapOf(v)    == Node(<<v>>, In("Unwrap", 0, 0, 0), 0)
GetField(o, i)    == Node(<<o>>, In("LoadObjectField", i, 0, 0), 0)
SetField(o, i, v) == Node(<<v, o>>, In("StoreObjectField", i, 0, 0), -1)
Method(o, c, m)   == Node(<<o>>, In("PushMethod", c, m, 0), 0)

(* rest is a sequence of << comparison opcode, node >>, alt has at most    *)
(* one element, a template's element is << >> for text or << node >>.      *)
CompareChain(head, rest) == [n |-> "chain", head |-> head, rest |-> rest]
If(ty, test, then, alt)  == [n |-> "if", ty |-> ty, test |-> test, then |-> then, alt |-> alt]
Loop(body)       == [n |-> "loop", body |-> body]
Break            == [n |-> "break"]
Block(irs)       == [n |-> "block", irs |-> irs]
Template(elems)  == [n |-> "template", elems |-> elems]
NewObject(ty, class, fields) ==
  [n |-> "object", ty |-> ty, class |-> class, fields |-> fields]
Func(ty, body, upvalues, returnVoid) ==
  [n |-> "func", ty |-> ty, body |-> body, upvalues |-> upvalues,
   returnVoid |-> returnVoid]

-----------------------------------------------------------------------------
(* The state of a Compiler.  loops is loop_ctx_stack: for each open loop   *)
(* the jumps of its breaks; ok turns FALSE where the generator panics.     *)
NewCompiler(base) ==
  [code |-> << >>, handlers |-> << >>, fns |-> << >>, classes |-> << >>,
   depth |-> 0, loops |-> << >>, base |-> base, ok |-> TRUE]

AppendOp(s, ins, delta) ==
  [s EXCEPT !.code = Append(@, ins), !.depth = (@ + delta) % 65536]

MakeClosureOp(s, id) == AppendOp(s, In("MakeClosure", id, 0, 0), 1)

(* Mutant: an if without else has no value when its test fails.            *)
AppendNothing(s, ty) == s

AppendNone(s, ty) == AppendOp(s, In("PushNone", ty, 0, 0), 1)

(* Mutant: the outer if's handler comes first.                             *)
AddHandlerFirst(hs, h) == <<h>> \o hs

AddHandler(hs, h) == Append(hs, h)

(* Mutants: the region takes in the branch; the operands before the test   *)
(* are forgotten; the handler jumps to the test.                           *)
IfHandlerLate(s, test, jmp) ==
  [start |-> Len(s.code), stop |-> Len(jmp.code), target |-> Len(jmp.code),
   depth |-> s.depth]
IfHandlerFlat(s, test, jmp) ==
  [start |-> Len(s.code), stop |-> Len(test.code), target |-> Len(jmp.code), depth |-> 0]
IfHandlerRetry(s, test, jmp) ==
  [start |-> Len(s.code), stop |-> Len(test.code), target |-> Len(s.code),
   depth |-> s.depth]

(* The handler of an if, from the generator before the test, after it, and *)
(* after the branch taken when the test succeeds.                          *)
IfHandler(s, test, jmp) ==
  [start |-> Len(s.code), stop |-> Len(test.code), target |-> Len(jmp.code),
   depth |-> s.depth]

PopOp == In("Pop", 0, 0, 0)
DropTop == Node(<< >>, PopOp, -1)

(* The test of an if leaves nothing, its branch a value or an option.      *)
EndTest(test) == AppendOp(test, PopOp, -1)

EndThen(then, ty, alt) ==
  AppendOp(IF alt # << >> THEN then ELSE AppendOp(then, In("MakeOption", ty, 0, 0), 0),
           In("Jmp", 0, 0, 0), 0)

(* write_u32 patches the jump over the other branch.                       *)
CompileIf(s, test, jmp, alt) ==
  [alt EXCEPT !.code[Len(jmp.code)].a = Len(alt.code),
              !.handlers = AddHandler(@, IfHandler(s, test, jmp))]

(* The comparisons of a chain as one tree: each takes what the one before  *)
(* leaves and the next operand.  Below them a copy of the head stays.      *)
CompileChain(e) ==
  LET Link(t, r) == Node(<<t, r[2]>>, In(r[1], 0, 0, 0), -1)
      head == Node(<<e.head>>, In("Dup", 0, 0, 0), 1)
  IN  Node(<<FoldLeft(Link, head, e.rest)>>, PopOp, -1)

EnterLoop(s) == [s EXCEPT !.loops = Append(@, {})]

(* write_u32 patches the jumps of the loop's breaks.                       *)
CompileLoop(s, body) ==
  LET all   == AppendOp(body, In("Jmp", Len(s.code), 0, 0), 0)
      exits == Last(all.loops)
  IN  [all EXCEPT
         !.code = [pc \in DOMAIN @ |-> IF pc \in exits
                                       THEN [@[pc] EXCEPT !.a = Len(all.code)]
                                       ELSE @[pc]],
         !.loops = Front(@)]

(* Stands for u32::MAX, past the end of every bytecode.                    *)
NoTarget == 999999

CompileBreak(s) ==
  LET jmp == AppendOp(s, In("Jmp", NoTarget, 0, 0), 0)
  IN  IF s.loops = << >> THEN [s EXCEPT !.ok = FALSE]
      ELSE [jmp EXCEPT !.loops[Len(s.loops)] = @ \cup {Len(jmp.code)}]

(* Mutant: no value is dropped.                                            *)
BlockKeepsAll(irs) == irs

(* A block drops every value but the last.                                 *)
CompileBlock(irs) ==
  [i \in 1 .. 2 * Len(irs) - 1 |-> IF i % 2 = 1 THEN irs[(i + 1) \div 2] ELSE DropTop]

(* A function is generated by a Compiler of its own, with an empty class   *)
(* table and numbered from self.functions.len(); body is what that made of *)
(* the function's body.  The result is the outer state and the id.         *)
CompileFunction(s, f, body) ==
  LET child == IF ~f.returnVoid THEN body
               ELSE AppendOp(AppendOp(body, PopOp, -1), In("PushVoid", 0, 0, 0), 1)
      func  == [ty |-> f.ty, code |-> child.code, handlers |-> child.handlers,
                upvalues |-> f.upvalues]
      fns   == s.fns \o child.fns
  IN  << [s EXCEPT !.fns = Append(fns, func), !.ok = @ /\ child.ok],
         s.base + Len(fns) >>

(* Text elements raise the depth twice.                                    *)
CompileTemplate(e) ==
  LET Elem(x) == IF x = << >> THEN Node(<< >>, In("PushString", 0, 0, 0), 2)
                 ELSE Node(x, In("ToString", 0, 0, 0), 0)
  IN  ConcatAll([i \in DOMAIN e.elems |-> Elem(e.elems[i])])

(* The methods' closures raise the depth and MakeObject does not lower it. *)
CompileObject(s, e) ==
  LET ids     == s.classes[e.class + 1]
      methods == [m \in DOMAIN ids |-> Node(<< >>, In("MakeClosure", ids[m], 0, 0), 1)]
      n       == Len(e.fields)
  IN  Node(e.fields \o methods, In("MakeObject", e.ty, n, Len(methods)), 1 - n)

RECURSIVE Gen(_, _)
Gen(s, ir) ==
  CASE ir.n = "node"  -> AppendOp(FoldLeft(Gen, s, ir.args), ir.ins, ir.delta)
    [] ir.n = "chain" -> Gen(s, CompileChain(ir))
    [] ir.n = "block" -> FoldLeft(Gen, s, CompileBlock(ir.irs))
    [] ir.n = "template" -> Gen(s, CompileTemplate(ir))
    [] ir.n = "object" -> IF ir.class < Len(s.classes) THEN Gen(s, CompileObject(s, ir))
                          ELSE [s EXCEPT !.ok = FALSE]
    [] ir.n = "if" ->
         LET test == EndTest(Gen(s, ir.test))
             jmp  == EndThen(Gen(test, ir.then), ir.ty, ir.alt)
             alt  == IF ir.alt # << >> THEN Gen(jmp, ir.alt[1]) ELSE AppendNone(jmp, ir.ty)
         IN  CompileIf(s, test, jmp, alt)
    [] ir.n = "loop"  -> CompileLoop(s, Gen(EnterLoop(s), ir.body))
    [] ir.n = "break" -> CompileBreak(s)
    [] ir.n = "func"  ->
         LET f == CompileFunction(s, ir, Gen(NewCompiler(Len(s.fns)), ir.body))
         IN  MakeClosureOp(f[1], f[2])

(* classes is a sequence of sequences of Func nodes, the methods.          *)
CompileClasses(s, classes) ==
  LET Added(acc, r) == <<r[1], Append(acc[2], r[2])>>
      Add(acc, f) ==
        Added(acc, CompileFunction(acc[1], f, Gen(NewCompiler(Len(acc[1].fns)), f.body)))
      Class(r) == [r[1] EXCEPT !.classes = Append(@, r[2])]
  IN  FoldLeft(LAMBDA t, ms : Class(FoldLeft(Add, <<t, << >> >>, ms)), s, classes)

CompileRoot(classes, irs) ==
  LET Item(s, ir) == AppendOp(Gen(s, ir), PopOp, -1)
  IN  FoldLeft(Item, CompileClasses(NewCompiler(0), classes), irs)

(* The root code becomes the last function.                                *)
ProgramOf(s) ==
  [functions |-> Append(s.fns, [ty |-> 0, code |-> s.code,
                                handlers |-> s.handlers, upvalues |-> << >>]),
   classes   |-> s.classes,
   entry     |-> Len(s.fns)]

(* The whole compilation.                                                  *)
Compile(classes, irs) == ProgramOf(CompileRoot(classes, irs))

CompilerPanics(classes, irs) == ~CompileRoot(classes, irs).ok
=============================================================================
