------------------------------- MODULE VerseVm -------------------------------
(***************************************************************************)
(* The stack machine of vm/mod.rs.  A step is one iteration of the loop in *)
(* Vm::run: the machine fetches one instruction of the top frame, executes *)
(* it, and if that raised a failure unwinds to the handler that catches    *)
(* it, all before the next iteration.                                      *)
(*                                                                         *)
(* The program that runs is chosen among Programs by Init.  Its numbers    *)
(* (pcs, slots, function, class and type ids) count from 0 as in the code; *)
(* an instruction with its operands is one unit of pc.  A panic of the     *)
(* interpreter (a failed unwrap, index, assert!, unreachable! or           *)
(* unimplemented!) ends in status "panic".                                 *)
(***************************************************************************)
EXTENDS VmValues

CONSTANTS
  Programs,    (* the programs the machine may be given                    *)
  MaxFrames,   (* the frame limit of Vm::run, 100 in the code              *)
  MaxTextLen   (* bound of the model: strings are this long at most        *)

(* An instruction; a, b, c are its operands in the order of the bytecode.  *)
(* Only the int that PushInt fetches from the constants may be negative.   *)
Instr == {i \in [op : STRING, a : Int, b : Nat, c : Nat] :
            i.op # "PushInt" => i.a \in Nat}

Handler == [start : Nat, stop : Nat, target : Nat, depth : Nat]

(* ty is Function::type_id; an upvalue descriptor is EnclosingLocal.       *)
Function == [ty : Nat, code : Seq(Instr), handlers : Seq(Handler),
             upvalues : Seq([depth : Nat, slot : Nat])]

(* A class is the sequence of its methods' function ids.                   *)
Program == [functions : Seq(Function), classes : Seq(Seq(Nat)), entry : Nat]

ASSUME ProgramsAssumption ==
  \A p \in Programs : p \in Program /\ p.entry < Len(p.functions)

ASSUME BoundsAssumption == MaxFrames \in Nat /\ MaxTextLen \in Nat

VARIABLES
  program,   (* functions and classes: constant during the run             *)
  stack,     (* Vm::stack, the operands                                    *)
  locals,    (* Vm::locals, the globals and every frame's variables        *)
  frames,    (* Vm::frames                                                 *)
  heap,      (* Vm::heap and everything else Rust allocates for values     *)
  cells,     (* the Upvalue cells, by name                                 *)
  status     (* "running", or how Vm::run ended                            *)

vars == <<program, stack, locals, frames, heap, cells, status>>

FuncIds == 0 .. Len(program.functions) - 1
Fun(f)  == program.functions[f + 1]

(* Upvalue::Open { stack_index } and Upvalue::Closed(obj_id).  The object  *)
(* of a closed cell is reached through the cell only, so the cell holds    *)
(* the value itself.                                                       *)
OpenCell(i)   == [open |-> TRUE, at |-> i, val |-> Void]
ClosedCell(v) == [open |-> FALSE, at |-> 0, val |-> v]
Cell == [open : BOOLEAN, at : Nat, val : Value]

Frame(fns, ids) ==
  [func : fns, localBase : Nat, stackBase : Nat, pc : Nat,
   captures : SUBSET ids, upvalues : Seq(ids)]

TypeOK ==
  /\ program \in Program
  /\ stack \in Seq(Value)
  /\ locals \in Seq(Value)
  /\ DOMAIN cells \subseteq CellId
  /\ cells \in [DOMAIN cells -> Cell]
  /\ heap \in Seq(Obj(FuncIds, DOMAIN cells))
  /\ frames \in Seq(Frame(FuncIds, DOMAIN cells))
  /\ status \in {"running", "done", "failed", "panic"}

(* global_vars::install: the eight type names and Print, in slots 0 to 8.  *)
PrintSlot == 8
GlobalTypes == << "int", "float", "logic", "char", "char32", "string", "any",
                  "void" >>
Globals ==
  [i \in 1 .. 9 |-> IF i <= 8 THEN [k |-> "type", v |-> PredefinedType[GlobalTypes[i]]]
                    ELSE Handle("ref", 1)]

(* The id of Print's type: the first one interned after the program's.     *)
PrintType == 99

NewFrame(f, lbase, sbase, up) ==
  [func |-> f, localBase |-> lbase, stackBase |-> sbase, pc |-> 0,
   captures |-> {}, upvalues |-> up]

Init ==
  /\ program \in Programs
  /\ stack = << >>
  /\ locals = Globals
  /\ frames = << NewFrame(program.entry, 0, 0, << >>) >>
  /\ heap = << Plain("native", PrintType, << >>) >>
  /\ cells = << >>
  /\ status = "running"

-----------------------------------------------------------------------------
(* Reading the state.                                                      *)

Top  == frames[Len(frames)]
Code == Fun(Top.func).code
Ins  == Code[Top.pc + 1]

(* The n-th operand from the top, counting from 0.                         *)
Operand(n) == stack[Len(stack) - n]
(* The last n operands, in the order they were pushed.                     *)
Operands(n) == SubSeq(stack, Len(stack) - n + 1, Len(stack))
Below(n)    == SubSeq(stack, 1, Len(stack) - n)

(* The type id Cast compares (exec_cast), after resolve_ref.               *)
TypeOf(v) ==
  CASE v.k \in {"void", "int", "float", "char", "char32", "logic", "string"}
         -> PredefinedType[v.k]
    [] v.k \in {"type", "none"} -> v.v
    [] OTHER -> IF heap[v.v].k = "string" THEN PredefinedType.string
                ELSE heap[v.v].ty

IsObj(v, k) == v.k = "ref" /\ v.v \in DOMAIN heap /\ heap[v.v].k = k

IsText(v) == v.k = "string" \/ IsObj(v, "string")

(* A handle leads to an object; Rust's Box and Rc always do, and heap      *)
(* indexes a Vec.                                                          *)
Fetchable(v) == v.k \in Handles => v.v \in DOMAIN heap

IsTuple(v) == v.k = "tuple" /\ v.v \in DOMAIN heap

(* Value::to_string, on what resolve_ref finds.                            *)
Printable(v) ==
  \/ v.k \in {"int", "float", "char", "char32", "string"}
  \/ IsObj(v, "array") \/ IsObj(v, "string")

(* exec_call's callee: a function object or a method.                      *)
IsCallee(v) ==
  \/ IsObj(v, "function") \/ IsObj(v, "native")
  \/ v.k = "method" /\ v.v \in DOMAIN heap

ClassMethod(c, m) ==
  /\ c < Len(program.classes)
  /\ m < Len(program.classes[c + 1])
  /\ program.classes[c + 1][m + 1] \in FuncIds

(* set_stack_value appends or overwrites, and leaves no gap.               *)
Storable(index) == index <= Len(locals)

(* Mutant: every descriptor names the running frame.                       *)
TopFrame(d) == Len(frames)

(* The frame a descriptor names is counted back from the running one.      *)
UpFrame(d) == Len(frames) - d.depth + 1

(***************************************************************************)
(* What an instruction demands of the state: where this fails, an unwrap,  *)
(* an index or an unimplemented!() of its exec function panics.            *)
(***************************************************************************)
Ready(i) ==
  LET n    == Len(stack)
      top  == Operand(0)
      snd  == Operand(1)
  IN
  CASE i.op \in {"PushVoid", "PushInt", "PushFloat", "PushChar", "PushChar32",
                 "PushString", "PushTrue", "PushFalse", "PushNone", "PushType",
                 "Pop", "Jmp"} -> TRUE
    [] i.op \in {"Dup", "MakeOption"} -> n >= 1
    [] i.op = "Cast"        -> n >= 1 /\ Fetchable(top)
    [] i.op = "PushMethod"  -> n >= 1 /\ ClassMethod(i.a, i.b)
    [] i.op = "StoreLocal"  -> n >= 1 /\ Storable(Top.localBase + i.a)
    [] i.op = "StoreGlobal" -> n >= 1 /\ Storable(i.a)
    [] i.op = "LoadLocal"   -> Top.localBase + i.a < Len(locals)
    [] i.op = "LoadGlobal"  -> i.a < Len(locals)
    [] i.op \in {"LoadUpvalue", "StoreUpvalue"} ->
         /\ i.op = "StoreUpvalue" => n >= 1
         /\ i.a < Len(Top.upvalues)
         /\ LET c == cells[Top.upvalues[i.a + 1]] IN c.open => c.at < Len(locals)
    [] i.op \in {"MakeTuple", "MakeArray"} -> n >= i.b
    [] i.op = "MakeClosure" ->
         /\ i.a \in FuncIds
         /\ \A k \in DOMAIN Fun(i.a).upvalues :
              Fun(i.a).upvalues[k].depth \in 1 .. Len(frames)
    [] i.op = "MakeObject"  -> n >= i.b + i.c
    [] i.op = "LoadObjectField"  ->
         n >= 1 /\ IsObj(top, "object") /\ i.a < Len(heap[top.v].elems)
    [] i.op = "StoreObjectField" ->
         n >= 2 /\ IsObj(top, "object") /\ i.a < Len(heap[top.v].elems)
    [] i.op = "LoadTupleElement"  ->
         n >= 1 /\ IsTuple(top) /\ i.a < Len(heap[top.v].elems)
    [] i.op = "StoreTupleElement" ->
         n >= 2 /\ IsTuple(top) /\ i.a < Len(heap[top.v].elems)
    [] i.op = "LoadArrayElement"  ->
         n >= 1 /\ top.k = "int" /\ (top.v >= 0 => n >= 2 /\ IsObj(snd, "array"))
    [] i.op = "StoreArrayElement" ->
         n >= 3 /\ top.k = "int" /\ IsObj(snd, "array")
    [] i.op \in {"Add", "Sub", "Mul"} -> n >= 2 /\ Arithmetic(i.op, snd, top)
    [] i.op = "Div" ->
         n >= 2 /\ top.k \in {"int", "float"} /\ (~IsZero(top) => Divisible(snd, top))
    [] i.op = "Neg" -> n >= 1 /\ Negatable(top)
    [] i.op = "Not" -> n >= 1 /\ top.k = "logic"
    [] i.op \in CompareOps -> n >= 2 /\ snd.k = "int" /\ top.k = "int"
    [] i.op = "Call"     -> n >= i.a + 1 /\ IsCallee(Operand(i.a))
    [] i.op = "ToString" -> n >= 1 /\ Printable(top)
    [] i.op = "Concat"   -> n >= i.a /\ \A j \in 1 .. i.a : IsText(Operands(i.a)[j])
    [] i.op = "Len"      -> n >= 1 /\ (IsText(top) \/ IsObj(top, "array"))
    [] i.op = "Unwrap"   -> n >= 1 /\ top.k \in {"some", "none"} /\ Fetchable(top)
    [] OTHER -> FALSE

(* The loop goes on: no frame limit hit, and a frame to run.               *)
Live == status = "running" /\ frames # << >> /\ Len(frames) <= MaxFrames

Fetched == Live /\ Top.pc < Len(Code)

Can(op) == Fetched /\ Ins.op = op /\ Ready(Ins)

-----------------------------------------------------------------------------
(* Changing the state.                                                     *)

Advance == frames' = [frames EXCEPT ![Len(frames)].pc = @ + 1]

(* Replace the last n operands by vs and go to the next instruction.       *)
Replace(n, vs) ==
  /\ stack' = Below(n) \o vs
  /\ Advance
  /\ UNCHANGED <<program, status>>

Truncate(s, n) == SubSeq(s, 1, IF n < Len(s) THEN n ELSE Len(s))

(* set_stack_value for a Storable index.                                   *)
SetSlot(index, v) ==
  IF index < Len(locals) THEN [locals EXCEPT ![index + 1] = v]
                         ELSE Append(locals, v)

(* Mutant: copy_value shares the Rc.                                       *)
SharedCopy(v) == <<v, heap>>

(* The copy of v that a store holds, and the heap with it.                 *)
CopyOf(v) == CopyValue[Len(heap)][<<v, heap>>]

(***************************************************************************)
(* A failure: the loop looks, from the top frame down, for a frame with a  *)
(* handler whose region contains the frame's pc, takes the first one in    *)
(* the frame's table, and drops the frames above it.  The pc is that of    *)
(* the next instruction, for the failed one has been read; n operands had  *)
(* been popped.  Dropped frames close no captures and keep their locals.   *)
(***************************************************************************)
GuardedBy(i) ==
  LET pc == IF i = Len(frames) THEN frames[i].pc + 1 ELSE frames[i].pc
      hs == Fun(frames[i].func).handlers
  IN  {h \in DOMAIN hs : hs[h].start <= pc /\ pc < hs[h].stop}

Catching == {i \in DOMAIN frames : GuardedBy(i) # {}}

(* Mutant: the depth is taken from the bottom of the stack.                *)
DepthFromBottom(i, handler) == handler.depth

DepthAt(i, handler) == frames[i].stackBase + handler.depth

Unwind(n, i, handler) ==
  /\ frames' = [SubSeq(frames, 1, i) EXCEPT ![i].pc = handler.target]
  /\ stack' = Truncate(Below(n), DepthAt(i, handler))
  /\ UNCHANGED <<program, status>>

Caught(n) ==
  \E i \in Catching :
    /\ \A j \in Catching : j <= i
    /\ \E h \in GuardedBy(i) :
         /\ \A g \in GuardedBy(i) : h <= g
         /\ Unwind(n, i, Fun(frames[i].func).handlers[h])

Uncaught ==
  /\ Catching = {}
  /\ frames' = << >>
  /\ stack' = << >>
  /\ status' = "failed"
  /\ UNCHANGED program

Fail(n) == (Caught(n) \/ Uncaught) /\ UNCHANGED <<locals, heap, cells>>

-----------------------------------------------------------------------------
(* The instructions.                                                       *)

ConstOps == {"PushVoid", "PushInt", "PushFloat", "PushChar", "PushChar32",
             "PushTrue", "PushFalse", "PushNone", "PushType"}

Literal(i) ==
  CASE i.op = "PushVoid"   -> Void
    [] i.op = "PushInt"    -> IntV(i.a)
    [] i.op = "PushFloat"  -> Float(i.a)
    [] i.op = "PushChar"   -> [k |-> "char", v |-> i.a]
    [] i.op = "PushChar32" -> [k |-> "char32", v |-> i.a]
    [] i.op = "PushTrue"   -> Logic(1)
    [] i.op = "PushFalse"  -> Logic(0)
    [] i.op = "PushNone"   -> [k |-> "none", v |-> i.a]
    [] OTHER               -> [k |-> "type", v |-> i.a]

PushConst ==
  /\ Fetched /\ Ins.op \in ConstOps
  /\ Replace(0, << Literal(Ins) >>)
  /\ UNCHANGED <<locals, heap, cells>>

(* Mutant: the handle names the object before.                             *)
AllocateBefore(n, k, obj) ==
  /\ heap' = Append(heap, obj)
  /\ Replace(n, << Handle(k, Len(heap)) >>)
  /\ UNCHANGED <<locals, cells>>

(* Pop n operands and push a new object made of them, named by kind k.     *)
Allocate(n, k, obj) ==
  /\ heap' = Append(heap, obj)
  /\ Replace(n, << Handle(k, Len(heap) + 1) >>)
  /\ UNCHANGED <<locals, cells>>

PushString ==
  Can("PushString") /\ Allocate(0, "ref", Plain("string", PredefinedType.string, << >>))

PushMethod ==
  /\ Can("PushMethod")
  /\ LET f == program.classes[Ins.a + 1][Ins.b + 1]
     IN  Allocate(1, "method", Callable("method", Fun(f).ty, Operands(1), f, << >>))

StoreLocal ==
  /\ Can("StoreLocal")
  /\ locals' = SetSlot(Top.localBase + Ins.a, CopyOf(Operand(0))[1])
  /\ heap' = CopyOf(Operand(0))[2]
  /\ Replace(0, << >>)
  /\ UNCHANGED cells

LoadLocal ==
  /\ Can("LoadLocal")
  /\ Replace(0, << locals[Top.localBase + Ins.a + 1] >>)
  /\ UNCHANGED <<locals, heap, cells>>

StoreGlobal ==
  /\ Can("StoreGlobal")
  /\ locals' = SetSlot(Ins.a, CopyOf(Operand(0))[1])
  /\ heap' = CopyOf(Operand(0))[2]
  /\ Replace(0, << >>)
  /\ UNCHANGED cells

LoadGlobal ==
  /\ Can("LoadGlobal")
  /\ Replace(0, << locals[Ins.a + 1] >>)
  /\ UNCHANGED <<locals, heap, cells>>

Upvalue == Top.upvalues[Ins.a + 1]

StoreUpvalue ==
  /\ Can("StoreUpvalue")
  /\ LET c == CopyOf(Operand(0))
     IN  /\ heap' = c[2]
         /\ IF cells[Upvalue].open
            THEN /\ locals' = [locals EXCEPT ![cells[Upvalue].at + 1] = c[1]]
                 /\ UNCHANGED cells
            ELSE /\ cells' = [cells EXCEPT ![Upvalue].val = c[1]]
                 /\ UNCHANGED locals
  /\ Replace(0, << >>)

LoadUpvalue ==
  /\ Can("LoadUpvalue")
  /\ Replace(0, << IF cells[Upvalue].open THEN locals[cells[Upvalue].at + 1]
                                          ELSE cells[Upvalue].val >>)
  /\ UNCHANGED <<locals, heap, cells>>

MakeOption ==
  Can("MakeOption") /\ Allocate(1, "some", Plain("some", Ins.a, Operands(1)))

MakeTuple ==
  Can("MakeTuple") /\ Allocate(Ins.b, "tuple", Plain("tuple", Ins.a, Operands(Ins.b)))

MakeArray ==
  Can("MakeArray") /\ Allocate(Ins.b, "ref", Plain("array", Ins.a, Operands(Ins.b)))

(* The object's method closures, its last c operands, are kept but never   *)
(* read again: PushMethod goes by class.                                   *)
MakeObject ==
  /\ Can("MakeObject")
  /\ Allocate(Ins.b + Ins.c, "ref",
              Plain("object", Ins.a, SubSeq(Operands(Ins.b + Ins.c), 1, Ins.b)))

(* The cell for a descriptor: the one the frame it names has captured for  *)
(* that index, or a new one.                                               *)
UpIndex(d)  == frames[UpFrame(d)].localBase + d.slot
Captured(d) == {c \in frames[UpFrame(d)].captures : cells[c] = OpenCell(UpIndex(d))}

(* Mutant: no look for a cell that is there.                               *)
NewCellFor(d) == <<Len(heap) + 1, UpFrame(d), UpIndex(d)>>

CellFor(d) ==
  IF Captured(d) # {} THEN CHOOSE c \in Captured(d) : TRUE
                      ELSE <<Len(heap) + 1, UpFrame(d), UpIndex(d)>>

MakeClosure ==
  /\ Can("MakeClosure")
  /\ LET ds == Fun(Ins.a).upvalues
         up == [k \in DOMAIN ds |-> CellFor(ds[k])]
         By(j) == {up[k] : k \in {l \in DOMAIN ds : UpFrame(ds[l]) = j}}
     IN  /\ cells' = [c \in DOMAIN cells \cup {up[k] : k \in DOMAIN ds} |->
                        IF c \in DOMAIN cells THEN cells[c] ELSE OpenCell(c[3])]
         /\ frames' = [j \in DOMAIN frames |->
                         [frames[j] EXCEPT
                            !.captures = @ \cup By(j),
                            !.pc = IF j = Len(frames) THEN @ + 1 ELSE @]]
         /\ heap' = Append(heap, Callable("function", Fun(Ins.a).ty, << >>, Ins.a, up))
         /\ stack' = Append(stack, Handle("ref", Len(heap) + 1))
  /\ UNCHANGED <<program, locals, status>>

(* LoadTupleElement and LoadObjectField share their shape: the operand's   *)
(* object gives up one element.                                            *)
LoadElement ==
  /\ Can("LoadTupleElement") \/ Can("LoadObjectField")
  /\ Replace(1, << heap[Operand(0).v].elems[Ins.a + 1] >>)
  /\ UNCHANGED <<locals, heap, cells>>

(* Mutant: the value is added at the end.                                  *)
AddElement(h, o, i, v) == [h EXCEPT ![o].elems = Append(@, v)]

WriteElement(h, o, i, v) == [h EXCEPT ![o].elems[i + 1] = v]

(* Pops the target and overwrites an element by a copy of the value below. *)
StoreElement ==
  /\ Can("StoreTupleElement") \/ Can("StoreObjectField")
  /\ LET c == CopyOf(Operand(1))
     IN  heap' = WriteElement(c[2], Operand(0).v, Ins.a, c[1])
  /\ Replace(1, << >>)
  /\ UNCHANGED <<locals, cells>>

(* A negative index fails before the array is popped.                      *)
LoadArrayElement ==
  /\ Can("LoadArrayElement")
  /\ LET i  == Operand(0).v
         es == heap[Operand(1).v].elems
     IN  IF i < 0 THEN Fail(1)
         ELSE IF i >= Len(es) THEN Fail(2)
         ELSE Replace(2, << es[i + 1] >>) /\ UNCHANGED <<locals, heap, cells>>

StoreArrayElement ==
  /\ Can("StoreArrayElement")
  /\ LET i == Operand(0).v
         o == Operand(1).v
         c == CopyOf(Operand(2))
     IN  IF 0 <= i /\ i < Len(heap[o].elems)
         THEN /\ heap' = WriteElement(c[2], o, i, c[1])
              /\ Replace(2, << >>)
              /\ UNCHANGED <<locals, cells>>
         ELSE Fail(2)

ArithOp ==
  /\ \E op \in {"Add", "Sub", "Mul"} :
       Can(op) /\ \E r \in ArithResults(op, Operand(1), Operand(0)) : Replace(2, <<r>>)
  /\ UNCHANGED <<locals, heap, cells>>

Div ==
  /\ Can("Div")
  /\ IF IsZero(Operand(0)) THEN Fail(2)
     ELSE /\ \E r \in DivResults(Operand(1), Operand(0)) : Replace(2, <<r>>)
          /\ UNCHANGED <<locals, heap, cells>>

Neg == Can("Neg") /\ Replace(1, << Negated(Operand(0)) >>) /\ UNCHANGED <<locals, heap, cells>>

Not == Can("Not") /\ Replace(1, << Logic(1 - Operand(0).v) >>) /\ UNCHANGED <<locals, heap, cells>>

Dup == Can("Dup") /\ Replace(0, << Operand(0) >>) /\ UNCHANGED <<locals, heap, cells>>

(* exec_pop does not unwrap: on an empty stack it does nothing.            *)
Pop == Can("Pop") /\ Replace(1, << >>) /\ UNCHANGED <<locals, heap, cells>>

(* Leaves the right operand, for the next link of a comparison chain.      *)
Compare ==
  \E op \in CompareOps :
    /\ Can(op)
    /\ IF Holds(op, Operand(1).v, Operand(0).v)
       THEN Replace(2, << Operand(0) >>) /\ UNCHANGED <<locals, heap, cells>>
       ELSE Fail(2)

Jmp ==
  /\ Can("Jmp")
  /\ frames' = [frames EXCEPT ![Len(frames)].pc = Ins.a]
  /\ UNCHANGED <<program, stack, locals, heap, cells, status>>

(* The arguments become the callee's first locals, as they are: no copy.   *)
Call ==
  /\ Can("Call")
  /\ LET f == heap[Operand(Ins.a).v]
     IN  /\ f.k # "native"
         /\ frames' = Append([frames EXCEPT ![Len(frames)].pc = @ + 1],
                             NewFrame(f.fn, Len(locals), Len(stack) - Ins.a - 1, f.up))
         /\ locals' = locals \o Operands(Ins.a)
         /\ stack' = Below(Ins.a + 1)
  /\ UNCHANGED <<program, heap, cells, status>>

(* Print, the one native function, sets no result: Void is pushed.         *)
CallNative ==
  /\ Can("Call") /\ heap[Operand(Ins.a).v].k = "native"
  /\ Replace(Ins.a + 1, << Void >>)
  /\ UNCHANGED <<locals, heap, cells>>

(* The text becomes a Value::String, not a heap object.                    *)
ToText == Can("ToString") /\ Replace(1, << Str >>) /\ UNCHANGED <<locals, heap, cells>>

Concat ==
  Can("Concat") /\ Allocate(Ins.a, "ref", Plain("string", PredefinedType.string, << >>))

Cast ==
  /\ Can("Cast")
  /\ IF TypeOf(Operand(0)) = Ins.a
     THEN Replace(0, << >>) /\ UNCHANGED <<locals, heap, cells>>
     ELSE Fail(0)

LenOp ==
  /\ Can("Len")
  /\ \E n \in IF IsText(Operand(0)) THEN 0 .. MaxTextLen
                                    ELSE {Len(heap[Operand(0).v].elems)} :
       Replace(1, << IntV(n) >>)
  /\ UNCHANGED <<locals, heap, cells>>

Unwrap ==
  /\ Can("Unwrap")
  /\ IF Operand(0).k = "some"
     THEN Replace(1, heap[Operand(0).v].elems) /\ UNCHANGED <<locals, heap, cells>>
     ELSE Fail(1)

-----------------------------------------------------------------------------
(* Around the instructions: the rest of Vm::run.                           *)

(* close_captures indexes locals.                                          *)
Closable ==
  \A c \in Top.captures : cells[c].open => cells[c].at < Len(locals)

(* Mutant: the frame's first slot is left out.                             *)
ClosesInner(c) == c \in Top.captures /\ cells[c].open /\ cells[c].at > Top.localBase

(* Mutant: the captured variables of every frame.                          *)
ClosesAll(c) == cells[c].open

Closes(c) == c \in Top.captures /\ cells[c].open

(* Mutants: a cell ends with its frame; its index is taken to be the       *)
(* frame's.                                                                *)
CloseForGood == [c \in {d \in DOMAIN cells : ~Closes(d)} |-> cells[c]]
CloseRelative ==
  [c \in DOMAIN cells |->
     IF Closes(c) THEN ClosedCell(locals[cells[c].at - Top.localBase + 1]) ELSE cells[c]]

(* The frame's captured variables move from locals into their cells.       *)
CloseCaptures ==
  [c \in DOMAIN cells |->
     IF Closes(c) THEN ClosedCell(locals[cells[c].at + 1]) ELSE cells[c]]

AtEnd == Live /\ Top.pc >= Len(Code)

(* The bytecode is at its end: the frame's captures are closed, its locals *)
(* dropped.                                                                *)
Return ==
  /\ AtEnd /\ Closable
  /\ cells' = CloseCaptures
  /\ locals' = Truncate(locals, Top.localBase)
  /\ frames' = SubSeq(frames, 1, Len(frames) - 1)
  /\ UNCHANGED <<program, stack, heap, status>>

(* An instruction that is not ready, a capture that cannot be closed, or   *)
(* the frame limit.                                                        *)
Stuck ==
  IF Fetched THEN ~Ready(Ins) ELSE IF AtEnd THEN ~Closable
  ELSE Len(frames) > MaxFrames

Panic ==
  /\ status = "running" /\ Stuck
  /\ status' = "panic"
  /\ UNCHANGED <<program, stack, locals, frames, heap, cells>>

(* No frame left: run asserts that no operand is.                          *)
Finish ==
  /\ status = "running" /\ frames = << >>
  /\ status' = IF stack = << >> THEN "done" ELSE "panic"
  /\ UNCHANGED <<program, stack, locals, frames, heap, cells>>

Ended == status # "running" /\ UNCHANGED vars

Next ==
  \/ PushConst \/ PushString \/ PushMethod
  \/ StoreLocal \/ LoadLocal \/ StoreGlobal \/ LoadGlobal
  \/ StoreUpvalue \/ LoadUpvalue
  \/ MakeOption \/ MakeTuple \/ MakeArray \/ MakeClosure \/ MakeObject
  \/ LoadElement \/ StoreElement \/ LoadArrayElement \/ StoreArrayElement
  \/ ArithOp \/ Div \/ Neg \/ Not \/ Dup \/ Pop \/ Compare
  \/ Jmp \/ Call \/ CallNative \/ ToText \/ Concat \/ Cast \/ LenOp \/ Unwrap
  \/ Return \/ Panic \/ Finish \/ Ended

(* run is a loop: as long as an iteration can happen, one does.            *)
Spec == Init /\ [][Next]_vars /\ WF_vars(Next)

-----------------------------------------------------------------------------
(* Properties of the machine, whatever bytecode it runs.                   *)

(* A variable captured by a live frame is in locals, in the part of the    *)
(* frame that captured it: close_captures finds every capture open and     *)
(* Return drops the slot it closes.  No two live captures share a cell or, *)
(* in one frame, a slot, so none is boxed twice (box_local) and none of    *)
(* two closures over one variable sees a variable of its own.              *)
CapturesInv ==
  /\ \A i \in DOMAIN frames : \A c \in frames[i].captures :
       cells[c].open /\ cells[c].at >= frames[i].localBase
  /\ \A i, j \in DOMAIN frames :
       i # j => frames[i].captures \cap frames[j].captures = {}
  /\ \A i \in DOMAIN frames : \A c, d \in frames[i].captures :
       cells[c].at = cells[d].at => c = d

(* What a captured variable holds, and whether the next instruction stores *)
(* into it.                                                                *)
CellValue(c) == IF cells[c].open THEN locals[cells[c].at + 1] ELSE cells[c].val

Writes(c) ==
  /\ Fetched
  /\ LET index == CASE Ins.op = "StoreLocal"  -> Top.localBase + Ins.a
                    [] Ins.op = "StoreGlobal" -> Ins.a
                    [] Ins.op = "StoreUpvalue" /\ cells[Upvalue].open -> cells[Upvalue].at
                    [] OTHER -> -1
     IN  \/ cells[c].open /\ cells[c].at = index
         \/ Ins.op = "StoreUpvalue" /\ Upvalue = c

(* A captured variable, in locals while its frame lives and in its cell    *)
(* afterwards, keeps its value through every step that does not store into *)
(* it: calls, returns, the closing of upvalues and stores to others.  The  *)
(* slot of a variable captured before its first assignment is not there    *)
(* yet.                                                                    *)
CapturedValuesKept ==
  [][\A c \in DOMAIN cells :
       (cells[c].open => cells[c].at < Len(locals)) /\ ~Writes(c)
         => CellValue(c)' = CellValue(c)]_vars

(* No step but a return drops a frame that has captures: failure unwinds   *)
(* such a frame without closing them.                                      *)
UnwindsNone ==
  ~Return => \A i \in DOMAIN frames \ DOMAIN frames' : frames[i].captures = {}

CapturersNotUnwound == [][UnwindsNone]_vars

(* An open cell is the variable of a live frame.  A frame that failure     *)
(* unwinds leaves its captures open; the property is for programs where no *)
(* frame that has captures is unwound.                                     *)
OpenCellsOwned ==
  \A c \in DOMAIN cells :
    cells[c].open => \E i \in DOMAIN frames : c \in frames[i].captures

(* A capture names a slot of its frame and not of one above it: what the   *)
(* running frame captured has a value before a call puts a frame on top,   *)
(* and of a frame below only slots are captured that are under the next.   *)
CapturesHaveValues ==
  Fetched =>
    /\ Ins.op = "Call" => \A c \in Top.captures : cells[c].at < Len(locals)
    /\ Ins.op = "MakeClosure" /\ Ready(Ins) =>
         LET ds == Fun(Ins.a).upvalues
         IN  \A k \in DOMAIN ds :
               ds[k].depth > 1 => UpIndex(ds[k]) < frames[UpFrame(ds[k]) + 1].localBase

(* Every handle the machine holds, on the stack, in a variable, in a cell  *)
(* or in an object, leads to an object of its kind: nothing dangles, and   *)
(* no instruction finds an option where it takes a tuple for granted.      *)
HandlesLead ==
  /\ AllLead(stack, heap) /\ AllLead(locals, heap)
  /\ \A c \in DOMAIN cells : Leads(cells[c].val, heap)
  /\ ElemsLead(heap)

(* The tuples a value holds, in it or in the tuples in it.                 *)
TuplesOf(v) == TuplesIn[Len(heap)][<<v, heap>>]

(* What variables there are: the slots of locals and the cells that hold   *)
(* their value themselves.                                                 *)
Slots == {"slot"} \X DOMAIN locals
Boxes == {"cell"} \X {c \in DOMAIN cells : ~cells[c].open}

Variables ==
  [x \in Slots \cup Boxes |-> IF x[1] = "slot" THEN locals[x[2]] ELSE cells[x[2]].val]

(* Storing copies tuples: no two variables, and no two places in one, hold *)
(* the same tuple, so that setting an element of one changes no other.     *)
(* Arguments are passed without a copy; the property is for programs that  *)
(* pass no tuple to a function.                                            *)
VariablesDontShareTuples ==
  /\ \A x, y \in DOMAIN Variables :
       x # y => TuplesOf(Variables[x]) \cap TuplesOf(Variables[y]) = {}
  /\ \A x \in DOMAIN Variables : \A o \in TuplesOf(Variables[x]) :
       LET es == heap[o].elems
       IN  \A m, n \in DOMAIN es : m # n => TuplesOf(es[m]) \cap TuplesOf(es[n]) = {}

(* What such programs do: none of a call's arguments is a tuple.           *)
NoTuplesPassed ==
  Fetched /\ Ins.op = "Call" /\ Ready(Ins) =>
    \A i \in DOMAIN Operands(Ins.a) : Operands(Ins.a)[i].k # "tuple"

(* An object keeps its kind, type and size for good, and only tuples,      *)
(* arrays and objects are ever written to: a string, an option, a function *)
(* or a method that several places share is the same for all of them.      *)
ObjectsKeepShape ==
  [][\A o \in DOMAIN heap :
       /\ o \in DOMAIN heap'
       /\ heap'[o] = [heap[o] EXCEPT !.elems = heap'[o].elems]
       /\ Len(heap'[o].elems) = Len(heap[o].elems)
       /\ heap[o].k \notin {"tuple", "array", "object"} => heap'[o] = heap[o]]_vars
=============================================================================
