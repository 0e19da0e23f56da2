------------------------- MODULE VerseVm_stack_proofs -------------------------
(***************************************************************************)
(* What holds of the operand stack for every program whose code is         *)
(* Balanced: every frame's operands are its own, and calls leave a result. *)
(***************************************************************************)
EXTENDS StackDiscipline, VerseVm_heap_proofs

(* A running frame has as many operands as its pc needs; one that waits    *)
(* for a call has as many below the callee's as the call left it.          *)
Standing(f, n) == n >= f.stackBase + Floors(Fun(f.func))[f.pc + 1]

Waiting(f, n) ==
  LET fun == Fun(f.func)
  IN  /\ f.pc >= 1 /\ fun.code[f.pc].op = "Call"
      /\ n >= f.stackBase + Floors(fun)[f.pc] - Takes(fun.code[f.pc])

(* A callable object is never the root code, an option holds one value.    *)
GoodObj(o) ==
  /\ o.k \in {"function", "method"} => o.fn # program.entry
  /\ o.k = "some" => Len(o.elems) = 1

GoodHeap == \A o \in DOMAIN heap : GoodObj(heap[o])

(* Only the first frame runs the root code, and no pc is past its code.    *)
GoodFrames ==
  \A i \in DOMAIN frames :
    /\ i > 1 => frames[i].func # program.entry
    /\ frames[i].pc <= Len(Fun(frames[i].func).code)

BasesRise ==
  \A i, j \in DOMAIN frames : i <= j => frames[i].stackBase <= frames[j].stackBase

Enough ==
  \A i \in DOMAIN frames :
    IF i = Len(frames) THEN Standing(frames[i], Len(stack))
                       ELSE Waiting(frames[i], frames[i + 1].stackBase)

SInv ==
  /\ HInv
  /\ Balanced(program)
  /\ GoodHeap /\ GoodFrames /\ BasesRise /\ Enough

-----------------------------------------------------------------------------
(* The code.                                                               *)

(* The numbers of operands are numbers.                                    *)
LEMMA CountsType ==
  ASSUME NEW i \in Instr
  PROVE  Takes(i) \in Nat /\ Leaves(i) \in Nat
<1>1. i.b \in Nat /\ i.c \in Nat /\ (i.op # "PushInt" => i.a \in Nat)
  BY DEF Instr
<1> QED
  BY <1>1 DEF Takes, Leaves, CompareOps

(* A function of a balanced program keeps to its floors.                   *)
LEMMA FunFloored ==
  ASSUME TypeOK, Balanced(program), NEW f \in FuncIds
  PROVE  /\ Fun(f) \in Function
         /\ Floored(Fun(f), Floors(Fun(f)))
         /\ f # program.entry => Floors(Fun(f))[Len(Fun(f).code) + 1] >= 1
<1>1. /\ program.functions \in Seq(Function) /\ program.entry \in Nat
      /\ Len(program.functions) \in Nat
      /\ DOMAIN program.functions = 1 .. Len(program.functions)
  BY LenProperties DEF TypeOK, Program
<1>2. f \in Nat /\ f + 1 \in DOMAIN program.functions
  BY <1>1 DEF FuncIds
<1>3. f # program.entry => f + 1 # program.entry + 1
  BY <1>1, <1>2
<1> QED
  BY <1>2, <1>3, FunType DEF Balanced, Fun

(* What is at a pc is an instruction, and it finds its operands if there   *)
(* are as many as the floor says.                                          *)
LEMMA AtFloor ==
  ASSUME TypeOK, Balanced(program), NEW f \in FuncIds,
         NEW pc \in Nat, pc < Len(Fun(f).code)
  PROVE  /\ Fun(f).code[pc + 1] \in Instr
         /\ Floors(Fun(f))[pc + 1] \in Nat
         /\ Takes(Fun(f).code[pc + 1]) \in Nat
         /\ Takes(Fun(f).code[pc + 1]) <= Floors(Fun(f))[pc + 1]
<1> DEFINE fun == Fun(f)
           d   == Floors(fun)
<1>1. fun \in Function /\ Floored(fun, d)
  BY FunFloored
<1> HIDE DEF d, fun
<1>2. /\ fun.code \in Seq(Instr) /\ Len(fun.code) \in Nat
      /\ d \in Seq(Nat) /\ Len(d) = Len(fun.code) + 1
  BY <1>1, LenProperties DEF Function, Floored
<1>3. pc + 1 \in 1 .. Len(fun.code) /\ pc + 1 \in 1 .. Len(d)
  BY <1>2 DEF fun
<1>4. fun.code[pc + 1] \in Instr /\ d[pc + 1] \in Nat
  BY <1>2, <1>3, ElementOfSeq
<1>5. pc \in 0 .. Len(fun.code) - 1
  BY <1>2, <1>3
<1>6. Takes(fun.code[pc + 1]) <= d[pc + 1]
  BY <1>1, <1>5 DEF Floored
<1> QED
  BY <1>4, <1>6, CountsType DEF d, fun

(* The way on from a pc leads to a pc of the code, and has as many         *)
(* operands there as that asks for.                                        *)
LEMMA FloorOnward ==
  ASSUME TypeOK, Balanced(program), NEW f \in FuncIds,
         NEW pc \in Nat, pc < Len(Fun(f).code)
  PROVE  LET i  == Fun(f).code[pc + 1]
             d  == Floors(Fun(f))
             to == Onward(i, pc)
         IN  /\ to \in Nat /\ to <= Len(Fun(f).code)
             /\ d[to + 1] \in Nat
             /\ d[to + 1] <= d[pc + 1] - Takes(i) + Leaves(i)
<1> DEFINE fun == Fun(f)
           d   == Floors(fun)
           i   == fun.code[pc + 1]
           to  == Onward(i, pc)
<1>1. fun \in Function /\ Floored(fun, d)
  BY FunFloored
<1>2. i \in Instr
  BY AtFloor
<1> HIDE DEF d, fun
<1>3. /\ Len(fun.code) \in Nat /\ pc \in 0 .. Len(fun.code) - 1
      /\ d \in Seq(Nat) /\ Len(d) = Len(fun.code) + 1
  BY <1>1, LenProperties DEF Function, Floored, fun
<1>4. to \in Nat
  BY <1>2 DEF Onward, Instr
<1> DEFINE w == [to |-> to, least |-> d[pc + 1] - Takes(i) + Leaves(i),
                 most |-> d[pc + 1] - Takes(i) + Leaves(i)]
<1>5. w \in Ways(fun, pc, d[pc + 1])
  BY SMTT(30) DEF Ways
<1>6. w.to <= Len(fun.code) /\ d[w.to + 1] <= w.least
  BY <1>1, <1>3, <1>5, SMTT(30) DEF Floored
<1>7. to <= Len(fun.code) /\ d[to + 1] <= d[pc + 1] - Takes(i) + Leaves(i)
  BY <1>6
<1> HIDE DEF to
<1>8. d[to + 1] \in Nat
  BY <1>3, <1>4, <1>7, ElementOfSeq
<1> QED
  BY <1>4, <1>7, <1>8 DEF to, i, d, fun

(* So does the way to a handler.                                           *)
LEMMA FloorHandler ==
  ASSUME TypeOK, Balanced(program), NEW f \in FuncIds,
         NEW pc \in Nat, pc < Len(Fun(f).code), NEW h \in Handlers(Fun(f), pc)
  PROVE  LET d       == Floors(Fun(f))
             handler == Fun(f).handlers[h]
         IN  /\ handler \in Handler
             /\ handler.target <= Len(Fun(f).code)
             /\ d[handler.target + 1] \in Nat
             /\ d[handler.target + 1] <= handler.depth
             /\ d[handler.target + 1] <= d[pc + 1] - Takes(Fun(f).code[pc + 1])
<1> DEFINE fun == Fun(f)
           d   == Floors(fun)
           i   == fun.code[pc + 1]
           hd  == fun.handlers[h]
<1>1. fun \in Function /\ Floored(fun, d)
  BY FunFloored
<1>2. d[pc + 1] \in Nat /\ Takes(i) \in Nat
  BY AtFloor
<1>3. h \in DOMAIN fun.handlers
  BY DEF Handlers
<1>4. h \in Handlers(fun, pc)
  OBVIOUS
<1> HIDE DEF d, fun
<1>5. /\ Len(fun.code) \in Nat /\ pc \in 0 .. Len(fun.code) - 1
      /\ d \in Seq(Nat) /\ Len(d) = Len(fun.code) + 1
      /\ fun.handlers \in Seq(Handler)
  BY <1>1, LenProperties DEF Function, Floored, fun
<1>6. hd \in Handler
  BY <1>3, <1>5, LenProperties, ElementOfSeq
<1>7. hd.target \in Nat /\ hd.depth \in Nat
  BY <1>6 DEF Handler
<1> DEFINE w == [to |-> hd.target, least |-> Least(d[pc + 1] - Takes(i), hd.depth),
                 most |-> hd.depth]
<1>8. w \in Ways(fun, pc, d[pc + 1])
  BY <1>4 DEF Ways
<1>9. w.to <= Len(fun.code) /\ d[w.to + 1] <= w.least
  BY <1>1, <1>5, <1>8 DEF Floored
<1>10. hd.target <= Len(fun.code)
  BY <1>9
<1>11. d[hd.target + 1] <= Least(d[pc + 1] - Takes(i), hd.depth)
  BY <1>9
<1> HIDE DEF hd
<1>12. hd.target + 1 \in 1 .. Len(d)
  BY <1>5, <1>7, <1>10, SMTT(30)
<1>13. d[hd.target + 1] \in Nat
  BY <1>5, <1>12, ElementOfSeq
<1>14. /\ d[hd.target + 1] <= hd.depth
       /\ d[hd.target + 1] <= d[pc + 1] - Takes(i)
  BY <1>2, <1>7, <1>11, <1>13 DEF Least
<1> QED
  BY <1>6, <1>10, <1>13, <1>14 DEF hd, i, d, fun

-----------------------------------------------------------------------------
(* The steps.                                                              *)

(* The first n frames stay, the last of them goes on at pc.                *)
Stay(n, pc) ==
  \A i \in 1 .. n :
    /\ frames'[i].func = frames[i].func
    /\ frames'[i].stackBase = frames[i].stackBase
    /\ frames'[i].pc = IF i = n THEN pc ELSE frames[i].pc

GoesTo(pc) == Len(frames') = Len(frames) /\ Stay(Len(frames), pc)

(* The lowest n operands stay where they are.                              *)
Agrees(n) == \A j \in 1 .. n : stack'[j] = stack[j]

(* An instruction that uses its operands, leaves what it leaves, and goes  *)
(* on.                                                                     *)
Goes ==
  /\ GoesTo(Onward(Ins, Top.pc))
  /\ Len(stack') = Len(stack) - Takes(Ins) + Leaves(Ins)
  /\ Agrees(Len(stack) - Takes(Ins))

(* An instruction that fails after it popped some of its operands.         *)
Fails == Ins.op \in MayFail /\ \E n \in Nat : n <= Takes(Ins) /\ Fail(n)

(* The top frame is one of the frames.                                     *)
LEMMA TopFrameType ==
  ASSUME TypeOK, frames # << >>
  PROVE  /\ Len(frames) \in Nat /\ Len(frames) \in DOMAIN frames
         /\ DOMAIN frames = 1 .. Len(frames)
         /\ Top.func \in FuncIds /\ Top.stackBase \in Nat /\ Top.pc \in Nat
<1>1. Len(frames) \in Nat \ {0} /\ Top \in Frame(FuncIds, DOMAIN cells)
  BY FrameType
<1>2. DOMAIN frames = 1 .. Len(frames)
  BY LenProperties DEF TypeOK
<1> QED
  BY <1>1, <1>2 DEF Frame

(* Another pc for the running frame.                                       *)
LEMMA PcGoes ==
  ASSUME TypeOK, frames # << >>, NEW pc, frames' = [frames EXCEPT ![Len(frames)].pc = pc]
  PROVE  GoesTo(pc)
<1>1. /\ Len(frames) \in DOMAIN frames /\ DOMAIN frames = 1 .. Len(frames)
      /\ Len(frames) \in Nat
  BY TopFrameType
<1>2. \A i \in DOMAIN frames : frames[i] \in Frame(FuncIds, DOMAIN cells)
  BY EachFrame
<1>3. frames' = [frames EXCEPT ![Len(frames)] = At(frames[Len(frames)], pc)]
  BY DEF At
<1>4. Len(frames') = Len(frames)
  BY <1>1, <1>3, LenProperties, ExceptSeq DEF TypeOK
<1>5. ASSUME NEW i \in 1 .. Len(frames)
      PROVE  /\ frames'[i].func = frames[i].func
             /\ frames'[i].stackBase = frames[i].stackBase
             /\ frames'[i].pc = IF i = Len(frames) THEN pc ELSE frames[i].pc
  BY <1>1, <1>2, <1>3, <1>5 DEF At, Frame
<1> QED
  BY <1>4, <1>5 DEF GoesTo, Stay

(* The frames after Replace.                                               *)
LEMMA AdvanceGoes ==
  ASSUME TypeOK, frames # << >>, Advance
  PROVE  GoesTo(Top.pc + 1)
<1>1. frames' = [frames EXCEPT ![Len(frames)].pc = Top.pc + 1]
  BY DEF Advance, Top
<1> QED
  BY <1>1, PcGoes

(* What is below the topmost n operands.                                   *)
LEMMA BelowLen ==
  ASSUME TypeOK, NEW n \in Nat, n <= Len(stack)
  PROVE  /\ Below(n) \in Seq(Value) /\ Len(Below(n)) = Len(stack) - n
         /\ \A j \in 1 .. Len(stack) - n : Below(n)[j] = stack[j]
<1>1. stack \in Seq(Value) /\ Len(stack) \in Nat
  BY LenProperties DEF TypeOK
<1>2. Len(stack) - n \in Int /\ Len(stack) - n <= Len(stack)
  BY <1>1
<1> QED
  BY <1>1, <1>2, PrefixType DEF Below

(* Replacing n operands by some others, as many as the instruction leaves  *)
(* if it kept the rest of those it uses.                                   *)
LEMMA ReplaceGoes ==
  ASSUME TypeOK, Fetched, NEW S, NEW vs \in Seq(S), NEW n \in Nat, Replace(n, vs),
         n <= Takes(Ins), Takes(Ins) <= Len(stack),
         Len(vs) = n + Leaves(Ins) - Takes(Ins), Ins.op # "Jmp"
  PROVE  Goes
<1>1. frames # << >> /\ Advance /\ stack' = Below(n) \o vs
  BY DEF Fetched, Live, Replace
<1>2. Takes(Ins) \in Nat /\ Leaves(Ins) \in Nat /\ Len(stack) \in Nat /\ n <= Len(stack)
  BY InsType, CountsType, LenProperties DEF TypeOK
<1>3. /\ Below(n) \in Seq(Value) /\ Len(Below(n)) = Len(stack) - n
      /\ \A j \in 1 .. Len(stack) - n : Below(n)[j] = stack[j]
  BY <1>2, BelowLen
<1>4. Below(n) \in Seq(Value \cup S) /\ vs \in Seq(Value \cup S)
  BY <1>3, SeqMonotonic
<1>5. /\ Len(stack') = Len(Below(n)) + Len(vs)
      /\ \A j \in 1 .. Len(Below(n)) + Len(vs) : j <= Len(Below(n)) => stack'[j] = Below(n)[j]
  BY <1>1, <1>4, ConcatProperties, LenProperties
<1>6. Len(stack') = Len(stack) - Takes(Ins) + Leaves(Ins)
  BY <1>2, <1>3, <1>5
<1>7. Agrees(Len(stack) - Takes(Ins))
  <2>1. Len(vs) \in Nat
    BY LenProperties
  <2> QED
    BY <1>2, <1>3, <1>5, <2>1 DEF Agrees
<1>8. GoesTo(Onward(Ins, Top.pc))
  BY <1>1, AdvanceGoes DEF Onward
<1> QED
  BY <1>6, <1>7, <1>8 DEF Goes

(* Replacing them by one value.                                            *)
LEMMA ReplaceByOne ==
  ASSUME TypeOK, Fetched, NEW v, NEW n \in Nat, Replace(n, << v >>),
         n <= Takes(Ins), Takes(Ins) <= Len(stack),
         n + Leaves(Ins) = Takes(Ins) + 1, Ins.op # "Jmp"
  PROVE  Goes
<1>1. << v >> \in Seq({v}) /\ Len(<< v >>) = 1
  OBVIOUS
<1>2. Takes(Ins) \in Nat /\ Leaves(Ins) \in Nat
  BY InsType, CountsType
<1>3. Len(<< v >>) = n + Leaves(Ins) - Takes(Ins)
  BY <1>1, <1>2
<1> QED
  BY <1>1, <1>3, ReplaceGoes

(* Replacing them by none.                                                 *)
LEMMA ReplaceByNone ==
  ASSUME TypeOK, Fetched, NEW n \in Nat, Replace(n, << >>),
         Takes(Ins) <= Len(stack), n + Leaves(Ins) = Takes(Ins), Ins.op # "Jmp"
  PROVE  Goes
<1>1. << >> \in Seq({}) /\ Len(<< >>) = 0
  OBVIOUS
<1>2. Takes(Ins) \in Nat /\ Leaves(Ins) \in Nat /\ n <= Takes(Ins)
  BY InsType, CountsType
<1>3. Len(<< >>) = n + Leaves(Ins) - Takes(Ins)
  BY <1>1, <1>2
<1> QED
  BY <1>1, <1>2, <1>3, ReplaceGoes

(* Instructions that replace their operands by what they compute.          *)
LEMMA ComputeGoes ==
  ASSUME TypeOK, Fetched, Takes(Ins) <= Len(stack),
         PushConst \/ ArithOp \/ Neg \/ Not \/ Dup \/ Pop \/ ToText \/ LenOp \/ CallNative
           \/ LoadLocal \/ LoadGlobal \/ LoadUpvalue \/ LoadElement
  PROVE  Goes
<1> USE DEF Can
<1>1. CASE PushConst
  <2>1. Takes(Ins) = 0 /\ Leaves(Ins) = 1 /\ Ins.op # "Jmp"
    BY <1>1 DEF PushConst, ConstOps, Takes, Leaves, CompareOps
  <2> QED
    BY <1>1, <2>1, ReplaceByOne DEF PushConst
<1>2. CASE ArithOp
  <2>1. Takes(Ins) = 2 /\ Leaves(Ins) = 1 /\ Ins.op # "Jmp"
    BY <1>2 DEF ArithOp, Takes, Leaves, CompareOps
  <2> QED
    BY <1>2, <2>1, ReplaceByOne DEF ArithOp
<1>3. CASE Neg \/ Not \/ ToText \/ LenOp
  <2>1. Takes(Ins) = 1 /\ Leaves(Ins) = 1 /\ Ins.op # "Jmp"
    BY <1>3 DEF Neg, Not, ToText, LenOp, Takes, Leaves, CompareOps
  <2>2. PICK v : Replace(1, << v >>)
    BY <1>3 DEF Neg, Not, ToText, LenOp
  <2> QED
    BY <2>1, <2>2, ReplaceByOne
<1>4. CASE Dup
  <2>1. Takes(Ins) = 1 /\ Leaves(Ins) = 2 /\ Ins.op # "Jmp"
    BY <1>4 DEF Dup, Takes, Leaves, CompareOps
  <2> QED
    BY <1>4, <2>1, ReplaceByOne DEF Dup
<1>5. CASE Pop
  <2>1. Takes(Ins) = 1 /\ Leaves(Ins) = 0 /\ Ins.op # "Jmp"
    BY <1>5 DEF Pop, Takes, Leaves, CompareOps
  <2> QED
    BY <1>5, <2>1, ReplaceByNone DEF Pop
<1>6. CASE CallNative
  <2>1. Takes(Ins) = Ins.a + 1 /\ Leaves(Ins) = 1 /\ Ins.op # "Jmp"
    BY <1>6 DEF CallNative, Takes, Leaves, CompareOps
  <2>2. Takes(Ins) \in Nat
    BY InsType, CountsType
  <2> QED
    BY <1>6, <2>1, <2>2, ReplaceByOne DEF CallNative
<1>7. CASE LoadLocal \/ LoadGlobal \/ LoadUpvalue
  <2>1. Takes(Ins) = 0 /\ Leaves(Ins) = 1 /\ Ins.op # "Jmp"
    BY <1>7 DEF LoadLocal, LoadGlobal, LoadUpvalue, Takes, Leaves, CompareOps
  <2> QED
    BY <1>7, <2>1, ReplaceByOne DEF LoadLocal, LoadGlobal, LoadUpvalue
<1>8. CASE LoadElement
  <2>1. Takes(Ins) = 1 /\ Leaves(Ins) = 1 /\ Ins.op # "Jmp"
    BY <1>8 DEF LoadElement, Takes, Leaves, CompareOps
  <2> QED
    BY <1>8, <2>1, ReplaceByOne DEF LoadElement
<1> QED
  BY <1>1, <1>2, <1>3, <1>4, <1>5, <1>6, <1>7, <1>8

(* Instructions that make an object of their operands.                     *)
LEMMA MakeGoes ==
  ASSUME TypeOK, Fetched, Takes(Ins) <= Len(stack),
         PushString \/ PushMethod \/ MakeOption \/ MakeTuple \/ MakeArray
           \/ MakeObject \/ Concat
  PROVE  Goes
<1> USE DEF Can
<1>1. ASSUME NEW n, NEW k, NEW obj, Allocate(n, k, obj), n = Takes(Ins),
             Leaves(Ins) = 1, Ins.op # "Jmp"
      PROVE  Goes
  <2>1. n \in Nat
    BY <1>1, InsType, CountsType
  <2> QED
    BY <1>1, <2>1, ReplaceByOne DEF Allocate
<1>2. CASE PushString
  <2>1. Takes(Ins) = 0 /\ Leaves(Ins) = 1 /\ Ins.op # "Jmp"
    BY <1>2 DEF PushString, Takes, Leaves, CompareOps
  <2> QED
    BY <1>1, <1>2, <2>1 DEF PushString
<1>3. CASE PushMethod
  <2>1. Takes(Ins) = 1 /\ Leaves(Ins) = 1 /\ Ins.op # "Jmp"
    BY <1>3 DEF PushMethod, Takes, Leaves, CompareOps
  <2> QED
    BY <1>1, <1>3, <2>1 DEF PushMethod
<1>4. CASE MakeOption
  <2>1. Takes(Ins) = 1 /\ Leaves(Ins) = 1 /\ Ins.op # "Jmp"
    BY <1>4 DEF MakeOption, Takes, Leaves, CompareOps
  <2> QED
    BY <1>1, <1>4, <2>1 DEF MakeOption
<1>5. CASE MakeTuple \/ MakeArray
  <2>1. Takes(Ins) = Ins.b /\ Leaves(Ins) = 1 /\ Ins.op # "Jmp"
    BY <1>5 DEF MakeTuple, MakeArray, Takes, Leaves, CompareOps
  <2> QED
    BY <1>1, <1>5, <2>1 DEF MakeTuple, MakeArray
<1>6. CASE MakeObject
  <2>1. Takes(Ins) = Ins.b + Ins.c /\ Leaves(Ins) = 1 /\ Ins.op # "Jmp"
    BY <1>6 DEF MakeObject, Takes, Leaves, CompareOps
  <2> QED
    BY <1>1, <1>6, <2>1 DEF MakeObject
<1>7. CASE Concat
  <2>1. Takes(Ins) = Ins.a /\ Leaves(Ins) = 1 /\ Ins.op # "Jmp"
    BY <1>7 DEF Concat, Takes, Leaves, CompareOps
  <2> QED
    BY <1>1, <1>7, <2>1 DEF Concat
<1> QED
  BY <1>2, <1>3, <1>4, <1>5, <1>6, <1>7

(* Instructions that store an operand, and leave it.                       *)
LEMMA StoreGoes ==
  ASSUME TypeOK, Fetched, Takes(Ins) <= Len(stack),
         StoreLocal \/ StoreGlobal \/ StoreUpvalue \/ StoreElement
  PROVE  Goes
<1> USE DEF Can
<1>1. CASE StoreLocal \/ StoreGlobal \/ StoreUpvalue
  <2>1. Takes(Ins) = 1 /\ Leaves(Ins) = 1 /\ Ins.op # "Jmp"
    BY <1>1 DEF StoreLocal, StoreGlobal, StoreUpvalue, Takes, Leaves, CompareOps
  <2>2. Replace(0, << >>)
    BY <1>1 DEF StoreLocal, StoreGlobal, StoreUpvalue
  <2> QED
    BY <2>1, <2>2, ReplaceByNone
<1>2. CASE StoreElement
  <2>1. Takes(Ins) = 2 /\ Leaves(Ins) = 1 /\ Ins.op # "Jmp"
    BY <1>2 DEF StoreElement, Takes, Leaves, CompareOps
  <2>2. Replace(1, << >>)
    BY <1>2 DEF StoreElement
  <2> QED
    BY <2>1, <2>2, ReplaceByNone
<1> QED
  BY <1>1, <1>2

(* Instructions that may fail; an option that is not empty holds one value.*)
LEMMA FallibleGoes ==
  ASSUME HInv, GoodHeap, Fetched, Takes(Ins) <= Len(stack),
         Div \/ Compare \/ Cast \/ Unwrap \/ LoadArrayElement \/ StoreArrayElement
  PROVE  Goes \/ Fails
<1> USE DEF Can
<1>1. TypeOK
  BY DEF HInv, IInv
<1>2. CASE Div
  <2>1. Takes(Ins) = 2 /\ Leaves(Ins) = 1 /\ Ins.op # "Jmp" /\ Ins.op \in MayFail
    BY <1>2 DEF Div, Takes, Leaves, MayFail, CompareOps
  <2>2. CASE Fail(2)
    BY <2>1, <2>2 DEF Fails
  <2>3. CASE ~Fail(2)
    <3>1. PICK v : Replace(2, << v >>)
      BY <1>2, <2>3 DEF Div
    <3> QED
      BY <1>1, <2>1, <3>1, ReplaceByOne
  <2> QED
    BY <2>2, <2>3
<1>3. CASE Compare
  <2>1. Takes(Ins) = 2 /\ Leaves(Ins) = 1 /\ Ins.op # "Jmp" /\ Ins.op \in MayFail
    BY <1>3 DEF Compare, CompareOps, Takes, Leaves, MayFail, CompareOps
  <2> QED
    BY <1>1, <1>3, <2>1, ReplaceByOne DEF Compare, Fails
<1>4. CASE Cast
  <2>1. Takes(Ins) = 1 /\ Leaves(Ins) = 1 /\ Ins.op # "Jmp" /\ Ins.op \in MayFail
    BY <1>4 DEF Cast, Takes, Leaves, MayFail, CompareOps
  <2> QED
    BY <1>1, <1>4, <2>1, ReplaceByNone DEF Cast, Fails
<1>5. CASE Unwrap
  <2>1. Takes(Ins) = 1 /\ Leaves(Ins) = 1 /\ Ins.op # "Jmp" /\ Ins.op \in MayFail
    BY <1>5 DEF Unwrap, Takes, Leaves, MayFail, CompareOps
  <2>2. CASE Operand(0).k # "some"
    BY <1>5, <2>1, <2>2 DEF Unwrap, Fails
  <2>3. CASE Operand(0).k = "some"
    <3> DEFINE vs == heap[Operand(0).v].elems
    <3>1. 0 < Len(stack)
      BY <1>1, <2>1, LenProperties DEF TypeOK
    <3>2. Leads(Operand(0), heap)
      BY <3>1, OperandLeads
    <3>3. Operand(0).v \in DOMAIN heap /\ heap[Operand(0).v].k = "some"
      BY <2>3, <3>2 DEF Leads, Handles
    <3>4. vs \in Seq(Value) /\ Len(vs) = 1
      BY <1>1, <3>3, HeapElems DEF GoodHeap, GoodObj
    <3>5. Replace(1, vs)
      BY <1>5, <2>3 DEF Unwrap
    <3>6. Len(vs) = 1 + Leaves(Ins) - Takes(Ins) /\ 1 <= Takes(Ins)
      BY <2>1, <3>4
    <3> HIDE DEF vs
    <3> QED
      BY <1>1, <2>1, <3>4, <3>5, <3>6, ReplaceGoes
  <2> QED
    BY <2>2, <2>3
<1>6. CASE LoadArrayElement
  <2>1. Takes(Ins) = 2 /\ Leaves(Ins) = 1 /\ Ins.op # "Jmp" /\ Ins.op \in MayFail
    BY <1>6 DEF LoadArrayElement, Takes, Leaves, MayFail, CompareOps
  <2>2. CASE Fail(1) \/ Fail(2)
    BY <2>1, <2>2 DEF Fails
  <2>3. CASE ~Fail(1) /\ ~Fail(2)
    <3>1. PICK v : Replace(2, << v >>)
      BY <1>6, <2>3 DEF LoadArrayElement
    <3> QED
      BY <1>1, <2>1, <3>1, ReplaceByOne
  <2> QED
    BY <2>2, <2>3
<1>7. CASE StoreArrayElement
  <2>1. Takes(Ins) = 3 /\ Leaves(Ins) = 1 /\ Ins.op # "Jmp" /\ Ins.op \in MayFail
    BY <1>7 DEF StoreArrayElement, Takes, Leaves, MayFail, CompareOps
  <2>2. CASE Fail(2)
    BY <2>1, <2>2 DEF Fails
  <2>3. CASE ~Fail(2)
    <3>1. Replace(2, << >>)
      BY <1>7, <2>3 DEF StoreArrayElement
    <3> QED
      BY <1>1, <2>1, <3>1, ReplaceByNone
  <2> QED
    BY <2>2, <2>3
<1> QED
  BY <1>2, <1>3, <1>4, <1>5, <1>6, <1>7

(* A jump.                                                                 *)
LEMMA JmpGoes ==
  ASSUME TypeOK, Fetched, Jmp
  PROVE  Goes
<1>1. Takes(Ins) = 0 /\ Leaves(Ins) = 0 /\ Ins.op = "Jmp"
  BY DEF Jmp, Can, Takes, Leaves, CompareOps
<1>2. frames # << >> /\ stack' = stack /\ Len(stack) \in Nat
  BY LenProperties DEF Jmp, Fetched, Live, TypeOK
<1>3. frames' = [frames EXCEPT ![Len(frames)].pc = Ins.a]
  BY DEF Jmp
<1>4. GoesTo(Onward(Ins, Top.pc))
  BY <1>1, <1>2, <1>3, PcGoes DEF Onward
<1> QED
  BY <1>1, <1>2, <1>4 DEF Goes, Agrees

(* A closure's captures change no frame's operands.                        *)
LEMMA ClosureGoes ==
  ASSUME TypeOK, TypeOK', Fetched, MakeClosure
  PROVE  Goes
<1>1. Takes(Ins) = 0 /\ Leaves(Ins) = 1 /\ Ins.op = "MakeClosure"
  BY DEF MakeClosure, Can, Takes, Leaves, CompareOps
<1>2. /\ frames # << >> /\ stack \in Seq(Value) /\ Len(stack) \in Nat
      /\ DOMAIN frames = 1 .. Len(frames) /\ Len(frames) \in Nat
  BY LenProperties DEF Fetched, Live, TypeOK
<1>3. PICK v : stack' = Append(stack, v)
  BY DEF MakeClosure
<1>4. /\ Len(stack') = Len(stack) + 1
      /\ \A j \in 1 .. Len(stack) : stack'[j] = stack[j]
  <2>1. stack \in Seq(Value \cup {v}) /\ v \in Value \cup {v}
    BY <1>2, SeqMonotonic
  <2> QED
    BY <1>3, <2>1, AppendProperties
<1>5. \E By : frames' = [j \in DOMAIN frames |->
                            [frames[j] EXCEPT
                               !.captures = By[j],
                               !.pc = IF j = Len(frames) THEN @ + 1 ELSE @]]
  <2> DEFINE ds == Fun(Ins.a).upvalues
             up == [k \in DOMAIN ds |-> CellFor(ds[k])]
             after == [j \in DOMAIN frames |-> frames[j].captures \cup
                          {up[k] : k \in {l \in DOMAIN ds : UpFrame(ds[l]) = j}}]
  <2>1. frames' = [j \in DOMAIN frames |->
                             [frames[j] EXCEPT
                                !.captures = after[j],
                                !.pc = IF j = Len(frames) THEN @ + 1 ELSE @]]
    BY DEF MakeClosure
  <2> HIDE DEF after
  <2> QED
    BY <2>1
<1>6. Len(frames') = Len(frames)
  <2>1. DOMAIN frames' = DOMAIN frames
    BY <1>5
  <2>2. DOMAIN frames' = 1 .. Len(frames') /\ Len(frames') \in Nat
    BY LenProperties DEF TypeOK
  <2> QED
    BY <1>2, <2>1, <2>2
<1>7. ASSUME NEW i \in 1 .. Len(frames)
      PROVE  /\ frames'[i].func = frames[i].func
             /\ frames'[i].stackBase = frames[i].stackBase
             /\ frames'[i].pc = IF i = Len(frames) THEN Top.pc + 1 ELSE frames[i].pc
  <2>1. frames[i] \in Frame(FuncIds, DOMAIN cells)
    BY <1>2, EachFrame
  <2> QED
    BY <1>2, <1>5, <2>1, ZenonT(40) DEF Frame, Top
<1>8. GoesTo(Onward(Ins, Top.pc))
  BY <1>1, <1>6, <1>7 DEF GoesTo, Stay, Onward
<1> QED
  BY <1>1, <1>2, <1>4, <1>8 DEF Goes, Agrees

-----------------------------------------------------------------------------
(* The heap.                                                               *)

(* The program stays.                                                      *)
LEMMA ProgramKept == [Next]_vars => program' = program
<1> SUFFICES ASSUME [Next]_vars PROVE program' = program
  OBVIOUS
<1>1. ASSUME NEW n, Fail(n) PROVE program' = program
  BY <1>1 DEF Fail, Caught, Uncaught, Unwind
<1>2. ASSUME NEW n, NEW vs, Replace(n, vs) PROVE program' = program
  BY <1>2 DEF Replace
<1>3. ASSUME NEW n, NEW k, NEW obj, Allocate(n, k, obj) PROVE program' = program
  BY <1>2, <1>3 DEF Allocate
<1>4. CASE PushConst \/ ArithOp \/ Neg \/ Not \/ Dup \/ Pop
  BY <1>2, <1>4 DEF PushConst, ArithOp, Neg, Not, Dup, Pop
<1>5. CASE ToText \/ LenOp \/ CallNative \/ LoadLocal \/ LoadGlobal \/ LoadUpvalue
             \/ LoadElement
  BY <1>2, <1>5 DEF ToText, LenOp, CallNative, LoadLocal, LoadGlobal, LoadUpvalue,
     LoadElement
<1>6. CASE PushString \/ PushMethod \/ MakeOption \/ MakeTuple \/ MakeArray
             \/ MakeObject \/ Concat
  BY <1>3, <1>6 DEF PushString, PushMethod, MakeOption, MakeTuple, MakeArray,
     MakeObject, Concat
<1>7. CASE StoreLocal \/ StoreGlobal \/ StoreUpvalue \/ StoreElement
  BY <1>2, <1>7 DEF StoreLocal, StoreGlobal, StoreUpvalue, StoreElement
<1>8. CASE Div
  BY <1>1, <1>2, <1>8 DEF Div
<1>9. CASE Compare
  BY <1>1, <1>2, <1>9 DEF Compare
<1>10. CASE Cast
  BY <1>1, <1>2, <1>10 DEF Cast
<1>11. CASE Unwrap
  BY <1>1, <1>2, <1>11 DEF Unwrap
<1>12. CASE LoadArrayElement
  BY <1>1, <1>2, <1>12 DEF LoadArrayElement
<1>13. CASE StoreArrayElement
  BY <1>1, <1>2, <1>13 DEF StoreArrayElement
<1>14. CASE MakeClosure \/ Jmp \/ Call \/ Return \/ Panic \/ Finish \/ Ended
              \/ UNCHANGED vars
  BY <1>14 DEF MakeClosure, Jmp, Call, Return, Panic, Finish, Ended, vars
<1> QED
  BY <1>4, <1>5, <1>6, <1>7, <1>8, <1>9, <1>10, <1>11, <1>12, <1>13, <1>14 DEF Next

(* Objects that were good stay good: what GoodObj asks of never changes.   *)
LEMMA GoodStay ==
  ASSUME HInv, GoodHeap, program' = program, Kept(heap, heap'),
         \A o \in DOMAIN heap' : o \notin DOMAIN heap => GoodObj(heap'[o])
  PROVE  GoodHeap'
<1> SUFFICES ASSUME NEW o \in DOMAIN heap'
             PROVE  GoodObj(heap[o])'
  BY DEF GoodHeap
<1>1. CASE o \in DOMAIN heap
  <2>1. heap[o] \in Obj(FuncIds, DOMAIN cells)
    BY <1>1, HeapObject DEF HInv, IInv
  <2>2. /\ heap'[o] = [heap[o] EXCEPT !.elems = heap'[o].elems]
        /\ heap[o].k \notin {"tuple", "array", "object"} => heap'[o] = heap[o]
    BY <1>1 DEF Kept
  <2>3. heap'[o].k = heap[o].k /\ heap'[o].fn = heap[o].fn
    BY <2>1, <2>2 DEF Obj
  <2>4. heap[o].k = "some" => heap'[o] = heap[o]
    BY <2>2
  <2>5. GoodObj(heap[o])
    BY <1>1 DEF GoodHeap
  <2> QED
    BY <2>3, <2>4, <2>5 DEF GoodObj
<1>2. CASE o \notin DOMAIN heap
  BY <1>2 DEF GoodObj
<1> QED
  BY <1>1, <1>2

(* A step that adds one good object, or none, adds good objects.           *)
LEMMA GoodAdded ==
  ASSUME HInv, NEW obj, heap' = Append(heap, obj), GoodObj(obj)
  PROVE  \A o \in DOMAIN heap' : o \notin DOMAIN heap => GoodObj(heap'[o])
<1>1. heap \in Seq(Obj(FuncIds, DOMAIN cells) \cup {obj})
  BY SeqMonotonic DEF HInv, IInv, TypeOK
<1>2. /\ Len(heap) \in Nat /\ DOMAIN heap = 1 .. Len(heap)
      /\ DOMAIN heap' = 1 .. Len(heap) + 1
      /\ heap'[Len(heap) + 1] = obj
  BY <1>1, AppendProperties, LenProperties
<1> QED
  BY <1>2

(* So does a copy, which adds tuples, and a copy written into an object.   *)
LEMMA GoodCopied ==
  ASSUME HInv, NEW v \in Value, NEW o, NEW i, NEW w,
         \/ heap' = CopyOf(v)[2]
         \/ heap' = WriteElement(CopyOf(v)[2], o, i, w)
  PROVE  \A p \in DOMAIN heap' : p \notin DOMAIN heap => GoodObj(heap'[p])
<1> DEFINE g == CopyOf(v)[2]
<1>1. g \in Seq(Obj(FuncIds, DOMAIN cells)) /\ Extends(heap, g)
  BY CopyType DEF HInv, CopyMade
<1> HIDE DEF g
<1>2. \A p \in DOMAIN g : /\ g[p] \in Obj(FuncIds, DOMAIN cells)
                          /\ p \notin DOMAIN heap => g[p].k = "tuple"
  BY <1>1, LenProperties, ElementOfSeq DEF Extends
<1>3. DOMAIN heap' = DOMAIN g /\ \A p \in DOMAIN g : heap'[p].k = g[p].k
  <2>1. CASE heap' = g
    BY <2>1
  <2>2. CASE heap' = WriteElement(g, o, i, w)
    BY <1>2, <2>2 DEF WriteElement, Obj
  <2> QED
    BY <2>1, <2>2 DEF g
<1> QED
  BY <1>2, <1>3 DEF GoodObj

(* Only the generator's functions are called and every option holds one    *)
(* value, after every step.                                                *)
LEMMA HeapStays ==
  ASSUME HInv, GoodHeap, Balanced(program), [Next]_vars
  PROVE  GoodHeap'
<1>1. Kept(heap, heap') /\ program' = program /\ TypeOK
  BY NextKind, ProgramKept DEF Kind, HInv, IInv
<1>2. CASE heap' = heap
  BY <1>1, <1>2, GoodStay
<1>3. CASE PushString \/ MakeTuple \/ MakeArray \/ MakeObject \/ Concat
  <2>1. PICK k, ty, elems : /\ heap' = Append(heap, Plain(k, ty, elems))
                            /\ k \notin {"function", "method", "some"}
    BY <1>3 DEF PushString, MakeTuple, MakeArray, MakeObject, Concat, Allocate
  <2>2. GoodObj(Plain(k, ty, elems))
    BY <2>1 DEF GoodObj, Plain
  <2> QED
    BY <1>1, <2>1, <2>2, GoodAdded, GoodStay
<1>4. CASE MakeOption
  <2>1. heap' = Append(heap, Plain("some", Ins.a, Operands(1)))
    BY <1>4 DEF MakeOption, Allocate
  <2>2. 1 <= Len(stack)
    BY <1>4 DEF MakeOption, Can, Ready, CompareOps
  <2>3. Len(Operands(1)) = 1
    BY <1>1, <2>2, OperandsType
  <2>4. GoodObj(Plain("some", Ins.a, Operands(1)))
    BY <2>3 DEF GoodObj, Plain
  <2> QED
    BY <1>1, <2>1, <2>4, GoodAdded, GoodStay
<1>5. CASE PushMethod
  <2> DEFINE f   == program.classes[Ins.a + 1][Ins.b + 1]
             obj == Callable("method", Fun(f).ty, Operands(1), f, << >>)
  <2>1. heap' = Append(heap, obj)
    BY <1>5 DEF PushMethod, Allocate
  <2>2. /\ Ins \in Instr /\ Ins.op = "PushMethod"
        /\ Ins.a < Len(program.classes) /\ Ins.b < Len(program.classes[Ins.a + 1])
    BY <1>1, <1>5, InsType DEF PushMethod, Can, Ready, CompareOps, ClassMethod
  <2>3. Ins.a \in Nat /\ Ins.b \in Nat
    BY <2>2 DEF Instr
  <2>4. Ins.a + 1 \in DOMAIN program.classes
    BY <1>1, <2>2, <2>3, LenProperties DEF TypeOK, Program
  <2>5. program.classes[Ins.a + 1] \in Seq(Nat)
    BY <1>1, <2>4, LenProperties, ElementOfSeq DEF TypeOK, Program
  <2>6. Ins.b + 1 \in DOMAIN program.classes[Ins.a + 1]
    BY <2>2, <2>3, <2>5, LenProperties
  <2>7. f # program.entry
    BY <2>4, <2>6 DEF Balanced
  <2>8. GoodObj(obj)
    BY <2>7 DEF GoodObj, Callable
  <2> HIDE DEF obj
  <2> QED
    BY <1>1, <2>1, <2>8, GoodAdded, GoodStay
<1>6. CASE MakeClosure
  <2>1. PICK up : heap' = Append(heap, Callable("function", Fun(Ins.a).ty, << >>, Ins.a, up))
    BY <1>6 DEF MakeClosure
  <2>2. Fetched /\ Ins.op = "MakeClosure" /\ frames # << >>
    BY <1>6 DEF MakeClosure, Can, Fetched, Live
  <2>3. Top.func \in FuncIds /\ Top.pc \in Nat
    BY <1>1, <2>2, FrameType DEF Frame
  <2>4. Top.func + 1 \in DOMAIN program.functions
    BY <1>1, <2>3, LenProperties DEF FuncIds, TypeOK, Program
  <2>5. Code \in Seq(Instr)
    BY <1>1, <2>3, FunType DEF Code, Function
  <2>6. Top.pc + 1 \in DOMAIN Code
    BY <2>2, <2>3, <2>5, LenProperties DEF Fetched
  <2>7. Ins.a # program.entry
    BY <2>2, <2>4, <2>6 DEF Balanced, Ins, Code, Fun
  <2>8. GoodObj(Callable("function", Fun(Ins.a).ty, << >>, Ins.a, up))
    BY <2>7 DEF GoodObj, Callable
  <2> QED
    BY <1>1, <2>1, <2>8, GoodAdded, GoodStay
<1>7. CASE StoreLocal \/ StoreGlobal \/ StoreUpvalue
  <2>1. heap' = CopyOf(Operand(0))[2]
    BY <1>7 DEF StoreLocal, StoreGlobal, StoreUpvalue
  <2>2. Ready(Ins) /\ Ins.op \in {"StoreLocal", "StoreGlobal", "StoreUpvalue"}
    BY <1>7 DEF StoreLocal, StoreGlobal, StoreUpvalue, Can
  <2>3. 0 < Len(stack)
    BY <2>2 DEF Ready, CompareOps
  <2>4. Operand(0) \in Value
    BY <2>3, OperandLeads
  <2> QED
    BY <1>1, <2>1, <2>4, GoodCopied, GoodStay
<1>8. CASE StoreElement
  <2>1. /\ heap' = WriteElement(CopyOf(Operand(1))[2], Operand(0).v, Ins.a,
                                CopyOf(Operand(1))[1])
        /\ 1 < Len(stack)
    BY <1>1, <1>8, ElementStorePops DEF StoreElement, HInv, IInv
  <2>2. Operand(1) \in Value
    BY <2>1, OperandLeads
  <2> QED
    BY <1>1, <2>1, <2>2, GoodCopied, GoodStay
<1>9. CASE StoreArrayElement /\ ~Fail(2)
  <2>1. /\ heap' = WriteElement(CopyOf(Operand(2))[2], Operand(1).v, Operand(0).v,
                                CopyOf(Operand(2))[1])
        /\ 2 < Len(stack)
    BY <1>9 DEF StoreArrayElement, Can, Ready, CompareOps
  <2>2. Operand(2) \in Value
    BY <2>1, OperandLeads
  <2> QED
    BY <1>1, <2>1, <2>2, GoodCopied, GoodStay
<1>10. CASE heap' # heap /\ [Next]_vars
  <2>1. \A n : ~Fail(n)
    BY <1>10 DEF Fail
  <2>2. ~(PushConst \/ ArithOp \/ Neg \/ Not \/ Dup \/ Pop \/ ToText \/ LenOp \/ CallNative)
    BY <1>10 DEF PushConst, ArithOp, Neg, Not, Dup, Pop, ToText, LenOp, CallNative
  <2>3. ~(LoadLocal \/ LoadGlobal \/ LoadUpvalue \/ LoadElement)
    BY <1>10 DEF LoadLocal, LoadGlobal, LoadUpvalue, LoadElement
  <2>4. ~(Div \/ Compare \/ Cast \/ Unwrap \/ LoadArrayElement)
    BY <1>10, <2>1 DEF Div, Compare, Cast, Unwrap, LoadArrayElement
  <2>5. ~(Jmp \/ Call \/ Return \/ Panic \/ Finish \/ Ended \/ UNCHANGED vars)
    BY <1>10 DEF Jmp, Call, Return, Panic, Finish, Ended, vars
  <2> QED
    BY <1>3, <1>4, <1>5, <1>6, <1>7, <1>8, <1>9, <2>1, <2>2, <2>3, <2>4, <2>5 DEF Next
<1> QED
  BY <1>2, <1>10

-----------------------------------------------------------------------------
(* Every step is one of five kinds.                                        *)

(* A failure that is caught: the frame that catches it was at an           *)
(* instruction its handler guards, the one that failed or a call that the  *)
(* failure came out of, and goes on at the handler with what that left,    *)
(* cut to the handler's depth.                                             *)
Lands ==
  \E i \in DOMAIN frames, pc \in Nat :
    LET fun  == Fun(frames[i].func)
        base == frames[i].stackBase
        left == Floors(fun)[pc + 1] - Takes(fun.code[pc + 1])
    IN  /\ pc < Len(fun.code)
        /\ \E h \in Handlers(fun, pc) :
             /\ Len(frames') = i /\ Stay(i, fun.handlers[h].target)
             /\ base + Least(left, fun.handlers[h].depth) <= Len(stack')
             /\ Len(stack') <= base + fun.handlers[h].depth
        /\ Len(stack') <= Len(stack) /\ Agrees(Len(stack'))

(* A call: the operands the callee does not take stay with the caller.     *)
Enters ==
  /\ Fetched /\ Ins.op = "Call"
  /\ Len(frames') = Len(frames) + 1 /\ Stay(Len(frames), Top.pc + 1)
  /\ LET callee == frames'[Len(frames) + 1]
     IN  /\ callee.func \in FuncIds \ {program.entry}
         /\ callee.stackBase = Len(stack) - Takes(Ins)
         /\ callee.pc = 0
  /\ Len(stack') = Len(stack) - Takes(Ins)
  /\ Agrees(Len(stack'))

(* A return.                                                               *)
Exits ==
  /\ AtEnd /\ stack' = stack
  /\ Len(frames') = Len(frames) - 1
  /\ \A i \in 1 .. Len(frames) - 1 : frames'[i] = frames[i]

Moves ==
  \/ Fetched /\ Goes
  \/ Fetched /\ Lands
  \/ Enters
  \/ Exits
  \/ frames' = << >>
  \/ UNCHANGED <<frames, stack>>

(* A running frame has the operands its instruction uses.                  *)
LEMMA TopHasOperands ==
  ASSUME SInv, Fetched
  PROVE  LET floor == Floors(Fun(Top.func))[Top.pc + 1]
         IN  /\ Top.func \in FuncIds /\ Top.stackBase \in Nat /\ Top.pc \in Nat
             /\ Top.pc < Len(Fun(Top.func).code)
             /\ floor \in Nat /\ Takes(Ins) \in Nat /\ Takes(Ins) <= floor
             /\ Len(stack) \in Nat /\ Top.stackBase + floor <= Len(stack)
<1>1. TypeOK /\ Balanced(program) /\ Enough
  BY DEF SInv, HInv, IInv
<1>2. frames # << >> /\ Top.pc < Len(Fun(Top.func).code)
  BY DEF Fetched, Live, Code
<1>3. /\ Len(frames) \in DOMAIN frames
      /\ Top.func \in FuncIds /\ Top.stackBase \in Nat /\ Top.pc \in Nat
  BY <1>1, <1>2, TopFrameType
<1>4. /\ Floors(Fun(Top.func))[Top.pc + 1] \in Nat
      /\ Takes(Ins) \in Nat /\ Takes(Ins) <= Floors(Fun(Top.func))[Top.pc + 1]
  BY <1>1, <1>2, <1>3, AtFloor DEF Ins, Code
<1>5. Standing(Top, Len(stack))
  BY <1>1, <1>3 DEF Enough, Top
<1>6. Top.stackBase + Floors(Fun(Top.func))[Top.pc + 1] <= Len(stack)
  BY <1>3, <1>4, <1>5, LenProperties DEF Standing, TypeOK
<1> QED
  BY <1>1, <1>2, <1>3, <1>4, <1>6, LenProperties DEF TypeOK

(* The frames and the operands a caught failure leaves.                    *)
LEMMA UnwindLeaves ==
  ASSUME TypeOK, NEW n \in Nat, n <= Len(stack), NEW i \in DOMAIN frames,
         NEW handler \in Handler, Unwind(n, i, handler)
  PROVE  /\ Len(frames') = i /\ Stay(i, handler.target)
         /\ Len(stack') = Least(Len(stack) - n, frames[i].stackBase + handler.depth)
         /\ Agrees(Len(stack'))
<1> DEFINE F == Frame(FuncIds, DOMAIN cells)
           fs == SubSeq(frames, 1, i)
           resumed == At(fs[i], handler.target)
<1>1. frames \in Seq(F) /\ i \in Nat /\ 1 <= i /\ i <= Len(frames)
  BY LenProperties DEF TypeOK
<1>2. /\ fs \in Seq(F) /\ Len(fs) = i
      /\ \A j \in 1 .. i : fs[j] = frames[j]
  BY <1>1, PrefixType
<1>3. frames' = [fs EXCEPT ![i] = resumed]
  BY DEF Unwind, At
<1>4. handler.target \in Nat /\ handler.depth \in Nat
  BY DEF Handler
<1> HIDE DEF fs
<1>5. fs[i] \in F /\ fs[i] = frames[i] /\ frames[i].stackBase \in Nat
  <2>1. fs[i] \in F /\ fs[i] = frames[i]
    BY <1>1, <1>2, ElementOfSeq
  <2> QED
    BY <2>1 DEF Frame
<1>6. /\ resumed \in F /\ resumed.pc = handler.target
      /\ resumed.func = frames[i].func /\ resumed.stackBase = frames[i].stackBase
  BY <1>4, <1>5, FrameAt DEF At, Frame
<1> HIDE DEF resumed
<1>7. /\ Len(frames') = i
      /\ \A j \in 1 .. i : frames'[j] = IF j = i THEN resumed ELSE fs[j]
  BY <1>1, <1>2, <1>3, <1>6, ExceptSeq
<1>8. Stay(i, handler.target)
  BY <1>1, <1>2, <1>6, <1>7 DEF Stay
<1> DEFINE depth == frames[i].stackBase + handler.depth
           below == Below(n)
           m     == IF depth < Len(below) THEN depth ELSE Len(below)
<1>9. /\ below \in Seq(Value) /\ Len(below) = Len(stack) - n /\ Len(below) \in Nat
      /\ \A j \in 1 .. Len(stack) - n : below[j] = stack[j]
  BY BelowLen, LenProperties
<1>10. depth \in Nat /\ stack' = SubSeq(below, 1, m)
  BY <1>4, <1>5 DEF Unwind, DepthAt, Truncate
<1> HIDE DEF depth, below
<1>11. m \in Nat /\ m <= Len(below) /\ m = Least(Len(stack) - n, depth)
  BY <1>9, <1>10 DEF Least
<1> HIDE DEF m
<1>12. Len(stack') = m /\ \A j \in 1 .. m : stack'[j] = below[j]
  BY <1>9, <1>10, <1>11, PrefixType
<1>13. Agrees(Len(stack'))
  BY <1>9, <1>11, <1>12 DEF Agrees
<1> QED
  BY <1>7, <1>8, <1>11, <1>12, <1>13 DEF depth

(* A caught failure lands.                                                 *)
LEMMA CaughtLands ==
  ASSUME SInv, Fetched, Ins.op \in MayFail, NEW n \in Nat, n <= Takes(Ins), Caught(n)
  PROVE  Lands
<1>1. TypeOK /\ Balanced(program) /\ Enough /\ BasesRise /\ GoodFrames
  BY DEF SInv, HInv, IInv
<1>0. PICK i \in Catching : \E g \in GuardedBy(i) :
        Unwind(n, i, Fun(frames[i].func).handlers[g])
  BY DEF Caught
<1>2. PICK h \in GuardedBy(i) : Unwind(n, i, Fun(frames[i].func).handlers[h])
  BY <1>0
<1> DEFINE f    == frames[i]
           fun  == Fun(f.func)
           hd   == fun.handlers[h]
           last == Len(frames)
<1>3. /\ i \in DOMAIN frames /\ DOMAIN frames = 1 .. last /\ last \in Nat
      /\ last \in DOMAIN frames
  <2>1. frames # << >>
    BY DEF Fetched, Live
  <2> QED
    BY <1>1, <2>1, TopFrameType DEF Catching
<1>4. /\ f.func \in FuncIds /\ f.stackBase \in Nat /\ f.pc \in Nat
      /\ hd \in Handler
  BY <1>1, <1>3, EachFrame, CaughtType DEF Frame, SInv
<1> DEFINE pc == IF i = last THEN f.pc ELSE f.pc - 1
<1>5. /\ Len(stack) \in Nat /\ n <= Len(stack) /\ Top.stackBase \in Nat
      /\ Takes(Ins) \in Nat /\ Top.stackBase <= Len(stack) - n
      /\ Top.stackBase + Floors(Fun(Top.func))[Top.pc + 1] - Takes(Ins) <= Len(stack) - n
  BY TopHasOperands
<1>6. /\ pc \in Nat /\ pc < Len(fun.code) /\ h \in Handlers(fun, pc)
      /\ f.stackBase + Floors(fun)[pc + 1] - Takes(fun.code[pc + 1]) <= Len(stack) - n
  <2>1. CASE i = last
    <3>1. f = Top /\ pc = Top.pc /\ fun.code = Code /\ Ins = fun.code[pc + 1]
      BY <2>1 DEF Top, Ins, Code
    <3>2. pc \in Nat /\ pc < Len(fun.code)
      BY <1>4, <2>1, <3>1 DEF Fetched
    <3>3. h \in Handlers(fun, pc)
      BY <2>1, <3>1 DEF GuardedBy, Handlers
    <3> QED
      BY <1>5, <3>1, <3>2, <3>3
  <2>2. CASE i # last
    <3>1. i + 1 \in DOMAIN frames /\ i + 1 <= last /\ i < last
      BY <1>3, <2>2
    <3>2. Waiting(f, frames[i + 1].stackBase) /\ f.pc <= Len(fun.code)
      BY <1>1, <1>3, <2>2 DEF Enough, GoodFrames
    <3>3. /\ f.pc >= 1 /\ fun.code[f.pc].op = "Call"
          /\ frames[i + 1].stackBase >=
               f.stackBase + Floors(fun)[f.pc] - Takes(fun.code[f.pc])
      BY <3>2 DEF Waiting
    <3>4. pc \in Nat /\ pc + 1 = f.pc /\ Len(fun.code) \in Nat
      BY <1>1, <1>4, <2>2, <3>3, FunType, LenProperties DEF Function
    <3>5. frames[i + 1].stackBase <= Top.stackBase
      BY <1>1, <1>3, <3>1 DEF BasesRise, Top
    <3>6. h \in Handlers(fun, pc)
      BY <2>2, <3>3, <3>4 DEF GuardedBy, Handlers
    <3>7. pc < Len(fun.code)
      BY <3>2, <3>4
    <3>8. frames[i + 1].stackBase \in Nat
      BY <1>1, <3>1, EachFrame DEF Frame
    <3>9. /\ Floors(fun)[pc + 1] \in Nat /\ Takes(fun.code[pc + 1]) \in Nat
      BY <1>1, <1>4, <3>4, <3>7, AtFloor
    <3> HIDE DEF pc, fun, f
    <3>10. f.stackBase + Floors(fun)[pc + 1] - Takes(fun.code[pc + 1]) <= Len(stack) - n
      <4>1. frames[i + 1].stackBase <= Len(stack) - n
        BY <1>5, <3>5, <3>8
      <4>2. frames[i + 1].stackBase >=
              f.stackBase + Floors(fun)[pc + 1] - Takes(fun.code[pc + 1])
        BY <3>3, <3>4
      <4> QED
        BY <1>4, <1>5, <3>8, <3>9, <4>1, <4>2
    <3> QED
      BY <3>4, <3>6, <3>7, <3>10
  <2> QED
    BY <2>1, <2>2
<1>7. /\ Len(frames') = i /\ Stay(i, hd.target)
      /\ Len(stack') = Least(Len(stack) - n, f.stackBase + hd.depth)
      /\ Agrees(Len(stack'))
  BY <1>1, <1>2, <1>3, <1>4, <1>5, UnwindLeaves
<1>8. /\ Floors(fun)[pc + 1] \in Nat /\ Takes(fun.code[pc + 1]) \in Nat
  BY <1>1, <1>4, <1>6, AtFloor
<1> DEFINE left == Floors(fun)[pc + 1] - Takes(fun.code[pc + 1])
<1>9. left \in Int /\ f.stackBase + left <= Len(stack) - n /\ hd.depth \in Nat
  BY <1>4, <1>6, <1>8, SMTT(30) DEF Handler
<1>10. /\ f.stackBase + Least(left, hd.depth) <= Len(stack')
       /\ Len(stack') <= f.stackBase + hd.depth
       /\ Len(stack') <= Len(stack)
  <2> HIDE DEF left, f, hd
  <2> QED
    BY <1>4, <1>5, <1>7, <1>9, SMTT(30) DEF Least
<1> QED
  BY <1>3, <1>6, <1>7, <1>10 DEF Lands

(* A call enters a function that is not the root code.                     *)
LEMMA CallEnters ==
  ASSUME SInv, Call
  PROVE  Enters
<1> DEFINE F    == Frame(FuncIds, DOMAIN cells)
           n    == Len(frames)
           pc   == Top.pc + 1
           below == [frames EXCEPT ![n].pc = pc]
           o    == Operand(Ins.a).v
           new  == NewFrame(heap[o].fn, Len(locals), Len(stack) - Ins.a - 1, heap[o].up)
<1>1. TypeOK /\ HInv /\ GoodHeap /\ Fetched /\ frames # << >>
  BY DEF SInv, HInv, IInv, Call, Can, Fetched, Live
<1>2. Ins \in Instr /\ Top \in F /\ Ins.op = "Call"
  BY <1>1, InsType, FrameType DEF Call, Can
<1>3. /\ Ins.a \in Nat /\ Top.pc \in Nat
      /\ Takes(Ins) = Ins.a + 1
  BY <1>2 DEF Instr, Frame, Takes, CompareOps
<1>4. /\ Len(stack) \in Nat /\ Len(locals) \in Nat
      /\ frames \in Seq(F) /\ n \in Nat /\ DOMAIN frames = 1 .. n /\ n \in DOMAIN frames
  BY <1>1, TopFrameType, LenProperties DEF TypeOK
<1>5. Ready(Ins)
  BY DEF Call, Can
<1>6. Len(stack) >= Ins.a + 1 /\ IsCallee(Operand(Ins.a))
  BY <1>2, <1>5 DEF Ready, CompareOps
<1>7. o \in DOMAIN heap /\ heap[o].k \in {"function", "method"}
  <2>1. heap[o].k # "native"
    BY DEF Call
  <2>2. Leads(Operand(Ins.a), heap)
    BY <1>1, <1>3, <1>4, <1>6, OperandLeads
  <2>3. CASE Operand(Ins.a).k = "method"
    BY <2>2, <2>3 DEF Leads, Handles
  <2>4. CASE Operand(Ins.a).k # "method"
    BY <1>6, <2>1, <2>4 DEF IsCallee, IsObj
  <2> QED
    BY <2>3, <2>4
<1>8. heap[o].fn \in FuncIds /\ heap[o].fn # program.entry /\ heap[o].up \in Seq(DOMAIN cells)
  BY <1>1, <1>7, HeapObject DEF Obj, GoodHeap, GoodObj
<1>9. /\ new \in F /\ new.func = heap[o].fn /\ new.pc = 0
      /\ new.stackBase = Len(stack) - Takes(Ins)
  BY <1>3, <1>4, <1>6, <1>8, SMTT(30) DEF NewFrame, Frame
<1>10. frames' = Append(below, new)
  BY DEF Call, Top
<1> HIDE DEF new
<1>11. /\ below \in Seq(F) /\ Len(below) = n
       /\ \A j \in 1 .. n : below[j] = IF j = n THEN At(frames[n], pc) ELSE frames[j]
  <2>1. pc \in Nat
    BY <1>3
  <2> HIDE DEF pc
  <2>2. At(frames[n], pc) \in F
    BY <1>4, <2>1, ElementOfSeq, FrameAt
  <2>3. below = [frames EXCEPT ![n] = At(frames[n], pc)]
    BY DEF At
  <2> HIDE DEF below
  <2> QED
    BY <1>4, <2>2, <2>3, ExceptSeq
<1> HIDE DEF below
<1>12. /\ Len(frames') = n + 1
       /\ \A i \in 1 .. n : frames'[i] = below[i]
       /\ frames'[n + 1] = new
  BY <1>9, <1>10, <1>11, AppendProperties
<1>13. Stay(n, Top.pc + 1)
  <2>1. \A i \in 1 .. n : frames[i] \in F
    BY <1>4, ElementOfSeq
  <2> QED
    BY <1>11, <1>12, <2>1 DEF Stay, At, Frame
<1>14. stack' = Below(Takes(Ins))
  BY <1>3 DEF Call
<1>15. Len(stack') = Len(stack) - Takes(Ins) /\ Agrees(Len(stack'))
  <2>1. Takes(Ins) \in Nat /\ Takes(Ins) <= Len(stack)
    BY <1>3, <1>4, <1>6
  <2> QED
    BY <1>1, <1>14, <2>1, BelowLen DEF Agrees
<1> QED
  BY <1>1, <1>2, <1>8, <1>9, <1>12, <1>13, <1>15 DEF Enters

(* A return exits.                                                         *)
LEMMA ReturnExits ==
  ASSUME TypeOK, Return
  PROVE  Exits
<1>1. /\ frames # << >> /\ AtEnd /\ stack' = stack
      /\ frames' = SubSeq(frames, 1, Len(frames) - 1)
  BY DEF Return, AtEnd, Live
<1>2. frames \in Seq(Frame(FuncIds, DOMAIN cells)) /\ Len(frames) \in Nat \ {0}
  BY <1>1, FrameType DEF TypeOK
<1> DEFINE m == Len(frames) - 1
<1>3. m \in Nat /\ m <= Len(frames) /\ frames' = SubSeq(frames, 1, m)
  BY <1>1, <1>2
<1> HIDE DEF m
<1>4. Len(frames') = m /\ \A i \in 1 .. m : frames'[i] = frames[i]
  BY <1>2, <1>3, PrefixType
<1> QED
  BY <1>1, <1>4 DEF Exits, m

(* Every step moves in one of these ways.                                  *)
LEMMA EveryStepMoves ==
  ASSUME SInv, [Next]_vars
  PROVE  Moves
<1>1. TypeOK /\ HInv /\ HInv' /\ TypeOK' /\ GoodHeap
  BY NextHInv DEF SInv, HInv, IInv
<1>2. ASSUME Fetched PROVE Takes(Ins) <= Len(stack)
  BY <1>2, TopHasOperands
<1>3. CASE Fetched /\ (\/ PushConst \/ ArithOp \/ Neg \/ Not \/ Dup \/ Pop \/ ToText \/ LenOp
                      \/ CallNative \/ LoadLocal \/ LoadGlobal \/ LoadUpvalue \/ LoadElement)
  BY <1>1, <1>2, <1>3, ComputeGoes DEF Moves
<1>4. CASE Fetched /\ (\/ PushString \/ PushMethod \/ MakeOption \/ MakeTuple \/ MakeArray
                      \/ MakeObject \/ Concat)
  BY <1>1, <1>2, <1>4, MakeGoes DEF Moves
<1>5. CASE Fetched /\ (StoreLocal \/ StoreGlobal \/ StoreUpvalue \/ StoreElement)
  BY <1>1, <1>2, <1>5, StoreGoes DEF Moves
<1>6. CASE Fetched /\ (\/ Div \/ Compare \/ Cast \/ Unwrap \/ LoadArrayElement
                      \/ StoreArrayElement)
  <2>1. Goes \/ Fails
    BY <1>1, <1>2, <1>6, FallibleGoes
  <2>2. CASE Fails
    <3>1. PICK n \in Nat : n <= Takes(Ins) /\ Fail(n) /\ Ins.op \in MayFail
      BY <2>2 DEF Fails
    <3>2. CASE Caught(n)
      BY <1>6, <3>1, <3>2, CaughtLands DEF Moves
    <3>3. CASE Uncaught
      BY <3>3 DEF Uncaught, Moves
    <3> QED
      BY <3>1, <3>2, <3>3 DEF Fail
  <2> QED
    BY <1>6, <2>1, <2>2 DEF Moves
<1>7. CASE Fetched /\ Jmp
  BY <1>1, <1>7, JmpGoes DEF Moves
<1>8. CASE Fetched /\ MakeClosure
  BY <1>1, <1>8, ClosureGoes DEF Moves
<1>9. CASE Call
  BY <1>9, CallEnters DEF Moves
<1>10. CASE Return
  BY <1>1, <1>10, ReturnExits DEF Moves
<1>11. CASE Panic \/ Finish \/ Ended \/ UNCHANGED vars
  BY <1>11 DEF Panic, Finish, Ended, vars, Moves
<1>12. CASE ~Fetched
  <2>1. ~(PushConst \/ ArithOp \/ Neg \/ Not \/ Dup \/ Pop \/ ToText \/ LenOp)
    BY <1>12 DEF PushConst, ArithOp, Neg, Not, Dup, Pop, ToText, LenOp, Can
  <2>2. ~(CallNative \/ LoadLocal \/ LoadGlobal \/ LoadUpvalue \/ LoadElement)
    BY <1>12 DEF CallNative, LoadLocal, LoadGlobal, LoadUpvalue, LoadElement, Can
  <2>3. ~(PushString \/ PushMethod \/ MakeOption \/ MakeTuple \/ MakeArray
            \/ MakeObject \/ Concat)
    BY <1>12 DEF PushString, PushMethod, MakeOption, MakeTuple, MakeArray,
       MakeObject, Concat, Can
  <2>4. ~(StoreLocal \/ StoreGlobal \/ StoreUpvalue \/ StoreElement \/ Jmp \/ MakeClosure)
    BY <1>12 DEF StoreLocal, StoreGlobal, StoreUpvalue, StoreElement, Jmp, MakeClosure, Can
  <2>5. ~(Div \/ Compare \/ Cast \/ Unwrap \/ LoadArrayElement \/ StoreArrayElement)
    BY <1>12 DEF Div, Compare, Cast, Unwrap, LoadArrayElement, StoreArrayElement, Can
  <2> QED
    BY <1>9, <1>10, <1>11, <2>1, <2>2, <2>3, <2>4, <2>5 DEF Next
<1> QED
  BY <1>3, <1>4, <1>5, <1>6, <1>7, <1>8, <1>9, <1>10, <1>11, <1>12 DEF Next

-----------------------------------------------------------------------------
(* What the moves keep.                                                    *)

(* No operand below the frame that runs next changes.                      *)
Undisturbed ==
  frames' # << >> =>
    LET base == frames'[Len(frames')].stackBase
    IN  /\ base \in Nat /\ base <= Len(stack) /\ base <= Len(stack')
        /\ Agrees(base)

(* Every frame of the stack, its pc and its floor there.                   *)
LEMMA FrameFloor ==
  ASSUME SInv, NEW i \in DOMAIN frames
  PROVE  LET fun == Fun(frames[i].func)
         IN  /\ frames[i].func \in FuncIds /\ frames[i].stackBase \in Nat
             /\ frames[i].pc \in Nat /\ frames[i].pc <= Len(fun.code)
             /\ Len(fun.code) \in Nat /\ fun.code \in Seq(Instr)
             /\ \A pc \in Nat : pc <= Len(fun.code) => Floors(fun)[pc + 1] \in Nat
<1> DEFINE fun == Fun(frames[i].func)
<1>1. TypeOK /\ Balanced(program) /\ GoodFrames
  BY DEF SInv, HInv, IInv
<1>2. /\ frames[i].func \in FuncIds /\ frames[i].stackBase \in Nat
      /\ frames[i].pc \in Nat /\ frames[i].pc <= Len(fun.code)
  BY <1>1, EachFrame DEF Frame, GoodFrames
<1>3. fun \in Function /\ Floored(fun, Floors(fun))
  BY <1>1, <1>2, FunFloored
<1> HIDE DEF fun
<1>4. /\ fun.code \in Seq(Instr) /\ Len(fun.code) \in Nat
      /\ Floors(fun) \in Seq(Nat) /\ Len(Floors(fun)) = Len(fun.code) + 1
  BY <1>3, LenProperties DEF Function, Floored
<1>5. ASSUME NEW pc \in Nat, pc <= Len(fun.code) PROVE Floors(fun)[pc + 1] \in Nat
  BY <1>4, <1>5, ElementOfSeq
<1> QED
  BY <1>2, <1>4, <1>5 DEF fun

(* The frames are numbered from 1.                                         *)
LEMMA FramesType ==
  ASSUME SInv
  PROVE  /\ DOMAIN frames = 1 .. Len(frames) /\ Len(frames) \in Nat
         /\ (frames # << >>) = (Len(frames) >= 1)
         /\ Len(stack) \in Nat
BY EmptySeq, LenProperties DEF SInv, HInv, IInv, TypeOK

(* The same after a step.                                                  *)
LEMMA FramesAfter ==
  ASSUME HInv'
  PROVE  /\ DOMAIN frames' = 1 .. Len(frames') /\ Len(frames') \in Nat
         /\ (frames' # << >>) = (Len(frames') >= 1)
         /\ Len(stack') \in Nat
BY EmptySeq, LenProperties DEF HInv, IInv, TypeOK

(* When some first frames stay and the last of them goes on at a pc with   *)
(* the operands that asks for, all is as it should be.                     *)
LEMMA Settles ==
  ASSUME SInv, HInv', program' = program, NEW n \in DOMAIN frames, NEW pc \in Nat,
         Len(frames') = n, Stay(n, pc), pc <= Len(Fun(frames[n].func).code),
         frames[n].stackBase + Floors(Fun(frames[n].func))[pc + 1] <= Len(stack')
  PROVE  GoodFrames' /\ BasesRise' /\ Enough'
<1>1. /\ DOMAIN frames = 1 .. Len(frames) /\ Len(frames) \in Nat /\ DOMAIN frames' = 1 .. n
  BY FramesType, FramesAfter
<1>2. ASSUME NEW i \in 1 .. n
      PROVE  /\ frames'[i].func = frames[i].func /\ frames'[i].stackBase = frames[i].stackBase
             /\ frames'[i].pc = IF i = n THEN pc ELSE frames[i].pc
  BY DEF Stay
<1>3. GoodFrames'
  BY <1>1, <1>2 DEF GoodFrames, SInv, Fun
<1>4. BasesRise'
  BY <1>1, <1>2 DEF BasesRise, SInv
<1>5. ASSUME NEW i \in 1 .. n
      PROVE  IF i = n THEN Standing(frames[i], Len(stack))'
                      ELSE Waiting(frames[i], frames[i + 1].stackBase)'
  <2>1. CASE i = n
    <3>1. /\ frames[i].stackBase \in Nat /\ Floors(Fun(frames[i].func))[pc + 1] \in Nat
          /\ Len(stack') \in Nat
      BY <2>1, FrameFloor, FramesAfter
    <3>2. Len(stack') >= frames[i].stackBase + Floors(Fun(frames[i].func))[pc + 1]
      BY <2>1, <3>1
    <3>3. /\ frames'[i].func = frames[i].func /\ frames'[i].stackBase = frames[i].stackBase
          /\ frames'[i].pc = pc
      BY <1>2, <2>1
    <3>4. Fun(frames[i].func)' = Fun(frames[i].func)
      BY <3>3 DEF Fun
    <3>5. Standing(frames[i], Len(stack))'
      BY <3>2, <3>3, <3>4 DEF Standing
    <3> QED
      BY <2>1, <3>5
  <2>2. CASE i # n
    <3>0. /\ n \in Nat /\ n <= Len(frames) /\ Len(frames) \in Nat
          /\ i \in Nat /\ 1 <= i /\ i < n
      BY <1>1, <2>2
    <3>a. i \in 1 .. Len(frames) /\ i # Len(frames)
      BY <3>0
    <3>b. i \in 1 .. n /\ i + 1 \in 1 .. n
      BY <3>0
    <3>1. i # Len(frames) /\ i \in DOMAIN frames /\ i \in 1 .. n /\ i + 1 \in 1 .. n
      BY <1>1, <3>a, <3>b, Zenon
    <3>2. Waiting(frames[i], frames[i + 1].stackBase)
      BY <3>1 DEF Enough, SInv
    <3>3. /\ frames'[i].func = frames[i].func /\ frames'[i].stackBase = frames[i].stackBase
          /\ frames'[i].pc = frames[i].pc
          /\ frames'[i + 1].stackBase = frames[i + 1].stackBase
      BY <1>2, <2>2, <3>1
    <3>4. Fun(frames[i].func)' = Fun(frames[i].func)
      BY <3>3 DEF Fun
    <3>5. Waiting(frames[i], frames[i + 1].stackBase)'
      BY <3>2, <3>3, <3>4 DEF Waiting
    <3> QED
      BY <2>2, <3>5
  <2> QED
    BY <2>1, <2>2
<1>6. Enough'
  BY <1>1, <1>5 DEF Enough
<1> QED
  BY <1>3, <1>4, <1>6

(* The operands of a frame begin somewhere on the stack.                   *)
LEMMA BaseOnStack ==
  ASSUME SInv, frames # << >>
  PROVE  Top.stackBase \in Nat /\ Top.stackBase <= Len(stack)
<1>1. Len(frames) \in DOMAIN frames /\ Len(stack) \in Nat
  BY FramesType
<1>2. Standing(Top, Len(stack))
  BY <1>1 DEF SInv, Enough, Top
<1>3. Top.stackBase \in Nat /\ Floors(Fun(Top.func))[Top.pc + 1] \in Nat
  BY <1>1, FrameFloor DEF Top
<1> QED
  BY <1>1, <1>2, <1>3 DEF Standing

(* An instruction that goes on.                                            *)
LEMMA GoesKeeps ==
  ASSUME SInv, HInv', program' = program, Fetched, Goes
  PROVE  GoodFrames' /\ BasesRise' /\ Enough' /\ Undisturbed
<1> DEFINE n   == Len(frames)
           fun == Fun(Top.func)
           to  == Onward(Ins, Top.pc)
           d   == Floors(fun)
<1>1. TypeOK /\ Balanced(program) /\ frames # << >>
  BY DEF SInv, HInv, IInv, Fetched, Live
<1>2. n \in DOMAIN frames /\ Top = frames[n] /\ Len(stack') \in Nat
  BY <1>1, FramesType, FramesAfter DEF Top
<1>3. /\ Top.func \in FuncIds /\ Top.pc \in Nat /\ Top.pc < Len(fun.code)
      /\ Top.stackBase \in Nat /\ d[Top.pc + 1] \in Nat /\ Len(stack) \in Nat
      /\ Takes(Ins) \in Nat /\ Takes(Ins) <= d[Top.pc + 1]
      /\ Top.stackBase + d[Top.pc + 1] <= Len(stack)
  BY TopHasOperands
<1>4. Ins \in Instr /\ Leaves(Ins) \in Nat /\ Ins = fun.code[Top.pc + 1]
  BY <1>1, InsType, CountsType DEF Ins, Code
<1>5. /\ to \in Nat /\ to <= Len(fun.code) /\ d[to + 1] \in Nat
      /\ d[to + 1] <= d[Top.pc + 1] - Takes(Ins) + Leaves(Ins)
  BY <1>1, <1>3, <1>4, FloorOnward
<1>6. /\ Len(frames') = n /\ Stay(n, to)
      /\ Len(stack') = Len(stack) - Takes(Ins) + Leaves(Ins)
      /\ Agrees(Len(stack) - Takes(Ins))
  BY DEF Goes, GoesTo
<1> HIDE DEF to, d, fun
<1>7. Top.stackBase + d[to + 1] <= Len(stack')
  BY <1>3, <1>4, <1>5, <1>6, SMTT(30)
<1>8. GoodFrames' /\ BasesRise' /\ Enough'
  BY <1>2, <1>5, <1>6, <1>7, Settles DEF d, fun
<1>9. frames'[Len(frames')].stackBase = Top.stackBase
  BY <1>2, <1>6, FramesType DEF Stay
<1>10. Agrees(Top.stackBase)
  BY <1>3, <1>6 DEF Agrees
<1>11. Top.stackBase <= Len(stack) /\ Top.stackBase <= Len(stack')
  BY <1>3, <1>5, <1>7
<1> QED
  BY <1>3, <1>8, <1>9, <1>10, <1>11 DEF Undisturbed

(* A caught failure.                                                       *)
LEMMA LandsKeeps ==
  ASSUME SInv, HInv', program' = program, Lands
  PROVE  GoodFrames' /\ BasesRise' /\ Enough' /\ Undisturbed
<1>1. TypeOK /\ Balanced(program)
  BY DEF SInv, HInv, IInv
<1>2. PICK i \in DOMAIN frames, pc \in Nat :
        LET fun  == Fun(frames[i].func)
            base == frames[i].stackBase
            left == Floors(fun)[pc + 1] - Takes(fun.code[pc + 1])
        IN  /\ pc < Len(fun.code)
            /\ \E h \in Handlers(fun, pc) :
                 /\ Len(frames') = i /\ Stay(i, fun.handlers[h].target)
                 /\ base + Least(left, fun.handlers[h].depth) <= Len(stack')
                 /\ Len(stack') <= base + fun.handlers[h].depth
            /\ Len(stack') <= Len(stack) /\ Agrees(Len(stack'))
  BY DEF Lands
<1> DEFINE fun  == Fun(frames[i].func)
           base == frames[i].stackBase
           d    == Floors(fun)
           left == d[pc + 1] - Takes(fun.code[pc + 1])
<1>3. pc < Len(fun.code) /\ Len(stack') <= Len(stack) /\ Agrees(Len(stack'))
  BY <1>2
<1>4. PICK h \in Handlers(fun, pc) :
        /\ Len(frames') = i /\ Stay(i, fun.handlers[h].target)
        /\ base + Least(left, fun.handlers[h].depth) <= Len(stack')
  BY <1>2
<1> DEFINE hd == fun.handlers[h]
<1>5. frames[i].func \in FuncIds /\ base \in Nat
  BY FrameFloor
<1>6. /\ hd \in Handler /\ hd.target <= Len(fun.code) /\ d[hd.target + 1] \in Nat
      /\ d[hd.target + 1] <= hd.depth
      /\ d[hd.target + 1] <= d[pc + 1] - Takes(fun.code[pc + 1])
  BY <1>1, <1>3, <1>5, FloorHandler
<1>7. d[pc + 1] \in Nat /\ Takes(fun.code[pc + 1]) \in Nat
  BY <1>1, <1>3, <1>5, AtFloor
<1>8. hd.target \in Nat /\ hd.depth \in Nat
  BY <1>6 DEF Handler
<1>9. Len(stack') \in Nat /\ Len(stack) \in Nat
  BY FramesType, FramesAfter
<1>10. base + d[hd.target + 1] <= Len(stack')
  <2>1. d[hd.target + 1] <= Least(left, hd.depth) /\ Least(left, hd.depth) \in Int
    BY <1>6, <1>7, <1>8 DEF Least
  <2>2. base + Least(left, hd.depth) <= Len(stack')
    BY <1>4
  <2> HIDE DEF left, hd, d, base
  <2> QED
    BY <1>5, <1>6, <1>9, <2>1, <2>2
<1>11. GoodFrames' /\ BasesRise' /\ Enough'
  BY <1>4, <1>6, <1>8, <1>10, Settles
<1>12. frames'[Len(frames')].stackBase = base
  BY <1>4, FramesType DEF Stay
<1>13. base <= Len(stack') /\ base <= Len(stack) /\ Agrees(base)
  BY <1>3, <1>5, <1>6, <1>9, <1>10 DEF Agrees
<1> QED
  BY <1>5, <1>11, <1>12, <1>13 DEF Undisturbed

(* A call.                                                                 *)
LEMMA EntersKeeps ==
  ASSUME SInv, HInv', program' = program, Enters
  PROVE  GoodFrames' /\ BasesRise' /\ Enough' /\ Undisturbed
<1>0. PICK n : n = Len(frames)
  OBVIOUS
<1> DEFINE fun == Fun(Top.func)
           new == frames'[n + 1]
<1>1. TypeOK /\ Balanced(program) /\ frames # << >> /\ Fetched
  BY DEF SInv, HInv, IInv, Enters, Fetched, Live
<1>2. /\ n \in DOMAIN frames /\ Top = frames[n] /\ n \in Nat /\ n >= 1
      /\ DOMAIN frames = 1 .. n /\ DOMAIN frames' = 1 .. n + 1 /\ Len(stack') \in Nat
  BY <1>0, <1>1, FramesType, FramesAfter DEF Top, Enters
<1>3. /\ Top.func \in FuncIds /\ Top.pc \in Nat /\ Top.pc < Len(fun.code)
      /\ Top.stackBase \in Nat /\ Floors(fun)[Top.pc + 1] \in Nat /\ Len(stack) \in Nat
      /\ Takes(Ins) \in Nat /\ Takes(Ins) <= Floors(fun)[Top.pc + 1]
      /\ Top.stackBase + Floors(fun)[Top.pc + 1] <= Len(stack)
  BY <1>1, TopHasOperands
<1>4. Ins = fun.code[Top.pc + 1] /\ Ins.op = "Call" /\ Len(fun.code) \in Nat
  BY <1>2, FrameFloor DEF Ins, Code, Enters
<1>5. /\ Len(frames') = n + 1 /\ Stay(n, Top.pc + 1)
      /\ new.func \in FuncIds /\ new.func # program.entry
      /\ new.stackBase = Len(stack) - Takes(Ins) /\ new.pc = 0
      /\ Len(stack') = Len(stack) - Takes(Ins) /\ Agrees(Len(stack'))
  BY <1>0 DEF Enters
<1>6. ASSUME NEW i \in 1 .. n
      PROVE  /\ frames'[i].func = frames[i].func /\ frames'[i].stackBase = frames[i].stackBase
             /\ frames'[i].pc = IF i = n THEN Top.pc + 1 ELSE frames[i].pc
  BY <1>5 DEF Stay
<1>7. /\ Floors(Fun(new.func)) \in Seq(Nat) /\ Floors(Fun(new.func))[1] = 0
      /\ Len(Fun(new.func).code) \in Nat
  BY <1>1, <1>5, FunFloored, LenProperties DEF Floored, Function
<1>8. \A i \in DOMAIN frames' : i \in 1 .. n \/ i = n + 1
  BY <1>2
<1> HIDE DEF new
<1>9. GoodFrames'
  <2>1. ASSUME NEW i \in 1 .. n
        PROVE  /\ i > 1 => frames'[i].func # program'.entry
               /\ frames'[i].pc <= Len(Fun(frames'[i].func).code)
    <3>1. /\ i > 1 => frames[i].func # program.entry
          /\ frames[i].pc <= Len(Fun(frames[i].func).code)
      BY <1>2 DEF SInv, GoodFrames
    <3>2. /\ frames'[i].func = frames[i].func
          /\ frames'[i].pc = IF i = n THEN Top.pc + 1 ELSE frames[i].pc
      BY <1>6
    <3>3. CASE i = n
      <4>1. frames'[i].pc = Top.pc + 1 /\ Fun(frames'[i].func) = fun
        BY <1>2, <3>2, <3>3
      <4>2. Top.pc + 1 <= Len(fun.code)
        BY <1>3, <1>4
      <4> QED
        BY <3>1, <3>2, <4>1, <4>2
    <3>4. CASE i # n
      BY <3>1, <3>2, <3>4
    <3> QED
      BY <3>3, <3>4
  <2>2. /\ frames'[n + 1].func # program'.entry
        /\ frames'[n + 1].pc <= Len(Fun(frames'[n + 1].func).code)
    BY <1>5, <1>7 DEF new
  <2>3. \A f : Fun(f)' = Fun(f)
    BY DEF Fun
  <2> QED
    BY <1>8, <2>1, <2>2, <2>3 DEF GoodFrames, Fun
<1>10. \A i \in 1 .. n : frames[i].stackBase \in Nat /\ frames[i].stackBase <= Top.stackBase
  BY <1>2, FrameFloor DEF SInv, BasesRise
<1>11. Top.stackBase <= new.stackBase /\ new.stackBase \in Nat
  BY <1>3, <1>5
<1>12. BasesRise'
  <2> SUFFICES ASSUME NEW i \in DOMAIN frames', NEW j \in DOMAIN frames', i <= j
               PROVE  frames'[i].stackBase <= frames'[j].stackBase
    BY DEF BasesRise
  <2>1. CASE i \in 1 .. n /\ j \in 1 .. n
    BY <1>2, <1>6, <2>1 DEF SInv, BasesRise
  <2>2. CASE i \in 1 .. n /\ j = n + 1
    <3>1. frames'[i].stackBase = frames[i].stackBase
      BY <1>6, <2>2
    <3>2. /\ frames[i].stackBase \in Nat /\ frames[i].stackBase <= Top.stackBase
          /\ Top.stackBase \in Nat
      BY <1>3, <1>10, <2>2
    <3>3. frames[i].stackBase <= new.stackBase
      BY <1>11, <3>2
    <3> QED
      BY <2>2, <3>1, <3>3 DEF new
  <2>3. CASE i = n + 1
    BY <1>2, <1>11, <2>3 DEF new
  <2> QED
    BY <1>8, <2>1, <2>2, <2>3
<1>13. Standing(frames[n + 1], Len(stack))'
  <2>1. Fun(frames[n + 1].func)' = Fun(new.func)
    BY DEF Fun, new
  <2>2. Len(stack') >= new.stackBase + Floors(Fun(new.func))[new.pc + 1]
    BY <1>3, <1>5, <1>7
  <2> QED
    BY <2>1, <2>2 DEF Standing, new
<1>14. Waiting(frames[n], frames[n + 1].stackBase)'
  <2>1. /\ frames'[n].func = Top.func /\ frames'[n].stackBase = Top.stackBase
        /\ frames'[n].pc = Top.pc + 1
    BY <1>2, <1>6
  <2>2. Fun(frames[n].func)' = fun
    BY <2>1 DEF Fun
  <2>3. new.stackBase >= Top.stackBase + Floors(fun)[Top.pc + 1] - Takes(fun.code[Top.pc + 1])
    BY <1>3, <1>4, <1>5
  <2> HIDE DEF fun
  <2>4. Top.pc + 1 >= 1
    BY <1>3
  <2> QED
    BY <1>4, <2>1, <2>2, <2>3, <2>4 DEF Waiting, new
<1>15. ASSUME NEW i \in 1 .. n, i # n
       PROVE  Waiting(frames[i], frames[i + 1].stackBase)'
  <2>1. Waiting(frames[i], frames[i + 1].stackBase) /\ i + 1 \in 1 .. n
    BY <1>0, <1>2, <1>15 DEF SInv, Enough
  <2>2. /\ frames'[i].func = frames[i].func /\ frames'[i].stackBase = frames[i].stackBase
        /\ frames'[i].pc = frames[i].pc
        /\ frames'[i + 1].stackBase = frames[i + 1].stackBase
    BY <1>6, <1>15, <2>1
  <2>3. Fun(frames[i].func)' = Fun(frames[i].func)
    BY <2>2 DEF Fun
  <2> QED
    BY <2>1, <2>2, <2>3 DEF Waiting
<1>16. Enough'
  BY <1>2, <1>5, <1>8, <1>13, <1>14, <1>15 DEF Enough
<1>17. Undisturbed
  BY <1>3, <1>5, <1>11 DEF Undisturbed, new
<1> QED
  BY <1>9, <1>12, <1>16, <1>17

(* A return finds the caller where its call left it, with a result more.   *)
LEMMA ExitsKeeps ==
  ASSUME SInv, HInv', program' = program, Exits
  PROVE  GoodFrames' /\ BasesRise' /\ Enough' /\ Undisturbed
<1> DEFINE n == Len(frames) - 1
<1>1. TypeOK /\ Balanced(program) /\ frames # << >> /\ Top.pc >= Len(Code)
  BY DEF SInv, HInv, IInv, Exits, AtEnd, Live
<1>2. /\ n \in Nat /\ DOMAIN frames = 1 .. n + 1 /\ Len(frames) = n + 1
      /\ Len(stack) \in Nat /\ n + 1 \in DOMAIN frames
  BY <1>1, FramesType
<1>3. /\ Len(frames') = n /\ stack' = stack
      /\ \A i \in 1 .. n : frames'[i] = frames[i]
  BY DEF Exits
<1>4. DOMAIN frames' = 1 .. n
  BY <1>3, FramesAfter
<1> HIDE DEF n
<1>5. CASE n = 0
  BY <1>3, <1>4, <1>5, FramesAfter DEF GoodFrames, BasesRise, Enough, Undisturbed
<1>6. CASE n # 0
  <2> DEFINE f   == frames[n]
             fun == Fun(f.func)
             d   == Floors(fun)
             pc  == f.pc - 1
  <2>1. n \in DOMAIN frames /\ n # Len(frames) /\ Top = frames[n + 1]
    BY <1>2, <1>6 DEF Top
  <2>2. Waiting(f, Top.stackBase)
    BY <2>1 DEF SInv, Enough
  <2>3. /\ f.func \in FuncIds /\ f.stackBase \in Nat /\ f.pc \in Nat
        /\ f.pc <= Len(fun.code) /\ Len(fun.code) \in Nat
    BY <2>1, FrameFloor
  <2>4. /\ f.pc >= 1 /\ fun.code[f.pc].op = "Call"
        /\ Top.stackBase >= f.stackBase + d[f.pc] - Takes(fun.code[f.pc])
    BY <2>2 DEF Waiting
  <2>5. pc \in Nat /\ pc < Len(fun.code) /\ pc + 1 = f.pc
    BY <2>3, <2>4
  <2>6. Onward(fun.code[pc + 1], pc) = f.pc /\ Leaves(fun.code[pc + 1]) = 1
    BY <2>4, <2>5 DEF Onward, Leaves
  <2>7. d[f.pc + 1] <= d[pc + 1] - Takes(fun.code[pc + 1]) + Leaves(fun.code[pc + 1])
    BY <1>1, <2>3, <2>5, <2>6, FloorOnward
  <2>8. /\ d[pc + 1] \in Nat /\ Takes(fun.code[pc + 1]) \in Nat /\ d[f.pc + 1] \in Nat
    BY <1>1, <2>1, <2>3, <2>5, AtFloor, FrameFloor
  <2>9. Len(stack) >= Top.stackBase + 1
    <3>1. Standing(Top, Len(stack)) /\ Top.func # program.entry
      BY <1>2, <1>6, <2>1 DEF SInv, Enough, GoodFrames
    <3>2. /\ Top.func \in FuncIds /\ Top.stackBase \in Nat /\ Top.pc \in Nat
          /\ Top.pc <= Len(Code) /\ Len(Code) \in Nat
          /\ Floors(Fun(Top.func))[Top.pc + 1] \in Nat
      BY <1>2, <2>1, FrameFloor DEF Code
    <3>3. Top.pc = Len(Code)
      BY <1>1, <3>2
    <3>4. Floors(Fun(Top.func))[Top.pc + 1] >= 1
      BY <1>1, <3>1, <3>2, <3>3, FunFloored DEF Code
    <3> QED
      BY <1>2, <3>1, <3>2, <3>4 DEF Standing
  <2>10. Top.stackBase \in Nat
    BY <1>1, BaseOnStack
  <2> HIDE DEF d, fun, f
  <2>11. f.stackBase + d[f.pc + 1] <= Len(stack')
    <3>1. Top.stackBase >= f.stackBase + d[pc + 1] - Takes(fun.code[pc + 1])
      BY <2>4, <2>5
    <3>2. d[f.pc + 1] <= d[pc + 1] - Takes(fun.code[pc + 1]) + 1
      BY <2>6, <2>7
    <3> HIDE DEF pc
    <3> QED
      BY <1>2, <1>3, <2>3, <2>8, <2>9, <2>10, <3>1, <3>2, SMTT(30)
  <2>12. Stay(n, f.pc)
    BY <1>3, <2>1 DEF Stay, f
  <2>13. GoodFrames' /\ BasesRise' /\ Enough'
    BY <1>3, <2>1, <2>3, <2>11, <2>12, Settles DEF f, fun, d
  <2>14. frames'[Len(frames')].stackBase = f.stackBase
    BY <1>2, <1>3, <1>6 DEF f
  <2>15. f.stackBase <= Len(stack) /\ Agrees(f.stackBase)
    BY <1>2, <1>3, <2>3, <2>8, <2>11 DEF Agrees
  <2> QED
    BY <1>3, <2>3, <2>13, <2>14, <2>15 DEF Undisturbed
<1> QED
  BY <1>5, <1>6

(* Whatever bytecode of a balanced program runs: after every step the      *)
(* operands of every frame are its own.                                    *)
LEMMA StepKeeps ==
  ASSUME SInv, [Next]_vars
  PROVE  SInv' /\ Undisturbed
<1>1. /\ HInv' /\ program' = program /\ GoodHeap' /\ Moves
      /\ HInv /\ GoodHeap /\ Balanced(program)
  BY NextHInv, ProgramKept, HeapStays, EveryStepMoves DEF SInv
<1>2. Balanced(program)'
  BY <1>1
<1>3. CASE Fetched /\ Goes
  BY <1>1, <1>2, <1>3, GoesKeeps DEF SInv
<1>4. CASE Lands
  BY <1>1, <1>2, <1>4, LandsKeeps DEF SInv
<1>5. CASE Enters
  BY <1>1, <1>2, <1>5, EntersKeeps DEF SInv
<1>6. CASE Exits
  BY <1>1, <1>2, <1>6, ExitsKeeps DEF SInv
<1>7. CASE frames' = << >>
  <2>1. DOMAIN frames' = {}
    BY <1>7
  <2>2. GoodFrames' /\ BasesRise' /\ Enough' /\ Undisturbed
    BY <1>7, <2>1 DEF GoodFrames, BasesRise, Enough, Undisturbed
  <2> QED
    BY <1>1, <1>2, <2>2 DEF SInv
<1>8. CASE UNCHANGED <<frames, stack>>
  <2>1. \A f : Fun(f)' = Fun(f)
    BY <1>1 DEF Fun
  <2>2. GoodFrames'
    BY <1>1, <1>8 DEF GoodFrames, SInv, Fun
  <2>3. BasesRise'
    BY <1>8 DEF BasesRise, SInv
  <2>4. Enough'
    BY <1>1, <1>8 DEF Enough, Standing, Waiting, SInv, Fun
  <2>5. Undisturbed
    BY <1>8, BaseOnStack DEF Undisturbed, Agrees, Top
  <2> QED
    BY <1>1, <1>2, <2>2, <2>3, <2>4, <2>5 DEF SInv
<1> QED
  BY <1>1, <1>3, <1>4, <1>5, <1>6, <1>7, <1>8 DEF Moves

(* The machine starts with the root code and no operand.                   *)
LEMMA InitSound == Init /\ Balanced(program) => SInv
<1> SUFFICES ASSUME Init, Balanced(program) PROVE SInv
  OBVIOUS
<1>1. HInv /\ TypeOK
  BY InitLeads DEF HInv, IInv
<1>2. /\ frames = << NewFrame(program.entry, 0, 0, << >>) >> /\ stack = << >>
      /\ heap = << Plain("native", PrintType, << >>) >>
  BY DEF Init
<1>3. GoodHeap
  BY <1>2 DEF GoodHeap, GoodObj, Plain
<1>4. /\ DOMAIN frames = {1} /\ Len(frames) = 1
      /\ frames[1].func = program.entry /\ frames[1].pc = 0 /\ frames[1].stackBase = 0
  BY <1>2 DEF NewFrame
<1>5. program.entry \in FuncIds
  BY <1>1, <1>4, EachFrame DEF Frame
<1> DEFINE fun == Fun(program.entry)
<1>6. fun \in Function /\ Floored(fun, Floors(fun))
  BY <1>1, <1>5, FunFloored
<1> HIDE DEF fun
<1>7. Len(fun.code) \in Nat /\ Floors(fun)[1] = 0
  BY <1>6, LenProperties DEF Function, Floored
<1>8. GoodFrames
  BY <1>4, <1>7 DEF GoodFrames, fun
<1>9. BasesRise
  BY <1>4 DEF BasesRise
<1>10. Standing(frames[1], Len(stack))
  BY <1>2, <1>4, <1>7 DEF Standing, fun
<1>11. Enough
  BY <1>4, <1>10 DEF Enough
<1> QED
  BY <1>1, <1>3, <1>8, <1>9, <1>11 DEF SInv

-----------------------------------------------------------------------------
(* At most so many operands.                                               *)

(* A frame has no more operands than its pc allows.                        *)
Capping(f, n) == n <= f.stackBase + Ceilings(Fun(f.func))[f.pc + 1]

CappingCall(f, n) ==
  LET fun == Fun(f.func)
  IN  n <= f.stackBase + Ceilings(fun)[f.pc] - Takes(fun.code[f.pc])

AtMost ==
  \A i \in DOMAIN frames :
    IF i = Len(frames) THEN Capping(frames[i], Len(stack))
                       ELSE CappingCall(frames[i], frames[i + 1].stackBase)

(* Ceilings count a call for one operand: it has to leave no more.          *)
KeepsCeilings(prog) == Capped(prog) /\ LeavesOne(prog)

UInv == SInv /\ KeepsCeilings(program) /\ AtMost

(* A function of a capped program keeps to its ceilings.                   *)
LEMMA FunCeiled ==
  ASSUME TypeOK, KeepsCeilings(program), NEW f \in FuncIds
  PROVE  LET fun == Fun(f)
         IN  /\ Ceiled(fun, Ceilings(fun))
             /\ f # program.entry => Ceilings(fun)[Len(fun.code) + 1] <= 1
             /\ \A pc \in Nat : pc <= Len(fun.code) => Ceilings(fun)[pc + 1] \in Nat
<1> DEFINE fun == Fun(f)
<1>1. /\ program.functions \in Seq(Function) /\ program.entry \in Nat
      /\ Len(program.functions) \in Nat
      /\ DOMAIN program.functions = 1 .. Len(program.functions)
  BY LenProperties DEF TypeOK, Program
<1>2. f \in Nat /\ f + 1 \in DOMAIN program.functions
  BY <1>1 DEF FuncIds
<1>3. f # program.entry => f + 1 # program.entry + 1
  BY <1>1, <1>2
<1>4. /\ Ceiled(fun, Ceilings(fun))
      /\ f # program.entry => Ceilings(fun)[Len(fun.code) + 1] <= 1
  BY <1>2, <1>3 DEF KeepsCeilings, Capped, LeavesOne, Fun
<1>5. fun \in Function
  BY FunType
<1> HIDE DEF fun
<1>6. /\ Len(fun.code) \in Nat /\ Ceilings(fun) \in Seq(Nat)
      /\ Len(Ceilings(fun)) = Len(fun.code) + 1
  BY <1>4, <1>5, LenProperties DEF Ceiled, Function
<1>7. ASSUME NEW pc \in Nat, pc <= Len(fun.code) PROVE Ceilings(fun)[pc + 1] \in Nat
  BY <1>6, <1>7, ElementOfSeq
<1> QED
  BY <1>4, <1>7 DEF fun

(* On no way on are there more operands than where it leads allows.        *)
LEMMA CeilingOnward ==
  ASSUME TypeOK, KeepsCeilings(program), NEW f \in FuncIds,
         NEW pc \in Nat, pc < Len(Fun(f).code)
  PROVE  LET i == Fun(f).code[pc + 1]
             d == Ceilings(Fun(f))
         IN  /\ d[pc + 1] - Takes(i) + Leaves(i) <= d[Onward(i, pc) + 1]
             /\ \A h \in Handlers(Fun(f), pc) :
                  LET handler == Fun(f).handlers[h]
                  IN  handler.depth <= d[handler.target + 1]
<1> DEFINE fun == Fun(f)
           d   == Ceilings(fun)
           i   == fun.code[pc + 1]
<1>1. fun \in Function /\ Ceiled(fun, d)
  BY FunType, FunCeiled
<1>2. pc < Len(fun.code)
  OBVIOUS
<1> HIDE DEF d, fun
<1>3. pc \in 0 .. Len(fun.code) - 1
  BY <1>1, <1>2, LenProperties DEF Function
<1>4. \A w \in Ways(fun, pc, d[pc + 1]) : w.most <= d[w.to + 1]
  BY <1>1, <1>3 DEF Ceiled
<1>5. d[pc + 1] - Takes(i) + Leaves(i) <= d[Onward(i, pc) + 1]
  <2> DEFINE w == [to |-> Onward(i, pc), least |-> d[pc + 1] - Takes(i) + Leaves(i),
                   most |-> d[pc + 1] - Takes(i) + Leaves(i)]
  <2>1. w \in Ways(fun, pc, d[pc + 1])
    BY DEF Ways
  <2>2. w.most <= d[w.to + 1]
    BY <1>4, <2>1
  <2> QED
    BY <2>2
<1>6. ASSUME NEW h \in Handlers(fun, pc)
      PROVE  fun.handlers[h].depth <= d[fun.handlers[h].target + 1]
  <2> DEFINE w == [to |-> fun.handlers[h].target,
                   least |-> Least(d[pc + 1] - Takes(i), fun.handlers[h].depth),
                   most |-> fun.handlers[h].depth]
  <2>1. w \in Ways(fun, pc, d[pc + 1])
    BY DEF Ways
  <2>2. w.most <= d[w.to + 1]
    BY <1>4, <2>1
  <2> QED
    BY <2>2
<1> QED
  BY <1>5, <1>6 DEF d, fun

(* When some first frames stay and the last of them goes on at a pc that   *)
(* allows its operands, none has more than it may.                         *)
LEMMA StaysCapped ==
  ASSUME UInv, HInv', program' = program, NEW n \in DOMAIN frames, NEW pc \in Nat,
         Len(frames') = n, Stay(n, pc),
         Len(stack') <= frames[n].stackBase + Ceilings(Fun(frames[n].func))[pc + 1]
  PROVE  AtMost'
<1>1. /\ DOMAIN frames = 1 .. Len(frames) /\ Len(frames) \in Nat /\ DOMAIN frames' = 1 .. n
  BY FramesType, FramesAfter DEF UInv
<1>2. ASSUME NEW i \in 1 .. n
      PROVE  /\ frames'[i].func = frames[i].func /\ frames'[i].stackBase = frames[i].stackBase
             /\ frames'[i].pc = IF i = n THEN pc ELSE frames[i].pc
             /\ Fun(frames[i].func)' = Fun(frames[i].func)
  BY DEF Stay, Fun
<1>3. ASSUME NEW i \in 1 .. n
      PROVE  IF i = n THEN Capping(frames[i], Len(stack))'
                      ELSE CappingCall(frames[i], frames[i + 1].stackBase)'
  <2>1. CASE i = n
    BY <1>2, <2>1 DEF Capping
  <2>2. CASE i # n
    <3>1. /\ n \in Nat /\ n <= Len(frames) /\ Len(frames) \in Nat
          /\ i \in Nat /\ 1 <= i /\ i < n
      BY <1>1, <2>2
    <3>2. i \in 1 .. Len(frames) /\ i # Len(frames) /\ i + 1 \in 1 .. n
      BY <3>1
    <3>3. CappingCall(frames[i], frames[i + 1].stackBase)
      BY <1>1, <3>2 DEF UInv, AtMost
    <3>4. /\ frames'[i].pc = frames[i].pc
          /\ frames'[i + 1].stackBase = frames[i + 1].stackBase
      BY <1>2, <2>2, <3>2
    <3>5. CappingCall(frames[i], frames[i + 1].stackBase)'
      BY <1>2, <3>3, <3>4 DEF CappingCall
    <3> QED
      BY <2>2, <3>5
  <2> QED
    BY <2>1, <2>2
<1> QED
  BY <1>1, <1>3 DEF AtMost

(* A running frame has no more operands than its pc allows.                *)
LEMMA TopCapped ==
  ASSUME UInv, frames # << >>
  PROVE  LET fun == Fun(Top.func)
         IN  /\ Len(frames) \in DOMAIN frames
             /\ Top.func \in FuncIds /\ Top.stackBase \in Nat /\ Top.pc \in Nat
             /\ Top.pc <= Len(fun.code) /\ Len(fun.code) \in Nat
             /\ \A pc \in Nat : pc <= Len(fun.code) => Ceilings(fun)[pc + 1] \in Nat
             /\ Len(stack) <= Top.stackBase + Ceilings(fun)[Top.pc + 1]
<1>1. TypeOK /\ KeepsCeilings(program) /\ SInv /\ AtMost
  BY DEF UInv, SInv, HInv, IInv
<1>2. Len(frames) \in DOMAIN frames
  BY <1>1, FramesType
<1>3. /\ Top.func \in FuncIds /\ Top.stackBase \in Nat /\ Top.pc \in Nat
      /\ Top.pc <= Len(Fun(Top.func).code) /\ Len(Fun(Top.func).code) \in Nat
  BY <1>1, <1>2, FrameFloor DEF Top
<1>4. Capping(Top, Len(stack))
  BY <1>1, <1>2 DEF AtMost, Top
<1> QED
  BY <1>1, <1>2, <1>3, <1>4, FunCeiled DEF Capping

(* An instruction that goes on.                                            *)
LEMMA GoesCapped ==
  ASSUME UInv, HInv', program' = program, Fetched, Goes
  PROVE  AtMost'
<1> DEFINE fun == Fun(Top.func)
           to  == Onward(Ins, Top.pc)
           d   == Ceilings(fun)
<1>1. TypeOK /\ SInv /\ Balanced(program) /\ KeepsCeilings(program) /\ frames # << >>
  BY DEF UInv, SInv, HInv, IInv, Fetched, Live
<1>2. /\ Len(frames) \in DOMAIN frames /\ Top = frames[Len(frames)]
      /\ Top.func \in FuncIds /\ Top.stackBase \in Nat /\ Top.pc \in Nat
      /\ Top.pc < Len(fun.code) /\ d[Top.pc + 1] \in Nat
      /\ Len(stack) <= Top.stackBase + d[Top.pc + 1]
  BY <1>1, TopCapped DEF Top, Fetched, Code
<1>3. Ins \in Instr /\ Leaves(Ins) \in Nat /\ Takes(Ins) \in Nat
      /\ Ins = fun.code[Top.pc + 1] /\ Len(stack) \in Nat
  BY <1>1, InsType, CountsType, FramesType DEF Ins, Code
<1>4. to \in Nat /\ to <= Len(fun.code)
  BY <1>1, <1>2, <1>3, FloorOnward
<1>5. d[to + 1] \in Nat
  BY <1>1, <1>2, <1>4, FunCeiled
<1>6. d[Top.pc + 1] - Takes(Ins) + Leaves(Ins) <= d[to + 1]
  BY <1>1, <1>2, <1>3, CeilingOnward
<1>7. /\ Len(frames') = Len(frames) /\ Stay(Len(frames), to)
      /\ Len(stack') = Len(stack) - Takes(Ins) + Leaves(Ins)
  BY DEF Goes, GoesTo
<1> HIDE DEF to, d, fun
<1>8. Len(stack') <= Top.stackBase + d[to + 1]
  BY <1>2, <1>3, <1>5, <1>6, <1>7, SMTT(30)
<1> QED
  BY <1>2, <1>4, <1>7, <1>8, StaysCapped DEF d, fun

(* A caught failure.                                                       *)
LEMMA LandsCapped ==
  ASSUME UInv, HInv', program' = program, Lands
  PROVE  AtMost'
<1>1. TypeOK /\ SInv /\ Balanced(program) /\ KeepsCeilings(program)
  BY DEF UInv, SInv, HInv, IInv
<1>2. PICK i \in DOMAIN frames, pc \in Nat :
        /\ pc < Len(Fun(frames[i].func).code)
        /\ \E h \in Handlers(Fun(frames[i].func), pc) :
             /\ Len(frames') = i /\ Stay(i, Fun(frames[i].func).handlers[h].target)
             /\ Len(stack') <= frames[i].stackBase + Fun(frames[i].func).handlers[h].depth
  BY DEF Lands
<1> DEFINE fun  == Fun(frames[i].func)
           base == frames[i].stackBase
           d    == Ceilings(fun)
<1>3. PICK h \in Handlers(fun, pc) :
        /\ Len(frames') = i /\ Stay(i, fun.handlers[h].target)
        /\ Len(stack') <= base + fun.handlers[h].depth
  BY <1>2
<1> DEFINE hd == fun.handlers[h]
<1>4. frames[i].func \in FuncIds /\ base \in Nat /\ Len(stack') \in Nat
  BY <1>1, FrameFloor, FramesAfter
<1>5. hd \in Handler /\ hd.target <= Len(fun.code)
  BY <1>1, <1>2, <1>4, FloorHandler
<1>6. hd.target \in Nat /\ hd.depth \in Nat
  BY <1>5 DEF Handler
<1>7. hd.depth <= d[hd.target + 1] /\ d[hd.target + 1] \in Nat
  BY <1>1, <1>2, <1>4, <1>5, <1>6, CeilingOnward, FunCeiled
<1>8. Len(stack') <= base + d[hd.target + 1]
  <2>1. Len(stack') <= base + hd.depth
    BY <1>3
  <2> HIDE DEF hd, d, base
  <2> QED
    BY <1>4, <1>6, <1>7, <2>1
<1> QED
  BY <1>3, <1>6, <1>8, StaysCapped

(* A call.                                                                 *)
LEMMA EntersCapped ==
  ASSUME UInv, HInv', program' = program, Enters
  PROVE  AtMost'
<1>0. PICK n : n = Len(frames)
  OBVIOUS
<1> DEFINE fun == Fun(Top.func)
           new == frames'[n + 1]
<1>1. /\ TypeOK /\ SInv /\ Balanced(program) /\ KeepsCeilings(program) /\ frames # << >>
      /\ Fetched
  BY DEF UInv, SInv, HInv, IInv, Enters, Fetched, Live
<1>2. /\ Len(frames') = n + 1 /\ Stay(n, Top.pc + 1)
      /\ new.func \in FuncIds
      /\ new.stackBase = Len(stack) - Takes(Ins) /\ new.pc = 0
      /\ Len(stack') = Len(stack) - Takes(Ins)
  BY <1>0 DEF Enters
<1>3. /\ n \in DOMAIN frames /\ Top = frames[n] /\ n \in Nat
      /\ DOMAIN frames = 1 .. n /\ DOMAIN frames' = 1 .. n + 1 /\ Len(stack') \in Nat
  BY <1>0, <1>1, <1>2, FramesType, FramesAfter DEF Top
<1>4. /\ Top.stackBase \in Nat /\ Top.pc \in Nat
      /\ Len(stack) <= Top.stackBase + Ceilings(fun)[Top.pc + 1]
      /\ Top.pc < Len(fun.code) /\ Ceilings(fun)[Top.pc + 1] \in Nat
  BY <1>1, TopCapped DEF Fetched, Code
<1>5. Ins = fun.code[Top.pc + 1] /\ Len(stack) \in Nat /\ Takes(Ins) \in Nat
  BY <1>1, InsType, CountsType, FramesType DEF Ins, Code
<1>6. Ceilings(Fun(new.func))[1] \in Nat
  <2>1. Len(Fun(new.func).code) \in Nat
    BY <1>1, <1>2, FunType, LenProperties DEF Function
  <2>2. \A pc \in Nat : pc <= Len(Fun(new.func).code) => Ceilings(Fun(new.func))[pc + 1] \in Nat
    BY <1>1, <1>2, FunCeiled
  <2>3. Ceilings(Fun(new.func))[0 + 1] \in Nat
    BY <2>1, <2>2
  <2> QED
    BY <2>3
<1> HIDE DEF new
<1>7. Capping(frames[n + 1], Len(stack))'
  <2>1. Fun(frames[n + 1].func)' = Fun(new.func)
    BY DEF Fun, new
  <2>2. Len(stack') <= new.stackBase + Ceilings(Fun(new.func))[new.pc + 1]
    BY <1>2, <1>3, <1>6
  <2> QED
    BY <2>1, <2>2 DEF Capping, new
<1>8. ASSUME NEW i \in 1 .. n
      PROVE  CappingCall(frames[i], frames[i + 1].stackBase)'
  <2>1. /\ frames'[i].func = frames[i].func /\ frames'[i].stackBase = frames[i].stackBase
        /\ frames'[i].pc = IF i = n THEN Top.pc + 1 ELSE frames[i].pc
        /\ Fun(frames[i].func)' = Fun(frames[i].func)
    BY <1>2 DEF Stay, Fun
  <2>2. CASE i = n
    <3>1. new.stackBase <=
            Top.stackBase + Ceilings(fun)[Top.pc + 1] - Takes(fun.code[Top.pc + 1])
      BY <1>2, <1>4, <1>5
    <3>2. frames'[i].pc = Top.pc + 1 /\ Fun(frames[i].func)' = fun
      BY <1>3, <2>1, <2>2
    <3> HIDE DEF fun
    <3> QED
      BY <1>3, <2>1, <2>2, <3>1, <3>2 DEF CappingCall, new
  <2>3. CASE i # n
    <3>1. CappingCall(frames[i], frames[i + 1].stackBase) /\ i + 1 \in 1 .. n
      BY <1>0, <1>3, <2>3 DEF UInv, AtMost
    <3>2. frames'[i + 1].stackBase = frames[i + 1].stackBase
      BY <1>2, <3>1 DEF Stay
    <3>3. frames'[i].pc = frames[i].pc
      BY <2>1, <2>3
    <3> QED
      BY <2>1, <3>1, <3>2, <3>3 DEF CappingCall
  <2> QED
    BY <2>2, <2>3
<1> QED
  BY <1>2, <1>3, <1>7, <1>8 DEF AtMost

(* A return leaves its caller one result.                                  *)
LEMMA ExitsCapped ==
  ASSUME UInv, HInv', program' = program, Exits
  PROVE  AtMost'
<1> DEFINE n == Len(frames) - 1
<1>1. /\ TypeOK /\ SInv /\ Balanced(program) /\ KeepsCeilings(program) /\ frames # << >>
      /\ Top.pc >= Len(Code)
  BY DEF UInv, SInv, HInv, IInv, Exits, AtEnd, Live
<1>2. /\ n \in Nat /\ DOMAIN frames = 1 .. n + 1 /\ Len(frames) = n + 1
      /\ Len(stack) \in Nat /\ n + 1 \in DOMAIN frames
  BY <1>1, FramesType
<1>3. /\ Len(frames') = n /\ stack' = stack
      /\ \A i \in 1 .. n : frames'[i] = frames[i]
  BY DEF Exits
<1>4. DOMAIN frames' = 1 .. n
  BY <1>3, FramesAfter
<1> HIDE DEF n
<1>5. CASE n = 0
  BY <1>3, <1>4, <1>5 DEF AtMost
<1>6. CASE n # 0
  <2> DEFINE f   == frames[n]
             fun == Fun(f.func)
             d   == Ceilings(fun)
             pc  == f.pc - 1
  <2>1. n \in DOMAIN frames /\ n # Len(frames) /\ Top = frames[n + 1]
    BY <1>2, <1>6 DEF Top
  <2>2. Waiting(f, Top.stackBase) /\ CappingCall(f, Top.stackBase)
    BY <1>1, <2>1 DEF UInv, AtMost, SInv, Enough
  <2>3. /\ f.func \in FuncIds /\ f.stackBase \in Nat /\ f.pc \in Nat
        /\ f.pc <= Len(fun.code) /\ Len(fun.code) \in Nat
    BY <1>1, <2>1, FrameFloor
  <2>4. /\ f.pc >= 1 /\ fun.code[f.pc].op = "Call"
        /\ Top.stackBase <= f.stackBase + d[f.pc] - Takes(fun.code[f.pc])
    BY <2>2 DEF Waiting, CappingCall
  <2>5. pc \in Nat /\ pc < Len(fun.code) /\ pc + 1 = f.pc /\ pc <= Len(fun.code)
    BY <2>3, <2>4
  <2>6. Onward(fun.code[pc + 1], pc) = f.pc /\ Leaves(fun.code[pc + 1]) = 1
    BY <2>4, <2>5 DEF Onward, Leaves
  <2>7. d[pc + 1] - Takes(fun.code[pc + 1]) + Leaves(fun.code[pc + 1]) <= d[f.pc + 1]
    BY <1>1, <2>3, <2>5, <2>6, CeilingOnward
  <2>8. d[pc + 1] \in Nat /\ d[f.pc + 1] \in Nat
    BY <1>1, <2>3, <2>5, FunCeiled
  <2>9. Takes(fun.code[pc + 1]) \in Nat
    BY <1>1, <2>3, <2>5, AtFloor
  <2>10. Top.stackBase \in Nat /\ Len(stack) <= Top.stackBase + 1
    <3>1. /\ Top.func \in FuncIds /\ Top.stackBase \in Nat /\ Top.pc \in Nat
          /\ Top.pc <= Len(Code) /\ Len(Code) \in Nat
          /\ Ceilings(Fun(Top.func))[Top.pc + 1] \in Nat
          /\ Len(stack) <= Top.stackBase + Ceilings(Fun(Top.func))[Top.pc + 1]
      BY <1>1, TopCapped DEF Code
    <3>2. Top.func # program.entry
      BY <1>1, <1>2, <1>6, <2>1 DEF SInv, GoodFrames
    <3>3. Top.pc = Len(Code)
      BY <1>1, <3>1
    <3>4. Ceilings(Fun(Top.func))[Top.pc + 1] <= 1
      BY <1>1, <3>1, <3>2, <3>3, FunCeiled DEF Code
    <3> QED
      BY <1>2, <3>1, <3>4
  <2> HIDE DEF d, fun, f
  <2>11. Len(stack') <= f.stackBase + d[f.pc + 1]
    <3>1. Top.stackBase <= f.stackBase + d[pc + 1] - Takes(fun.code[pc + 1])
      BY <2>4, <2>5
    <3>2. d[pc + 1] - Takes(fun.code[pc + 1]) + 1 <= d[f.pc + 1]
      BY <2>6, <2>7
    <3> HIDE DEF pc
    <3> QED
      BY <1>2, <1>3, <2>3, <2>8, <2>9, <2>10, <3>1, <3>2, SMTT(30)
  <2>12. Stay(n, f.pc)
    BY <1>3, <2>1 DEF Stay, f
  <2> QED
    BY <1>3, <2>1, <2>3, <2>11, <2>12, StaysCapped DEF f, fun, d
<1> QED
  BY <1>5, <1>6

(* No step gives a frame more operands than it may have.                   *)
LEMMA StepCapped ==
  ASSUME UInv, [Next]_vars
  PROVE  UInv'
<1>1. SInv' /\ HInv' /\ program' = program /\ Moves
  BY StepKeeps, ProgramKept, EveryStepMoves DEF UInv, SInv
<1>2. AtMost'
  <2>1. CASE Fetched /\ Goes
    BY <1>1, <2>1, GoesCapped
  <2>2. CASE Lands
    BY <1>1, <2>2, LandsCapped
  <2>3. CASE Enters
    BY <1>1, <2>3, EntersCapped
  <2>4. CASE Exits
    BY <1>1, <2>4, ExitsCapped
  <2>5. CASE frames' = << >>
    <3>1. DOMAIN frames' = {}
      BY <2>5
    <3> QED
      BY <3>1 DEF AtMost
  <2>6. CASE UNCHANGED <<frames, stack>>
    <3>1. \A f : Fun(f)' = Fun(f)
      BY <1>1 DEF Fun
    <3> QED
      BY <1>1, <2>6, <3>1 DEF AtMost, Capping, CappingCall, UInv, Fun
  <2> QED
    BY <1>1, <2>1, <2>2, <2>3, <2>4, <2>5, <2>6 DEF Moves
<1> QED
  BY <1>1, <1>2 DEF UInv

(* The root code starts with no operand.                                   *)
LEMMA InitCapped == Init /\ Balanced(program) /\ KeepsCeilings(program) => UInv
<1> SUFFICES ASSUME Init, Balanced(program), KeepsCeilings(program) PROVE UInv
  OBVIOUS
<1>1. SInv /\ TypeOK
  BY InitSound DEF SInv, HInv, IInv
<1>2. frames = << NewFrame(program.entry, 0, 0, << >>) >> /\ stack = << >>
  BY DEF Init
<1>3. /\ DOMAIN frames = {1} /\ Len(frames) = 1
      /\ frames[1].func = program.entry /\ frames[1].pc = 0 /\ frames[1].stackBase = 0
  BY <1>2 DEF NewFrame
<1>4. program.entry \in FuncIds /\ Len(Fun(program.entry).code) \in Nat
  BY <1>1, <1>3, FrameFloor
<1>5. Ceilings(Fun(program.entry))[0 + 1] \in Nat
  BY <1>1, <1>4, FunCeiled
<1>6. Capping(frames[1], Len(stack))
  BY <1>2, <1>3, <1>5 DEF Capping
<1> QED
  BY <1>1, <1>3, <1>6 DEF UInv, AtMost

-----------------------------------------------------------------------------
(* The theorems.                                                           *)

(* If the code the generator made is balanced, no instruction of the run   *)
(* pops from an empty stack or takes an operand of a caller, however the   *)
(* calls nest and whatever fails: every pop of vm/mod.rs finds an operand  *)
(* of its own frame.                                                       *)
THEOREM OperandsAreOwn == Spec /\ Balanced(program) => []OwnOperandsUsed
<1>1. SInv => OwnOperandsUsed
  <2> SUFFICES ASSUME SInv, Fetched PROVE Len(stack) - Top.stackBase >= Takes(Ins)
    BY DEF OwnOperandsUsed
  <2> DEFINE floor == Floors(Fun(Top.func))[Top.pc + 1]
  <2>1. /\ Top.stackBase \in Nat /\ floor \in Nat /\ Takes(Ins) \in Nat
        /\ Takes(Ins) <= floor /\ Len(stack) \in Nat /\ Top.stackBase + floor <= Len(stack)
    BY TopHasOperands
  <2> HIDE DEF floor
  <2> QED
    BY <2>1
<1>2. SInv /\ [Next]_vars => SInv'
  BY StepKeeps
<1> QED
  BY <1>1, <1>2, InitSound, PTL DEF Spec

(* So a call leaves its caller a result: the callee's frame ends with one. *)
THEOREM CallsLeaveResults == Spec /\ Balanced(program) => []CalleeLeavesResult
<1>1. SInv => CalleeLeavesResult
  <2> SUFFICES ASSUME SInv, AtEnd, Len(frames) > 1 PROVE Len(stack) > Top.stackBase
    BY DEF CalleeLeavesResult
  <2>1. TypeOK /\ Balanced(program) /\ frames # << >> /\ Top.pc >= Len(Code)
    BY DEF SInv, HInv, IInv, AtEnd, Live
  <2>2. Len(frames) \in DOMAIN frames /\ Len(stack) \in Nat
    BY <2>1, FramesType
  <2>3. Standing(Top, Len(stack)) /\ Top.func # program.entry
    BY <2>2 DEF SInv, Enough, GoodFrames, Top
  <2>4. /\ Top.func \in FuncIds /\ Top.stackBase \in Nat /\ Top.pc \in Nat
        /\ Top.pc <= Len(Code) /\ Len(Code) \in Nat
        /\ Floors(Fun(Top.func))[Top.pc + 1] \in Nat
    BY <2>2, FrameFloor DEF Code, Top
  <2>5. Top.pc = Len(Code)
    BY <2>1, <2>4
  <2>6. Floors(Fun(Top.func))[Top.pc + 1] >= 1
    BY <2>1, <2>3, <2>4, <2>5, FunFloored DEF Code
  <2> QED
    BY <2>2, <2>3, <2>4, <2>6 DEF Standing
<1>2. SInv /\ [Next]_vars => SInv'
  BY StepKeeps
<1> QED
  BY <1>1, <1>2, InitSound, PTL DEF Spec

(* And no step, not one that fails out of several calls either, changes an *)
(* operand of a frame below the one that goes on.                          *)
THEOREM CallersKeepOperands == Spec /\ Balanced(program) => CallersOperandsKept
<1> DEFINE Keeps ==
             frames' # << >> =>
               LET base == frames'[Len(frames')].stackBase
               IN  /\ Len(stack') >= base
                   /\ SubSeq(stack', 1, base) = SubSeq(stack, 1, base)
<1>1. SInv /\ [Next]_vars => SInv' /\ Keeps
  <2> SUFFICES ASSUME SInv, [Next]_vars, frames' # << >>
               PROVE  SInv' /\ LET base == frames'[Len(frames')].stackBase
                               IN  /\ Len(stack') >= base
                                   /\ SubSeq(stack', 1, base) = SubSeq(stack, 1, base)
    BY StepKeeps
  <2> DEFINE base == frames'[Len(frames')].stackBase
  <2>1. /\ SInv' /\ base \in Nat /\ base <= Len(stack) /\ base <= Len(stack')
        /\ Agrees(base)
    BY StepKeeps DEF Undisturbed
  <2>2. stack \in Seq(Value) /\ stack' \in Seq(Value)
    BY <2>1 DEF SInv, HInv, IInv, TypeOK
  <2> HIDE DEF base
  <2>3. /\ SubSeq(stack, 1, base) \in Seq(Value) /\ Len(SubSeq(stack, 1, base)) = base
        /\ SubSeq(stack', 1, base) \in Seq(Value) /\ Len(SubSeq(stack', 1, base)) = base
        /\ \A j \in 1 .. base : /\ SubSeq(stack, 1, base)[j] = stack[j]
                                /\ SubSeq(stack', 1, base)[j] = stack'[j]
    BY <2>1, <2>2, PrefixType
  <2>4. SubSeq(stack', 1, base) = SubSeq(stack, 1, base)
    BY <2>1, <2>3, SeqEqual DEF Agrees
  <2>5. Len(stack') >= base
    BY <2>1, <2>2, LenProperties
  <2> QED
    BY <2>1, <2>4, <2>5 DEF base
<1>2. Keeps => [Keeps]_vars
  OBVIOUS
<1> HIDE DEF Keeps
<1>3. Spec /\ Balanced(program) => [][Keeps]_vars
  BY <1>1, <1>2, InitSound, PTL DEF Spec
<1> QED
  BY <1>3 DEF CallersOperandsKept, Keeps

(* If the code keeps to its ceilings too, a test never starts with more    *)
(* operands in its frame than its handler keeps, provided that no function *)
(* leaves more than one: catching its failure drops none that was there    *)
(* before the test.                                                        *)
THEOREM TestsKeepOperands ==
  Spec /\ Balanced(program) /\ Capped(program) => []TestKeepsOperands
<1>1. UInv => TestKeepsOperands
  <2> SUFFICES ASSUME UInv, Fetched, NEW h \in DOMAIN Fun(Top.func).handlers,
                      Top.pc = Fun(Top.func).handlers[h].start
               PROVE  Len(stack) - Top.stackBase <= Fun(Top.func).handlers[h].depth
    BY DEF TestKeepsOperands
  <2> DEFINE fun == Fun(Top.func)
             hd  == fun.handlers[h]
  <2>1. TypeOK /\ KeepsCeilings(program) /\ frames # << >> /\ Top.pc < Len(fun.code)
    BY DEF UInv, SInv, HInv, IInv, Fetched, Live, Code
  <2>2. /\ Top.func \in FuncIds /\ Top.stackBase \in Nat /\ Top.pc \in Nat
        /\ Top.pc <= Len(fun.code)
        /\ Ceilings(fun)[Top.pc + 1] \in Nat
        /\ Len(stack) <= Top.stackBase + Ceilings(fun)[Top.pc + 1]
    BY <2>1, TopCapped
  <2>3. Ceilings(fun)[Top.pc + 1] <= hd.depth
    BY <2>1, <2>2, FunCeiled DEF Ceiled
  <2>4. hd.depth \in Nat /\ Len(stack) \in Nat
    <3>1. fun.handlers \in Seq(Handler)
      BY <2>1, <2>2, FunType DEF Function
    <3>2. hd \in Handler
      BY <3>1, LenProperties, ElementOfSeq
    <3> QED
      BY <2>1, <3>2, LenProperties DEF Handler, TypeOK
  <2> HIDE DEF fun, hd
  <2>5. Len(stack) - Top.stackBase <= hd.depth
    BY <2>2, <2>3, <2>4
  <2> QED
    BY <2>5 DEF hd, fun
<1>2. UInv /\ [Next]_vars => UInv'
  BY StepCapped
<1>3. program \notin LeavingOne => TestKeepsOperands
  BY DEF TestKeepsOperands
<1>4. program \notin LeavingOne /\ [Next]_vars => (program \notin LeavingOne)'
  BY ProgramKept DEF LeavingOne
<1>5. Init /\ Balanced(program) /\ Capped(program) => UInv \/ program \notin LeavingOne
  BY InitCapped DEF KeepsCeilings, LeavingOne
<1> QED
  BY <1>1, <1>2, <1>3, <1>4, <1>5, PTL DEF Spec
=============================================================================
