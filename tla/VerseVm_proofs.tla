---------------------------- MODULE VerseVm_proofs ----------------------------
(***************************************************************************)
(* What holds of the machine for every set of programs, every frame limit  *)
(* and every width of int: TypeOK and CapturesInv.                         *)
(***************************************************************************)
EXTENDS VerseVm, VmValues_proofs, SequenceTheorems, TLAPS

(* The conjuncts that make CapturesInv inductive: a cell's name was given  *)
(* when the heap was shorter, so the next name is new; and an open cell    *)
(* holds nothing but its index, so Captured finds it.                      *)
CellNames  == \A c \in DOMAIN cells : c[1] <= Len(heap)
OpenCells  == \A c \in DOMAIN cells : cells[c].open => cells[c] = OpenCell(cells[c].at)

IInv ==
  /\ TypeOK
  /\ program \in Programs
  /\ CellNames
  /\ OpenCells
  /\ CapturesInv

-----------------------------------------------------------------------------
(* Reading the state.                                                      *)

(* A frame of the type's set, field by field.                              *)
LEMMA FrameType ==
  ASSUME TypeOK, frames # << >>
  PROVE  /\ Len(frames) \in Nat \ {0}
         /\ Top \in Frame(FuncIds, DOMAIN cells)
BY EmptySeq, ElementOfSeq DEF TypeOK, Top

(* Every frame on the frame stack is well formed.                          *)
LEMMA EachFrame ==
  ASSUME TypeOK, NEW i \in DOMAIN frames
  PROVE  /\ frames[i] \in Frame(FuncIds, DOMAIN cells)
         /\ frames[i].captures \subseteq DOMAIN cells
         /\ frames[i].localBase \in Nat
<1>1. frames[i] \in Frame(FuncIds, DOMAIN cells)
  BY LenProperties, ElementOfSeq DEF TypeOK
<1> QED
  BY <1>1 DEF Frame

(* The function of a function id, with the types of its fields.            *)
LEMMA FunType ==
  ASSUME TypeOK, NEW f \in FuncIds
  PROVE  Fun(f) \in Function
<1>1. /\ program.functions \in Seq(Function)
      /\ Len(program.functions) \in Nat
  BY LenProperties DEF TypeOK, Program
<1>2. f + 1 \in 1 .. Len(program.functions)
  BY <1>1 DEF FuncIds
<1> QED
  BY <1>1, <1>2, ElementOfSeq DEF Fun

(* The instruction about to run is one, with an operand where its opcode   *)
(* has one.                                                                *)
LEMMA InsType ==
  ASSUME TypeOK, Fetched
  PROVE  Ins \in Instr
<1>1. Top \in Frame(FuncIds, DOMAIN cells)
  BY FrameType DEF Fetched, Live
<1>2. Code \in Seq(Instr) /\ Top.pc \in Nat
  BY <1>1, FunType DEF Code, Frame, Function
<1>3. Top.pc + 1 \in 1 .. Len(Code)
  BY <1>2, LenProperties DEF Fetched
<1> QED
  BY <1>2, <1>3, ElementOfSeq DEF Ins

(* An operand that the machine may pop is a value.                         *)
LEMMA OperandType ==
  ASSUME TypeOK, NEW n \in Nat, n < Len(stack)
  PROVE  Operand(n) \in Value
<1>1. stack \in Seq(Value) /\ Len(stack) \in Nat
  BY LenProperties DEF TypeOK
<1> QED
  BY <1>1, ElementOfSeq DEF Operand

(* The topmost n operands are n values.                                    *)
LEMMA OperandsType ==
  ASSUME TypeOK, NEW n \in Nat, n <= Len(stack)
  PROVE  Operands(n) \in Seq(Value) /\ Len(Operands(n)) = n
<1>1. stack \in Seq(Value) /\ Len(stack) \in Nat
  BY LenProperties DEF TypeOK
<1>2. \A i \in Len(stack) - n + 1 .. Len(stack) : stack[i] \in Value
  BY <1>1, ElementOfSeq
<1> QED
  BY <1>1, <1>2, SubSeqProperties DEF Operands

(* The first n elements of a sequence are a sequence of its set.           *)
LEMMA PrefixType ==
  ASSUME NEW S, NEW s \in Seq(S), NEW n \in Int, n <= Len(s)
  PROVE  /\ SubSeq(s, 1, n) \in Seq(S)
         /\ Len(SubSeq(s, 1, n)) = IF 1 <= n THEN n ELSE 0
         /\ \A i \in 1 .. n : SubSeq(s, 1, n)[i] = s[i]
<1>1. \A i \in 1 .. n : s[i] \in S
  BY LenProperties, ElementOfSeq
<1> QED
  BY <1>1, SubSeqProperties

(* What is left below the topmost n operands is a stack.                   *)
LEMMA BelowType ==
  ASSUME TypeOK, NEW n \in Nat
  PROVE  Below(n) \in Seq(Value)
BY PrefixType, LenProperties DEF Below, TypeOK

(* truncate leaves a sequence of the same set that is no longer than       *)
(* before.                                                                 *)
LEMMA TruncateType ==
  ASSUME NEW S, NEW s \in Seq(S), NEW n \in Int
  PROVE  Truncate(s, n) \in Seq(S)
BY PrefixType, LenProperties DEF Truncate

-----------------------------------------------------------------------------
(* Kinds of steps.                                                         *)

(* The frames that remain keep what CapturesInv asks of them.              *)
SameCaptures ==
  /\ frames' \in Seq(Frame(FuncIds, DOMAIN cells))
  /\ Len(frames') <= Len(frames)
  /\ \A i \in 1 .. Len(frames') : /\ frames'[i].captures = frames[i].captures
                                  /\ frames'[i].localBase = frames[i].localBase

(* A frame that goes on at another pc.                                     *)
At(f, pc) == [f EXCEPT !.pc = pc]

(* A frame at another pc is a frame with the same captures.                *)
LEMMA FrameAt ==
  ASSUME NEW fns, NEW ids, NEW f \in Frame(fns, ids), NEW pc \in Nat
  PROVE  /\ At(f, pc) \in Frame(fns, ids)
         /\ At(f, pc).captures = f.captures
         /\ At(f, pc).localBase = f.localBase
BY DEF At, Frame

(* Setting the pc of the running frame changes no frame's captures.        *)
LEMMA JumpFrames ==
  ASSUME TypeOK, frames # << >>, NEW pc \in Nat,
         frames' = [frames EXCEPT ![Len(frames)].pc = pc]
  PROVE  SameCaptures /\ Len(frames') = Len(frames)
<1> DEFINE n == Len(frames)
           F == Frame(FuncIds, DOMAIN cells)
<1>1. frames \in Seq(F) /\ n \in 1 .. Len(frames) /\ n \in Nat
  BY EmptySeq, LenProperties DEF TypeOK
<1>2. /\ At(frames[n], pc) \in F
      /\ At(frames[n], pc).captures = frames[n].captures
      /\ At(frames[n], pc).localBase = frames[n].localBase
  BY <1>1, ElementOfSeq, FrameAt
<1>3. frames' = [frames EXCEPT ![n] = At(frames[n], pc)]
  BY DEF At
<1>4. /\ frames' \in Seq(F)
      /\ Len(frames') = n
      /\ \A j \in 1 .. n : frames'[j] = IF j = n THEN At(frames[n], pc) ELSE frames[j]
  BY <1>1, <1>2, <1>3, ExceptSeq
<1> QED
  BY <1>1, <1>2, <1>4 DEF SameCaptures

(* Moving the pc past the instruction changes no frame's captures.         *)
LEMMA AdvanceFrames ==
  ASSUME TypeOK, frames # << >>, Advance
  PROVE  SameCaptures
<1>1. Top.pc \in Nat
  BY FrameType DEF Frame
<1> DEFINE next == Top.pc + 1
<1>2. frames' = [frames EXCEPT ![Len(frames)].pc = next]
  BY DEF Advance, Top
<1>3. next \in Nat
  BY <1>1
<1> HIDE DEF next
<1> QED
  BY <1>2, <1>3, JumpFrames

(* Replacing operands by values leaves a stack of values and the captures  *)
(* as they were.                                                           *)
LEMMA ReplaceStep ==
  ASSUME TypeOK, Fetched, NEW n \in Nat, NEW vs \in Seq(Value), Replace(n, vs)
  PROVE  stack' \in Seq(Value) /\ SameCaptures /\ program' = program /\ status' = status
BY BelowType, ConcatProperties, AdvanceFrames DEF Replace, Fetched, Live

(* Unwinding to a handler leaves the captures of the frames that stay as   *)
(* they were.                                                              *)
LEMMA UnwindStep ==
  ASSUME TypeOK, NEW n \in Nat, NEW i \in DOMAIN frames, NEW handler \in Handler,
         Unwind(n, i, handler)
  PROVE  stack' \in Seq(Value) /\ SameCaptures /\ program' = program /\ status' = status
<1> DEFINE F == Frame(FuncIds, DOMAIN cells)
           fs == SubSeq(frames, 1, i)
           resumed == At(fs[i], handler.target)
<1>1. frames \in Seq(F) /\ i \in Nat /\ 1 <= i /\ i <= Len(frames)
  BY LenProperties DEF TypeOK
<1>2. /\ fs \in Seq(F) /\ Len(fs) = i
      /\ \A j \in 1 .. i : fs[j] = frames[j]
  BY <1>1, PrefixType
<1>3. frames' = [fs EXCEPT ![i] = resumed]
  BY DEF Unwind, At
<1>4. handler.target \in Nat /\ handler.depth \in Nat
  BY DEF Handler
<1> HIDE DEF fs
<1>5. fs[i] \in F /\ fs[i] = frames[i]
  BY <1>1, <1>2, ElementOfSeq
<1>6. /\ resumed \in F
      /\ resumed.captures = frames[i].captures
      /\ resumed.localBase = frames[i].localBase
  BY <1>4, <1>5, FrameAt, SMTT(30)
<1> HIDE DEF resumed
<1>7. /\ frames' \in Seq(F)
      /\ Len(frames') = i
      /\ \A j \in 1 .. i : frames'[j] = IF j = i THEN resumed ELSE fs[j]
  BY <1>1, <1>2, <1>3, <1>6, ExceptSeq
<1>8. SameCaptures
  BY <1>1, <1>2, <1>6, <1>7 DEF SameCaptures
<1>9. frames[i].stackBase + handler.depth \in Int
  BY <1>4, <1>5 DEF Frame
<1>10. stack' \in Seq(Value)
  BY <1>9, BelowType, TruncateType DEF Unwind, DepthAt
<1> QED
  BY <1>8, <1>10 DEF Unwind

(* A step that leaves the captures of the remaining frames and the open    *)
(* cells alone.                                                            *)
LEMMA CellStep ==
  ASSUME IInv, SameCaptures, program' = program,
         DOMAIN cells' = DOMAIN cells, cells' \in [DOMAIN cells -> Cell],
         \A c \in DOMAIN cells : /\ cells'[c].open = cells[c].open
                                 /\ cells[c].open => cells'[c] = cells[c],
         stack' \in Seq(Value), locals' \in Seq(Value),
         heap' \in Seq(Obj(FuncIds, DOMAIN cells)), Len(heap) <= Len(heap'),
         status' \in {"running", "done", "failed", "panic"}
  PROVE  IInv'
<1> USE DEF IInv
<1>1. FuncIds' = FuncIds
  BY DEF FuncIds
<1>2. TypeOK'
  BY <1>1 DEF TypeOK, SameCaptures
<1>3. Len(heap) \in Nat /\ Len(heap') \in Nat
  BY LenProperties DEF TypeOK
<1>4. CellNames'
  BY <1>3 DEF CellNames, TypeOK, CellId
<1>5. OpenCells'
  BY DEF OpenCells, OpenCell
<1>6. /\ DOMAIN frames = 1 .. Len(frames)
      /\ DOMAIN frames' = 1 .. Len(frames')
      /\ Len(frames) \in Nat /\ Len(frames') \in Nat
  BY LenProperties DEF TypeOK, SameCaptures
<1>7. \A i \in DOMAIN frames' : /\ i \in DOMAIN frames
                                /\ frames'[i].captures = frames[i].captures
                                /\ frames'[i].localBase = frames[i].localBase
  BY <1>6 DEF SameCaptures
<1>8. \A i \in DOMAIN frames : frames[i].captures \subseteq DOMAIN cells
  BY EachFrame
<1>9. \A i \in DOMAIN frames : \A c \in frames[i].captures : cells'[c] = cells[c]
  BY <1>8 DEF CapturesInv
<1>10. CapturesInv'
  BY <1>7, <1>9, SMTT(30) DEF CapturesInv
<1> QED
  BY <1>2, <1>4, <1>5, <1>10

(* A step that leaves the cells alone as well.                             *)
LEMMA QuietStep ==
  ASSUME IInv, SameCaptures, program' = program, cells' = cells,
         stack' \in Seq(Value), locals' \in Seq(Value),
         heap' \in Seq(Obj(FuncIds, DOMAIN cells)), Len(heap) <= Len(heap'),
         status' \in {"running", "done", "failed", "panic"}
  PROVE  IInv'
<1>1. cells' \in [DOMAIN cells -> Cell]
  BY DEF IInv, TypeOK
<1> QED
  BY <1>1, CellStep

(* What is stored in a variable was on the stack.                          *)
LEMMA StoresPop ==
  ASSUME TypeOK, StoreLocal \/ StoreGlobal
  PROVE  0 < Len(stack)
<1>1. Can("StoreLocal") \/ Can("StoreGlobal")
  BY DEF StoreLocal, StoreGlobal
<1>2. Len(stack) >= 1
  BY <1>1 DEF Can, Ready, CompareOps
<1>3. Len(stack) \in Nat
  BY LenProperties DEF TypeOK
<1> QED
  BY <1>2, <1>3

(* A store into an element has a value and an object on the stack.         *)
LEMMA ElementStorePops ==
  ASSUME TypeOK, StoreElement
  PROVE  1 < Len(stack) /\ Operand(0).v \in DOMAIN heap
<1>1. CASE Can("StoreTupleElement")
  <2>1. Len(stack) >= 2 /\ IsTuple(Operand(0))
    BY <1>1 DEF Can, Ready, CompareOps
  <2> QED
    BY <2>1, LenProperties DEF IsTuple, TypeOK
<1>2. CASE Can("StoreObjectField")
  <2>1. Len(stack) >= 2 /\ IsObj(Operand(0), "object")
    BY <1>2 DEF Can, Ready, CompareOps
  <2> QED
    BY <2>1, LenProperties DEF IsObj, TypeOK
<1> QED
  BY <1>1, <1>2 DEF StoreElement

(* What a step leaves alone keeps its type.                                *)
LEMMA SameHeap ==
  ASSUME TypeOK
  PROVE  /\ locals \in Seq(Value)
         /\ heap \in Seq(Obj(FuncIds, DOMAIN cells))
         /\ Len(heap) \in Nat /\ Len(heap) <= Len(heap)
         /\ status \in {"running", "done", "failed", "panic"}
BY LenProperties DEF TypeOK

(* An instruction that works on the operands only.                         *)
LEMMA OperandStep ==
  ASSUME IInv, Fetched, NEW n \in Nat, NEW vs \in Seq(Value), Replace(n, vs),
         UNCHANGED <<locals, heap, cells>>
  PROVE  IInv'
BY ReplaceStep, QuietStep, SameHeap DEF IInv

(* A failing instruction, caught or not, leaves the captures of the frames *)
(* that stay, and everything but frames and operands, as they were.        *)
LEMMA FailKeeps ==
  ASSUME TypeOK, NEW n \in Nat, Fail(n)
  PROVE  /\ SameCaptures
         /\ stack' \in Seq(Value)
         /\ status' \in {"running", "done", "failed", "panic"}
         /\ UNCHANGED <<program, locals, heap, cells>>
<1>1. CASE Caught(n)
  <2>0. PICK i \in Catching :
          \E h \in GuardedBy(i) : Unwind(n, i, Fun(frames[i].func).handlers[h])
    BY <1>1 DEF Caught
  <2>1. PICK h \in GuardedBy(i) : Unwind(n, i, Fun(frames[i].func).handlers[h])
    BY <2>0
  <2>2. i \in DOMAIN frames
    BY DEF Catching
  <2>3. frames[i] \in Frame(FuncIds, DOMAIN cells)
    BY <2>2, LenProperties, ElementOfSeq DEF TypeOK
  <2>4. Fun(frames[i].func).handlers \in Seq(Handler)
    BY <2>3, FunType DEF Frame, Function
  <2>5. h \in DOMAIN Fun(frames[i].func).handlers
    BY DEF GuardedBy
  <2>6. Fun(frames[i].func).handlers[h] \in Handler
    BY <2>4, <2>5, LenProperties, ElementOfSeq
  <2> QED
    BY <2>1, <2>2, <2>6, UnwindStep, SameHeap DEF Fail
<1>2. CASE Uncaught
  <2>1. SameCaptures
    BY <1>2, EmptySeq, LenProperties DEF Uncaught, SameCaptures, TypeOK
  <2> QED
    BY <1>2, <2>1, EmptySeq DEF Uncaught, Fail
<1> QED
  BY <1>1, <1>2 DEF Fail

(* So it keeps IInv.                                                       *)
LEMMA FailStep ==
  ASSUME IInv, NEW n \in Nat, Fail(n)
  PROVE  IInv'
BY FailKeeps, QuietStep, SameHeap DEF IInv

(* An instruction that adds an object and pushes it.                       *)
LEMMA AllocateStep ==
  ASSUME IInv, Fetched, NEW n \in Nat, NEW k \in Kinds,
         NEW obj \in Obj(FuncIds, DOMAIN cells), Allocate(n, k, obj)
  PROVE  IInv'
<1> USE DEF IInv
<1>1. /\ heap' \in Seq(Obj(FuncIds, DOMAIN cells))
      /\ Len(heap') = Len(heap) + 1
      /\ Len(heap) \in Nat
  BY SameHeap, AppendProperties DEF Allocate
<1>2. << Handle(k, Len(heap) + 1) >> \in Seq(Value)
  BY <1>1 DEF Handle, Value
<1>3. stack' \in Seq(Value) /\ SameCaptures /\ program' = program /\ status' = status
  BY <1>2, ReplaceStep DEF Allocate
<1> QED
  BY <1>1, <1>3, QuietStep, SameHeap DEF Allocate

-----------------------------------------------------------------------------
(* What instructions find and make.                                        *)

(* The object a handle names is one of the heap's.                         *)
LEMMA HeapObject ==
  ASSUME TypeOK, NEW o \in DOMAIN heap
  PROVE  heap[o] \in Obj(FuncIds, DOMAIN cells)
BY LenProperties, ElementOfSeq DEF TypeOK

(* The elements of an object are values.                                   *)
LEMMA HeapElems ==
  ASSUME TypeOK, NEW o \in DOMAIN heap
  PROVE  /\ heap[o].elems \in Seq(Value)
         /\ Len(heap[o].elems) \in Nat
         /\ \A i \in Nat : i < Len(heap[o].elems) => heap[o].elems[i + 1] \in Value
<1>1. heap[o].elems \in Seq(Value)
  BY HeapObject DEF Obj
<1> QED
  BY <1>1, LenProperties, ElementOfSeq

(* 0 is a function id: every program has an entry.                         *)
LEMMA PlainType ==
  ASSUME IInv, NEW k \in ObjKinds, NEW ty \in Nat, NEW elems \in Seq(Value)
  PROVE  Plain(k, ty, elems) \in Obj(FuncIds, DOMAIN cells)
<1>1. Len(program.functions) \in Nat /\ 0 < Len(program.functions)
  BY ProgramsAssumption, LenProperties DEF IInv, Program
<1>2. 0 \in FuncIds
  BY <1>1 DEF FuncIds
<1>3. << >> \in Seq(DOMAIN cells)
  BY EmptySeq
<1> QED
  BY <1>2, <1>3 DEF Plain, Obj

(* A sequence of one value.                                                *)
LEMMA OneValue ==
  ASSUME NEW v \in Value
  PROVE  << v >> \in Seq(Value)
OBVIOUS

(* A slot that is there holds a value.                                     *)
LEMMA LocalType ==
  ASSUME TypeOK, NEW i \in Nat, i < Len(locals)
  PROVE  locals[i + 1] \in Value
<1>1. locals \in Seq(Value) /\ Len(locals) \in Nat
  BY LenProperties DEF TypeOK
<1> QED
  BY <1>1, ElementOfSeq

(* Copying a value gives a value, and a heap with new tuples behind what   *)
(* it had.                                                                 *)
LEMMA CopyType ==
  ASSUME IInv, NEW v \in Value
  PROVE  /\ CopyOf(v)[1] \in Value
         /\ CopyOf(v)[2] \in Seq(Obj(FuncIds, DOMAIN cells))
         /\ Len(heap) <= Len(CopyOf(v)[2])
         /\ CopyMade(<<v, heap>>, CopyOf(v))
<1> DEFINE x == <<v, heap>>
           c == CopyOf(v)
           O == Obj(FuncIds, DOMAIN cells)
<1>1. heap \in Seq(O) /\ Len(heap) \in Nat /\ DOMAIN heap = 1 .. Len(heap)
  BY LenProperties DEF IInv, TypeOK
<1>2. O \subseteq Obj(Nat, CellId)
  <2>1. \A s \in Seq(DOMAIN cells) : s \in Seq(CellId)
    BY SeqMonotonic DEF IInv, TypeOK
  <2>2. FuncIds \subseteq Nat
    BY LenProperties DEF FuncIds, IInv, TypeOK, Program
  <2> QED
    BY <2>1, <2>2 DEF Obj
<1>3. heap \in Seq(Obj(Nat, CellId))
  BY <1>1, <1>2, SeqMonotonic
<1>4. x \in Stored
  BY <1>3 DEF Stored
<1>5. CopyMade(x, c)
  BY <1>1, <1>4, CopyValueCopies DEF Copier, CopyOf
<1> HIDE DEF c
<1>6. /\ c[1] \in Value /\ c[2] \in Seq(Obj(Nat, CellId)) /\ Extends(heap, c[2])
      /\ Len(c[2]) \in Nat /\ DOMAIN c[2] = 1 .. Len(c[2])
  BY <1>5, LenProperties DEF CopyMade, Stored
<1>7. 0 \in FuncIds
  BY ProgramsAssumption, LenProperties DEF IInv, Program, FuncIds
<1>8. ASSUME NEW o \in DOMAIN c[2]
      PROVE  c[2][o] \in O
  <2>1. CASE o \in DOMAIN heap
    <3>1. c[2][o] = heap[o]
      BY <1>6, <2>1 DEF Extends
    <3> QED
      BY <1>1, <2>1, <3>1, ElementOfSeq
  <2>2. CASE o \notin DOMAIN heap
    <3>1. c[2][o].fn = 0 /\ c[2][o].up = << >>
      BY <1>6, <2>2 DEF Extends
    <3>2. c[2][o] \in Obj(Nat, CellId)
      BY <1>6, ElementOfSeq
    <3>3. << >> \in Seq(DOMAIN cells)
      BY EmptySeq
    <3> QED
      BY <1>7, <3>1, <3>2, <3>3 DEF Obj
  <2> QED
    BY <2>1, <2>2
<1>9. c[2] \in Seq(O)
  <2>1. c[2] \in [1 .. Len(c[2]) -> O]
    BY <1>6, <1>8, LenProperties
  <2> QED
    BY <1>6, <2>1, SeqDef
<1> QED
  BY <1>5, <1>6, <1>9 DEF Extends, c

(* Storing into a slot that is taken or the next one leaves a sequence of  *)
(* values.                                                                 *)
LEMMA SetSlotType ==
  ASSUME TypeOK, NEW i \in Nat, NEW v \in Value
  PROVE  SetSlot(i, v) \in Seq(Value)
<1>1. locals \in Seq(Value) /\ Len(locals) \in Nat
  BY LenProperties DEF TypeOK
<1>2. i < Len(locals) => i + 1 \in 1 .. Len(locals)
  BY <1>1
<1> QED
  BY <1>1, <1>2, ExceptSeq, AppendProperties DEF SetSlot

(* Writing an element of an object leaves a heap.                          *)
LEMMA WriteElementType ==
  ASSUME NEW S, NEW ids, NEW h \in Seq(Obj(S, ids)), NEW o \in DOMAIN h,
         NEW i \in Nat, NEW v \in Value
  PROVE  /\ WriteElement(h, o, i, v) \in Seq(Obj(S, ids))
         /\ Len(WriteElement(h, o, i, v)) = Len(h)
<1> DEFINE e  == h[o].elems
           e2 == [e EXCEPT ![i + 1] = v]
           ob == [h[o] EXCEPT !.elems = e2]
<1>1. h[o] \in Obj(S, ids) /\ o \in 1 .. Len(h)
  BY LenProperties, ElementOfSeq
<1>2. e \in Seq(Value)
  BY <1>1 DEF Obj
<1>3. e2 \in Seq(Value)
  <2>1. CASE i + 1 \in 1 .. Len(e)
    BY <1>2, <2>1, ExceptSeq
  <2>2. CASE i + 1 \notin 1 .. Len(e)
    <3>1. DOMAIN e = 1 .. Len(e)
      BY <1>2, LenProperties
    <3>2. e2 = e
      BY <1>2, <2>2, <3>1, LenProperties
    <3> QED
      BY <1>2, <3>2
  <2> QED
    BY <2>1, <2>2
<1> HIDE DEF e2
<1>4. ob \in Obj(S, ids)
  BY <1>1, <1>3 DEF Obj
<1>5. WriteElement(h, o, i, v) = [h EXCEPT ![o] = ob]
  BY DEF WriteElement, e2
<1> HIDE DEF ob
<1> QED
  BY <1>1, <1>4, <1>5, ExceptSeq

-----------------------------------------------------------------------------
(* The instructions, by what they change.                                  *)

(* Instructions that push a constant or what their operands compute.       *)
LEMMA ConstStep ==
  ASSUME IInv, PushConst
  PROVE  IInv'
<1>1. Ins \in Instr
  BY InsType DEF PushConst, IInv
<1>2. Literal(Ins) \in Value
  BY <1>1 DEF Literal, Value, Void, IntV, Float, Logic, Kinds, Scalars, Handles, Instr
<1> QED
  BY <1>2, OneValue, OperandStep DEF PushConst

(* Instructions that push what their operands compute.                     *)
LEMMA ComputeStep ==
  ASSUME IInv, ArithOp \/ Neg \/ Not \/ Dup \/ Pop \/ ToText \/ LenOp \/ CallNative
  PROVE  IInv'
<1>1. TypeOK /\ MaxInt \in Nat
  BY IntAssumption DEF IInv
<1>2. \A n \in Int : Wrap(n) \in Int
  BY <1>1 DEF Wrap
<1>3. \A n \in Int : IntV(n) \in Value /\ Float(n) \in Value /\ Logic(n) \in Value
  BY DEF IntV, Float, Logic, Value, Kinds, Scalars
<1>4. Void \in Value /\ Str \in Value
  BY DEF Void, Str, Value, Kinds, Scalars
<1>5. CASE ArithOp
  <2>1. PICK op \in {"Add", "Sub", "Mul"} :
          Can(op) /\ \E r \in ArithResults(op, Operand(1), Operand(0)) : Replace(2, <<r>>)
    BY <1>5 DEF ArithOp
  <2>2. Fetched /\ 1 < Len(stack) /\ 0 < Len(stack)
    BY <1>1, <2>1, LenProperties DEF Can, Ready, CompareOps, TypeOK
  <2>3. Operand(0) \in Value /\ Operand(1) \in Value
    BY <1>1, <2>2, OperandType
  <2>4. Arith(op, Operand(1).v, Operand(0).v) \in Int
    BY <2>3 DEF Value, Arith
  <2>5. ArithResults(op, Operand(1), Operand(0)) \subseteq Value
    BY <1>2, <1>3, <2>4 DEF ArithResults
  <2>6. PICK r \in Value : Replace(2, <<r>>)
    BY <2>1, <2>5
  <2> QED
    BY <1>5, <2>2, <2>6, OneValue, OperandStep DEF ArithOp
<1>6. CASE Neg
  <2>1. Can("Neg") /\ Fetched /\ 0 < Len(stack)
    BY <1>1, <1>6, LenProperties DEF Neg, Can, Ready, CompareOps, TypeOK
  <2>2. Operand(0) \in Value
    BY <1>1, <2>1, OperandType
  <2>3. -Operand(0).v \in Int
    BY <2>2 DEF Value
  <2>4. Negated(Operand(0)) \in Value
    BY <1>2, <1>3, <2>2, <2>3 DEF Negated
  <2> QED
    BY <1>6, <2>1, <2>4, OneValue, OperandStep DEF Neg
<1>7. CASE Not
  <2>1. Fetched /\ 0 < Len(stack)
    BY <1>1, <1>7, LenProperties DEF Not, Can, Ready, CompareOps, TypeOK
  <2>2. Operand(0) \in Value
    BY <1>1, <2>1, OperandType
  <2>3. 1 - Operand(0).v \in Int
    BY <2>2 DEF Value
  <2> QED
    BY <1>3, <1>7, <2>1, <2>3, OneValue, OperandStep DEF Not
<1>8. CASE Dup
  <2>1. Fetched /\ 0 < Len(stack)
    BY <1>1, <1>8, LenProperties DEF Dup, Can, Ready, CompareOps, TypeOK
  <2>2. Operand(0) \in Value
    BY <1>1, <2>1, OperandType
  <2> QED
    BY <1>8, <2>1, <2>2, OneValue, OperandStep DEF Dup
<1>9. CASE Pop
  BY <1>9, EmptySeq, OperandStep DEF Pop, Can
<1>10. CASE ToText
  BY <1>4, <1>10, OneValue, OperandStep DEF ToText, Can
<1>11. CASE LenOp
  <2>1. Can("Len")
    BY <1>11 DEF LenOp
  <2>2. Fetched /\ 0 < Len(stack)
    BY <1>1, <2>1, LenProperties DEF Can, Ready, CompareOps, TypeOK
  <2>3. ~IsText(Operand(0)) => Len(heap[Operand(0).v].elems) \in Int
    BY <1>1, <2>1, HeapElems DEF Can, Ready, CompareOps, IsObj
  <2>4. MaxTextLen \in Nat
    BY BoundsAssumption
  <2>5. PICK n \in Int : Replace(1, << IntV(n) >>)
    BY <1>11, <2>3, <2>4 DEF LenOp
  <2> QED
    BY <1>3, <1>11, <2>2, <2>5, OneValue, OperandStep DEF LenOp
<1>12. CASE CallNative
  <2>1. Fetched /\ Ins \in Instr /\ Ins.op = "Call"
    BY <1>1, <1>12, InsType DEF CallNative, Can
  <2>2. Ins.a + 1 \in Nat
    BY <2>1 DEF Instr
  <2> QED
    BY <1>4, <1>12, <2>1, <2>2, OneValue, OperandStep DEF CallNative
<1> QED
  BY <1>5, <1>6, <1>7, <1>8, <1>9, <1>10, <1>11, <1>12

(* Instructions that push what is in locals, a cell or an object.          *)
LEMMA LoadStep ==
  ASSUME IInv, LoadLocal \/ LoadGlobal \/ LoadUpvalue \/ LoadElement
  PROVE  IInv'
<1>1. TypeOK /\ Fetched
  BY DEF IInv, LoadLocal, LoadGlobal, LoadUpvalue, LoadElement, Can
<1>2. Ins \in Instr /\ Top \in Frame(FuncIds, DOMAIN cells)
  BY <1>1, InsType, FrameType DEF Fetched, Live
<1>3. Top.localBase \in Nat
  BY <1>2 DEF Frame
<1>4. Ins.op # "PushInt" => Ins.a \in Nat
  BY <1>2 DEF Instr
<1>5. CASE LoadLocal
  <2>1. Top.localBase + Ins.a < Len(locals) /\ Ins.op = "LoadLocal"
    BY <1>5 DEF LoadLocal, Can, Ready, CompareOps
  <2> DEFINE v == locals[Top.localBase + Ins.a + 1]
  <2>2. v \in Value
    BY <1>1, <1>3, <1>4, <2>1, LocalType
  <2>3. Replace(0, << v >>) /\ UNCHANGED <<locals, heap, cells>>
    BY <1>5 DEF LoadLocal
  <2> HIDE DEF v
  <2> QED
    BY <1>1, <2>2, <2>3, OneValue, OperandStep
<1>6. CASE LoadGlobal
  <2>1. Ins.a < Len(locals) /\ Ins.op = "LoadGlobal"
    BY <1>6 DEF LoadGlobal, Can, Ready, CompareOps
  <2> DEFINE v == locals[Ins.a + 1]
  <2>2. v \in Value
    BY <1>1, <1>4, <2>1, LocalType
  <2>3. Replace(0, << v >>) /\ UNCHANGED <<locals, heap, cells>>
    BY <1>6 DEF LoadGlobal
  <2> HIDE DEF v
  <2> QED
    BY <1>1, <2>2, <2>3, OneValue, OperandStep
<1>7. CASE LoadUpvalue
  <2>1. /\ Ins.a < Len(Top.upvalues) /\ Ins.op = "LoadUpvalue"
        /\ cells[Upvalue].open => cells[Upvalue].at < Len(locals)
    BY <1>7 DEF LoadUpvalue, Can, Ready, CompareOps, Upvalue
  <2>2. Upvalue \in DOMAIN cells
    BY <1>2, <1>4, <2>1, LenProperties, ElementOfSeq DEF Frame, Upvalue
  <2>3. cells[Upvalue].at \in Nat /\ cells[Upvalue].val \in Value
    BY <1>1, <2>2 DEF TypeOK, Cell
  <2>4. cells[Upvalue].open => locals[cells[Upvalue].at + 1] \in Value
    BY <1>1, <2>1, <2>3, LocalType
  <2> DEFINE v == IF cells[Upvalue].open THEN locals[cells[Upvalue].at + 1]
                                         ELSE cells[Upvalue].val
  <2>5. v \in Value
    BY <2>3, <2>4
  <2>6. Replace(0, << v >>) /\ UNCHANGED <<locals, heap, cells>>
    BY <1>7 DEF LoadUpvalue
  <2> HIDE DEF v
  <2> QED
    BY <1>1, <2>5, <2>6, OneValue, OperandStep
<1>8. CASE LoadElement
  <2>1. /\ Operand(0).v \in DOMAIN heap
        /\ Ins.a < Len(heap[Operand(0).v].elems) /\ Ins.op # "PushInt"
    BY <1>8 DEF LoadElement, Can, Ready, CompareOps, IsObj, IsTuple
  <2> DEFINE v == heap[Operand(0).v].elems[Ins.a + 1]
  <2>2. v \in Value
    BY <1>1, <1>4, <2>1, HeapElems
  <2>3. Replace(1, << v >>) /\ UNCHANGED <<locals, heap, cells>>
    BY <1>8 DEF LoadElement
  <2> HIDE DEF v
  <2> QED
    BY <1>1, <2>2, <2>3, OneValue, OperandStep
<1> QED
  BY <1>5, <1>6, <1>7, <1>8

(* Instructions that make an object of their operands.                     *)
LEMMA MakeStep ==
  ASSUME IInv,
         PushString \/ PushMethod \/ MakeOption \/ MakeTuple \/ MakeArray
           \/ MakeObject \/ Concat
  PROVE  IInv'
<1>1. TypeOK /\ Fetched
  BY DEF IInv, PushString, PushMethod, MakeOption, MakeTuple, MakeArray, MakeObject,
         Concat, Can
<1>2. /\ Ins.op # "PushInt" => Ins.a \in Nat
      /\ Ins.b \in Nat /\ Ins.c \in Nat
  BY <1>1, InsType DEF Instr
<1>3. stack \in Seq(Value) /\ Len(stack) \in Nat
  BY <1>1, LenProperties DEF TypeOK
<1>4. PredefinedType.string \in Nat /\ << >> \in Seq(Value)
  BY EmptySeq DEF PredefinedType
<1> DEFINE Makes(n, k, obj) ==
      n \in Nat /\ k \in Kinds /\ obj \in Obj(FuncIds, DOMAIN cells) /\ Allocate(n, k, obj)
<1>5. \A n, k, obj : Makes(n, k, obj) => IInv'
  BY <1>1, AllocateStep
<1> HIDE DEF Makes
<1>6. CASE PushString
  <2>1. Plain("string", PredefinedType.string, << >>) \in Obj(FuncIds, DOMAIN cells)
    BY <1>4, PlainType DEF ObjKinds
  <2>2. Makes(0, "ref", Plain("string", PredefinedType.string, << >>))
    BY <1>6, <2>1 DEF Makes, PushString, Kinds, Handles
  <2> QED
    BY <1>5, <2>2
<1>7. CASE Concat
  <2>1. Plain("string", PredefinedType.string, << >>) \in Obj(FuncIds, DOMAIN cells)
    BY <1>4, PlainType DEF ObjKinds
  <2>2. Makes(Ins.a, "ref", Plain("string", PredefinedType.string, << >>))
    BY <1>2, <1>7, <2>1 DEF Makes, Concat, Can, Kinds, Handles
  <2> QED
    BY <1>5, <2>2
<1>8. CASE MakeOption
  <2> DEFINE obj == Plain("some", Ins.a, Operands(1))
  <2>1. Ins.op = "MakeOption" /\ 1 <= Len(stack)
    BY <1>2, <1>3, <1>8 DEF MakeOption, Can, Ready, CompareOps
  <2>2. obj \in Obj(FuncIds, DOMAIN cells)
    BY <1>1, <1>2, <2>1, OperandsType, PlainType DEF ObjKinds
  <2>3. Allocate(1, "some", obj)
    BY <1>8 DEF MakeOption
  <2> HIDE DEF obj
  <2>4. Makes(1, "some", obj)
    BY <1>2, <2>2, <2>3 DEF Makes, Kinds, Handles
  <2> QED
    BY <1>5, <2>4
<1>9. CASE MakeTuple
  <2> DEFINE obj == Plain("tuple", Ins.a, Operands(Ins.b))
  <2>1. Ins.op = "MakeTuple" /\ Ins.b <= Len(stack)
    BY <1>2, <1>3, <1>9 DEF MakeTuple, Can, Ready, CompareOps
  <2>2. obj \in Obj(FuncIds, DOMAIN cells)
    BY <1>1, <1>2, <2>1, OperandsType, PlainType DEF ObjKinds
  <2>3. Allocate(Ins.b, "tuple", obj)
    BY <1>9 DEF MakeTuple
  <2> HIDE DEF obj
  <2>4. Makes(Ins.b, "tuple", obj)
    BY <1>2, <2>2, <2>3 DEF Makes, Kinds, Handles
  <2> QED
    BY <1>5, <2>4
<1>10. CASE MakeArray
  <2> DEFINE obj == Plain("array", Ins.a, Operands(Ins.b))
  <2>1. Ins.op = "MakeArray" /\ Ins.b <= Len(stack)
    BY <1>2, <1>3, <1>10 DEF MakeArray, Can, Ready, CompareOps
  <2>2. obj \in Obj(FuncIds, DOMAIN cells)
    BY <1>1, <1>2, <2>1, OperandsType, PlainType DEF ObjKinds
  <2>3. Allocate(Ins.b, "ref", obj)
    BY <1>10 DEF MakeArray
  <2> HIDE DEF obj
  <2>4. Makes(Ins.b, "ref", obj)
    BY <1>2, <2>2, <2>3 DEF Makes, Kinds, Handles
  <2> QED
    BY <1>5, <2>4
<1>11. CASE MakeObject
  <2> DEFINE n      == Ins.b + Ins.c
             fields == SubSeq(Operands(n), 1, Ins.b)
             obj    == Plain("object", Ins.a, fields)
  <2>1. Ins.op = "MakeObject" /\ n <= Len(stack) /\ n \in Nat
    BY <1>2, <1>3, <1>11 DEF MakeObject, Can, Ready, CompareOps
  <2>2. Operands(n) \in Seq(Value) /\ Len(Operands(n)) = n
    BY <1>1, <2>1, OperandsType
  <2>3. fields \in Seq(Value)
    BY <1>2, <2>2, PrefixType
  <2>4. Allocate(n, "ref", obj)
    BY <1>11 DEF MakeObject
  <2> HIDE DEF n, fields
  <2>5. obj \in Obj(FuncIds, DOMAIN cells)
    BY <1>2, <2>1, <2>3, PlainType DEF ObjKinds
  <2> HIDE DEF obj
  <2>6. Makes(n, "ref", obj)
    BY <2>1, <2>4, <2>5 DEF Makes, Kinds, Handles
  <2> QED
    BY <1>5, <2>6
<1>12. CASE PushMethod
  <2> DEFINE f   == program.classes[Ins.a + 1][Ins.b + 1]
             obj == Callable("method", Fun(f).ty, Operands(1), f, << >>)
  <2>1. f \in FuncIds /\ 1 <= Len(stack)
    BY <1>3, <1>12 DEF PushMethod, Can, Ready, CompareOps, ClassMethod
  <2>2. Operands(1) \in Seq(Value)
    BY <1>1, <2>1, OperandsType
  <2>3. Fun(f).ty \in Nat
    BY <1>1, <2>1, FunType DEF Function
  <2>4. << >> \in Seq(DOMAIN cells)
    BY EmptySeq
  <2>5. Allocate(1, "method", obj)
    BY <1>12 DEF PushMethod
  <2> HIDE DEF f
  <2>6. obj \in Obj(FuncIds, DOMAIN cells)
    BY <2>1, <2>2, <2>3, <2>4 DEF Callable, Obj, ObjKinds
  <2> HIDE DEF obj
  <2>7. Makes(1, "method", obj)
    BY <2>5, <2>6 DEF Makes, Kinds, Handles
  <2> QED
    BY <1>5, <2>7
<1> QED
  BY <1>6, <1>7, <1>8, <1>9, <1>10, <1>11, <1>12

(* Instructions that store a copy of an operand.                           *)
LEMMA StoreSlotStep ==
  ASSUME IInv, StoreLocal \/ StoreGlobal
  PROVE  IInv'
<1>1. TypeOK /\ Fetched
  BY DEF IInv, StoreLocal, StoreGlobal, Can
<1>2. Ins \in Instr /\ Top.localBase \in Nat
  BY <1>1, InsType, FrameType DEF Fetched, Live, Frame
<1>3. Ins.a \in Nat
  BY <1>2 DEF Instr, StoreLocal, StoreGlobal, Can
<1> DEFINE c == CopyOf(Operand(0))
<1>4. 0 < Len(stack)
  BY <1>1, StoresPop
<1>5. /\ c[1] \in Value
      /\ c[2] \in Seq(Obj(FuncIds, DOMAIN cells)) /\ Len(heap) <= Len(c[2])
  BY <1>1, <1>4, OperandType, CopyType
<1>6. PICK i \in Nat :
        locals' = SetSlot(i, c[1]) /\ heap' = c[2] /\ Replace(0, << >>) /\ cells' = cells
  BY <1>2, <1>3 DEF StoreLocal, StoreGlobal
<1> HIDE DEF c
<1>7. /\ locals' \in Seq(Value)
      /\ heap' \in Seq(Obj(FuncIds, DOMAIN cells)) /\ Len(heap) <= Len(heap')
  BY <1>1, <1>5, <1>6, SetSlotType
<1>8. stack' \in Seq(Value) /\ SameCaptures /\ program' = program /\ status' = status
  BY <1>1, <1>6, EmptySeq, ReplaceStep
<1> QED
  BY <1>1, <1>6, <1>7, <1>8, QuietStep, SameHeap

(* An element or a field of an object is overwritten with a copy.          *)
LEMMA StoreElementStep ==
  ASSUME IInv, StoreElement
  PROVE  IInv'
<1>1. TypeOK /\ Fetched
  BY DEF IInv, StoreElement, Can
<1>2. Ins \in Instr
  BY <1>1, InsType
<1>3. Ins.a \in Nat
  BY <1>2 DEF Instr, StoreElement, Can
<1>4. Operand(0).v \in DOMAIN heap
  BY <1>1, ElementStorePops
<1> DEFINE c == CopyOf(Operand(1))
<1>5. heap' = WriteElement(c[2], Operand(0).v, Ins.a, c[1]) /\ 1 < Len(stack)
  BY <1>1, ElementStorePops DEF StoreElement
<1>6. /\ c[1] \in Value
      /\ c[2] \in Seq(Obj(FuncIds, DOMAIN cells))
      /\ Len(heap) <= Len(c[2])
  BY <1>1, <1>5, OperandType, CopyType
<1> HIDE DEF c
<1>7. Operand(0).v \in DOMAIN c[2]
  BY <1>1, <1>4, <1>6, LenProperties DEF TypeOK
<1>8. heap' \in Seq(Obj(FuncIds, DOMAIN cells)) /\ Len(heap) <= Len(heap')
  BY <1>3, <1>5, <1>6, <1>7, WriteElementType
<1>9. stack' \in Seq(Value) /\ SameCaptures /\ program' = program /\ status' = status
  BY <1>1, EmptySeq, ReplaceStep DEF StoreElement
<1> QED
  BY <1>1, <1>8, <1>9, QuietStep, SameHeap DEF StoreElement

(* A captured variable is overwritten, in locals or in its cell.           *)
LEMMA StoreUpvalueStep ==
  ASSUME IInv, StoreUpvalue
  PROVE  IInv'
<1>1. TypeOK /\ Fetched
  BY DEF IInv, StoreUpvalue, Can
<1>2. Ins \in Instr /\ Top \in Frame(FuncIds, DOMAIN cells)
  BY <1>1, InsType, FrameType DEF Fetched, Live
<1>3. Ins.a \in Nat
  BY <1>2 DEF Instr, StoreUpvalue, Can
<1>4. /\ Ins.a < Len(Top.upvalues)
      /\ cells[Upvalue].open => cells[Upvalue].at < Len(locals)
  BY DEF StoreUpvalue, Can, Ready, CompareOps, Upvalue
<1>5. Upvalue \in DOMAIN cells
  BY <1>2, <1>3, <1>4, LenProperties, ElementOfSeq DEF Frame, Upvalue
<1>6. cells[Upvalue] \in Cell
  BY <1>1, <1>5 DEF TypeOK
<1> DEFINE c == CopyOf(Operand(0))
<1>7. /\ 0 < Len(stack)
      /\ heap' = c[2]
      /\ IF cells[Upvalue].open
         THEN /\ locals' = [locals EXCEPT ![cells[Upvalue].at + 1] = c[1]]
              /\ UNCHANGED cells
         ELSE /\ cells' = [cells EXCEPT ![Upvalue].val = c[1]]
              /\ UNCHANGED locals
  BY <1>1, LenProperties DEF StoreUpvalue, Can, Ready, CompareOps, TypeOK
<1>8. /\ c[1] \in Value
      /\ heap' \in Seq(Obj(FuncIds, DOMAIN cells)) /\ Len(heap) <= Len(heap')
  BY <1>1, <1>7, OperandType, CopyType
<1> HIDE DEF c
<1>9. stack' \in Seq(Value) /\ SameCaptures /\ program' = program /\ status' = status
  BY <1>1, EmptySeq, ReplaceStep DEF StoreUpvalue
<1>10. CASE cells[Upvalue].open
  <2>1. locals \in Seq(Value) /\ Len(locals) \in Nat /\ cells[Upvalue].at \in Nat
    BY <1>1, <1>6, LenProperties DEF TypeOK, Cell
  <2>2. cells[Upvalue].at + 1 \in 1 .. Len(locals)
    BY <1>4, <1>10, <2>1
  <2> DEFINE stored == [locals EXCEPT ![cells[Upvalue].at + 1] = c[1]]
  <2>3. locals' = stored
    BY <1>7, <1>10
  <2>4. stored \in Seq(Value)
    BY <1>8, <2>1, <2>2, ExceptSeq
  <2> QED
    BY <1>1, <1>7, <1>8, <1>9, <1>10, <2>3, <2>4, QuietStep, SameHeap
<1>11. CASE ~cells[Upvalue].open
  <2> DEFINE stored == [cells[Upvalue] EXCEPT !.val = c[1]]
  <2>1. stored \in Cell /\ stored.open = cells[Upvalue].open
    BY <1>6, <1>8 DEF Cell
  <2>2. cells' = [cells EXCEPT ![Upvalue] = stored]
    BY <1>7, <1>11
  <2> HIDE DEF stored
  <2>3. cells \in [DOMAIN cells -> Cell]
    BY <1>1 DEF TypeOK
  <2>4. /\ DOMAIN cells' = DOMAIN cells
        /\ cells' \in [DOMAIN cells -> Cell]
        /\ \A d \in DOMAIN cells : /\ cells'[d].open = cells[d].open
                                   /\ cells[d].open => cells'[d] = cells[d]
    BY <1>11, <2>1, <2>2, <2>3
  <2> QED
    BY <1>1, <1>7, <1>8, <1>9, <1>11, <2>4, CellStep, SameHeap
<1> QED
  BY <1>10, <1>11

(* Instructions that may fail.                                             *)
LEMMA FallibleStep ==
  ASSUME IInv, Div \/ Compare \/ Cast \/ Unwrap \/ LoadArrayElement
  PROVE  IInv'
<1>1. TypeOK /\ Fetched
  BY DEF IInv, Div, Compare, Cast, Unwrap, LoadArrayElement, Can
<1>2. CASE \E n \in {0, 1, 2} : Fail(n)
  BY <1>2, FailStep
<1> DEFINE Computes(n, vs) ==
      n \in Nat /\ vs \in Seq(Value) /\ Replace(n, vs) /\ UNCHANGED <<locals, heap, cells>>
<1>3. \A n, vs : Computes(n, vs) => IInv'
  BY <1>1, OperandStep
<1> HIDE DEF Computes
<1>4. CASE Div /\ ~IsZero(Operand(0))
  <2>1. /\ 1 < Len(stack) /\ 0 < Len(stack)
        /\ Divisible(Operand(1), Operand(0))
    BY <1>1, <1>4, LenProperties DEF Div, Can, Ready, CompareOps, TypeOK
  <2>2. Operand(0) \in Value /\ Operand(1) \in Value
    BY <1>1, <2>1, OperandType
  <2>3. \A n \in Int : IntV(n) \in Value /\ Float(n) \in Value
    BY DEF IntV, Float, Value, Kinds, Scalars
  <2>4. Operand(1).k = "int" => Quotient(Operand(1).v, Operand(0).v) \in Int
    BY <2>1, IntAssumption DEF Divisible, I64
  <2>5. DivResults(Operand(1), Operand(0)) \subseteq Value
    BY <2>3, <2>4 DEF DivResults
  <2>6. PICK r \in Value : Replace(2, <<r>>) /\ UNCHANGED <<locals, heap, cells>>
    BY <1>4, <2>5 DEF Div
  <2>7. Computes(2, <<r>>)
    BY <2>6, OneValue DEF Computes
  <2> QED
    BY <1>3, <2>7
<1>5. CASE Compare /\ ~Fail(2)
  <2>1. PICK op \in CompareOps :
          Can(op) /\ Replace(2, << Operand(0) >>) /\ UNCHANGED <<locals, heap, cells>>
    BY <1>5 DEF Compare
  <2>2. 0 < Len(stack)
    BY <1>1, <2>1, LenProperties DEF Can, Ready, CompareOps, TypeOK
  <2>3. Computes(2, << Operand(0) >>)
    BY <1>1, <2>1, <2>2, OperandType, OneValue DEF Computes
  <2> QED
    BY <1>3, <2>3
<1>6. CASE Cast /\ ~Fail(0)
  <2>1. Computes(0, << >>)
    BY <1>6, EmptySeq DEF Cast, Computes
  <2> QED
    BY <1>3, <2>1
<1>7. CASE Unwrap /\ ~Fail(1)
  <2> DEFINE vs == heap[Operand(0).v].elems
  <2>1. Operand(0).k = "some" /\ Operand(0).v \in DOMAIN heap
    BY <1>7 DEF Unwrap, Can, Ready, CompareOps, Fetchable, Handles
  <2>2. vs \in Seq(Value)
    BY <1>1, <2>1, HeapElems
  <2>3. Replace(1, vs) /\ UNCHANGED <<locals, heap, cells>>
    BY <1>7 DEF Unwrap
  <2> HIDE DEF vs
  <2>4. Computes(1, vs)
    BY <2>2, <2>3 DEF Computes
  <2> QED
    BY <1>3, <2>4
<1>8. CASE LoadArrayElement /\ ~Fail(1) /\ ~Fail(2)
  <2> DEFINE i  == Operand(0).v
             es == heap[Operand(1).v].elems
             v  == es[i + 1]
  <2>1. 0 < Len(stack) /\ Ins.op = "LoadArrayElement"
    BY <1>1, <1>8, LenProperties DEF LoadArrayElement, Can, Ready, CompareOps, TypeOK
  <2>2. i \in Int
    BY <1>1, <2>1, OperandType DEF Value
  <2>3. ~(i < 0) /\ ~(i >= Len(es))
    BY <1>8 DEF LoadArrayElement
  <2>4. Operand(1).v \in DOMAIN heap
    BY <1>8, <2>2, <2>3 DEF LoadArrayElement, Can, Ready, CompareOps, IsObj
  <2>5. v \in Value
    BY <1>1, <2>2, <2>3, <2>4, HeapElems
  <2>6. Replace(2, << v >>) /\ UNCHANGED <<locals, heap, cells>>
    BY <1>8, <2>3 DEF LoadArrayElement
  <2> HIDE DEF v
  <2>7. Computes(2, << v >>)
    BY <2>5, <2>6, OneValue DEF Computes
  <2> QED
    BY <1>3, <2>7
<1> QED
  BY <1>2, <1>4, <1>5, <1>6, <1>7, <1>8 DEF Div

(* An array's element is overwritten, or the index fails.                  *)
LEMMA StoreArrayStep ==
  ASSUME IInv, StoreArrayElement
  PROVE  IInv'
<1> DEFINE i == Operand(0).v
           o == Operand(1).v
           c == CopyOf(Operand(2))
<1>1. TypeOK /\ Fetched
  BY DEF IInv, StoreArrayElement, Can
<1>2. CASE Fail(2)
  BY <1>2, FailStep
<1>3. CASE ~Fail(2)
  <2>1. 0 < Len(stack) /\ o \in DOMAIN heap
    BY <1>1, LenProperties DEF StoreArrayElement, Can, Ready, CompareOps, IsObj, TypeOK
  <2>2. i \in Int
    BY <1>1, <2>1, OperandType DEF Value
  <2>3. /\ 0 <= i
        /\ Replace(2, << >>) /\ UNCHANGED <<locals, cells>>
        /\ heap' = WriteElement(c[2], o, i, c[1])
    BY <1>3 DEF StoreArrayElement
  <2>4. 2 < Len(stack)
    BY <1>1, LenProperties DEF StoreArrayElement, Can, Ready, CompareOps, TypeOK
  <2> HIDE DEF i, o
  <2>5. i \in Nat
    BY <2>2, <2>3
  <2>6. /\ c[1] \in Value
        /\ c[2] \in Seq(Obj(FuncIds, DOMAIN cells))
        /\ Len(heap) <= Len(c[2])
    BY <1>1, <2>4, OperandType, CopyType
  <2> HIDE DEF c
  <2>7. o \in DOMAIN c[2]
    BY <1>1, <2>1, <2>6, LenProperties DEF TypeOK
  <2>8. heap' \in Seq(Obj(FuncIds, DOMAIN cells)) /\ Len(heap) <= Len(heap')
    BY <2>3, <2>5, <2>6, <2>7, WriteElementType
  <2>9. stack' \in Seq(Value) /\ SameCaptures /\ program' = program /\ status' = status
    BY <1>1, <2>3, EmptySeq, ReplaceStep
  <2> QED
    BY <1>1, <2>3, <2>8, <2>9, QuietStep, SameHeap
<1> QED
  BY <1>2, <1>3

-----------------------------------------------------------------------------
(* Calls, closures and returns.                                            *)

(* A jump sets the pc only.                                                *)
LEMMA JmpStep ==
  ASSUME IInv, Jmp
  PROVE  IInv'
<1>1. TypeOK /\ Fetched /\ frames # << >>
  BY DEF IInv, Jmp, Can, Fetched, Live
<1>2. Ins \in Instr
  BY <1>1, InsType
<1>3. Ins.a \in Nat
  BY <1>2 DEF Instr, Jmp, Can
<1>4. SameCaptures
  BY <1>1, <1>3, JumpFrames DEF Jmp
<1> QED
  BY <1>1, <1>4, QuietStep, SameHeap DEF Jmp, TypeOK

(* The new frame has captured nothing.                                     *)
LEMMA CallStep ==
  ASSUME IInv, Call
  PROVE  IInv'
<1> DEFINE F    == Frame(FuncIds, DOMAIN cells)
           n    == Len(frames)
           pc   == Top.pc + 1
           below == [frames EXCEPT ![n].pc = pc]
           o    == Operand(Ins.a).v
           new  == NewFrame(heap[o].fn, Len(locals), Len(stack) - Ins.a - 1, heap[o].up)
<1>1. TypeOK /\ Fetched /\ frames # << >>
  BY DEF IInv, Call, Can, Fetched, Live
<1>2. Ins \in Instr /\ Top \in F
  BY <1>1, InsType, FrameType
<1>3. /\ Ins.a \in Nat /\ Top.pc \in Nat
      /\ Ins.op = "Call"
  BY <1>2 DEF Instr, Frame, Call, Can
<1>4. /\ Len(stack) \in Nat /\ Len(locals) \in Nat
      /\ stack \in Seq(Value) /\ locals \in Seq(Value)
      /\ frames \in Seq(F) /\ n \in Nat /\ DOMAIN frames = 1 .. n
  BY <1>1, LenProperties DEF TypeOK
<1>5. Len(stack) >= Ins.a + 1 /\ o \in DOMAIN heap
  BY <1>3, <1>4 DEF Call, Can, Ready, CompareOps, IsCallee, IsObj
<1>6. heap[o].fn \in FuncIds /\ heap[o].up \in Seq(DOMAIN cells)
  BY <1>1, <1>5, HeapObject DEF Obj
<1>7. /\ new \in F
      /\ new.captures = {}
      /\ new.localBase = Len(locals)
  BY <1>3, <1>4, <1>5, <1>6 DEF NewFrame, Frame
<1>8. frames' = Append(below, new)
  BY DEF Call, Top
<1> HIDE DEF new
<1>9. /\ below \in Seq(F) /\ Len(below) = n
      /\ \A i \in 1 .. n : /\ below[i].captures = frames[i].captures
                           /\ below[i].localBase = frames[i].localBase
  <2>1. n \in 1 .. Len(frames)
    BY <1>1, <1>4, EmptySeq
  <2>0. pc \in Nat
    BY <1>3
  <2> HIDE DEF pc
  <2>2. /\ At(frames[n], pc) \in F
        /\ At(frames[n], pc).captures = frames[n].captures
        /\ At(frames[n], pc).localBase = frames[n].localBase
    BY <1>4, <2>1, <2>0, ElementOfSeq, FrameAt, SMTT(30)
  <2>3. below = [frames EXCEPT ![n] = At(frames[n], pc)]
    BY DEF At
  <2> HIDE DEF below
  <2>4. /\ below \in Seq(F) /\ Len(below) = n
        /\ \A j \in 1 .. n : below[j] = IF j = n THEN At(frames[n], pc) ELSE frames[j]
    BY <1>4, <2>1, <2>2, <2>3, ExceptSeq
  <2> QED
    BY <2>2, <2>4
<1> HIDE DEF below
<1>10. /\ frames' \in Seq(F) /\ Len(frames') = n + 1
       /\ DOMAIN frames' = 1 .. n + 1
       /\ \A i \in 1 .. n : frames'[i] = below[i]
       /\ frames'[n + 1] = new
  BY <1>7, <1>8, <1>9, AppendProperties, LenProperties
<1>11. locals' \in Seq(Value) /\ stack' \in Seq(Value)
  <2>1. Operands(Ins.a) \in Seq(Value)
    BY <1>1, <1>3, <1>4, <1>5, OperandsType
  <2>2. Below(Ins.a + 1) \in Seq(Value)
    BY <1>1, <1>3, BelowType
  <2> QED
    BY <1>4, <2>1, <2>2, ConcatProperties DEF Call
<1>12. /\ program' = program /\ heap' = heap /\ cells' = cells /\ status' = status
       /\ FuncIds' = FuncIds
  BY DEF Call, FuncIds
<1>13. TypeOK'
  BY <1>1, <1>10, <1>11, <1>12 DEF TypeOK
<1>14. CapturesInv'
  <2>1. \A i \in DOMAIN frames' :
          \/ /\ i \in DOMAIN frames
             /\ frames'[i].captures = frames[i].captures
             /\ frames'[i].localBase = frames[i].localBase
          \/ frames'[i].captures = {}
    BY <1>4, <1>7, <1>9, <1>10, SMTT(30)
  <2> QED
    BY <1>12, <2>1 DEF IInv, CapturesInv
<1> QED
  BY <1>12, <1>13, <1>14 DEF IInv, CellNames, OpenCells

(* The frame that returns is the only one that loses captures, and no      *)
(* other frame has one of them.                                            *)
LEMMA ReturnStep ==
  ASSUME IInv, Return
  PROVE  IInv'
<1> DEFINE F == Frame(FuncIds, DOMAIN cells)
           n == Len(frames)
<1>1. TypeOK /\ frames # << >> /\ CapturesInv
  BY DEF IInv, Return, AtEnd, Live
<1>2. /\ Top \in F /\ n \in Nat /\ n # 0 /\ frames \in Seq(F) /\ DOMAIN frames = 1 .. n
      /\ Top = frames[n]
  BY <1>1, FrameType, LenProperties DEF TypeOK, Top
<1> HIDE DEF n
<1>3. /\ frames' \in Seq(F) /\ DOMAIN frames' = 1 .. n - 1
      /\ \A i \in 1 .. n - 1 : frames'[i] = frames[i]
  <2>1. frames' = SubSeq(frames, 1, n - 1) /\ n - 1 \in Int /\ n - 1 <= Len(frames)
    BY <1>2 DEF Return, n
  <2>2. /\ frames' \in Seq(F) /\ Len(frames') = n - 1
        /\ \A i \in 1 .. n - 1 : frames'[i] = frames[i]
    BY <1>2, <2>1, PrefixType
  <2> QED
    BY <2>2, LenProperties
<1>4. /\ program' = program /\ heap' = heap /\ stack' = stack /\ status' = status
      /\ FuncIds' = FuncIds
  BY DEF Return, FuncIds
<1>5. cells' = [c \in DOMAIN cells |-> IF Closes(c) THEN ClosedCell(locals[cells[c].at + 1])
                                       ELSE cells[c]]
  BY DEF Return, CloseCaptures
<1>6. DOMAIN cells' = DOMAIN cells
  BY <1>5
<1>7. \A c \in DOMAIN cells :
        /\ cells'[c] \in Cell
        /\ cells'[c].open => c \notin Top.captures /\ cells'[c] = cells[c]
        /\ c \notin Top.captures => cells'[c] = cells[c]
  <2> SUFFICES ASSUME NEW c \in DOMAIN cells
               PROVE  /\ cells'[c] \in Cell
                      /\ cells'[c].open => c \notin Top.captures /\ cells'[c] = cells[c]
                      /\ c \notin Top.captures => cells'[c] = cells[c]
    OBVIOUS
  <2>1. cells[c] \in Cell
    BY <1>1 DEF TypeOK
  <2>2. CASE Closes(c)
    <3> DEFINE v == locals[cells[c].at + 1]
    <3>1. cells[c].at \in Nat /\ cells[c].at < Len(locals) /\ c \in Top.captures
      BY <2>1, <2>2 DEF Cell, Closes, Return, Closable
    <3>2. v \in Value
      BY <1>1, <3>1, LocalType
    <3>3. cells'[c] = ClosedCell(v)
      BY <1>5, <2>2
    <3> HIDE DEF v
    <3>4. ClosedCell(v) \in Cell /\ ~ClosedCell(v).open
      BY <3>2 DEF ClosedCell, Cell
    <3> QED
      BY <3>1, <3>3, <3>4
  <2>3. CASE ~Closes(c)
    <3>1. cells'[c] = cells[c]
      BY <1>5, <2>3
    <3> QED
      BY <2>1, <2>3, <3>1 DEF Closes
  <2> QED
    BY <2>2, <2>3
<1>8. locals' \in Seq(Value)
  <2>1. Top.localBase \in Int /\ locals \in Seq(Value)
    BY <1>1, FrameType DEF Frame, TypeOK
  <2>2. Truncate(locals, Top.localBase) \in Seq(Value)
    BY <2>1, TruncateType
  <2> QED
    BY <2>2 DEF Return
<1>9. TypeOK'
  <2>1. cells' \in [DOMAIN cells -> Cell]
    BY <1>5, <1>7
  <2> QED
    BY <1>1, <1>3, <1>4, <1>6, <1>8, <2>1 DEF TypeOK
<1>10. \A i \in 1 .. n - 1 : \A c \in frames[i].captures : cells'[c] = cells[c]
  <2> SUFFICES ASSUME NEW i \in 1 .. n - 1, NEW c \in frames[i].captures
               PROVE  cells'[c] = cells[c]
    OBVIOUS
  <2>1. i \in DOMAIN frames /\ n \in DOMAIN frames /\ i # n
    BY <1>2
  <2>2. c \in DOMAIN cells
    BY <1>1, <2>1, EachFrame
  <2>3. c \notin frames[n].captures
    BY <1>1, <2>1 DEF CapturesInv
  <2> QED
    BY <1>2, <1>7, <2>2, <2>3
<1>11. CapturesInv'
  BY <1>1, <1>2, <1>3, <1>10 DEF CapturesInv
<1>12. OpenCells' /\ CellNames'
  BY <1>4, <1>6, <1>7 DEF IInv, OpenCells, CellNames, OpenCell
<1> QED
  BY <1>4, <1>9, <1>11, <1>12 DEF IInv

(* A function on 1 .. n is a sequence.                                     *)
LEMMA FunctionSeq ==
  ASSUME NEW S, NEW n \in Nat, NEW f \in [1 .. n -> S]
  PROVE  f \in Seq(S)
BY SeqDef

(* A larger set of cell names only adds objects and frames.                *)
LEMMA MoreCells ==
  ASSUME NEW fns, NEW ids, NEW more, ids \subseteq more
  PROVE  /\ Obj(fns, ids) \subseteq Obj(fns, more)
         /\ Frame(fns, ids) \subseteq Frame(fns, more)
<1>1. \A s \in Seq(ids) : s \in Seq(more)
  BY SeqMonotonic
<1> QED
  BY <1>1 DEF Obj, Frame

(* CellFor finds a captured cell, or makes up a name no cell has.          *)
LEMMA CellForCases ==
  ASSUME IInv, NEW d \in [depth : Nat, slot : Nat], d.depth \in 1 .. Len(frames)
  PROVE  /\ UpFrame(d) \in DOMAIN frames
         /\ UpIndex(d) \in Nat
         /\ UpIndex(d) >= frames[UpFrame(d)].localBase
         /\ CellFor(d) \in CellId
         /\ \/ /\ CellFor(d) \in frames[UpFrame(d)].captures
               /\ CellFor(d) \in DOMAIN cells
               /\ cells[CellFor(d)] = OpenCell(UpIndex(d))
            \/ /\ CellFor(d) = <<Len(heap) + 1, UpFrame(d), UpIndex(d)>>
               /\ CellFor(d) \notin DOMAIN cells
               /\ Captured(d) = {}
<1>1. TypeOK /\ Len(heap) \in Nat
  BY LenProperties DEF IInv, TypeOK
<1>2. /\ UpFrame(d) \in 1 .. Len(frames)
      /\ DOMAIN frames = 1 .. Len(frames)
  BY <1>1, LenProperties DEF UpFrame, TypeOK
<1>3. /\ frames[UpFrame(d)].localBase \in Nat
      /\ frames[UpFrame(d)].captures \subseteq DOMAIN cells
  BY <1>1, <1>2, EachFrame
<1>4. UpIndex(d) \in Nat /\ UpIndex(d) >= frames[UpFrame(d)].localBase
  BY <1>3 DEF UpIndex
<1>5. CASE Captured(d) # {}
  <2>1. CellFor(d) \in Captured(d)
    BY <1>5 DEF CellFor
  <2>2. /\ CellFor(d) \in frames[UpFrame(d)].captures
        /\ cells[CellFor(d)] = OpenCell(UpIndex(d))
    BY <2>1 DEF Captured
  <2> QED
    BY <1>1, <1>2, <1>3, <1>4, <2>2 DEF TypeOK
<1>6. CASE Captured(d) = {}
  <2>1. CellFor(d) = <<Len(heap) + 1, UpFrame(d), UpIndex(d)>>
    BY <1>6 DEF CellFor
  <2>2. CellFor(d) \in CellId /\ CellFor(d)[1] = Len(heap) + 1
    BY <1>1, <1>2, <1>4, <2>1 DEF CellId
  <2>3. CellFor(d) \notin DOMAIN cells
    BY <1>1, <2>2 DEF IInv, CellNames
  <2> QED
    BY <1>2, <1>4, <1>6, <2>1, <2>2, <2>3
<1> QED
  BY <1>5, <1>6

(* A frame that closures have captured variables of.                       *)
Grow(f, more, pc) == [f EXCEPT !.captures = @ \cup more, !.pc = pc]

(* A frame that captures one cell more is a frame.                         *)
LEMMA FrameGrow ==
  ASSUME NEW fns, NEW ids, NEW f \in Frame(fns, ids), NEW more \in SUBSET ids,
         NEW pc \in Nat
  PROVE  /\ Grow(f, more, pc) \in Frame(fns, ids)
         /\ Grow(f, more, pc).captures = f.captures \cup more
         /\ Grow(f, more, pc).localBase = f.localBase
BY DEF Grow, Frame

(* New cells belong to the frame whose slot they name and to no other      *)
(* frame.                                                                  *)
LEMMA MakeClosureStep ==
  ASSUME IInv, MakeClosure
  PROVE  IInv'
<1> DEFINE n  == Len(frames)
           ds == Fun(Ins.a).upvalues
           up == [k \in DOMAIN ds |-> CellFor(ds[k])]
           By(j) == {up[k] : k \in {l \in DOMAIN ds : UpFrame(ds[l]) = j}}
           obj == Callable("function", Fun(Ins.a).ty, << >>, Ins.a, up)
           Pc(j) == IF j = n THEN frames[j].pc + 1 ELSE frames[j].pc
           Grown(j) == Grow(frames[j], By(j), Pc(j))
<1>1. TypeOK /\ Fetched /\ CapturesInv
  BY DEF IInv, MakeClosure, Can
<1>2. /\ n \in Nat /\ DOMAIN frames = 1 .. n
      /\ heap \in Seq(Obj(FuncIds, DOMAIN cells)) /\ Len(heap) \in Nat
  BY <1>1, LenProperties DEF TypeOK
<1>3. /\ Ins.a \in FuncIds
      /\ \A k \in DOMAIN ds : ds[k].depth \in 1 .. n
  BY DEF MakeClosure, Can, Ready, CompareOps
<1>4. /\ ds \in Seq([depth : Nat, slot : Nat])
      /\ Fun(Ins.a).ty \in Nat
      /\ Len(ds) \in Nat /\ DOMAIN ds = 1 .. Len(ds)
      /\ \A k \in DOMAIN ds : ds[k] \in [depth : Nat, slot : Nat]
  BY <1>1, <1>3, FunType, LenProperties, ElementOfSeq DEF Function
<1>5. /\ cells' = [c \in DOMAIN cells \cup {up[k] : k \in DOMAIN ds} |->
                     IF c \in DOMAIN cells THEN cells[c] ELSE OpenCell(c[3])]
      /\ frames' = [j \in DOMAIN frames |-> Grown(j)]
      /\ heap' = Append(heap, obj)
      /\ stack' = Append(stack, Handle("ref", Len(heap) + 1))
      /\ program' = program /\ locals' = locals /\ status' = status
  BY DEF MakeClosure, Grow
<1>6. FuncIds' = FuncIds
  BY <1>5 DEF FuncIds
<1> HIDE DEF ds
<1>7. \A k \in DOMAIN ds :
        /\ up[k] = CellFor(ds[k])
        /\ UpFrame(ds[k]) \in DOMAIN frames
        /\ UpIndex(ds[k]) \in Nat
        /\ UpIndex(ds[k]) >= frames[UpFrame(ds[k])].localBase
        /\ up[k] \in CellId
        /\ \/ /\ up[k] \in frames[UpFrame(ds[k])].captures
              /\ up[k] \in DOMAIN cells
              /\ cells[up[k]] = OpenCell(UpIndex(ds[k]))
           \/ /\ up[k] = <<Len(heap) + 1, UpFrame(ds[k]), UpIndex(ds[k])>>
              /\ up[k] \notin DOMAIN cells
              /\ Captured(ds[k]) = {}
  BY <1>3, <1>4, CellForCases
<1>8. up \in [1 .. Len(ds) -> {up[k] : k \in DOMAIN ds}]
  BY <1>4
<1> HIDE DEF up
<1>9. /\ DOMAIN cells' = DOMAIN cells \cup {up[k] : k \in DOMAIN ds}
      /\ \A c \in DOMAIN cells : cells'[c] = cells[c]
      /\ \A k \in DOMAIN ds : up[k] \in DOMAIN cells' /\ cells'[up[k]] = OpenCell(UpIndex(ds[k]))
  <2>1. DOMAIN cells' = DOMAIN cells \cup {up[k] : k \in DOMAIN ds}
    BY <1>5
  <2>2. \A c \in DOMAIN cells' :
          cells'[c] = IF c \in DOMAIN cells THEN cells[c] ELSE OpenCell(c[3])
    BY <1>5
  <2>3. ASSUME NEW k \in DOMAIN ds
        PROVE  cells'[up[k]] = OpenCell(UpIndex(ds[k]))
    <3>1. CASE up[k] \in DOMAIN cells
      BY <1>7, <2>1, <2>2, <3>1
    <3>2. CASE up[k] \notin DOMAIN cells
      <4>1. up[k][3] = UpIndex(ds[k])
        BY <1>7, <3>2
      <4> QED
        BY <2>1, <2>2, <3>2, <4>1
    <3> QED
      BY <3>1, <3>2
  <2> QED
    BY <2>1, <2>2, <2>3
<1>10. \A i \in Nat : OpenCell(i) \in Cell /\ OpenCell(i).open /\ OpenCell(i).at = i
  BY DEF OpenCell, Cell, Void, Value, Kinds, Scalars
<1>11. \A j \in DOMAIN frames :
         /\ By(j) \subseteq DOMAIN cells'
         /\ frames'[j] \in Frame(FuncIds, DOMAIN cells')
         /\ frames'[j].captures = frames[j].captures \cup By(j)
         /\ frames'[j].localBase = frames[j].localBase
  <2> SUFFICES ASSUME NEW j \in DOMAIN frames
               PROVE  /\ By(j) \subseteq DOMAIN cells'
                      /\ frames'[j] \in Frame(FuncIds, DOMAIN cells')
                      /\ frames'[j].captures = frames[j].captures \cup By(j)
                      /\ frames'[j].localBase = frames[j].localBase
    OBVIOUS
  <2>1. By(j) \subseteq DOMAIN cells'
    BY <1>9
  <2>2. frames[j] \in Frame(FuncIds, DOMAIN cells')
    BY <1>1, <1>9, EachFrame, MoreCells
  <2>3. frames'[j] = Grown(j)
    BY <1>5
  <2>4. frames[j].pc \in Nat
    BY <2>2 DEF Frame
  <2>5. Pc(j) \in Nat
    BY <2>4
  <2> HIDE DEF By, Pc
  <2>6. /\ Grown(j) \in Frame(FuncIds, DOMAIN cells')
        /\ Grown(j).captures = frames[j].captures \cup By(j)
        /\ Grown(j).localBase = frames[j].localBase
    BY <2>1, <2>2, <2>5, FrameGrow
  <2> HIDE DEF Grown
  <2> QED
    BY <2>1, <2>3, <2>6
<1>12. TypeOK' /\ Len(heap') = Len(heap) + 1
  <2>1. frames' \in Seq(Frame(FuncIds, DOMAIN cells'))
    <3>1. frames' \in [1 .. n -> Frame(FuncIds, DOMAIN cells')]
      BY <1>2, <1>5, <1>11
    <3> QED
      BY <1>2, <3>1, FunctionSeq
  <2>2. up \in Seq(DOMAIN cells')
    <3>1. up \in [1 .. Len(ds) -> DOMAIN cells']
      BY <1>4, <1>8, <1>9
    <3> QED
      BY <1>4, <3>1, FunctionSeq
  <2>3. obj \in Obj(FuncIds, DOMAIN cells')
    <3>1. << >> \in Seq(Value)
      BY EmptySeq
    <3> QED
      BY <1>3, <1>4, <2>2, <3>1 DEF Callable, Obj, ObjKinds
  <2>4. heap \in Seq(Obj(FuncIds, DOMAIN cells'))
    BY <1>2, <1>9, MoreCells, SeqMonotonic
  <2> HIDE DEF obj
  <2>5. heap' \in Seq(Obj(FuncIds, DOMAIN cells')) /\ Len(heap') = Len(heap) + 1
    BY <1>5, <2>3, <2>4, AppendProperties
  <2>6. Handle("ref", Len(heap) + 1) \in Value
    BY <1>2 DEF Handle, Value, Kinds, Handles
  <2>7. stack' \in Seq(Value)
    BY <1>1, <1>5, <2>6, AppendProperties DEF TypeOK
  <2>8. DOMAIN cells' \subseteq CellId
    BY <1>1, <1>7, <1>9 DEF TypeOK
  <2>9. cells' \in [DOMAIN cells' -> Cell]
    <3>1. \A c \in DOMAIN cells : cells[c] \in Cell
      BY <1>1 DEF TypeOK
    <3>2. \A c \in DOMAIN cells' : cells'[c] \in Cell
      BY <1>7, <1>9, <1>10, <3>1
    <3> QED
      BY <1>5, <3>2
  <2> QED
    BY <1>1, <1>5, <1>6, <2>1, <2>5, <2>7, <2>8, <2>9 DEF TypeOK
<1>13. CellNames'
  <2> SUFFICES ASSUME NEW c \in DOMAIN cells'
               PROVE  c[1] <= Len(heap) + 1
    BY <1>12 DEF CellNames
  <2>1. CASE c \in DOMAIN cells
    <3>1. c \in CellId /\ c[1] <= Len(heap)
      BY <1>1, <2>1 DEF TypeOK, IInv, CellNames
    <3> QED
      BY <1>2, <3>1 DEF CellId
  <2>2. CASE c \notin DOMAIN cells
    <3>1. PICK k \in DOMAIN ds : c = up[k]
      BY <1>9, <2>2
    <3>2. c = <<Len(heap) + 1, UpFrame(ds[k]), UpIndex(ds[k])>>
      BY <1>7, <2>2, <3>1
    <3> QED
      BY <1>2, <3>2
  <2> QED
    BY <2>1, <2>2
<1>14. OpenCells'
  BY <1>7, <1>9, <1>10 DEF IInv, OpenCells
<1>15. CapturesInv'
  <2> DEFINE Old(j, c) == c \in frames[j].captures
             New(j, c) == /\ c \notin DOMAIN cells
                          /\ c = <<Len(heap) + 1, j, cells'[c].at>>
                          /\ cells'[c].open /\ cells'[c].at >= frames[j].localBase
                          /\ \A d \in frames[j].captures : cells[d].at # cells'[c].at
  <2>1. \A j \in DOMAIN frames : \A c \in frames[j].captures :
          c \in DOMAIN cells /\ cells'[c] = cells[c] /\ cells[c].open
    BY <1>1, <1>9, EachFrame DEF CapturesInv
  <2>2. \A j \in DOMAIN frames : \A c \in frames'[j].captures : Old(j, c) \/ New(j, c)
    <3> SUFFICES ASSUME NEW j \in DOMAIN frames, NEW c \in frames'[j].captures,
                        c \notin frames[j].captures
                 PROVE  New(j, c)
      OBVIOUS
    <3>1. PICK k \in DOMAIN ds : c = up[k] /\ UpFrame(ds[k]) = j
      BY <1>11
    <3>2. /\ c = <<Len(heap) + 1, j, UpIndex(ds[k])>>
          /\ c \notin DOMAIN cells
          /\ Captured(ds[k]) = {}
          /\ UpIndex(ds[k]) \in Nat
          /\ UpIndex(ds[k]) >= frames[j].localBase
      BY <1>7, <3>1
    <3>3. cells'[c].at = UpIndex(ds[k]) /\ cells'[c].open
      <4>1. cells'[c] = OpenCell(UpIndex(ds[k]))
        BY <1>9, <3>1
      <4> QED
        BY <1>10, <3>2, <4>1
    <3>4. ASSUME NEW d \in frames[j].captures, cells[d].at = UpIndex(ds[k])
          PROVE  FALSE
      <4>1. cells[d] = OpenCell(UpIndex(ds[k]))
        BY <2>1, <3>4 DEF IInv, OpenCells
      <4>2. d \in Captured(ds[k])
        BY <3>1, <4>1 DEF Captured
      <4> QED
        BY <3>2, <4>2
    <3> QED
      BY <3>2, <3>3, <3>4
  <2>3. DOMAIN frames' = DOMAIN frames
    BY <1>5
  <2>4. \A i \in DOMAIN frames : \A c \in frames'[i].captures :
          cells'[c].open /\ cells'[c].at >= frames'[i].localBase
    BY <1>1, <1>11, <2>1, <2>2 DEF CapturesInv
  <2>5. \A i, j \in DOMAIN frames :
          i # j => frames'[i].captures \cap frames'[j].captures = {}
    <3> SUFFICES ASSUME NEW i \in DOMAIN frames, NEW j \in DOMAIN frames, i # j,
                        NEW c \in frames'[i].captures, c \in frames'[j].captures
                 PROVE  FALSE
      OBVIOUS
    <3>1. (Old(i, c) \/ New(i, c)) /\ (Old(j, c) \/ New(j, c))
      BY <2>2
    <3>2. ~(Old(i, c) /\ Old(j, c))
      BY <1>1 DEF CapturesInv
    <3>3. ~(New(i, c) /\ New(j, c))
      OBVIOUS
    <3> QED
      BY <2>1, <3>1, <3>2, <3>3
  <2>6. \A i \in DOMAIN frames : \A c, d \in frames'[i].captures :
          cells'[c].at = cells'[d].at => c = d
    <3> SUFFICES ASSUME NEW i \in DOMAIN frames, NEW c \in frames'[i].captures,
                        NEW d \in frames'[i].captures, cells'[c].at = cells'[d].at
                 PROVE  c = d
      OBVIOUS
    <3>1. (Old(i, c) \/ New(i, c)) /\ (Old(i, d) \/ New(i, d))
      BY <2>2
    <3>2. Old(i, c) /\ Old(i, d) => c = d
      BY <1>1, <2>1 DEF CapturesInv
    <3>3. New(i, c) /\ New(i, d) => c = d
      OBVIOUS
    <3>4. ~(Old(i, c) /\ New(i, d)) /\ ~(New(i, c) /\ Old(i, d))
      BY <2>1
    <3> QED
      BY <3>1, <3>2, <3>3, <3>4
  <2> QED
    BY <2>3, <2>4, <2>5, <2>6 DEF CapturesInv
<1> QED
  BY <1>5, <1>12, <1>13, <1>14, <1>15 DEF IInv

-----------------------------------------------------------------------------
(* The theorems.                                                           *)

(* The machine starts well formed, with no captures.                       *)
LEMMA InitInv == Init => IInv
<1> SUFFICES ASSUME Init PROVE IInv
  OBVIOUS
<1>1. /\ program \in Program /\ program.entry < Len(program.functions)
      /\ program.functions \in Seq(Function)
  BY ProgramsAssumption DEF Init, Program
<1>2. /\ program.entry \in FuncIds /\ 0 \in FuncIds
  BY <1>1, LenProperties DEF Program, FuncIds
<1>3. cells = << >> /\ DOMAIN cells = {} /\ cells \in [DOMAIN cells -> Cell]
  BY DEF Init
<1>4. << >> \in Seq(DOMAIN cells) /\ << >> \in Seq(Value)
  BY EmptySeq
<1> DEFINE F     == Frame(FuncIds, DOMAIN cells)
           entry == NewFrame(program.entry, 0, 0, << >>)
           print == Plain("native", PrintType, << >>)
<1>5. entry \in F /\ entry.captures = {}
  BY <1>2, <1>4 DEF NewFrame, Frame
<1>6. print \in Obj(FuncIds, DOMAIN cells)
  BY <1>2, <1>4 DEF Plain, Obj, ObjKinds, PrintType
<1>7. locals \in Seq(Value)
  <2>1. \A i \in 1 .. 9 : Globals[i] \in Value
    BY DEF Globals, GlobalTypes, PredefinedType, Handle, Value, Kinds, Scalars, Handles
  <2>2. Globals \in [1 .. 9 -> Value]
    BY <2>1 DEF Globals
  <2> QED
    BY <2>2, FunctionSeq DEF Init
<1>8. frames = << entry >> /\ heap = << print >>
  BY DEF Init
<1> HIDE DEF entry, print
<1>9. /\ frames \in Seq(F) /\ heap \in Seq(Obj(FuncIds, DOMAIN cells))
      /\ DOMAIN frames = {1} /\ frames[1] = entry
  BY <1>5, <1>6, <1>8
<1>10. TypeOK
  BY <1>1, <1>3, <1>4, <1>7, <1>9 DEF Init, TypeOK
<1>11. CapturesInv
  BY <1>5, <1>9 DEF CapturesInv
<1> QED
  BY <1>3, <1>10, <1>11 DEF Init, IInv, CellNames, OpenCells

(* No step breaks the invariant: one case for each action of Next.         *)
LEMMA NextInv == IInv /\ [Next]_vars => IInv'
<1> SUFFICES ASSUME IInv, [Next]_vars PROVE IInv'
  OBVIOUS
<1>1. CASE PushConst
  BY <1>1, ConstStep
<1>2. CASE ArithOp \/ Neg \/ Not \/ Dup \/ Pop \/ ToText \/ LenOp \/ CallNative
  BY <1>2, ComputeStep
<1>3. CASE LoadLocal \/ LoadGlobal \/ LoadUpvalue \/ LoadElement
  BY <1>3, LoadStep
<1>4. CASE PushString \/ PushMethod \/ MakeOption \/ MakeTuple \/ MakeArray
             \/ MakeObject \/ Concat
  BY <1>4, MakeStep
<1>5. CASE StoreLocal \/ StoreGlobal
  BY <1>5, StoreSlotStep
<1>6. CASE StoreUpvalue
  BY <1>6, StoreUpvalueStep
<1>7. CASE StoreElement
  BY <1>7, StoreElementStep
<1>8. CASE StoreArrayElement
  BY <1>8, StoreArrayStep
<1>9. CASE Div \/ Compare \/ Cast \/ Unwrap \/ LoadArrayElement
  BY <1>9, FallibleStep
<1>10. CASE MakeClosure
  BY <1>10, MakeClosureStep
<1>11. CASE Jmp
  BY <1>11, JmpStep
<1>12. CASE Call
  BY <1>12, CallStep
<1>13. CASE Return
  BY <1>13, ReturnStep
<1>14. CASE Panic \/ Finish \/ Ended \/ UNCHANGED vars
  <2>1. /\ UNCHANGED <<program, stack, locals, frames, heap, cells>>
        /\ status' \in {"running", "done", "failed", "panic"}
    BY <1>14, SameHeap DEF IInv, Panic, Finish, Ended, vars
  <2>2. SameCaptures
    BY <2>1, LenProperties DEF IInv, TypeOK, SameCaptures
  <2> QED
    BY <2>1, <2>2, QuietStep, SameHeap DEF IInv, TypeOK
<1> QED
  BY <1>1, <1>2, <1>3, <1>4, <1>5, <1>6, <1>7, <1>8, <1>9, <1>10, <1>11, <1>12,
     <1>13, <1>14 DEF Next

(* Whatever bytecode the machine is given, malformed or not, for any frame *)
(* limit and any width of int: what vm/mod.rs keeps in its stack, locals,  *)
(* frames, cells and heap is well formed, every function id held names a   *)
(* function of the program, and every upvalue and capture names a cell.    *)
THEOREM TypeCorrect == Spec => []TypeOK
<1>1. IInv => TypeOK
  BY DEF IInv
<1> QED
  BY <1>1, InitInv, NextInv, PTL DEF Spec

(* Every variable a live frame's closures share is found by close_captures *)
(* when the frame returns: its cell is open, in that frame's own part of   *)
(* locals, and it is the only cell for its slot.                           *)
THEOREM CapturesCorrect == Spec => []CapturesInv
<1>1. IInv => CapturesInv
  BY DEF IInv
<1> QED
  BY <1>1, InitInv, NextInv, PTL DEF Spec

-----------------------------------------------------------------------------
(* Who owns the open cells, and where they are.                            *)

(* No cell is made, opened, closed or moved.                               *)
CellsStay ==
  /\ DOMAIN cells' = DOMAIN cells
  /\ \A c \in DOMAIN cells : /\ cells'[c].open = cells[c].open
                             /\ cells[c].open => cells'[c] = cells[c]

Quiet == SameCaptures /\ CellsStay /\ Len(locals) <= Len(locals')

(* The instruction goes on to the next one and leaves the cells.           *)
LEMMA AdvanceQuiet ==
  ASSUME TypeOK, Fetched, Advance, cells' = cells, Len(locals) <= Len(locals')
  PROVE  Quiet
BY AdvanceFrames DEF Fetched, Live, Quiet, CellsStay

(* It fails.                                                               *)
LEMMA FailQuiet ==
  ASSUME TypeOK, NEW n \in Nat, Fail(n)
  PROVE  Quiet
BY FailKeeps, LenProperties DEF Quiet, CellsStay, TypeOK

(* Every step is quiet but calls, returns and the making of closures.      *)
LEMMA StepQuiet ==
  ASSUME IInv, [Next]_vars, ~Call, ~Return, ~MakeClosure
  PROVE  Quiet
<1>1. TypeOK /\ locals \in Seq(Value) /\ Len(locals) \in Nat
  BY LenProperties DEF IInv, TypeOK
<1>2. CASE PushConst \/ LoadLocal \/ LoadGlobal \/ LoadUpvalue \/ LoadElement
             \/ StoreElement \/ ArithOp \/ Neg \/ Not \/ Dup \/ Pop \/ CallNative \/ ToText
             \/ LenOp
  <2>1. Fetched /\ Advance /\ cells' = cells /\ locals' = locals
    BY <1>2 DEF PushConst, LoadLocal, LoadGlobal, LoadUpvalue, LoadElement, StoreElement,
                ArithOp, Neg, Not, Dup, Pop, CallNative, ToText, LenOp, Can, Replace
  <2> QED
    BY <1>1, <2>1, AdvanceQuiet
<1>3. CASE PushString \/ PushMethod \/ MakeOption \/ MakeTuple \/ MakeArray
             \/ MakeObject \/ Concat
  <2>1. Fetched /\ Advance /\ cells' = cells /\ locals' = locals
    BY <1>3 DEF PushString, PushMethod, MakeOption, MakeTuple, MakeArray, MakeObject,
                Concat, Can, Allocate, Replace
  <2> QED
    BY <1>1, <2>1, AdvanceQuiet
<1>4. CASE StoreLocal \/ StoreGlobal
  <2>1. PICK index, v : locals' = SetSlot(index, v)
    BY <1>4 DEF StoreLocal, StoreGlobal
  <2>2. Len(locals') = Len(locals) \/ locals' = Append(locals, v)
    BY <1>1, <2>1, LenProperties DEF SetSlot
  <2>3. Len(locals) <= Len(locals')
    BY <1>1, <2>2, LenProperties
  <2>4. Fetched /\ Advance /\ cells' = cells
    BY <1>4 DEF StoreLocal, StoreGlobal, Can, Replace
  <2> QED
    BY <1>1, <2>3, <2>4, AdvanceQuiet
<1>5. CASE StoreUpvalue
  <2>1. Fetched /\ Advance
    BY <1>5 DEF StoreUpvalue, Can, Replace
  <2>2. SameCaptures
    BY <1>1, <2>1, AdvanceFrames DEF Fetched, Live
  <2>3. CellsStay
    BY <1>1, <1>5 DEF StoreUpvalue, TypeOK, Cell, CellsStay
  <2>4. Len(locals') = Len(locals)
    BY <1>1, <1>5, LenProperties DEF StoreUpvalue
  <2> QED
    BY <1>1, <2>2, <2>3, <2>4 DEF Quiet
<1>6. CASE StoreArrayElement \/ Div \/ Compare \/ Cast \/ Unwrap \/ LoadArrayElement
  <2>1. \/ Fetched /\ Advance /\ cells' = cells /\ locals' = locals
        \/ \E n \in Nat : Fail(n)
    BY <1>6 DEF StoreArrayElement, Div, Compare, Cast, Unwrap, LoadArrayElement, Can, Replace
  <2> QED
    BY <1>1, <2>1, AdvanceQuiet, FailQuiet
<1>7. CASE Jmp
  <2>1. Fetched /\ frames # << >> /\ cells' = cells /\ locals' = locals
    BY <1>7 DEF Jmp, Can, Fetched, Live
  <2>2. Ins.a \in Nat
    BY <1>1, <1>7, <2>1, InsType DEF Instr, Jmp, Can
  <2>3. SameCaptures
    BY <1>1, <1>7, <2>1, <2>2, JumpFrames DEF Jmp
  <2> QED
    BY <1>1, <2>1, <2>3 DEF Quiet, CellsStay
<1>8. CASE Panic \/ Finish \/ Ended \/ UNCHANGED vars
  BY <1>1, <1>8, LenProperties
     DEF Panic, Finish, Ended, vars, Quiet, CellsStay, SameCaptures, TypeOK
<1> QED
  BY <1>2, <1>3, <1>4, <1>5, <1>6, <1>7, <1>8 DEF Next

(* A call puts a frame on top that has captured nothing.                   *)
LEMMA CallFrames ==
  ASSUME TypeOK, Call
  PROVE  /\ DOMAIN frames' = 1 .. Len(frames) + 1
         /\ \A i \in DOMAIN frames : /\ frames'[i].captures = frames[i].captures
                                     /\ frames'[i].localBase = frames[i].localBase
         /\ frames'[Len(frames) + 1].captures = {}
         /\ frames'[Len(frames) + 1].localBase = Len(locals)
         /\ \E args \in Seq(Value) : locals' = locals \o args
         /\ cells' = cells /\ Fetched /\ Ins.op = "Call"
<1> DEFINE below == [frames EXCEPT ![Len(frames)].pc = @ + 1]
           f     == heap[Operand(Ins.a).v]
           new   == NewFrame(f.fn, Len(locals), Len(stack) - Ins.a - 1, f.up)
<1>1. frames' = Append(below, new)
  BY DEF Call
<1>2. new.captures = {} /\ new.localBase = Len(locals)
  BY DEF NewFrame
<1> HIDE DEF new
<1>3. /\ frames # << >> /\ cells' = cells /\ locals' = locals \o Operands(Ins.a)
      /\ Fetched /\ Ins.op = "Call"
  BY DEF Call, Can, Fetched, Live
<1>4. /\ frames \in Seq(Frame(FuncIds, DOMAIN cells))
      /\ Len(frames) \in Nat /\ DOMAIN frames = 1 .. Len(frames)
  BY LenProperties DEF TypeOK
<1>5. /\ DOMAIN below = DOMAIN frames
      /\ \A i \in DOMAIN frames : /\ below[i].captures = frames[i].captures
                                  /\ below[i].localBase = frames[i].localBase
  BY <1>4, EachFrame DEF Frame
<1>6. /\ DOMAIN frames' = 1 .. Len(frames) + 1
      /\ \A i \in DOMAIN frames : frames'[i] = below[i]
      /\ frames'[Len(frames) + 1] = new
  <2> DEFINE S == {below[i] : i \in DOMAIN frames} \cup {new}
  <2>1. below \in [1 .. Len(frames) -> S]
    BY <1>4
  <2> HIDE DEF below, S
  <2>2. below \in Seq(S) /\ Len(below) = Len(frames)
    BY <1>4, <1>5, <2>1, FunctionSeq, LenProperties
  <2>3. new \in S
    BY DEF S
  <2>4. frames' \in Seq(S) /\ Len(frames') = Len(frames) + 1
    BY <1>1, <2>2, <2>3, AppendProperties
  <2> QED
    BY <1>1, <1>4, <2>2, <2>3, <2>4, AppendProperties, LenProperties
<1>7. Operands(Ins.a) \in Seq(Value)
  <2>1. Ins \in Instr
    BY <1>3, InsType
  <2>2. Ins.a \in Nat /\ Len(stack) \in Nat
    BY <1>3, <2>1, LenProperties DEF Instr, TypeOK
  <2>3. Len(stack) >= Ins.a + 1
    BY <1>3 DEF Call, Can, Ready, CompareOps
  <2> QED
    BY <2>2, <2>3, OperandsType
<1> QED
  BY <1>2, <1>3, <1>5, <1>6, <1>7

(* A return drops the top frame, closes its captures and cuts the locals.  *)
LEMMA ReturnFrames ==
  ASSUME TypeOK, Return
  PROVE  /\ DOMAIN frames = 1 .. Len(frames) /\ Len(frames) \in Nat \ {0}
         /\ DOMAIN frames' = 1 .. Len(frames) - 1
         /\ \A i \in DOMAIN frames' : frames'[i] = frames[i]
         /\ DOMAIN cells' = DOMAIN cells
         /\ \A c \in DOMAIN cells :
              IF Closes(c)
              THEN cells'[c].val = locals[cells[c].at + 1] /\ ~cells'[c].open
              ELSE cells'[c] = cells[c]
<1> DEFINE n == Len(frames)
<1>1. /\ frames \in Seq(Frame(FuncIds, DOMAIN cells)) /\ n \in Nat \ {0}
      /\ DOMAIN frames = 1 .. n
  BY FrameType, LenProperties DEF TypeOK, Return, AtEnd, Live
<1>2. frames' = SubSeq(frames, 1, n - 1)
  BY DEF Return
<1> HIDE DEF n
<1>3. n - 1 \in Int /\ n - 1 <= Len(frames)
  BY <1>1 DEF n
<1>4. /\ frames' \in Seq(Frame(FuncIds, DOMAIN cells)) /\ Len(frames') = n - 1
      /\ \A i \in 1 .. n - 1 : frames'[i] = frames[i]
  BY <1>1, <1>2, <1>3, PrefixType
<1>5. cells' = [c \in DOMAIN cells |-> IF Closes(c) THEN ClosedCell(locals[cells[c].at + 1])
                                       ELSE cells[c]]
  BY DEF Return, CloseCaptures
<1>6. \A c \in DOMAIN cells :
        IF Closes(c)
        THEN cells'[c].val = locals[cells[c].at + 1] /\ ~cells'[c].open
        ELSE cells'[c] = cells[c]
  BY <1>5 DEF ClosedCell
<1> QED
  BY <1>1, <1>4, <1>5, <1>6, LenProperties DEF n

(* A new cell is captured of the frame whose slot it names.                *)
LEMMA ClosureFrames ==
  ASSUME IInv, MakeClosure
  PROVE  LET ds == Fun(Ins.a).upvalues
         IN  /\ DOMAIN frames' = DOMAIN frames /\ locals' = locals
             /\ \A i \in DOMAIN frames : frames'[i].localBase = frames[i].localBase
             /\ \A i \in DOMAIN frames : frames[i].captures \subseteq frames'[i].captures
             /\ \A i \in DOMAIN frames : \A c \in frames'[i].captures \ frames[i].captures :
                  \E k \in DOMAIN ds :
                    /\ ds[k].depth \in 1 .. Len(frames) /\ UpFrame(ds[k]) = i
                    /\ cells'[c].at = UpIndex(ds[k])
             /\ DOMAIN cells \subseteq DOMAIN cells'
             /\ \A c \in DOMAIN cells : cells'[c] = cells[c]
             /\ \A c \in DOMAIN cells' \ DOMAIN cells :
                  \E i \in DOMAIN frames : c \in frames'[i].captures
<1> DEFINE ds == Fun(Ins.a).upvalues
           up == [k \in DOMAIN ds |-> CellFor(ds[k])]
           By(j) == {up[k] : k \in {l \in DOMAIN ds : UpFrame(ds[l]) = j}}
<1>1. TypeOK /\ Fetched
  BY DEF IInv, MakeClosure, Can
<1>2. /\ Ins.a \in FuncIds
      /\ \A k \in DOMAIN ds : ds[k].depth \in 1 .. Len(frames)
  BY DEF MakeClosure, Can, Ready, CompareOps
<1>3. \A k \in DOMAIN ds : ds[k] \in [depth : Nat, slot : Nat]
  BY <1>1, <1>2, FunType, LenProperties, ElementOfSeq DEF Function
<1>4. /\ cells' = [c \in DOMAIN cells \cup {up[k] : k \in DOMAIN ds} |->
                     IF c \in DOMAIN cells THEN cells[c] ELSE OpenCell(c[3])]
      /\ frames' = [j \in DOMAIN frames |->
                      [frames[j] EXCEPT !.captures = @ \cup By(j),
                                        !.pc = IF j = Len(frames) THEN @ + 1 ELSE @]]
      /\ locals' = locals
  BY DEF MakeClosure
<1>5. /\ DOMAIN frames' = DOMAIN frames
      /\ \A j \in DOMAIN frames : /\ frames'[j].captures = frames[j].captures \cup By(j)
                                  /\ frames'[j].localBase = frames[j].localBase
  BY <1>1, <1>4, EachFrame DEF Frame
<1>6. \A k \in DOMAIN ds :
        /\ UpFrame(ds[k]) \in DOMAIN frames /\ up[k] \in By(UpFrame(ds[k]))
        /\ \/ up[k] \in frames[UpFrame(ds[k])].captures
           \/ /\ up[k] = <<Len(heap) + 1, UpFrame(ds[k]), UpIndex(ds[k])>>
              /\ up[k] \notin DOMAIN cells
  BY <1>2, <1>3, CellForCases
<1>7. ASSUME NEW i \in DOMAIN frames, NEW c \in frames'[i].captures \ frames[i].captures
      PROVE  \E k \in DOMAIN ds :
               /\ ds[k].depth \in 1 .. Len(frames) /\ UpFrame(ds[k]) = i
               /\ cells'[c].at = UpIndex(ds[k])
  <2>1. PICK k \in DOMAIN ds : c = up[k] /\ UpFrame(ds[k]) = i
    BY <1>5, <1>7
  <2>2. /\ c = <<Len(heap) + 1, i, UpIndex(ds[k])>>
        /\ c \notin DOMAIN cells
    BY <1>6, <1>7, <2>1
  <2>3. cells'[c] = OpenCell(c[3])
    BY <1>4, <2>1, <2>2
  <2> QED
    BY <1>2, <2>1, <2>2, <2>3 DEF OpenCell
<1>8. ASSUME NEW c \in DOMAIN cells' \ DOMAIN cells
      PROVE  \E i \in DOMAIN frames : c \in frames'[i].captures
  <2>1. PICK k \in DOMAIN ds : c = up[k]
    BY <1>4, <1>8
  <2>2. UpFrame(ds[k]) \in DOMAIN frames /\ c \in By(UpFrame(ds[k]))
    BY <1>6, <2>1
  <2> HIDE DEF By
  <2> QED
    BY <1>5, <2>2
<1>9. /\ DOMAIN cells \subseteq DOMAIN cells'
      /\ \A c \in DOMAIN cells : cells'[c] = cells[c]
  BY <1>4
<1> QED
  BY <1>4, <1>5, <1>7, <1>8, <1>9

(* Every open cell keeps or gets an owner, unless failure drops it.        *)
LEMMA OwnedStep ==
  ASSUME IInv, OpenCellsOwned, [Next]_vars, [UnwindsNone]_vars
  PROVE  OpenCellsOwned'
<1>1. TypeOK
  BY DEF IInv
<1>2. CASE UNCHANGED vars
  BY <1>2 DEF vars, OpenCellsOwned
<1>3. CASE MakeClosure
  BY <1>3, ClosureFrames DEF OpenCellsOwned
<1>4. CASE Return
  <2>1. \A c \in DOMAIN cells' :
          cells'[c].open => cells[c].open /\ c \notin frames[Len(frames)].captures
    BY <1>1, <1>4, ReturnFrames DEF Closes, Top
  <2> QED
    BY <1>1, <1>4, <2>1, ReturnFrames DEF OpenCellsOwned
<1>5. CASE Call
  <2>1. DOMAIN frames = 1 .. Len(frames) /\ Len(frames) \in Nat
    BY <1>1, LenProperties DEF TypeOK
  <2>2. /\ DOMAIN frames \subseteq DOMAIN frames' /\ cells' = cells
        /\ \A i \in DOMAIN frames : frames'[i].captures = frames[i].captures
    BY <1>1, <1>5, <2>1, CallFrames
  <2> QED
    BY <2>2 DEF OpenCellsOwned
<1>6. CASE UnwindsNone /\ ~Call /\ ~Return /\ ~MakeClosure
  <2>1. Quiet
    BY <1>6, StepQuiet
  <2>2. DOMAIN frames' = 1 .. Len(frames')
    BY <2>1, LenProperties DEF Quiet, SameCaptures
  <2>3. \A i \in DOMAIN frames : frames[i].captures # {} =>
          i \in DOMAIN frames' /\ frames'[i].captures = frames[i].captures
    BY <1>6, <2>1, <2>2 DEF UnwindsNone, Quiet, SameCaptures
  <2> QED
    BY <2>1, <2>3 DEF OpenCellsOwned, Quiet, CellsStay
<1> QED
  BY <1>2, <1>3, <1>4, <1>5, <1>6

(* Unless failure unwinds a frame that has captures, an open cell is       *)
(* always the variable of a live frame: close_captures closes all that the *)
(* frame has, box_local gives every new cell to the frame of its slot, and *)
(* nothing else opens, closes or hands on a cell.                          *)
THEOREM OpenCellsAreOwned == Spec /\ CapturersNotUnwound => []OpenCellsOwned
<1>1. Init => OpenCellsOwned
  BY DEF Init, OpenCellsOwned
<1>2. IInv /\ OpenCellsOwned /\ [Next]_vars /\ [UnwindsNone]_vars => OpenCellsOwned'
  BY OwnedStep
<1> QED
  BY <1>1, <1>2, InitInv, NextInv, PTL DEF Spec, CapturersNotUnwound

-----------------------------------------------------------------------------
(* What a captured variable holds.                                         *)

(* The frames' parts of locals lie one above the other, and what a frame   *)
(* captured of its part lies below those above it.                         *)
PartsApart ==
  \A i \in DOMAIN frames :
    /\ frames[i].localBase <= Len(locals)
    /\ \A j \in DOMAIN frames : i < j =>
         /\ frames[i].localBase <= frames[j].localBase
         /\ \A c \in frames[i].captures : cells[c].at < frames[j].localBase

(* Where the frames are, and that their captures are open.                 *)
LEMMA FramesHere ==
  ASSUME IInv
  PROVE  /\ Len(frames) \in Nat /\ DOMAIN frames = 1 .. Len(frames)
         /\ locals \in Seq(Value) /\ Len(locals) \in Nat /\ DOMAIN locals = 1 .. Len(locals)
         /\ \A i \in DOMAIN frames :
              /\ frames[i].localBase \in Nat
              /\ \A c \in frames[i].captures :
                   c \in DOMAIN cells /\ cells[c].open /\ cells[c].at \in Nat
<1>1. TypeOK /\ CapturesInv
  BY DEF IInv
<1>2. \A c \in DOMAIN cells : cells[c].at \in Nat
  BY <1>1 DEF TypeOK, Cell
<1> QED
  BY <1>1, <1>2, EachFrame, LenProperties DEF TypeOK, CapturesInv

(* Every step keeps them apart.                                            *)
LEMMA PartsStep ==
  ASSUME IInv, PartsApart, CapturesHaveValues, [Next]_vars
  PROVE  PartsApart'
<1> USE FramesHere
<1>1. TypeOK /\ (IInv)'
  BY NextInv DEF IInv
<1>2. CASE MakeClosure
  <2> DEFINE ds == Fun(Ins.a).upvalues
  <2>1. Fetched /\ Ins.op = "MakeClosure" /\ Ready(Ins)
    BY <1>2 DEF MakeClosure, Can
  <2>2. /\ DOMAIN frames' = DOMAIN frames /\ locals' = locals
        /\ \A i \in DOMAIN frames : frames'[i].localBase = frames[i].localBase
    BY <1>2, ClosureFrames
  <2>3. ASSUME NEW i \in DOMAIN frames, NEW j \in DOMAIN frames, i < j,
               NEW c \in frames'[i].captures
        PROVE  cells'[c].at < frames[j].localBase
    <3>1. CASE c \in frames[i].captures
      <4>1. cells'[c] = cells[c]
        BY <1>2, <3>1, ClosureFrames
      <4> QED
        BY <2>3, <3>1, <4>1 DEF PartsApart
    <3>2. CASE c \notin frames[i].captures
      <4>1. PICK k \in DOMAIN ds : /\ ds[k].depth \in 1 .. Len(frames)
                                   /\ UpFrame(ds[k]) = i
                                   /\ cells'[c].at = UpIndex(ds[k])
        BY <1>2, <2>3, <3>2, ClosureFrames
      <4>2. ds[k].depth > 1 /\ i + 1 \in DOMAIN frames /\ i + 1 <= j
        BY <2>3, <4>1 DEF UpFrame
      <4>3. UpIndex(ds[k]) < frames[i + 1].localBase
        BY <2>1, <4>1, <4>2 DEF CapturesHaveValues
      <4>4. frames[i + 1].localBase <= frames[j].localBase
        BY <4>2 DEF PartsApart
      <4>5. cells'[c].at \in Int
        <5>1. frames'[i] \in Frame(FuncIds', DOMAIN cells')
          BY <1>1, <2>2, <2>3, LenProperties, ElementOfSeq DEF IInv, TypeOK
        <5>2. cells'[c] \in Cell
          BY <1>1, <2>3, <5>1 DEF Frame, IInv, TypeOK
        <5> QED
          BY <5>2 DEF Cell
      <4> QED
        BY <4>1, <4>2, <4>3, <4>4, <4>5
    <3> QED
      BY <3>1, <3>2
  <2> QED
    BY <2>2, <2>3 DEF PartsApart
<1>3. CASE Return
  <2>1. /\ DOMAIN frames' = 1 .. Len(frames) - 1 /\ Len(frames) \in DOMAIN frames
        /\ \A i \in DOMAIN frames' : frames'[i] = frames[i]
    BY <1>1, <1>3, ReturnFrames
  <2>2. \A i \in DOMAIN frames' : i \in DOMAIN frames /\ i < Len(frames)
    BY <2>1
  <2> DEFINE top == frames[Len(frames)].localBase
  <2>3. Len(locals') = top
    <3>1. locals' = SubSeq(locals, 1, IF top < Len(locals) THEN top ELSE Len(locals))
      BY <1>3 DEF Return, Truncate, Top
    <3>2. top \in Nat /\ top <= Len(locals)
      BY <2>1 DEF PartsApart
    <3>3. locals' = SubSeq(locals, 1, top)
      BY <3>1, <3>2
    <3> HIDE DEF top
    <3> QED
      BY <3>2, <3>3, PrefixType
  <2>4. ASSUME NEW i \in DOMAIN frames', NEW c \in frames[i].captures
        PROVE  cells'[c] = cells[c]
    <3>1. c \in DOMAIN cells /\ c \notin frames[Len(frames)].captures
      BY <1>1, <2>1, <2>2 DEF IInv, CapturesInv
    <3> QED
      BY <1>1, <1>3, <3>1, ReturnFrames DEF Closes, Top
  <2> QED
    BY <2>1, <2>2, <2>3, <2>4 DEF PartsApart
<1>4. CASE Call
  <2> DEFINE n == Len(frames)
  <2>1. Fetched /\ Ins.op = "Call" /\ n \in DOMAIN frames /\ Top = frames[n]
    BY <1>1, <1>4, CallFrames, EmptySeq DEF Fetched, Live, Top, TypeOK
  <2>2. \A c \in frames[n].captures : cells[c].at < Len(locals)
    BY <2>1 DEF CapturesHaveValues
  <2>3. ASSUME NEW i \in DOMAIN frames, NEW c \in frames[i].captures
        PROVE  cells[c].at < Len(locals)
    <3>1. CASE i = n
      BY <2>2, <2>3, <3>1
    <3>2. CASE i < n
      <4>1. cells[c].at < frames[n].localBase /\ frames[n].localBase <= Len(locals)
        BY <2>1, <2>3, <3>2 DEF PartsApart
      <4> QED
        BY <2>1, <2>3, <4>1
    <3> QED
      BY <2>1, <3>1, <3>2
  <2>4. Len(locals) <= Len(locals')
    BY <1>1, <1>4, CallFrames, ConcatProperties
  <2>5. /\ DOMAIN frames' = 1 .. n + 1 /\ cells' = cells
        /\ \A i \in DOMAIN frames : /\ frames'[i].captures = frames[i].captures
                                    /\ frames'[i].localBase = frames[i].localBase
        /\ frames'[n + 1].localBase = Len(locals)
    BY <1>1, <1>4, CallFrames
  <2>6. Len(locals') \in Nat
    BY <1>1, LenProperties DEF IInv, TypeOK
  <2>7. \A i \in DOMAIN frames' : i \in DOMAIN frames \/ i = n + 1
    BY <2>5
  <2>8. \A i \in DOMAIN frames' : frames'[i].localBase <= Len(locals)
    BY <2>5, <2>7 DEF PartsApart
  <2>9. ASSUME NEW i \in DOMAIN frames', NEW j \in DOMAIN frames', i < j
        PROVE  /\ frames'[i].localBase <= frames'[j].localBase
               /\ \A c \in frames'[i].captures : cells[c].at < frames'[j].localBase
    <3>1. i \in DOMAIN frames
      BY <2>5, <2>9
    <3>2. CASE j = n + 1
      BY <2>3, <2>5, <3>1, <3>2 DEF PartsApart
    <3>3. CASE j \in DOMAIN frames
      BY <2>5, <2>9, <3>1, <3>3 DEF PartsApart
    <3> QED
      BY <2>7, <3>2, <3>3
  <2>10. \A i \in DOMAIN frames' : frames'[i].localBase \in Int
    BY <2>5, <2>7
  <2>11. \A i \in DOMAIN frames' : frames'[i].localBase <= Len(locals')
    BY <2>4, <2>6, <2>8, <2>10
  <2> QED
    BY <2>5, <2>9, <2>11 DEF PartsApart
<1>5. CASE ~Call /\ ~Return /\ ~MakeClosure
  <2>1. Quiet
    BY <1>5, StepQuiet
  <2>2. DOMAIN frames' = 1 .. Len(frames') /\ Len(frames') \in Nat /\ Len(locals') \in Nat
    BY <1>1, LenProperties DEF IInv, TypeOK
  <2>3. \A i \in DOMAIN frames' : /\ i \in DOMAIN frames
                                  /\ frames'[i].captures = frames[i].captures
                                  /\ frames'[i].localBase = frames[i].localBase
    BY <2>1, <2>2 DEF Quiet, SameCaptures
  <2>4. \A i \in DOMAIN frames : \A c \in frames[i].captures : cells'[c] = cells[c]
    BY <2>1 DEF Quiet, CellsStay
  <2>5. \A i \in DOMAIN frames' : frames'[i].localBase <= Len(locals')
    BY <2>1, <2>2, <2>3 DEF Quiet, PartsApart
  <2> QED
    BY <2>3, <2>4, <2>5 DEF PartsApart
<1> QED
  BY <1>2, <1>3, <1>4, <1>5

(* A store into a slot leaves the others that have a value.                *)
LEMMA SlotsKept ==
  ASSUME NEW s \in Seq(Value), NEW v \in Value, NEW index \in Nat,
         NEW at \in Nat, at < Len(s), at # index,
         locals = s, locals' = SetSlot(index, v)
  PROVE  locals'[at + 1] = locals[at + 1]
<1>1. Len(s) \in Nat /\ DOMAIN s = 1 .. Len(s) /\ at + 1 \in 1 .. Len(s)
  BY LenProperties
<1>2. CASE index < Len(s)
  BY <1>1, <1>2 DEF SetSlot
<1>3. CASE ~(index < Len(s))
  <2>1. locals' = Append(s, v)
    BY <1>3 DEF SetSlot
  <2> QED
    BY <1>1, <2>1, AppendProperties
<1> QED
  BY <1>2, <1>3

(* Instructions that touch neither locals nor cells.                       *)
LEMMA StepApart ==
  ASSUME [Next]_vars, ~StoreLocal, ~StoreGlobal, ~StoreUpvalue, ~Call, ~Return, ~MakeClosure
  PROVE  locals' = locals /\ cells' = cells
<1>1. CASE PushConst \/ LoadLocal \/ LoadGlobal \/ LoadUpvalue \/ LoadElement
             \/ StoreElement \/ ArithOp \/ Neg \/ Not \/ Dup \/ Pop \/ CallNative \/ ToText
             \/ LenOp
  BY <1>1 DEF PushConst, LoadLocal, LoadGlobal, LoadUpvalue, LoadElement, StoreElement,
              ArithOp, Neg, Not, Dup, Pop, CallNative, ToText, LenOp
<1>2. CASE PushString \/ PushMethod \/ MakeOption \/ MakeTuple \/ MakeArray
             \/ MakeObject \/ Concat
  BY <1>2 DEF PushString, PushMethod, MakeOption, MakeTuple, MakeArray, MakeObject, Concat,
              Allocate
<1>3. CASE StoreArrayElement \/ Div \/ Compare \/ Cast \/ Unwrap \/ LoadArrayElement
  BY <1>3 DEF StoreArrayElement, Div, Compare, Cast, Unwrap, LoadArrayElement, Fail
<1>4. CASE Jmp \/ Panic \/ Finish \/ Ended \/ UNCHANGED vars
  BY <1>4 DEF Jmp, Panic, Finish, Ended, vars
<1> QED
  BY <1>1, <1>2, <1>3, <1>4 DEF Next

(* A captured variable keeps its value unless the step stores into it.     *)
LEMMA ValueStep ==
  ASSUME IInv, OpenCellsOwned, PartsApart, [Next]_vars,
         NEW c \in DOMAIN cells, cells[c].open => cells[c].at < Len(locals), ~Writes(c)
  PROVE  CellValue(c)' = CellValue(c)
<1> USE FramesHere
<1>1. TypeOK /\ cells[c] \in Cell /\ cells[c].at \in Nat
  BY DEF IInv, TypeOK, Cell
<1>2. ASSUME cells'[c] = cells[c],
             cells[c].open => locals'[cells[c].at + 1] = locals[cells[c].at + 1]
      PROVE  CellValue(c)' = CellValue(c)
  BY <1>2 DEF CellValue
<1>3. CASE ~StoreLocal /\ ~StoreGlobal /\ ~StoreUpvalue /\ ~Call /\ ~Return /\ ~MakeClosure
  <2>1. locals' = locals /\ cells' = cells
    BY <1>3, StepApart
  <2> QED
    BY <1>2, <2>1
<1>4. CASE StoreLocal \/ StoreGlobal
  <2> DEFINE index == IF Ins.op = "StoreLocal" THEN Top.localBase + Ins.a ELSE Ins.a
             v == CopyOf(Operand(0))[1]
  <2>1. /\ Fetched /\ cells' = cells /\ locals' = SetSlot(index, v)
        /\ Ins.op \in {"StoreLocal", "StoreGlobal"} /\ 0 < Len(stack)
    <3>1. /\ \/ Can("StoreLocal")
             \/ Can("StoreGlobal")
          /\ cells' = cells /\ locals' = SetSlot(index, v)
      <4>1. CASE StoreLocal
        BY <4>1 DEF StoreLocal, Can
      <4>2. CASE StoreGlobal
        BY <4>2 DEF StoreGlobal, Can
      <4> QED
        BY <1>4, <4>1, <4>2
    <3>2. 0 < Len(stack)
      BY <1>1, <1>4, StoresPop
    <3> HIDE DEF index, v
    <3> QED
      BY <3>1, <3>2 DEF Can
  <2>2. Ins \in Instr /\ Top.localBase \in Nat
    BY <1>1, <2>1, InsType, FrameType DEF Fetched, Live, Frame
  <2>3. index \in Nat
    BY <2>1, <2>2 DEF Instr
  <2>4. v \in Value
    BY <1>1, <2>1, OperandType, CopyType
  <2>5. cells[c].open => cells[c].at # index
    BY <2>1 DEF Writes
  <2> HIDE DEF index, v
  <2> QED
    BY <1>1, <1>2, <2>1, <2>3, <2>4, <2>5, SlotsKept
<1>5. CASE StoreUpvalue
  <2>1. Fetched /\ Ins.op = "StoreUpvalue"
    BY <1>5 DEF StoreUpvalue, Can
  <2>2. /\ c # Upvalue
        /\ cells[c].open /\ cells[Upvalue].open => cells[c].at # cells[Upvalue].at
    BY <2>1 DEF Writes
  <2>3. CASE cells[Upvalue].open
    <3>1. Ins \in Instr /\ Top.upvalues \in Seq(DOMAIN cells)
      BY <1>1, <2>1, InsType, FrameType DEF Fetched, Live, Frame
    <3>2. Ins.a \in Nat /\ Ins.a < Len(Top.upvalues)
      BY <1>5, <2>1, <3>1 DEF Instr, StoreUpvalue, Can, Ready, CompareOps
    <3>3. Upvalue \in DOMAIN cells
      BY <3>1, <3>2, LenProperties, ElementOfSeq DEF Upvalue
    <3>4. cells[Upvalue].at \in Nat
      BY <1>1, <3>3 DEF TypeOK, Cell
    <3>5. cells' = cells /\ \E v : locals' = [locals EXCEPT ![cells[Upvalue].at + 1] = v]
      BY <1>5, <2>3 DEF StoreUpvalue
    <3>6. cells[c].open => cells[c].at + 1 # cells[Upvalue].at + 1
      BY <1>1, <2>2, <2>3, <3>4
    <3> QED
      BY <1>1, <1>2, <3>5, <3>6
  <2>4. CASE ~cells[Upvalue].open
    BY <1>1, <1>2, <1>5, <2>2, <2>4 DEF StoreUpvalue
  <2> QED
    BY <2>3, <2>4
<1>6. CASE Call
  <2>1. PICK args \in Seq(Value) : locals' = locals \o args
    BY <1>1, <1>6, CallFrames
  <2>2. cells' = cells
    BY <1>1, <1>6, CallFrames
  <2> QED
    BY <1>1, <1>2, <2>1, <2>2, ConcatProperties
<1>7. CASE MakeClosure
  BY <1>2, <1>7, ClosureFrames
<1>8. CASE Return
  <2>1. CASE Closes(c)
    BY <1>1, <1>8, <2>1, ReturnFrames DEF CellValue, Closes
  <2>2. CASE ~Closes(c)
    <3>1. cells'[c] = cells[c]
      BY <1>1, <1>8, <2>2, ReturnFrames
    <3>2. ASSUME cells[c].open PROVE locals'[cells[c].at + 1] = locals[cells[c].at + 1]
      <4> DEFINE n == Len(frames)
                 top == frames[n].localBase
      <4>1. PICK i \in DOMAIN frames : c \in frames[i].captures
        BY <3>2 DEF OpenCellsOwned
      <4>2. n \in DOMAIN frames /\ i < n
        BY <1>1, <1>8, <2>2, <3>2, <4>1, ReturnFrames DEF Closes, Top
      <4>3. cells[c].at < top /\ top <= Len(locals) /\ top \in Nat
        BY <4>1, <4>2 DEF PartsApart
      <4>4. locals' = SubSeq(locals, 1, IF top < Len(locals) THEN top ELSE Len(locals))
        BY <1>8 DEF Return, Truncate, Top
      <4>5. locals' = SubSeq(locals, 1, top)
        BY <4>3, <4>4
      <4> HIDE DEF top
      <4> QED
        BY <1>1, <4>3, <4>5, PrefixType
    <3> QED
      BY <1>2, <3>1, <3>2
  <2> QED
    BY <2>1, <2>2
<1> QED
  BY <1>3, <1>4, <1>5, <1>6, <1>7, <1>8

(* The same where the slots are where the generator puts them: a captured  *)
(* variable keeps its value through every call, return and closing of      *)
(* upvalues, in locals while its frame lives and in its cell afterwards,   *)
(* and no store to another variable, slot or cell changes it.              *)
THEOREM CapturedValuesAreKept ==
  Spec /\ CapturersNotUnwound /\ []CapturesHaveValues => CapturedValuesKept
<1> DEFINE OInv == IInv /\ OpenCellsOwned /\ PartsApart
<1>1. Init => OInv
  <2> SUFFICES ASSUME Init PROVE OInv
    OBVIOUS
  <2>1. OpenCellsOwned
    BY DEF Init, OpenCellsOwned
  <2>2. IInv
    BY InitInv
  <2>3. PartsApart
    BY <2>2, FramesHere DEF Init, PartsApart, NewFrame
  <2> QED
    BY <2>1, <2>2, <2>3
<1>2. OInv /\ CapturesHaveValues /\ [Next]_vars /\ [UnwindsNone]_vars => OInv'
  BY NextInv, OwnedStep, PartsStep
<1> DEFINE Kept(c) == (cells[c].open => cells[c].at < Len(locals)) /\ ~Writes(c)
                        => CellValue(c)' = CellValue(c)
<1>3. OInv /\ [Next]_vars => [\A c \in DOMAIN cells : Kept(c)]_vars
  BY ValueStep
<1> QED
  BY <1>1, <1>2, <1>3, PTL DEF Spec, CapturersNotUnwound, CapturedValuesKept
=============================================================================
