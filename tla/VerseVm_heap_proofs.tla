------------------------- MODULE VerseVm_heap_proofs -------------------------
(***************************************************************************)
(* What holds of the machine's heap for every set of programs: handles     *)
(* lead to objects of their kind, objects keep their shape, tuples nest,   *)
(* no two variables hold one tuple, and the variables that closures        *)
(* captured are the store that ClosureStore promises.                      *)
(***************************************************************************)
EXTENDS VerseVm_proofs, SharedVariables

HInv == IInv /\ HandlesLead

(* What ObjectsKeepShape says of a heap and the next.                      *)
Kept(h, g) ==
  \A o \in DOMAIN h :
    /\ o \in DOMAIN g
    /\ g[o] = [h[o] EXCEPT !.elems = g[o].elems]
    /\ Len(g[o].elems) = Len(h[o].elems)
    /\ h[o].k \notin {"tuple", "array", "object"} => g[o] = h[o]

Heaps == Seq(Obj(FuncIds, DOMAIN cells))

(* A heap that lost no object's kind leads where the old one did.          *)
LEMMA KeptLeads ==
  ASSUME NEW h \in Heaps, NEW g, Kept(h, g), NEW v, Leads(v, h)
  PROVE  Leads(v, g)
<1>1. \A o \in DOMAIN h : h[o] \in Obj(FuncIds, DOMAIN cells)
  BY LenProperties, ElementOfSeq DEF Heaps
<1>2. \A o \in DOMAIN h : o \in DOMAIN g /\ g[o].k = h[o].k
  BY <1>1 DEF Kept, Obj
<1> QED
  BY <1>2 DEF Leads

(* The same of many values.                                                *)
LEMMA KeptAllLead ==
  ASSUME NEW h \in Heaps, NEW g, Kept(h, g), NEW vs, AllLead(vs, h)
  PROVE  AllLead(vs, g)
BY KeptLeads DEF AllLead

(* A heap keeps what it has.                                               *)
LEMMA KeptSame ==
  ASSUME NEW h \in Heaps
  PROVE  Kept(h, h)
<1>1. \A o \in DOMAIN h : h[o] \in Obj(FuncIds, DOMAIN cells)
  BY LenProperties, ElementOfSeq DEF Heaps
<1> QED
  BY <1>1 DEF Kept, Obj

(* So does one with more objects behind.                                   *)
LEMMA KeptMore ==
  ASSUME NEW h \in Heaps, NEW g \in Heaps, Extends(h, g)
  PROVE  Kept(h, g)
<1>1. DOMAIN h \subseteq DOMAIN g
  BY LenProperties DEF Heaps, Extends
<1>2. \A o \in DOMAIN h : g[o] = h[o]
  BY DEF Extends
<1> QED
  BY <1>1, <1>2, KeptSame DEF Kept

(* A copy keeps the heap, and what it and the new heap hold leads.         *)
LEMMA CopyLeads ==
  ASSUME HInv, NEW v \in Value, Leads(v, heap)
  PROVE  /\ CopyOf(v)[1] \in Value
         /\ CopyOf(v)[2] \in Heaps
         /\ Kept(heap, CopyOf(v)[2])
         /\ Leads(CopyOf(v)[1], CopyOf(v)[2])
         /\ ElemsLead(CopyOf(v)[2])
<1>1. /\ CopyOf(v)[1] \in Value
      /\ CopyOf(v)[2] \in Heaps
      /\ CopyMade(<<v, heap>>, CopyOf(v))
  BY CopyType DEF HInv, Heaps
<1>2. heap \in Heaps
  BY DEF HInv, IInv, TypeOK, Heaps
<1>3. /\ Extends(heap, CopyOf(v)[2])
      /\ Leads(v, heap) /\ ElemsLead(heap) =>
           Leads(CopyOf(v)[1], CopyOf(v)[2]) /\ ElemsLead(CopyOf(v)[2])
  BY <1>1 DEF CopyMade
<1> QED
  BY <1>1, <1>2, <1>3, KeptMore DEF HInv, HandlesLead

(* A value put at the end of a sequence, or in the place of another, leads *)
(* if it did before.                                                       *)
LEMMA AppendLeads ==
  ASSUME NEW S, NEW vs \in Seq(S), NEW v \in S, NEW h, AllLead(vs, h), Leads(v, h)
  PROVE  AllLead(Append(vs, v), h)
<1>1. /\ Len(vs) \in Nat /\ DOMAIN vs = 1 .. Len(vs)
      /\ DOMAIN Append(vs, v) = 1 .. Len(vs) + 1
      /\ \A i \in 1 .. Len(vs) : Append(vs, v)[i] = vs[i]
      /\ Append(vs, v)[Len(vs) + 1] = v
  BY AppendProperties, LenProperties
<1> QED
  BY <1>1 DEF AllLead

(* Of two sequences, one behind the other, every value leads.              *)
LEMMA ConcatLeads ==
  ASSUME NEW S, NEW s \in Seq(S), NEW t \in Seq(S), NEW h, AllLead(s, h), AllLead(t, h)
  PROVE  AllLead(s \o t, h)
<1>1. /\ Len(s) \in Nat /\ DOMAIN s = 1 .. Len(s)
      /\ Len(t) \in Nat /\ DOMAIN t = 1 .. Len(t)
      /\ DOMAIN (s \o t) = 1 .. Len(s) + Len(t)
      /\ \A i \in 1 .. Len(s) + Len(t) :
           (s \o t)[i] = IF i <= Len(s) THEN s[i] ELSE t[i - Len(s)]
  BY ConcatProperties, LenProperties
<1>2. \A i \in 1 .. Len(s) + Len(t) : i > Len(s) => i - Len(s) \in DOMAIN t
  BY <1>1
<1> QED
  BY <1>1, <1>2 DEF AllLead

(* The first n of a sequence of values.                                    *)
LEMMA PrefixLeads ==
  ASSUME NEW S, NEW s \in Seq(S), NEW n \in Int, n <= Len(s), NEW h, AllLead(s, h)
  PROVE  AllLead(SubSeq(s, 1, n), h)
<1>1. /\ SubSeq(s, 1, n) \in Seq(S)
      /\ Len(SubSeq(s, 1, n)) = IF 1 <= n THEN n ELSE 0
      /\ \A i \in 1 .. n : SubSeq(s, 1, n)[i] = s[i]
  BY PrefixType
<1>2. /\ DOMAIN SubSeq(s, 1, n) = 1 .. Len(SubSeq(s, 1, n))
      /\ DOMAIN s = 1 .. Len(s) /\ Len(s) \in Nat
  BY <1>1, LenProperties
<1>3. \A i \in DOMAIN SubSeq(s, 1, n) : i \in 1 .. n /\ i \in DOMAIN s
  BY <1>1, <1>2
<1> QED
  BY <1>1, <1>3 DEF AllLead

(* What a value of a sequence leads to when another is overwritten.        *)
LEMMA ExceptLeads ==
  ASSUME NEW S, NEW vs \in Seq(S), NEW k, NEW v, NEW h, AllLead(vs, h), Leads(v, h)
  PROVE  AllLead([vs EXCEPT ![k] = v], h)
<1>1. \A i \in DOMAIN vs : [vs EXCEPT ![k] = v][i] = IF i = k THEN v ELSE vs[i]
  BY LenProperties
<1>2. DOMAIN [vs EXCEPT ![k] = v] = DOMAIN vs
  OBVIOUS
<1> QED
  BY <1>1, <1>2 DEF AllLead

(* Two steps that keep a heap.                                             *)
LEMMA KeptTwice ==
  ASSUME NEW h \in Heaps, NEW g \in Heaps, NEW w, Kept(h, g), Kept(g, w)
  PROVE  Kept(h, w)
<1>1. \A o \in DOMAIN h : h[o] \in Obj(FuncIds, DOMAIN cells)
  BY LenProperties, ElementOfSeq DEF Heaps
<1>2. ASSUME NEW o \in DOMAIN h
      PROVE  /\ o \in DOMAIN w
             /\ w[o] = [h[o] EXCEPT !.elems = w[o].elems]
             /\ Len(w[o].elems) = Len(h[o].elems)
             /\ h[o].k \notin {"tuple", "array", "object"} => w[o] = h[o]
  <2>1. /\ o \in DOMAIN g
        /\ g[o] = [h[o] EXCEPT !.elems = g[o].elems]
        /\ Len(g[o].elems) = Len(h[o].elems)
        /\ h[o].k \notin {"tuple", "array", "object"} => g[o] = h[o]
    BY DEF Kept
  <2>2. /\ o \in DOMAIN w
        /\ w[o] = [g[o] EXCEPT !.elems = w[o].elems]
        /\ Len(w[o].elems) = Len(g[o].elems)
        /\ g[o].k \notin {"tuple", "array", "object"} => w[o] = g[o]
    BY <2>1 DEF Kept
  <2>3. g[o].k = h[o].k
    BY <1>1, <2>1 DEF Obj
  <2>4. [g[o] EXCEPT !.elems = w[o].elems] = [h[o] EXCEPT !.elems = w[o].elems]
    BY <1>1, <2>1 DEF Obj
  <2> QED
    BY <2>1, <2>2, <2>3, <2>4
<1> QED
  BY <1>2 DEF Kept

(* Overwriting an element of a tuple, array or object by a value that      *)
(* leads.                                                                  *)
LEMMA WriteLeads ==
  ASSUME NEW h \in Heaps, NEW o \in DOMAIN h, h[o].k \in {"tuple", "array", "object"},
         NEW i \in Nat, NEW v \in Value, Leads(v, h), ElemsLead(h)
  PROVE  /\ Kept(h, WriteElement(h, o, i, v))
         /\ ElemsLead(WriteElement(h, o, i, v))
<1> DEFINE e  == h[o].elems
           e2 == [e EXCEPT ![i + 1] = v]
           w  == WriteElement(h, o, i, v)
<1>1. h[o] \in Obj(FuncIds, DOMAIN cells)
  BY LenProperties, ElementOfSeq DEF Heaps
<1>2. e \in Seq(Value)
  BY <1>1 DEF Obj
<1>3. AllLead(e, h)
  BY DEF ElemsLead
<1>4. AllLead(e2, h)
  BY <1>2, <1>3, ExceptLeads
<1>5. Len(e2) = Len(e)
  <2>1. DOMAIN e = 1 .. Len(e)
    BY <1>2, LenProperties
  <2>2. CASE i + 1 \in 1 .. Len(e)
    BY <1>2, <2>2, ExceptSeq
  <2>3. CASE i + 1 \notin 1 .. Len(e)
    <3>1. e2 = e
      BY <1>2, <2>1, <2>3, LenProperties
    <3> QED
      BY <3>1
  <2> QED
    BY <2>2, <2>3
<1> HIDE DEF e2
<1>6. /\ DOMAIN w = DOMAIN h
      /\ w[o] = [h[o] EXCEPT !.elems = e2]
      /\ \A p \in DOMAIN h : p # o => w[p] = h[p]
  BY LenProperties DEF WriteElement, e2, Heaps
<1>7. w[o].elems = e2 /\ h[o].k = h[o].k
  BY <1>1, <1>6 DEF Obj
<1> HIDE DEF w
<1>8. Kept(h, w)
  <2>1. Kept(h, h)
    BY KeptSame
  <2> QED
    BY <1>5, <1>6, <1>7, <2>1 DEF Kept
<1>9. \A p \in DOMAIN w : AllLead(w[p].elems, h)
  BY <1>4, <1>6, <1>7 DEF ElemsLead
<1>10. ElemsLead(w)
  BY <1>8, <1>9, KeptAllLead DEF ElemsLead
<1> QED
  BY <1>8, <1>10 DEF w

-----------------------------------------------------------------------------
(* Kinds of steps.                                                         *)

(* A step that keeps HandlesLead and ObjectsKeepShape.                     *)
Kind == HandlesLead' /\ Kept(heap, heap')

(* The operands are values that lead.                                      *)
LEMMA OperandLeads ==
  ASSUME HInv, NEW n \in Nat, n < Len(stack)
  PROVE  Operand(n) \in Value /\ Leads(Operand(n), heap)
<1>1. TypeOK /\ AllLead(stack, heap)
  BY DEF HInv, IInv, HandlesLead
<1>2. /\ DOMAIN stack = 1 .. Len(stack) /\ Len(stack) \in Nat
  BY <1>1, LenProperties DEF TypeOK
<1>3. Len(stack) - n \in DOMAIN stack
  BY <1>2
<1> QED
  BY <1>1, <1>3, OperandType DEF AllLead, Operand

(* So are several of them.                                                 *)
LEMMA OperandsLead ==
  ASSUME HInv, NEW n \in Nat, n <= Len(stack)
  PROVE  Operands(n) \in Seq(Value) /\ AllLead(Operands(n), heap)
<1>1. TypeOK /\ AllLead(stack, heap)
  BY DEF HInv, IInv, HandlesLead
<1>2. /\ DOMAIN stack = 1 .. Len(stack) /\ Len(stack) \in Nat /\ stack \in Seq(Value)
  BY <1>1, LenProperties DEF TypeOK
<1>3. Operands(n) \in Seq(Value) /\ Len(Operands(n)) = n
  BY <1>1, OperandsType
<1>4. \A i \in 1 .. n : Operands(n)[i] = stack[Len(stack) - n + i]
  <2>1. \A i \in Len(stack) - n + 1 .. Len(stack) : stack[i] \in Value
    BY <1>2, ElementOfSeq
  <2> QED
    BY <1>2, <2>1, SubSeqProperties DEF Operands
<1>5. \A i \in 1 .. n : Len(stack) - n + i \in DOMAIN stack
  BY <1>2
<1>6. DOMAIN Operands(n) = 1 .. n
  BY <1>3, LenProperties
<1> QED
  BY <1>1, <1>3, <1>4, <1>5, <1>6 DEF AllLead

(* What is below the operands leads on.                                    *)
LEMMA BelowLeads ==
  ASSUME HInv, NEW n \in Nat
  PROVE  Below(n) \in Seq(Value) /\ AllLead(Below(n), heap)
<1>1. TypeOK /\ AllLead(stack, heap)
  BY DEF HInv, IInv, HandlesLead
<1>2. stack \in Seq(Value) /\ Len(stack) - n \in Int /\ Len(stack) - n <= Len(stack)
  BY <1>1, LenProperties DEF TypeOK
<1> QED
  BY <1>1, <1>2, BelowType, PrefixLeads DEF Below

(* The stack after an instruction's operands were replaced.                *)
LEMMA ReplaceLeads ==
  ASSUME HInv, NEW n \in Nat, NEW vs \in Seq(Value), Replace(n, vs),
         Kept(heap, heap'), AllLead(vs, heap')
  PROVE  AllLead(stack', heap')
<1>1. heap \in Heaps
  BY DEF HInv, IInv, TypeOK, Heaps
<1>2. Below(n) \in Seq(Value) /\ AllLead(Below(n), heap)
  BY BelowLeads
<1>3. AllLead(Below(n), heap')
  BY <1>1, <1>2, KeptAllLead
<1> QED
  BY <1>2, <1>3, ConcatLeads DEF Replace

(* What a step that keeps the heap and leaves variables and cells alone    *)
(* has to do for Kind.                                                     *)
LEMMA StackStep ==
  ASSUME HInv, UNCHANGED <<locals, cells>>, Kept(heap, heap'), ElemsLead(heap'),
         AllLead(stack', heap')
  PROVE  Kind
<1>1. heap \in Heaps /\ HandlesLead
  BY DEF HInv, IInv, TypeOK, Heaps
<1>2. AllLead(locals', heap')
  BY <1>1, KeptAllLead DEF HandlesLead
<1>3. \A c \in DOMAIN cells' : Leads(cells'[c].val, heap')
  BY <1>1, KeptLeads DEF HandlesLead
<1> QED
  BY <1>2, <1>3 DEF HandlesLead, Kind

(* An instruction that works on the operands only.                         *)
LEMMA ReplaceKind ==
  ASSUME HInv, NEW n \in Nat, NEW vs \in Seq(Value), Replace(n, vs),
         UNCHANGED <<locals, heap, cells>>, AllLead(vs, heap)
  PROVE  Kind
<1>1. Kept(heap, heap') /\ ElemsLead(heap')
  BY KeptSame DEF HInv, IInv, TypeOK, Heaps, HandlesLead
<1> QED
  BY <1>1, ReplaceLeads, StackStep

(* The handler that catches a failure is one, in a frame of the stack.     *)
LEMMA CaughtType ==
  ASSUME HInv, NEW i \in Catching, NEW h \in GuardedBy(i)
  PROVE  Fun(frames[i].func).handlers[h] \in Handler /\ frames[i].stackBase \in Nat
<1>1. TypeOK /\ i \in DOMAIN frames
  BY DEF HInv, IInv, Catching
<1>2. frames[i] \in Frame(FuncIds, DOMAIN cells)
  BY <1>1, EachFrame
<1>3. Fun(frames[i].func).handlers \in Seq(Handler)
  BY <1>1, <1>2, FunType DEF Frame, Function
<1>4. h \in DOMAIN Fun(frames[i].func).handlers
  BY DEF GuardedBy
<1> QED
  BY <1>2, <1>3, <1>4, LenProperties, ElementOfSeq DEF Frame

(* A failing instruction drops operands only.                              *)
LEMMA FailKind ==
  ASSUME HInv, NEW n \in Nat, Fail(n)
  PROVE  Kind
<1>1. Kept(heap, heap') /\ ElemsLead(heap') /\ heap' = heap
  BY KeptSame DEF HInv, IInv, TypeOK, Heaps, HandlesLead, Fail
<1>2. CASE Caught(n)
  <2>1. PICK k \in Int : stack' = Truncate(Below(n), k)
    <3>1. PICK i \in Catching : \E h \in GuardedBy(i) :
            Unwind(n, i, Fun(frames[i].func).handlers[h])
      BY <1>2 DEF Caught
    <3>2. PICK h \in GuardedBy(i) : Unwind(n, i, Fun(frames[i].func).handlers[h])
      BY <3>1
    <3> DEFINE handler == Fun(frames[i].func).handlers[h]
    <3>3. handler \in Handler /\ frames[i].stackBase \in Nat
      BY CaughtType
    <3>4. stack' = Truncate(Below(n), frames[i].stackBase + handler.depth)
      BY <3>2 DEF Unwind, DepthAt
    <3>5. frames[i].stackBase + handler.depth \in Int
      BY <3>3 DEF Handler
    <3> QED
      BY <3>4, <3>5
  <2>2. Below(n) \in Seq(Value) /\ AllLead(Below(n), heap)
    BY BelowLeads
  <2> DEFINE m == IF k < Len(Below(n)) THEN k ELSE Len(Below(n))
  <2>3. m \in Int /\ m <= Len(Below(n)) /\ stack' = SubSeq(Below(n), 1, m)
    BY <2>1, <2>2, LenProperties DEF Truncate
  <2> HIDE DEF m
  <2>4. AllLead(stack', heap')
    BY <1>1, <2>2, <2>3, PrefixLeads
  <2> QED
    BY <1>1, <2>4, StackStep DEF Fail
<1>3. CASE Uncaught
  <2>1. AllLead(stack', heap')
    BY <1>3, EmptySeq DEF Uncaught, AllLead
  <2> QED
    BY <1>1, <2>1, StackStep DEF Fail
<1> QED
  BY <1>2, <1>3 DEF Fail

(* A heap with one more object, of elements that lead.                     *)
LEMMA AddLeads ==
  ASSUME HInv, NEW obj, AllLead(obj.elems, heap)
  PROVE  /\ Len(heap) + 1 \in DOMAIN Append(heap, obj)
         /\ Append(heap, obj)[Len(heap) + 1] = obj
         /\ Kept(heap, Append(heap, obj))
         /\ ElemsLead(Append(heap, obj))
<1> DEFINE S == Obj(FuncIds, DOMAIN cells) \cup {obj}
           g == Append(heap, obj)
<1>1. heap \in Heaps /\ heap \in Seq(S) /\ obj \in S
  BY SeqMonotonic DEF HInv, IInv, TypeOK, Heaps
<1>2. /\ Len(heap) \in Nat /\ DOMAIN heap = 1 .. Len(heap)
      /\ DOMAIN g = 1 .. Len(heap) + 1
      /\ \A o \in 1 .. Len(heap) : g[o] = heap[o]
      /\ g[Len(heap) + 1] = obj
  BY <1>1, AppendProperties, LenProperties
<1> HIDE DEF g
<1>3. Kept(heap, g)
  <2>1. Kept(heap, heap)
    BY <1>1, KeptSame
  <2> QED
    BY <1>2, <2>1 DEF Kept
<1>4. ElemsLead(g)
  <2>1. \A o \in DOMAIN g : AllLead(g[o].elems, heap)
    BY <1>2 DEF ElemsLead, HInv, HandlesLead
  <2> QED
    BY <1>1, <1>3, <2>1, KeptAllLead DEF ElemsLead
<1> QED
  BY <1>2, <1>3, <1>4 DEF g

(* An instruction that adds an object and pushes a handle of its kind.     *)
LEMMA AllocateKind ==
  ASSUME HInv, NEW n \in Nat, NEW k \in Handles, NEW obj,
         Allocate(n, k, obj), AllLead(obj.elems, heap),
         IF k = "ref" THEN obj.k \notin Handles ELSE obj.k = k
  PROVE  Kind
<1>1. /\ heap' = Append(heap, obj)
      /\ Replace(n, << Handle(k, Len(heap) + 1) >>)
      /\ UNCHANGED <<locals, cells>>
  BY DEF Allocate
<1>2. /\ Len(heap) + 1 \in DOMAIN heap' /\ heap'[Len(heap) + 1] = obj
      /\ Kept(heap, heap') /\ ElemsLead(heap')
  BY <1>1, AddLeads
<1> DEFINE v == Handle(k, Len(heap) + 1)
<1>3. v \in Value /\ Leads(v, heap')
  BY <1>2, LenProperties DEF Handle, Value, Kinds, Leads, HInv, IInv, TypeOK
<1>4. << v >> \in Seq(Value) /\ AllLead(<< v >>, heap')
  BY <1>3, OneValue DEF AllLead
<1> HIDE DEF v
<1>5. Replace(n, << v >>)
  BY <1>1 DEF v
<1> QED
  BY <1>1, <1>2, <1>4, <1>5, ReplaceLeads, StackStep

-----------------------------------------------------------------------------
(* The instructions, by what they change.                                  *)

(* No value at all.                                                        *)
LEMMA NoneLead ==
  ASSUME NEW h
  PROVE  << >> \in Seq(Value) /\ AllLead(<< >>, h)
BY EmptySeq DEF AllLead

(* A single value that leads.                                              *)
LEMMA OneLeads ==
  ASSUME NEW v \in Value, NEW h, Leads(v, h)
  PROVE  << v >> \in Seq(Value) /\ AllLead(<< v >>, h)
BY OneValue DEF AllLead

(* A value that is no handle leads wherever.                               *)
LEMMA PlainLeads ==
  ASSUME NEW v \in Value, v.k \notin Handles, NEW h
  PROVE  << v >> \in Seq(Value) /\ AllLead(<< v >>, h)
BY OneLeads DEF Leads

(* What a slot, a cell or an object holds leads.                           *)
LEMMA HeldLead ==
  ASSUME HInv
  PROVE  /\ \A i \in Nat : i < Len(locals) =>
              locals[i + 1] \in Value /\ Leads(locals[i + 1], heap)
         /\ \A c \in DOMAIN cells : cells[c].val \in Value /\ Leads(cells[c].val, heap)
         /\ \A o \in DOMAIN heap :
              /\ heap[o].elems \in Seq(Value) /\ AllLead(heap[o].elems, heap)
              /\ Len(heap[o].elems) \in Nat
              /\ \A i \in Nat : i < Len(heap[o].elems) =>
                   heap[o].elems[i + 1] \in Value /\ Leads(heap[o].elems[i + 1], heap)
<1>1. TypeOK /\ HandlesLead
  BY DEF HInv, IInv
<1>2. locals \in Seq(Value) /\ Len(locals) \in Nat /\ DOMAIN locals = 1 .. Len(locals)
  BY <1>1, LenProperties DEF TypeOK
<1>3. \A o \in DOMAIN heap : /\ heap[o].elems \in Seq(Value)
                            /\ Len(heap[o].elems) \in Nat
                            /\ DOMAIN heap[o].elems = 1 .. Len(heap[o].elems)
  BY <1>1, HeapElems, LenProperties
<1>4. \A c \in DOMAIN cells : cells[c].val \in Value
  BY <1>1 DEF TypeOK, Cell
<1>5. \A i \in Nat : i < Len(locals) => i + 1 \in DOMAIN locals
  BY <1>2
<1>6. \A i \in Nat : i < Len(locals) => locals[i + 1] \in Value
  BY <1>1, LocalType
<1>7. \A o \in DOMAIN heap : \A i \in Nat : i < Len(heap[o].elems) =>
        i + 1 \in DOMAIN heap[o].elems /\ heap[o].elems[i + 1] \in Value
  BY <1>1, <1>3, HeapElems
<1> QED
  BY <1>1, <1>3, <1>4, <1>5, <1>6, <1>7 DEF HandlesLead, AllLead, ElemsLead

(* Constants and results of operators are no handles.                      *)
LEMMA ConstKind ==
  ASSUME HInv, PushConst
  PROVE  Kind
<1>1. Ins \in Instr
  BY InsType DEF PushConst, HInv, IInv
<1>2. Literal(Ins) \in Value /\ Literal(Ins).k \notin Handles
  BY <1>1 DEF Literal, Value, Void, IntV, Float, Logic, Kinds, Scalars, Handles, Instr
<1> QED
  BY <1>2, PlainLeads, ReplaceKind DEF PushConst

(* Instructions that push what their operands compute.                     *)
LEMMA ComputeKind ==
  ASSUME HInv, ArithOp \/ Neg \/ Not \/ Dup \/ Pop \/ ToText \/ LenOp \/ CallNative
  PROVE  Kind
<1>1. TypeOK /\ MaxInt \in Nat
  BY IntAssumption DEF HInv, IInv
<1>2. \A n \in Int : Wrap(n) \in Int
  BY <1>1 DEF Wrap
<1> DEFINE Flat(v) == v \in Value /\ v.k \notin Handles
<1>3. \A n \in Int : Flat(IntV(n)) /\ Flat(Float(n)) /\ Flat(Logic(n))
  BY DEF IntV, Float, Logic, Value, Kinds, Scalars, Handles
<1>4. Flat(Void) /\ Flat(Str)
  BY DEF Void, Str, Value, Kinds, Scalars, Handles
<1>5. ASSUME NEW n \in Nat, NEW v, Flat(v), Replace(n, << v >>),
             UNCHANGED <<locals, heap, cells>>
      PROVE  Kind
  BY <1>5, PlainLeads, ReplaceKind
<1> HIDE DEF Flat
<1>6. CASE ArithOp
  <2>1. PICK op \in {"Add", "Sub", "Mul"} :
          Can(op) /\ \E r \in ArithResults(op, Operand(1), Operand(0)) : Replace(2, <<r>>)
    BY <1>6 DEF ArithOp
  <2>2. 1 < Len(stack) /\ 0 < Len(stack)
    BY <1>1, <2>1, LenProperties DEF Can, Ready, CompareOps, TypeOK
  <2>3. Operand(0) \in Value /\ Operand(1) \in Value
    BY <2>2, OperandLeads
  <2>4. Arith(op, Operand(1).v, Operand(0).v) \in Int
    BY <2>3 DEF Value, Arith
  <2>5. \A r \in ArithResults(op, Operand(1), Operand(0)) : Flat(r)
    BY <1>2, <1>3, <2>4 DEF ArithResults
  <2>6. PICK r : Flat(r) /\ Replace(2, <<r>>)
    BY <2>1, <2>5
  <2> QED
    BY <1>5, <1>6, <2>6 DEF ArithOp
<1>7. CASE Neg
  <2>1. Can("Neg") /\ 0 < Len(stack)
    BY <1>1, <1>7, LenProperties DEF Neg, Can, Ready, CompareOps, TypeOK
  <2>2. Operand(0) \in Value /\ Negatable(Operand(0))
    BY <2>1, OperandLeads DEF Can, Ready, CompareOps
  <2>3. -Operand(0).v \in Int
    BY <2>2 DEF Value
  <2>4. Flat(Negated(Operand(0)))
    BY <1>2, <1>3, <2>2, <2>3 DEF Negated, Negatable, Flat, Handles
  <2> QED
    BY <1>5, <1>7, <2>4 DEF Neg
<1>8. CASE Not
  <2>1. 0 < Len(stack)
    BY <1>1, <1>8, LenProperties DEF Not, Can, Ready, CompareOps, TypeOK
  <2>2. 1 - Operand(0).v \in Int
    BY <2>1, OperandLeads DEF Value
  <2> QED
    BY <1>3, <1>5, <1>8, <2>2 DEF Not
<1>9. CASE Dup
  <2>1. 0 < Len(stack)
    BY <1>1, <1>9, LenProperties DEF Dup, Can, Ready, CompareOps, TypeOK
  <2> QED
    BY <1>9, <2>1, OperandLeads, OneLeads, ReplaceKind DEF Dup
<1>10. CASE Pop
  BY <1>10, NoneLead, ReplaceKind DEF Pop
<1>11. CASE ToText
  BY <1>4, <1>5, <1>11 DEF ToText
<1>12. CASE LenOp
  <2>1. Can("Len")
    BY <1>12 DEF LenOp
  <2>2. ~IsText(Operand(0)) => Len(heap[Operand(0).v].elems) \in Int
    BY <2>1, HeldLead DEF Can, Ready, CompareOps, IsObj
  <2>3. PICK n \in Int : Replace(1, << IntV(n) >>)
    BY <1>12, <2>2, BoundsAssumption DEF LenOp
  <2> QED
    BY <1>3, <1>5, <1>12, <2>3 DEF LenOp
<1>13. CASE CallNative
  <2>1. Ins \in Instr
    BY <1>1, <1>13, InsType DEF CallNative, Can
  <2>2. Ins.a + 1 \in Nat
    BY <1>13, <2>1 DEF Instr, CallNative, Can
  <2> QED
    BY <1>4, <1>5, <1>13, <2>2 DEF CallNative
<1> QED
  BY <1>6, <1>7, <1>8, <1>9, <1>10, <1>11, <1>12, <1>13

(* Instructions that push what is in locals, a cell or an object.          *)
LEMMA LoadKind ==
  ASSUME HInv, LoadLocal \/ LoadGlobal \/ LoadUpvalue \/ LoadElement
  PROVE  Kind
<1>1. TypeOK /\ Fetched
  BY DEF HInv, IInv, LoadLocal, LoadGlobal, LoadUpvalue, LoadElement, Can
<1>2. Ins \in Instr /\ Top \in Frame(FuncIds, DOMAIN cells)
  BY <1>1, InsType, FrameType DEF Fetched, Live
<1>3. Top.localBase \in Nat
  BY <1>2 DEF Frame
<1>4. Ins.op # "PushInt" => Ins.a \in Nat
  BY <1>2 DEF Instr
<1>5. ASSUME NEW n \in Nat, NEW v \in Value, Leads(v, heap), Replace(n, << v >>),
             UNCHANGED <<locals, heap, cells>>
      PROVE  Kind
  BY <1>5, OneLeads, ReplaceKind
<1>6. CASE LoadLocal
  <2>1. Top.localBase + Ins.a < Len(locals) /\ Top.localBase + Ins.a \in Nat
    BY <1>3, <1>4, <1>6 DEF LoadLocal, Can, Ready, CompareOps
  <2> DEFINE v == locals[Top.localBase + Ins.a + 1]
  <2>2. v \in Value /\ Leads(v, heap)
    BY <2>1, HeldLead
  <2>3. Replace(0, << v >>) /\ UNCHANGED <<locals, heap, cells>>
    BY <1>6 DEF LoadLocal
  <2> HIDE DEF v
  <2> QED
    BY <1>5, <2>2, <2>3
<1>7. CASE LoadGlobal
  <2>1. Ins.a < Len(locals) /\ Ins.a \in Nat
    BY <1>4, <1>7 DEF LoadGlobal, Can, Ready, CompareOps
  <2> DEFINE v == locals[Ins.a + 1]
  <2>2. v \in Value /\ Leads(v, heap)
    BY <2>1, HeldLead
  <2>3. Replace(0, << v >>) /\ UNCHANGED <<locals, heap, cells>>
    BY <1>7 DEF LoadGlobal
  <2> HIDE DEF v
  <2> QED
    BY <1>5, <2>2, <2>3
<1>8. CASE LoadUpvalue
  <2>1. /\ Ins.a < Len(Top.upvalues) /\ Ins.a \in Nat
        /\ cells[Upvalue].open => cells[Upvalue].at < Len(locals)
    BY <1>4, <1>8 DEF LoadUpvalue, Can, Ready, CompareOps, Upvalue
  <2>2. Upvalue \in DOMAIN cells
    BY <1>2, <2>1, LenProperties, ElementOfSeq DEF Frame, Upvalue
  <2>3. cells[Upvalue].at \in Nat
    BY <1>1, <2>2 DEF TypeOK, Cell
  <2> DEFINE v == IF cells[Upvalue].open THEN locals[cells[Upvalue].at + 1]
                                         ELSE cells[Upvalue].val
  <2>4. v \in Value /\ Leads(v, heap)
    BY <2>1, <2>2, <2>3, HeldLead
  <2>5. Replace(0, << v >>) /\ UNCHANGED <<locals, heap, cells>>
    BY <1>8 DEF LoadUpvalue
  <2> HIDE DEF v
  <2> QED
    BY <1>5, <2>4, <2>5
<1>9. CASE LoadElement
  <2>1. /\ Operand(0).v \in DOMAIN heap
        /\ Ins.a < Len(heap[Operand(0).v].elems) /\ Ins.a \in Nat
    BY <1>4, <1>9 DEF LoadElement, Can, Ready, CompareOps, IsObj, IsTuple
  <2> DEFINE v == heap[Operand(0).v].elems[Ins.a + 1]
  <2>2. v \in Value /\ Leads(v, heap)
    BY <2>1, HeldLead
  <2>3. Replace(1, << v >>) /\ UNCHANGED <<locals, heap, cells>>
    BY <1>9 DEF LoadElement
  <2> HIDE DEF v
  <2> QED
    BY <1>5, <2>2, <2>3
<1> QED
  BY <1>6, <1>7, <1>8, <1>9

(* An object is added, of values that lead, and a handle of its kind is    *)
(* pushed.                                                                 *)
AddsObject(n, k, obj) ==
  /\ Allocate(n, k, obj) /\ AllLead(obj.elems, heap)
  /\ IF k = "ref" THEN obj.k \notin Handles ELSE obj.k = k

Adds == \E n \in Nat : \E k \in Handles : \E obj : AddsObject(n, k, obj)

(* A witness of that.                                                      *)
LEMMA AddsThis ==
  ASSUME NEW n \in Nat, NEW k \in Handles, NEW obj,
         Allocate(n, k, obj), AllLead(obj.elems, heap),
         IF k = "ref" THEN obj.k \notin Handles ELSE obj.k = k
  PROVE  Adds
<1>1. AddsObject(n, k, obj)
  BY DEF AddsObject
<1> QED
  BY <1>1 DEF Adds

(* Instructions that make an object of their operands.                     *)
LEMMA MakeAdds ==
  ASSUME HInv,
         PushString \/ PushMethod \/ MakeOption \/ MakeTuple \/ MakeArray
           \/ MakeObject \/ Concat
  PROVE  Adds
<1>1. TypeOK /\ Fetched
  BY DEF HInv, IInv, PushString, PushMethod, MakeOption, MakeTuple, MakeArray,
         MakeObject, Concat, Can
<1>2. /\ Ins.op # "PushInt" => Ins.a \in Nat
      /\ Ins.b \in Nat /\ Ins.c \in Nat
  BY <1>1, InsType DEF Instr
<1>3. Len(stack) \in Nat
  BY <1>1, LenProperties DEF TypeOK
<1> DEFINE string == Plain("string", PredefinedType.string, << >>)
<1>4. string.k = "string" /\ AllLead(string.elems, heap)
  BY NoneLead DEF Plain
<1> HIDE DEF string
<1>5. \A k, ty, elems : Plain(k, ty, elems).k = k /\ Plain(k, ty, elems).elems = elems
  BY DEF Plain
<1>6. CASE PushString
  BY <1>4, <1>6, AddsThis DEF PushString, string, Handles
<1>7. CASE Concat
  BY <1>2, <1>4, <1>7, AddsThis DEF Concat, Can, string, Handles
<1>8. CASE MakeOption
  <2>1. 1 <= Len(stack)
    BY <1>3, <1>8 DEF MakeOption, Can, Ready, CompareOps
  <2>2. AllLead(Operands(1), heap)
    BY <2>1, OperandsLead
  <2> QED
    BY <1>5, <1>8, <2>2, AddsThis DEF MakeOption, Handles
<1>9. CASE MakeTuple
  <2>1. Ins.b <= Len(stack)
    BY <1>2, <1>3, <1>9 DEF MakeTuple, Can, Ready, CompareOps
  <2>2. AllLead(Operands(Ins.b), heap)
    BY <1>2, <2>1, OperandsLead
  <2> QED
    BY <1>2, <1>5, <1>9, <2>2, AddsThis DEF MakeTuple, Handles
<1>10. CASE MakeArray
  <2>1. Ins.b <= Len(stack)
    BY <1>2, <1>3, <1>10 DEF MakeArray, Can, Ready, CompareOps
  <2>2. AllLead(Operands(Ins.b), heap)
    BY <1>2, <2>1, OperandsLead
  <2> QED
    BY <1>2, <1>5, <1>10, <2>2, AddsThis DEF MakeArray, Handles
<1>11. CASE MakeObject
  <2> DEFINE n == Ins.b + Ins.c
             fields == SubSeq(Operands(n), 1, Ins.b)
  <2>1. n <= Len(stack) /\ n \in Nat /\ Ins.b <= n
    BY <1>2, <1>3, <1>11 DEF MakeObject, Can, Ready, CompareOps
  <2>2. /\ Operands(n) \in Seq(Value) /\ AllLead(Operands(n), heap)
        /\ Len(Operands(n)) = n
    BY <1>1, <2>1, OperandsLead, OperandsType
  <2>3. Allocate(n, "ref", Plain("object", Ins.a, fields))
    BY <1>11 DEF MakeObject
  <2> HIDE DEF n
  <2>4. AllLead(fields, heap)
    BY <1>2, <2>1, <2>2, PrefixLeads
  <2> HIDE DEF fields
  <2> QED
    BY <1>5, <2>1, <2>3, <2>4, AddsThis DEF Handles
<1>12. CASE PushMethod
  <2> DEFINE f   == program.classes[Ins.a + 1][Ins.b + 1]
             obj == Callable("method", Fun(f).ty, Operands(1), f, << >>)
  <2>1. 1 <= Len(stack)
    BY <1>3, <1>12 DEF PushMethod, Can, Ready, CompareOps
  <2>2. AllLead(Operands(1), heap)
    BY <2>1, OperandsLead
  <2>3. Allocate(1, "method", obj)
    BY <1>12 DEF PushMethod
  <2>4. obj.k = "method" /\ obj.elems = Operands(1)
    BY DEF Callable
  <2> HIDE DEF obj
  <2> QED
    BY <2>2, <2>3, <2>4, AddsThis DEF Handles
<1> QED
  BY <1>6, <1>7, <1>8, <1>9, <1>10, <1>11, <1>12

(* Adding one keeps handles and objects.                                   *)
LEMMA MakeKind ==
  ASSUME HInv,
         PushString \/ PushMethod \/ MakeOption \/ MakeTuple \/ MakeArray
           \/ MakeObject \/ Concat
  PROVE  Kind
<1>1. Adds
  BY MakeAdds
<1>2. PICK n \in Nat : \E k \in Handles : \E obj : AddsObject(n, k, obj)
  BY <1>1 DEF Adds
<1>3. PICK k \in Handles : \E obj : AddsObject(n, k, obj)
  BY <1>2
<1>4. PICK obj : AddsObject(n, k, obj)
  BY <1>3
<1> QED
  BY <1>4, AllocateKind DEF AddsObject

(* Storing into a slot a value that leads.                                 *)
LEMMA SetSlotLeads ==
  ASSUME TypeOK, NEW i \in Nat, NEW v \in Value, NEW h,
         AllLead(locals, h), Leads(v, h)
  PROVE  AllLead(SetSlot(i, v), h)
BY ExceptLeads, AppendLeads DEF SetSlot, TypeOK

(* Instructions that store a copy of an operand in a slot.                 *)
LEMMA StoreSlotKind ==
  ASSUME HInv, StoreLocal \/ StoreGlobal
  PROVE  Kind
<1>1. TypeOK /\ Fetched /\ heap \in Heaps /\ HandlesLead
  BY DEF HInv, IInv, StoreLocal, StoreGlobal, Can, TypeOK, Heaps
<1>2. Ins \in Instr /\ Top.localBase \in Nat
  BY <1>1, InsType, FrameType DEF Fetched, Live, Frame
<1>3. Ins.a \in Nat
  BY <1>2 DEF Instr, StoreLocal, StoreGlobal, Can
<1> DEFINE c == CopyOf(Operand(0))
<1>4. 0 < Len(stack)
  BY <1>1, StoresPop
<1>5. /\ c[1] \in Value /\ Kept(heap, c[2])
      /\ Leads(c[1], c[2]) /\ ElemsLead(c[2])
  BY <1>4, OperandLeads, CopyLeads
<1>6. PICK i \in Nat :
        locals' = SetSlot(i, c[1]) /\ heap' = c[2] /\ Replace(0, << >>) /\ cells' = cells
  BY <1>2, <1>3 DEF StoreLocal, StoreGlobal
<1> HIDE DEF c
<1>7. AllLead(locals, heap')
  BY <1>1, <1>5, <1>6, KeptAllLead DEF HandlesLead
<1>8. AllLead(locals', heap')
  BY <1>1, <1>5, <1>6, <1>7, SetSlotLeads
<1>9. AllLead(stack', heap')
  BY <1>5, <1>6, NoneLead, ReplaceLeads
<1>10. \A d \in DOMAIN cells' : Leads(cells'[d].val, heap')
  BY <1>1, <1>5, <1>6, KeptLeads DEF HandlesLead
<1> QED
  BY <1>5, <1>6, <1>8, <1>9, <1>10 DEF HandlesLead, Kind

(* A captured variable is overwritten, in locals or in its cell.           *)
LEMMA StoreUpvalueKind ==
  ASSUME HInv, StoreUpvalue
  PROVE  Kind
<1>1. TypeOK /\ Fetched /\ heap \in Heaps /\ HandlesLead
  BY DEF HInv, IInv, StoreUpvalue, Can, TypeOK, Heaps
<1> DEFINE c == CopyOf(Operand(0))
<1>2. /\ 0 < Len(stack) /\ Replace(0, << >>)
      /\ heap' = c[2]
      /\ IF cells[Upvalue].open
         THEN /\ locals' = [locals EXCEPT ![cells[Upvalue].at + 1] = c[1]]
              /\ UNCHANGED cells
         ELSE /\ cells' = [cells EXCEPT ![Upvalue].val = c[1]]
              /\ UNCHANGED locals
  BY <1>1, LenProperties DEF StoreUpvalue, Can, Ready, CompareOps, TypeOK
<1>3. /\ c[1] \in Value /\ Kept(heap, heap')
      /\ Leads(c[1], heap') /\ ElemsLead(heap')
  BY <1>2, OperandLeads, CopyLeads
<1> HIDE DEF c
<1>4. AllLead(stack', heap')
  BY <1>2, <1>3, NoneLead, ReplaceLeads
<1>5. /\ AllLead(locals, heap')
      /\ \A d \in DOMAIN cells : Leads(cells[d].val, heap')
  BY <1>1, <1>3, KeptAllLead, KeptLeads DEF HandlesLead
<1>6. CASE cells[Upvalue].open
  <2>1. AllLead(locals', heap')
    BY <1>1, <1>2, <1>3, <1>5, <1>6, ExceptLeads DEF TypeOK
  <2> QED
    BY <1>2, <1>3, <1>4, <1>5, <1>6, <2>1 DEF HandlesLead, Kind
<1>7. CASE ~cells[Upvalue].open
  <2>1. /\ cells' = [cells EXCEPT ![Upvalue].val = c[1]]
        /\ UNCHANGED locals
    BY <1>2, <1>7
  <2>2. cells \in [DOMAIN cells -> Cell]
    BY <1>1 DEF TypeOK
  <2>3. \A d \in DOMAIN cells' :
          d \in DOMAIN cells /\ cells'[d].val \in {cells[d].val, c[1]}
    BY <2>1, <2>2 DEF Cell
  <2>4. \A d \in DOMAIN cells' : Leads(cells'[d].val, heap')
    BY <1>3, <1>5, <2>3
  <2> QED
    BY <1>3, <1>4, <1>5, <2>1, <2>4 DEF HandlesLead, Kind
<1> QED
  BY <1>6, <1>7

(* A copy of an operand overwrites an element of an object that has        *)
(* elements to overwrite.                                                  *)
LEMMA OverwriteKind ==
  ASSUME HInv, NEW n \in Nat, n < Len(stack), NEW m \in Nat, NEW o \in DOMAIN heap,
         heap[o].k \in {"tuple", "array", "object"}, NEW i \in Nat,
         heap' = WriteElement(CopyOf(Operand(n))[2], o, i, CopyOf(Operand(n))[1]),
         Replace(m, << >>), UNCHANGED <<locals, cells>>
  PROVE  Kind
<1> DEFINE c == CopyOf(Operand(n))
<1>1. /\ c[1] \in Value /\ c[2] \in Heaps /\ Kept(heap, c[2])
      /\ Leads(c[1], c[2]) /\ ElemsLead(c[2])
  BY OperandLeads, CopyLeads
<1>2. heap' = WriteElement(c[2], o, i, c[1])
  OBVIOUS
<1> HIDE DEF c
<1>3. heap \in Heaps
  BY DEF HInv, IInv, TypeOK, Heaps
<1>4. o \in DOMAIN c[2] /\ c[2][o].k = heap[o].k
  BY <1>1, HeapObject DEF Kept, HInv, IInv, Obj
<1>5. Kept(c[2], heap') /\ ElemsLead(heap')
  BY <1>1, <1>2, <1>4, WriteLeads
<1>6. Kept(heap, heap')
  BY <1>1, <1>3, <1>5, KeptTwice
<1> QED
  BY <1>5, <1>6, NoneLead, ReplaceLeads, StackStep

(* An element, a field or an array element is overwritten.                 *)
LEMMA StoreElementKind ==
  ASSUME HInv, StoreElement \/ StoreArrayElement
  PROVE  Kind
<1>1. TypeOK /\ Fetched /\ Len(stack) \in Nat
  BY LenProperties DEF HInv, IInv, StoreElement, StoreArrayElement, Can, TypeOK
<1>2. CASE StoreElement
  <2>1. Ins \in Instr /\ Ins.op \in {"StoreTupleElement", "StoreObjectField"}
    BY <1>1, <1>2, InsType DEF StoreElement, Can
  <2>2. Ins.a \in Nat
    BY <2>1 DEF Instr
  <2>3. /\ 1 < Len(stack) /\ Operand(0).v \in DOMAIN heap
        /\ \/ Operand(0).k = "tuple"
           \/ heap[Operand(0).v].k = "object"
    <3>1. CASE Can("StoreTupleElement")
      BY <1>1, <3>1 DEF Can, Ready, CompareOps, IsTuple
    <3>2. CASE Can("StoreObjectField")
      BY <1>1, <3>2 DEF Can, Ready, CompareOps, IsObj
    <3> QED
      BY <1>2, <3>1, <3>2 DEF StoreElement
  <2>4. heap[Operand(0).v].k \in {"tuple", "array", "object"}
    BY <2>3, OperandLeads DEF Leads, Handles
  <2>5. /\ heap' = WriteElement(CopyOf(Operand(1))[2], Operand(0).v, Ins.a,
                               CopyOf(Operand(1))[1])
        /\ Replace(1, << >>) /\ UNCHANGED <<locals, cells>>
    BY <1>2 DEF StoreElement
  <2> QED
    BY <2>2, <2>3, <2>4, <2>5, OverwriteKind
<1>3. CASE StoreArrayElement /\ ~Fail(2)
  <2>1. /\ 2 < Len(stack) /\ 0 < Len(stack) /\ Operand(1).v \in DOMAIN heap
        /\ heap[Operand(1).v].k = "array"
    BY <1>1, <1>3 DEF StoreArrayElement, Can, Ready, CompareOps, IsObj
  <2>2. Operand(0).v \in Int
    BY <2>1, OperandLeads DEF Value
  <2>3. /\ 0 <= Operand(0).v
        /\ heap' = WriteElement(CopyOf(Operand(2))[2], Operand(1).v, Operand(0).v,
                               CopyOf(Operand(2))[1])
        /\ Replace(2, << >>) /\ UNCHANGED <<locals, cells>>
    BY <1>3 DEF StoreArrayElement
  <2> QED
    BY <2>1, <2>2, <2>3, OverwriteKind
<1>4. CASE Fail(2)
  BY <1>4, FailKind
<1> QED
  BY <1>2, <1>3, <1>4

(* Instructions that may fail.                                             *)
LEMMA FallibleKind ==
  ASSUME HInv, Div \/ Compare \/ Cast \/ Unwrap \/ LoadArrayElement
  PROVE  Kind
<1>1. TypeOK /\ Fetched /\ Len(stack) \in Nat
  BY LenProperties DEF HInv, IInv, Div, Compare, Cast, Unwrap, LoadArrayElement, Can,
     TypeOK
<1>2. CASE \E n \in {0, 1, 2} : Fail(n)
  BY <1>2, FailKind
<1>3. CASE Div /\ ~IsZero(Operand(0))
  <2>1. /\ 1 < Len(stack) /\ 0 < Len(stack)
        /\ Divisible(Operand(1), Operand(0))
    BY <1>1, <1>3 DEF Div, Can, Ready, CompareOps
  <2>2. \A n \in Int : /\ IntV(n) \in Value /\ IntV(n).k \notin Handles
                      /\ Float(n) \in Value /\ Float(n).k \notin Handles
    BY DEF IntV, Float, Value, Kinds, Scalars, Handles
  <2>3. Operand(1).k = "int" => Quotient(Operand(1).v, Operand(0).v) \in Int
    BY <2>1, IntAssumption DEF Divisible, I64
  <2>4. \A r \in DivResults(Operand(1), Operand(0)) : r \in Value /\ r.k \notin Handles
    BY <2>2, <2>3 DEF DivResults
  <2>5. PICK r \in Value :
          r.k \notin Handles /\ Replace(2, <<r>>) /\ UNCHANGED <<locals, heap, cells>>
    BY <1>3, <2>4 DEF Div
  <2> QED
    BY <2>5, PlainLeads, ReplaceKind
<1>4. CASE Compare /\ ~Fail(2)
  <2>1. PICK op \in CompareOps :
          Can(op) /\ Replace(2, << Operand(0) >>) /\ UNCHANGED <<locals, heap, cells>>
    BY <1>4 DEF Compare
  <2>2. 0 < Len(stack)
    BY <1>1, <2>1 DEF Can, Ready, CompareOps
  <2> QED
    BY <2>1, <2>2, OperandLeads, OneLeads, ReplaceKind
<1>5. CASE Cast /\ ~Fail(0)
  BY <1>5, NoneLead, ReplaceKind DEF Cast
<1>6. CASE Unwrap /\ ~Fail(1)
  <2> DEFINE vs == heap[Operand(0).v].elems
  <2>1. Operand(0).v \in DOMAIN heap
    BY <1>6 DEF Unwrap, Can, Ready, CompareOps, Fetchable, Handles
  <2>2. vs \in Seq(Value) /\ AllLead(vs, heap)
    BY <2>1, HeldLead
  <2>3. Replace(1, vs) /\ UNCHANGED <<locals, heap, cells>>
    BY <1>6 DEF Unwrap
  <2> HIDE DEF vs
  <2> QED
    BY <2>2, <2>3, ReplaceKind
<1>7. CASE LoadArrayElement /\ ~Fail(1) /\ ~Fail(2)
  <2> DEFINE i  == Operand(0).v
             es == heap[Operand(1).v].elems
             v  == es[i + 1]
  <2>1. 0 < Len(stack)
    BY <1>1, <1>7 DEF LoadArrayElement, Can, Ready, CompareOps
  <2>2. i \in Int
    BY <2>1, OperandLeads DEF Value
  <2>3. ~(i < 0) /\ ~(i >= Len(es))
    BY <1>7 DEF LoadArrayElement
  <2>4. Operand(1).v \in DOMAIN heap
    BY <1>7, <2>2, <2>3 DEF LoadArrayElement, Can, Ready, CompareOps, IsObj
  <2>5. v \in Value /\ Leads(v, heap)
    BY <2>2, <2>3, <2>4, HeldLead
  <2>6. Replace(2, << v >>) /\ UNCHANGED <<locals, heap, cells>>
    BY <1>7, <2>3 DEF LoadArrayElement
  <2> HIDE DEF v
  <2> QED
    BY <2>5, <2>6, OneLeads, ReplaceKind
<1> QED
  BY <1>2, <1>3, <1>4, <1>5, <1>6, <1>7 DEF Div

(* A closure is an object like others; the new cells hold nothing yet.     *)
LEMMA MakeClosureKind ==
  ASSUME HInv, MakeClosure
  PROVE  Kind
<1>1. HandlesLead /\ heap \in Heaps /\ TypeOK
  BY DEF HInv, IInv, TypeOK, Heaps
<1>2. PICK obj, new :
        /\ obj.k = "function" /\ obj.elems = << >>
        /\ heap' = Append(heap, obj)
        /\ stack' = Append(stack, Handle("ref", Len(heap) + 1))
        /\ locals' = locals
        /\ cells' = [c \in DOMAIN cells \cup new |->
                       IF c \in DOMAIN cells THEN cells[c] ELSE OpenCell(c[3])]
  <2> DEFINE ds  == Fun(Ins.a).upvalues
             up  == [k \in DOMAIN ds |-> CellFor(ds[k])]
             new == {up[k] : k \in DOMAIN ds}
             obj == Callable("function", Fun(Ins.a).ty, << >>, Ins.a, up)
  <2>1. /\ heap' = Append(heap, obj)
        /\ stack' = Append(stack, Handle("ref", Len(heap) + 1))
        /\ locals' = locals
        /\ cells' = [c \in DOMAIN cells \cup new |->
                       IF c \in DOMAIN cells THEN cells[c] ELSE OpenCell(c[3])]
    BY DEF MakeClosure
  <2>2. obj.k = "function" /\ obj.elems = << >>
    BY DEF Callable
  <2> HIDE DEF obj, new
  <2> QED
    BY <2>1, <2>2
<1>3. /\ Len(heap) + 1 \in DOMAIN heap' /\ heap'[Len(heap) + 1] = obj
      /\ Kept(heap, heap') /\ ElemsLead(heap')
  BY <1>2, NoneLead, AddLeads
<1> DEFINE v == Handle("ref", Len(heap) + 1)
<1>4. v \in Value /\ Leads(v, heap')
  BY <1>1, <1>2, <1>3, LenProperties DEF Handle, Value, Kinds, Leads, Handles, Heaps
<1> HIDE DEF v
<1>5. AllLead(stack, heap') /\ AllLead(locals', heap')
  BY <1>1, <1>2, <1>3, KeptAllLead DEF HandlesLead
<1>6. stack' = Append(stack, v)
  BY <1>2 DEF v
<1>7. AllLead(stack', heap')
  BY <1>1, <1>4, <1>5, <1>6, AppendLeads DEF TypeOK
<1>8. ASSUME NEW c \in DOMAIN cells'
      PROVE  Leads(cells'[c].val, heap')
  <2>1. CASE c \in DOMAIN cells
    BY <1>1, <1>2, <1>3, <2>1, KeptLeads DEF HandlesLead
  <2>2. CASE c \notin DOMAIN cells
    <3>1. cells'[c].val = Void
      BY <1>2, <2>2 DEF OpenCell
    <3> QED
      BY <3>1 DEF Leads, Void, Handles
  <2> QED
    BY <2>1, <2>2
<1> QED
  BY <1>3, <1>5, <1>7, <1>8 DEF HandlesLead, Kind

(* A call moves operands into the callee's variables.                      *)
LEMMA CallKind ==
  ASSUME HInv, Call
  PROVE  Kind
<1>1. /\ TypeOK /\ Fetched /\ Len(stack) \in Nat /\ HandlesLead
      /\ Kept(heap, heap') /\ heap' = heap /\ cells' = cells
  BY KeptSame, LenProperties DEF HInv, IInv, Call, Can, TypeOK, Heaps
<1>2. Ins \in Instr /\ Ins.op = "Call"
  BY <1>1, InsType DEF Call, Can
<1>3. Ins.a \in Nat /\ Ins.a <= Len(stack)
  BY <1>1, <1>2 DEF Instr, Call, Can, Ready, CompareOps
<1>4. /\ locals' = locals \o Operands(Ins.a)
      /\ stack' = Below(Ins.a + 1)
  BY DEF Call
<1>5. AllLead(locals', heap')
  BY <1>1, <1>3, <1>4, OperandsLead, ConcatLeads DEF TypeOK, HandlesLead
<1>6. AllLead(stack', heap')
  BY <1>1, <1>3, <1>4, BelowLeads, SMTT(30)
<1> QED
  BY <1>1, <1>5, <1>6 DEF HandlesLead, Kind

(* A return moves captured variables into their cells and drops the rest.  *)
LEMMA ReturnKind ==
  ASSUME HInv, Return
  PROVE  Kind
<1>1. /\ TypeOK /\ HandlesLead /\ frames # << >>
      /\ Kept(heap, heap') /\ heap' = heap /\ stack' = stack
  BY KeptSame DEF HInv, IInv, Return, AtEnd, Live, TypeOK, Heaps
<1>2. Top \in Frame(FuncIds, DOMAIN cells)
  BY <1>1, FrameType
<1> DEFINE n == IF Top.localBase < Len(locals) THEN Top.localBase ELSE Len(locals)
<1>3. /\ locals \in Seq(Value) /\ n \in Int /\ n <= Len(locals)
      /\ locals' = SubSeq(locals, 1, n)
  BY <1>1, <1>2, LenProperties DEF Return, Truncate, Frame, TypeOK
<1> HIDE DEF n
<1>4. AllLead(locals', heap')
  BY <1>1, <1>3, PrefixLeads DEF HandlesLead
<1>5. /\ DOMAIN cells' = DOMAIN cells
      /\ \A c \in DOMAIN cells :
           cells'[c] = IF Closes(c) THEN ClosedCell(locals[cells[c].at + 1]) ELSE cells[c]
  BY DEF Return, CloseCaptures
<1>6. ASSUME NEW c \in DOMAIN cells'
      PROVE  Leads(cells'[c].val, heap')
  <2>1. CASE Closes(c)
    <3>1. cells[c].at \in Nat /\ cells[c].at < Len(locals)
      BY <1>1, <1>5, <2>1 DEF Return, Closable, Closes, TypeOK, Cell
    <3>2. cells'[c].val = locals[cells[c].at + 1]
      BY <1>5, <2>1 DEF ClosedCell
    <3> QED
      BY <1>1, <3>1, <3>2, HeldLead
  <2>2. CASE ~Closes(c)
    BY <1>1, <1>5, <2>2 DEF HandlesLead
  <2> QED
    BY <2>1, <2>2
<1> QED
  BY <1>1, <1>4, <1>6 DEF HandlesLead, Kind

-----------------------------------------------------------------------------
(* The theorems.                                                           *)

(* The one handle at the start is Print's.                                 *)
LEMMA InitLeads == Init => HInv
<1> SUFFICES ASSUME Init PROVE HInv
  OBVIOUS
<1>1. stack = << >> /\ locals = Globals /\ DOMAIN cells = {}
  BY DEF Init
<1> DEFINE print == Plain("native", PrintType, << >>)
<1>2. print.k = "native" /\ print.elems = << >>
  BY DEF Plain
<1>3. heap = << print >>
  BY DEF Init
<1> HIDE DEF print
<1>4. DOMAIN heap = {1} /\ heap[1] = print
  BY <1>3
<1>5. ElemsLead(heap)
  BY <1>2, <1>4, NoneLead DEF ElemsLead
<1>6. \A i \in 1 .. 9 : Leads(Globals[i], heap)
  BY <1>2, <1>4 DEF Globals, Handle, Leads, Handles
<1>7. DOMAIN Globals = 1 .. 9
  BY DEF Globals
<1>8. AllLead(locals, heap)
  BY <1>1, <1>6, <1>7 DEF AllLead
<1> QED
  BY <1>1, <1>5, <1>8, InitInv, NoneLead DEF HInv, HandlesLead

(* Every step keeps handles and objects.                                   *)
LEMMA NextKind == HInv /\ [Next]_vars => Kind
<1> SUFFICES ASSUME HInv, [Next]_vars PROVE Kind
  OBVIOUS
<1>1. CASE PushConst
  BY <1>1, ConstKind
<1>2. CASE ArithOp \/ Neg \/ Not \/ Dup \/ Pop \/ ToText \/ LenOp \/ CallNative
  BY <1>2, ComputeKind
<1>3. CASE LoadLocal \/ LoadGlobal \/ LoadUpvalue \/ LoadElement
  BY <1>3, LoadKind
<1>4. CASE PushString \/ PushMethod \/ MakeOption \/ MakeTuple \/ MakeArray
             \/ MakeObject \/ Concat
  BY <1>4, MakeKind
<1>5. CASE StoreLocal \/ StoreGlobal
  BY <1>5, StoreSlotKind
<1>6. CASE StoreUpvalue
  BY <1>6, StoreUpvalueKind
<1>7. CASE StoreElement \/ StoreArrayElement
  BY <1>7, StoreElementKind
<1>8. CASE Div \/ Compare \/ Cast \/ Unwrap \/ LoadArrayElement
  BY <1>8, FallibleKind
<1>9. CASE MakeClosure
  BY <1>9, MakeClosureKind
<1>10. CASE Call
  BY <1>10, CallKind
<1>11. CASE Return
  BY <1>11, ReturnKind
<1>12. CASE Jmp \/ Panic \/ Finish \/ Ended \/ UNCHANGED vars
  <2>1. UNCHANGED <<stack, locals, heap, cells>>
    BY <1>12 DEF Jmp, Panic, Finish, Ended, vars
  <2>2. Kept(heap, heap')
    BY <2>1, KeptSame DEF HInv, IInv, TypeOK, Heaps
  <2> QED
    BY <2>1, <2>2 DEF HInv, HandlesLead, Kind
<1> QED
  BY <1>1, <1>2, <1>3, <1>4, <1>5, <1>6, <1>7, <1>8, <1>9, <1>10, <1>11, <1>12
     DEF Next

(* No step breaks the invariant.                                           *)
LEMMA NextHInv == HInv /\ [Next]_vars => HInv'
BY NextInv, NextKind DEF HInv, Kind

(* Whatever bytecode runs, no handle on the stack, in a variable, in a     *)
(* cell or in an object dangles or names an object of another kind: the    *)
(* downcasts of vm/mod.rs that follow a Box, an Rc or an ObjectId find     *)
(* what the handle says.                                                   *)
THEOREM HandlesAlwaysLead == Spec => []HandlesLead
<1>1. HInv => HandlesLead
  BY DEF HInv
<1> QED
  BY <1>1, InitLeads, NextHInv, PTL DEF Spec

(* Whatever bytecode runs, objects are neither dropped nor resized nor     *)
(* retyped, and stores change only tuples, arrays and objects: strings,    *)
(* options, functions and methods may be shared.                           *)
THEOREM ShapesAreKept == Spec => ObjectsKeepShape
<1> DEFINE Keeps == Kept(heap, heap')
<1>1. HInv /\ [Next]_vars => [Keeps]_vars
  BY NextKind DEF Kind
<1>2. [Keeps]_vars =>
        [\A o \in DOMAIN heap :
           /\ o \in DOMAIN heap'
           /\ heap'[o] = [heap[o] EXCEPT !.elems = heap'[o].elems]
           /\ Len(heap'[o].elems) = Len(heap[o].elems)
           /\ heap[o].k \notin {"tuple", "array", "object"} => heap'[o] = heap[o]]_vars
  BY DEF Kept
<1> HIDE DEF Keeps
<1> QED
  BY <1>1, <1>2, InitLeads, NextHInv, PTL DEF Spec, ObjectsKeepShape

-----------------------------------------------------------------------------
(* Variables hold tuples of their own.                                     *)

(* Every tuple that a variable holds, at any depth, lies in one place, of  *)
(* one variable or of one such tuple.  Of other tuples, those that only    *)
(* operands and arrays hold, nothing is said: they share what they like.   *)
TuplesHeldOnce == \E S, at : Forest(S, at, Variables, heap)

(* Tuples nest, so that a copy is a copy to the last tuple.                *)
NInv == HInv /\ Nested(heap)

TInv == NInv /\ TuplesHeldOnce

(* A step that keeps the one, and if no tuple is passed the other.         *)
KeepsApart == Nested(heap') /\ (TuplesHeldOnce /\ NoTuplesPassed => TuplesHeldOnce')

(* Variables, of any locals and cells.                                     *)
VarsOf(ls, cs) ==
  [x \in ({"slot"} \X DOMAIN ls) \cup ({"cell"} \X {c \in DOMAIN cs : ~cs[c].open}) |->
     IF x[1] = "slot" THEN ls[x[2]] ELSE cs[x[2]].val]

(* Those the machine has, before a step and after.                         *)
LEMMA VarsHere == Variables = VarsOf(locals, cells) /\ Variables' = VarsOf(locals', cells')
BY DEF Variables, Slots, Boxes, VarsOf

(* What is where.                                                          *)
LEMMA VarsAt ==
  ASSUME NEW ls, NEW cs, NEW vs, vs = VarsOf(ls, cs)
  PROVE  /\ \A i : <<"slot", i>> \in DOMAIN vs <=> i \in DOMAIN ls
         /\ \A i \in DOMAIN ls : vs[<<"slot", i>>] = ls[i]
         /\ \A c : <<"cell", c>> \in DOMAIN vs <=> c \in DOMAIN cs /\ ~cs[c].open
         /\ \A c \in DOMAIN cs : ~cs[c].open => vs[<<"cell", c>>] = cs[c].val
         /\ \A x \in DOMAIN vs : \/ \E i \in DOMAIN ls : x = <<"slot", i>>
                                 \/ \E c \in DOMAIN cs : ~cs[c].open /\ x = <<"cell", c>>
<1>1. DOMAIN vs = ({"slot"} \X DOMAIN ls) \cup ({"cell"} \X {c \in DOMAIN cs : ~cs[c].open})
  BY DEF VarsOf
<1>2. \A x \in DOMAIN vs : vs[x] = IF x[1] = "slot" THEN ls[x[2]] ELSE cs[x[2]].val
  BY DEF VarsOf
<1> QED
  BY <1>1, <1>2

(* All of them are values that lead.                                       *)
LEMMA VariablesLead ==
  ASSUME HInv
  PROVE  \A x \in DOMAIN Variables : Variables[x] \in Value /\ Leads(Variables[x], heap)
<1>1. \A i \in DOMAIN locals : locals[i] \in Value /\ Leads(locals[i], heap)
  BY LenProperties, ElementOfSeq DEF HInv, IInv, TypeOK, HandlesLead, AllLead
<1>2. \A c \in DOMAIN cells : cells[c].val \in Value /\ Leads(cells[c].val, heap)
  BY HeldLead
<1> DEFINE vs == Variables
<1>3. vs = VarsOf(locals, cells)
  BY VarsHere
<1> HIDE DEF vs
<1>4. ASSUME NEW x \in DOMAIN vs
      PROVE  vs[x] \in Value /\ Leads(vs[x], heap)
  BY <1>1, <1>2, <1>3, VarsAt
<1> QED
  BY <1>4 DEF vs

(* The heap is a store.                                                    *)
LEMMA HeapStore ==
  ASSUME IInv
  PROVE  heap \in Store /\ Len(heap) \in Nat /\ DOMAIN heap = 1 .. Len(heap)
<1>1. heap \in Seq(Obj(FuncIds, DOMAIN cells))
  BY DEF IInv, TypeOK
<1>2. Obj(FuncIds, DOMAIN cells) \subseteq Obj(Nat, CellId)
  <2>1. \A s \in Seq(DOMAIN cells) : s \in Seq(CellId)
    BY SeqMonotonic DEF IInv, TypeOK
  <2>2. FuncIds \subseteq Nat
    BY LenProperties DEF FuncIds, IInv, TypeOK, Program
  <2> QED
    BY <2>1, <2>2 DEF Obj
<1> QED
  BY <1>1, <1>2, SeqMonotonic, LenProperties DEF Store

(* What a store puts in its place is made of new tuples.                   *)
LEMMA StoredCopy ==
  ASSUME NInv, NEW v \in Value, Leads(v, heap), NEW c, c = CopyOf(v)
  PROVE  /\ c[1] \in Value /\ c[2] \in Store /\ Extends(heap, c[2])
         /\ DOMAIN c[2] = 1 .. Len(c[2]) /\ DOMAIN heap \subseteq DOMAIN c[2]
         /\ FreshCopies(heap, << c[1] >>, c[2])
<1>1. heap \in Store /\ IInv /\ ElemsLead(heap) /\ Nested(heap)
  BY HeapStore DEF NInv, HInv, HandlesLead
<1>2. CopyMade(<<v, heap>>, c) /\ c[1] \in Value
  BY <1>1, CopyType
<1>3. c[2] \in Store /\ Extends(heap, c[2])
  BY <1>2 DEF CopyMade, Stored, Store
<1>4. FreshCopies(heap, << c[1] >>, c[2])
  BY <1>1, CopyFresh DEF CopyOf
<1>5. DOMAIN c[2] = 1 .. Len(c[2]) /\ DOMAIN heap \subseteq DOMAIN c[2]
  BY <1>1, <1>3, LenProperties DEF Store, Extends
<1> QED
  BY <1>2, <1>3, <1>4, <1>5

(* A step that touches neither variables nor objects.                      *)
LEMMA ApartSame ==
  ASSUME NInv, Variables' = Variables, UNCHANGED heap
  PROVE  KeepsApart
BY DEF NInv, KeepsApart, TuplesHeldOnce

(* An object is added behind those that are there.                         *)
LEMMA ApartAdded ==
  ASSUME NInv, Variables' = Variables, NEW obj, heap' = Append(heap, obj),
         AllLead(obj.elems, heap)
  PROVE  KeepsApart
<1>1. /\ heap \in Store /\ Len(heap) \in Nat /\ DOMAIN heap = 1 .. Len(heap)
      /\ ElemsLead(heap) /\ Nested(heap)
  BY HeapStore DEF NInv, HInv, HandlesLead
<1>2. /\ Len(heap') = Len(heap) + 1 /\ DOMAIN heap' = 1 .. Len(heap) + 1
      /\ \A o \in DOMAIN heap : heap'[o] = heap[o]
      /\ heap'[Len(heap) + 1] = obj
  <2> DEFINE S == Obj(Nat, CellId) \cup {obj}
  <2>1. heap \in Seq(S) /\ obj \in S
    BY <1>1, SeqMonotonic DEF Store
  <2> QED
    BY <1>1, <2>1, AppendProperties, LenProperties
<1>3. Nested(heap')
  BY <1>1, <1>2, NestedAdded
<1>4. ASSUME TuplesHeldOnce
      PROVE  TuplesHeldOnce'
  <2>1. PICK S, at : Forest(S, at, Variables, heap)
    BY <1>4 DEF TuplesHeldOnce
  <2>2. SameElems(S, heap, heap')
    BY <1>1, <1>2, <2>1 DEF Forest, SameElems
  <2>3. Forest(S, at, Variables', heap')
    BY <2>1, <2>2, ForestKept
  <2> QED
    BY <2>3 DEF TuplesHeldOnce
<1> QED
  BY <1>3, <1>4 DEF KeepsApart

(* A copy of a value is stored in a variable.                              *)
LEMMA ApartStored ==
  ASSUME NInv, NEW v \in Value, Leads(v, heap), NEW c, c = CopyOf(v), heap' = c[2],
         NEW x, OneSet(Variables, Variables', x, c[1])
  PROVE  KeepsApart
<1>1. heap \in Store /\ ElemsLead(heap) /\ Nested(heap)
  BY HeapStore DEF NInv, HInv, HandlesLead
<1>2. /\ heap' \in Store /\ Extends(heap, heap')
      /\ DOMAIN heap' = 1 .. Len(heap') /\ DOMAIN heap \subseteq DOMAIN heap'
      /\ FreshCopies(heap, << c[1] >>, heap')
  BY StoredCopy
<1>3. Nested(heap')
  BY <1>1, <1>2, NestedCopied DEF Nested
<1>4. ASSUME TuplesHeldOnce
      PROVE  TuplesHeldOnce'
  <2>1. PICK S, at : Forest(S, at, Variables, heap)
    BY <1>4 DEF TuplesHeldOnce
  <2> DEFINE T == Fresh(heap, heap')
  <2>2. PICK bt : Forest(T, bt, << c[1] >>, heap')
    BY <1>2 DEF FreshCopies
  <2>3. S \cap T = {} /\ SameElems(S, heap, heap') /\ 0 \notin DOMAIN heap'
    BY <1>2, <2>1 DEF Forest, Fresh, SameElems, Extends
  <2> HIDE DEF T
  <2>4. \E ct : Forest(S \cup T, ct, Variables', heap')
    BY <2>1, <2>2, <2>3, ForestPlaced
  <2> QED
    BY <2>4 DEF TuplesHeldOnce
<1> QED
  BY <1>3, <1>4 DEF KeepsApart

(* What the write of an element changes.                                   *)
LEMMA ElementWritten ==
  ASSUME NEW g \in Store, NEW e \in Value, NEW o \in DOMAIN g, NEW i \in Nat,
         NEW w, w = WriteElement(g, o, i, e)
  PROVE  OneWritten(g, w, o, i + 1, e)
<1>1. g \in Seq(Obj(Nat, CellId)) /\ DOMAIN g = 1 .. Len(g)
  BY LenProperties DEF Store
<1> DEFINE S == Nat
           ids == CellId
<1>2. g[o] \in Obj(Nat, CellId)
  BY <1>1, ElementOfSeq
<1>3. Len(w) = Len(g)
  <2>1. g \in Seq(Obj(S, ids))
    BY <1>1
  <2> HIDE DEF S, ids
  <2> QED
    BY <2>1, WriteElementType
<1>4. /\ DOMAIN w = DOMAIN g
      /\ w[o] = [g[o] EXCEPT !.elems = [@ EXCEPT ![i + 1] = e]]
      /\ \A p \in DOMAIN g : p # o => w[p] = g[p]
  BY <1>1 DEF WriteElement
<1>5. /\ w[o].k = g[o].k
      /\ w[o].elems = [g[o].elems EXCEPT ![i + 1] = e]
  BY <1>2, <1>4 DEF Obj
<1> QED
  BY <1>3, <1>4, <1>5 DEF OneWritten

(* A copy of a value is written over an element.                           *)
LEMMA ApartWritten ==
  ASSUME NInv, Variables' = Variables, NEW v \in Value, Leads(v, heap),
         NEW c, c = CopyOf(v),
         NEW o \in DOMAIN heap, NEW i \in Nat, heap' = WriteElement(c[2], o, i, c[1])
  PROVE  KeepsApart
<1> DEFINE g == c[2]
<1>1. heap \in Store /\ ElemsLead(heap) /\ Nested(heap)
  BY HeapStore DEF NInv, HInv, HandlesLead
<1>2. /\ c[1] \in Value /\ g \in Store /\ Extends(heap, g)
      /\ DOMAIN g = 1 .. Len(g) /\ DOMAIN heap \subseteq DOMAIN g
      /\ FreshCopies(heap, << c[1] >>, g)
  BY StoredCopy
<1> HIDE DEF g
<1>3. heap' = WriteElement(g, o, i, c[1])
  BY DEF g
<1>4. OneWritten(g, heap', o, i + 1, c[1])
  BY <1>2, <1>3, ElementWritten
<1>5. Nested(heap')
  BY <1>1, <1>2, <1>4, NestedWritten
<1>6. ASSUME TuplesHeldOnce
      PROVE  TuplesHeldOnce'
  <2>1. PICK S, at : Forest(S, at, Variables, heap)
    BY <1>6 DEF TuplesHeldOnce
  <2> DEFINE T == Fresh(heap, g)
  <2>2. PICK bt : Forest(T, bt, << c[1] >>, g)
    BY <1>2 DEF FreshCopies
  <2>3. S \cap T = {} /\ SameElems(S, heap, g) /\ 0 \notin DOMAIN g
    BY <1>2, <2>1 DEF Forest, Fresh, SameElems, Extends
  <2>4. CASE o \in S
    <3> HIDE DEF T
    <3>1. \E ct : Forest(S \cup T, ct, Variables, heap')
      BY <1>4, <2>1, <2>2, <2>3, <2>4, ForestWritten
    <3> QED
      BY <3>1 DEF TuplesHeldOnce
  <2>5. CASE o \notin S
    <3>1. SameElems(S, heap, heap')
      BY <1>2, <1>4, <2>3, <2>5 DEF SameElems, OneWritten
    <3>2. Forest(S, at, Variables', heap')
      BY <2>1, <3>1, ForestKept
    <3> QED
      BY <3>2 DEF TuplesHeldOnce
  <2> QED
    BY <2>4, <2>5
<1> QED
  BY <1>5, <1>6 DEF KeepsApart

(* Variables go, come that hold no tuple, or change their place.           *)
LEMMA ApartMoved ==
  ASSUME NInv, UNCHANGED heap, NEW from,
         NoTuplesPassed =>
           \A x \in DOMAIN Variables' : Tup(Variables'[x]) =>
             from[x] \in DOMAIN Variables /\ Variables'[x] = Variables[from[x]],
         \A x, y \in DOMAIN Variables' : x # y => from[x] # from[y]
  PROVE  KeepsApart
<1>1. Nested(heap') /\ 0 \notin DOMAIN heap
  BY HeapStore DEF NInv, HInv
<1>2. ASSUME TuplesHeldOnce, NoTuplesPassed
      PROVE  TuplesHeldOnce'
  <2>1. PICK S, at : Forest(S, at, Variables, heap)
    BY <1>2 DEF TuplesHeldOnce
  <2> DEFINE vs == Variables
             ws == Variables'
  <2>2. Forest(S, at, vs, heap)
    BY <2>1
  <2>3. /\ \A x \in DOMAIN ws : Tup(ws[x]) => from[x] \in DOMAIN vs /\ ws[x] = vs[from[x]]
        /\ \A x, y \in DOMAIN ws : x # y => from[x] # from[y]
    BY <1>2
  <2> HIDE DEF vs, ws
  <2>4. \E bt : Forest(S, bt, ws, heap)
    BY <1>1, <2>2, <2>3, ForestMoved
  <2> QED
    BY <2>4 DEF TuplesHeldOnce, ws
<1> QED
  BY <1>1, <1>2 DEF KeepsApart

(* Nothing is held at the start but the types and Print.                   *)
LEMMA InitApart == Init => TInv
<1> SUFFICES ASSUME Init PROVE TInv
  OBVIOUS
<1>1. HInv
  BY InitLeads
<1> DEFINE print == Plain("native", PrintType, << >>)
<1>2. print.k = "native"
  BY DEF Plain
<1>3. heap = << print >> /\ locals = Globals /\ DOMAIN cells = {}
  BY DEF Init
<1> HIDE DEF print
<1>4. DOMAIN heap = {1} /\ Len(heap) = 1 /\ heap[1].k = "native"
  BY <1>2, <1>3
<1>5. Nested(heap)
  <2> DEFINE r == [o \in DOMAIN heap |-> 0]
  <2>1. r \in [DOMAIN heap -> 0 .. Len(heap) - 1]
    BY <1>4
  <2>2. Falls(r, heap)
    BY <1>4 DEF Falls
  <2> QED
    BY <2>1, <2>2 DEF Nested
<1> DEFINE vs == Variables
<1>6. DOMAIN locals = 1 .. 9 /\ \A i \in 1 .. 9 : ~Tup(locals[i])
  BY <1>3 DEF Globals, Handle, Tup
<1>7. vs = VarsOf(locals, cells)
  BY VarsHere
<1> HIDE DEF vs
<1>8. \A x \in DOMAIN vs : ~Tup(vs[x])
  BY <1>3, <1>6, <1>7, VarsAt
<1>9. Forest({}, << >>, vs, heap)
  BY <1>8 DEF Forest, LiesAt
<1> QED
  BY <1>1, <1>5, <1>9 DEF TInv, NInv, TuplesHeldOnce, vs

(* A slot is set, or there is one more.                                    *)
LEMMA SlotSet ==
  ASSUME NEW ls \in Seq(Value), NEW i \in Nat, i <= Len(ls), NEW e \in Value,
         NEW ms, ms = IF i < Len(ls) THEN [ls EXCEPT ![i + 1] = e] ELSE Append(ls, e)
  PROVE  OneSet(ls, ms, i + 1, e)
<1> DEFINE n == Len(ls)
<1>1. n \in Nat /\ DOMAIN ls = 1 .. n
  BY LenProperties
<1>2. CASE i < n
  <2>1. ms = [ls EXCEPT ![i + 1] = e]
    BY <1>2
  <2> QED
    BY <1>1, <2>1 DEF OneSet
<1>3. CASE ~(i < n)
  <2>1. ms = Append(ls, e)
    BY <1>3
  <2>2. i <= n
    OBVIOUS
  <2>3. ms \in Seq(Value) /\ Len(ms) = n + 1
        /\ \A j \in 1 .. n : ms[j] = ls[j]
        /\ ms[n + 1] = e
    BY <2>1, AppendProperties
  <2>4. DOMAIN ms = 1 .. n + 1
    BY <2>3, LenProperties
  <2> HIDE DEF n
  <2>5. i = n
    BY <1>1, <1>3, <2>2
  <2> QED
    BY <1>1, <2>3, <2>4, <2>5 DEF OneSet
<1> QED
  BY <1>2, <1>3

(* Then one variable changes, or there is one more.                        *)
LEMMA SlotVariable ==
  ASSUME NEW ls, NEW ms, NEW cs, NEW i, NEW e, OneSet(ls, ms, i, e)
  PROVE  OneSet(VarsOf(ls, cs), VarsOf(ms, cs), <<"slot", i>>, e)
<1> DEFINE vs == VarsOf(ls, cs)
           ws == VarsOf(ms, cs)
<1>1. vs = VarsOf(ls, cs) /\ ws = VarsOf(ms, cs)
  OBVIOUS
<1> HIDE DEF vs, ws
<1>2. ASSUME NEW x \in DOMAIN ws
      PROVE  IF x = <<"slot", i>> THEN ws[x] = e ELSE x \in DOMAIN vs /\ ws[x] = vs[x]
  <2>1. CASE \E j \in DOMAIN ms : x = <<"slot", j>>
    <3>1. PICK j \in DOMAIN ms : x = <<"slot", j>>
      BY <2>1
    <3>2. ws[x] = ms[j]
      BY <1>1, <3>1, VarsAt
    <3>3. x = <<"slot", i>> <=> j = i
      BY <3>1
    <3>4. j \in DOMAIN ls => x \in DOMAIN vs /\ vs[x] = ls[j]
      BY <1>1, <3>1, VarsAt
    <3>5. IF j = i THEN ms[j] = e ELSE j \in DOMAIN ls /\ ms[j] = ls[j]
      BY DEF OneSet
    <3> QED
      BY <3>2, <3>3, <3>4, <3>5
  <2>2. CASE \E c \in DOMAIN cs : ~cs[c].open /\ x = <<"cell", c>>
    <3>1. PICK c \in DOMAIN cs : ~cs[c].open /\ x = <<"cell", c>>
      BY <2>2
    <3>2. ws[x] = cs[c].val /\ x \in DOMAIN vs /\ vs[x] = cs[c].val
      BY <1>1, <3>1, VarsAt
    <3>3. x # <<"slot", i>>
      BY <3>1
    <3> QED
      BY <3>2, <3>3
  <2> QED
    BY <1>1, <2>1, <2>2, VarsAt
<1> QED
  BY <1>2 DEF OneSet, vs, ws

(* Instructions that store in a slot.                                      *)
LEMMA StoreSlotApart ==
  ASSUME NInv, StoreLocal \/ StoreGlobal
  PROVE  KeepsApart
<1>1. HInv /\ TypeOK /\ Fetched
  BY DEF NInv, HInv, IInv, StoreLocal, StoreGlobal, Can
<1>2. Ins \in Instr /\ Top.localBase \in Nat
  BY <1>1, InsType, FrameType DEF Fetched, Live, Frame
<1>3. Ins.a \in Nat
  BY <1>2 DEF Instr, StoreLocal, StoreGlobal, Can
<1> DEFINE v == Operand(0)
           c == CopyOf(v)
<1>4. 0 < Len(stack)
  BY <1>1, StoresPop
<1>5. v \in Value /\ Leads(v, heap)
  BY <1>1, <1>4, OperandLeads
<1>6. PICK i \in Nat : /\ locals' = SetSlot(i, c[1]) /\ heap' = c[2] /\ cells' = cells
                       /\ i <= Len(locals)
  <2>1. CASE StoreLocal
    <3>1. Can("StoreLocal")
      BY <2>1 DEF StoreLocal
    <3>2. Top.localBase + Ins.a \in Nat /\ Top.localBase + Ins.a <= Len(locals)
      BY <1>2, <1>3, <3>1 DEF Can, Ready, CompareOps, Storable
    <3> QED
      BY <2>1, <3>2 DEF StoreLocal
  <2>2. CASE StoreGlobal
    <3>1. Can("StoreGlobal")
      BY <2>2 DEF StoreGlobal
    <3>2. Ins.a <= Len(locals)
      BY <3>1 DEF Can, Ready, CompareOps, Storable
    <3> QED
      BY <1>3, <2>2, <3>2 DEF StoreGlobal
  <2> QED
    BY <2>1, <2>2
<1>7. c[1] \in Value /\ c = CopyOf(v)
  BY <1>5, StoredCopy
<1> HIDE DEF v, c
<1> DEFINE e == c[1]
<1>8. e \in Value /\ i <= Len(locals)
      /\ locals' = IF i < Len(locals) THEN [locals EXCEPT ![i + 1] = e]
                                      ELSE Append(locals, e)
  BY <1>6, <1>7 DEF SetSlot
<1> HIDE DEF e
<1>9. OneSet(locals, locals', i + 1, e)
  BY <1>1, <1>8, SlotSet DEF TypeOK
<1>10. OneSet(Variables, Variables', <<"slot", i + 1>>, c[1])
  BY <1>6, <1>9, SlotVariable, VarsHere DEF e
<1> QED
  BY <1>5, <1>6, <1>7, <1>10, ApartStored

(* A captured variable is a slot or a cell.                                *)
LEMMA StoreUpvalueApart ==
  ASSUME NInv, StoreUpvalue
  PROVE  KeepsApart
<1>1. HInv /\ TypeOK /\ Fetched
  BY DEF NInv, HInv, IInv, StoreUpvalue, Can
<1> DEFINE v == Operand(0)
           c == CopyOf(v)
           u == Upvalue
<1>2. /\ 0 < Len(stack) /\ heap' = c[2]
      /\ IF cells[u].open
         THEN locals' = [locals EXCEPT ![cells[u].at + 1] = c[1]] /\ cells' = cells
         ELSE locals' = locals /\ cells' = [cells EXCEPT ![u].val = c[1]]
      /\ Ins.a < Len(Top.upvalues)
      /\ cells[u].open => cells[u].at < Len(locals)
  <2>1. 0 < Len(stack)
    BY <1>1, LenProperties DEF StoreUpvalue, Can, Ready, CompareOps, TypeOK
  <2>2. Ins.a < Len(Top.upvalues) /\ (cells[u].open => cells[u].at < Len(locals))
    BY DEF StoreUpvalue, Can, Ready, CompareOps, Upvalue
  <2>3. /\ heap' = c[2]
        /\ IF cells[u].open
           THEN locals' = [locals EXCEPT ![cells[u].at + 1] = c[1]] /\ cells' = cells
           ELSE locals' = locals /\ cells' = [cells EXCEPT ![u].val = c[1]]
    BY DEF StoreUpvalue
  <2> QED
    BY <2>1, <2>2, <2>3
<1>3. v \in Value /\ Leads(v, heap) /\ c = CopyOf(v)
  BY <1>1, <1>2, OperandLeads
<1>4. c[1] \in Value
  BY <1>3, StoredCopy
<1>5. u \in DOMAIN cells /\ cells[u] \in Cell
  <2>1. Ins \in Instr /\ Top \in Frame(FuncIds, DOMAIN cells)
    BY <1>1, InsType, FrameType DEF Fetched, Live
  <2>2. Ins.a \in Nat
    BY <2>1 DEF Instr, StoreUpvalue, Can
  <2> QED
    BY <1>1, <1>2, <2>1, <2>2, LenProperties, ElementOfSeq DEF Frame, Upvalue, TypeOK
<1> HIDE DEF v, c, u
<1>6. CASE cells[u].open
  <2> DEFINE i == cells[u].at
             e == c[1]
  <2>1. i \in Nat /\ i < Len(locals) /\ e \in Value
        /\ locals' = [locals EXCEPT ![i + 1] = e] /\ cells' = cells
    BY <1>2, <1>4, <1>5, <1>6 DEF Cell
  <2> HIDE DEF i, e
  <2>2. locals \in Seq(Value) /\ Len(locals) \in Nat
    BY <1>1, LenProperties DEF TypeOK
  <2>3. OneSet(locals, locals', i + 1, e)
    <3>1. DOMAIN locals = 1 .. Len(locals)
      BY <2>2, LenProperties
    <3> QED
      BY <2>1, <2>2, <3>1 DEF OneSet
  <2>4. OneSet(Variables, Variables', <<"slot", i + 1>>, c[1])
    BY <2>1, <2>3, SlotVariable, VarsHere DEF e
  <2> QED
    BY <1>2, <1>3, <2>4, ApartStored
<1>7. CASE ~cells[u].open
  <2>1. /\ locals' = locals /\ DOMAIN cells' = DOMAIN cells
        /\ \A d \in DOMAIN cells : d # u => cells'[d] = cells[d]
        /\ cells'[u].val = c[1] /\ ~cells'[u].open
    <3>1. locals' = locals /\ cells' = [cells EXCEPT ![u].val = c[1]]
      BY <1>2, <1>7
    <3>2. /\ DOMAIN cells' = DOMAIN cells
          /\ \A d \in DOMAIN cells : d # u => cells'[d] = cells[d]
          /\ cells'[u] = [cells[u] EXCEPT !.val = c[1]]
      BY <1>5, <3>1
    <3> QED
      BY <1>5, <1>7, <3>1, <3>2 DEF Cell
  <2> DEFINE vs == Variables
             ws == Variables'
  <2>2. vs = VarsOf(locals, cells) /\ ws = VarsOf(locals', cells')
    BY VarsHere
  <2> HIDE DEF vs, ws
  <2>3. ASSUME NEW x \in DOMAIN ws
        PROVE  IF x = <<"cell", u>> THEN ws[x] = c[1] ELSE x \in DOMAIN vs /\ ws[x] = vs[x]
    <3>1. CASE \E j \in DOMAIN locals : x = <<"slot", j>>
      BY <2>1, <2>2, <3>1, VarsAt
    <3>2. CASE \E d \in DOMAIN cells' : ~cells'[d].open /\ x = <<"cell", d>>
      <4>1. PICK d \in DOMAIN cells' : ~cells'[d].open /\ x = <<"cell", d>>
        BY <3>2
      <4>2. ws[x] = cells'[d].val
        BY <2>2, <4>1, VarsAt
      <4>3. CASE d = u
        BY <2>1, <4>1, <4>2, <4>3
      <4>4. CASE d # u
        <5>1. x # <<"cell", u>>
          BY <4>1, <4>4
        <5>2. d \in DOMAIN cells /\ cells'[d] = cells[d]
          BY <2>1, <4>4
        <5>3. x \in DOMAIN vs /\ vs[x] = cells[d].val
          BY <2>2, <4>1, <5>2, VarsAt
        <5> QED
          BY <4>2, <5>1, <5>2, <5>3
      <4> QED
        BY <4>3, <4>4
    <3> QED
      BY <2>1, <2>2, <3>1, <3>2, VarsAt
  <2>4. OneSet(Variables, Variables', <<"cell", u>>, c[1])
    BY <2>3 DEF OneSet, vs, ws
  <2> QED
    BY <1>2, <1>3, <2>4, ApartStored
<1> QED
  BY <1>6, <1>7

(* Instructions that store in an object.                                   *)
LEMMA StoreElementApart ==
  ASSUME NInv, StoreElement \/ StoreArrayElement
  PROVE  KeepsApart
<1>1. HInv /\ TypeOK /\ Fetched /\ Len(stack) \in Nat
  BY LenProperties DEF NInv, HInv, IInv, StoreElement, StoreArrayElement, Can, TypeOK
<1>2. ASSUME UNCHANGED <<locals, cells>>
      PROVE  Variables' = Variables
  BY <1>2, VarsHere
<1>3. ASSUME NEW n \in Nat, n < Len(stack), NEW o \in DOMAIN heap, NEW i \in Nat,
             heap' = WriteElement(CopyOf(Operand(n))[2], o, i, CopyOf(Operand(n))[1]),
             UNCHANGED <<locals, cells>>
      PROVE  KeepsApart
  <2> DEFINE v == Operand(n)
             c == CopyOf(v)
  <2>1. v \in Value /\ Leads(v, heap)
    BY <1>1, <1>3, OperandLeads
  <2>2. heap' = WriteElement(c[2], o, i, c[1]) /\ c = CopyOf(v)
    BY <1>3
  <2>3. Variables' = Variables
    BY <1>2, <1>3
  <2> HIDE DEF v, c
  <2> QED
    BY <2>1, <2>2, <2>3, ApartWritten
<1>4. CASE StoreElement
  <2>1. Ins \in Instr /\ Ins.op \in {"StoreTupleElement", "StoreObjectField"}
    BY <1>1, <1>4, InsType DEF StoreElement, Can
  <2>2. Ins.a \in Nat
    BY <2>1 DEF Instr
  <2>3. 1 < Len(stack) /\ Operand(0).v \in DOMAIN heap
    <3>1. CASE Can("StoreTupleElement")
      BY <1>1, <3>1 DEF Can, Ready, CompareOps, IsTuple
    <3>2. CASE Can("StoreObjectField")
      BY <1>1, <3>2 DEF Can, Ready, CompareOps, IsObj
    <3> QED
      BY <1>4, <3>1, <3>2 DEF StoreElement
  <2>4. /\ heap' = WriteElement(CopyOf(Operand(1))[2], Operand(0).v, Ins.a,
                               CopyOf(Operand(1))[1])
        /\ UNCHANGED <<locals, cells>>
    BY <1>4 DEF StoreElement
  <2> QED
    BY <1>3, <2>2, <2>3, <2>4
<1>5. CASE StoreArrayElement /\ ~Fail(2)
  <2>1. 2 < Len(stack) /\ 0 < Len(stack) /\ Operand(1).v \in DOMAIN heap
    BY <1>1, <1>5 DEF StoreArrayElement, Can, Ready, CompareOps, IsObj
  <2>2. Operand(0).v \in Int
    BY <1>1, <2>1, OperandLeads DEF Value
  <2>3. /\ 0 <= Operand(0).v
        /\ heap' = WriteElement(CopyOf(Operand(2))[2], Operand(1).v, Operand(0).v,
                               CopyOf(Operand(2))[1])
        /\ UNCHANGED <<locals, cells>>
    BY <1>5 DEF StoreArrayElement
  <2> QED
    BY <1>3, <2>1, <2>2, <2>3
<1>6. CASE Fail(2)
  BY <1>2, <1>6, ApartSame DEF Fail
<1> QED
  BY <1>4, <1>5, <1>6

(* Arguments that are no tuples become variables.                          *)
LEMMA CallApart ==
  ASSUME NInv, Call
  PROVE  KeepsApart
<1>1. TypeOK /\ Fetched /\ Len(stack) \in Nat
  BY LenProperties DEF NInv, HInv, IInv, Call, Can, TypeOK
<1>2. Ins \in Instr /\ Ins.op = "Call" /\ Ready(Ins)
  BY <1>1, InsType DEF Call, Can
<1>3. Ins.a \in Nat /\ Ins.a <= Len(stack)
  BY <1>1, <1>2 DEF Instr, Ready, CompareOps
<1> DEFINE as == Operands(Ins.a)
<1>4. as \in Seq(Value) /\ (NoTuplesPassed => \A i \in DOMAIN as : ~Tup(as[i]))
  BY <1>1, <1>2, <1>3, OperandsType DEF NoTuplesPassed, Tup
<1>5. locals' = locals \o as /\ UNCHANGED <<heap, cells>>
  BY DEF Call
<1> HIDE DEF as
<1>6. locals \in Seq(Value) /\ Len(locals) \in Nat /\ DOMAIN locals = 1 .. Len(locals)
  BY <1>1, LenProperties DEF TypeOK
<1>7. Len(as) \in Nat /\ DOMAIN as = 1 .. Len(as)
  BY <1>4, LenProperties
<1> DEFINE ls == locals \o as
<1>8. /\ DOMAIN ls = 1 .. Len(locals) + Len(as)
      /\ \A i \in 1 .. Len(locals) + Len(as) :
           ls[i] = IF i <= Len(locals) THEN locals[i] ELSE as[i - Len(locals)]
  <2>1. /\ ls \in Seq(Value) /\ Len(ls) = Len(locals) + Len(as)
        /\ \A i \in 1 .. Len(locals) + Len(as) :
             ls[i] = IF i <= Len(locals) THEN locals[i] ELSE as[i - Len(locals)]
    BY <1>4, <1>6, ConcatProperties
  <2>2. DOMAIN ls = 1 .. Len(ls)
    BY <2>1, LenProperties
  <2> QED
    BY <2>1, <2>2
<1>9. locals' = ls
  BY <1>5
<1> HIDE DEF ls
<1>10. ASSUME NoTuplesPassed, NEW i \in DOMAIN ls, Tup(ls[i])
       PROVE  i \in DOMAIN locals /\ ls[i] = locals[i]
  <2> DEFINE n == Len(locals)
             m == Len(as)
  <2>1. /\ n \in Nat /\ m \in Nat /\ i \in 1 .. n + m
        /\ ls[i] = IF i <= n THEN locals[i] ELSE as[i - n]
    BY <1>6, <1>7, <1>8, <1>10
  <2>2. DOMAIN locals = 1 .. n /\ DOMAIN as = 1 .. m
    BY <1>6, <1>7
  <2> HIDE DEF n, m
  <2>3. CASE i <= n
    BY <2>1, <2>2, <2>3
  <2>4. CASE ~(i <= n)
    <3>1. i - n \in 1 .. m
      BY <2>1, <2>4
    <3>2. ls[i] = as[i - n]
      BY <2>1, <2>4
    <3> QED
      BY <1>4, <1>10, <2>2, <3>1, <3>2
  <2> QED
    BY <2>3, <2>4
<1> DEFINE vs == Variables
           ws == Variables'
           from == [x \in DOMAIN ws |-> x]
<1>11. vs = VarsOf(locals, cells) /\ ws = VarsOf(ls, cells)
  BY <1>5, <1>9, VarsHere
<1> HIDE DEF vs, ws
<1>12. ASSUME NoTuplesPassed, NEW x \in DOMAIN ws, Tup(ws[x])
       PROVE  from[x] \in DOMAIN vs /\ ws[x] = vs[from[x]]
  <2>1. from[x] = x
    OBVIOUS
  <2> HIDE DEF from
  <2>2. CASE \E i \in DOMAIN ls : x = <<"slot", i>>
    <3>1. PICK i \in DOMAIN ls : x = <<"slot", i>>
      BY <2>2
    <3>2. ws[x] = ls[i]
      BY <1>11, <3>1, VarsAt
    <3>3. i \in DOMAIN locals /\ ls[i] = locals[i]
      BY <1>10, <1>12, <3>2
    <3>4. x \in DOMAIN vs /\ vs[x] = locals[i]
      BY <1>11, <3>1, <3>3, VarsAt
    <3> QED
      BY <2>1, <3>2, <3>3, <3>4
  <2>3. CASE \E c \in DOMAIN cells : ~cells[c].open /\ x = <<"cell", c>>
    <3>1. PICK c \in DOMAIN cells : ~cells[c].open /\ x = <<"cell", c>>
      BY <2>3
    <3>2. ws[x] = cells[c].val /\ x \in DOMAIN vs /\ vs[x] = cells[c].val
      BY <1>11, <3>1, VarsAt
    <3> QED
      BY <2>1, <3>2
  <2> QED
    BY <1>11, <2>2, <2>3, VarsAt
<1>13. \A x, y \in DOMAIN ws : x # y => from[x] # from[y]
  OBVIOUS
<1> QED
  BY <1>5, <1>12, <1>13, ApartMoved DEF vs, ws

(* The variables of a frame go, the captured ones to their cells.          *)
LEMMA ReturnApart ==
  ASSUME NInv, Return
  PROVE  KeepsApart
<1>1. TypeOK /\ frames # << >> /\ UNCHANGED heap /\ CapturesInv /\ Closable
  BY DEF NInv, HInv, IInv, Return, AtEnd, Live
<1>2. Top \in Frame(FuncIds, DOMAIN cells)
  BY <1>1, FrameType
<1> DEFINE base == Top.localBase
           n == IF base < Len(locals) THEN base ELSE Len(locals)
<1>3. /\ locals \in Seq(Value) /\ base \in Nat /\ n \in Nat /\ n <= Len(locals) /\ n <= base
      /\ locals' = SubSeq(locals, 1, n)
      /\ Len(locals) \in Nat /\ DOMAIN locals = 1 .. Len(locals)
  BY <1>1, <1>2, LenProperties, SMTT(30) DEF Return, Truncate, Frame, TypeOK
<1> HIDE DEF n
<1>4. \A i \in DOMAIN locals' : i \in DOMAIN locals /\ locals'[i] = locals[i] /\ i <= base
  <2>1. DOMAIN locals' = 1 .. n /\ \A i \in 1 .. n : locals'[i] = locals[i]
    BY <1>3, SubSeqProperties
  <2> QED
    BY <1>3, <2>1
<1>5. /\ DOMAIN cells' = DOMAIN cells
      /\ \A c \in DOMAIN cells :
           IF Closes(c) THEN cells'[c].val = locals[cells[c].at + 1] /\ ~cells'[c].open
                        ELSE cells'[c] = cells[c]
  BY <1>1, ReturnFrames
<1>6. \A c \in DOMAIN cells : Closes(c) =>
        cells[c].at \in Nat /\ cells[c].at >= base /\ cells[c].at + 1 \in DOMAIN locals
  <2>1. \A c \in DOMAIN cells : cells[c].at \in Nat
    BY <1>1 DEF TypeOK, Cell
  <2>2. \A c \in Top.captures : cells[c].open => cells[c].at < Len(locals)
    BY <1>1 DEF Closable
  <2>3. \A c \in Top.captures : cells[c].at >= base
    BY <1>1, FrameType, LenProperties DEF CapturesInv, Top, TypeOK
  <2> HIDE DEF base
  <2> QED
    BY <1>3, <2>1, <2>2, <2>3 DEF Closes
<1>7. \A c, d \in DOMAIN cells :
        Closes(c) /\ Closes(d) /\ cells[c].at = cells[d].at => c = d
  BY <1>1, FrameType, LenProperties DEF CapturesInv, Closes, Top, TypeOK
<1> HIDE DEF base
<1> DEFINE vs == Variables
           ws == Variables'
           CellFrom(c) == IF Closes(c) THEN <<"slot", cells[c].at + 1>> ELSE <<"cell", c>>
           from == [x \in DOMAIN ws |-> IF x[1] = "slot" THEN x ELSE CellFrom(x[2])]
<1>8. vs = VarsOf(locals, cells) /\ ws = VarsOf(locals', cells')
  BY VarsHere
<1> HIDE DEF vs, ws
<1>9. /\ \A i \in DOMAIN locals' :
           <<"slot", i>> \in DOMAIN ws /\ from[<<"slot", i>>] = <<"slot", i>>
      /\ \A c \in DOMAIN cells' :
           ~cells'[c].open =>
             <<"cell", c>> \in DOMAIN ws /\ from[<<"cell", c>>] = CellFrom(c)
  <2>1. /\ \A i \in DOMAIN locals' : <<"slot", i>> \in DOMAIN ws
        /\ \A c \in DOMAIN cells' : ~cells'[c].open => <<"cell", c>> \in DOMAIN ws
    BY <1>8, VarsAt
  <2> QED
    BY <2>1
<1>10. \A x \in DOMAIN ws : \/ \E i \in DOMAIN locals' : x = <<"slot", i>>
                            \/ \E c \in DOMAIN cells' : ~cells'[c].open /\ x = <<"cell", c>>
  BY <1>8, VarsAt
<1> HIDE DEF from
<1>11. ASSUME NEW x \in DOMAIN ws
       PROVE  from[x] \in DOMAIN vs /\ ws[x] = vs[from[x]]
  <2>1. CASE \E i \in DOMAIN locals' : x = <<"slot", i>>
    <3>1. PICK i \in DOMAIN locals' : x = <<"slot", i>>
      BY <2>1
    <3>2. ws[x] = locals'[i]
      BY <1>8, <3>1, VarsAt
    <3>3. x \in DOMAIN vs /\ vs[x] = locals[i]
      BY <1>4, <1>8, <3>1, VarsAt
    <3> QED
      BY <1>4, <1>9, <3>1, <3>2, <3>3
  <2>2. CASE \E c \in DOMAIN cells' : ~cells'[c].open /\ x = <<"cell", c>>
    <3>1. PICK c \in DOMAIN cells' : ~cells'[c].open /\ x = <<"cell", c>>
      BY <2>2
    <3>2. ws[x] = cells'[c].val /\ from[x] = CellFrom(c) /\ c \in DOMAIN cells
      BY <1>5, <1>8, <1>9, <3>1, VarsAt
    <3>3. CASE Closes(c)
      <4>1. CellFrom(c) \in DOMAIN vs /\ vs[CellFrom(c)] = locals[cells[c].at + 1]
        BY <1>6, <1>8, <3>2, <3>3, VarsAt
      <4> QED
        BY <1>5, <3>2, <3>3, <4>1
    <3>4. CASE ~Closes(c)
      <4>1. cells'[c] = cells[c]
        BY <1>5, <3>2, <3>4
      <4>2. CellFrom(c) \in DOMAIN vs /\ vs[CellFrom(c)] = cells[c].val
        BY <1>8, <3>1, <3>2, <3>4, <4>1, VarsAt
      <4> QED
        BY <3>2, <4>1, <4>2
    <3> QED
      BY <3>3, <3>4
  <2> QED
    BY <1>10, <2>1, <2>2
<1>12. ASSUME NEW i \in DOMAIN locals', NEW c \in DOMAIN cells', ~cells'[c].open
       PROVE  <<"slot", i>> # CellFrom(c)
  <2>1. i <= base /\ i \in Nat
    BY <1>3, <1>4
  <2>2. CASE Closes(c)
    <3>1. cells[c].at + 1 # i
      BY <1>3, <1>5, <1>6, <2>1, <2>2
    <3> QED
      BY <2>2, <3>1
  <2>3. CASE ~Closes(c)
    BY <2>3
  <2> QED
    BY <2>2, <2>3
<1>13. ASSUME NEW c \in DOMAIN cells', NEW d \in DOMAIN cells', CellFrom(c) = CellFrom(d)
       PROVE  c = d
  <2>1. Closes(c) <=> Closes(d)
    BY <1>13
  <2>2. CASE Closes(c)
    <3>1. cells[c].at + 1 = cells[d].at + 1
      BY <1>13, <2>1, <2>2
    <3>2. cells[c].at = cells[d].at
      BY <1>5, <1>6, <2>1, <2>2, <3>1
    <3> QED
      BY <1>5, <1>7, <2>1, <2>2, <3>2
  <2>3. CASE ~Closes(c)
    BY <1>13, <2>1, <2>3
  <2> QED
    BY <2>2, <2>3
<1> HIDE DEF CellFrom
<1>14. ASSUME NEW x \in DOMAIN ws, NEW y \in DOMAIN ws, x # y
       PROVE  from[x] # from[y]
  <2>1. CASE /\ \E i \in DOMAIN locals' : x = <<"slot", i>>
             /\ \E i \in DOMAIN locals' : y = <<"slot", i>>
    BY <1>9, <1>14, <2>1
  <2>2. CASE /\ \E i \in DOMAIN locals' : x = <<"slot", i>>
             /\ \E c \in DOMAIN cells' : ~cells'[c].open /\ y = <<"cell", c>>
    BY <1>9, <1>12, <2>2
  <2>3. CASE /\ \E c \in DOMAIN cells' : ~cells'[c].open /\ x = <<"cell", c>>
             /\ \E i \in DOMAIN locals' : y = <<"slot", i>>
    BY <1>9, <1>12, <2>3
  <2>4. CASE /\ \E c \in DOMAIN cells' : ~cells'[c].open /\ x = <<"cell", c>>
             /\ \E c \in DOMAIN cells' : ~cells'[c].open /\ y = <<"cell", c>>
    BY <1>9, <1>13, <1>14, <2>4
  <2> QED
    BY <1>10, <2>1, <2>2, <2>3, <2>4
<1> QED
  BY <1>1, <1>11, <1>14, ApartMoved DEF vs, ws

(* A closure's new cells are open: they hold nothing themselves.           *)
LEMMA MakeClosureApart ==
  ASSUME NInv, MakeClosure
  PROVE  KeepsApart
<1> DEFINE up  == [k \in DOMAIN Fun(Ins.a).upvalues |-> CellFor(Fun(Ins.a).upvalues[k])]
           new == {up[k] : k \in DOMAIN Fun(Ins.a).upvalues}
           obj == Callable("function", Fun(Ins.a).ty, << >>, Ins.a, up)
<1>1. /\ heap' = Append(heap, obj) /\ UNCHANGED locals
      /\ cells' = [c \in DOMAIN cells \cup new |->
                     IF c \in DOMAIN cells THEN cells[c] ELSE OpenCell(c[3])]
  BY DEF MakeClosure
<1>2. obj.elems = << >>
  BY DEF Callable
<1> HIDE DEF obj, new
<1>3. /\ \A c \in DOMAIN cells : c \in DOMAIN cells' /\ cells'[c] = cells[c]
      /\ \A c \in DOMAIN cells' : ~cells'[c].open => c \in DOMAIN cells
  BY <1>1 DEF OpenCell
<1>4. {c \in DOMAIN cells' : ~cells'[c].open} = {c \in DOMAIN cells : ~cells[c].open}
  BY <1>3
<1>5. Variables' = Variables
  BY <1>1, <1>3, <1>4 DEF Variables, Slots, Boxes
<1>6. AllLead(obj.elems, heap)
  BY <1>2, NoneLead
<1> QED
  BY <1>1, <1>5, <1>6, ApartAdded

(* Every step keeps tuples nested and, as long as no tuple is passed to a  *)
(* function, what variables hold apart.                                    *)
LEMMA NextApart == NInv /\ [Next]_vars => KeepsApart
<1> SUFFICES ASSUME NInv, [Next]_vars PROVE KeepsApart
  OBVIOUS
<1>1. HInv
  BY DEF NInv
<1>2. ASSUME UNCHANGED <<locals, cells>>
      PROVE  Variables' = Variables
  BY <1>2, VarsHere
<1>3. ASSUME UNCHANGED <<locals, cells, heap>>
      PROVE  KeepsApart
  BY <1>2, <1>3, ApartSame
<1>4. CASE PushConst \/ LoadLocal \/ LoadGlobal \/ LoadUpvalue \/ LoadElement
             \/ ArithOp \/ Neg \/ Not \/ Dup \/ Pop \/ ToText \/ LenOp \/ CallNative
  <2>1. UNCHANGED <<locals, cells, heap>>
    BY <1>4 DEF PushConst, LoadLocal, LoadGlobal, LoadUpvalue, LoadElement, ArithOp,
       Neg, Not, Dup, Pop, ToText, LenOp, CallNative
  <2> QED
    BY <1>3, <2>1
<1>5. CASE Div \/ Compare \/ Cast \/ Unwrap \/ LoadArrayElement
  <2>1. UNCHANGED <<locals, cells, heap>>
    BY <1>5 DEF Div, Compare, Cast, Unwrap, LoadArrayElement, Fail
  <2> QED
    BY <1>3, <2>1
<1>6. CASE Jmp \/ Panic \/ Finish \/ Ended \/ UNCHANGED vars
  <2>1. UNCHANGED <<locals, cells, heap>>
    BY <1>6 DEF Jmp, Panic, Finish, Ended, vars
  <2> QED
    BY <1>3, <2>1
<1>7. CASE PushString \/ PushMethod \/ MakeOption \/ MakeTuple \/ MakeArray
             \/ MakeObject \/ Concat
  <2>1. Adds
    BY <1>1, <1>7, MakeAdds
  <2>2. PICK n, k, obj : AddsObject(n, k, obj)
    BY <2>1 DEF Adds
  <2>3. heap' = Append(heap, obj) /\ AllLead(obj.elems, heap) /\ UNCHANGED <<locals, cells>>
    BY <2>2 DEF AddsObject, Allocate
  <2> QED
    BY <1>2, <2>3, ApartAdded
<1>8. CASE MakeClosure
  BY <1>8, MakeClosureApart
<1>9. CASE StoreLocal \/ StoreGlobal
  BY <1>9, StoreSlotApart
<1>10. CASE StoreUpvalue
  BY <1>10, StoreUpvalueApart
<1>11. CASE StoreElement \/ StoreArrayElement
  BY <1>11, StoreElementApart
<1>12. CASE Call
  BY <1>12, CallApart
<1>13. CASE Return
  BY <1>13, ReturnApart
<1> QED
  BY <1>4, <1>5, <1>6, <1>7, <1>8, <1>9, <1>10, <1>11, <1>12, <1>13 DEF Next

(* So the invariants are inductive.                                        *)
LEMMA NextNInv == NInv /\ [Next]_vars => NInv'
BY NextHInv, NextApart DEF NInv, KeepsApart

LEMMA NextTInv == TInv /\ NoTuplesPassed /\ [Next]_vars => TInv'
BY NextHInv, NextApart DEF TInv, NInv, KeepsApart

(* Held once, tuples are not shared.                                       *)
LEMMA HeldOnceNotShared == TInv => VariablesDontShareTuples
<1> SUFFICES ASSUME TInv PROVE VariablesDontShareTuples
  OBVIOUS
<1>1. HInv /\ heap \in Store /\ Len(heap) \in Nat /\ ElemsLead(heap) /\ Nested(heap)
  BY HeapStore DEF TInv, NInv, HInv, HandlesLead
<1> DEFINE vs == Variables
<1>2. \A x \in DOMAIN vs : vs[x] \in Value /\ Leads(vs[x], heap)
  BY <1>1, VariablesLead
<1>3. PICK S, at : Forest(S, at, vs, heap)
  BY DEF TInv, TuplesHeldOnce
<1> HIDE DEF vs
<1>4. /\ \A x, y \in DOMAIN vs :
           x # y => TuplesOf(vs[x]) \cap TuplesOf(vs[y]) = {}
      /\ \A x \in DOMAIN vs : \A o \in TuplesOf(vs[x]) :
           LET es == heap[o].elems
           IN  \A m, n \in DOMAIN es : m # n => TuplesOf(es[m]) \cap TuplesOf(es[n]) = {}
  BY <1>1, <1>2, <1>3, ForestApart DEF TuplesOf
<1> QED
  BY <1>4 DEF VariablesDontShareTuples, vs

(* Tuples nest, whatever bytecode runs: no store puts a tuple into itself, *)
(* because copy_value puts a new one there.  So copy_value ends, and what  *)
(* CopyValue and TuplesIn make of depth loses nothing.                     *)
THEOREM TuplesNest == Spec => []Nested(heap)
<1>1. Init => NInv
  BY InitApart DEF TInv
<1>2. NInv => Nested(heap)
  BY DEF NInv
<1> QED
  BY <1>1, <1>2, NextNInv, PTL DEF Spec

(* Tuples have value semantics: whatever bytecode runs, if it passes no    *)
(* tuple to a function, then no tuple is reached from two variables, slots *)
(* or closed cells, nor on two ways from one, because set_stack_value and  *)
(* the element stores of vm/mod.rs put Value::copy_value in the place, and *)
(* it copies the tuples in a tuple; close_captures moves without a copy.   *)
THEOREM TuplesAreNotShared == Spec /\ []NoTuplesPassed => []VariablesDontShareTuples
BY InitApart, NextTInv, HeldOnceNotShared, PTL DEF Spec

-----------------------------------------------------------------------------
(* Captured variables as one store.                                        *)

RInv == TInv /\ OpenCellsOwned /\ PartsApart

(* The captured variables that have a value, and what each holds.          *)
Valued == {d \in DOMAIN cells : HasValue(d)}
Holding(c) == ContentsOf(CellValue(c))

(* What the mapping says, before a step and after.                         *)
LEMMA StoreHere ==
  /\ CapturedStore = [c \in Valued |-> Holding(c)]
  /\ CapturedStore' = [c \in Valued' |-> Holding(c)']
BY DEF CapturedStore, Valued, Holding

(* What a variable holds, followed through the heap before and after.      *)
LEMMA HoldingHere ==
  ASSUME NEW c
  PROVE  /\ Holding(c) = Whole(CellValue(c), heap)
         /\ Holding(c)' = Whole(CellValue(c)', heap')
BY DEF Holding, ContentsOf, Whole

(* A captured variable that has a value has one that leads.                *)
LEMMA ValuedLeads ==
  ASSUME HInv, NEW c \in Valued
  PROVE  c \in DOMAIN cells /\ CellValue(c) \in Value /\ Leads(CellValue(c), heap)
<1>1. c \in DOMAIN cells /\ cells[c].at \in Nat /\ (cells[c].open => cells[c].at < Len(locals))
  BY DEF Valued, HasValue, HInv, IInv, TypeOK, Cell
<1> QED
  BY <1>1, HeldLead DEF CellValue

(* No two open cells name one slot.                                        *)
LEMMA OneCell ==
  ASSUME IInv, OpenCellsOwned, PartsApart, NEW c \in DOMAIN cells, NEW d \in DOMAIN cells,
         cells[c].open, cells[d].open, cells[c].at = cells[d].at
  PROVE  c = d
<1>1. PICK i \in DOMAIN frames : c \in frames[i].captures
  BY DEF OpenCellsOwned
<1>2. PICK j \in DOMAIN frames : d \in frames[j].captures
  BY DEF OpenCellsOwned
<1>3. /\ i \in Nat /\ j \in Nat /\ cells[c].at \in Nat /\ cells[d].at \in Nat
      /\ frames[i].localBase \in Nat /\ frames[j].localBase \in Nat
  BY <1>1, <1>2, FramesHere
<1>4. CapturesInv
  BY DEF IInv
<1>5. cells[c].at >= frames[i].localBase /\ cells[d].at >= frames[j].localBase
  BY <1>1, <1>2, <1>4 DEF CapturesInv
<1>6. CASE i = j
  BY <1>1, <1>2, <1>4, <1>6 DEF CapturesInv
<1>7. CASE i < j
  <2>1. cells[c].at < frames[j].localBase
    BY <1>1, <1>2, <1>7 DEF PartsApart
  <2> QED
    BY <1>3, <1>5, <2>1
<1>8. CASE j < i
  <2>1. cells[d].at < frames[i].localBase
    BY <1>1, <1>2, <1>8 DEF PartsApart
  <2> QED
    BY <1>3, <1>5, <2>1
<1> QED
  BY <1>3, <1>6, <1>7, <1>8

(* So a slot is one captured variable at most.                             *)
LEMMA VariableIs ==
  ASSUME IInv, OpenCellsOwned, PartsApart, NEW index, NEW c \in VariableAt(index)
  PROVE  /\ c \in DOMAIN cells /\ cells[c].open /\ cells[c].at = index
         /\ VariableAt(index) = {c}
<1>1. c \in DOMAIN cells /\ cells[c].open /\ cells[c].at = index
  BY DEF VariableAt, OpenCell
<1>2. \A d \in VariableAt(index) : d \in DOMAIN cells /\ cells[d].open /\ cells[d].at = index
  BY DEF VariableAt, OpenCell
<1>3. \A d \in VariableAt(index) : d = c
  BY <1>1, <1>2, OneCell
<1> QED
  BY <1>1, <1>3

(* An open cell is the variable of its slot.                               *)
LEMMA OpenIsVariable ==
  ASSUME IInv, NEW c \in DOMAIN cells, cells[c].open
  PROVE  c \in VariableAt(cells[c].at)
BY DEF IInv, OpenCells, VariableAt

(* What the running function asks of the store next.                       *)
Loads  == {"LoadLocal", "LoadGlobal", "LoadUpvalue"}
Stores == {"StoreLocal", "StoreGlobal", "StoreUpvalue"}
Asks   == Fetched /\ Ready(Ins) /\
          Ins.op \in Loads \cup Stores \cup {"MakeClosure", "StoreTupleElement"}

(* Only the instructions that access a variable, make a closure or set a   *)
(* tuple's element ask for anything; the others are other.                 *)
LEMMA RequestIs ==
  /\ ~Asks => NextAccess.kind = "other"
  /\ Asks /\ Ins.op = "MakeClosure" => NextAccess.kind = "capture"
  /\ Asks /\ Ins.op = "StoreTupleElement" => NextAccess.kind = "amend"
  /\ Asks /\ Ins.op \in Loads \cup Stores /\ Accessed = {} => NextAccess.kind = "other"
  /\ Asks /\ Ins.op \in Loads /\ Accessed # {} =>
       NextAccess.kind = "read" /\ NextAccess.to = Accessed
  /\ Asks /\ Ins.op \in Stores /\ Accessed # {} =>
       NextAccess = [kind |-> "write", to |-> Accessed, value |-> Topmost]
<1> DEFINE acc == Accessed
           top == Topmost
           void == ContentsOf(Void)
           asked == NextAccess
           op == Ins.op
           on == Fetched /\ Ready(Ins)
<1>1. asked =
        IF ~on THEN [kind |-> "other", to |-> {}, value |-> void]
        ELSE CASE op = "MakeClosure" -> [kind |-> "capture", to |-> {}, value |-> void]
               [] op = "StoreTupleElement" -> [kind |-> "amend", to |-> {}, value |-> void]
               [] acc # {} /\ op \in {"LoadLocal", "LoadGlobal", "LoadUpvalue"} ->
                    [kind |-> "read", to |-> acc, value |-> void]
               [] acc # {} /\ op \in {"StoreLocal", "StoreGlobal", "StoreUpvalue"} ->
                    [kind |-> "write", to |-> acc, value |-> top]
               [] OTHER -> [kind |-> "other", to |-> {}, value |-> void]
  BY DEF NextAccess, Ask
<1> HIDE DEF acc, top, void, asked
<1>2. Asks <=> on /\ op \in Loads \cup Stores \cup {"MakeClosure", "StoreTupleElement"}
  BY DEF Asks
<1>3. Accessed = acc /\ Topmost = top /\ NextAccess = asked
  BY DEF acc, top, asked
<1> HIDE DEF on, op
<1>4. /\ ~Asks => asked.kind = "other"
      /\ Asks /\ op = "MakeClosure" => asked.kind = "capture"
      /\ Asks /\ op = "StoreTupleElement" => asked.kind = "amend"
      /\ Asks /\ op \in Loads \cup Stores /\ acc = {} => asked.kind = "other"
      /\ Asks /\ op \in Loads /\ acc # {} => asked.kind = "read" /\ asked.to = acc
      /\ Asks /\ op \in Stores /\ acc # {} =>
           asked = [kind |-> "write", to |-> acc, value |-> top]
  BY <1>1, <1>2 DEF Loads, Stores
<1> QED
  BY <1>3, <1>4 DEF op

-----------------------------------------------------------------------------
(* Tuples stay as they are through every step but one that sets an element *)
(* of one.                                                                 *)

(* The objects after a step are objects.                                   *)
LEMMA NextHeap ==
  ASSUME IInv, [Next]_vars
  PROVE  heap' \in Store /\ Len(heap') \in Nat /\ DOMAIN heap' = 1 .. Len(heap')
<1>1. TypeOK'
  BY NextInv DEF IInv
<1>2. heap' \in Seq(Obj(FuncIds', DOMAIN cells')) /\ DOMAIN cells' \subseteq CellId
  BY <1>1 DEF TypeOK
<1>3. Obj(FuncIds', DOMAIN cells') \subseteq Obj(Nat, CellId)
  <2>1. \A s \in Seq(DOMAIN cells') : s \in Seq(CellId)
    BY <1>2, SeqMonotonic
  <2>2. FuncIds' \subseteq Nat
    BY <1>1, LenProperties DEF FuncIds, TypeOK, Program
  <2> QED
    BY <2>1, <2>2 DEF Obj
<1> QED
  BY <1>2, <1>3, SeqMonotonic, LenProperties DEF Store

(* An object more.                                                         *)
LEMMA TuplesAdded ==
  ASSUME IInv, NEW obj, heap' = Append(heap, obj)
  PROVE  TuplesStay(heap, heap')
<1> DEFINE S == Obj(Nat, CellId) \cup {obj}
<1>1. heap \in Seq(S) /\ obj \in S /\ Len(heap) \in Nat /\ DOMAIN heap = 1 .. Len(heap)
  BY HeapStore, SeqMonotonic DEF Store
<1> HIDE DEF S
<1>2. DOMAIN heap' = 1 .. Len(heap) + 1 /\ \A o \in DOMAIN heap : heap'[o] = heap[o]
  BY <1>1, AppendProperties, LenProperties
<1> QED
  BY <1>1, <1>2 DEF TuplesStay

(* A copy of an operand.                                                   *)
LEMMA TuplesCopied ==
  ASSUME NInv, NEW n \in Nat, n < Len(stack), heap' = CopyOf(Operand(n))[2]
  PROVE  TuplesStay(heap, heap')
<1> DEFINE v == Operand(n)
           c == CopyOf(v)
<1>1. v \in Value /\ Leads(v, heap) /\ heap \in Store
  BY OperandLeads, HeapStore DEF NInv, HInv
<1>2. heap' = c[2]
  OBVIOUS
<1> HIDE DEF v
<1>3. c[2] \in Store /\ Extends(heap, c[2])
  BY <1>1, StoredCopy
<1> QED
  BY <1>1, <1>2, <1>3, ExtendsKeeps

(* And its writing over an element of what is no tuple.                    *)
LEMMA TuplesNotWritten ==
  ASSUME NInv, NEW n \in Nat, n < Len(stack), NEW o \in DOMAIN heap,
         heap[o].k # "tuple", NEW i \in Nat,
         heap' = WriteElement(CopyOf(Operand(n))[2], o, i, CopyOf(Operand(n))[1])
  PROVE  TuplesStay(heap, heap')
<1> DEFINE v == Operand(n)
           c == CopyOf(v)
<1>1. v \in Value /\ Leads(v, heap) /\ heap \in Store
  BY OperandLeads, HeapStore DEF NInv, HInv
<1>2. heap' = WriteElement(c[2], o, i, c[1])
  OBVIOUS
<1> HIDE DEF v
<1>3. /\ c[1] \in Value /\ c[2] \in Store /\ Extends(heap, c[2])
      /\ DOMAIN heap \subseteq DOMAIN c[2]
  BY <1>1, StoredCopy
<1> HIDE DEF c
<1>4. OneWritten(c[2], heap', o, i + 1, c[1])
  BY <1>2, <1>3, ElementWritten
<1>5. \A p \in DOMAIN heap : p # o => p \in DOMAIN heap' /\ heap'[p].elems = heap[p].elems
  BY <1>3, <1>4 DEF OneWritten, Extends
<1> QED
  BY <1>5 DEF TuplesStay

(* Whatever else the machine does.                                         *)
LEMMA HeapGrows ==
  ASSUME NInv, [Next]_vars, ~(Asks /\ Ins.op = "StoreTupleElement")
  PROVE  heap' \in Store /\ Len(heap) <= Len(heap') /\ TuplesStay(heap, heap')
<1>1. HInv /\ IInv /\ TypeOK
  BY DEF NInv, HInv, IInv
<1>2. /\ heap' \in Store /\ Len(heap') \in Nat /\ DOMAIN heap' = 1 .. Len(heap')
      /\ heap \in Store /\ Len(heap) \in Nat /\ DOMAIN heap = 1 .. Len(heap)
  BY <1>1, NextHeap, HeapStore
<1>3. Len(heap) <= Len(heap')
  <2>1. DOMAIN heap \subseteq DOMAIN heap'
    BY <1>1, NextKind DEF Kind, Kept
  <2> QED
    BY <1>2, <2>1
<1>4. ASSUME heap' = heap
      PROVE  TuplesStay(heap, heap')
  BY <1>4 DEF TuplesStay
<1>5. CASE PushConst \/ LoadLocal \/ LoadGlobal \/ LoadUpvalue \/ LoadElement
             \/ ArithOp \/ Neg \/ Not \/ Dup \/ Pop \/ ToText \/ LenOp \/ CallNative
             \/ Call \/ Return
  <2>1. heap' = heap
    BY <1>5 DEF PushConst, LoadLocal, LoadGlobal, LoadUpvalue, LoadElement, ArithOp,
       Neg, Not, Dup, Pop, ToText, LenOp, CallNative, Call, Return
  <2> QED
    BY <1>2, <1>3, <1>4, <2>1
<1>6. CASE Div \/ Compare \/ Cast \/ Unwrap \/ LoadArrayElement
             \/ Jmp \/ Panic \/ Finish \/ Ended \/ UNCHANGED vars
  <2>1. heap' = heap
    BY <1>6 DEF Div, Compare, Cast, Unwrap, LoadArrayElement, Fail,
       Jmp, Panic, Finish, Ended, vars
  <2> QED
    BY <1>2, <1>3, <1>4, <2>1
<1>7. CASE PushString \/ PushMethod \/ MakeOption \/ MakeTuple \/ MakeArray
             \/ MakeObject \/ Concat
  <2>1. Adds
    BY <1>1, <1>7, MakeAdds
  <2>2. PICK n, k, obj : AddsObject(n, k, obj)
    BY <2>1 DEF Adds
  <2>3. heap' = Append(heap, obj)
    BY <2>2 DEF AddsObject, Allocate
  <2> QED
    BY <1>1, <1>2, <1>3, <2>3, TuplesAdded
<1>8. CASE MakeClosure
  <2>1. \E obj : heap' = Append(heap, obj)
    BY <1>8 DEF MakeClosure
  <2> QED
    BY <1>1, <1>2, <1>3, <2>1, TuplesAdded
<1>9. CASE StoreLocal \/ StoreGlobal \/ StoreUpvalue
  <2>1. heap' = CopyOf(Operand(0))[2]
    BY <1>9 DEF StoreLocal, StoreGlobal, StoreUpvalue
  <2>2. Can("StoreLocal") \/ Can("StoreGlobal") \/ Can("StoreUpvalue")
    BY <1>9 DEF StoreLocal, StoreGlobal, StoreUpvalue
  <2>3. Len(stack) \in Nat /\ Len(stack) >= 1
    BY <1>1, <2>2, LenProperties DEF Can, Ready, CompareOps, TypeOK
  <2> QED
    BY <1>2, <1>3, <2>1, <2>3, TuplesCopied
<1>10. CASE StoreElement
  <2>1. ~Can("StoreTupleElement") /\ Can("StoreObjectField")
    BY <1>10 DEF StoreElement, Can, Asks
  <2>2. /\ 1 < Len(stack) /\ Operand(0).v \in DOMAIN heap
        /\ heap[Operand(0).v].k = "object" /\ Ins.op = "StoreObjectField" /\ Fetched
    BY <1>1, <2>1, LenProperties DEF Can, Ready, CompareOps, IsObj, TypeOK
  <2>3. Ins.a \in Nat
    BY <1>1, <2>2, InsType DEF Instr
  <2>4. heap' = WriteElement(CopyOf(Operand(1))[2], Operand(0).v, Ins.a,
                            CopyOf(Operand(1))[1])
    BY <1>10 DEF StoreElement
  <2> QED
    BY <1>2, <1>3, <2>2, <2>3, <2>4, TuplesNotWritten
<1>11. CASE StoreArrayElement /\ ~Fail(2)
  <2>1. /\ 2 < Len(stack) /\ 0 < Len(stack) /\ Operand(1).v \in DOMAIN heap
        /\ heap[Operand(1).v].k = "array"
    BY <1>1, <1>11, LenProperties
       DEF StoreArrayElement, Can, Ready, CompareOps, IsObj, TypeOK
  <2>2. Operand(0).v \in Int
    BY <1>1, <2>1, OperandLeads DEF Value
  <2>3. /\ 0 <= Operand(0).v
        /\ heap' = WriteElement(CopyOf(Operand(2))[2], Operand(1).v, Operand(0).v,
                               CopyOf(Operand(2))[1])
    BY <1>11 DEF StoreArrayElement
  <2> QED
    BY <1>2, <1>3, <2>1, <2>2, <2>3, TuplesNotWritten
<1>12. CASE StoreArrayElement /\ Fail(2)
  BY <1>2, <1>3, <1>4, <1>12 DEF Fail
<1> QED
  BY <1>5, <1>6, <1>7, <1>8, <1>9, <1>10, <1>11, <1>12 DEF Next

(* So what a value is stays what it is.                                    *)
LEMMA ContentsStay ==
  ASSUME NInv, [Next]_vars, ~(Asks /\ Ins.op = "StoreTupleElement"),
         NEW v \in Value, Leads(v, heap)
  PROVE  Whole(v, heap') = Whole(v, heap)
BY HeapGrows, HeapStore, WholeKept DEF NInv, HInv, HandlesLead

-----------------------------------------------------------------------------
(* Each kind of step, as a step of the store.                              *)

(* The frames own what they captured.                                      *)
LEMMA OwnersHere ==
  ASSUME IInv
  PROVE  /\ DOMAIN CapturedBy = DOMAIN frames /\ Len(CapturedBy) = Len(frames)
         /\ \A i \in DOMAIN frames : CapturedBy[i] = frames[i].captures
         /\ CapturedBy \in Seq(SUBSET DOMAIN cells)
         /\ Len(frames) \in Nat /\ DOMAIN frames = 1 .. Len(frames)
<1>1. Len(frames) \in Nat /\ DOMAIN frames = 1 .. Len(frames)
  BY FramesHere
<1>2. \A i \in DOMAIN frames : frames[i].captures \in SUBSET DOMAIN cells
  BY EachFrame DEF IInv
<1>3. CapturedBy \in [1 .. Len(frames) -> SUBSET DOMAIN cells]
  BY <1>1, <1>2 DEF CapturedBy
<1>4. CapturedBy \in Seq(SUBSET DOMAIN cells)
  BY <1>1, <1>3, FunctionSeq
<1>5. Len(CapturedBy) \in Nat /\ DOMAIN CapturedBy = 1 .. Len(CapturedBy)
  BY <1>4, LenProperties
<1>6. DOMAIN CapturedBy = 1 .. Len(frames)
  BY <1>3
<1>7. Len(CapturedBy) = Len(frames)
  <2> DEFINE m == Len(CapturedBy)
             n == Len(frames)
  <2>1. m \in Nat /\ n \in Nat /\ 1 .. m = 1 .. n
    BY <1>1, <1>5, <1>6
  <2> HIDE DEF m, n
  <2>2. m = n
    BY <2>1
  <2> QED
    BY <2>2 DEF m, n
<1> QED
  BY <1>1, <1>4, <1>6, <1>7 DEF CapturedBy

(* The same of those after a step.                                         *)
LEMMA NextOwners ==
  ASSUME IInv, [Next]_vars
  PROVE  /\ CapturedBy' = [i \in DOMAIN frames' |-> frames'[i].captures]
         /\ Len(frames') \in Nat /\ DOMAIN frames' = 1 .. Len(frames')
         /\ CapturedBy' \in Seq(SUBSET DOMAIN cells')
         /\ Len(CapturedBy') = Len(frames')
<1>1. TypeOK'
  BY NextInv DEF IInv
<1>2. /\ frames' \in Seq(Frame(FuncIds', DOMAIN cells'))
      /\ Len(frames') \in Nat /\ DOMAIN frames' = 1 .. Len(frames')
  BY <1>1, LenProperties DEF TypeOK
<1>3. \A i \in DOMAIN frames' : frames'[i] \in Frame(FuncIds', DOMAIN cells')
  BY <1>2, ElementOfSeq
<1>4. \A i \in DOMAIN frames' : frames'[i].captures \in SUBSET DOMAIN cells'
  BY <1>3 DEF Frame
<1> DEFINE owned == CapturedBy'
           ids == DOMAIN cells'
           n == Len(frames')
<1>5. owned = [i \in DOMAIN frames' |-> frames'[i].captures]
  BY DEF CapturedBy
<1>6. owned \in [1 .. n -> SUBSET ids] /\ n \in Nat
  BY <1>2, <1>4, <1>5
<1> HIDE DEF owned, ids, n
<1>7. owned \in Seq(SUBSET ids)
  BY <1>6, FunctionSeq
<1>8. Len(owned) \in Nat /\ DOMAIN owned = 1 .. Len(owned)
  BY <1>7, LenProperties
<1>9. DOMAIN owned = 1 .. n
  BY <1>6
<1>10. Len(owned) = n
  BY <1>6, <1>8, <1>9
<1> QED
  BY <1>2, <1>5, <1>7, <1>10 DEF owned, ids, n

(* Frames that stay keep what they own, those on top go.                   *)
LEMMA OwnersKept ==
  ASSUME IInv, [Next]_vars, SameCaptures
  PROVE  \/ CapturedBy' = CapturedBy
         \/ \E n \in 0 .. Len(CapturedBy) - 1 : CapturedBy' = SubSeq(CapturedBy, 1, n)
<1> DEFINE n == Len(frames')
           old == CapturedBy
           new == CapturedBy'
           m == Len(frames)
<1>1. /\ DOMAIN old = 1 .. m /\ Len(old) = m
      /\ \A i \in 1 .. m : old[i] = frames[i].captures
      /\ old \in Seq(SUBSET DOMAIN cells) /\ m \in Nat
  BY OwnersHere
<1>2. /\ n \in Nat /\ new = [i \in 1 .. n |-> frames'[i].captures]
      /\ n <= m
      /\ \A i \in 1 .. n : frames'[i].captures = frames[i].captures
  BY NextOwners DEF SameCaptures
<1> HIDE DEF n, m, old, new
<1>3. new = [i \in 1 .. n |-> old[i]]
  BY <1>1, <1>2
<1>4. CASE n = m
  BY <1>1, <1>3, <1>4 DEF old, new
<1>5. CASE n < m
  <2>1. SubSeq(old, 1, n) = [i \in 1 .. n |-> old[i]]
    BY <1>1, <1>2, PrefixType, LenProperties
  <2>2. n \in 0 .. Len(old) - 1
    BY <1>1, <1>2, <1>5
  <2> QED
    BY <1>3, <2>1, <2>2 DEF old, new
<1>6. n = m \/ n < m
  BY <1>1, <1>2
<1> QED
  BY <1>4, <1>5, <1>6

(* Variables that keep their values are the same store.                    *)
LEMMA StoreKept ==
  ASSUME NInv, [Next]_vars, ~(Asks /\ Ins.op = "StoreTupleElement"),
         Valued' = Valued, \A c \in Valued : CellValue(c)' = CellValue(c)
  PROVE  CapturedStore' = CapturedStore
<1>1. HInv
  BY DEF NInv
<1>2. ASSUME NEW c \in Valued
      PROVE  Holding(c)' = Holding(c)
  <2> DEFINE v == CellValue(c)
  <2>1. v \in Value /\ Leads(v, heap) /\ CellValue(c)' = v
    BY <1>1, ValuedLeads
  <2> HIDE DEF v
  <2>2. Whole(v, heap') = Whole(v, heap)
    BY <2>1, ContentsStay
  <2> QED
    BY <2>1, <2>2, HoldingHere DEF v
<1> QED
  BY <1>2, StoreHere

(* A step that asks for no captured variable.                              *)
LEMMA OtherStep ==
  ASSUME NextAccess.kind = "other", CapturedStore' = CapturedStore,
         \/ CapturedBy' = CapturedBy
         \/ \E n \in 0 .. Len(CapturedBy) - 1 : CapturedBy' = SubSeq(CapturedBy, 1, n)
  PROVE  Shared!Next
BY DEF Shared!Next, Shared!Other, Shared!Leave

(* Steps that are neither an access, a call, a return nor a capture.       *)
LEMMA QuietRefines ==
  ASSUME RInv, [Next]_vars, ~Asks, ~Call, ~Return
  PROVE  Shared!Next
<1>1. NInv /\ IInv
  BY DEF RInv, TInv, NInv, HInv
<1>2. ~StoreLocal /\ ~StoreGlobal /\ ~StoreUpvalue /\ ~MakeClosure
  BY DEF Asks, Loads, Stores, StoreLocal, StoreGlobal, StoreUpvalue, MakeClosure, Can
<1>3. locals' = locals /\ cells' = cells
  BY <1>2, StepApart
<1>4. Valued' = Valued /\ \A c \in Valued : CellValue(c)' = CellValue(c)
  BY <1>3 DEF Valued, HasValue, CellValue
<1>5. SameCaptures
  BY <1>1, <1>2, StepQuiet DEF Quiet
<1> QED
  BY <1>1, <1>4, <1>5, StoreKept, OwnersKept, RequestIs, OtherStep

(* Where an access goes.                                                   *)
LEMMA AccessedIs ==
  /\ Ins.op \in {"LoadLocal", "StoreLocal"} => Accessed = VariableAt(Top.localBase + Ins.a)
  /\ Ins.op \in {"LoadGlobal", "StoreGlobal"} => Accessed = VariableAt(Ins.a)
  /\ Ins.op \in {"LoadUpvalue", "StoreUpvalue"} => Accessed = {Upvalue}
BY DEF Accessed

(* The cell of an upvalue the instruction can use has a value.             *)
LEMMA UpvalueValued ==
  ASSUME IInv, Fetched, Ready(Ins), Ins.op \in {"LoadUpvalue", "StoreUpvalue"}
  PROVE  /\ Upvalue \in DOMAIN cells /\ Upvalue \in Valued /\ cells[Upvalue].at \in Nat
         /\ cells[Upvalue].open => cells[Upvalue].at < Len(locals)
<1>1. TypeOK /\ Ins \in Instr /\ Top \in Frame(FuncIds, DOMAIN cells)
  BY InsType, FrameType DEF IInv, Fetched, Live
<1>2. /\ Ins.a < Len(Top.upvalues) /\ Ins.a \in Nat
      /\ cells[Upvalue].open => cells[Upvalue].at < Len(locals)
  BY <1>1 DEF Ready, CompareOps, Upvalue, Instr
<1>3. Upvalue \in DOMAIN cells
  BY <1>1, <1>2, LenProperties, ElementOfSeq DEF Frame, Upvalue
<1> QED
  BY <1>1, <1>2, <1>3 DEF Valued, HasValue, TypeOK, Cell

(* Going on to the next instruction changes no owner.                      *)
LEMMA AdvanceOwners ==
  ASSUME IInv, Fetched, Advance
  PROVE  CapturedBy' = CapturedBy
<1>1. \A i \in DOMAIN frames : frames[i] \in Frame(FuncIds, DOMAIN cells)
  BY EachFrame DEF IInv
<1>2. frames' = [frames EXCEPT ![Len(frames)].pc = @ + 1]
  BY DEF Advance
<1>3. /\ DOMAIN frames' = DOMAIN frames
      /\ \A i \in DOMAIN frames : frames'[i].captures = frames[i].captures
  BY <1>1, <1>2 DEF Frame
<1> QED
  BY <1>3 DEF CapturedBy

(* What lies on top of the stack.                                          *)
LEMMA TopIs ==
  ASSUME TypeOK, 0 < Len(stack)
  PROVE  Topmost = Whole(Operand(0), heap)
<1>1. stack # << >>
  BY EmptySeq, LenProperties DEF TypeOK
<1> QED
  BY <1>1 DEF Topmost, ContentsOf, Whole

(* What was pushed is on top.                                              *)
LEMMA PushedTop ==
  ASSUME TypeOK, NEW v \in Value, Replace(0, << v >>)
  PROVE  Topmost' = Whole(v, heap')
<1>1. /\ Below(0) \in Seq(Value) /\ Len(Below(0)) \in Nat
      /\ << v >> \in Seq(Value) /\ Len(<< v >>) = 1
  BY BelowType, LenProperties
<1>2. stack' = Below(0) \o << v >>
  BY DEF Replace
<1> DEFINE s == Below(0)
           one == << v >>
<1>3. /\ s \o one \in Seq(Value) /\ Len(s \o one) = Len(s) + 1
      /\ (s \o one)[Len(s) + 1] = one[1]
  BY <1>1, ConcatProperties
<1>4. one[1] = v
  OBVIOUS
<1>5. stack' = s \o one
  BY <1>2
<1> HIDE DEF s, one
<1>6. stack' # << >> /\ stack'[Len(stack')] = v /\ Len(stack') \in Nat
  BY <1>1, <1>3, <1>4, <1>5, EmptySeq, LenProperties DEF s
<1>7. Operand(0)' = v
  BY <1>6 DEF Operand
<1> QED
  BY <1>6, <1>7 DEF Topmost, ContentsOf, Whole

(* A load of a captured variable reads it.                                 *)
LEMMA ReadStep ==
  ASSUME NInv, [Next]_vars, Asks, Ins.op \in Loads, NEW c \in Valued, Accessed = {c},
         Replace(0, << CellValue(c) >>), UNCHANGED <<locals, heap, cells>>
  PROVE  Shared!Next
<1>1. HInv /\ IInv /\ TypeOK /\ Fetched /\ Advance
  BY DEF NInv, HInv, IInv, Asks, Replace
<1>2. ~(Asks /\ Ins.op = "StoreTupleElement")
  BY DEF Loads
<1>3. Valued' = Valued /\ \A d \in Valued : CellValue(d)' = CellValue(d)
  BY DEF Valued, HasValue, CellValue
<1>4. UNCHANGED <<CapturedStore, CapturedBy>>
  BY <1>1, <1>2, <1>3, StoreKept, AdvanceOwners
<1>5. NextAccess.kind = "read" /\ NextAccess.to = {c}
  BY RequestIs
<1> DEFINE v == CellValue(c)
<1>6. v \in Value /\ Replace(0, << v >>)
  BY <1>1, ValuedLeads
<1> HIDE DEF v
<1>7. Topmost' = Whole(v, heap)
  BY <1>1, <1>6, PushedTop
<1>8. c \in DOMAIN CapturedStore /\ CapturedStore[c] = Whole(v, heap)
  BY StoreHere, HoldingHere DEF v
<1>9. Shared!Read
  BY <1>4, <1>5, <1>7, <1>8 DEF Shared!Read, Shared!Accesses
<1> QED
  BY <1>9 DEF Shared!Next

(* One of a slot that none captured reads nothing.                         *)
LEMMA LoadRefines ==
  ASSUME RInv, [Next]_vars, LoadLocal \/ LoadGlobal \/ LoadUpvalue
  PROVE  Shared!Next
<1>1. NInv /\ IInv /\ TypeOK /\ OpenCellsOwned /\ PartsApart
  BY DEF RInv, TInv, NInv, HInv, IInv
<1>2. /\ Asks /\ Ins.op \in Loads /\ Fetched /\ Ready(Ins) /\ Advance
      /\ UNCHANGED <<locals, heap, cells>>
  BY DEF LoadLocal, LoadGlobal, LoadUpvalue, Can, Asks, Loads, Replace
<1>3. ASSUME NEW index, index < Len(locals), Accessed = VariableAt(index),
             Replace(0, << locals[index + 1] >>)
      PROVE  Shared!Next
  <2>1. CASE Accessed = {}
    <3>1. NextAccess.kind = "other" /\ ~(Asks /\ Ins.op = "StoreTupleElement")
      BY <1>2, <2>1, RequestIs DEF Loads
    <3>2. Valued' = Valued /\ \A d \in Valued : CellValue(d)' = CellValue(d)
      BY <1>2 DEF Valued, HasValue, CellValue
    <3> QED
      BY <1>1, <1>2, <3>1, <3>2, StoreKept, AdvanceOwners, OtherStep
  <2>2. CASE Accessed # {}
    <3>1. PICK c : c \in VariableAt(index)
      BY <1>3, <2>2
    <3>2. /\ c \in DOMAIN cells /\ cells[c].open /\ cells[c].at = index
          /\ Accessed = {c}
      BY <1>1, <1>3, <3>1, VariableIs
    <3>3. c \in Valued /\ CellValue(c) = locals[index + 1]
      BY <1>3, <3>2 DEF Valued, HasValue, CellValue
    <3> QED
      BY <1>1, <1>2, <1>3, <3>2, <3>3, ReadStep
  <2> QED
    BY <2>1, <2>2
<1>4. CASE LoadLocal
  <2> DEFINE index == Top.localBase + Ins.a
  <2>1. /\ Ins.op = "LoadLocal" /\ index < Len(locals)
        /\ Replace(0, << locals[index + 1] >>)
    BY <1>4 DEF LoadLocal, Can, Ready, CompareOps
  <2>2. Accessed = VariableAt(index)
    BY <2>1, AccessedIs
  <2> HIDE DEF index
  <2> QED
    BY <1>3, <2>1, <2>2
<1>5. CASE LoadGlobal
  <2>1. /\ Ins.op = "LoadGlobal" /\ Ins.a < Len(locals)
        /\ Replace(0, << locals[Ins.a + 1] >>)
    BY <1>5 DEF LoadGlobal, Can, Ready, CompareOps
  <2> QED
    BY <1>3, <2>1, AccessedIs
<1>6. CASE LoadUpvalue
  <2>1. Ins.op = "LoadUpvalue" /\ Replace(0, << CellValue(Upvalue) >>)
    BY <1>6 DEF LoadUpvalue, Can, CellValue
  <2>2. Accessed = {Upvalue} /\ Upvalue \in Valued
    BY <1>1, <1>2, <2>1, AccessedIs, UpvalueValued
  <2> QED
    BY <1>1, <1>2, <2>1, <2>2, ReadStep
<1> QED
  BY <1>4, <1>5, <1>6

(* A store in a captured variable writes it: a copy is what it is a copy   *)
(* of.                                                                     *)
LEMMA WriteStep ==
  ASSUME NInv, [Next]_vars, Asks, Ins.op \in Stores, NEW c, Accessed = {c},
         0 < Len(stack), Replace(0, << >>), heap' = CopyOf(Operand(0))[2],
         Valued' = Valued \cup {c}, CellValue(c)' = CopyOf(Operand(0))[1],
         \A d \in Valued : d # c => CellValue(d)' = CellValue(d)
  PROVE  Shared!Next
<1>1. HInv /\ IInv /\ TypeOK /\ Fetched /\ Advance
  BY DEF NInv, HInv, IInv, Asks, Replace
<1>2. ~(Asks /\ Ins.op = "StoreTupleElement")
  BY DEF Stores
<1>3. CapturedBy' = CapturedBy
  BY <1>1, AdvanceOwners
<1> DEFINE v == Operand(0)
           all == Whole(v, heap)
<1>4. v \in Value /\ Leads(v, heap)
  BY <1>1, OperandLeads
<1>5. Topmost = all
  BY <1>1, TopIs
<1>6. NextAccess = [kind |-> "write", to |-> {c}, value |-> all]
  BY <1>5, RequestIs
<1>7. Whole(CopyOf(v)[1], CopyOf(v)[2]) = all
  BY <1>1, <1>4, HeapStore, WholeCopied DEF NInv, HInv, HandlesLead, CopyOf
<1>8. Holding(c)' = all
  BY <1>7, HoldingHere
<1>9. Topmost' = all
  <2>1. stack' = stack
    BY <1>1, LenProperties DEF Replace, Below, TypeOK
  <2>2. Topmost' = Whole(v, heap')
    <3>1. stack # << >>
      BY <1>1, EmptySeq, LenProperties DEF TypeOK
    <3> QED
      BY <2>1, <3>1 DEF Topmost, ContentsOf, Whole, Operand
  <2>3. Whole(v, heap') = Whole(v, heap)
    BY <1>2, <1>4, ContentsStay
  <2> QED
    BY <2>2, <2>3
<1>10. ASSUME NEW d \in Valued, d # c
       PROVE  Holding(d)' = Holding(d)
  <2> DEFINE w == CellValue(d)
  <2>1. w \in Value /\ Leads(w, heap) /\ CellValue(d)' = w
    BY <1>1, <1>10, ValuedLeads
  <2> HIDE DEF w
  <2>2. Whole(w, heap') = Whole(w, heap)
    BY <1>2, <2>1, ContentsStay
  <2> QED
    BY <2>1, <2>2, HoldingHere DEF w
<1> HIDE DEF all
<1> DEFINE store == CapturedStore
<1>11. /\ store = [d \in Valued |-> Holding(d)]
       /\ CapturedStore' = [d \in Valued \cup {c} |-> Holding(d)']
  BY StoreHere
<1> HIDE DEF store
<1>12. CapturedStore' = [d \in DOMAIN store \cup {c} |-> IF d = c THEN all ELSE store[d]]
  BY <1>8, <1>10, <1>11
<1>13. Shared!Write
  BY <1>3, <1>6, <1>9, <1>12 DEF Shared!Write, Shared!Accesses, store
<1> QED
  BY <1>13 DEF Shared!Next

(* What becomes of captured variables when a slot is set.                  *)
LEMMA SlotStored ==
  ASSUME IInv, OpenCellsOwned, PartsApart, NEW index \in Nat, index <= Len(locals),
         NEW v \in Value, locals' = SetSlot(index, v), cells' = cells
  PROVE  /\ Valued' = Valued \cup VariableAt(index)
         /\ \A d \in Valued : d \notin VariableAt(index) => CellValue(d)' = CellValue(d)
         /\ \A c \in VariableAt(index) : CellValue(c)' = v
<1> DEFINE n == Len(locals)
<1>1. /\ locals \in Seq(Value) /\ n \in Nat /\ DOMAIN locals = 1 .. n
      /\ \A c \in DOMAIN cells : cells[c].at \in Nat
  BY LenProperties DEF IInv, TypeOK, Cell
<1>2. /\ Len(locals') = IF index < n THEN n ELSE n + 1
      /\ locals'[index + 1] = v
  <2>1. CASE index < n
    <3>1. locals' = [locals EXCEPT ![index + 1] = v]
      BY <2>1 DEF SetSlot
    <3>2. index + 1 \in 1 .. n
      BY <1>1, <2>1
    <3> QED
      BY <1>1, <2>1, <3>1, <3>2, ExceptSeq
  <2>2. CASE ~(index < n)
    <3>1. locals' = Append(locals, v) /\ index = n
      BY <1>1, <2>2 DEF SetSlot
    <3> QED
      BY <1>1, <2>2, <3>1, AppendProperties
  <2> QED
    BY <2>1, <2>2
<1>3. \A c \in DOMAIN cells : cells[c].open /\ cells[c].at = index <=> c \in VariableAt(index)
  BY OpenIsVariable, VariableIs
<1>4. \A c \in DOMAIN cells : c \in Valued <=> (cells[c].open => cells[c].at < n)
  BY DEF Valued, HasValue
<1>5. \A c \in DOMAIN cells : c \in Valued' <=> (cells[c].open => cells[c].at < Len(locals'))
  BY DEF Valued, HasValue
<1>6. Valued' = Valued \cup VariableAt(index)
  <2> HIDE DEF n
  <2>1. \A c \in DOMAIN cells : c \in Valued' <=> c \in Valued \/ c \in VariableAt(index)
    BY <1>1, <1>2, <1>3, <1>4, <1>5 DEF n
  <2>2. Valued \subseteq DOMAIN cells /\ Valued' \subseteq DOMAIN cells
    BY DEF Valued
  <2>3. VariableAt(index) \subseteq DOMAIN cells
    BY DEF VariableAt
  <2> QED
    BY <2>1, <2>2, <2>3
<1>7. ASSUME NEW d \in Valued, d \notin VariableAt(index)
      PROVE  CellValue(d)' = CellValue(d)
  <2>1. d \in DOMAIN cells
    BY DEF Valued
  <2>2. cells[d].open => cells[d].at < n /\ cells[d].at # index
    BY <1>3, <1>4, <1>7, <2>1
  <2>3. cells[d].open => locals'[cells[d].at + 1] = locals[cells[d].at + 1]
    BY <1>1, <2>1, <2>2, SlotsKept
  <2> QED
    BY <2>3 DEF CellValue
<1>8. ASSUME NEW c \in VariableAt(index)
      PROVE  CellValue(c)' = v
  BY <1>2, VariableIs DEF CellValue
<1> QED
  BY <1>6, <1>7, <1>8

(* A slot is set, captured or not.                                         *)
LEMMA SlotWritten ==
  ASSUME RInv, [Next]_vars, Asks, Ins.op \in Stores, NEW index \in Nat,
         index <= Len(locals), Accessed = VariableAt(index), 0 < Len(stack),
         Replace(0, << >>), heap' = CopyOf(Operand(0))[2],
         locals' = SetSlot(index, CopyOf(Operand(0))[1]), cells' = cells
  PROVE  Shared!Next
<1>1. /\ NInv /\ HInv /\ IInv /\ TypeOK /\ OpenCellsOwned /\ PartsApart
      /\ Fetched /\ Advance
  BY DEF RInv, TInv, NInv, HInv, IInv, Asks, Replace
<1> DEFINE v == CopyOf(Operand(0))[1]
<1>2. v \in Value
  BY <1>1, OperandType, CopyType
<1>3. locals' = SetSlot(index, v) /\ v = CopyOf(Operand(0))[1]
  OBVIOUS
<1> HIDE DEF v
<1>4. /\ Valued' = Valued \cup VariableAt(index)
      /\ \A d \in Valued : d \notin VariableAt(index) => CellValue(d)' = CellValue(d)
      /\ \A c \in VariableAt(index) : CellValue(c)' = v
  BY <1>1, <1>2, <1>3, SlotStored
<1>5. CASE Accessed = {}
  <2>1. NextAccess.kind = "other" /\ ~(Asks /\ Ins.op = "StoreTupleElement")
    BY <1>5, RequestIs DEF Stores
  <2>2. Valued' = Valued /\ \A d \in Valued : CellValue(d)' = CellValue(d)
    BY <1>4, <1>5
  <2> QED
    BY <1>1, <2>1, <2>2, StoreKept, AdvanceOwners, OtherStep
<1>6. CASE Accessed # {}
  <2>1. PICK c : c \in VariableAt(index)
    BY <1>6
  <2>2. Accessed = {c} /\ VariableAt(index) = {c}
    BY <1>1, <2>1, VariableIs
  <2>3. /\ Valued' = Valued \cup {c} /\ CellValue(c)' = v
        /\ \A d \in Valued : d # c => CellValue(d)' = CellValue(d)
    BY <1>4, <2>2
  <2> QED
    BY <1>1, <1>3, <2>2, <2>3, WriteStep
<1> QED
  BY <1>5, <1>6

(* Stores in slots and through upvalues.                                   *)
LEMMA StoreRefines ==
  ASSUME RInv, [Next]_vars, StoreLocal \/ StoreGlobal \/ StoreUpvalue
  PROVE  Shared!Next
<1>1. /\ NInv /\ HInv /\ IInv /\ TypeOK /\ OpenCellsOwned /\ PartsApart
  BY DEF RInv, TInv, NInv, HInv, IInv
<1>2. /\ Asks /\ Ins.op \in Stores /\ Fetched /\ Ready(Ins)
      /\ Replace(0, << >>)
  BY DEF StoreLocal, StoreGlobal, StoreUpvalue, Can, Asks, Stores
<1>3. heap' = CopyOf(Operand(0))[2]
  BY DEF StoreLocal, StoreGlobal, StoreUpvalue
<1>4. Ins \in Instr /\ Top.localBase \in Nat /\ Ins.a \in Nat
  BY <1>1, <1>2, InsType, FrameType DEF Fetched, Live, Frame, Instr, Stores
<1>5. Len(stack) \in Nat /\ 1 <= Len(stack)
  BY <1>1, <1>2, LenProperties DEF Ready, CompareOps, Stores, TypeOK
<1>6. 0 < Len(stack)
  BY <1>5
<1>7. CASE StoreLocal
  <2> DEFINE index == Top.localBase + Ins.a
  <2>1. /\ Ins.op = "StoreLocal" /\ index <= Len(locals) /\ index \in Nat
        /\ locals' = SetSlot(index, CopyOf(Operand(0))[1]) /\ cells' = cells
    BY <1>4, <1>7 DEF StoreLocal, Can, Ready, CompareOps, Storable
  <2>2. Accessed = VariableAt(index)
    BY <2>1, AccessedIs
  <2> HIDE DEF index
  <2> QED
    BY <1>2, <1>3, <1>6, <2>1, <2>2, SlotWritten
<1>8. CASE StoreGlobal
  <2>1. /\ Ins.op = "StoreGlobal" /\ Ins.a <= Len(locals)
        /\ locals' = SetSlot(Ins.a, CopyOf(Operand(0))[1]) /\ cells' = cells
    BY <1>8 DEF StoreGlobal, Can, Ready, CompareOps, Storable
  <2>2. Accessed = VariableAt(Ins.a)
    BY <2>1, AccessedIs
  <2> QED
    BY <1>2, <1>3, <1>4, <1>6, <2>1, <2>2, SlotWritten
<1>9. CASE StoreUpvalue
  <2> DEFINE v == CopyOf(Operand(0))[1]
  <2>1. PICK u : u = Upvalue
    OBVIOUS
  <2>2. /\ Accessed = {u} /\ u \in DOMAIN cells /\ u \in Valued
        /\ cells[u].at \in Nat /\ (cells[u].open => cells[u].at < Len(locals))
    BY <1>1, <1>2, <1>9, <2>1, AccessedIs, UpvalueValued DEF StoreUpvalue, Can
  <2>3. IF cells[u].open
        THEN locals' = [locals EXCEPT ![cells[u].at + 1] = v] /\ cells' = cells
        ELSE cells' = [cells EXCEPT ![u].val = v] /\ locals' = locals
    BY <1>9, <2>1 DEF StoreUpvalue
  <2>4. v = CopyOf(Operand(0))[1]
    OBVIOUS
  <2> HIDE DEF v
  <2>5. CASE cells[u].open
    <3> DEFINE index == cells[u].at
    <3>1. index \in Nat /\ index <= Len(locals) /\ locals' = SetSlot(index, v)
      BY <2>2, <2>3, <2>5 DEF SetSlot
    <3>2. VariableAt(index) = {u}
      <4>1. u \in VariableAt(index)
        BY <1>1, <2>2, <2>5, OpenIsVariable
      <4> QED
        BY <1>1, <4>1, VariableIs
    <3>3. Accessed = VariableAt(index) /\ cells' = cells
      BY <2>2, <2>3, <2>5, <3>2
    <3> HIDE DEF index
    <3> QED
      BY <1>2, <1>3, <1>6, <2>4, <3>1, <3>3, SlotWritten
  <2>6. CASE ~cells[u].open
    <3>1. cells' = [cells EXCEPT ![u].val = v] /\ locals' = locals
      BY <2>3, <2>6
    <3>2. \A d \in DOMAIN cells : cells[d] \in Cell
      BY <1>1 DEF TypeOK
    <3>3. /\ DOMAIN cells' = DOMAIN cells
          /\ \A d \in DOMAIN cells : d # u => cells'[d] = cells[d]
          /\ cells'[u].val = v /\ ~cells'[u].open
      BY <2>2, <2>6, <3>1, <3>2 DEF Cell
    <3>4. Valued' = Valued \cup {u}
      <4>1. \A d \in DOMAIN cells : d \in Valued' <=> d \in Valued
        BY <2>2, <2>6, <3>1, <3>3 DEF Valued, HasValue
      <4>2. Valued \subseteq DOMAIN cells /\ Valued' \subseteq DOMAIN cells
        BY <3>3 DEF Valued
      <4> QED
        BY <2>2, <4>1, <4>2
    <3>5. CellValue(u)' = v /\ \A d \in Valued : d # u => CellValue(d)' = CellValue(d)
      BY <3>1, <3>3 DEF CellValue, Valued
    <3> QED
      BY <1>1, <1>2, <1>3, <1>6, <2>2, <2>4, <3>4, <3>5, WriteStep
  <2> QED
    BY <2>5, <2>6
<1> QED
  BY <1>7, <1>8, <1>9

(* Where a captured variable is kept.                                      *)
Place(c) == IF cells[c].open THEN <<"slot", cells[c].at + 1>> ELSE <<"cell", c>>

LEMMA PlacesApart ==
  ASSUME IInv, OpenCellsOwned, PartsApart
  PROVE  /\ \A c \in Valued : Place(c) \in DOMAIN Variables
                              /\ Variables[Place(c)] = CellValue(c)
         /\ \A c, d \in Valued : Place(c) = Place(d) => c = d
<1> DEFINE vs == Variables
<1>1. vs = VarsOf(locals, cells)
  BY VarsHere
<1> HIDE DEF vs
<1>2. /\ locals \in Seq(Value) /\ Len(locals) \in Nat /\ DOMAIN locals = 1 .. Len(locals)
      /\ \A c \in DOMAIN cells : cells[c].at \in Nat
  BY LenProperties DEF IInv, TypeOK, Cell
<1>3. \A c \in Valued : c \in DOMAIN cells /\ (cells[c].open => cells[c].at < Len(locals))
  BY DEF Valued, HasValue
<1>4. ASSUME NEW c \in Valued
      PROVE  Place(c) \in DOMAIN vs /\ vs[Place(c)] = CellValue(c)
  <2>1. CASE cells[c].open
    <3>1. cells[c].at + 1 \in DOMAIN locals
      BY <1>2, <1>3, <2>1
    <3> QED
      BY <1>1, <2>1, <3>1, VarsAt DEF Place, CellValue
  <2>2. CASE ~cells[c].open
    BY <1>1, <1>3, <2>2, VarsAt DEF Place, CellValue
  <2> QED
    BY <2>1, <2>2
<1>5. ASSUME NEW c \in Valued, NEW d \in Valued, Place(c) = Place(d)
      PROVE  c = d
  <2>1. cells[c].open <=> cells[d].open
    BY <1>5 DEF Place
  <2>2. CASE cells[c].open
    <3>1. cells[c].at + 1 = cells[d].at + 1
      BY <1>5, <2>1, <2>2 DEF Place
    <3>2. cells[c].at = cells[d].at
      BY <1>2, <1>3, <3>1
    <3> QED
      BY <1>3, <2>1, <2>2, <3>2, OneCell
  <2>3. CASE ~cells[c].open
    BY <1>5, <2>1, <2>3 DEF Place
  <2> QED
    BY <2>2, <2>3
<1> QED
  BY <1>4, <1>5 DEF vs

(* Setting an element of a tuple changes one captured variable or none:    *)
(* no two hold the same tuple.                                             *)
LEMMA AmendRefines ==
  ASSUME RInv, [Next]_vars, StoreElement, Can("StoreTupleElement")
  PROVE  Shared!Next
<1>1. /\ NInv /\ HInv /\ IInv /\ TypeOK /\ OpenCellsOwned /\ PartsApart
      /\ heap \in Store /\ ElemsLead(heap) /\ Nested(heap)
  BY HeapStore DEF RInv, TInv, NInv, HInv, IInv, HandlesLead
<1>2. /\ Fetched /\ Ins.op = "StoreTupleElement" /\ Asks /\ Ins.op # "PushInt"
      /\ 1 < Len(stack) /\ Operand(0).v \in DOMAIN heap
  BY <1>1, LenProperties DEF Can, Ready, CompareOps, IsTuple, Asks, TypeOK
<1>3. Ins.a \in Nat
  BY <1>1, <1>2, InsType DEF Instr
<1> DEFINE v == Operand(1)
           o == Operand(0).v
           c == CopyOf(v)
           e == Len(heap')
<1>4. heap' = WriteElement(c[2], o, Ins.a, c[1]) /\ UNCHANGED <<locals, cells>> /\ Advance
  BY DEF StoreElement, Replace
<1>5. v \in Value /\ Leads(v, heap)
  BY <1>1, <1>2, OperandLeads
<1> HIDE DEF v, o
<1>6. /\ c[1] \in Value /\ c[2] \in Store /\ Extends(heap, c[2])
      /\ DOMAIN heap \subseteq DOMAIN c[2] /\ o \in DOMAIN heap
  BY <1>1, <1>2, <1>5, StoredCopy DEF o
<1> HIDE DEF c
<1>7. OneWritten(c[2], heap', o, Ins.a + 1, c[1])
  BY <1>3, <1>4, <1>6, ElementWritten
<1>8. \A p \in DOMAIN heap : p # o => p \in DOMAIN heap' /\ heap'[p].elems = heap[p].elems
  BY <1>6, <1>7 DEF OneWritten, Extends
<1>9. heap' \in Store /\ e \in Nat /\ Len(heap) <= e
  BY <1>1, <1>6, <1>7, NextHeap DEF OneWritten, Extends
<1>10. ASSUME NEW w \in Value, Leads(w, heap), o \notin TuplesIn[e][<<w, heap>>]
       PROVE  Whole(w, heap') = Whole(w, heap)
  <2> DEFINE T == TuplesIn[e][<<w, heap>>]
             d == e
  <2>1. \A p \in T : p \in DOMAIN heap
    BY <1>1, <1>9, <1>10, TuplesInHere
  <2>2. SameElems(T, heap, heap')
    BY <1>8, <1>10, <2>1 DEF SameElems
  <2>3. d \in Nat /\ Len(heap) <= d /\ SameElems(TuplesIn[d][<<w, heap>>], heap, heap')
    BY <1>9, <2>2
  <2>4. Whole(w, heap') = Contents[d][<<w, heap'>>]
    BY DEF Whole
  <2> HIDE DEF d, e
  <2>5. Contents[d][<<w, heap'>>] = Contents[d][<<w, heap>>]
    BY <1>1, <1>9, <1>10, <2>3, ContentsUntouched
  <2>6. Contents[d][<<w, heap>>] = Whole(w, heap)
    BY <1>1, <1>10, <2>3, WholeIsDeepEnough
  <2> QED
    BY <2>4, <2>5, <2>6
<1>11. Valued' = Valued /\ \A d \in Valued : CellValue(d)' = CellValue(d)
  BY <1>4 DEF Valued, HasValue, CellValue
<1>12. ASSUME NEW d \in Valued, Holding(d)' # Holding(d)
       PROVE  o \in TuplesIn[e][<<CellValue(d), heap>>]
  <2> DEFINE w == CellValue(d)
  <2>1. w \in Value /\ Leads(w, heap) /\ CellValue(d)' = w
    BY <1>1, <1>11, <1>12, ValuedLeads
  <2>2. Holding(d)' = Whole(CellValue(d)', heap') /\ Holding(d) = Whole(w, heap)
    BY HoldingHere
  <2> HIDE DEF w, e
  <2>3. Holding(d)' = Whole(w, heap')
    BY <2>1, <2>2
  <2>4. o \in TuplesIn[e][<<w, heap>>]
    BY <1>10, <1>12, <2>1, <2>2, <2>3
  <2> QED
    BY <2>4 DEF w
<1>13. PICK S, at : Forest(S, at, Variables, heap)
  BY DEF RInv, TInv, TuplesHeldOnce
<1>14. \A x, y \in DOMAIN Variables : x # y =>
         TuplesIn[e][<<Variables[x], heap>>] \cap TuplesIn[e][<<Variables[y], heap>>] = {}
  <2> DEFINE vs == Variables
  <2>1. \A x \in DOMAIN vs : vs[x] \in Value /\ Leads(vs[x], heap)
    BY <1>1, VariablesLead
  <2>2. Forest(S, at, vs, heap)
    BY <1>13
  <2> HIDE DEF vs, e
  <2>3. \A x, y \in DOMAIN vs : x # y =>
          TuplesIn[e][<<vs[x], heap>>] \cap TuplesIn[e][<<vs[y], heap>>] = {}
    BY <1>1, <1>9, <2>1, <2>2, ForestApart
  <2> QED
    BY <2>3 DEF vs
<1> HIDE DEF e
<1>15. ASSUME NEW d \in Valued, NEW f \in Valued,
              Holding(d)' # Holding(d), Holding(f)' # Holding(f)
       PROVE  d = f
  <2>1. /\ o \in TuplesIn[e][<<CellValue(d), heap>>]
        /\ o \in TuplesIn[e][<<CellValue(f), heap>>]
    BY <1>12, <1>15
  <2>2. /\ Place(d) \in DOMAIN Variables /\ Variables[Place(d)] = CellValue(d)
        /\ Place(f) \in DOMAIN Variables /\ Variables[Place(f)] = CellValue(f)
        /\ Place(d) = Place(f) => d = f
    BY <1>1, <1>15, PlacesApart
  <2>3. Place(d) = Place(f)
    BY <1>14, <2>1, <2>2
  <2> QED
    BY <2>2, <2>3
<1>16. NextAccess.kind = "amend" /\ CapturedBy' = CapturedBy
  BY <1>1, <1>2, <1>4, RequestIs, AdvanceOwners
<1>17. /\ DOMAIN CapturedStore = Valued /\ DOMAIN CapturedStore' = Valued
       /\ \A d \in Valued : CapturedStore[d] = Holding(d) /\ CapturedStore'[d] = Holding(d)'
  BY <1>11, StoreHere
<1>18. Shared!Amend
  BY <1>15, <1>16, <1>17 DEF Shared!Amend
<1> QED
  BY <1>18 DEF Shared!Next

(* A closure captures variables that none captured before.                 *)
LEMMA CaptureRefines ==
  ASSUME RInv, [Next]_vars, MakeClosure
  PROVE  Shared!Next
<1>1. NInv /\ IInv /\ OpenCellsOwned
  BY DEF RInv, TInv, NInv, HInv
<1>2. Asks /\ Ins.op = "MakeClosure"
  BY DEF MakeClosure, Can, Asks
<1>3. CapturesInv'
  BY <1>1, NextInv DEF IInv
<1>4. /\ DOMAIN frames' = DOMAIN frames /\ locals' = locals
      /\ \A i \in DOMAIN frames : frames[i].captures \subseteq frames'[i].captures
      /\ DOMAIN cells \subseteq DOMAIN cells'
      /\ \A c \in DOMAIN cells : cells'[c] = cells[c]
      /\ \A c \in DOMAIN cells' \ DOMAIN cells :
           \E i \in DOMAIN frames : c \in frames'[i].captures
  BY <1>1, ClosureFrames
<1> DEFINE old == CapturedBy
           new == CapturedBy'
<1>5. /\ DOMAIN old = DOMAIN frames /\ Len(old) = Len(frames)
      /\ \A i \in DOMAIN frames : old[i] = frames[i].captures
      /\ \A i \in DOMAIN frames : old[i] \subseteq DOMAIN cells
      /\ Len(frames) \in Nat /\ DOMAIN frames = 1 .. Len(frames)
  BY <1>1, OwnersHere, EachFrame DEF IInv
<1>6. /\ DOMAIN new = DOMAIN frames /\ Len(new) = Len(frames')
      /\ \A i \in DOMAIN frames : new[i] = frames'[i].captures
      /\ Len(frames') \in Nat /\ DOMAIN frames' = 1 .. Len(frames')
  BY <1>1, <1>4, NextOwners
<1>7. Len(new) = Len(old)
  <2> DEFINE m == Len(frames)
             n == Len(frames')
  <2>1. m \in Nat /\ n \in Nat /\ 1 .. m = 1 .. n
    BY <1>4, <1>5, <1>6
  <2> HIDE DEF m, n
  <2>2. m = n
    BY <2>1
  <2> QED
    BY <1>5, <1>6, <2>2 DEF m, n
<1> HIDE DEF old, new
<1>8. \A i, j \in DOMAIN frames : i # j => new[i] \cap new[j] = {}
  BY <1>3, <1>4, <1>6 DEF CapturesInv
<1>9. ASSUME NEW i \in DOMAIN frames, NEW c \in new[i] \ old[i]
      PROVE  c \notin DOMAIN cells
  <2> SUFFICES ASSUME c \in DOMAIN cells PROVE FALSE
    OBVIOUS
  <2>1. cells'[c].open
    BY <1>3, <1>4, <1>6, <1>9 DEF CapturesInv
  <2>2. PICK j \in DOMAIN frames : c \in old[j]
    BY <1>1, <1>4, <1>5, <2>1 DEF OpenCellsOwned
  <2>3. c \in new[j] /\ j # i
    BY <1>4, <1>5, <1>6, <1>9, <2>2
  <2> QED
    BY <1>8, <1>9, <2>3
<1>10. \A c \in DOMAIN cells : c \in Valued' <=> c \in Valued
  BY <1>4 DEF Valued, HasValue
<1>11. Valued \subseteq DOMAIN cells /\ Valued' \subseteq DOMAIN cells'
  BY DEF Valued
<1>12. ASSUME NEW c \in Valued
       PROVE  Holding(c)' = Holding(c)
  <2> DEFINE w == CellValue(c)
  <2>1. CellValue(c)' = w
    BY <1>4, <1>11, <1>12 DEF CellValue
  <2>2. w \in Value /\ Leads(w, heap)
    BY <1>1, <1>12, ValuedLeads DEF NInv
  <2>3. Holding(c)' = Whole(CellValue(c)', heap') /\ Holding(c) = Whole(w, heap)
    BY HoldingHere
  <2> HIDE DEF w
  <2>4. Whole(w, heap') = Whole(w, heap)
    BY <1>1, <1>2, <2>2, ContentsStay
  <2> QED
    BY <2>1, <2>3, <2>4
<1>13. /\ DOMAIN CapturedStore = Valued /\ DOMAIN CapturedStore' = Valued'
       /\ \A c \in Valued : CapturedStore[c] = Holding(c)
       /\ \A c \in Valued' : CapturedStore'[c] = Holding(c)'
  BY StoreHere
<1> DEFINE owned == UNION {old[i] : i \in DOMAIN old}
           owns == UNION {new[i] : i \in DOMAIN new}
<1>14. owned \subseteq DOMAIN cells
  BY <1>5
<1>15. Valued' \ Valued \subseteq owns \ owned
  <2> SUFFICES ASSUME NEW c \in Valued' \ Valued PROVE c \in owns \ owned
    OBVIOUS
  <2>1. c \notin DOMAIN cells /\ c \in DOMAIN cells'
    BY <1>10, <1>11
  <2>2. PICK i \in DOMAIN frames : c \in frames'[i].captures
    BY <1>4, <2>1
  <2>3. c \in owns
    BY <1>6, <2>2
  <2> QED
    BY <1>14, <2>1, <2>3
<1>16. Shared!Owned = owned /\ Shared!Owned' = owns
  BY DEF Shared!Owned, old, new
<1> HIDE DEF owned, owns
<1>17. /\ Len(new) = Len(old)
       /\ \A i \in DOMAIN old : old[i] \subseteq new[i]
       /\ \A i \in DOMAIN old : (new[i] \ old[i]) \cap (Valued \cup owned) = {}
       /\ \A i, j \in DOMAIN old : i # j => new[i] \cap new[j] = {}
  BY <1>4, <1>5, <1>6, <1>7, <1>8, <1>9, <1>11, <1>14
<1>18. /\ Valued \subseteq Valued'
       /\ \A c \in Valued : CapturedStore'[c] = CapturedStore[c]
  BY <1>10, <1>11, <1>12, <1>13
<1>19. NextAccess.kind = "capture"
  BY <1>2, RequestIs
<1>20. Shared!Capture
  BY <1>13, <1>15, <1>16, <1>17, <1>18, <1>19 DEF Shared!Capture, old, new
<1> QED
  BY <1>20 DEF Shared!Next

(* A call puts a function on top that owns nothing; what the caller        *)
(* captured has values, so no argument becomes one.                        *)
LEMMA EnterRefines ==
  ASSUME RInv, CapturesHaveValues, [Next]_vars, Call
  PROVE  Shared!Next
<1>1. NInv /\ IInv /\ TypeOK /\ OpenCellsOwned /\ PartsApart
  BY DEF RInv, TInv, NInv, HInv, IInv
<1>2. /\ DOMAIN frames' = 1 .. Len(frames) + 1
      /\ \A i \in DOMAIN frames : frames'[i].captures = frames[i].captures
      /\ frames'[Len(frames) + 1].captures = {}
      /\ cells' = cells /\ Fetched /\ Ins.op = "Call"
  BY <1>1, CallFrames
<1>3. PICK args \in Seq(Value) : locals' = locals \o args
  BY <1>1, CallFrames
<1>4. /\ locals \in Seq(Value) /\ Len(locals) \in Nat
      /\ \A i \in DOMAIN frames : /\ frames[i].localBase \in Nat
                                  /\ \A c \in frames[i].captures : cells[c].at \in Nat
      /\ DOMAIN frames = 1 .. Len(frames) /\ Len(frames) \in Nat
  BY <1>1, FramesHere
<1>5. ~Asks /\ NextAccess.kind = "other"
  BY <1>2, RequestIs DEF Asks, Loads, Stores
<1>6. ASSUME NEW c \in DOMAIN cells, cells[c].open
      PROVE  cells[c].at < Len(locals)
  <2>1. PICK i \in DOMAIN frames : c \in frames[i].captures
    BY <1>1, <1>6 DEF OpenCellsOwned
  <2>2. CASE i = Len(frames)
    BY <1>2, <2>1, <2>2 DEF CapturesHaveValues, Top
  <2>3. CASE i < Len(frames)
    <3> DEFINE j == Len(frames)
    <3>1. j \in DOMAIN frames /\ i < j
      BY <1>4, <2>1, <2>3
    <3>2. cells[c].at < frames[j].localBase /\ frames[j].localBase <= Len(locals)
      BY <1>1, <2>1, <3>1 DEF PartsApart
    <3> QED
      BY <1>4, <2>1, <3>1, <3>2
  <2> QED
    BY <1>4, <2>1, <2>2, <2>3
<1>7. Len(locals') >= Len(locals) /\ Len(locals') \in Nat
  BY <1>3, <1>4, ConcatProperties, LenProperties
<1>8. Valued = DOMAIN cells /\ Valued' = DOMAIN cells
  <2>1. \A c \in DOMAIN cells : cells[c].open =>
          cells[c].at \in Nat /\ cells[c].at < Len(locals)
    BY <1>1, <1>6 DEF TypeOK, Cell
  <2>2. \A c \in DOMAIN cells : cells[c].open => cells[c].at < Len(locals')
    BY <1>4, <1>7, <2>1
  <2> QED
    BY <1>2, <2>1, <2>2 DEF Valued, HasValue
<1>9. \A c \in Valued : CellValue(c)' = CellValue(c)
  <2>1. \A c \in DOMAIN cells : ~Writes(c)
    <3>1. \A c \in DOMAIN cells : cells[c].at \in Nat
      BY <1>1 DEF TypeOK, Cell
    <3>2. \A c \in DOMAIN cells : cells[c].at # -1
      BY <3>1
    <3> QED
      BY <1>2, <3>2 DEF Writes
  <2> QED
    BY <1>1, <1>6, <1>8, <2>1, ValueStep
<1>10. CapturedStore' = CapturedStore
  BY <1>1, <1>5, <1>8, <1>9, StoreKept
<1> DEFINE old == CapturedBy
           new == CapturedBy'
           n == Len(frames)
<1>11. /\ DOMAIN old = 1 .. n /\ Len(old) = n /\ n \in Nat
       /\ \A i \in 1 .. n : old[i] = frames[i].captures
       /\ old \in Seq(SUBSET DOMAIN cells)
  BY <1>1, OwnersHere
<1>12. /\ new = [i \in DOMAIN frames' |-> frames'[i].captures]
  BY <1>1, NextOwners
<1>13. /\ DOMAIN frames' = 1 .. n + 1
       /\ \A i \in 1 .. n : frames'[i].captures = frames[i].captures
       /\ frames'[n + 1].captures = {}
  BY <1>2, <1>4
<1> HIDE DEF old, new, n
<1>14. \A i \in 1 .. n + 1 : i # n + 1 => i \in 1 .. n
  BY <1>11
<1>15. /\ DOMAIN new = 1 .. n + 1
       /\ \A i \in 1 .. n + 1 : new[i] = IF i = n + 1 THEN {} ELSE old[i]
  <2>1. DOMAIN new = 1 .. n + 1 /\ \A i \in 1 .. n + 1 : new[i] = frames'[i].captures
    BY <1>12, <1>13
  <2>2. \A i \in 1 .. n : new[i] = old[i]
    <3>1. \A i \in 1 .. n : i \in 1 .. n + 1
      BY <1>11
    <3> QED
      BY <1>11, <1>13, <2>1, <3>1
  <2>3. new[n + 1] = {}
    <3>1. n + 1 \in 1 .. n + 1
      BY <1>11
    <3> QED
      BY <1>13, <2>1, <3>1
  <2> QED
    BY <1>14, <2>1, <2>2, <2>3
<1>16. Append(old, {}) = [i \in 1 .. n + 1 |-> IF i = n + 1 THEN {} ELSE old[i]]
  <2> DEFINE cs == SUBSET DOMAIN cells
  <2>1. old \in Seq(cs) /\ {} \in cs
    BY <1>11
  <2> HIDE DEF cs
  <2>2. /\ Append(old, {}) \in Seq(cs) /\ Len(Append(old, {})) = n + 1
        /\ \A i \in 1 .. n : Append(old, {})[i] = old[i]
        /\ Append(old, {})[n + 1] = {}
    BY <1>11, <2>1, AppendProperties
  <2>3. ASSUME NEW S, NEW q \in Seq(S)
        PROVE  q = [i \in 1 .. Len(q) |-> q[i]]
    BY <2>3
  <2>4. Append(old, {}) = [i \in 1 .. n + 1 |-> Append(old, {})[i]]
    BY <2>2, <2>3
  <2> QED
    BY <1>14, <2>2, <2>4
<1>17. new = [i \in 1 .. n + 1 |-> new[i]]
  BY <1>12, <1>13
<1>18. [i \in 1 .. n + 1 |-> new[i]] = [i \in 1 .. n + 1 |-> IF i = n + 1 THEN {} ELSE old[i]]
  BY <1>15
<1>19. CapturedBy' = Append(CapturedBy, {})
  BY <1>16, <1>17, <1>18 DEF old, new
<1> QED
  BY <1>5, <1>10, <1>19 DEF Shared!Next, Shared!Enter

(* A return closes what the function captured, and the slots it drops are  *)
(* above what the functions below captured: every variable keeps its value *)
(* and the topmost owner goes.                                             *)
LEMMA ReturnRefines ==
  ASSUME RInv, [Next]_vars, Return
  PROVE  Shared!Next
<1>1. NInv /\ IInv /\ TypeOK /\ OpenCellsOwned /\ PartsApart
  BY DEF RInv, TInv, NInv, HInv, IInv
<1> DEFINE m == Len(frames)
           base == Top.localBase
<1>2. /\ DOMAIN frames = 1 .. m /\ m \in Nat \ {0} /\ DOMAIN frames' = 1 .. m - 1
      /\ \A i \in DOMAIN frames' : frames'[i] = frames[i]
      /\ DOMAIN cells' = DOMAIN cells
      /\ \A c \in DOMAIN cells : /\ Closes(c) => ~cells'[c].open
                                 /\ ~Closes(c) => cells'[c] = cells[c]
  BY <1>1, ReturnFrames
<1>3. /\ locals \in Seq(Value) /\ Len(locals) \in Nat
      /\ \A i \in DOMAIN frames : /\ frames[i].localBase \in Nat
                                  /\ \A c \in frames[i].captures : cells[c].at \in Nat
  BY <1>1, FramesHere
<1>4. /\ AtEnd /\ Closable /\ locals' = Truncate(locals, base)
      /\ frames' = SubSeq(frames, 1, m - 1) /\ ~Fetched
  <2>1. AtEnd /\ Closable /\ locals' = Truncate(locals, base)
        /\ frames' = SubSeq(frames, 1, m - 1)
    BY DEF Return
  <2>2. Len(Code) \in Nat /\ Top.pc \in Nat
    <3>1. Top \in Frame(FuncIds, DOMAIN cells)
      BY <1>1, <2>1, FrameType DEF AtEnd, Live
    <3>2. Code \in Seq(Instr) /\ Top.pc \in Nat
      BY <1>1, <3>1, FunType DEF Code, Frame, Function
    <3> QED
      BY <3>2, LenProperties
  <2>3. Top.pc >= Len(Code)
    BY <2>1 DEF AtEnd
  <2> HIDE DEF m, base
  <2> QED
    BY <2>1, <2>2, <2>3 DEF Fetched
<1>5. base \in Nat /\ base <= Len(locals) /\ m \in DOMAIN frames
  <2>1. m \in DOMAIN frames
    BY <1>2
  <2> QED
    BY <1>1, <1>3, <2>1 DEF PartsApart, Top
<1>6. Len(locals') = base
  <2> DEFINE n == IF base < Len(locals) THEN base ELSE Len(locals)
  <2>1. n = base /\ n \in Int /\ n <= Len(locals)
    BY <1>3, <1>5
  <2>2. locals' = SubSeq(locals, 1, n)
    BY <1>4 DEF Truncate
  <2> HIDE DEF n
  <2>3. Len(locals') = IF 1 <= n THEN n ELSE 0
    BY <1>3, <2>1, <2>2, PrefixType
  <2> QED
    BY <1>5, <2>1, <2>3
<1>7. ASSUME NEW c \in DOMAIN cells, cells[c].open, ~Closes(c)
      PROVE  cells[c].at < base
  <2>1. PICK i \in DOMAIN frames : c \in frames[i].captures
    BY <1>1, <1>7 DEF OpenCellsOwned
  <2>2. i # m
    BY <1>7, <2>1 DEF Closes, Top
  <2>3. i < m
    BY <1>2, <2>1, <2>2
  <2> QED
    BY <1>1, <1>5, <2>1, <2>3 DEF PartsApart, Top
<1>8. \A c \in DOMAIN cells : HasValue(c)
  <2>1. ASSUME NEW c \in DOMAIN cells, cells[c].open
        PROVE  cells[c].at < Len(locals)
    <3>1. CASE Closes(c)
      BY <1>4, <2>1, <3>1 DEF Closable, Closes
    <3>2. CASE ~Closes(c)
      <4>1. cells[c].at < base /\ cells[c].at \in Nat
        BY <1>1, <1>7, <2>1, <3>2 DEF TypeOK, Cell
      <4> QED
        BY <1>3, <1>5, <4>1
    <3> QED
      BY <3>1, <3>2
  <2> QED
    BY <2>1 DEF HasValue
<1>9. Valued = DOMAIN cells /\ Valued' = DOMAIN cells
  <2>1. ASSUME NEW c \in DOMAIN cells, cells'[c].open
        PROVE  cells'[c].at < Len(locals')
    BY <1>2, <1>6, <1>7, <2>1
  <2> QED
    BY <1>2, <1>8, <2>1 DEF Valued, HasValue
<1>10. \A c \in Valued : CellValue(c)' = CellValue(c)
  <2>1. \A c \in DOMAIN cells : ~Writes(c)
    BY <1>4 DEF Writes
  <2> QED
    BY <1>1, <1>8, <1>9, <2>1, ValueStep DEF HasValue
<1>11. ~Asks
  BY <1>4 DEF Asks
<1>12. SameCaptures
  <2>1. frames \in Seq(Frame(FuncIds, DOMAIN cells)) /\ m - 1 \in Int /\ m - 1 <= Len(frames)
    BY <1>1, <1>2 DEF TypeOK
  <2>2. /\ frames' \in Seq(Frame(FuncIds, DOMAIN cells))
        /\ Len(frames') = IF 1 <= m - 1 THEN m - 1 ELSE 0
    BY <1>4, <2>1, PrefixType
  <2> DEFINE k == Len(frames')
  <2>3. k = IF 1 <= m - 1 THEN m - 1 ELSE 0
    BY <2>2
  <2>4. m \in Nat \ {0} /\ Len(frames) = m
    BY <1>2
  <2> HIDE DEF m, k
  <2>5. k = m - 1 /\ k <= m
    BY <2>3, <2>4
  <2>6. \A i \in 1 .. k : frames'[i] = frames[i]
    BY <1>2, <2>5
  <2> QED
    BY <2>2, <2>4, <2>5, <2>6 DEF k, SameCaptures
<1> QED
  BY <1>1, <1>9, <1>10, <1>11, <1>12, StoreKept, OwnersKept, RequestIs, OtherStep

-----------------------------------------------------------------------------
(* The machine, as the store.                                              *)

(* The mapping reads nothing but the machine's state.                      *)
LEMMA MappingStays ==
  ASSUME UNCHANGED vars
  PROVE  UNCHANGED Shared!vars
<1>1. /\ program' = program /\ stack' = stack /\ locals' = locals /\ frames' = frames
      /\ heap' = heap /\ cells' = cells /\ status' = status
  BY DEF vars
<1>2. Top' = Top /\ Code' = Code /\ Ins' = Ins
  BY <1>1 DEF Top, Code, Ins, Fun
<1>3. Upvalue' = Upvalue /\ Accessed' = Accessed
  BY <1>1, <1>2 DEF Upvalue, Accessed, VariableAt
<1>4. CapturedStore' = CapturedStore /\ CapturedBy' = CapturedBy
  BY <1>1 DEF CapturedStore, CapturedBy, HasValue, CellValue, ContentsOf
<1>5. Topmost' = Topmost
  BY <1>1 DEF Topmost, ContentsOf, Operand
<1>6. Fetched' = Fetched
  BY <1>1, <1>2 DEF Fetched, Live
<1>7. ASSUME NEW i
      PROVE  Ready(i)' = Ready(i)
  BY <1>1, <1>2 DEF Ready, Operand, Operands, Storable, IsObj, IsText, Fetchable, IsTuple,
                    Printable, IsCallee, ClassMethod, FuncIds
<1>8. Ready(Ins)' = Ready(Ins)
  BY <1>2, <1>7
<1>9. ContentsOf(Void)' = ContentsOf(Void)
  BY <1>1 DEF ContentsOf
<1>10. NextAccess' = NextAccess
  BY <1>2, <1>3, <1>5, <1>6, <1>8, <1>9 DEF NextAccess
<1> QED
  BY <1>4, <1>5, <1>10 DEF Shared!vars

(* Every step of the machine is one of the store.                          *)
LEMMA NextRefines ==
  ASSUME RInv, CapturesHaveValues, Next
  PROVE  Shared!Next
<1>1. [Next]_vars
  OBVIOUS
<1>2. CASE LoadLocal \/ LoadGlobal \/ LoadUpvalue
  BY <1>1, <1>2, LoadRefines
<1>3. CASE StoreLocal \/ StoreGlobal \/ StoreUpvalue
  BY <1>1, <1>3, StoreRefines
<1>4. CASE StoreElement /\ Can("StoreTupleElement")
  BY <1>1, <1>4, AmendRefines
<1>5. CASE MakeClosure
  BY <1>1, <1>5, CaptureRefines
<1>6. CASE Call
  BY <1>1, <1>6, EnterRefines
<1>7. CASE Return
  BY <1>1, <1>7, ReturnRefines
<1>8. CASE ~Asks
  BY <1>1, <1>6, <1>7, <1>8, QuietRefines
<1>9. CASE StoreElement /\ ~Can("StoreTupleElement")
  BY <1>8, <1>9 DEF StoreElement, Can, Asks, Loads, Stores
<1>10. CASE PushConst \/ PushString \/ PushMethod \/ MakeOption \/ MakeTuple \/ MakeArray
              \/ MakeObject \/ LoadElement
  BY <1>8, <1>10 DEF PushConst, ConstOps, PushString, PushMethod, MakeOption, MakeTuple,
                     MakeArray, MakeObject, LoadElement, Can, Asks, Loads, Stores
<1>11. CASE LoadArrayElement \/ StoreArrayElement \/ ArithOp \/ Div \/ Neg \/ Not \/ Dup
              \/ Pop \/ Compare \/ Jmp
  BY <1>8, <1>11 DEF LoadArrayElement, StoreArrayElement, ArithOp, Div, Neg, Not, Dup, Pop,
                     Compare, CompareOps, Jmp, Can, Asks, Loads, Stores
<1>12. CASE CallNative \/ ToText \/ Concat \/ Cast \/ LenOp \/ Unwrap
  BY <1>8, <1>12 DEF CallNative, ToText, Concat, Cast, LenOp, Unwrap, Can, Asks, Loads, Stores
<1>13. CASE Panic \/ Finish \/ Ended
  BY <1>8, <1>13 DEF Panic, Stuck, Finish, Ended, Fetched, Live, Asks
<1> QED
  BY <1>2, <1>3, <1>4, <1>5, <1>6, <1>7, <1>9, <1>10, <1>11, <1>12, <1>13 DEF Next

(* The machine starts with nothing captured.                               *)
LEMMA InitRefines ==
  ASSUME Init
  PROVE  RInv /\ Shared!Init
<1>1. TInv /\ IInv
  BY InitApart, InitInv
<1>2. OpenCellsOwned
  BY DEF Init, OpenCellsOwned
<1>3. PartsApart
  BY <1>1, FramesHere DEF Init, PartsApart, NewFrame
<1>4. CapturedStore = << >>
  <2>1. DOMAIN cells = {}
    BY DEF Init
  <2> QED
    BY <2>1 DEF CapturedStore
<1>5. CapturedBy = << {} >>
  <2> DEFINE f == NewFrame(program.entry, 0, 0, << >>)
  <2>1. f.captures = {}
    BY DEF NewFrame
  <2>2. frames = << f >>
    BY DEF Init
  <2> HIDE DEF f
  <2>3. DOMAIN frames = {1} /\ frames[1] = f
    BY <2>2
  <2>4. CapturedBy = [i \in {1} |-> {}]
    BY <2>1, <2>3 DEF CapturedBy
  <2>5. << {} >> = [i \in {1} |-> {}]
    OBVIOUS
  <2> QED
    BY <2>4, <2>5
<1> QED
  BY <1>1, <1>2, <1>3, <1>4, <1>5 DEF RInv, Shared!Init

(* Slots and cells, closed as functions return, implement the store that   *)
(* closures are promised, whatever bytecode runs: a read of a captured     *)
(* variable yields what was last written, through whichever closure or by  *)
(* the function itself, and an element set in the tuple of one changes no  *)
(* other.  Assumed of the program: a failure unwinds no function that      *)
(* captured, what is captured has a value before a call goes above it, and *)
(* no tuple is passed to a function, for arguments are not copied.         *)
THEOREM ClosuresImplementStore ==
  Spec /\ CapturersNotUnwound /\ []CapturesHaveValues /\ []NoTuplesPassed
    => ClosuresShareVariables
<1>1. Init => RInv /\ Shared!Init
  BY InitRefines
<1>2. RInv /\ CapturesHaveValues /\ NoTuplesPassed /\ [Next]_vars /\ [UnwindsNone]_vars
        => RInv'
  <2> SUFFICES ASSUME RInv, CapturesHaveValues, NoTuplesPassed, [Next]_vars,
                      [UnwindsNone]_vars
               PROVE  RInv'
    OBVIOUS
  <2>1. TInv /\ IInv /\ OpenCellsOwned /\ PartsApart
    BY DEF RInv, TInv, NInv, HInv
  <2>2. TInv'
    BY <2>1, NextTInv
  <2>3. OpenCellsOwned' /\ PartsApart'
    BY <2>1, OwnedStep, PartsStep
  <2> QED
    BY <2>2, <2>3 DEF RInv
<1>3. RInv /\ CapturesHaveValues /\ [Next]_vars => [Shared!Next]_(Shared!vars)
  BY NextRefines, MappingStays
<1> QED
  BY <1>1, <1>2, <1>3, PTL DEF Spec, CapturersNotUnwound, ClosuresShareVariables, Shared!Spec
=============================================================================
