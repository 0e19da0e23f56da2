--------------------------- MODULE StackDiscipline ---------------------------
(***************************************************************************)
(* What the machine takes for granted of its bytecode.  All frames share   *)
(* one operand stack and vm/mod.rs never looks where a frame's operands    *)
(* begin: it pops what is there.  That no function takes an operand of its *)
(* caller, and that every call leaves a result, is up to the generator.    *)
(*                                                                         *)
(* Balanced and Capped say what bytecode has to be like for that, by       *)
(* looking at the code only: how few and how many operands a frame may     *)
(* hold at each pc, whichever way it came there.                           *)
(***************************************************************************)
EXTENDS VerseVm

(* The operands an instruction uses, and those it leaves in their place.   *)
Takes(i) ==
  CASE i.op \in {"Dup", "Pop", "MakeOption", "PushMethod", "StoreLocal", "StoreGlobal",
                 "StoreUpvalue", "LoadTupleElement", "LoadObjectField", "Neg", "Not",
                 "ToString", "Cast", "Len", "Unwrap"} -> 1
    [] i.op \in {"Add", "Sub", "Mul", "Div", "LoadArrayElement", "StoreTupleElement",
                 "StoreObjectField"} \cup CompareOps -> 2
    [] i.op = "StoreArrayElement" -> 3
    [] i.op \in {"MakeTuple", "MakeArray"} -> i.b
    [] i.op = "MakeObject" -> i.b + i.c
    [] i.op = "Concat" -> i.a
    [] i.op = "Call" -> i.a + 1
    [] OTHER -> 0

Leaves(i) == CASE i.op \in {"Pop", "Jmp"} -> 0 [] i.op = "Dup" -> 2 [] OTHER -> 1

MayFail == CompareOps \cup {"Div", "LoadArrayElement", "StoreArrayElement",
                            "Cast", "Unwrap"}

-----------------------------------------------------------------------------
(* The ways on from a pc: to the next instruction with net operands more,  *)
(* or, if the instruction or what it calls fails, to a handler with what   *)
(* the instruction left, cut to the handler's depth.                       *)

Handlers(fun, pc) ==
  IF fun.code[pc + 1].op \notin MayFail \cup {"Call"} THEN {}
  ELSE {h \in DOMAIN fun.handlers :
          fun.handlers[h].start <= pc + 1 /\ pc + 1 < fun.handlers[h].stop}

Onward(i, pc) == IF i.op = "Jmp" THEN i.a ELSE pc + 1

Least(m, n) == IF m <= n THEN m ELSE n

(* Each way with where it leads and, for n operands at pc, the least and   *)
(* the greatest number there.                                              *)
Ways(fun, pc, n) ==
  LET i == fun.code[pc + 1]
      m == n - Takes(i)
  IN  {[to |-> Onward(i, pc), least |-> m + Leaves(i), most |-> m + Leaves(i)]}
        \cup {[to |-> fun.handlers[h].target, least |-> Least(m, fun.handlers[h].depth),
               most |-> fun.handlers[h].depth] : h \in Handlers(fun, pc)}

(* d[pc + 1] operands are enough at pc, and as many are there on every way.*)
Floored(fun, d) ==
  /\ d \in Seq(Nat) /\ Len(d) = Len(fun.code) + 1 /\ d[1] = 0
  /\ \A pc \in 0 .. Len(fun.code) - 1 :
       /\ Takes(fun.code[pc + 1]) <= d[pc + 1]
       /\ \A w \in Ways(fun, pc, d[pc + 1]) : w.to <= Len(fun.code) /\ d[w.to + 1] <= w.least

(* On no way are there more than d[pc + 1] operands at pc, and where a     *)
(* test starts no more than its handler keeps.                             *)
Ceiled(fun, d) ==
  /\ d \in Seq(Nat) /\ Len(d) = Len(fun.code) + 1
  /\ \A pc \in 0 .. Len(fun.code) - 1 :
       \A w \in Ways(fun, pc, d[pc + 1]) : w.to <= Len(fun.code) /\ w.most <= d[w.to + 1]
  /\ \A h \in DOMAIN fun.handlers :
       fun.handlers[h].start < Len(fun.code)
         => d[fun.handlers[h].start + 1] <= fun.handlers[h].depth

(* The least and the greatest numbers, by one pass over the code; it       *)
(* looks at the ways on only, and Floored and Ceiled see what it missed.   *)
(* Where no way leads, any number will do.                                 *)
Arriving(fun, d, pc) ==
  UNION {{w \in Ways(fun, from - 1, d[from]) : w.to = pc} : from \in DOMAIN d}

Unreached == 65535

Floors(fun) ==
  LET Floor(d, pc) == Append(d, Min({w.least : w \in Arriving(fun, d, pc)} \cup {Unreached}))
  IN  FoldLeftDomain(Floor, <<0>>, fun.code)

Ceilings(fun) ==
  LET Ceiling(d, pc) == Append(d, Max({w.most : w \in Arriving(fun, d, pc)} \cup {0}))
  IN  FoldLeftDomain(Ceiling, <<0>>, fun.code)

(* Every function but the root code, which nothing calls, ends with a      *)
(* result.                                                                 *)
Balanced(prog) ==
  /\ \A f \in DOMAIN prog.functions :
       LET fun == prog.functions[f]
       IN  /\ Floored(fun, Floors(fun))
           /\ f # prog.entry + 1 => Floors(fun)[Len(fun.code) + 1] >= 1
           /\ \A k \in DOMAIN fun.code :
                fun.code[k].op = "MakeClosure" => fun.code[k].a # prog.entry
  /\ \A c \in DOMAIN prog.classes : \A m \in DOMAIN prog.classes[c] :
       prog.classes[c][m] # prog.entry

(* A test starts with no more than its handler keeps, as long as each call *)
(* leaves one operand.                                                     *)
Capped(prog) ==
  \A f \in DOMAIN prog.functions :
    LET fun == prog.functions[f] IN Ceiled(fun, Ceilings(fun))

(* Each call does: no function ends with more.  One with an if behind the  *)
(* branch of another may, as its handler keeps an operand too many.        *)
LeavesOne(prog) ==
  \A f \in DOMAIN prog.functions \ {prog.entry + 1} :
    LET fun == prog.functions[f] IN Ceilings(fun)[Len(fun.code) + 1] <= 1

BalancedPrograms == {p \in Programs : Balanced(p) /\ Capped(p)}
LeavingOne == {p \in Programs : LeavesOne(p)}

(* The generator makes such code of programs without loops in which        *)
(* nothing that may fail stands right in front of a test (its handler      *)
(* would catch that, too).  However ifs, tests, calls and functions are    *)
(* nested and whatever fails, what is done at a pc finds its operands, a   *)
(* function ends with a result, and op_stack_depth is not below what the   *)
(* function has on the stack, one operand for each call.                   *)
CodeBalanced == program \in BalancedPrograms

-----------------------------------------------------------------------------
(* What follows of a run.                                                  *)

(* An instruction finds its operands in its own frame's part of the stack: *)
(* no pop underflows, none takes an operand of a caller.                   *)
OwnOperandsUsed == Fetched => Len(stack) - Top.stackBase >= Takes(Ins)

(* A test starts with no more operands in its frame than its handler will  *)
(* leave there: catching its failure drops none that was there before.     *)
(* This is so in programs without loops whose functions leave one operand  *)
(* each: op_stack_depth counts a turn of a loop, and a call, for one.      *)
TestKeepsOperands ==
  Fetched /\ program \in LeavingOne => \A h \in DOMAIN Fun(Top.func).handlers :
    LET handler == Fun(Top.func).handlers[h]
    IN  Top.pc = handler.start => Len(stack) - Top.stackBase <= handler.depth

(* No step disturbs the operands of the frames below the running one; a    *)
(* failure that unwinds keeps those of the frames below the one it reaches.*)
CallersOperandsKept ==
  [][frames' # << >> =>
       LET base == frames'[Len(frames')].stackBase
       IN  /\ Len(stack') >= base
           /\ SubSeq(stack', 1, base) = SubSeq(stack, 1, base)]_vars

(* A called function leaves its caller a result.                           *)
CalleeLeavesResult ==
  AtEnd /\ Len(frames) > 1 => Len(stack) > Top.stackBase
=============================================================================
