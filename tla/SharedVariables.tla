--------------------------- MODULE SharedVariables ---------------------------
(***************************************************************************)
(* The machine's locals and cells held against the store that closures are *)
(* promised: the slots, the Upvalue cells and the closing of cells when a  *)
(* function returns (box_local and close_captures of vm/mod.rs) make one   *)
(* location of each captured variable.                                     *)
(***************************************************************************)
EXTENDS VerseVm

(* A value with what the tuples in it hold; no two tuples are the same     *)
(* object for long, as every store makes a copy.                           *)
ContentsOf(v) == Contents[Len(heap)][<<v, heap>>]

HasValue(c) == cells[c].open => cells[c].at < Len(locals)

CapturedStore == [c \in {d \in DOMAIN cells : HasValue(d)} |-> ContentsOf(CellValue(c))]

CapturedBy == [i \in DOMAIN frames |-> frames[i].captures]

(* The captured variable an instruction accesses, if any: through a        *)
(* closure's upvalue or, while its function runs, by its slot.             *)
VariableAt(index) == {c \in DOMAIN cells : cells[c] = OpenCell(index)}

Accessed ==
  CASE Ins.op \in {"LoadLocal", "StoreLocal"}     -> VariableAt(Top.localBase + Ins.a)
    [] Ins.op \in {"LoadGlobal", "StoreGlobal"}   -> VariableAt(Ins.a)
    [] Ins.op \in {"LoadUpvalue", "StoreUpvalue"} -> {Upvalue}
    [] OTHER -> {}

Ask(kind, to, value) == [kind |-> kind, to |-> to, value |-> value]

Topmost == ContentsOf(IF stack = << >> THEN Void ELSE Operand(0))

NextAccess ==
  IF ~Fetched \/ ~Ready(Ins) THEN Ask("other", {}, ContentsOf(Void))
  ELSE CASE Ins.op = "MakeClosure"       -> Ask("capture", {}, ContentsOf(Void))
         [] Ins.op = "StoreTupleElement" -> Ask("amend", {}, ContentsOf(Void))
         [] Accessed # {} /\ Ins.op \in {"LoadLocal", "LoadGlobal", "LoadUpvalue"} ->
              Ask("read", Accessed, ContentsOf(Void))
         [] Accessed # {} /\ Ins.op \in {"StoreLocal", "StoreGlobal", "StoreUpvalue"} ->
              Ask("write", Accessed, Topmost)
         [] OTHER -> Ask("other", {}, ContentsOf(Void))

Shared == INSTANCE ClosureStore
  WITH store <- CapturedStore, owners <- CapturedBy,
       request <- NextAccess, answer <- Topmost

(* Slots, cells and the closing of upvalues (box_local, close_captures,    *)
(* the two kinds of Upvalue) make one variable out of each captured one:   *)
(* every read yields what was written last, by whichever of the closures   *)
(* or the function itself, and setting an element of a tuple in one        *)
(* changes no other.                                                       *)
ClosuresShareVariables == Shared!Spec
=============================================================================
