----------------------------- MODULE CompiledVm -----------------------------
(***************************************************************************)
(* Generator and machine together: the machine runs what the generator     *)
(* makes of Sources, a set of trees of IR.                                 *)
(***************************************************************************)
EXTENDS StackDiscipline, Codegen

CONSTANT Sources   (* records of classes (method nodes) and irs (nodes)    *)

(* Each program with the source it comes from.                             *)
Compiled == {<<Compile(s.classes, s.irs), s>> : s \in Sources}

CompiledPrograms == {c[1] : c \in Compiled}

ASSUME ProgramsAreCompiled ==
  /\ Programs = CompiledPrograms
  /\ \A s \in Sources : ~CompilerPanics(s.classes, s.irs)

SourceOf(p) == (CHOOSE c \in Compiled : c[1] = p)[2]

-----------------------------------------------------------------------------
(* Of several handlers whose regions hold the pc, the one that is taken,   *)
(* the first of the table, is the innermost if.                            *)
InnermostHandlerWins ==
  \A i \in DOMAIN frames : \A h, g \in GuardedBy(i) :
    LET hs == Fun(frames[i].func).handlers
    IN  h < g => hs[g].start <= hs[h].start /\ hs[h].stop <= hs[g].stop

(* A program without loops comes to an end, however often it fails.        *)
Terminates == <>(status # "running")

-----------------------------------------------------------------------------
(* What comments and assertions of vm/mod.rs say; a run of MCComments each *)
(* shows that the code does otherwise.                                     *)

(* FailureHandler's comments: start_pc is the "first protected instruction *)
(* (inclusive)", end_pc the "end of protected region (exclusive)".  So a   *)
(* failing instruction of the running frame that is caught there lies in   *)
(* its handler's region.                                                   *)
HandlerProtects ==
  [][Fetched /\ Ins.op \in MayFail /\ Len(frames') = Len(frames)
       /\ frames'[Len(frames)].pc # Top.pc + 1 =>
         \E h \in DOMAIN Fun(Top.func).handlers :
           LET handler == Fun(Top.func).handlers[h]
           IN  /\ frames'[Len(frames)].pc = handler.target
               /\ handler.start <= Top.pc /\ Top.pc < handler.stop]_vars

(* stack_depth is the "operand stack depth to restore": what the frame has *)
(* on the stack when the test starts.                                      *)
RestoresTestDepth ==
  Fetched => \A h \in DOMAIN Fun(Top.func).handlers :
    Top.pc = Fun(Top.func).handlers[h].start =>
      Len(stack) - Top.stackBase = Fun(Top.func).handlers[h].depth

(* assert_eq!(self.stack.len(), 0) at the end of run.                      *)
RunLeavesNoOperand == status = "running" /\ frames = << >> => stack = << >>

(* "stack slot must be allocated continuously", a store's panic message:   *)
(* the slot a compiled store names is taken or the next free one.          *)
SlotsContinuous ==
  Fetched => /\ Ins.op = "StoreLocal" => Storable(Top.localBase + Ins.a)
             /\ Ins.op = "StoreGlobal" => Storable(Ins.a)
=============================================================================
