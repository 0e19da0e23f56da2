------------------------------ MODULE Pipeline ------------------------------
(***************************************************************************)
(* compile of compiler/mod.rs and main.rs: a program's syntax trees are    *)
(* analyzed one after the other; if that reported no error, code is        *)
(* generated and the machine runs it.                                      *)
(***************************************************************************)
EXTENDS VerseVm, IrToCode

Analysis  == INSTANCE Analyzer
Reference == INSTANCE SourceMeaning

CONSTANT Texts      (* programs: sequences of syntax trees *)

VARIABLES
  items,      (* Program::expressions                                      *)
  analyzer,   (* SemanticAnalyzer                                          *)
  irs,        (* root_irs, the result of analyze so far                    *)
  turn        (* how many items are analyzed                               *)

compiler == <<items, analyzer, irs, turn>>

NoProgram == [functions |-> << >>, classes |-> << >>, entry |-> 0]

PipelineInit ==
  /\ items \in Texts
  /\ analyzer = Analysis!NewAnalyzer
  /\ irs = << >>
  /\ turn = 0
  /\ program = NoProgram
  /\ stack = << >> /\ locals = << >> /\ frames = << >> /\ heap = << >> /\ cells = << >>
  /\ status = "analyzing"

(* One turn of analyze's loop: an item without IR is left out.             *)
Analyze ==
  /\ status = "analyzing" /\ turn < Len(items) /\ ~analyzer.stuck
  /\ LET r == Analysis!LowerItem(analyzer, items[turn + 1])
     IN  analyzer' = r.a /\ irs' = irs \o r.ir
  /\ turn' = turn + 1
  /\ UNCHANGED <<items, vars>>

Analyzed == status = "analyzing" /\ turn = Len(items) /\ ~analyzer.stuck

Stop(how) ==
  /\ status' = how
  /\ UNCHANGED <<program, stack, locals, frames, heap, cells>>

(* The errors are reported, and that is all.                               *)
Refuse ==
  /\ Analyzed /\ analyzer.errors # << >>
  /\ Stop("refused")
  /\ UNCHANGED compiler

Methods(class) == [m \in DOMAIN class.methods |-> class.methods[m].ir]
AllMethods == FlattenSeq([c \in DOMAIN analyzer.classes |-> Methods(analyzer.classes[c])])

ClassCode(reg) ==
  [c \in DOMAIN analyzer.classes |->
     [m \in DOMAIN analyzer.classes[c].methods |-> ToCode(Methods(analyzer.classes[c])[m], reg)]]
RootCode(reg) == [i \in DOMAIN irs |-> ToCode(irs[i], reg)]

(* The generator when it is done with all.                                 *)
Generated ==
  LET reg == Registry(AllMethods \o irs) IN CompileRoot(ClassCode(reg), RootCode(reg))

(* Code is generated and the machine set up to run it, unless the generator *)
(* panics.                                                                 *)
Start(s) ==
  /\ s.ok
  /\ program' = ProgramOf(s)
  /\ stack' = << >>
  /\ locals' = Globals
  /\ frames' = << NewFrame(Len(s.fns), 0, 0, << >>) >>
  /\ heap' = << Plain("native", PrintType, << >>) >>
  /\ cells' = << >>
  /\ status' = "running"

Generate ==
  /\ Analyzed /\ analyzer.errors = << >>
  /\ \E s \in {Generated} : Start(s) \/ (~s.ok /\ Stop("crashed"))
  /\ UNCHANGED compiler

(* A todo!() in the analyzer.                                              *)
Crash ==
  /\ status = "analyzing" /\ analyzer.stuck
  /\ Stop("crashed")
  /\ UNCHANGED compiler

Run == status \notin {"analyzing"} /\ Next /\ UNCHANGED compiler

PipelineNext == Analyze \/ Refuse \/ Generate \/ Crash \/ Run

PipelineSpec == PipelineInit /\ [][PipelineNext]_<<vars, compiler>>
                             /\ WF_<<vars, compiler>>(PipelineNext)

-----------------------------------------------------------------------------
(* Properties.                                                             *)

RootScope == analyzer.scopes[2].vars

(* A value is what the reference has.                                      *)
RECURSIVE IsValue(_, _, _)
IsValue(v, t, store) ==
  LET Elems(es, ts) == /\ Len(es) = Len(ts)
                       /\ \A i \in DOMAIN ts : IsValue(es[i], ts[i], store)
  IN
  CASE t[1] = "int"    -> v = IntV(t[2])
    [] t[1] = "logic"  -> v = Logic(IF t[2] THEN 1 ELSE 0)
    [] t[1] = "string" -> IsText(v)
    [] t[1] = "some"   -> v.k = "some" /\ IsValue(heap[v.v].elems[1], t[2], store)
    [] t[1] = "tuple"  -> v.k = "tuple" /\ Elems(heap[v.v].elems, t[3])
    [] t[1] = "ref"    -> v.k = "ref" /\ Elems(heap[v.v].elems, store[t[2]][3])
    [] t[1] = "func"   -> v.k = "method" \/ IsObj(v, "function")
    [] t[1] = "print"  -> IsObj(v, "native")
    [] OTHER           -> v.k = t[1]

(* A value of a static type.                                               *)
RECURSIVE HasType(_, _)
HasType(v, t) ==
  LET es == heap[v.v].elems
      Fields(fs) == /\ Len(es) = Len(fs)
                    /\ \A i \in DOMAIN fs : HasType(es[i], fs[i].ty)
  IN
  CASE t[1] = "any"      -> TRUE
    [] t[1] = "string"   -> IsText(v)
    [] t[1] = "option"   -> v.k = "none" \/ (v.k = "some" /\ HasType(es[1], t[2]))
    [] t[1] = "tuple"    -> v.k = "tuple" /\ Fields([i \in DOMAIN t[2] |-> [ty |-> t[2][i]]])
    [] t[1] = "array"    -> IsObj(v, "array") /\ \A i \in DOMAIN es : HasType(es[i], t[2])
    [] t[1] = "struct"   -> v.k = "tuple" /\ Fields(analyzer.structs[t[2] + 1])
    [] t[1] = "class"    -> IsObj(v, "object") /\ Fields(analyzer.classes[t[2] + 1].fields)
    [] t[1] = "function" -> v.k = "method" \/ IsObj(v, "function") \/ IsObj(v, "native")
    [] OTHER             -> v.k = t[1]

RootVariable(name) == locals[RootScope[name].slot + 1]

(* The root code's variables are those of the reference, by name, and two  *)
(* of them are the same array or object if they are there.                 *)
VariablesAs(e) ==
  LET vs == e.scopes[2]
      Held(n) == e.store[vs[n].at]
  IN  /\ \A n \in DOMAIN vs : RootScope[n].slot < Len(locals)
                              /\ IsValue(RootVariable(n), Held(n), e.store)
      /\ \A m, n \in DOMAIN vs :
           Held(m)[1] = "ref" /\ Held(n)[1] = "ref" =>
             (Held(m)[2] = Held(n)[2] <=> RootVariable(m) = RootVariable(n))

(* What the generator has no code for: in a function, a break of a loop    *)
(* around it, and an object made.                                          *)
RECURSIVE Beyond(_, _, _)
Beyond(ir, inFunction, inLoop) ==
  \/ ir.kind = "Break" /\ ~inLoop
  \/ ir.kind = "MakeObject" /\ inFunction
  \/ \E i \in DOMAIN ir.irs :
       Beyond(ir.irs[i], inFunction \/ ir.kind = "Func",
              ir.kind = "Loop" \/ (inLoop /\ ir.kind # "Func"))
BeyondGenerator ==
  LET all == AllMethods \o irs IN \E i \in DOMAIN all : Beyond(all[i], FALSE, FALSE)

AtRootEnd == AtEnd /\ Len(frames) = 1

(* A program that is accepted does what is written: its root code comes to *)
(* its end with every variable as the reference says, or fails where that  *)
(* says.  Only run's final assertion, with all done, may panic; and of the *)
(* generator only where it has no code.                                    *)
OutcomeAsWritten ==
  LET m == Reference!Meaning(items)
  IN  /\ AtRootEnd => m.how = "value" /\ VariablesAs(m.e)
      /\ status = "failed" => m.how = "fail" /\ VariablesAs(m.e)
      /\ status = "panic" => frames = << >>
      /\ status = "crashed" => analyzer.stuck \/ BeyondGenerator

(* The root code's variables have values of the types they were given,     *)
(* whenever the root code runs or a program has failed.                    *)
TypesSound ==
  (AtRootEnd \/ status = "failed") =>
    \A n \in DOMAIN RootScope :
      RootScope[n].slot < Len(locals) => HasType(RootVariable(n), RootScope[n].ty)

(* What an item leaves behind: every scope but the root's is closed, no    *)
(* loop or test is open; an item without IR was reported.                  *)
ItemsLeaveNothing ==
  [][turn' # turn =>
       /\ Len(analyzer'.scopes) = 2 /\ analyzer'.loops = 0 /\ analyzer'.failing = 0
       /\ irs' = irs => analyzer'.stuck \/ analyzer'.errors # analyzer.errors]_<<vars, compiler>>
=============================================================================
