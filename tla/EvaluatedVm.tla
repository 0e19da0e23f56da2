---------------------------- MODULE EvaluatedVm ----------------------------
(***************************************************************************)
(* Compiled programs held against what their trees of IR mean.             *)
(***************************************************************************)
EXTENDS CompiledVm, IrSemantics

RECURSIVE Matches(_, _)
Matches(v, t) ==
  CASE t[1] = "int"   -> v = IntV(t[2])
    [] t[1] = "none"  -> v.k = "none"
    [] t[1] = "func"  -> IsObj(v, "function")
    [] t[1] = "some"  -> v.k = "some" /\ Matches(heap[v.v].elems[1], t[2])
    [] OTHER -> /\ v.k = "tuple"
                /\ Len(heap[v.v].elems) = Len(t[2])
                /\ \A i \in DOMAIN t[2] : Matches(heap[v.v].elems[i], t[2][i])

AtRootEnd == AtEnd /\ Len(frames) = 1

(* The root code's variables have the values the reference gives them.     *)
VariablesMatch(env) ==
  \A s \in DOMAIN env.g : s < Len(locals) /\ Matches(locals[s + 1], env.g[s])

Outcomes == [p \in Programs |-> Outcome(SourceOf(p).irs)]

AgreesWith(ref) ==
  /\ AtRootEnd /\ stack = << >> => ref.ok /\ VariablesMatch(ref.env)
  /\ status = "failed" => ~ref.ok /\ VariablesMatch(ref.env)
  /\ status = "panic" => frames = << >>

(* The compiled program does what the tree of IR means: it comes to its    *)
(* end with the variables the reference has, or fails where the reference  *)
(* fails, with the assignments made until then.  An operand left on the    *)
(* stack is one more than the generator accounted for (the run that looks  *)
(* at the final assertion shows where it comes from); a run that left one, *)
(* or has a function that may, is not held to its values.                  *)
OutcomeAsEvaluated == program \in LeavingOne => AgreesWith(Outcomes[program])

=============================================================================
