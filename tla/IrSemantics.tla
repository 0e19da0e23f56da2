---------------------------- MODULE IrSemantics ----------------------------
(***************************************************************************)
(* What a tree of IR means, without code, operand stack, handlers, frames  *)
(* or cells: the reference the compiled programs are held against.         *)
(* Evaluation yields a value or fails; a failed test selects the other     *)
(* branch, and what was assigned before the failure stays assigned.        *)
(*                                                                         *)
(* Values are trees: <<"int", n>>, <<"tuple", elements>>, <<"some", x>>,   *)
(* <<"none">>, <<"func", node, upvalues, scopes>>.  A variable of a        *)
(* function is a location of env.store; a function takes the locations it  *)
(* captures with it.  In an environment                                    *)
(*   g      the globals by slot (with the root code's variables),          *)
(*   l      the running function's variables, from slot to location,       *)
(*   up     the locations it captured,                                     *)
(*   scopes the variables of the functions around it, the nearest first.   *)
(* Covered: integers, tuples and stores into their elements, arithmetic,   *)
(* division, comparison chains, if, blocks, variables, functions, closures *)
(* and calls.                                                              *)
(***************************************************************************)
EXTENDS Integers, Sequences, SequencesExt, VmValues

Yield(v, env) == [ok |-> TRUE, v |-> v, env |-> env]
Failure(env)  == [ok |-> FALSE, v |-> <<"none">>, env |-> env]

Bind(f, slot, v) == [s \in DOMAIN f \cup {slot} |-> IF s = slot THEN v ELSE f[s]]

(* Every captured variable has a location, also one not yet assigned.      *)
Located(env, slot) ==
  IF slot \in DOMAIN env.l THEN env
  ELSE [env EXCEPT !.l = Bind(@, slot, Len(env.store) + 1),
                   !.store = Append(@, <<"none">>)]

Assign(env, slot, v) ==
  IF env.root THEN [env EXCEPT !.g = Bind(@, slot, v)]
  ELSE LET e == Located(env, slot) IN [e EXCEPT !.store[e.l[slot]] = v]

RECURSIVE Eval(_, _)

(* Evaluates in order until one fails; the value is the list of values.    *)
EvalAll(irs, env) ==
  LET One(r, ir) ==
        IF ~r.ok THEN r
        ELSE LET x == Eval(ir, r.env)
             IN  IF x.ok THEN Yield(Append(r.v, x.v), x.env) ELSE x
  IN  FoldLeft(One, Yield(<< >>, env), irs)

Apply(ins, vs, env) ==
  CASE ins.op = "PushInt"    -> Yield(<<"int", ins.a>>, env)
    [] ins.op = "LoadGlobal" -> Yield(env.g[ins.a], env)
    [] ins.op = "LoadLocal"  -> Yield(env.store[env.l[ins.a]], env)
    [] ins.op = "LoadUpvalue" -> Yield(env.store[env.up[ins.a + 1]], env)
    [] ins.op = "StoreGlobal" -> Yield(vs[1], [env EXCEPT !.g = Bind(@, ins.a, vs[1])])
    [] ins.op = "StoreLocal"  -> Yield(vs[1], Assign(env, ins.a, vs[1]))
    [] ins.op = "StoreUpvalue" ->
         Yield(vs[1], [env EXCEPT !.store[env.up[ins.a + 1]] = vs[1]])
    [] ins.op = "MakeTuple"  -> Yield(<<"tuple", vs>>, env)
    [] ins.op = "LoadTupleElement" -> Yield(vs[1][2][ins.a + 1], env)
    [] ins.op = "Div" -> IF vs[2][2] = 0 THEN Failure(env)
                         ELSE Yield(<<"int", Quotient(vs[1][2], vs[2][2])>>, env)
    [] OTHER -> Yield(<<"int", Arith(ins.op, vs[1][2], vs[2][2])>>, env)

(* set of an element of the tuple a variable holds: the variable takes a   *)
(* tuple that differs there.                                               *)
EvalSetElement(ir, env) ==
  LET value == Eval(ir.args[1], env)
      load  == ir.args[2].ins
      store == [load EXCEPT !.op = CASE @ = "LoadLocal"  -> "StoreLocal"
                                     [] @ = "LoadGlobal" -> "StoreGlobal"
                                     [] OTHER            -> "StoreUpvalue"]
      With(t) == Apply(store, << [t EXCEPT ![2][ir.ins.a + 1] = value.v] >>, value.env)
  IN  IF ~value.ok THEN value
      ELSE Yield(value.v, With(Apply(load, << >>, value.env).v).env)

(* Every link compares the last operand read with the next one; the chain  *)
(* yields its first operand.                                               *)
EvalChain(ir, env) ==
  LET Link(r, l) ==
        IF ~r.ok THEN r
        ELSE LET x == Eval(l[2], r.env)
             IN  IF ~x.ok THEN x
                 ELSE IF Holds(l[1], r.v[2][2], x.v[2])
                      THEN Yield(<<r.v[1], x.v>>, x.env) ELSE Failure(x.env)
      head == Eval(ir.head, env)
      all  == FoldLeft(Link, [head EXCEPT !.v = <<head.v, head.v>>], ir.rest)
  IN  IF ~head.ok THEN head ELSE IF all.ok THEN Yield(all.v[1], all.env) ELSE all

EvalIf(ir, env) ==
  LET test == Eval(ir.test, env)
  IN  IF test.ok
      THEN LET x == Eval(ir.then, test.env)
           IN  IF x.ok /\ ir.alt = << >> THEN Yield(<<"some", x.v>>, x.env) ELSE x
      ELSE IF ir.alt = << >> THEN Yield(<<"none">>, test.env)
           ELSE Eval(ir.alt[1], test.env)

(* The variables a function captures are those of the functions written    *)
(* around it.                                                              *)
EvalFunc(ir, env) ==
  LET Own(e, d) == IF d.depth = 1 THEN Located(e, d.slot) ELSE e
      e      == FoldLeft(Own, env, ir.upvalues)
      scopes == <<e.l>> \o e.scopes
  IN  Yield(<< "func", ir,
               [k \in DOMAIN ir.upvalues |->
                  scopes[ir.upvalues[k].depth][ir.upvalues[k].slot]], scopes >>, e)

EvalCall(ir, env) ==
  LET vs == EvalAll(ir.args, env)
  IN  IF ~vs.ok THEN vs
      ELSE LET f    == vs.v[1]
               args == Tail(vs.v)
               n    == Len(vs.env.store)
               x == Eval(f[2].body,
                         [g |-> vs.env.g, root |-> FALSE,
                          l |-> [s \in 0 .. Len(args) - 1 |-> n + s + 1],
                          up |-> f[3], scopes |-> f[4],
                          store |-> vs.env.store \o args])
           IN  [x EXCEPT !.env = [vs.env EXCEPT !.g = x.env.g, !.store = x.env.store]]

Eval(ir, env) ==
  CASE ir.n = "node" /\ ir.ins.op = "Call" -> EvalCall(ir, env)
    [] ir.n = "node" /\ ir.ins.op = "StoreTupleElement" -> EvalSetElement(ir, env)
    [] ir.n = "node" /\ ir.ins.op \notin {"Call", "StoreTupleElement"} ->
         LET vs == EvalAll(ir.args, env)
         IN  IF vs.ok THEN Apply(ir.ins, vs.v, vs.env) ELSE vs
    [] ir.n = "chain" -> EvalChain(ir, env)
    [] ir.n = "if"    -> EvalIf(ir, env)
    [] ir.n = "block" -> LET vs == EvalAll(ir.irs, env)
                         IN  IF vs.ok THEN [vs EXCEPT !.v = Last(@)] ELSE vs
    [] OTHER -> EvalFunc(ir, env)

(* The outcome of a whole program: each statement in turn.                 *)
Outcome(irs) ==
  EvalAll(irs, [g |-> << >>, l |-> << >>, up |-> << >>, scopes |-> << >>,
                store |-> << >>, root |-> TRUE])
=============================================================================
