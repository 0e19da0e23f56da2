----------------------------- MODULE MCFailure -----------------------------
(* Programs around if and failure, for TLC.  Root variables start at slot  *)
(* 9, after the globals; type ids from 10 on are those of the program.     *)
EXTENDS EvaluatedVm

(* f(x : int) : int = 1 / x          (slot 9)                              *)
(* var y := 0                        (slot 10)                             *)
Prelude ==
  << SetLocal(9, Func(10, Bin("Div", IntLit(1), GetLocal(0)), << >>, FALSE)),
     SetLocal(10, IntLit(0)) >>

CallF(n) == Invoke(GetGlobal(9), <<IntLit(n)>>)
Quot(m, n) == Bin("Div", IntLit(m), IntLit(n))
Ifs(tests, thens, alts) ==
  {If(11, t, c, a) : t \in tests, c \in thens, a \in alts}

Tests ==
  { Quot(1, 1), Quot(1, 0),
    CompareChain(IntLit(1), << <<"Eq", IntLit(1)>> >>),
    CompareChain(IntLit(0), << <<"Lt", IntLit(1)>>, <<"Lt", IntLit(2)>>,
                               <<"Ge", IntLit(3)>> >>),
    CompareChain(CallF(0), << <<"Eq", IntLit(1)>> >>),
    CompareChain(CallF(1), << <<"Ne", IntLit(2)>> >>),
    Tuple(12, <<SetGlobal(10, IntLit(7)), Quot(1, 0)>>),
    If(11, Quot(1, 0), IntLit(1), <<Quot(2, 0)>>) }

Exprs ==
  Ifs(Tests, {IntLit(5), Quot(5, 0), SetGlobal(10, IntLit(8))},
             {<< >>, <<IntLit(6)>>, <<Quot(6, 0)>>})

Last1 == If(11, CompareChain(IntLit(1), << <<"Eq", IntLit(2)>> >>), IntLit(3), <<IntLit(4)>>)
Last2 == SetLocal(12, Last1)

(* An if alone, in a tuple, as a test, as a function's body.               *)
Alone(e) ==
  { <<SetLocal(11, e)>>,
    <<SetLocal(11, Tuple(12, <<IntLit(1), e>>))>>,
    <<SetLocal(11, If(11, e, IntLit(8), <<IntLit(9)>>))>>,
    <<SetLocal(11, Func(13, e, << >>, FALSE)),
      SetLocal(12, Tuple(12, <<IntLit(1), Invoke(GetGlobal(11), << >>)>>))>>,
    <<SetLocal(11, Func(13, e, << >>, FALSE)),
      SetLocal(12, If(11, Tuple(12, <<Invoke(GetGlobal(11), << >>), Quot(1, 1)>>),
                      IntLit(2), << >>))>> }

(* A function with an if behind the branch of another, as its alternative  *)
(* or after it: it may leave two operands.  It is called alone, in front   *)
(* of a test with operands pending, in a test and for one.                 *)
Second(e) ==
  { If(11, Quot(1, 0), IntLit(8), <<e>>),
    Block(<<If(11, Quot(1, 1), IntLit(8), <<IntLit(9)>>), e>>) }
Called(e) ==
  LET call == Invoke(GetGlobal(11), << >>)
  IN  {<<SetLocal(11, Func(13, e, << >>, FALSE)), SetLocal(12, x)>> :
         x \in { call, Tuple(12, <<call, IntLit(1), Last1>>),
                 If(11, Tuple(12, <<call, Quot(1, 0)>>), IntLit(2), <<call>>),
                 If(11, call, IntLit(2), << >>) }}
Behind(e) == UNION {Called(f) : f \in Second(e)}

Source(irs) == [classes |-> << >>, irs |-> irs]

MCSources ==
  {Source(Prelude \o b \o tail) :
     b \in UNION {Alone(e) : e \in Exprs}, tail \in {<< >>, <<Last2>>}}
  \cup {Source(Prelude \o b) : b \in UNION {Behind(e) : e \in Exprs}}
=============================================================================
