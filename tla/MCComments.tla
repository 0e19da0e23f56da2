----------------------------- MODULE MCComments -----------------------------
(* The smallest programs on which the code departs from what its comments  *)
(* and assertions say, one set of sources for each run.                    *)
EXTENDS CompiledVm

Equal(m, n) == CompareChain(IntLit(m), << <<"Eq", IntLit(n)>> >>)
IfElse(test, a, b) == If(30, test, a, <<b>>)
Plain1(irs) == {[classes |-> << >>, irs |-> irs]}

(* a := if ((1 / 0, if (2 = 2) then 3 else 4)) then 5 else 6               *)
(* The inner test starts right after the division.                         *)
StartSources ==
  Plain1(<< SetLocal(9, IfElse(
              Tuple(20, << Bin("Div", IntLit(1), IntLit(0)),
                           IfElse(Equal(2, 2), IntLit(3), IntLit(4)) >>),
              IntLit(5), IntLit(6))) >>)

(* if (1 = n) then 3 else 4     twice                                      *)
Twice(n) == LET i == IfElse(Equal(1, n), IntLit(3), IntLit(4)) IN Plain1(<<i, i>>)
DepthSources == Twice(1)
StackSources == Twice(2)

(* C := class { m() : int = 7 }                                            *)
(* The method's name takes slot 9 of the root scope, C slot 10.            *)
SlotSources ==
  {[classes |-> << <<Func(24, IntLit(7), << >>, FALSE)>> >>,
    irs |-> << SetLocal(10, TypeLit(25)) >>]}
=============================================================================
