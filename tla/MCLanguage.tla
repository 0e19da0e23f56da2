----------------------------- MODULE MCLanguage -----------------------------
(* A program for every instruction of the machine, for TLC.                *)
EXTENDS CompiledVm

IfElse(test, a, b) == If(30, test, a, <<b>>)
Eq(l, r) == CompareChain(l, << <<"Eq", r>> >>)
AddI(l, r) == Bin("Add", l, r)
One == IntLit(1)

(* t := (1, 2)   p := (t, t)   var q := p                                  *)
(* set q(0)(1) = 5   set q(1) = t   set q(1)(0) = q(0)(1)   r := q(1)      *)
Tuples ==
  << SetLocal(9, Tuple(20, <<One, IntLit(2)>>)),
     SetLocal(10, Tuple(21, <<GetGlobal(9), GetGlobal(9)>>)),
     SetLocal(11, GetGlobal(10)),
     SetTupleElem(IndexTuple(GetGlobal(11), 0), 1, IntLit(5)),
     SetTupleElem(GetGlobal(11), 1, GetGlobal(9)),
     SetTupleElem(IndexTuple(GetGlobal(11), 1), 0,
                  IndexTuple(IndexTuple(GetGlobal(11), 0), 1)),
     SetLocal(12, IndexTuple(GetGlobal(11), 1)) >>

(* a := array{1, 2}   b := a   if (a[i]) then 3 else 4   if (set a[i] = 5) *)
Arrays(i) ==
  << SetLocal(9, Array(22, <<One, IntLit(2)>>)), SetLocal(10, GetGlobal(9)),
     SetLocal(11, IfElse(IndexArray(GetGlobal(9), IntLit(i)), IntLit(3), IntLit(4))),
     If(31, SetArrayElem(GetGlobal(10), IntLit(i), IntLit(5)), GetLength(GetGlobal(9)),
        << >>) >>

(* s := "ab"   n := s.Length   u := "x{n}{s}"   w := s + u                 *)
(* Print(w)   Print(array{n})   "{array}" and so on                        *)
Strings(v) ==
  << SetLocal(9, StringLit), SetLocal(10, GetLength(GetGlobal(9))),
     SetLocal(11, Template(<< << >>, <<GetGlobal(10)>>, <<GetGlobal(9)>> >>)),
     SetLocal(12, ConcatAll(<<GetGlobal(9), GetGlobal(11)>>)),
     Invoke(GetGlobal(PrintSlot), <<GetGlobal(12)>>),
     SetLocal(13, Template(<< <<v>> >>)) >>

Texts == {FloatLit(1), Char(65), Char32(65), Array(22, <<One>>), LogicLit(TRUE),
          None(23), TypeLit(5)}

(* x : ?int = v   if (x?) then 1 else 2                                    *)
Options(v) ==
  << SetLocal(9, v), SetLocal(10, IfElse(UnwrapOf(GetGlobal(9)), One, IntLit(2))) >>

(* if (T(v)) then 1 else 2                                                 *)
Casts(v, ty) == << SetLocal(9, IfElse(CastTo(ty, v), One, IntLit(2))) >>
Castable == {One, FloatLit(0), Char(1), LogicLit(FALSE), StringLit, None(23),
             Some(23, One), Tuple(20, <<One, One>>), TypeLit(5), GetGlobal(PrintSlot)}

(* x := l op r   x := -v   x := not v                                      *)
Arithmetics ==
  { << SetLocal(9, Bin(op, l, r)) >> :
      op \in {"Add", "Sub", "Mul", "Div"},
      l \in {IntLit(100), IntLit(-127)}, r \in {IntLit(-1), IntLit(3), IntLit(0)} }
  \cup { << SetLocal(9, Bin(op, FloatLit(1), r)) >> :
      op \in {"Add", "Div"}, r \in {FloatLit(0), FloatLit(1)} }
  \cup { << SetLocal(9, Unary("Neg", v)) >> : v \in {IntLit(-127), FloatLit(1)} }
  \cup { << SetLocal(9, Unary("Not", LogicLit(b))) >> : b \in BOOLEAN }

(* x := -127 - 1, the least int   y := x / -1   or   -x                    *)
LeastInt ==
  { << SetLocal(9, Bin("Sub", IntLit(-127), One)), SetLocal(10, v) >> :
      v \in {Bin("Div", GetGlobal(9), IntLit(-1)), Unary("Neg", GetGlobal(9))} }

(* m := 0                                                                  *)
(* C := class { var x : int = 1;  m() : int = 7 }                          *)
(* o := C{}   set o.x = 3   v := o.x   w := o.m()                          *)
Methods == << <<Func(24, IntLit(7), << >>, FALSE)>> >>
Objects ==
  << SetLocal(9, IntLit(0)), SetLocal(10, TypeLit(25)),
     SetLocal(11, NewObject(25, 0, <<One>>)),
     SetField(GetGlobal(11), 0, IntLit(3)),
     SetLocal(12, GetField(GetGlobal(11), 0)),
     SetLocal(13, Invoke(Method(GetGlobal(11), 0, 0), << >>)) >>

(* f() : int = f()   f()                                                   *)
Endless ==
  << SetLocal(9, Func(26, Invoke(GetGlobal(9), << >>), << >>, FALSE)),
     Invoke(GetGlobal(9), << >>) >>

(* var i := 0   loop { if (i = n) then break; set i = i + 1 }              *)
Loops(n) ==
  << SetLocal(9, IntLit(0)),
     Loop(Block(<<If(31, Eq(GetGlobal(9), IntLit(n)), Break, << >>),
                  SetGlobal(9, AddI(GetGlobal(9), One))>>)) >>

(* make() = { x := 1;  f() : void = set x = x + 1;  f }   g := make()      *)
(* g()   g()                                                               *)
Closures ==
  << SetLocal(9, Func(27,
       Block(<<SetLocal(0, One),
               SetLocal(1, Func(28, SetUpvalue(0, AddI(GetUpvalue(0), One)),
                                <<[depth |-> 1, slot |-> 0]>>, TRUE)),
               SetLocal(0, Bin("Mul", GetLocal(0), Invoke(GetLocal(1), << >>))),
               GetLocal(1)>>), << >>, FALSE)),
     SetLocal(10, Invoke(GetGlobal(9), << >>)) >>

Returned ==
  << SetLocal(9, Func(27,
       Block(<<SetLocal(0, One),
               SetLocal(1, Func(28, SetUpvalue(0, AddI(GetUpvalue(0), One)),
                                <<[depth |-> 1, slot |-> 0]>>, TRUE)),
               Invoke(GetLocal(1), << >>), GetLocal(1)>>), << >>, FALSE)),
     SetLocal(10, Invoke(GetGlobal(9), << >>)),
     Invoke(GetGlobal(10), << >>), Invoke(GetGlobal(10), << >>) >>

(* make() = { x := 1;  f() : void = set x = x + 1;  y := 1 / 0;  f }       *)
(* if ((make(), 1 / 1)) then 1 else 2       g() : int = { z := 5;  z }     *)
(* a := g()                      the frame that fails has an open upvalue  *)
Unwound ==
  << SetLocal(9, Func(27,
       Block(<<SetLocal(0, One),
               SetLocal(1, Func(28, SetUpvalue(0, AddI(GetUpvalue(0), One)),
                                <<[depth |-> 1, slot |-> 0]>>, TRUE)),
               SetLocal(2, Bin("Div", One, IntLit(0))), GetLocal(1)>>), << >>, FALSE)),
     IfElse(Tuple(20, <<Invoke(GetGlobal(9), << >>), Bin("Div", One, One)>>),
            One, IntLit(2)),
     SetLocal(10, Func(29, Block(<<SetLocal(0, IntLit(5)), GetLocal(0)>>), << >>, FALSE)),
     SetLocal(11, Invoke(GetGlobal(10), << >>)) >>

Programs0 ==
  {Tuples, Endless, Closures, Returned, Unwound} \cup Arithmetics \cup LeastInt
    \cup {Arrays(i) : i \in -1 .. 2}
    \cup {Strings(v) : v \in Texts}
    \cup {Options(v) : v \in {Some(23, One), None(23)}}
    \cup {Casts(v, ty) : v \in Castable, ty \in {2, 4, 5, 6, 8}}
    \cup {Loops(n) : n \in 0 .. 2}

MCSources ==
  {[classes |-> << >>, irs |-> irs] : irs \in Programs0}
    \cup {[classes |-> Methods, irs |-> Objects]}
=============================================================================
