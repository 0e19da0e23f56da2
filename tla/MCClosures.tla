----------------------------- MODULE MCClosures -----------------------------
(* Programs around closures, for TLC.                                      *)
EXTENDS EvaluatedVm, SharedVariables

Up(depth, slot) == [depth |-> depth, slot |-> slot]
CallOf(f, args) == Invoke(f, args)
Plus(l, r) == Bin("Add", l, r)

(* make(x : int) =                                                         *)
(*     var n := x                               local 1                    *)
(*     inc() : int = set n = n + 1              local 2, captures n        *)
(*     get() : int = n + x                      local 3, captures n, x     *)
(*     <body>                                                              *)
(*     (inc, get)                                                          *)
Inc == Func(20, SetUpvalue(0, Plus(GetUpvalue(0), IntLit(1))), <<Up(1, 1)>>, FALSE)
Get == Func(20, Plus(GetUpvalue(0), GetUpvalue(1)), <<Up(1, 1), Up(1, 0)>>, FALSE)

Make(body) ==
  Func(21, Block(<<SetLocal(1, GetLocal(0)), SetLocal(2, Inc), SetLocal(3, Get)>>
                 \o body \o <<Tuple(22, <<GetLocal(2), GetLocal(3)>>)>>),
       << >>, FALSE)

InMake == { CallOf(GetLocal(2), << >>), SetLocal(1, Bin("Mul", GetLocal(1), IntLit(3))),
            SetLocal(0, CallOf(GetLocal(3), << >>)) }

(* p := make(1)   q := make(2)   and three calls of their closures.        *)
OfPair(p, i) == CallOf(IndexTuple(GetGlobal(p), i), << >>)
Calls == {OfPair(p, i) : p \in {10, 11}, i \in {0, 1}}

Counters ==
  { << SetLocal(9, Make(<<a, b>>)),
       SetLocal(10, CallOf(GetGlobal(9), <<IntLit(1)>>)),
       SetLocal(11, CallOf(GetGlobal(9), <<IntLit(2)>>)),
       SetLocal(12, Tuple(22, <<c, d, e>>)) >> :
      a \in InMake, b \in InMake, c \in Calls, d \in Calls, e \in Calls }

(* outer() : int =                                                         *)
(*     var n := 1                                                          *)
(*     mid() : int =                                                       *)
(*         inner() : int = set n = n + 1        captures n two levels out  *)
(*         inner()                                                         *)
(*     (mid(), mid(), n)                                                   *)
Inner  == Func(20, SetUpvalue(0, Plus(GetUpvalue(0), IntLit(1))), <<Up(2, 0)>>, FALSE)
Mid    == Func(20, Block(<<SetLocal(0, Inner), CallOf(GetLocal(0), << >>)>>), << >>, FALSE)
Nested ==
  << SetLocal(9, Func(20, Block(<<SetLocal(0, IntLit(1)), SetLocal(1, Mid),
                                  Tuple(22, <<CallOf(GetLocal(1), << >>),
                                              CallOf(GetLocal(1), << >>),
                                              GetLocal(0)>>)>>), << >>, FALSE)),
     SetLocal(10, CallOf(GetGlobal(9), << >>)) >>

(* An upvalue read inside an if is lost (see the README), so these read    *)
(* theirs into variables first.                                            *)

(* count() : int =                                                         *)
(*     f(k : int) : int =                       captures f                 *)
(*         g := f                                                          *)
(*         if (k = 0) then 7 else g(k - 1)                                 *)
(*     f(3)                                                                *)
Recursive ==
  << SetLocal(9, Func(20,
       Block(<<SetLocal(0, Func(20,
                 Block(<<SetLocal(1, GetUpvalue(0)),
                   If(5, CompareChain(GetLocal(0), << <<"Eq", IntLit(0)>> >>), IntLit(7),
                      <<CallOf(GetLocal(1), <<Bin("Sub", GetLocal(0), IntLit(1))>>)>>)>>),
                 <<Up(1, 0)>>, FALSE)),
               CallOf(GetLocal(0), <<IntLit(3)>>)>>), << >>, FALSE)),
     SetLocal(10, CallOf(GetGlobal(9), << >>)) >>

(* chain(k : int, g) : one closure per activation, each over its own k and *)
(* the closure it was given:                                               *)
(*     h() : int = { m := k; f := g; m + (if (m < 3) then f() else 0) }    *)
(*     if (k = 0) then h() else chain(k - 1, h)                            *)
Chained ==
  << SetLocal(9, Func(20, IntLit(0), << >>, FALSE)),
     SetLocal(10, Func(20,
       Block(<<SetLocal(2, Func(20,
                 Block(<<SetLocal(0, GetUpvalue(0)), SetLocal(1, GetUpvalue(1)),
                   Plus(GetLocal(0),
                        If(5, CompareChain(GetLocal(0), << <<"Lt", IntLit(3)>> >>),
                           CallOf(GetLocal(1), << >>), <<IntLit(0)>>))>>),
                 <<Up(1, 0), Up(1, 1)>>, FALSE)),
               If(5, CompareChain(GetLocal(0), << <<"Eq", IntLit(0)>> >>),
                  CallOf(GetLocal(2), << >>),
                  <<CallOf(GetGlobal(10),
                           <<Bin("Sub", GetLocal(0), IntLit(1)), GetLocal(2)>>)>>)>>),
       << >>, FALSE)),
     SetLocal(11, CallOf(GetGlobal(10), <<IntLit(3), GetGlobal(9)>>)) >>

(* pairs() =                                                               *)
(*     var t : tuple(int, int) := (1, 2)        local 0                    *)
(*     var u : tuple(int, int) := t             local 1                    *)
(*     raise() : int = set t(0) = t(0) + 1      local 2, captures t        *)
(*     sum() : int = t(0) + u(0)                local 3, captures t, u     *)
(*     copy() : int = { set u = t; u(0) }       local 4, captures u, t     *)
(*     <body>                                                              *)
(*     (raise, sum, copy)                                                  *)
First(t) == IndexTuple(t, 0)
Raise == Func(20, SetTupleElem(GetUpvalue(0), 0, Plus(First(GetUpvalue(0)), IntLit(1))),
              <<Up(1, 0)>>, FALSE)
Sum   == Func(20, Plus(First(GetUpvalue(0)), First(GetUpvalue(1))),
              <<Up(1, 0), Up(1, 1)>>, FALSE)
Copy  == Func(20, Block(<<SetUpvalue(0, GetUpvalue(1)), First(GetUpvalue(0))>>),
              <<Up(1, 1), Up(1, 0)>>, FALSE)
InPairs == { CallOf(GetLocal(2), << >>), CallOf(GetLocal(4), << >>),
             SetTupleElem(GetLocal(1), 0, IntLit(7)) }
OfPairs == {CallOf(IndexTuple(GetGlobal(10), i), << >>) : i \in 0 .. 2}

Pairs ==
  { << SetLocal(9, Func(21, Block(<<SetLocal(0, Tuple(22, <<IntLit(1), IntLit(2)>>)),
                                    SetLocal(1, GetLocal(0)), SetLocal(2, Raise),
                                    SetLocal(3, Sum), SetLocal(4, Copy), a, b,
                                    Tuple(23, <<GetLocal(2), GetLocal(3), GetLocal(4)>>)>>),
                         << >>, FALSE)),
       SetLocal(10, CallOf(GetGlobal(9), << >>)),
       SetLocal(11, Tuple(24, <<c, d, CallOf(IndexTuple(GetGlobal(10), 1), << >>)>>)) >> :
      a \in InPairs, b \in InPairs, c \in OfPairs, d \in OfPairs }

MCSources ==
  {[classes |-> << >>, irs |-> irs] :
     irs \in Counters \cup Pairs \cup {Nested, Recursive, Chained}}
=============================================================================
