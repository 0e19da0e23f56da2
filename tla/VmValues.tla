------------------------------ MODULE VmValues ------------------------------
(***************************************************************************)
(* The values the virtual machine computes with (runtime/mod.rs), the      *)
(* operators the Rust code implements on them (Add, Div, PartialEq, ...)   *)
(* and the type ids of core/types.rs that Cast compares.                   *)
(*                                                                         *)
(* A value is flat: a kind and an integer.  The integer is the payload of  *)
(* an int, the type id of a type literal or of an empty option, a flag     *)
(* "is not zero" for a float (the only thing control flow asks of one),    *)
(* and otherwise the number of the object that holds the contents.  What   *)
(* Rust keeps behind a Box, an Rc or an ObjectId is an object of one arena *)
(* (VerseVm's variable heap).  Text is abstracted away: every string is    *)
(* the same value.                                                         *)
(***************************************************************************)
EXTENDS Integers, Sequences, SequencesExt

CONSTANTS
  MaxInt,          (* the largest int: 2^63 - 1 in the code                *)
  OverflowChecks   (* TRUE for a debug build (overflow panics), FALSE for  *)
                   (* a release build (two's complement wrap-around)       *)

ASSUME IntAssumption == MaxInt \in Nat /\ OverflowChecks \in BOOLEAN

Scalars == {"void", "int", "float", "char", "char32", "logic", "string"}

(* A handle is a value whose integer names an object.                      *)
Handles == {"some", "tuple", "method", "ref"}

(* "ref" is Value::Ref, "tuple" is Value::Rc around a tuple, "some" and    *)
(* "none" are the two forms of Value::Option.                              *)
Kinds == Scalars \cup {"type", "none"} \cup Handles

Value == [k : Kinds, v : Int]

Void      == [k |-> "void",   v |-> 0]
Str       == [k |-> "string", v |-> 0]
IntV(n)   == [k |-> "int",    v |-> n]
Float(z)  == [k |-> "float",  v |-> z]
Logic(b)  == [k |-> "logic",  v |-> b]
Handle(k, o) == [k |-> k,     v |-> o]

(* An object: its contents (elements, fields or the boxed value), its type *)
(* id, and for a function or method its function id and its upvalues, each *)
(* the name of a variable cell.                                            *)
ObjKinds == {"array", "object", "function", "native", "string",
             "tuple", "some", "method"}

(* A cell is named by the closure that first captured the variable, and by *)
(* the frame and the index in locals where it captured it.                 *)
CellId == Nat \X Nat \X Nat

Obj(fns, ids) ==
  [k : ObjKinds, ty : Nat, elems : Seq(Value), fn : fns, up : Seq(ids)]

Plain(k, ty, elems) ==
  [k |-> k, ty |-> ty, elems |-> elems, fn |-> 0, up |-> << >>]

Callable(k, ty, elems, fn, up) ==
  [k |-> k, ty |-> ty, elems |-> elems, fn |-> fn, up |-> up]

(* What copy_value works on: a value, and the store with what it holds.    *)
Stored == Value \X Seq(Obj(Nat, CellId))

(* The copies that copy makes of es, one after the other, and the store    *)
(* after the last.                                                         *)
CopyElems(copy, es, h) ==
  LET done[i \in 0 .. Len(es)] ==
        IF i = 0 THEN << << >>, h >>
        ELSE LET c == copy[<<es[i], done[i - 1][2]>>]
             IN  <<Append(done[i - 1][1], c[1]), c[2]>>
  IN  done[Len(es)]

(* Value::copy_value on the store h: a tuple is copied with everything the *)
(* tuples in it hold, any other value is shared.  The result is the copy   *)
(* and the store with the new tuples.  depth bounds how deep tuples nest;  *)
(* in a store of that many objects none nests deeper.                      *)
CopyValue[depth \in Nat] ==
  [x \in Stored |->
     LET v  == x[1]
         h  == x[2]
         es == CopyElems(CopyValue[depth - 1], h[v.v].elems, h)
     IN  IF depth = 0 \/ v.k # "tuple" \/ v.v \notin DOMAIN h THEN x
         ELSE << Handle("tuple", Len(es[2]) + 1),
                 Append(es[2], Plain("tuple", h[v.v].ty, es[1])) >>]

(* The tuples a value holds on the store h: the one it is, and those the   *)
(* elements of a tuple hold.  depth as for CopyValue.                      *)
TuplesIn[depth \in Nat] ==
  [x \in Stored |->
     LET v == x[1]
         h == x[2]
     IN  IF depth = 0 \/ v.k # "tuple" \/ v.v \notin DOMAIN h THEN {}
         ELSE {v.v} \cup UNION {TuplesIn[depth - 1][<<h[v.v].elems[i], h>>] :
                                  i \in DOMAIN h[v.v].elems}]

(* What a value is, wherever it lies: the values found in it, each with    *)
(* the way there, the places in tuples one goes through.  Of a tuple only  *)
(* its length is noted.  depth as for CopyValue.                           *)
Contents[depth \in Nat] ==
  [x \in Stored |->
     LET v == x[1]
         h == x[2]
         es == h[v.v].elems
     IN  IF depth = 0 \/ v.k # "tuple" \/ v.v \notin DOMAIN h THEN {<< << >>, v>>}
         ELSE {<< << >>, Handle("tuple", Len(es))>>} \cup
              UNION {{<< <<i>> \o p[1], p[2]>> : p \in Contents[depth - 1][<<es[i], h>>]} :
                       i \in DOMAIN es}]

(* A handle leads to an object of its kind; Rust's Box and Rc always do,   *)
(* and heap indexes a Vec with an ObjectId.                                *)
Leads(v, h) ==
  v.k \in Handles =>
    /\ v.v \in DOMAIN h
    /\ IF v.k = "ref" THEN h[v.v].k \notin Handles ELSE h[v.v].k = v.k

AllLead(vs, h) == \A i \in DOMAIN vs : Leads(vs[i], h)

ElemsLead(h) == \A o \in DOMAIN h : AllLead(h[o].elems, h)

(* The type ids PredefinedTypes::install gives out, in its order.          *)
PredefinedType ==
  [any |-> 0, bottom |-> 1, char |-> 2, char32 |-> 3, float |-> 4, int |-> 5,
   logic |-> 6, rational |-> 7, string |-> 8, void |-> 9]

-----------------------------------------------------------------------------
(* i64 arithmetic.                                                         *)

I64 == -(MaxInt + 1) .. MaxInt

Wrap(n) == ((n + MaxInt + 1) % (2 * (MaxInt + 1))) - (MaxInt + 1)

Arith(op, m, n) ==
  CASE op = "Add" -> m + n
    [] op = "Sub" -> m - n
    [] OTHER      -> m * n

Abs(n) == IF n < 0 THEN -n ELSE n

(* Rust's / rounds towards zero.                                           *)
Quotient(m, n) ==
  LET q == Abs(m) \div Abs(n) IN IF (m < 0) = (n < 0) THEN q ELSE -q

(* Add, Sub and Mul are implemented for two ints and for two floats; every *)
(* other pair is unimplemented!().                                         *)
Arithmetic(op, l, r) ==
  \/ l.k = "float" /\ r.k = "float"
  \/ /\ l.k = "int" /\ r.k = "int"
     /\ OverflowChecks => Arith(op, l.v, r.v) \in I64

ArithResults(op, l, r) ==
  IF l.k = "int" THEN {IntV(Wrap(Arith(op, l.v, r.v)))} ELSE {Float(0), Float(1)}

IsZero(x) == x.v = 0

(* i64::MIN / -1 panics in every build.                                    *)
Divisible(l, r) ==
  \/ l.k = "float" /\ r.k = "float"
  \/ l.k = "int" /\ r.k = "int" /\ Quotient(l.v, r.v) \in I64

DivResults(l, r) ==
  IF l.k = "int" THEN {IntV(Quotient(l.v, r.v))} ELSE {Float(0), Float(1)}

Negatable(x) ==
  \/ x.k = "float"
  \/ x.k = "int" /\ (OverflowChecks => -x.v \in I64)

Negated(x) == IF x.k = "int" THEN IntV(Wrap(-x.v)) ELSE x

(* Only ints are comparable: PartialEq and PartialOrd know ints and        *)
(* rationals, and no instruction makes a rational.                         *)
CompareOps == {"Eq", "Ne", "Gt", "Ge", "Lt", "Le"}

Holds(op, m, n) ==
  CASE op = "Eq" -> m = n
    [] op = "Ne" -> m # n
    [] op = "Gt" -> m > n
    [] op = "Ge" -> m >= n
    [] op = "Lt" -> m < n
    [] OTHER     -> m <= n
=============================================================================
