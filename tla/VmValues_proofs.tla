--------------------------- MODULE VmValues_proofs ---------------------------
(***************************************************************************)
(* What copy_value makes, whatever it is given: a value in a store that    *)
(* kept every object it had, with new tuples behind them.  And what a      *)
(* value is with the tuples in it, of which a copy has the same.           *)
(***************************************************************************)
EXTENDS VmValues, Recursion, SequenceTheorems

Store == Seq(Obj(Nat, CellId))

(* A store that has all the objects of h, and new tuples behind them.      *)
Extends(h, more) ==
  /\ Len(h) <= Len(more)
  /\ \A o \in DOMAIN h : more[o] = h[o]
  /\ \A o \in DOMAIN more : o \notin DOMAIN h =>
       more[o].k = "tuple" /\ more[o].fn = 0 /\ more[o].up = << >>

(* Extending twice is extending.                                           *)
LEMMA ExtendsTwice ==
  ASSUME NEW h \in Store, NEW m \in Store, NEW g \in Store, Extends(h, m), Extends(m, g)
  PROVE  Extends(h, g)
<1>1. /\ DOMAIN h = 1 .. Len(h) /\ DOMAIN m = 1 .. Len(m) /\ DOMAIN g = 1 .. Len(g)
      /\ Len(h) \in Nat /\ Len(m) \in Nat /\ Len(g) \in Nat
  BY LenProperties DEF Store
<1> QED
  BY <1>1 DEF Extends

(* What a longer store still leads to.                                     *)
LEMMA LeadsOn ==
  ASSUME NEW h \in Store, NEW g \in Store, Extends(h, g), NEW v, Leads(v, h)
  PROVE  Leads(v, g)
<1>1. DOMAIN h \subseteq DOMAIN g
  BY LenProperties DEF Store, Extends
<1> QED
  BY <1>1 DEF Extends, Leads

(* y is a copy of what x holds.                                            *)
CopyMade(x, y) ==
  /\ y \in Stored
  /\ Extends(x[2], y[2])
  /\ Leads(x[1], x[2]) /\ ElemsLead(x[2]) => Leads(y[1], y[2]) /\ ElemsLead(y[2])

Copier(copy) == copy \in [Stored -> Stored] /\ \A x \in Stored : CopyMade(x, copy[x])

(* CopyElems is the end of a recursion over the elements.                  *)
LEMMA CopyElemsUnfolds ==
  ASSUME NEW copy \in [Stored -> Stored], NEW es \in Seq(Value), NEW h \in Store
  PROVE  \E done \in [0 .. Len(es) -> Seq(Value) \X Store] :
           /\ CopyElems(copy, es, h) = done[Len(es)]
           /\ done[0] = << << >>, h >>
           /\ \A i \in 0 .. Len(es) - 1 :
                LET c == copy[<<es[i + 1], done[i][2]>>]
                IN  done[i + 1] = <<Append(done[i][1], c[1]), c[2]>>
<1> DEFINE n == Len(es)
           S == Seq(Value) \X Store
           base == << << >>, h >>
           step == [x \in (0 .. n - 1) \X S |->
                      LET c == copy[<<es[x[1] + 1], x[2][2]>>]
                      IN  <<Append(x[2][1], c[1]), c[2]>>]
           Val(done, i) ==
             IF i = 0 THEN << << >>, h >>
             ELSE LET c == copy[<<es[i], done[i - 1][2]>>]
                  IN  <<Append(done[i - 1][1], c[1]), c[2]>>
           done == CHOOSE done : done = [i \in 0 .. n |-> Val(done, i)]
<1>1. n \in Nat
  BY LenProperties
<1>2. base \in S
  BY EmptySeq
<1>3. step \in [(0 .. n - 1) \X S -> S]
  <2> SUFFICES ASSUME NEW i \in 0 .. n - 1, NEW s \in S
               PROVE  <<Append(s[1], copy[<<es[i + 1], s[2]>>][1]),
                        copy[<<es[i + 1], s[2]>>][2]>> \in S
    OBVIOUS
  <2>1. es[i + 1] \in Value
    BY <1>1, ElementOfSeq
  <2>2. copy[<<es[i + 1], s[2]>>] \in Stored
    BY <2>1 DEF Stored, Store
  <2> QED
    BY <2>2, AppendProperties DEF Stored, Store
<1>4. \A i \in 0 .. n - 1 : \A s \in S :
        LET c == copy[<<es[i + 1], s[2]>>]
        IN  step[<<i, s>>] = <<Append(s[1], c[1]), c[2]>>
  OBVIOUS
<1> HIDE DEF step, base, S
<1>5. PICK f \in [0 .. n -> S] : Follows(f, n, base, step)
  BY <1>1, <1>2, <1>3, BoundedRecursionExists
<1>6. f = [i \in 0 .. n |-> Val(f, i)]
  <2>1. f[0] = Val(f, 0)
    BY <1>5 DEF Follows, base
  <2>2. ASSUME NEW i \in 1 .. n
        PROVE  f[i] = Val(f, i)
    <3>1. i - 1 \in 0 .. n - 1 /\ (i - 1) + 1 = i /\ i - 1 \in 0 .. n /\ i # 0
      BY <1>1
    <3>2. f[i - 1] \in S
      BY <3>1
    <3>3. f[i] = step[<<i - 1, f[i - 1]>>]
      BY <1>5, <3>1 DEF Follows
    <3> QED
      BY <1>4, <3>1, <3>2, <3>3
  <2> HIDE DEF Val
  <2>3. \A i \in 0 .. n : f[i] = Val(f, i)
    BY <1>1, <2>1, <2>2
  <2> QED
    BY <2>3
<1>7. done = [i \in 0 .. n |-> Val(done, i)]
  BY <1>6
<1>8. CopyElems(copy, es, h) = done[n]
  BY DEF CopyElems
<1> HIDE DEF done
<1>9. done[0] = << << >>, h >>
  BY <1>1, <1>7
<1>10. ASSUME NEW i \in 0 .. n - 1
       PROVE  LET c == copy[<<es[i + 1], done[i][2]>>]
              IN  done[i + 1] = <<Append(done[i][1], c[1]), c[2]>>
  <2>1. i + 1 \in 0 .. n /\ i + 1 # 0 /\ (i + 1) - 1 = i
    BY <1>1
  <2> HIDE DEF Val
  <2>2. done[i + 1] = Val(done, i + 1)
    BY <1>7, <2>1
  <2> QED
    BY <2>1, <2>2 DEF Val
<1>11. \A i \in 0 .. n : done[i] \in S
  <2> DEFINE P == {i \in 0 .. n : done[i] \in S}
  <2>1. 0 \in P
    BY <1>1, <1>2, <1>9 DEF base
  <2>2. ASSUME NEW i \in 0 .. n - 1, i \in P
        PROVE  i + 1 \in P
    <3>1. step[<<i, done[i]>>] \in S
      BY <1>3, <2>2
    <3>2. done[i + 1] = step[<<i, done[i]>>]
      BY <1>4, <1>10, <2>2
    <3> QED
      BY <1>1, <3>1, <3>2
  <2> HIDE DEF P
  <2>3. 0 .. n \subseteq P
    BY <1>1, <2>1, <2>2, BoundedInduction
  <2> QED
    BY <2>3 DEF P
<1> HIDE DEF Val
<1>12. done \in [0 .. n -> S]
  BY <1>7, <1>11
<1> HIDE DEF n
<1> QED
  BY <1>8, <1>9, <1>10, <1>12 DEF n, S

(* The copies of es in a store that has grown.                             *)
ElemsMade(es, h, n, s) ==
  /\ s[1] \in Seq(Value) /\ Len(s[1]) = n
  /\ s[2] \in Store
  /\ Extends(h, s[2])
  /\ ElemsLead(h) /\ AllLead(es, h) => ElemsLead(s[2]) /\ AllLead(s[1], s[2])

(* One more element is copied.                                             *)
LEMMA ElemCopied ==
  ASSUME NEW copy, Copier(copy), NEW es \in Seq(Value), NEW h \in Store,
         NEW n \in 0 .. Len(es) - 1, NEW s, ElemsMade(es, h, n, s)
  PROVE  LET c == copy[<<es[n + 1], s[2]>>]
         IN  ElemsMade(es, h, n + 1, <<Append(s[1], c[1]), c[2]>>)
<1> DEFINE x == <<es[n + 1], s[2]>>
           c == copy[x]
           t == <<Append(s[1], c[1]), c[2]>>
<1>1. Len(es) \in Nat /\ n \in Nat /\ n + 1 \in 1 .. Len(es) /\ DOMAIN es = 1 .. Len(es)
  BY LenProperties
<1>2. es[n + 1] \in Value
  BY <1>1, ElementOfSeq
<1>3. s[1] \in Seq(Value) /\ Len(s[1]) = n /\ s[2] \in Store /\ Extends(h, s[2])
  BY DEF ElemsMade
<1>4. x \in Stored /\ x[1] = es[n + 1] /\ x[2] = s[2]
  BY <1>2, <1>3 DEF Stored, Store
<1> HIDE DEF x
<1>5. CopyMade(x, c)
  BY <1>4 DEF Copier
<1>6. c[1] \in Value /\ c[2] \in Store /\ Extends(s[2], c[2])
  BY <1>4, <1>5 DEF CopyMade, Stored, Store
<1>7. /\ t[1] = Append(s[1], c[1]) /\ t[2] = c[2]
      /\ t[1] \in Seq(Value) /\ Len(t[1]) = n + 1
      /\ \A i \in 1 .. n : t[1][i] = s[1][i]
      /\ t[1][n + 1] = c[1]
  BY <1>1, <1>3, <1>6, AppendProperties
<1>8. Extends(h, c[2])
  BY <1>3, <1>6, ExtendsTwice
<1>9. ASSUME ElemsLead(h), AllLead(es, h)
      PROVE  ElemsLead(c[2]) /\ AllLead(t[1], c[2])
  <2>1. ElemsLead(s[2]) /\ \A i \in 1 .. n : Leads(s[1][i], s[2])
    BY <1>3, <1>9, LenProperties DEF ElemsMade, AllLead
  <2>2. Leads(es[n + 1], s[2])
    BY <1>1, <1>3, <1>9, LeadsOn DEF AllLead
  <2>3. Leads(c[1], c[2]) /\ ElemsLead(c[2])
    BY <1>4, <1>5, <2>1, <2>2 DEF CopyMade
  <2>4. \A i \in 1 .. n : Leads(s[1][i], c[2])
    BY <1>3, <1>6, <2>1, LeadsOn
  <2> HIDE DEF t
  <2>5. DOMAIN t[1] = 1 .. n + 1
    BY <1>7, LenProperties
  <2> QED
    BY <1>1, <1>7, <2>3, <2>4, <2>5 DEF AllLead
<1> HIDE DEF t
<1>10. ElemsMade(es, h, n + 1, t)
  BY <1>6, <1>7, <1>8, <1>9 DEF ElemsMade
<1> QED
  BY <1>10 DEF t, c, x

(* CopyElems makes as many copies as there are elements.                   *)
LEMMA CopyElemsMade ==
  ASSUME NEW copy, Copier(copy), NEW es \in Seq(Value), NEW h \in Store
  PROVE  ElemsMade(es, h, Len(es), CopyElems(copy, es, h))
<1>1. copy \in [Stored -> Stored]
  BY DEF Copier
<1>2. PICK done \in [0 .. Len(es) -> Seq(Value) \X Store] :
           /\ CopyElems(copy, es, h) = done[Len(es)]
           /\ done[0] = << << >>, h >>
           /\ \A i \in 0 .. Len(es) - 1 :
                LET c == copy[<<es[i + 1], done[i][2]>>]
                IN  done[i + 1] = <<Append(done[i][1], c[1]), c[2]>>
  BY <1>1, CopyElemsUnfolds, ZenonT(40)
<1>3. Len(es) \in Nat
  BY LenProperties
<1> DEFINE P == {i \in 0 .. Len(es) : ElemsMade(es, h, i, done[i])}
<1>4. 0 \in P
  <2>1. Extends(h, h)
    BY LenProperties DEF Extends, Store
  <2>2. << >> \in Seq(Value) /\ Len(<< >>) = 0
    BY EmptySeq
  <2>3. done[0][1] = << >> /\ done[0][2] = h
    BY <1>2
  <2>4. ElemsMade(es, h, 0, done[0])
    BY <2>1, <2>2, <2>3 DEF ElemsMade, AllLead
  <2> QED
    BY <1>3, <2>4
<1>5. ASSUME NEW i \in 0 .. Len(es) - 1, i \in P
      PROVE  i + 1 \in P
  <2>1. ElemsMade(es, h, i, done[i])
    BY <1>5
  <2> DEFINE c == copy[<<es[i + 1], done[i][2]>>]
  <2>2. done[i + 1] = <<Append(done[i][1], c[1]), c[2]>>
    BY <1>2
  <2>3. ElemsMade(es, h, i + 1, <<Append(done[i][1], c[1]), c[2]>>)
    BY <2>1, ElemCopied
  <2>4. ElemsMade(es, h, i + 1, done[i + 1])
    BY <2>2, <2>3
  <2> QED
    BY <1>3, <2>4
<1> HIDE DEF P
<1>6. 0 .. Len(es) \subseteq P
  BY <1>3, <1>4, <1>5, BoundedInduction
<1>7. Len(es) \in P
  BY <1>3, <1>6
<1> QED
  BY <1>2, <1>7 DEF P

(* One level of copying, on top of a function that copies the levels       *)
(* below.                                                                  *)
Level(copy, x) ==
  LET es == CopyElems(copy, x[2][x[1].v].elems, x[2])
  IN  IF x[1].k # "tuple" \/ x[1].v \notin DOMAIN x[2] THEN x
      ELSE << Handle("tuple", Len(es[2]) + 1),
              Append(es[2], Plain("tuple", x[2][x[1].v].ty, es[1])) >>

(* It copies, if what is below does.                                       *)
LEMMA LevelCopies ==
  ASSUME NEW copy, Copier(copy), NEW x \in Stored
  PROVE  CopyMade(x, Level(copy, x))
<1> DEFINE h  == x[2]
           v  == x[1]
<1>1. h \in Store /\ v \in Value /\ Len(h) \in Nat /\ DOMAIN h = 1 .. Len(h)
  BY LenProperties DEF Stored, Store
<1>2. CASE v.k # "tuple" \/ v.v \notin DOMAIN h
  <2>1. Level(copy, x) = x
    BY <1>2 DEF Level
  <2>2. Extends(h, h)
    BY <1>1 DEF Extends
  <2> QED
    BY <2>1, <2>2 DEF CopyMade
<1>3. CASE v.k = "tuple" /\ v.v \in DOMAIN h
  <2> DEFINE es == CopyElems(copy, h[v.v].elems, h)
             t  == Plain("tuple", h[v.v].ty, es[1])
             g  == Append(es[2], t)
             w  == Handle("tuple", Len(es[2]) + 1)
  <2>1. h[v.v] \in Obj(Nat, CellId)
    BY <1>1, <1>3, ElementOfSeq DEF Store
  <2>2. h[v.v].elems \in Seq(Value) /\ h[v.v].ty \in Nat
    BY <2>1 DEF Obj
  <2>3. ElemsMade(h[v.v].elems, h, Len(h[v.v].elems), es)
    BY <1>1, <2>2, CopyElemsMade
  <2>4. Level(copy, x) = <<w, g>>
    BY <1>3 DEF Level
  <2> HIDE DEF es
  <2>5. /\ es[1] \in Seq(Value) /\ es[2] \in Store /\ Extends(h, es[2])
        /\ Len(es[2]) \in Nat /\ DOMAIN es[2] = 1 .. Len(es[2])
    BY <2>3, LenProperties DEF ElemsMade, Store
  <2>6. /\ t \in Obj(Nat, CellId) /\ t.k = "tuple" /\ t.fn = 0 /\ t.up = << >>
        /\ t.elems = es[1]
    BY <2>2, <2>5, EmptySeq DEF Plain, Obj, ObjKinds
  <2> HIDE DEF t
  <2>7. /\ g \in Store /\ Len(g) = Len(es[2]) + 1
        /\ DOMAIN g = 1 .. Len(es[2]) + 1
        /\ \A o \in DOMAIN es[2] : g[o] = es[2][o]
        /\ g[Len(es[2]) + 1] = t
    BY <2>5, <2>6, AppendProperties, LenProperties DEF Store
  <2> HIDE DEF g
  <2>8. Extends(es[2], g)
    BY <2>5, <2>6, <2>7 DEF Extends
  <2>9. Extends(h, g)
    BY <1>1, <2>5, <2>7, <2>8, ExtendsTwice
  <2>10. w \in Value /\ w.k = "tuple" /\ w.v = Len(es[2]) + 1
    BY <2>5 DEF Handle, Value, Kinds, Handles
  <2>11. <<w, g>> \in Stored
    BY <2>7, <2>10 DEF Stored, Store
  <2>12. ASSUME Leads(v, h), ElemsLead(h)
         PROVE  Leads(w, g) /\ ElemsLead(g)
    <3>1. Leads(w, g)
      BY <2>5, <2>6, <2>7, <2>10 DEF Leads
    <3>2. AllLead(h[v.v].elems, h)
      BY <1>3, <2>12 DEF ElemsLead
    <3>3. ElemsLead(es[2]) /\ AllLead(es[1], es[2])
      BY <2>3, <2>12, <3>2 DEF ElemsMade
    <3>4. AllLead(t.elems, g)
      BY <2>5, <2>6, <2>7, <2>8, <3>3, LeadsOn DEF AllLead
    <3>5. \A o \in DOMAIN es[2] : AllLead(es[2][o].elems, g)
      BY <2>5, <2>7, <2>8, <3>3, LeadsOn DEF ElemsLead, AllLead
    <3>6. ElemsLead(g)
      BY <2>5, <2>7, <3>4, <3>5 DEF ElemsLead
    <3> QED
      BY <3>1, <3>6
  <2> HIDE DEF w
  <2> QED
    BY <2>4, <2>9, <2>11, <2>12 DEF CopyMade
<1> QED
  BY <1>2, <1>3

(* CopyValue exists, and goes one level further at each depth.             *)
LEMMA CopyValueUnfolds ==
  ASSUME NEW depth \in Nat
  PROVE  CopyValue[depth] =
           [x \in Stored |-> IF depth = 0 THEN x ELSE Level(CopyValue[depth - 1], x)]
<1> DEFINE Copiers == {copy \in [Stored -> Stored] : Copier(copy)}
           base == [x \in Stored |-> x]
           step == [s \in Nat \X Copiers |-> [x \in Stored |-> Level(s[2], x)]]
           Body(f, d, x) ==
             LET v  == x[1]
                 h  == x[2]
                 es == CopyElems(f[d - 1], h[v.v].elems, h)
             IN  IF d = 0 \/ v.k # "tuple" \/ v.v \notin DOMAIN h THEN x
                 ELSE << Handle("tuple", Len(es[2]) + 1),
                         Append(es[2], Plain("tuple", h[v.v].ty, es[1])) >>
           Val(f, d) == [x \in Stored |-> Body(f, d, x)]
<1>1. base \in Copiers
  <2>1. ASSUME NEW x \in Stored
        PROVE  CopyMade(x, x)
    <3>1. Extends(x[2], x[2])
      BY LenProperties DEF Extends, Stored
    <3> QED
      BY <3>1 DEF CopyMade
  <2> QED
    BY <2>1 DEF Copier
<1>2. \A copy \in Copiers : [x \in Stored |-> Level(copy, x)] \in Copiers
  <2> SUFFICES ASSUME NEW copy \in Copiers
               PROVE  [x \in Stored |-> Level(copy, x)] \in Copiers
    OBVIOUS
  <2>1. \A x \in Stored : CopyMade(x, Level(copy, x)) /\ Level(copy, x) \in Stored
    BY LevelCopies DEF CopyMade
  <2> QED
    BY <2>1 DEF Copier
<1>3. step \in [Nat \X Copiers -> Copiers]
  BY <1>2
<1>4. \A d \in Nat : \A copy \in Copiers :
        step[<<d, copy>>] = [x \in Stored |-> Level(copy, x)]
  OBVIOUS
<1> HIDE DEF step, Copiers
<1>5. PICK f \in [Nat -> Copiers] : \A n \in Nat : Follows(f, n, base, step)
  BY <1>1, <1>3, RecursionExists
<1> DEFINE Up(f1, d, x) == IF d = 0 THEN x ELSE Level(f1[d - 1], x)
           Lifted(f1, d)  == [x \in Stored |-> Up(f1, d, x)]
<1>6. \A f1, d : Val(f1, d) = Lifted(f1, d)
  <2>1. \A f1, d, x : Body(f1, d, x) = Up(f1, d, x)
    BY ZenonT(40) DEF Level
  <2> HIDE DEF Body, Up
  <2> QED
    BY <2>1
<1>7. f = [d \in Nat |-> Val(f, d)]
  <2>1. f[0] = Lifted(f, 0)
    BY <1>5 DEF Follows
  <2>2. ASSUME NEW d \in Nat \ {0}
        PROVE  f[d] = Lifted(f, d)
    <3>1. d - 1 \in Nat /\ (d - 1) + 1 = d /\ d - 1 \in 0 .. d - 1
      OBVIOUS
    <3>2. f[d - 1] \in Copiers
      BY <3>1
    <3>3. f[d] = step[<<d - 1, f[d - 1]>>]
      BY <1>5, <3>1 DEF Follows
    <3> QED
      BY <1>4, <3>1, <3>2, <3>3
  <2> HIDE DEF Lifted, Val
  <2>3. \A d \in Nat : f[d] = Val(f, d)
    BY <1>6, <2>1, <2>2
  <2> QED
    BY <2>3
<1>8. CopyValue = [d \in Nat |-> Val(CopyValue, d)]
  BY <1>7 DEF CopyValue
<1> HIDE DEF Val, Lifted
<1>9. CopyValue[depth] = Lifted(CopyValue, depth)
  BY <1>6, <1>8
<1> QED
  BY <1>9 DEF Lifted

(* copy_value copies, to every depth.                                      *)
LEMMA CopyValueCopies ==
  ASSUME NEW depth \in Nat
  PROVE  Copier(CopyValue[depth])
<1> DEFINE P == {d \in Nat : Copier(CopyValue[d])}
<1>1. 0 \in P
  <2>1. CopyValue[0] = [x \in Stored |-> x]
    BY CopyValueUnfolds
  <2>2. ASSUME NEW x \in Stored
        PROVE  CopyMade(x, x)
    <3>1. Extends(x[2], x[2])
      BY LenProperties DEF Extends, Stored
    <3> QED
      BY <3>1 DEF CopyMade
  <2>3. Copier(CopyValue[0])
    BY <2>1, <2>2 DEF Copier
  <2> QED
    BY <2>3
<1>2. ASSUME NEW d \in Nat, d \in P
      PROVE  d + 1 \in P
  <2>1. CopyValue[d + 1] = [x \in Stored |-> Level(CopyValue[d], x)]
    BY CopyValueUnfolds
  <2>2. \A x \in Stored : CopyMade(x, Level(CopyValue[d], x))
    BY <1>2, LevelCopies
  <2>3. Copier(CopyValue[d + 1])
    BY <2>1, <2>2 DEF Copier, CopyMade
  <2> QED
    BY <2>3
<1> HIDE DEF P
<1>3. depth \in P
  BY <1>1, <1>2, NaturalInduction
<1> QED
  BY <1>3 DEF P

-----------------------------------------------------------------------------
(* What copy_value makes is apart: where tuples lie in it, and that nobody *)
(* else holds them.                                                        *)

Tup(v) == v.k = "tuple"

(* If v is a tuple, it is one of S and lies at that place.                 *)
LiesAt(S, at, v, place) == Tup(v) => v.v \in S /\ at[v.v] = place

(* The tuples S are held once each: at says where, by vs (whose places are *)
(* <<0, i>>) or by one of S (its places are <<o, k>>).                     *)
Forest(S, at, vs, h) ==
  /\ S \subseteq DOMAIN h
  /\ \A i \in DOMAIN vs : LiesAt(S, at, vs[i], <<0, i>>)
  /\ \A o \in S : \A k \in DOMAIN h[o].elems : LiesAt(S, at, h[o].elems[k], <<o, k>>)

(* What a forest holds in one store it holds in another, if that has the   *)
(* same tuples.                                                            *)
SameElems(S, h, g) == \A o \in S : o \in DOMAIN g /\ g[o].elems = h[o].elems

(* Fewer values hold what there is.                                        *)
LEMMA ForestKept ==
  ASSUME NEW S, NEW at, NEW vs, NEW h, Forest(S, at, vs, h),
         NEW ws, NEW g, SameElems(S, h, g),
         \A i \in DOMAIN ws : Tup(ws[i]) => i \in DOMAIN vs /\ ws[i] = vs[i]
  PROVE  Forest(S, at, ws, g)
<1>1. S \subseteq DOMAIN g
  BY DEF SameElems
<1>2. \A i \in DOMAIN ws : LiesAt(S, at, ws[i], <<0, i>>)
  BY DEF Forest, LiesAt
<1>3. \A o \in S : \A k \in DOMAIN g[o].elems : LiesAt(S, at, g[o].elems[k], <<o, k>>)
  BY DEF Forest, SameElems
<1> QED
  BY <1>1, <1>2, <1>3 DEF Forest

(* The same when values change places, each to one of its own.             *)
LEMMA ForestMoved ==
  ASSUME NEW S, NEW at, NEW vs, NEW h, Forest(S, at, vs, h), 0 \notin DOMAIN h,
         NEW ws, NEW from,
         \A i \in DOMAIN ws : Tup(ws[i]) => from[i] \in DOMAIN vs /\ ws[i] = vs[from[i]],
         \A i, j \in DOMAIN ws : i # j => from[i] # from[j]
  PROVE  \E bt : Forest(S, bt, ws, h)
<1> DEFINE Of(o) == {i \in DOMAIN ws : at[o] = <<0, from[i]>>}
           bt == [o \in S |-> IF Of(o) = {} THEN at[o] ELSE <<0, CHOOSE i \in Of(o) : TRUE>>]
<1>1. S \subseteq DOMAIN h /\ 0 \notin S
  BY DEF Forest
<1>2. ASSUME NEW i \in DOMAIN ws
      PROVE  LiesAt(S, bt, ws[i], <<0, i>>)
  <2> SUFFICES ASSUME Tup(ws[i])
               PROVE  ws[i].v \in S /\ bt[ws[i].v] = <<0, i>>
    BY DEF LiesAt
  <2>1. ws[i].v \in S /\ at[ws[i].v] = <<0, from[i]>>
    BY DEF Forest, LiesAt
  <2>2. i \in Of(ws[i].v)
    BY <2>1
  <2>3. \A j \in Of(ws[i].v) : j = i
    <3> SUFFICES ASSUME NEW j \in Of(ws[i].v)
                 PROVE  j = i
      OBVIOUS
    <3>1. j \in DOMAIN ws /\ <<0, from[j]>> = <<0, from[i]>>
      BY <2>1
    <3>2. from[j] = from[i]
      BY <3>1
    <3> QED
      BY <3>1, <3>2
  <2>4. bt[ws[i].v] = <<0, CHOOSE j \in Of(ws[i].v) : TRUE>>
    BY <2>1, <2>2
  <2> HIDE DEF Of, bt
  <2>5. (CHOOSE j \in Of(ws[i].v) : TRUE) = i
    BY <2>2, <2>3
  <2> QED
    BY <2>1, <2>4, <2>5
<1>3. ASSUME NEW o \in S, NEW k \in DOMAIN h[o].elems
      PROVE  LiesAt(S, bt, h[o].elems[k], <<o, k>>)
  <2> DEFINE e == h[o].elems[k]
  <2>1. LiesAt(S, at, e, <<o, k>>)
    BY DEF Forest
  <2>2. \A x : <<o, k>> # <<0, x>>
    BY <1>1
  <2>3. Tup(e) => e.v \in S /\ Of(e.v) = {}
    BY <2>1, <2>2 DEF LiesAt
  <2> HIDE DEF e, Of
  <2>4. Tup(e) => bt[e.v] = at[e.v]
    BY <2>3
  <2> HIDE DEF bt
  <2>5. LiesAt(S, bt, e, <<o, k>>)
    BY <2>1, <2>4 DEF LiesAt
  <2> QED
    BY <2>5 DEF e
<1> HIDE DEF bt, Of
<1> QED
  BY <1>1, <1>2, <1>3 DEF Forest

(* Where tuples lie when new ones come, whose one value has found a place. *)
LEMMA ForestsJoin ==
  ASSUME NEW S, NEW at, NEW h, S \subseteq DOMAIN h,
         NEW T, NEW bt, NEW c, NEW g, Forest(T, bt, <<c>>, g),
         S \cap T = {}, 0 \notin DOMAIN g, SameElems(S, h, g), NEW place
  PROVE  \E ct : /\ \A v, p : LiesAt(S, at, v, p) => LiesAt(S \cup T, ct, v, p)
                 /\ LiesAt(S \cup T, ct, c, place)
                 /\ \A o \in T : \A k \in DOMAIN g[o].elems :
                      LiesAt(S \cup T, ct, g[o].elems[k], <<o, k>>)
<1> DEFINE ct == [o \in S \cup T |-> IF o \in S THEN at[o]
                                     ELSE IF bt[o] = <<0, 1>> THEN place ELSE bt[o]]
<1>1. /\ \A o \in S : ct[o] = at[o]
      /\ \A o \in T : ct[o] = IF bt[o] = <<0, 1>> THEN place ELSE bt[o]
  OBVIOUS
<1> HIDE DEF ct
<1>2. \A v, p : LiesAt(S, at, v, p) => LiesAt(S \cup T, ct, v, p)
  BY <1>1 DEF LiesAt
<1>3. LiesAt(T, bt, c, <<0, 1>>)
  <2>1. 1 \in DOMAIN <<c>> /\ <<c>>[1] = c
    OBVIOUS
  <2> QED
    BY <2>1 DEF Forest
<1>4. LiesAt(S \cup T, ct, c, place)
  BY <1>1, <1>3 DEF LiesAt
<1>5. ASSUME NEW o \in T, NEW k \in DOMAIN g[o].elems
      PROVE  LiesAt(S \cup T, ct, g[o].elems[k], <<o, k>>)
  <2>1. LiesAt(T, bt, g[o].elems[k], <<o, k>>)
    BY DEF Forest
  <2>2. o # 0
    BY DEF Forest
  <2>3. <<o, k>> # <<0, 1>>
    BY <2>2
  <2> QED
    BY <1>1, <2>1, <2>3 DEF LiesAt
<1> QED
  BY <1>2, <1>4, <1>5

(* ws is vs, and c in place i.                                             *)
OneSet(vs, ws, i, c) ==
  \A j \in DOMAIN ws : IF j = i THEN ws[j] = c ELSE j \in DOMAIN vs /\ ws[j] = vs[j]

(* A value takes the place of another, or the one behind the last, and     *)
(* holds tuples that nothing held.                                         *)
LEMMA ForestPlaced ==
  ASSUME NEW S, NEW at, NEW vs, NEW h, Forest(S, at, vs, h),
         NEW T, NEW bt, NEW c, NEW g, Forest(T, bt, <<c>>, g),
         S \cap T = {}, 0 \notin DOMAIN g, SameElems(S, h, g),
         NEW ws, NEW i, OneSet(vs, ws, i, c)
  PROVE  \E ct : Forest(S \cup T, ct, ws, g)
<1>1. S \subseteq DOMAIN h
  BY DEF Forest
<1>2. PICK ct : /\ \A v, p : LiesAt(S, at, v, p) => LiesAt(S \cup T, ct, v, p)
                /\ LiesAt(S \cup T, ct, c, <<0, i>>)
                /\ \A o \in T : \A k \in DOMAIN g[o].elems :
                     LiesAt(S \cup T, ct, g[o].elems[k], <<o, k>>)
  BY <1>1, ForestsJoin
<1>3. S \cup T \subseteq DOMAIN g
  BY DEF Forest, SameElems
<1>4. \A j \in DOMAIN ws : LiesAt(S \cup T, ct, ws[j], <<0, j>>)
  <2>1. \A j \in DOMAIN vs : LiesAt(S \cup T, ct, vs[j], <<0, j>>)
    BY <1>2 DEF Forest
  <2> QED
    BY <1>2, <2>1 DEF OneSet
<1>5. \A o \in S : \A k \in DOMAIN g[o].elems :
        LiesAt(S \cup T, ct, g[o].elems[k], <<o, k>>)
  BY <1>2 DEF Forest, SameElems
<1> QED
  BY <1>2, <1>3, <1>4, <1>5 DEF Forest

(* w is g with c written over an element of one object.                    *)
OneWritten(g, w, p, n, c) ==
  /\ DOMAIN w = DOMAIN g /\ Len(w) = Len(g)
  /\ w[p].elems = [g[p].elems EXCEPT ![n] = c]
  /\ \A o \in DOMAIN g : w[o].k = g[o].k /\ (o # p => w[o].elems = g[o].elems)

(* The same for a place in a tuple.                                        *)
LEMMA ForestWritten ==
  ASSUME NEW S, NEW at, NEW vs, NEW h, Forest(S, at, vs, h),
         NEW T, NEW bt, NEW c, NEW g, Forest(T, bt, <<c>>, g),
         S \cap T = {}, 0 \notin DOMAIN g, SameElems(S, h, g),
         NEW p \in S, NEW n, NEW w, OneWritten(g, w, p, n, c)
  PROVE  \E ct : Forest(S \cup T, ct, vs, w)
<1>1. S \subseteq DOMAIN h
  BY DEF Forest
<1>2. PICK ct : /\ \A v, q : LiesAt(S, at, v, q) => LiesAt(S \cup T, ct, v, q)
                /\ LiesAt(S \cup T, ct, c, <<p, n>>)
                /\ \A o \in T : \A k \in DOMAIN g[o].elems :
                     LiesAt(S \cup T, ct, g[o].elems[k], <<o, k>>)
  BY <1>1, ForestsJoin
<1>3. S \cup T \subseteq DOMAIN w /\ S \cup T \subseteq DOMAIN g
  BY DEF Forest, SameElems, OneWritten
<1>4. \A j \in DOMAIN vs : LiesAt(S \cup T, ct, vs[j], <<0, j>>)
  BY <1>2 DEF Forest
<1>5. \A o \in S : \A k \in DOMAIN h[o].elems :
        LiesAt(S \cup T, ct, h[o].elems[k], <<o, k>>)
  BY <1>2 DEF Forest
<1>6. \A k \in DOMAIN w[p].elems : LiesAt(S \cup T, ct, w[p].elems[k], <<p, k>>)
  <2>1. w[p].elems = [h[p].elems EXCEPT ![n] = c]
    BY DEF SameElems, OneWritten
  <2>2. \A k \in DOMAIN w[p].elems :
          k \in DOMAIN h[p].elems /\ w[p].elems[k] = IF k = n THEN c ELSE h[p].elems[k]
    BY <2>1
  <2>3. ASSUME NEW k \in DOMAIN w[p].elems
        PROVE  LiesAt(S \cup T, ct, w[p].elems[k], <<p, k>>)
    <3>1. CASE k = n
      BY <1>2, <2>2, <3>1
    <3>2. CASE k # n
      BY <1>5, <2>2, <3>2
    <3> QED
      BY <3>1, <3>2
  <2> QED
    BY <2>3
<1>7. \A o \in S : o # p =>
        \A k \in DOMAIN w[o].elems : LiesAt(S \cup T, ct, w[o].elems[k], <<o, k>>)
  BY <1>3, <1>5 DEF SameElems, OneWritten
<1>8. \A o \in T : \A k \in DOMAIN w[o].elems :
        LiesAt(S \cup T, ct, w[o].elems[k], <<o, k>>)
  <2>1. \A o \in T : w[o].elems = g[o].elems
    BY <1>1, <1>3 DEF OneWritten
  <2> QED
    BY <1>2, <2>1
<1> QED
  BY <1>3, <1>4, <1>6, <1>7, <1>8 DEF Forest

(* The values become the elements of a new tuple, and that the one value.  *)
LEMMA ForestBundled ==
  ASSUME NEW S, NEW at, NEW cs, NEW h, Forest(S, at, cs, h), 0 \notin DOMAIN h,
         NEW g, NEW p, p # 0, p \notin DOMAIN h, DOMAIN g = DOMAIN h \cup {p},
         \A o \in DOMAIN h : g[o] = h[o], g[p].elems = cs,
         NEW v, v.v = p
  PROVE  \E ct : Forest(S \cup {p}, ct, <<v>>, g)
<1> DEFINE ct == [o \in S \cup {p} |->
                    IF o = p THEN <<0, 1>>
                    ELSE IF at[o][1] = 0 THEN <<p, at[o][2]>> ELSE at[o]]
<1>1. /\ ct[p] = <<0, 1>>
      /\ \A o \in S : o # p => ct[o] = IF at[o][1] = 0 THEN <<p, at[o][2]>> ELSE at[o]
  OBVIOUS
<1> HIDE DEF ct
<1>2. S \subseteq DOMAIN h /\ p \notin S /\ 0 \notin S
  BY DEF Forest
<1>3. \A q, k : <<q, k>>[1] = q /\ <<q, k>>[2] = k
  OBVIOUS
<1>4. ASSUME NEW o \in S, NEW q, NEW k, at[o] = <<q, k>>
      PROVE  IF q = 0 THEN ct[o] = <<p, k>> ELSE ct[o] = at[o]
  <2>1. at[o][1] = q /\ at[o][2] = k
    BY <1>3, <1>4
  <2> QED
    BY <1>1, <1>2, <1>4, <2>1
<1>5. \A j \in DOMAIN <<v>> : LiesAt(S \cup {p}, ct, <<v>>[j], <<0, j>>)
  BY <1>1 DEF LiesAt
<1>6. ASSUME NEW k \in DOMAIN cs
      PROVE  LiesAt(S \cup {p}, ct, cs[k], <<p, k>>)
  <2>1. LiesAt(S, at, cs[k], <<0, k>>)
    BY DEF Forest
  <2> QED
    BY <1>4, <2>1 DEF LiesAt
<1>7. ASSUME NEW o \in S, NEW k \in DOMAIN g[o].elems
      PROVE  LiesAt(S \cup {p}, ct, g[o].elems[k], <<o, k>>)
  <2>1. LiesAt(S, at, g[o].elems[k], <<o, k>>)
    BY <1>2 DEF Forest
  <2>2. o # 0
    BY <1>2
  <2>3. \A x \in S : at[x] = <<o, k>> => ct[x] = at[x]
    BY <1>4, <2>2
  <2> QED
    BY <2>1, <2>3 DEF LiesAt
<1>8. S \cup {p} \subseteq DOMAIN g
  BY <1>2
<1> QED
  BY <1>5, <1>6, <1>7, <1>8 DEF Forest

(* r ranks the objects of h: what a tuple's tuples have falls.             *)
Falls(r, h) ==
  \A o \in DOMAIN h : h[o].k = "tuple" =>
    \A k \in DOMAIN h[o].elems : Tup(h[o].elems[k]) => r[h[o].elems[k].v] < r[o]

Fresh(h, g) == DOMAIN g \ DOMAIN h

(* The tuples that g has more than h are a forest of which vs holds the    *)
(* roots, and what is in one of them came before it.                       *)
FreshCopies(h, vs, g) ==
  /\ \E at : Forest(Fresh(h, g), at, vs, g)
  /\ \A o \in Fresh(h, g) : \A k \in DOMAIN g[o].elems :
       Tup(g[o].elems[k]) => g[o].elems[k].v < o

(* What is in a new tuple is new.                                          *)
LEMMA FreshElems ==
  ASSUME NEW h, NEW vs, NEW g, FreshCopies(h, vs, g),
         NEW o \in Fresh(h, g), NEW k \in DOMAIN g[o].elems, Tup(g[o].elems[k])
  PROVE  g[o].elems[k].v \in Fresh(h, g) /\ g[o].elems[k].v < o
BY DEF FreshCopies, Forest, LiesAt

(* The tuples that are in tuples are objects.                              *)
LEMMA ElemsIn ==
  ASSUME NEW h, ElemsLead(h), NEW o \in DOMAIN h, NEW k \in DOMAIN h[o].elems,
         Tup(h[o].elems[k])
  PROVE  h[o].elems[k].v \in DOMAIN h
BY DEF ElemsLead, AllLead, Leads, Tup, Handles

(* A store that has grown is ranked like the one it was.                   *)
LEMMA RanksGrow ==
  ASSUME NEW h \in Store, NEW g \in Store, Extends(h, g), ElemsLead(h),
         NEW vs, FreshCopies(h, vs, g), NEW r \in [DOMAIN h -> Nat], Falls(r, h)
  PROVE  \E q \in [DOMAIN g -> Nat] : Falls(q, g) /\ \A o \in DOMAIN h : q[o] = r[o]
<1> DEFINE q == [o \in DOMAIN g |-> IF o \in DOMAIN h THEN r[o] ELSE o]
<1>1. /\ DOMAIN h = 1 .. Len(h) /\ DOMAIN g = 1 .. Len(g) /\ DOMAIN h \subseteq DOMAIN g
      /\ Len(h) \in Nat /\ Len(g) \in Nat
  BY LenProperties DEF Store, Extends
<1>2. q \in [DOMAIN g -> Nat]
  BY <1>1
<1>3. \A o \in DOMAIN g : q[o] = IF o \in DOMAIN h THEN r[o] ELSE o
  OBVIOUS
<1> HIDE DEF q
<1>4. ASSUME NEW o \in DOMAIN g, g[o].k = "tuple", NEW k \in DOMAIN g[o].elems,
             Tup(g[o].elems[k])
      PROVE  q[g[o].elems[k].v] < q[o]
  <2> DEFINE e == g[o].elems[k]
  <2>1. CASE o \in DOMAIN h
    <3>1. g[o] = h[o]
      BY <2>1 DEF Extends
    <3>2. e.v \in DOMAIN h /\ r[e.v] < r[o]
      BY <1>4, <2>1, <3>1, ElemsIn DEF Falls
    <3> HIDE DEF e
    <3>3. q[e.v] < q[o]
      BY <1>1, <1>3, <2>1, <3>2
    <3> QED
      BY <3>3 DEF e
  <2>2. CASE o \notin DOMAIN h
    <3>1. e.v \in DOMAIN g /\ e.v \notin DOMAIN h /\ e.v < o
      BY <1>4, <2>2, FreshElems DEF Fresh
    <3> HIDE DEF e
    <3>2. q[e.v] < q[o]
      BY <1>3, <2>2, <3>1
    <3> QED
      BY <3>2 DEF e
  <2> QED
    BY <2>1, <2>2
<1>5. Falls(q, g)
  BY <1>4 DEF Falls
<1> QED
  BY <1>1, <1>2, <1>3, <1>5

(* A store that grows by one copy after others.                            *)
LEMMA FreshTwice ==
  ASSUME NEW h \in Store, NEW m \in Store, NEW g \in Store, Extends(h, m), Extends(m, g),
         NEW vs \in Seq(Value), NEW c \in Value,
         FreshCopies(h, vs, m), FreshCopies(m, <<c>>, g)
  PROVE  FreshCopies(h, Append(vs, c), g)
<1>1. /\ DOMAIN h = 1 .. Len(h) /\ DOMAIN m = 1 .. Len(m) /\ DOMAIN g = 1 .. Len(g)
      /\ Len(h) \in Nat /\ Len(m) \in Nat /\ Len(g) \in Nat
  BY LenProperties DEF Store
<1>2. DOMAIN h \subseteq DOMAIN m /\ DOMAIN m \subseteq DOMAIN g /\ 0 \notin DOMAIN g
  BY <1>1 DEF Extends
<1>3. /\ Fresh(h, m) \cup Fresh(m, g) = Fresh(h, g)
      /\ Fresh(h, m) \cap Fresh(m, g) = {}
  BY <1>2 DEF Fresh
<1>4. SameElems(Fresh(h, m), m, g)
  BY <1>2 DEF SameElems, Fresh, Extends
<1>5. PICK at : Forest(Fresh(h, m), at, vs, m)
  BY DEF FreshCopies
<1>6. PICK bt : Forest(Fresh(m, g), bt, <<c>>, g)
  BY DEF FreshCopies
<1>7. /\ Len(vs) \in Nat /\ DOMAIN vs = 1 .. Len(vs)
      /\ DOMAIN Append(vs, c) = 1 .. Len(vs) + 1
      /\ \A i \in 1 .. Len(vs) : Append(vs, c)[i] = vs[i]
      /\ Append(vs, c)[Len(vs) + 1] = c
  BY AppendProperties, LenProperties
<1> DEFINE ws == Append(vs, c)
<1> HIDE DEF ws
<1>8. OneSet(vs, ws, Len(vs) + 1, c)
  BY <1>7 DEF ws, OneSet
<1>9. \E ct : Forest(Fresh(h, m) \cup Fresh(m, g), ct, ws, g)
  <2> DEFINE S == Fresh(h, m)
             T == Fresh(m, g)
             i == Len(vs) + 1
  <2>1. /\ Forest(S, at, vs, m) /\ Forest(T, bt, << c >>, g)
        /\ S \cap T = {} /\ 0 \notin DOMAIN g /\ SameElems(S, m, g)
        /\ OneSet(vs, ws, i, c)
    BY <1>2, <1>3, <1>4, <1>5, <1>6, <1>8
  <2> HIDE DEF S, T, i
  <2>2. \E ct : Forest(S \cup T, ct, ws, g)
    BY <2>1, ForestPlaced
  <2> QED
    BY <2>2 DEF S, T
<1>10. ASSUME NEW o \in Fresh(h, g), NEW k \in DOMAIN g[o].elems, Tup(g[o].elems[k])
       PROVE  g[o].elems[k].v < o
  <2>1. CASE o \in Fresh(h, m)
    <3>1. g[o].elems = m[o].elems
      BY <1>4, <2>1 DEF SameElems
    <3> QED
      BY <1>10, <2>1, <3>1, FreshElems
  <2>2. CASE o \in Fresh(m, g)
    BY <1>10, <2>2, FreshElems
  <2> QED
    BY <1>3, <2>1, <2>2
<1> QED
  BY <1>3, <1>9, <1>10 DEF FreshCopies, ws

(* What holds no tuple has grown by nothing.                               *)
LEMMA FreshByNone ==
  ASSUME NEW h, NEW v, ~Tup(v)
  PROVE  FreshCopies(h, << v >>, h)
<1>1. Fresh(h, h) = {}
  BY DEF Fresh
<1>2. \A i \in DOMAIN << v >> : << v >>[i] = v
  OBVIOUS
<1>3. \A at : Forest({}, at, << v >>, h)
  BY <1>2 DEF Forest, LiesAt
<1> QED
  BY <1>1, <1>3 DEF FreshCopies

(* copy makes new tuples of all tuples of a rank below d.                  *)
CopiesBelow(copy, d) ==
  \A x \in Stored : \A r \in [DOMAIN x[2] -> Nat] :
    /\ Leads(x[1], x[2]) /\ ElemsLead(x[2]) /\ Falls(r, x[2])
    /\ Tup(x[1]) => r[x[1].v] < d
    => FreshCopies(x[2], << copy[x][1] >>, copy[x][2])

(* CopyElems makes new tuples of the elements' tuples.                     *)
LEMMA CopyElemsFresh ==
  ASSUME NEW copy, Copier(copy), NEW d, CopiesBelow(copy, d),
         NEW es \in Seq(Value), NEW h \in Store, AllLead(es, h), ElemsLead(h),
         NEW r \in [DOMAIN h -> Nat], Falls(r, h),
         \A k \in DOMAIN es : Tup(es[k]) => r[es[k].v] < d
  PROVE  FreshCopies(h, CopyElems(copy, es, h)[1], CopyElems(copy, es, h)[2])
<1>1. copy \in [Stored -> Stored]
  BY DEF Copier
<1>2. PICK done \in [0 .. Len(es) -> Seq(Value) \X Store] :
           /\ CopyElems(copy, es, h) = done[Len(es)]
           /\ done[0] = << << >>, h >>
           /\ \A i \in 0 .. Len(es) - 1 :
                LET c == copy[<<es[i + 1], done[i][2]>>]
                IN  done[i + 1] = <<Append(done[i][1], c[1]), c[2]>>
  BY <1>1, CopyElemsUnfolds, ZenonT(40)
<1>3. Len(es) \in Nat /\ DOMAIN es = 1 .. Len(es)
  BY LenProperties
<1> DEFINE Good(i, s) == ElemsMade(es, h, i, s) /\ FreshCopies(h, s[1], s[2])
           P == {i \in 0 .. Len(es) : Good(i, done[i])}
<1>4. 0 \in P
  <2>1. Extends(h, h)
    BY LenProperties DEF Extends, Store
  <2>2. << >> \in Seq(Value) /\ Len(<< >>) = 0
    BY EmptySeq
  <2>3. done[0][1] = << >> /\ done[0][2] = h
    BY <1>2
  <2>4. ElemsMade(es, h, 0, done[0])
    BY <2>1, <2>2, <2>3 DEF ElemsMade, AllLead
  <2>5. Fresh(h, h) = {}
    BY DEF Fresh
  <2>6. \A at : Forest({}, at, << >>, h)
    BY DEF Forest
  <2>7. FreshCopies(h, << >>, h)
    BY <2>5, <2>6 DEF FreshCopies
  <2> QED
    BY <1>3, <2>3, <2>4, <2>7
<1>5. ASSUME NEW i \in 0 .. Len(es) - 1, i \in P
      PROVE  i + 1 \in P
  <2> DEFINE s == done[i]
             x == <<es[i + 1], s[2]>>
             c == copy[x]
             t == <<Append(s[1], c[1]), c[2]>>
  <2>1. ElemsMade(es, h, i, s) /\ FreshCopies(h, s[1], s[2])
    BY <1>5
  <2>2. done[i + 1] = t
    BY <1>2
  <2>3. ElemsMade(es, h, i + 1, t)
    BY <2>1, ElemCopied
  <2>4. i + 1 \in DOMAIN es /\ es[i + 1] \in Value
    BY <1>3, ElementOfSeq
  <2>5. s[1] \in Seq(Value) /\ s[2] \in Store /\ Extends(h, s[2]) /\ ElemsLead(s[2])
    BY <2>1 DEF ElemsMade
  <2>6. x \in Stored /\ x[1] = es[i + 1] /\ x[2] = s[2]
    BY <2>4, <2>5 DEF Stored, Store
  <2> HIDE DEF P, Good, s, x
  <2>7. c[1] \in Value /\ c[2] \in Store /\ Extends(s[2], c[2])
    BY <2>6 DEF Copier, CopyMade, Stored, Store
  <2> HIDE DEF c
  <2>8. PICK q \in [DOMAIN s[2] -> Nat] :
          Falls(q, s[2]) /\ \A o \in DOMAIN h : q[o] = r[o]
    BY <2>1, <2>5, RanksGrow
  <2>9. Leads(es[i + 1], h)
    BY <2>4 DEF AllLead
  <2>10. Leads(es[i + 1], s[2])
    BY <2>5, <2>9, LeadsOn
  <2>11. Tup(es[i + 1]) => q[es[i + 1].v] < d
    <3>1. Tup(es[i + 1]) => es[i + 1].v \in DOMAIN h
      BY <2>9 DEF Leads, Tup, Handles
    <3> QED
      BY <2>4, <2>8, <3>1
  <2>12. FreshCopies(s[2], << c[1] >>, c[2])
    BY <2>5, <2>6, <2>8, <2>10, <2>11 DEF CopiesBelow, c
  <2>13. FreshCopies(h, Append(s[1], c[1]), c[2])
    BY <2>1, <2>5, <2>7, <2>12, FreshTwice
  <2>14. t[1] = Append(s[1], c[1]) /\ t[2] = c[2]
    OBVIOUS
  <2> HIDE DEF t
  <2>15. Good(i + 1, t)
    BY <2>3, <2>13, <2>14 DEF Good
  <2> QED
    BY <1>3, <2>2, <2>15 DEF P
<1> HIDE DEF P, Good
<1>6. 0 .. Len(es) \subseteq P
  BY <1>3, <1>4, <1>5, BoundedInduction
<1>7. Len(es) \in P
  BY <1>3, <1>6
<1> QED
  BY <1>2, <1>7 DEF P, Good

(* So does one level of copying.                                           *)
LEMMA LevelFresh ==
  ASSUME NEW copy, Copier(copy), NEW d \in Nat, CopiesBelow(copy, d)
  PROVE  CopiesBelow([x \in Stored |-> Level(copy, x)], d + 1)
<1> SUFFICES ASSUME NEW x \in Stored, NEW r \in [DOMAIN x[2] -> Nat],
                    Leads(x[1], x[2]), ElemsLead(x[2]), Falls(r, x[2]),
                    Tup(x[1]) => r[x[1].v] < d + 1
             PROVE  FreshCopies(x[2], << Level(copy, x)[1] >>, Level(copy, x)[2])
  BY DEF CopiesBelow
<1> DEFINE h == x[2]
           v == x[1]
<1>1. h \in Store /\ v \in Value /\ Len(h) \in Nat /\ DOMAIN h = 1 .. Len(h)
  BY LenProperties DEF Stored, Store
<1>2. CASE ~Tup(v)
  <2>1. Level(copy, x) = x
    BY <1>2 DEF Level, Tup
  <2>2. FreshCopies(h, << v >>, h)
    BY <1>2, FreshByNone
  <2> QED
    BY <2>1, <2>2
<1>3. CASE Tup(v)
  <2>1. v.v \in DOMAIN h /\ h[v.v].k = "tuple"
    BY <1>3 DEF Leads, Tup, Handles
  <2> DEFINE elems == h[v.v].elems
             es == CopyElems(copy, elems, h)
             t  == Plain("tuple", h[v.v].ty, es[1])
             N  == Len(es[2]) + 1
             g  == Append(es[2], t)
             w  == Handle("tuple", N)
  <2>2. h[v.v] \in Obj(Nat, CellId)
    BY <1>1, <2>1, ElementOfSeq DEF Store
  <2>3. elems \in Seq(Value)
    BY <2>2 DEF Obj
  <2>4. AllLead(elems, h)
    BY <2>1 DEF ElemsLead
  <2>5. \A k \in DOMAIN elems : Tup(elems[k]) => r[elems[k].v] < d
    <3> SUFFICES ASSUME NEW k \in DOMAIN elems, Tup(elems[k])
                 PROVE  r[elems[k].v] < d
      OBVIOUS
    <3>1. r[elems[k].v] < r[v.v]
      BY <2>1 DEF Falls
    <3>2. elems[k].v \in DOMAIN h
      BY <2>1, ElemsIn
    <3> HIDE DEF elems, h, v
    <3>3. r[elems[k].v] \in Nat /\ r[v.v] \in Nat /\ r[v.v] < d + 1
      BY <1>3, <2>1, <3>2 DEF h, v
    <3> QED
      BY <3>1, <3>3
  <2>6. Level(copy, x) = <<w, g>>
    BY <1>3, <2>1 DEF Level, Tup
  <2>7. ElemsMade(elems, h, Len(elems), es)
    BY <1>1, <2>3, CopyElemsMade
  <2> HIDE DEF elems
  <2>8. FreshCopies(h, es[1], es[2])
    BY <1>1, <2>3, <2>4, <2>5, CopyElemsFresh
  <2> HIDE DEF es
  <2>9. /\ es[1] \in Seq(Value) /\ es[2] \in Store /\ Extends(h, es[2])
        /\ Len(es[2]) \in Nat /\ DOMAIN es[2] = 1 .. Len(es[2])
    BY <2>7, LenProperties DEF ElemsMade, Store
  <2>10. t.elems = es[1]
    BY DEF Plain
  <2>11. DOMAIN h \subseteq DOMAIN es[2] /\ N \notin DOMAIN h /\ N \in Nat /\ N # 0
    BY <1>1, <2>9 DEF Extends
  <2>12. /\ DOMAIN g = DOMAIN es[2] \cup {N}
         /\ \A o \in DOMAIN es[2] : g[o] = es[2][o]
         /\ g[N] = t
    <3>1. t \in Obj(Nat, CellId) \cup {t} /\ es[2] \in Seq(Obj(Nat, CellId) \cup {t})
      BY <2>9, SeqMonotonic DEF Store
    <3> HIDE DEF t
    <3>2. /\ Len(g) = Len(es[2]) + 1 /\ DOMAIN g = 1 .. Len(es[2]) + 1
          /\ \A o \in 1 .. Len(es[2]) : g[o] = es[2][o]
          /\ g[Len(es[2]) + 1] = t
      BY <3>1, AppendProperties, LenProperties
    <3> QED
      BY <2>9, <3>2
  <2>13. w.v = N
    BY DEF Handle
  <2> HIDE DEF N, t, g, w
  <2>14. N \notin DOMAIN es[2] /\ 0 \notin DOMAIN es[2]
    BY <2>9 DEF N
  <2>15. PICK at : Forest(Fresh(h, es[2]), at, es[1], es[2])
    BY <2>8 DEF FreshCopies
  <2>16. Fresh(h, es[2]) \cup {N} = Fresh(h, g)
    BY <2>11, <2>12 DEF Fresh
  <2>17. \E ct : Forest(Fresh(h, es[2]) \cup {N}, ct, << w >>, g)
    BY <2>10, <2>11, <2>12, <2>13, <2>14, <2>15, ForestBundled
  <2>18. ASSUME NEW o \in Fresh(h, g), NEW k \in DOMAIN g[o].elems, Tup(g[o].elems[k])
         PROVE  g[o].elems[k].v < o
    <3>1. CASE o = N
      <4>1. es[1][k].v \in DOMAIN es[2]
        BY <2>10, <2>12, <2>15, <2>18, <3>1 DEF Forest, LiesAt
      <4> QED
        BY <2>9, <2>10, <2>12, <3>1, <4>1 DEF N
    <3>2. CASE o \in Fresh(h, es[2])
      <4>1. g[o] = es[2][o]
        BY <2>12, <3>2 DEF Fresh
      <4> QED
        BY <2>8, <2>18, <3>2, <4>1, FreshElems
    <3> QED
      BY <2>16, <3>1, <3>2
  <2>19. FreshCopies(h, << w >>, g)
    BY <2>16, <2>17, <2>18 DEF FreshCopies
  <2> QED
    BY <2>6, <2>19
<1> QED
  BY <1>2, <1>3

(* copy_value makes a new tuple of every tuple, as far as its depth goes.  *)
LEMMA CopyValueFresh ==
  ASSUME NEW depth \in Nat
  PROVE  CopiesBelow(CopyValue[depth], depth)
<1> DEFINE P == {d \in Nat : CopiesBelow(CopyValue[d], d)}
<1>1. 0 \in P
  <2>1. CopyValue[0] = [x \in Stored |-> x]
    BY CopyValueUnfolds
  <2>2. ASSUME NEW x \in Stored, ~Tup(x[1])
        PROVE  FreshCopies(x[2], << x[1] >>, x[2])
    BY <2>2, FreshByNone
  <2>3. ASSUME NEW x \in Stored, NEW r \in [DOMAIN x[2] -> Nat], Leads(x[1], x[2]),
               Tup(x[1]) => r[x[1].v] < 0
        PROVE  ~Tup(x[1])
    <3>1. Tup(x[1]) => x[1].v \in DOMAIN x[2]
      BY <2>3 DEF Leads, Tup, Handles
    <3> QED
      BY <2>3, <3>1
  <2>4. CopiesBelow(CopyValue[0], 0)
    BY <2>1, <2>2, <2>3 DEF CopiesBelow
  <2> QED
    BY <2>4
<1>2. ASSUME NEW d \in Nat, d \in P
      PROVE  d + 1 \in P
  <2>1. CopyValue[d + 1] = [x \in Stored |-> Level(CopyValue[d], x)]
    BY CopyValueUnfolds
  <2>2. Copier(CopyValue[d])
    BY CopyValueCopies
  <2>3. CopiesBelow(CopyValue[d + 1], d + 1)
    BY <1>2, <2>1, <2>2, LevelFresh
  <2> QED
    BY <2>3
<1> HIDE DEF P
<1>3. depth \in P
  BY <1>1, <1>2, NaturalInduction
<1> QED
  BY <1>3 DEF P

(* Tuples nest no deeper than there are objects.                           *)
Nested(h) == \E r \in [DOMAIN h -> 0 .. Len(h) - 1] : Falls(r, h)

(* So copy_value, to that depth, makes a new tuple of every tuple.         *)
LEMMA CopyFresh ==
  ASSUME NEW h \in Store, NEW v \in Value, Leads(v, h), ElemsLead(h), Nested(h)
  PROVE  LET c == CopyValue[Len(h)][<<v, h>>] IN FreshCopies(h, << c[1] >>, c[2])
<1>1. Len(h) \in Nat
  BY LenProperties DEF Store
<1>2. PICK r \in [DOMAIN h -> 0 .. Len(h) - 1] : Falls(r, h)
  BY DEF Nested
<1>3. r \in [DOMAIN h -> Nat]
  BY <1>1, <1>2
<1>4. Tup(v) => r[v.v] < Len(h)
  <2>1. Tup(v) => v.v \in DOMAIN h
    BY DEF Leads, Tup, Handles
  <2>2. \A o \in DOMAIN h : r[o] \in 0 .. Len(h) - 1
    BY <1>2
  <2> QED
    BY <1>1, <2>1, <2>2
<1> DEFINE x == <<v, h>>
<1>5. x \in Stored /\ x[1] = v /\ x[2] = h
  BY DEF Stored, Store
<1> HIDE DEF x
<1>6. CopiesBelow(CopyValue[Len(h)], Len(h))
  BY <1>1, CopyValueFresh
<1>7. FreshCopies(h, << CopyValue[Len(h)][x][1] >>, CopyValue[Len(h)][x][2])
  BY <1>3, <1>4, <1>2, <1>5, <1>6 DEF CopiesBelow
<1> QED
  BY <1>7 DEF x

(* The new tuples rank below the old.                                      *)
LEMMA NestedCopied ==
  ASSUME NEW h \in Store, NEW g \in Store, Extends(h, g), ElemsLead(h), Nested(h),
         NEW vs, FreshCopies(h, vs, g)
  PROVE  \E q \in [DOMAIN g -> 0 .. Len(g) - 1] :
           /\ Falls(q, g)
           /\ \A p \in Fresh(h, g) : \A o \in DOMAIN h : q[p] < q[o]
<1>1. /\ DOMAIN h = 1 .. Len(h) /\ DOMAIN g = 1 .. Len(g) /\ Len(h) <= Len(g)
      /\ Len(h) \in Nat /\ Len(g) \in Nat
  BY LenProperties DEF Store, Extends
<1>2. PICK r \in [DOMAIN h -> 0 .. Len(h) - 1] : Falls(r, h)
  BY DEF Nested
<1> DEFINE more == Len(g) - Len(h)
           q == [o \in DOMAIN g |-> IF o \in DOMAIN h THEN r[o] + more
                                                      ELSE o - Len(h) - 1]
<1>3. \A o \in DOMAIN h : r[o] \in 0 .. Len(h) - 1
  BY <1>2
<1>4. /\ \A o \in DOMAIN h : o \in DOMAIN g /\ q[o] = r[o] + more
      /\ \A o \in Fresh(h, g) : q[o] = o - Len(h) - 1 /\ o \in Len(h) + 1 .. Len(g)
  BY <1>1 DEF Fresh
<1>5. q \in [DOMAIN g -> 0 .. Len(g) - 1]
  <2>1. ASSUME NEW o \in DOMAIN g
        PROVE  q[o] \in 0 .. Len(g) - 1
    <3>1. CASE o \in DOMAIN h
      BY <1>1, <1>3, <1>4, <3>1
    <3>2. CASE o \in Fresh(h, g)
      BY <1>1, <1>4, <3>2
    <3> QED
      BY <3>1, <3>2 DEF Fresh
  <2> QED
    BY <2>1
<1> HIDE DEF q
<1>6. ASSUME NEW o \in DOMAIN g, g[o].k = "tuple", NEW k \in DOMAIN g[o].elems,
             Tup(g[o].elems[k])
      PROVE  q[g[o].elems[k].v] < q[o]
  <2> DEFINE e == g[o].elems[k]
  <2>1. CASE o \in DOMAIN h
    <3>1. g[o] = h[o]
      BY <2>1 DEF Extends
    <3>2. e.v \in DOMAIN h /\ r[e.v] < r[o]
      BY <1>2, <1>6, <2>1, <3>1, ElemsIn DEF Falls
    <3> HIDE DEF e
    <3>3. q[e.v] < q[o]
      BY <1>1, <1>3, <1>4, <2>1, <3>2
    <3> QED
      BY <3>3 DEF e
  <2>2. CASE o \in Fresh(h, g)
    <3>1. e.v \in Fresh(h, g) /\ e.v < o
      BY <1>6, <2>2, FreshElems
    <3> HIDE DEF e
    <3>2. q[e.v] < q[o]
      BY <1>1, <1>4, <2>2, <3>1
    <3> QED
      BY <3>2 DEF e
  <2> QED
    BY <2>1, <2>2 DEF Fresh
<1>7. Falls(q, g)
  BY <1>6 DEF Falls
<1>8. \A p \in Fresh(h, g) : \A o \in DOMAIN h : q[p] < q[o]
  BY <1>1, <1>3, <1>4
<1> QED
  BY <1>5, <1>7, <1>8

(* Writing one of them into an old object leaves tuples nested.            *)
LEMMA NestedWritten ==
  ASSUME NEW h \in Store, NEW g \in Store, Extends(h, g), ElemsLead(h), Nested(h),
         NEW c, FreshCopies(h, << c >>, g), NEW p \in DOMAIN h, NEW n,
         NEW w, OneWritten(g, w, p, n, c)
  PROVE  Nested(w)
<1>1. PICK q \in [DOMAIN g -> 0 .. Len(g) - 1] :
        /\ Falls(q, g)
        /\ \A o \in Fresh(h, g) : \A m \in DOMAIN h : q[o] < q[m]
  BY NestedCopied
<1>2. Tup(c) => q[c.v] < q[p]
  <2>1. 1 \in DOMAIN << c >> /\ << c >>[1] = c
    OBVIOUS
  <2>2. Tup(c) => c.v \in Fresh(h, g)
    BY <2>1 DEF FreshCopies, Forest, LiesAt
  <2> QED
    BY <1>1, <2>2
<1>3. ASSUME NEW o \in DOMAIN w, w[o].k = "tuple", NEW k \in DOMAIN w[o].elems,
             Tup(w[o].elems[k])
      PROVE  q[w[o].elems[k].v] < q[o]
  <2>1. CASE o # p
    BY <1>1, <1>3, <2>1 DEF Falls, OneWritten
  <2>2. CASE o = p /\ k = n
    BY <1>2, <1>3, <2>2 DEF OneWritten
  <2>3. CASE o = p /\ k # n
    <3>1. k \in DOMAIN g[p].elems /\ w[p].elems[k] = g[p].elems[k]
      BY <1>3, <2>3 DEF OneWritten
    <3> QED
      BY <1>1, <1>3, <2>3, <3>1 DEF Falls, OneWritten
  <2> QED
    BY <2>1, <2>2, <2>3
<1>4. Falls(q, w)
  BY <1>3 DEF Falls
<1> QED
  BY <1>1, <1>4 DEF Nested, OneWritten

(* A new object holds what was there before.                               *)
LEMMA NestedAdded ==
  ASSUME NEW h, Len(h) \in Nat, DOMAIN h = 1 .. Len(h), ElemsLead(h), Nested(h),
         NEW g, Len(g) = Len(h) + 1, DOMAIN g = 1 .. Len(h) + 1,
         \A o \in DOMAIN h : g[o] = h[o], AllLead(g[Len(h) + 1].elems, h)
  PROVE  Nested(g)
<1>1. PICK r \in [DOMAIN h -> 0 .. Len(h) - 1] : Falls(r, h)
  BY DEF Nested
<1> DEFINE q == [o \in DOMAIN g |-> IF o \in DOMAIN h THEN r[o] ELSE Len(h)]
<1>2. \A o \in DOMAIN h : r[o] \in 0 .. Len(h) - 1
  BY <1>1
<1>3. q \in [DOMAIN g -> 0 .. Len(g) - 1]
  BY <1>2
<1>4. /\ \A o \in DOMAIN h : o \in DOMAIN g /\ q[o] = r[o]
      /\ q[Len(h) + 1] = Len(h)
  OBVIOUS
<1> HIDE DEF q
<1>5. ASSUME NEW o \in DOMAIN g, g[o].k = "tuple", NEW k \in DOMAIN g[o].elems,
             Tup(g[o].elems[k])
      PROVE  q[g[o].elems[k].v] < q[o]
  <2> DEFINE e == g[o].elems[k]
  <2>1. CASE o \in DOMAIN h
    <3>1. e.v \in DOMAIN h /\ r[e.v] < r[o]
      BY <1>1, <1>5, <2>1, ElemsIn DEF Falls
    <3> HIDE DEF e
    <3>2. q[e.v] < q[o]
      BY <1>4, <2>1, <3>1
    <3> QED
      BY <3>2 DEF e
  <2>2. CASE o = Len(h) + 1
    <3>1. e.v \in DOMAIN h
      BY <1>5, <2>2 DEF AllLead, Leads, Tup, Handles
    <3> HIDE DEF e
    <3>2. q[e.v] < q[o]
      BY <1>2, <1>4, <2>2, <3>1
    <3> QED
      BY <3>2 DEF e
  <2> QED
    BY <2>1, <2>2
<1>6. Falls(q, g)
  BY <1>5 DEF Falls
<1> QED
  BY <1>3, <1>6 DEF Nested

-----------------------------------------------------------------------------
(* What a value holds.                                                     *)

(* One level, on top of what the elements hold.                            *)
HeldWith(in, x) ==
  IF x[1].k # "tuple" \/ x[1].v \notin DOMAIN x[2] THEN {}
  ELSE {x[1].v} \cup UNION {in[<<x[2][x[1].v].elems[i], x[2]>>] :
                             i \in DOMAIN x[2][x[1].v].elems}

(* TuplesIn exists, and looks one level further at each depth.             *)
LEMMA TuplesInUnfolds ==
  ASSUME NEW depth \in Nat
  PROVE  TuplesIn[depth] =
           [x \in Stored |-> IF depth = 0 THEN {} ELSE HeldWith(TuplesIn[depth - 1], x)]
<1> DEFINE S == [Stored -> SUBSET Int]
           base == [x \in Stored |-> {}]
           step == [s \in Nat \X S |-> [x \in Stored |-> HeldWith(s[2], x)]]
           Up(f, d, x) == IF d = 0 THEN {} ELSE HeldWith(f[d - 1], x)
           Lifted(f, d) == [x \in Stored |-> Up(f, d, x)]
           Body(f, d, x) ==
             LET v == x[1]
                 h == x[2]
             IN  IF d = 0 \/ v.k # "tuple" \/ v.v \notin DOMAIN h THEN {}
                 ELSE {v.v} \cup UNION {f[d - 1][<<h[v.v].elems[i], h>>] :
                                          i \in DOMAIN h[v.v].elems}
           Val(f, d) == [x \in Stored |-> Body(f, d, x)]
<1>1. base \in S
  OBVIOUS
<1>2. \A in \in S : [x \in Stored |-> HeldWith(in, x)] \in S
  <2> SUFFICES ASSUME NEW in \in S, NEW x \in Stored
               PROVE  HeldWith(in, x) \in SUBSET Int
    OBVIOUS
  <2>1. CASE x[1].k # "tuple" \/ x[1].v \notin DOMAIN x[2]
    BY <2>1 DEF HeldWith
  <2>2. CASE ~(x[1].k # "tuple" \/ x[1].v \notin DOMAIN x[2])
    <3> DEFINE h == x[2]
               es == h[x[1].v].elems
    <3>1. x[1] \in Value /\ h \in Store /\ DOMAIN h = 1 .. Len(h)
      BY LenProperties DEF Stored, Store
    <3>2. es \in Seq(Value)
      <4>1. h[x[1].v] \in Obj(Nat, CellId)
        BY <2>2, <3>1, ElementOfSeq DEF Store
      <4> QED
        BY <4>1 DEF Obj
    <3>3. x[1].v \in Int
      BY <3>1 DEF Value
    <3> HIDE DEF h, es
    <3>4. \A i \in DOMAIN es : <<es[i], h>> \in Stored
      BY <3>1, <3>2, LenProperties, ElementOfSeq DEF Stored, Store
    <3>5. \A i \in DOMAIN es : in[<<es[i], h>>] \subseteq Int
      BY <3>4
    <3>6. HeldWith(in, x) = {x[1].v} \cup UNION {in[<<es[i], h>>] : i \in DOMAIN es}
      BY <2>2 DEF HeldWith, es, h
    <3> QED
      BY <3>3, <3>5, <3>6
  <2> QED
    BY <2>1, <2>2
<1>3. step \in [Nat \X S -> S]
  BY <1>2
<1>4. \A d \in Nat : \A in \in S :
        step[<<d, in>>] = [x \in Stored |-> HeldWith(in, x)]
  OBVIOUS
<1> HIDE DEF step, S
<1>5. PICK f \in [Nat -> S] : \A n \in Nat : Follows(f, n, base, step)
  BY <1>1, <1>3, RecursionExists
<1>6. \A f1, d : Val(f1, d) = Lifted(f1, d)
  <2>1. \A f1, d, x : Body(f1, d, x) = Up(f1, d, x)
    BY DEF HeldWith
  <2> HIDE DEF Body, Up
  <2> QED
    BY <2>1
<1>7. f = [d \in Nat |-> Val(f, d)]
  <2>1. f[0] = Lifted(f, 0)
    BY <1>5 DEF Follows
  <2>2. ASSUME NEW d \in Nat \ {0}
        PROVE  f[d] = Lifted(f, d)
    <3>1. d - 1 \in Nat /\ (d - 1) + 1 = d /\ d - 1 \in 0 .. d - 1
      OBVIOUS
    <3>2. f[d - 1] \in S
      BY <3>1
    <3>3. f[d] = step[<<d - 1, f[d - 1]>>]
      BY <1>5, <3>1 DEF Follows
    <3> QED
      BY <1>4, <3>1, <3>2, <3>3
  <2> HIDE DEF Lifted, Val
  <2>3. \A d \in Nat : f[d] = Val(f, d)
    BY <1>6, <2>1, <2>2
  <2> QED
    BY <2>3
<1>8. TuplesIn = [d \in Nat |-> Val(TuplesIn, d)]
  BY <1>7 DEF TuplesIn
<1> HIDE DEF Val, Lifted
<1>9. TuplesIn[depth] = Lifted(TuplesIn, depth)
  BY <1>6, <1>8
<1> QED
  BY <1>9 DEF Lifted

(* In a forest: the tuples T that v holds, each of them v or in another.   *)
Tree(T, v, S, at, r, h) ==
  \A o \in T :
    /\ Tup(v) /\ o \in S /\ h[o].k = "tuple" /\ r[o] <= r[v.v]
    /\ o # v.v => \E p \in T : \E k : at[o] = <<p, k>> /\ r[o] < r[p]

(* A tuple and what its elements hold are a tree if those are trees.       *)
LEMMA TreeGrows ==
  ASSUME NEW h \in Store, ElemsLead(h), NEW r \in [DOMAIN h -> Nat], Falls(r, h),
         NEW S, NEW at, NEW vs, Forest(S, at, vs, h),
         NEW v, Tup(v), v.v \in S, Leads(v, h), NEW T,
         \A o \in T : o = v.v \/ \E i \in DOMAIN h[v.v].elems : \E U \in SUBSET T :
                                  o \in U /\ Tree(U, h[v.v].elems[i], S, at, r, h),
         v.v \in T
  PROVE  Tree(T, v, S, at, r, h)
<1>1. S \subseteq DOMAIN h /\ h[v.v].k = "tuple"
  BY DEF Forest, Leads, Tup, Handles
<1>2. \A o \in DOMAIN h : r[o] \in Nat
  OBVIOUS
<1> SUFFICES ASSUME NEW o \in T
             PROVE  /\ o \in S /\ h[o].k = "tuple" /\ r[o] <= r[v.v]
                    /\ o # v.v => \E p \in T : \E k : at[o] = <<p, k>> /\ r[o] < r[p]
  BY DEF Tree
<1>3. CASE o = v.v
  BY <1>1, <1>2, <1>3
<1>4. CASE o # v.v
  <2>1. PICK i \in DOMAIN h[v.v].elems : \E U \in SUBSET T :
          o \in U /\ Tree(U, h[v.v].elems[i], S, at, r, h)
    BY <1>4
  <2> DEFINE e == h[v.v].elems[i]
  <2>2. PICK U \in SUBSET T : o \in U /\ Tree(U, e, S, at, r, h)
    BY <2>1
  <2>3. Tup(e) /\ o \in S /\ h[o].k = "tuple" /\ r[o] <= r[e.v]
    BY <2>2 DEF Tree
  <2>4. e.v \in S /\ at[e.v] = <<v.v, i>>
    BY <2>3 DEF Forest, LiesAt
  <2>5. r[e.v] < r[v.v]
    BY <1>1, <2>3 DEF Falls
  <2> HIDE DEF e
  <2>6. r[o] <= r[v.v]
    BY <1>1, <1>2, <2>3, <2>4, <2>5
  <2>7. \E p \in T : \E k : at[o] = <<p, k>> /\ r[o] < r[p]
    <3>1. CASE o = e.v
      BY <2>4, <2>5, <3>1
    <3>2. CASE o # e.v
      BY <2>2, <3>2 DEF Tree
    <3> QED
      BY <3>1, <3>2
  <2> QED
    BY <2>3, <2>6, <2>7
<1> QED
  BY <1>3, <1>4

(* What a value that lies in a forest holds is a tree of it.               *)
LEMMA TuplesInTree ==
  ASSUME NEW h \in Store, ElemsLead(h), NEW r \in [DOMAIN h -> Nat], Falls(r, h),
         NEW S, NEW at, NEW vs, Forest(S, at, vs, h), NEW depth \in Nat
  PROVE  \A v \in Value : Leads(v, h) /\ (Tup(v) => v.v \in S) =>
           Tree(TuplesIn[depth][<<v, h>>], v, S, at, r, h)
<1> DEFINE Good(d) == \A v \in Value : Leads(v, h) /\ (Tup(v) => v.v \in S) =>
                        Tree(TuplesIn[d][<<v, h>>], v, S, at, r, h)
           P == {d \in Nat : Good(d)}
<1>1. \A v \in Value : <<v, h>> \in Stored /\ <<v, h>>[1] = v /\ <<v, h>>[2] = h
  BY DEF Stored, Store
<1>2. 0 \in P
  <2>1. TuplesIn[0] = [x \in Stored |-> {}]
    BY TuplesInUnfolds
  <2>2. \A v \in Value : TuplesIn[0][<<v, h>>] = {}
    BY <1>1, <2>1
  <2>3. \A v : Tree({}, v, S, at, r, h)
    BY DEF Tree
  <2> QED
    BY <2>2, <2>3
<1>3. ASSUME NEW d \in Nat, d \in P
      PROVE  d + 1 \in P
  <2>1. TuplesIn[d + 1] = [x \in Stored |-> HeldWith(TuplesIn[d], x)]
    BY TuplesInUnfolds
  <2>2. \A x \in Stored : TuplesIn[d + 1][x] = HeldWith(TuplesIn[d], x)
    BY <2>1
  <2>3. ASSUME NEW v \in Value, Leads(v, h), Tup(v) => v.v \in S
        PROVE  Tree(TuplesIn[d + 1][<<v, h>>], v, S, at, r, h)
    <3> DEFINE T == TuplesIn[d + 1][<<v, h>>]
               es == h[v.v].elems
               Sub(i) == TuplesIn[d][<<es[i], h>>]
    <3>1. T = HeldWith(TuplesIn[d], <<v, h>>)
      BY <1>1, <2>2
    <3>2. CASE ~Tup(v)
      <4>1. T = {}
        BY <1>1, <3>1, <3>2 DEF HeldWith, Tup
      <4> QED
        BY <4>1 DEF Tree
    <3>3. CASE Tup(v)
      <4>1. v.v \in DOMAIN h /\ v.v \in S
        BY <2>3, <3>3 DEF Leads, Tup, Handles
      <4>2. T = {v.v} \cup UNION {Sub(i) : i \in DOMAIN es}
        BY <1>1, <3>1, <3>3, <4>1 DEF HeldWith, Tup
      <4>3. es \in Seq(Value) /\ DOMAIN es = 1 .. Len(es)
        <5>1. h[v.v] \in Obj(Nat, CellId)
          BY <4>1, LenProperties, ElementOfSeq DEF Store
        <5> QED
          BY <5>1, LenProperties DEF Obj
      <4>4. \A i \in DOMAIN es : es[i] \in Value /\ Leads(es[i], h)
        BY <4>1, <4>3, ElementOfSeq DEF ElemsLead, AllLead
      <4>5. \A i \in DOMAIN es : Tup(es[i]) => es[i].v \in S
        BY <4>1 DEF Forest, LiesAt
      <4>6. \A i \in DOMAIN es : Tree(Sub(i), es[i], S, at, r, h)
        BY <1>3, <4>4, <4>5
      <4> HIDE DEF T, Sub, P, Good
      <4>7. \A o \in T : o = v.v \/ \E i \in DOMAIN es : o \in Sub(i)
        BY <4>2
      <4>8. \A i \in DOMAIN es : Sub(i) \in SUBSET T
        BY <4>2
      <4>9. \A o \in T : o = v.v \/ \E i \in DOMAIN es : \E U \in SUBSET T :
                                     o \in U /\ Tree(U, es[i], S, at, r, h)
        BY <4>6, <4>7, <4>8
      <4>10. Tree(T, v, S, at, r, h)
        BY <2>3, <3>3, <4>1, <4>2, <4>9, TreeGrows
      <4> QED
        BY <4>10 DEF T
    <3> QED
      BY <3>2, <3>3
  <2> QED
    BY <2>3
<1> HIDE DEF P, Good
<1>4. depth \in P
  BY <1>2, <1>3, NaturalInduction
<1> QED
  BY <1>4 DEF P, Good

(* Two trees with different roots, none of them in the other, are apart.   *)
LEMMA TreesApart ==
  ASSUME NEW h, NEW r \in [DOMAIN h -> Nat], NEW S, NEW at, S \subseteq DOMAIN h,
         NEW T, NEW v, Tree(T, v, S, at, r, h), NEW U, NEW w, Tree(U, w, S, at, r, h),
         NEW p, LiesAt(S, at, v, p), \A o \in U : \A k : p # <<o, k>>,
         NEW q, LiesAt(S, at, w, q), \A o \in T : \A k : q # <<o, k>>,
         p # q
  PROVE  T \cap U = {}
<1> SUFFICES ASSUME T \cap U # {} PROVE FALSE
  OBVIOUS
<1>1. \A o \in DOMAIN h : r[o] \in Nat
  OBVIOUS
<1>2. Tup(v) /\ Tup(w) /\ v.v \in S /\ w.v \in S
  BY DEF Tree, LiesAt
<1>3. \A o \in T : o \in S /\ r[o] \in Nat /\ r[o] <= r[v.v]
  BY <1>1 DEF Tree
<1> DEFINE M == {m \in Nat : \E o \in T \cap U : r[o] + m = r[v.v]}
<1>4. M # {}
  <2>1. PICK o \in T \cap U : TRUE
    OBVIOUS
  <2>2. r[v.v] - r[o] \in Nat /\ r[o] + (r[v.v] - r[o]) = r[v.v]
    BY <1>1, <1>2, <1>3, <2>1
  <2> QED
    BY <2>1, <2>2
<1>5. PICK m \in M : \A n \in M : m <= n
  BY <1>4, LeastNatural
<1>6. PICK o \in T \cap U : r[o] + m = r[v.v]
  BY <1>5
<1>7. \A x \in T \cap U : ~(r[o] < r[x])
  <2> SUFFICES ASSUME NEW x \in T \cap U, r[o] < r[x]
               PROVE  FALSE
    OBVIOUS
  <2>1. r[x] \in Nat /\ r[o] \in Nat /\ r[v.v] \in Nat /\ r[x] <= r[v.v] /\ m \in Nat
    BY <1>1, <1>2, <1>3, <1>5
  <2>2. r[v.v] - r[x] \in M
    BY <2>1
  <2> HIDE DEF M
  <2> QED
    BY <1>5, <1>6, <2>1, <2>2
<1> HIDE DEF M
<1>8. o # v.v => \E x \in T : \E j : at[o] = <<x, j>> /\ r[o] < r[x]
  BY DEF Tree
<1>9. o # w.v => \E x \in U : \E j : at[o] = <<x, j>> /\ r[o] < r[x]
  BY DEF Tree
<1>10. at[v.v] = p /\ at[w.v] = q
  BY <1>2 DEF LiesAt
<1>11. CASE o = v.v /\ o = w.v
  BY <1>10, <1>11
<1>12. CASE o = v.v /\ o # w.v
  BY <1>9, <1>10, <1>12
<1>13. CASE o # v.v /\ o = w.v
  BY <1>8, <1>10, <1>13
<1>14. CASE o # v.v /\ o # w.v
  BY <1>7, <1>8, <1>9, <1>14
<1> QED
  BY <1>11, <1>12, <1>13, <1>14

(* The values of a forest hold tuples apart from each other's, and so do   *)
(* the elements of a tuple in one of them.                                 *)
LEMMA ForestApart ==
  ASSUME NEW h \in Store, ElemsLead(h), Nested(h),
         NEW vs, \A i \in DOMAIN vs : vs[i] \in Value /\ Leads(vs[i], h),
         NEW S, NEW at, Forest(S, at, vs, h), NEW depth \in Nat
  PROVE  LET Held(v) == TuplesIn[depth][<<v, h>>]
         IN  /\ \A i, j \in DOMAIN vs : i # j => Held(vs[i]) \cap Held(vs[j]) = {}
             /\ \A i \in DOMAIN vs : \A o \in Held(vs[i]) :
                  LET es == h[o].elems
                  IN  \A m, n \in DOMAIN es : m # n => Held(es[m]) \cap Held(es[n]) = {}
<1> DEFINE Held(v) == TuplesIn[depth][<<v, h>>]
<1>1. Len(h) \in Nat /\ DOMAIN h = 1 .. Len(h)
  BY LenProperties DEF Store
<1>2. PICK r \in [DOMAIN h -> 0 .. Len(h) - 1] : Falls(r, h)
  BY DEF Nested
<1>3. r \in [DOMAIN h -> Nat] /\ \A o \in DOMAIN h : r[o] \in Nat
  BY <1>1, <1>2
<1>4. S \subseteq DOMAIN h /\ 0 \notin DOMAIN h
  BY <1>1 DEF Forest
<1>5. \A v \in Value : Leads(v, h) /\ (Tup(v) => v.v \in S) =>
        Tree(Held(v), v, S, at, r, h)
  BY <1>1, <1>2, <1>3, TuplesInTree
<1> HIDE DEF Held
<1>6. \A i \in DOMAIN vs : /\ vs[i] \in Value /\ Leads(vs[i], h)
                           /\ LiesAt(S, at, vs[i], <<0, i>>)
  BY DEF Forest
<1>7. \A i \in DOMAIN vs : Tree(Held(vs[i]), vs[i], S, at, r, h)
  BY <1>5, <1>6 DEF LiesAt
<1>8. \A i \in DOMAIN vs : Held(vs[i]) \subseteq S /\ 0 \notin Held(vs[i])
  BY <1>4, <1>7 DEF Tree
<1>9. ASSUME NEW i \in DOMAIN vs, NEW j \in DOMAIN vs, i # j
      PROVE  Held(vs[i]) \cap Held(vs[j]) = {}
  <2>1. <<0, i>> # <<0, j>>
    BY <1>9
  <2>2. \A l \in DOMAIN vs : \A o \in Held(vs[l]) : \A k, m : <<0, m>> # <<o, k>>
    BY <1>8
  <2> DEFINE T == Held(vs[i])
             U == Held(vs[j])
             v == vs[i]
             w == vs[j]
             p == <<0, i>>
             q == <<0, j>>
  <2>3. /\ Tree(T, v, S, at, r, h) /\ Tree(U, w, S, at, r, h)
        /\ LiesAt(S, at, v, p) /\ LiesAt(S, at, w, q) /\ p # q
        /\ \A x \in U : \A k : p # <<x, k>>
        /\ \A x \in T : \A k : q # <<x, k>>
    BY <1>6, <1>7, <2>1, <2>2
  <2> HIDE DEF T, U, v, w, p, q
  <2>4. T \cap U = {}
    BY <1>3, <1>4, <2>3, TreesApart
  <2> QED
    BY <2>4 DEF T, U
<1>10. ASSUME NEW o \in S, h[o].k = "tuple",
              NEW m \in DOMAIN h[o].elems, NEW n \in DOMAIN h[o].elems, m # n
       PROVE  Held(h[o].elems[m]) \cap Held(h[o].elems[n]) = {}
  <2> DEFINE E(i) == h[o].elems[i]
  <2>1. o \in DOMAIN h /\ h[o].elems \in Seq(Value)
    <3>1. h[o] \in Obj(Nat, CellId)
      BY <1>1, <1>4, ElementOfSeq DEF Store
    <3> QED
      BY <1>4, <3>1 DEF Obj
  <2>2. \A i \in DOMAIN h[o].elems : /\ E(i) \in Value /\ Leads(E(i), h)
                                     /\ LiesAt(S, at, E(i), <<o, i>>)
    BY <2>1, LenProperties, ElementOfSeq DEF ElemsLead, AllLead, Forest
  <2>3. \A i \in DOMAIN h[o].elems : Tree(Held(E(i)), E(i), S, at, r, h)
    BY <1>5, <2>2 DEF LiesAt
  <2>4. ASSUME NEW i \in DOMAIN h[o].elems
        PROVE  o \notin Held(E(i))
    <3> SUFFICES ASSUME o \in Held(E(i)) PROVE FALSE
      OBVIOUS
    <3>1. Tup(E(i)) /\ r[o] <= r[E(i).v]
      BY <2>3 DEF Tree
    <3>2. r[E(i).v] < r[o] /\ E(i).v \in DOMAIN h
      BY <1>2, <1>10, <2>1, <3>1, ElemsIn DEF Falls
    <3> HIDE DEF E
    <3> QED
      BY <1>3, <2>1, <3>1, <3>2
  <2>5. <<o, m>> # <<o, n>>
    BY <1>10
  <2> HIDE DEF E
  <2>6. \A i \in DOMAIN h[o].elems : \A x \in Held(E(i)) : \A k, l : <<o, l>> # <<x, k>>
    BY <2>4
  <2> DEFINE T == Held(E(m))
             U == Held(E(n))
             v == E(m)
             w == E(n)
             p == <<o, m>>
             q == <<o, n>>
  <2>7. /\ Tree(T, v, S, at, r, h) /\ Tree(U, w, S, at, r, h)
        /\ LiesAt(S, at, v, p) /\ LiesAt(S, at, w, q) /\ p # q
        /\ \A x \in U : \A k : p # <<x, k>>
        /\ \A x \in T : \A k : q # <<x, k>>
    BY <2>2, <2>3, <2>5, <2>6
  <2> HIDE DEF T, U, v, w, p, q
  <2>8. T \cap U = {}
    BY <1>3, <1>4, <2>7, TreesApart
  <2> QED
    BY <2>8 DEF T, U, E
<1>11. \A i \in DOMAIN vs : \A o \in Held(vs[i]) : o \in S /\ h[o].k = "tuple"
  BY <1>7 DEF Tree
<1> QED
  BY <1>9, <1>10, <1>11 DEF Held

-----------------------------------------------------------------------------
(* What a value is, wherever it lies.                                      *)

(* A tuple of n elements of which C[i] is what the i-th is.                *)
Inside(n, C) ==
  {<< << >>, Handle("tuple", n)>>} \cup
  UNION {{<< <<i>> \o p[1], p[2]>> : p \in C[i]} : i \in DOMAIN C}

(* One level, on top of what the elements are.                             *)
ContentsWith(in, x) ==
  LET es == x[2][x[1].v].elems
  IN  IF x[1].k # "tuple" \/ x[1].v \notin DOMAIN x[2] THEN {<< << >>, x[1]>>}
      ELSE Inside(Len(es), [i \in DOMAIN es |-> in[<<es[i], x[2]>>]])

Paths == SUBSET (Seq(Nat) \X Value)

(* The ways into a tuple are sequences of places.                          *)
LEMMA InsideType ==
  ASSUME NEW n \in Nat, NEW C, DOMAIN C \subseteq Nat, \A i \in DOMAIN C : C[i] \in Paths
  PROVE  Inside(n, C) \in Paths
<1>1. << << >>, Handle("tuple", n)>> \in Seq(Nat) \X Value
  <2>1. << >> \in Seq(Nat)
    OBVIOUS
  <2>2. Handle("tuple", n) \in Value
    BY DEF Handle, Value, Kinds, Handles
  <2> QED
    BY <2>1, <2>2
<1>2. ASSUME NEW i \in DOMAIN C, NEW p \in C[i]
      PROVE  << <<i>> \o p[1], p[2]>> \in Seq(Nat) \X Value
  <2>1. p[1] \in Seq(Nat) /\ p[2] \in Value
    BY DEF Paths
  <2>2. <<i>> \in Seq(Nat)
    OBVIOUS
  <2>3. <<i>> \o p[1] \in Seq(Nat)
    BY <2>1, <2>2, ConcatProperties
  <2> QED
    BY <2>1, <2>3
<1> DEFINE Into(i) == {<< <<i>> \o p[1], p[2]>> : p \in C[i]}
<1>3. \A i \in DOMAIN C : Into(i) \subseteq Seq(Nat) \X Value
  BY <1>2
<1>4. Inside(n, C) = {<< << >>, Handle("tuple", n)>>} \cup UNION {Into(i) : i \in DOMAIN C}
  BY DEF Inside
<1> HIDE DEF Into
<1> QED
  BY <1>1, <1>3, <1>4 DEF Paths

(* An object's elements are values.                                        *)
LEMMA ElemsType ==
  ASSUME NEW h \in Store, NEW o \in DOMAIN h
  PROVE  /\ h[o].elems \in Seq(Value) /\ Len(h[o].elems) \in Nat
         /\ DOMAIN h[o].elems = 1 .. Len(h[o].elems)
         /\ \A i \in DOMAIN h[o].elems : h[o].elems[i] \in Value
<1>1. h[o] \in Obj(Nat, CellId)
  BY LenProperties, ElementOfSeq DEF Store
<1>2. h[o].elems \in Seq(Value)
  BY <1>1 DEF Obj
<1> DEFINE es == h[o].elems
<1> HIDE DEF es
<1>3. es \in Seq(Value)
  BY <1>2 DEF es
<1>4. Len(es) \in Nat /\ DOMAIN es = 1 .. Len(es) /\ \A i \in DOMAIN es : es[i] \in Value
  BY <1>3, LenProperties, ElementOfSeq
<1> QED
  BY <1>3, <1>4 DEF es

(* Contents exists, and looks one level further at each depth.             *)
LEMMA ContentsUnfolds ==
  ASSUME NEW depth \in Nat
  PROVE  Contents[depth] =
           [x \in Stored |-> IF depth = 0 THEN {<< << >>, x[1]>>}
                             ELSE ContentsWith(Contents[depth - 1], x)]
<1> DEFINE S == [Stored -> Paths]
           base == [x \in Stored |-> {<< << >>, x[1]>>}]
           step == [s \in Nat \X S |-> [x \in Stored |-> ContentsWith(s[2], x)]]
           Up(f, d, x) == IF d = 0 THEN {<< << >>, x[1]>>} ELSE ContentsWith(f[d - 1], x)
           Lifted(f, d) == [x \in Stored |-> Up(f, d, x)]
           Body(f, d, x) ==
             LET v == x[1]
                 h == x[2]
                 es == h[v.v].elems
             IN  IF d = 0 \/ v.k # "tuple" \/ v.v \notin DOMAIN h THEN {<< << >>, v>>}
                 ELSE {<< << >>, Handle("tuple", Len(es))>>} \cup
                      UNION {{<< <<i>> \o p[1], p[2]>> : p \in f[d - 1][<<es[i], h>>]} :
                               i \in DOMAIN es}
           Val(f, d) == [x \in Stored |-> Body(f, d, x)]
<1>1. base \in S
  <2>1. \A x \in Stored : << << >>, x[1]>> \in Seq(Nat) \X Value
    BY EmptySeq DEF Stored
  <2> QED
    BY <2>1 DEF Paths
<1>2. \A in \in S : [x \in Stored |-> ContentsWith(in, x)] \in S
  <2> SUFFICES ASSUME NEW in \in S, NEW x \in Stored
               PROVE  ContentsWith(in, x) \in Paths
    OBVIOUS
  <2>1. x[1] \in Value /\ x[2] \in Store
    BY DEF Stored, Store
  <2>2. CASE x[1].k # "tuple" \/ x[1].v \notin DOMAIN x[2]
    <3>1. << << >>, x[1]>> \in Seq(Nat) \X Value
      BY <2>1, EmptySeq
    <3> QED
      BY <2>2, <3>1 DEF ContentsWith, Paths
  <2>3. CASE ~(x[1].k # "tuple" \/ x[1].v \notin DOMAIN x[2])
    <3> DEFINE h == x[2]
               es == h[x[1].v].elems
               C == [i \in DOMAIN es |-> in[<<es[i], h>>]]
    <3>1. /\ es \in Seq(Value) /\ Len(es) \in Nat /\ DOMAIN es = 1 .. Len(es)
          /\ \A i \in DOMAIN es : es[i] \in Value
      BY <2>1, <2>3, ElemsType
    <3>2. ContentsWith(in, x) = Inside(Len(es), C)
      BY <2>3 DEF ContentsWith
    <3>3. h \in Store
      BY <2>1
    <3> HIDE DEF h, es
    <3>4. \A i \in DOMAIN es : <<es[i], h>> \in Stored
      BY <3>1, <3>3 DEF Stored, Store
    <3>5. DOMAIN C \subseteq Nat /\ \A i \in DOMAIN C : C[i] \in Paths
      BY <3>1, <3>4
    <3> HIDE DEF C
    <3> QED
      BY <3>1, <3>2, <3>5, InsideType
  <2> QED
    BY <2>2, <2>3
<1>3. step \in [Nat \X S -> S]
  BY <1>2
<1>4. \A d \in Nat : \A in \in S :
        step[<<d, in>>] = [x \in Stored |-> ContentsWith(in, x)]
  OBVIOUS
<1> HIDE DEF step, S
<1>5. PICK f \in [Nat -> S] : \A n \in Nat : Follows(f, n, base, step)
  BY <1>1, <1>3, RecursionExists
<1>6. \A f1, d : Val(f1, d) = Lifted(f1, d)
  <2>1. ASSUME NEW f1, NEW d, NEW x
        PROVE  Body(f1, d, x) = Up(f1, d, x)
    <3> DEFINE es == x[2][x[1].v].elems
               in == f1[d - 1]
               C == [i \in DOMAIN es |-> in[<<es[i], x[2]>>]]
    <3>1. {{<< <<i>> \o p[1], p[2]>> : p \in in[<<es[i], x[2]>>]} : i \in DOMAIN es}
            = {{<< <<i>> \o p[1], p[2]>> : p \in C[i]} : i \in DOMAIN C}
      <4> HIDE DEF es, in
      <4>1. DOMAIN C = DOMAIN es /\ \A i \in DOMAIN es : C[i] = in[<<es[i], x[2]>>]
        OBVIOUS
      <4> DEFINE Ein(i) == {<< <<i>> \o p[1], p[2]>> : p \in in[<<es[i], x[2]>>]}
                 Out(i) == {<< <<i>> \o p[1], p[2]>> : p \in C[i]}
      <4>2. \A i \in DOMAIN es : Ein(i) = Out(i)
        BY <4>1
      <4> HIDE DEF C, Ein, Out
      <4>3. {Ein(i) : i \in DOMAIN es} = {Out(i) : i \in DOMAIN C}
        BY <4>1, <4>2
      <4> QED
        BY <4>3 DEF Ein, Out
    <3>2. Inside(Len(es), C) =
            {<< << >>, Handle("tuple", Len(es))>>} \cup
            UNION {{<< <<i>> \o p[1], p[2]>> : p \in in[<<es[i], x[2]>>]} : i \in DOMAIN es}
      BY <3>1 DEF Inside
    <3> QED
      BY <3>2 DEF ContentsWith
  <2> HIDE DEF Body, Up
  <2> QED
    BY <2>1
<1>7. f = [d \in Nat |-> Val(f, d)]
  <2>1. f[0] = Lifted(f, 0)
    BY <1>5 DEF Follows
  <2>2. ASSUME NEW d \in Nat \ {0}
        PROVE  f[d] = Lifted(f, d)
    <3>1. d - 1 \in Nat /\ (d - 1) + 1 = d /\ d - 1 \in 0 .. d - 1
      OBVIOUS
    <3>2. f[d - 1] \in S
      BY <3>1
    <3>3. f[d] = step[<<d - 1, f[d - 1]>>]
      BY <1>5, <3>1 DEF Follows
    <3> QED
      BY <1>4, <3>1, <3>2, <3>3
  <2> HIDE DEF Lifted, Val
  <2>3. \A d \in Nat : f[d] = Val(f, d)
    BY <1>6, <2>1, <2>2
  <2> QED
    BY <2>3
<1>8. Contents = [d \in Nat |-> Val(Contents, d)]
  BY <1>7 DEF Contents
<1> HIDE DEF Val, Lifted
<1>9. Contents[depth] = Lifted(Contents, depth)
  BY <1>6, <1>8
<1> QED
  BY <1>9 DEF Lifted

(* What is no tuple is itself; a tuple is what its elements are.           *)
LEMMA ContentsOfValue ==
  ASSUME NEW h \in Store, NEW v \in Value, NEW d \in Nat
  PROVE  /\ ~Tup(v) \/ d = 0 => Contents[d][<<v, h>>] = {<< << >>, v>>}
         /\ Tup(v) /\ v.v \in DOMAIN h =>
              LET es == h[v.v].elems
              IN  Contents[d + 1][<<v, h>>] =
                    Inside(Len(es), [i \in DOMAIN es |-> Contents[d][<<es[i], h>>]])
<1> DEFINE x == <<v, h>>
<1>1. x \in Stored /\ x[1] = v /\ x[2] = h
  BY DEF Stored, Store
<1>2. Contents[d][x] = IF d = 0 THEN {<< << >>, v>>} ELSE ContentsWith(Contents[d - 1], x)
  BY <1>1, ContentsUnfolds
<1>3. Contents[d + 1][x] = ContentsWith(Contents[d], x)
  <2> DEFINE e == d + 1
  <2>1. e \in Nat /\ e # 0 /\ e - 1 = d
    OBVIOUS
  <2> HIDE DEF e, x
  <2>2. Contents[e] = [y \in Stored |-> IF e = 0 THEN {<< << >>, y[1]>>}
                                        ELSE ContentsWith(Contents[e - 1], y)]
    BY <2>1, ContentsUnfolds
  <2>3. Contents[e][x] = ContentsWith(Contents[d], x)
    BY <1>1, <2>1, <2>2
  <2> QED
    BY <2>3 DEF e
<1> HIDE DEF x
<1>4. ASSUME ~Tup(v) \/ d = 0 PROVE Contents[d][x] = {<< << >>, v>>}
  BY <1>1, <1>2, <1>4 DEF ContentsWith, Tup
<1>5. ASSUME Tup(v), v.v \in DOMAIN h
      PROVE  Contents[d + 1][x] =
               Inside(Len(h[v.v].elems),
                      [i \in DOMAIN h[v.v].elems |-> Contents[d][<<h[v.v].elems[i], h>>]])
  BY <1>1, <1>3, <1>5 DEF ContentsWith, Tup
<1> QED
  BY <1>4, <1>5 DEF x

(* What is no tuple holds none; a tuple holds itself and what its elements *)
(* hold.                                                                   *)
LEMMA TuplesInValue ==
  ASSUME NEW h \in Store, NEW v \in Value, NEW d \in Nat
  PROVE  /\ ~Tup(v) \/ d = 0 => TuplesIn[d][<<v, h>>] = {}
         /\ Tup(v) /\ v.v \in DOMAIN h =>
              TuplesIn[d + 1][<<v, h>>] =
                {v.v} \cup UNION {TuplesIn[d][<<h[v.v].elems[i], h>>] :
                                    i \in DOMAIN h[v.v].elems}
<1> DEFINE x == <<v, h>>
<1>1. x \in Stored /\ x[1] = v /\ x[2] = h
  BY DEF Stored, Store
<1>2. TuplesIn[d][x] = IF d = 0 THEN {} ELSE HeldWith(TuplesIn[d - 1], x)
  BY <1>1, TuplesInUnfolds
<1>3. TuplesIn[d + 1][x] = HeldWith(TuplesIn[d], x)
  <2> DEFINE e == d + 1
  <2>1. e \in Nat /\ e # 0 /\ e - 1 = d
    OBVIOUS
  <2> HIDE DEF e, x
  <2>2. TuplesIn[e] = [y \in Stored |-> IF e = 0 THEN {} ELSE HeldWith(TuplesIn[e - 1], y)]
    BY <2>1, TuplesInUnfolds
  <2>3. TuplesIn[e][x] = HeldWith(TuplesIn[d], x)
    BY <1>1, <2>1, <2>2
  <2> QED
    BY <2>3 DEF e
<1> HIDE DEF x
<1>4. ASSUME ~Tup(v) \/ d = 0 PROVE TuplesIn[d][x] = {}
  BY <1>1, <1>2, <1>4 DEF HeldWith, Tup
<1>5. ASSUME Tup(v), v.v \in DOMAIN h
      PROVE  TuplesIn[d + 1][x] =
               {v.v} \cup UNION {TuplesIn[d][<<h[v.v].elems[i], h>>] :
                                   i \in DOMAIN h[v.v].elems}
  BY <1>1, <1>3, <1>5 DEF HeldWith, Tup
<1> QED
  BY <1>4, <1>5 DEF x

(* A tuple's elements are values that lead.                                *)
LEMMA ElemsOfTuple ==
  ASSUME NEW h \in Store, ElemsLead(h), NEW v \in Value, Leads(v, h), Tup(v)
  PROVE  /\ v.v \in DOMAIN h /\ h[v.v].k = "tuple"
         /\ \A i \in DOMAIN h[v.v].elems :
              h[v.v].elems[i] \in Value /\ Leads(h[v.v].elems[i], h)
<1>1. v.v \in DOMAIN h /\ h[v.v].k = "tuple"
  BY DEF Leads, Tup, Handles
<1> QED
  BY <1>1, ElemsType DEF ElemsLead, AllLead

(* What a value holds are tuples, and there.                               *)
LEMMA TuplesInHere ==
  ASSUME NEW h \in Store, ElemsLead(h), NEW depth \in Nat
  PROVE  \A v \in Value : Leads(v, h) =>
           \A o \in TuplesIn[depth][<<v, h>>] : o \in DOMAIN h /\ h[o].k = "tuple"
<1> DEFINE Good(d) == \A v \in Value : Leads(v, h) =>
             \A o \in TuplesIn[d][<<v, h>>] : o \in DOMAIN h /\ h[o].k = "tuple"
           P == {d \in Nat : Good(d)}
<1>1. 0 \in P
  BY TuplesInValue
<1>2. ASSUME NEW d \in Nat, d \in P
      PROVE  d + 1 \in P
  <2>1. ASSUME NEW v \in Value, Leads(v, h), NEW o \in TuplesIn[d + 1][<<v, h>>]
        PROVE  o \in DOMAIN h /\ h[o].k = "tuple"
    <3>1. Tup(v)
      BY <2>1, TuplesInValue
    <3>2. /\ v.v \in DOMAIN h /\ h[v.v].k = "tuple"
          /\ \A i \in DOMAIN h[v.v].elems :
               h[v.v].elems[i] \in Value /\ Leads(h[v.v].elems[i], h)
      BY <2>1, <3>1, ElemsOfTuple
    <3>3. o = v.v \/ \E i \in DOMAIN h[v.v].elems :
                        o \in TuplesIn[d][<<h[v.v].elems[i], h>>]
      BY <2>1, <3>1, <3>2, TuplesInValue
    <3> QED
      BY <1>2, <3>2, <3>3
  <2> QED
    BY <2>1
<1> HIDE DEF P, Good
<1>3. depth \in P
  BY <1>1, <1>2, NaturalInduction
<1> QED
  BY <1>3 DEF P, Good

(* A value whose tuples another store has as well is the same there.       *)
LEMMA ContentsUntouched ==
  ASSUME NEW h \in Store, ElemsLead(h), NEW g \in Store, NEW depth \in Nat
  PROVE  \A v \in Value : Leads(v, h) /\ SameElems(TuplesIn[depth][<<v, h>>], h, g) =>
           Contents[depth][<<v, g>>] = Contents[depth][<<v, h>>]
<1> DEFINE Good(d) ==
             \A v \in Value : Leads(v, h) /\ SameElems(TuplesIn[d][<<v, h>>], h, g) =>
               Contents[d][<<v, g>>] = Contents[d][<<v, h>>]
           P == {d \in Nat : Good(d)}
<1>1. 0 \in P
  BY ContentsOfValue, ZenonT(40)
<1>2. ASSUME NEW d \in Nat, d \in P
      PROVE  d + 1 \in P
  <2>1. ASSUME NEW v \in Value, Leads(v, h), SameElems(TuplesIn[d + 1][<<v, h>>], h, g)
        PROVE  Contents[d + 1][<<v, g>>] = Contents[d + 1][<<v, h>>]
    <3>1. CASE ~Tup(v)
      <4>1. d + 1 \in Nat
        OBVIOUS
      <4>2. \A f \in {g, h} : Contents[d + 1][<<v, f>>] = {<< << >>, v>>}
        BY <3>1, <4>1, ContentsOfValue
      <4> QED
        BY <4>2
    <3>2. CASE Tup(v)
      <4>1. /\ v.v \in DOMAIN h
            /\ \A i \in DOMAIN h[v.v].elems :
                 h[v.v].elems[i] \in Value /\ Leads(h[v.v].elems[i], h)
        BY <2>1, <3>2, ElemsOfTuple
      <4> DEFINE es == h[v.v].elems
                 C == [i \in DOMAIN es |-> Contents[d][<<es[i], h>>]]
                 D == [i \in DOMAIN es |-> Contents[d][<<es[i], g>>]]
                 Sub(i) == TuplesIn[d][<<es[i], h>>]
      <4>2. TuplesIn[d + 1][<<v, h>>] = {v.v} \cup UNION {Sub(i) : i \in DOMAIN es}
        BY <3>2, <4>1, TuplesInValue
      <4>3. v.v \in DOMAIN g /\ g[v.v].elems = es
        BY <2>1, <4>2 DEF SameElems
      <4>4. \A i \in DOMAIN es : SameElems(Sub(i), h, g)
        <5> HIDE DEF Sub, es
        <5> QED
          BY <2>1, <4>2 DEF SameElems
      <4>5. \A i \in DOMAIN es : Contents[d][<<es[i], g>>] = Contents[d][<<es[i], h>>]
        BY <1>2, <4>1, <4>4
      <4>6. Contents[d + 1][<<v, h>>] = Inside(Len(es), C)
        BY <3>2, <4>1, ContentsOfValue
      <4>7. Contents[d + 1][<<v, g>>] = Inside(Len(es), D)
        <5> DEFINE fs == g[v.v].elems
        <5>1. Contents[d + 1][<<v, g>>] =
                Inside(Len(fs), [i \in DOMAIN fs |-> Contents[d][<<fs[i], g>>]])
          BY <3>2, <4>3, ContentsOfValue
        <5>2. fs = es
          BY <4>3
        <5> HIDE DEF fs, es
        <5> QED
          BY <5>1, <5>2
      <4>8. C = D
        BY <4>5
      <4> QED
        BY <4>6, <4>7, <4>8
    <3> QED
      BY <3>1, <3>2
  <2> QED
    BY <2>1
<1> HIDE DEF P, Good
<1>3. depth \in P
  BY <1>1, <1>2, NaturalInduction
<1> QED
  BY <1>3 DEF P, Good

(* All tuples of h are in g.                                               *)
TuplesStay(h, g) == \A o \in DOMAIN h : h[o].k = "tuple" =>
                      o \in DOMAIN g /\ g[o].elems = h[o].elems

(* Then every value is the same.                                           *)
LEMMA ContentsKept ==
  ASSUME NEW h \in Store, ElemsLead(h), NEW g \in Store, TuplesStay(h, g),
         NEW depth \in Nat, NEW v \in Value, Leads(v, h)
  PROVE  Contents[depth][<<v, g>>] = Contents[depth][<<v, h>>]
<1>1. SameElems(TuplesIn[depth][<<v, h>>], h, g)
  BY TuplesInHere DEF SameElems, TuplesStay
<1> QED
  BY <1>1, ContentsUntouched

(* A value of a rank below a depth is the same to each depth from there    *)
(* on.                                                                     *)
LEMMA ContentsDeepEnough ==
  ASSUME NEW h \in Store, ElemsLead(h), NEW r \in [DOMAIN h -> Nat], Falls(r, h),
         NEW depth \in Nat
  PROVE  \A v \in Value : Leads(v, h) /\ (Tup(v) => r[v.v] < depth) =>
           \A e \in Nat : depth <= e => Contents[e][<<v, h>>] = Contents[depth][<<v, h>>]
<1> DEFINE Good(d) ==
             \A v \in Value : Leads(v, h) /\ (Tup(v) => r[v.v] < d) =>
               \A e \in Nat : d <= e => Contents[e][<<v, h>>] = Contents[d][<<v, h>>]
           P == {d \in Nat : Good(d)}
<1>1. 0 \in P
  <2>1. ASSUME NEW v \in Value, Leads(v, h), Tup(v) => r[v.v] < 0
        PROVE  ~Tup(v)
    BY <2>1, ElemsOfTuple
  <2> QED
    BY <2>1, ContentsOfValue
<1>2. ASSUME NEW d \in Nat, d \in P
      PROVE  d + 1 \in P
  <2>1. ASSUME NEW v \in Value, Leads(v, h), Tup(v) => r[v.v] < d + 1,
               NEW e \in Nat, d + 1 <= e
        PROVE  Contents[e][<<v, h>>] = Contents[d + 1][<<v, h>>]
    <3>1. CASE ~Tup(v)
      <4>1. d + 1 \in Nat
        OBVIOUS
      <4>2. \A f \in {e, d + 1} : Contents[f][<<v, h>>] = {<< << >>, v>>}
        BY <3>1, <4>1, ContentsOfValue
      <4> QED
        BY <4>2
    <3>2. CASE Tup(v)
      <4>1. /\ v.v \in DOMAIN h /\ h[v.v].k = "tuple"
            /\ \A i \in DOMAIN h[v.v].elems :
                 h[v.v].elems[i] \in Value /\ Leads(h[v.v].elems[i], h)
        BY <2>1, <3>2, ElemsOfTuple
      <4> DEFINE es == h[v.v].elems
                 f == e - 1
                 C == [i \in DOMAIN es |-> Contents[d][<<es[i], h>>]]
                 D == [i \in DOMAIN es |-> Contents[f][<<es[i], h>>]]
      <4>2. f \in Nat /\ f + 1 = e /\ d <= f
        BY <2>1
      <4>3. ASSUME NEW i \in DOMAIN es, Tup(es[i])
            PROVE  r[es[i].v] < d
        <5>1. r[es[i].v] < r[v.v] /\ es[i].v \in DOMAIN h
          BY <4>1, <4>3, ElemsOfTuple DEF Falls
        <5> DEFINE a == r[es[i].v]
                   b == r[v.v]
        <5>2. a \in Nat /\ b \in Nat /\ a < b /\ b < d + 1
          BY <2>1, <3>2, <4>1, <5>1
        <5> HIDE DEF a, b
        <5>3. a < d
          BY <5>2
        <5> QED
          BY <5>3 DEF a
      <4> HIDE DEF f
      <4>4. \A i \in DOMAIN es : Contents[f][<<es[i], h>>] = Contents[d][<<es[i], h>>]
        BY <1>2, <4>1, <4>2, <4>3
      <4>5. Contents[d + 1][<<v, h>>] = Inside(Len(es), C)
        BY <3>2, <4>1, ContentsOfValue
      <4>6. Contents[f + 1][<<v, h>>] = Inside(Len(es), D)
        BY <3>2, <4>1, <4>2, ContentsOfValue
      <4>7. C = D
        BY <4>4
      <4> QED
        BY <4>2, <4>5, <4>6, <4>7
    <3> QED
      BY <3>1, <3>2
  <2> QED
    BY <2>1
<1> HIDE DEF P, Good
<1>3. depth \in P
  BY <1>1, <1>2, NaturalInduction
<1> QED
  BY <1>3 DEF P, Good

(* A copy is what it was made of, for values of a rank below d, if one     *)
(* looks deep enough.                                                      *)
CopiesSame(copy, d) ==
  \A x \in Stored : \A r \in [DOMAIN x[2] -> Nat] : \A e \in Nat :
    /\ Leads(x[1], x[2]) /\ ElemsLead(x[2]) /\ Falls(r, x[2])
    /\ Tup(x[1]) => r[x[1].v] < d /\ r[x[1].v] < e
    => Contents[e][copy[x]] = Contents[e][x]

(* A longer store has the same tuples.                                     *)
LEMMA ExtendsKeeps ==
  ASSUME NEW h \in Store, NEW g \in Store, Extends(h, g)
  PROVE  TuplesStay(h, g)
<1>1. DOMAIN h = 1 .. Len(h) /\ DOMAIN g = 1 .. Len(g) /\ Len(h) \in Nat /\ Len(g) \in Nat
  BY LenProperties DEF Store
<1> QED
  BY <1>1 DEF TuplesStay, Extends

(* The copies ws on g are the same as the first n of es on h, whose ranks  *)
(* are r.                                                                  *)
SameSoFar(n, ws, g, es, h, r) ==
  \A i \in 1 .. n : \A e \in Nat :
    (Tup(es[i]) => r[es[i].v] < e) => Contents[e][<<ws[i], g>>] = Contents[e][<<es[i], h>>]

(* One more element is copied.                                             *)
LEMMA SameWithNext ==
  ASSUME NEW copy, Copier(copy), NEW d, CopiesSame(copy, d),
         NEW es \in Seq(Value), NEW h \in Store, AllLead(es, h), ElemsLead(h),
         NEW r \in [DOMAIN h -> Nat],
         NEW n \in 0 .. Len(es) - 1, NEW s, ElemsMade(es, h, n, s),
         NEW q \in [DOMAIN s[2] -> Nat], Falls(q, s[2]), \A o \in DOMAIN h : q[o] = r[o],
         Tup(es[n + 1]) => r[es[n + 1].v] < d,
         SameSoFar(n, s[1], s[2], es, h, r)
  PROVE  LET c == copy[<<es[n + 1], s[2]>>]
         IN  SameSoFar(n + 1, Append(s[1], c[1]), c[2], es, h, r)
<1> DEFINE x == <<es[n + 1], s[2]>>
           c == copy[x]
           ws == Append(s[1], c[1])
<1>1. Len(es) \in Nat /\ n \in Nat /\ n + 1 \in 1 .. Len(es) /\ DOMAIN es = 1 .. Len(es)
  BY LenProperties
<1>2. es[n + 1] \in Value /\ Leads(es[n + 1], h)
  BY <1>1, ElementOfSeq DEF AllLead
<1>3. /\ s[1] \in Seq(Value) /\ Len(s[1]) = n /\ s[2] \in Store /\ Extends(h, s[2])
      /\ ElemsLead(s[2]) /\ AllLead(s[1], s[2])
  BY DEF ElemsMade
<1>4. x \in Stored /\ x[1] = es[n + 1] /\ x[2] = s[2]
  BY <1>2, <1>3 DEF Stored, Store
<1> HIDE DEF x
<1>5. c[1] \in Value /\ c[2] \in Store /\ Extends(s[2], c[2]) /\ c = <<c[1], c[2]>>
  BY <1>4 DEF Copier, CopyMade, Stored, Store
<1> HIDE DEF c
<1>6. Leads(es[n + 1], s[2])
  BY <1>2, <1>3, LeadsOn
<1>7. TuplesStay(h, s[2]) /\ TuplesStay(s[2], c[2])
  BY <1>3, <1>5, ExtendsKeeps
<1>8. \A i \in 1 .. n : s[1][i] \in Value /\ Leads(s[1][i], s[2])
  BY <1>3, LenProperties, ElementOfSeq DEF AllLead
<1>9. /\ \A i \in 1 .. n : ws[i] = s[1][i]
      /\ ws[n + 1] = c[1]
  BY <1>1, <1>3, <1>5, AppendProperties
<1> HIDE DEF ws
<1>10. ASSUME NEW i \in 1 .. n, NEW e \in Nat, Tup(es[i]) => r[es[i].v] < e
       PROVE  Contents[e][<<ws[i], c[2]>>] = Contents[e][<<es[i], h>>]
  <2>1. Contents[e][<<s[1][i], c[2]>>] = Contents[e][<<s[1][i], s[2]>>]
    BY <1>3, <1>5, <1>7, <1>8, ContentsKept
  <2>2. Contents[e][<<s[1][i], s[2]>>] = Contents[e][<<es[i], h>>]
    BY <1>10 DEF SameSoFar
  <2> QED
    BY <1>9, <2>1, <2>2
<1>11. ASSUME NEW e \in Nat, Tup(es[n + 1]) => r[es[n + 1].v] < e
       PROVE  Contents[e][<<ws[n + 1], c[2]>>] = Contents[e][<<es[n + 1], h>>]
  <2>1. Tup(x[1]) => q[x[1].v] < d /\ q[x[1].v] < e
    <3>1. Tup(es[n + 1]) => es[n + 1].v \in DOMAIN h
      BY <1>2 DEF Leads, Tup, Handles
    <3> QED
      BY <1>4, <1>11, <3>1
  <2>2. Contents[e][c] = Contents[e][x]
    <3>1. Leads(x[1], x[2]) /\ ElemsLead(x[2]) /\ Falls(q, x[2]) /\ q \in [DOMAIN x[2] -> Nat]
      BY <1>3, <1>4, <1>6
    <3> QED
      BY <1>4, <2>1, <3>1 DEF CopiesSame, c
  <2>3. Contents[e][x] = Contents[e][<<es[n + 1], h>>]
    BY <1>2, <1>3, <1>7, ContentsKept DEF x
  <2> QED
    BY <1>5, <1>9, <2>2, <2>3
<1>12. SameSoFar(n + 1, ws, c[2], es, h, r)
  <2>1. \A i \in 1 .. n + 1 : i \in 1 .. n \/ i = n + 1
    BY <1>1
  <2> QED
    BY <1>10, <1>11, <2>1 DEF SameSoFar
<1> QED
  BY <1>12 DEF ws, c, x

(* CopyElems makes the same of each element.                               *)
LEMMA CopyElemsSame ==
  ASSUME NEW copy, Copier(copy), NEW d, CopiesBelow(copy, d), CopiesSame(copy, d),
         NEW es \in Seq(Value), NEW h \in Store, AllLead(es, h), ElemsLead(h),
         NEW r \in [DOMAIN h -> Nat], Falls(r, h),
         \A k \in DOMAIN es : Tup(es[k]) => r[es[k].v] < d
  PROVE  LET c == CopyElems(copy, es, h)
         IN  SameSoFar(Len(es), c[1], c[2], es, h, r)
<1>1. copy \in [Stored -> Stored]
  BY DEF Copier
<1>2. PICK done \in [0 .. Len(es) -> Seq(Value) \X Store] :
           /\ CopyElems(copy, es, h) = done[Len(es)]
           /\ done[0] = << << >>, h >>
           /\ \A i \in 0 .. Len(es) - 1 :
                LET c == copy[<<es[i + 1], done[i][2]>>]
                IN  done[i + 1] = <<Append(done[i][1], c[1]), c[2]>>
  BY <1>1, CopyElemsUnfolds, ZenonT(40)
<1>3. Len(es) \in Nat /\ DOMAIN es = 1 .. Len(es)
  BY LenProperties
<1> DEFINE Ranked(g) ==
             \E q \in [DOMAIN g -> Nat] : Falls(q, g) /\ \A o \in DOMAIN h : q[o] = r[o]
           Good(i, s) == /\ ElemsMade(es, h, i, s) /\ Ranked(s[2])
                         /\ SameSoFar(i, s[1], s[2], es, h, r)
           P == {i \in 0 .. Len(es) : Good(i, done[i])}
<1>4. 0 \in P
  <2>1. Extends(h, h)
    BY LenProperties DEF Extends, Store
  <2>2. << >> \in Seq(Value) /\ Len(<< >>) = 0
    BY EmptySeq
  <2>3. done[0][1] = << >> /\ done[0][2] = h
    BY <1>2
  <2>4. ElemsMade(es, h, 0, done[0])
    BY <2>1, <2>2, <2>3 DEF ElemsMade, AllLead
  <2>5. Ranked(h)
    OBVIOUS
  <2>6. SameSoFar(0, << >>, h, es, h, r)
    BY DEF SameSoFar
  <2> QED
    BY <1>3, <2>3, <2>4, <2>5, <2>6
<1>5. ASSUME NEW i \in 0 .. Len(es) - 1, i \in P
      PROVE  i + 1 \in P
  <2> DEFINE s == done[i]
             x == <<es[i + 1], s[2]>>
             c == copy[x]
             t == <<Append(s[1], c[1]), c[2]>>
  <2>1. ElemsMade(es, h, i, s) /\ Ranked(s[2]) /\ SameSoFar(i, s[1], s[2], es, h, r)
    BY <1>5
  <2>2. done[i + 1] = t
    BY <1>2
  <2>3. ElemsMade(es, h, i + 1, t)
    BY <2>1, ElemCopied
  <2>4. /\ i + 1 \in DOMAIN es /\ es[i + 1] \in Value /\ Leads(es[i + 1], h)
        /\ Tup(es[i + 1]) => r[es[i + 1].v] < d
    <3>1. i + 1 \in DOMAIN es
      BY <1>3
    <3> QED
      BY <3>1, ElementOfSeq, <1>3 DEF AllLead
  <2>5. s[1] \in Seq(Value) /\ s[2] \in Store /\ Extends(h, s[2]) /\ ElemsLead(s[2])
    BY <2>1 DEF ElemsMade
  <2>6. PICK q \in [DOMAIN s[2] -> Nat] :
          Falls(q, s[2]) /\ \A o \in DOMAIN h : q[o] = r[o]
    BY <2>1
  <2> HIDE DEF P, Good, s
  <2>7. SameSoFar(i + 1, Append(s[1], c[1]), c[2], es, h, r)
    BY <2>1, <2>4, <2>6, SameWithNext
  <2>8. x \in Stored /\ x[1] = es[i + 1] /\ x[2] = s[2]
    BY <2>4, <2>5 DEF Stored, Store
  <2> HIDE DEF x
  <2>9. c[1] \in Value /\ c[2] \in Store /\ Extends(s[2], c[2])
    BY <2>8 DEF Copier, CopyMade, Stored, Store
  <2>10. Leads(es[i + 1], s[2])
    BY <2>4, <2>5, LeadsOn
  <2>11. Tup(es[i + 1]) => q[es[i + 1].v] < d
    <3>1. Tup(es[i + 1]) => es[i + 1].v \in DOMAIN h
      BY <2>4 DEF Leads, Tup, Handles
    <3> QED
      BY <2>4, <2>6, <3>1
  <2> HIDE DEF c
  <2>12. FreshCopies(s[2], << c[1] >>, c[2])
    BY <2>5, <2>6, <2>8, <2>10, <2>11 DEF CopiesBelow, c
  <2>13. \E p \in [DOMAIN c[2] -> Nat] : Falls(p, c[2]) /\ \A o \in DOMAIN s[2] : p[o] = q[o]
    BY <2>5, <2>6, <2>9, <2>12, RanksGrow
  <2>14. DOMAIN h \subseteq DOMAIN s[2]
    BY <2>5, LenProperties DEF Extends, Store
  <2>15. Ranked(c[2])
    BY <2>6, <2>13, <2>14
  <2>16. t[1] = Append(s[1], c[1]) /\ t[2] = c[2]
    OBVIOUS
  <2> HIDE DEF t, Ranked
  <2>17. Good(i + 1, t)
    BY <2>3, <2>7, <2>15, <2>16 DEF Good
  <2> QED
    BY <1>3, <2>2, <2>17 DEF P
<1> HIDE DEF P, Good
<1>6. 0 .. Len(es) \subseteq P
  BY <1>3, <1>4, <1>5, BoundedInduction
<1>7. Len(es) \in P
  BY <1>3, <1>6
<1> QED
  BY <1>2, <1>7 DEF P, Good

(* So does one level of copying.                                           *)
LEMMA LevelSame ==
  ASSUME NEW copy, Copier(copy), NEW d \in Nat, CopiesBelow(copy, d), CopiesSame(copy, d)
  PROVE  CopiesSame([x \in Stored |-> Level(copy, x)], d + 1)
<1> SUFFICES ASSUME NEW x \in Stored, NEW r \in [DOMAIN x[2] -> Nat], NEW f \in Nat,
                    Leads(x[1], x[2]), ElemsLead(x[2]), Falls(r, x[2]),
                    Tup(x[1]) => r[x[1].v] < d + 1 /\ r[x[1].v] < f
             PROVE  Contents[f][Level(copy, x)] = Contents[f][x]
  BY DEF CopiesSame
<1> DEFINE h == x[2]
           v == x[1]
<1>1. h \in Store /\ v \in Value /\ Len(h) \in Nat /\ DOMAIN h = 1 .. Len(h)
  BY LenProperties DEF Stored, Store
<1>2. CASE ~Tup(v)
  BY <1>2 DEF Level, Tup
<1>3. CASE Tup(v)
  <2>1. v.v \in DOMAIN h /\ h[v.v].k = "tuple"
    BY <1>3 DEF Leads, Tup, Handles
  <2> DEFINE elems == h[v.v].elems
             es == CopyElems(copy, elems, h)
             t  == Plain("tuple", h[v.v].ty, es[1])
             N  == Len(es[2]) + 1
             g  == Append(es[2], t)
             w  == Handle("tuple", N)
             e  == f - 1
             R  == r[v.v]
  <2>2. R \in Nat /\ R < d + 1 /\ R < f
    BY <1>3, <2>1
  <2> HIDE DEF R
  <2>3. e \in Nat /\ e + 1 = f /\ R <= d /\ R <= e
    BY <2>2
  <2> HIDE DEF e
  <2>4. /\ elems \in Seq(Value) /\ DOMAIN elems = 1 .. Len(elems)
        /\ Len(elems) \in Nat
    BY <1>1, <2>1, ElemsType
  <2>5. AllLead(elems, h)
    BY <2>1 DEF ElemsLead
  <2>6. \A k \in DOMAIN elems : Tup(elems[k]) => r[elems[k].v] < d /\ r[elems[k].v] < e
    <3> SUFFICES ASSUME NEW k \in DOMAIN elems, Tup(elems[k])
                 PROVE  r[elems[k].v] < d /\ r[elems[k].v] < e
      OBVIOUS
    <3>1. r[elems[k].v] < R
      BY <2>1 DEF Falls, R
    <3>2. elems[k].v \in DOMAIN h
      BY <2>1, ElemsIn
    <3> DEFINE a == r[elems[k].v]
    <3>3. a \in Nat
      BY <3>2
    <3> HIDE DEF elems, a
    <3>4. a < R
      BY <3>1 DEF a
    <3> HIDE DEF h, v
    <3>5. a < d /\ a < e
      BY <2>2, <2>3, <3>3, <3>4
    <3> QED
      BY <3>5 DEF a
  <2>7. Level(copy, x) = <<w, g>>
    BY <1>3, <2>1 DEF Level, Tup
  <2>8. v = x[1] /\ h = x[2] /\ x = <<v, h>>
    BY DEF Stored
  <2>9. ElemsMade(elems, h, Len(elems), es)
    BY <1>1, <2>4, CopyElemsMade
  <2>10. SameSoFar(Len(elems), es[1], es[2], elems, h, r)
    <3>1. \A k \in DOMAIN elems : Tup(elems[k]) => r[elems[k].v] < d
      BY <2>6
    <3>2. r \in [DOMAIN h -> Nat] /\ Falls(r, h) /\ ElemsLead(h)
      OBVIOUS
    <3> HIDE DEF elems, h
    <3> QED
      BY <1>1, <2>4, <2>5, <3>1, <3>2, CopyElemsSame
  <2>11. Contents[f][<<v, h>>] =
           Inside(Len(elems), [i \in DOMAIN elems |-> Contents[e][<<elems[i], h>>]])
    BY <1>1, <1>3, <2>1, <2>3, ContentsOfValue
  <2> HIDE DEF es
  <2>12. /\ es[1] \in Seq(Value) /\ es[2] \in Store /\ Extends(h, es[2])
         /\ Len(es[1]) = Len(elems) /\ DOMAIN es[1] = DOMAIN elems
         /\ ElemsLead(es[2]) /\ AllLead(es[1], es[2])
         /\ Len(es[2]) \in Nat /\ DOMAIN es[2] = 1 .. Len(es[2])
    <3>1. /\ es[1] \in Seq(Value) /\ es[2] \in Store /\ Extends(h, es[2])
          /\ Len(es[1]) = Len(elems)
      BY <2>9 DEF ElemsMade
    <3>2. ElemsLead(es[2]) /\ AllLead(es[1], es[2])
      BY <2>5, <2>9 DEF ElemsMade
    <3>3. DOMAIN es[1] = 1 .. Len(es[1]) /\ Len(es[2]) \in Nat
          /\ DOMAIN es[2] = 1 .. Len(es[2])
      BY <3>1, LenProperties DEF Store
    <3> HIDE DEF elems, h
    <3> QED
      BY <2>4, <3>1, <3>2, <3>3
  <2>13. t \in Obj(Nat, CellId) /\ t.elems = es[1]
    <3>1. h[v.v] \in Obj(Nat, CellId)
      BY <1>1, <2>1, ElementOfSeq DEF Store
    <3>2. h[v.v].ty \in Nat
      BY <3>1 DEF Obj
    <3> HIDE DEF h, v
    <3> QED
      BY <2>12, <3>2 DEF Plain, Obj, ObjKinds
  <2>14. /\ g \in Store /\ N \in DOMAIN g /\ g[N] = t
         /\ TuplesStay(es[2], g)
    <3> HIDE DEF t
    <3>1. /\ g \in Store /\ Len(g) = Len(es[2]) + 1 /\ DOMAIN g = 1 .. Len(es[2]) + 1
          /\ \A o \in 1 .. Len(es[2]) : g[o] = es[2][o]
          /\ g[Len(es[2]) + 1] = t
      BY <2>12, <2>13, AppendProperties, LenProperties DEF Store
    <3> HIDE DEF g
    <3> QED
      BY <2>12, <3>1 DEF TuplesStay
  <2>15. w \in Value /\ Tup(w) /\ w.v = N
    <3>1. N \in Int
      BY <2>12
    <3> HIDE DEF N
    <3> QED
      BY <3>1 DEF Handle, Value, Kinds, Handles, Tup
  <2> HIDE DEF t, g, w, N
  <2> DEFINE C == [i \in DOMAIN elems |-> Contents[e][<<elems[i], h>>]]
             D == [i \in DOMAIN es[1] |-> Contents[e][<<es[1][i], g>>]]
  <2>16. Contents[f][<<w, g>>] = Inside(Len(es[1]), D)
    <3> DEFINE fs == g[w.v].elems
    <3>1. Contents[e + 1][<<w, g>>] =
            Inside(Len(fs), [i \in DOMAIN fs |-> Contents[e][<<fs[i], g>>]])
      BY <2>3, <2>14, <2>15, ContentsOfValue
    <3>2. fs = es[1]
      BY <2>13, <2>14, <2>15
    <3> HIDE DEF fs
    <3> QED
      BY <2>3, <3>1, <3>2
  <2>17. ASSUME NEW i \in DOMAIN elems
         PROVE  Contents[e][<<es[1][i], g>>] = Contents[e][<<elems[i], h>>]
    <3>1. es[1][i] \in Value /\ Leads(es[1][i], es[2])
      BY <2>4, <2>12, ElementOfSeq DEF AllLead
    <3>2. Contents[e][<<es[1][i], g>>] = Contents[e][<<es[1][i], es[2]>>]
      BY <2>3, <2>12, <2>14, <3>1, ContentsKept
    <3>3. Contents[e][<<es[1][i], es[2]>>] = Contents[e][<<elems[i], h>>]
      BY <2>3, <2>4, <2>6, <2>10 DEF SameSoFar
    <3> QED
      BY <3>2, <3>3
  <2>18. C = D
    BY <2>12, <2>17
  <2> HIDE DEF C, D, elems, h
  <2> QED
    BY <2>7, <2>8, <2>11, <2>12, <2>16, <2>18 DEF C
<1> QED
  BY <1>2, <1>3

(* copy_value makes the same, as far as its depth goes.                    *)
LEMMA CopyValueSame ==
  ASSUME NEW depth \in Nat
  PROVE  CopiesSame(CopyValue[depth], depth)
<1> DEFINE P == {d \in Nat : CopiesSame(CopyValue[d], d)}
<1>1. 0 \in P
  <2>1. CopyValue[0] = [x \in Stored |-> x]
    BY CopyValueUnfolds
  <2>2. CopiesSame(CopyValue[0], 0)
    BY <2>1 DEF CopiesSame
  <2> QED
    BY <2>2
<1>2. ASSUME NEW d \in Nat, d \in P
      PROVE  d + 1 \in P
  <2>1. CopyValue[d + 1] = [x \in Stored |-> Level(CopyValue[d], x)]
    BY CopyValueUnfolds
  <2>2. Copier(CopyValue[d]) /\ CopiesBelow(CopyValue[d], d)
    BY CopyValueCopies, CopyValueFresh
  <2>3. CopiesSame(CopyValue[d + 1], d + 1)
    BY <1>2, <2>1, <2>2, LevelSame
  <2> QED
    BY <2>3
<1> HIDE DEF P
<1>3. depth \in P
  BY <1>1, <1>2, NaturalInduction
<1> QED
  BY <1>3 DEF P

(* What a value is, looking as deep as there are objects.                  *)
Whole(v, h) == Contents[Len(h)][<<v, h>>]

(* Deep enough: looking deeper finds nothing new.                          *)
LEMMA WholeIsDeepEnough ==
  ASSUME NEW h \in Store, ElemsLead(h), Nested(h), NEW v \in Value, Leads(v, h),
         NEW e \in Nat, Len(h) <= e
  PROVE  Contents[e][<<v, h>>] = Whole(v, h)
<1>1. Len(h) \in Nat
  BY LenProperties DEF Store
<1>2. PICK r \in [DOMAIN h -> 0 .. Len(h) - 1] : Falls(r, h)
  BY DEF Nested
<1>3. r \in [DOMAIN h -> Nat]
  BY <1>1, <1>2
<1>4. Tup(v) => r[v.v] < Len(h)
  <2>1. Tup(v) => v.v \in DOMAIN h
    BY DEF Leads, Tup, Handles
  <2>2. \A o \in DOMAIN h : r[o] \in 0 .. Len(h) - 1
    BY <1>2
  <2> QED
    BY <1>1, <2>1, <2>2
<1> QED
  BY <1>1, <1>2, <1>3, <1>4, ContentsDeepEnough DEF Whole

(* Values stay what they are in a longer store that has their tuples.      *)
LEMMA WholeKept ==
  ASSUME NEW h \in Store, ElemsLead(h), Nested(h), NEW g \in Store, TuplesStay(h, g),
         Len(h) <= Len(g), NEW v \in Value, Leads(v, h)
  PROVE  Whole(v, g) = Whole(v, h)
<1>1. Len(g) \in Nat
  BY LenProperties DEF Store
<1>2. Contents[Len(g)][<<v, g>>] = Contents[Len(g)][<<v, h>>]
  BY <1>1, ContentsKept
<1> QED
  BY <1>1, <1>2, WholeIsDeepEnough DEF Whole

(* A copy is what it is a copy of.                                         *)
LEMMA WholeCopied ==
  ASSUME NEW h \in Store, NEW v \in Value, Leads(v, h), ElemsLead(h), Nested(h)
  PROVE  LET c == CopyValue[Len(h)][<<v, h>>] IN Whole(c[1], c[2]) = Whole(v, h)
<1> DEFINE x == <<v, h>>
           c == CopyValue[Len(h)][x]
<1>1. Len(h) \in Nat
  BY LenProperties DEF Store
<1>2. PICK r \in [DOMAIN h -> 0 .. Len(h) - 1] : Falls(r, h)
  BY DEF Nested
<1>3. r \in [DOMAIN h -> Nat]
  BY <1>1, <1>2
<1>4. Tup(v) => r[v.v] < Len(h)
  <2>1. Tup(v) => v.v \in DOMAIN h
    BY DEF Leads, Tup, Handles
  <2>2. \A o \in DOMAIN h : r[o] \in 0 .. Len(h) - 1
    BY <1>2
  <2> QED
    BY <1>1, <2>1, <2>2
<1>5. x \in Stored /\ x[1] = v /\ x[2] = h
  BY DEF Stored, Store
<1> HIDE DEF x
<1>6. CopyMade(x, c)
  BY <1>1, <1>5, CopyValueCopies DEF Copier
<1>7. /\ c[1] \in Value /\ c[2] \in Store /\ Extends(h, c[2]) /\ c = <<c[1], c[2]>>
  BY <1>5, <1>6 DEF CopyMade, Stored, Store
<1>8. Len(c[2]) \in Nat /\ Len(h) <= Len(c[2])
  BY <1>7, LenProperties DEF Store, Extends
<1>9. CopiesSame(CopyValue[Len(h)], Len(h))
  BY <1>1, CopyValueSame
<1> HIDE DEF c
<1>10. Tup(v) => r[v.v] < Len(c[2])
  <2> DEFINE a == r[v.v]
  <2>1. Tup(v) => a \in Nat
    BY <1>3 DEF Leads, Tup, Handles
  <2> HIDE DEF a
  <2>2. Tup(v) => a < Len(h)
    BY <1>4 DEF a
  <2>3. Tup(v) => a < Len(c[2])
    BY <1>1, <1>8, <2>1, <2>2
  <2> QED
    BY <2>3 DEF a
<1>11. Contents[Len(c[2])][c] = Contents[Len(c[2])][x]
  BY <1>2, <1>3, <1>4, <1>5, <1>8, <1>9, <1>10 DEF CopiesSame, c
<1>12. Contents[Len(c[2])][x] = Whole(v, h)
  BY <1>8, WholeIsDeepEnough DEF x
<1>13. Whole(c[1], c[2]) = Whole(v, h)
  BY <1>7, <1>11, <1>12 DEF Whole
<1> QED
  BY <1>13 DEF c, x
=============================================================================
