------------------------------ MODULE Recursion ------------------------------
(***************************************************************************)
(* Induction and recursion on the natural numbers, stated about sets and   *)
(* functions.  The library's theorems take an operator, which the provers  *)
(* at hand cannot instantiate; the set of the numbers that have a property *)
(* and the function that makes one step do as well.                        *)
(***************************************************************************)
EXTENDS Integers, FiniteSetTheorems, TLAPS

(* A set of numbers has a least one: the intervals up to its members are   *)
(* finite, and strict inclusion of finite sets is well founded.            *)
LEMMA LeastNatural ==
  ASSUME NEW T \in SUBSET Nat, T # {}
  PROVE  \E n \in T : \A m \in T : n <= m
<1> DEFINE R == StrictSubsetOrdering(Nat)
           U == {0 .. n : n \in T}
<1>1. IsWellFoundedOn(R, FiniteSubsetsOf(Nat))
  BY FS_StrictSubsetOrderingWellFounded
<1>2. \A n \in T : IsFiniteSet(0 .. n)
  BY FS_Interval
<1>3. U \subseteq FiniteSubsetsOf(Nat)
  BY <1>2 DEF FiniteSubsetsOf
<1>4. U # {}
  OBVIOUS
<1> HIDE DEF R, U
<1>5. PICK x \in U : \A y \in U : <<y, x>> \notin R
  BY <1>1, <1>3, <1>4, WFMin
<1>6. PICK n \in T : x = 0 .. n
  BY DEF U
<1>7. ASSUME NEW m \in T, m < n
      PROVE  FALSE
  <2>1. 0 .. m \in U
    BY DEF U
  <2>2. n \in 0 .. n /\ n \notin 0 .. m
    BY <1>7
  <2>3. <<0 .. m, 0 .. n>> \in R
    BY <1>7, <2>2 DEF R, StrictSubsetOrdering
  <2> QED
    BY <1>5, <1>6, <2>1, <2>3
<1> QED
  BY <1>7

(* A set that has 0, and with every number the next one, has them all.     *)
LEMMA NaturalInduction ==
  ASSUME NEW P, 0 \in P, \A n \in Nat : n \in P => n + 1 \in P
  PROVE  Nat \subseteq P
<1> SUFFICES ASSUME Nat \ P # {} PROVE FALSE
  OBVIOUS
<1>1. PICK n \in Nat \ P : \A m \in Nat \ P : n <= m
  BY LeastNatural
<1>2. n # 0 /\ n - 1 \in Nat
  OBVIOUS
<1>3. n - 1 \in P
  BY <1>1, <1>2
<1> QED
  BY <1>2, <1>3

(* The same up to a bound.                                                 *)
LEMMA BoundedInduction ==
  ASSUME NEW P, NEW n \in Nat, 0 \in P, \A i \in 0 .. n - 1 : i \in P => i + 1 \in P
  PROVE  0 .. n \subseteq P
<1> DEFINE Q == P \cup {i \in Nat : i > n}
<1>1. 0 \in Q
  OBVIOUS
<1>2. \A i \in Nat : i \in Q => i + 1 \in Q
  OBVIOUS
<1> HIDE DEF Q
<1>3. Nat \subseteq Q
  BY <1>1, <1>2, NaturalInduction
<1> QED
  BY <1>3 DEF Q

(* f does the recursion up to n.                                           *)
Follows(f, n, base, step) ==
  f[0] = base /\ \A i \in 0 .. n - 1 : f[i + 1] = step[<<i, f[i]>>]

(* Two functions that do the same recursion agree.                         *)
LEMMA RecursionUnique ==
  ASSUME NEW base, NEW step, NEW m \in Nat, NEW n \in Nat, m <= n,
         NEW f, NEW g, Follows(f, m, base, step), Follows(g, n, base, step)
  PROVE  \A i \in 0 .. m : f[i] = g[i]
<1> DEFINE P == {i \in Nat : f[i] = g[i]}
<1>1. 0 \in P
  BY DEF Follows
<1>2. ASSUME NEW i \in 0 .. m - 1, i \in P
      PROVE  i + 1 \in P
  <2>1. f[i + 1] = step[<<i, f[i]>>] /\ i \in 0 .. n - 1
    BY DEF Follows
  <2>2. g[i + 1] = step[<<i, g[i]>>]
    BY <2>1 DEF Follows
  <2> QED
    BY <1>2, <2>1, <2>2
<1> HIDE DEF P
<1>3. 0 .. m \subseteq P
  BY <1>1, <1>2, BoundedInduction
<1> QED
  BY <1>3 DEF P

(* Every recursion with a base and a step has a function that does it.     *)
LEMMA RecursionExists ==
  ASSUME NEW S, NEW base \in S, NEW step \in [Nat \X S -> S]
  PROVE  \E f \in [Nat -> S] : \A n \in Nat : Follows(f, n, base, step)
<1> DEFINE P == {n \in Nat : \E f \in [0 .. n -> S] : Follows(f, n, base, step)}
<1>1. 0 \in P
  <2> DEFINE f == [i \in 0 .. 0 |-> base]
  <2>1. f \in [0 .. 0 -> S] /\ Follows(f, 0, base, step)
    BY DEF Follows
  <2> QED
    BY <2>1
<1>2. ASSUME NEW n \in Nat, n \in P
      PROVE  n + 1 \in P
  <2>1. PICK f \in [0 .. n -> S] : Follows(f, n, base, step)
    BY <1>2
  <2> DEFINE g == [i \in 0 .. n + 1 |-> IF i <= n THEN f[i] ELSE step[<<n, f[n]>>]]
  <2>2. f[n] \in S
    OBVIOUS
  <2>3. g \in [0 .. n + 1 -> S]
    BY <2>2
  <2>4. g[0] = base
    BY <2>1 DEF Follows
  <2>5. ASSUME NEW i \in 0 .. n
        PROVE  g[i + 1] = step[<<i, g[i]>>]
    <3>1. CASE i = n
      BY <3>1
    <3>2. CASE i < n
      <4>1. f[i + 1] = step[<<i, f[i]>>]
        BY <2>1, <3>2 DEF Follows
      <4>2. g[i + 1] = f[i + 1] /\ g[i] = f[i]
        BY <3>2
      <4> QED
        BY <4>1, <4>2
    <3> QED
      BY <3>1, <3>2
  <2> HIDE DEF g
  <2>6. Follows(g, n + 1, base, step)
    BY <2>4, <2>5 DEF Follows
  <2> QED
    BY <2>3, <2>6
<1> HIDE DEF P
<1>3. Nat \subseteq P
  BY <1>1, <1>2, NaturalInduction
<1> DEFINE F(n) == CHOOSE f \in [0 .. n -> S] : Follows(f, n, base, step)
<1>4. \A n \in Nat : F(n) \in [0 .. n -> S] /\ Follows(F(n), n, base, step)
  BY <1>3 DEF P
<1> HIDE DEF F
<1> DEFINE g == [n \in Nat |-> F(n)[n]]
<1>5. g \in [Nat -> S]
  BY <1>4
<1>6. g[0] = base
  BY <1>4 DEF Follows
<1>7. \A n \in Nat : g[n + 1] = step[<<n, g[n]>>]
  <2> SUFFICES ASSUME NEW n \in Nat
               PROVE  F(n + 1)[n + 1] = step[<<n, F(n)[n]>>]
    OBVIOUS
  <2>1. Follows(F(n), n, base, step) /\ Follows(F(n + 1), n + 1, base, step)
    BY <1>4
  <2>2. F(n)[n] = F(n + 1)[n]
    BY <2>1, RecursionUnique
  <2>3. F(n + 1)[n + 1] = step[<<n, F(n + 1)[n]>>]
    BY <2>1 DEF Follows
  <2> QED
    BY <2>2, <2>3
<1> HIDE DEF g
<1>8. \A n \in Nat : Follows(g, n, base, step)
  BY <1>6, <1>7 DEF Follows
<1> QED
  BY <1>5, <1>8

(* The same up to a bound.                                                 *)
LEMMA BoundedRecursionExists ==
  ASSUME NEW S, NEW base \in S, NEW n \in Nat, NEW step \in [(0 .. n - 1) \X S -> S]
  PROVE  \E f \in [0 .. n -> S] : Follows(f, n, base, step)
<1> DEFINE more == [x \in Nat \X S |-> IF x[1] < n THEN step[x] ELSE x[2]]
<1>1. more \in [Nat \X S -> S]
  <2> SUFFICES ASSUME NEW i \in Nat, NEW s \in S
               PROVE  more[<<i, s>>] \in S
    OBVIOUS
  <2> QED
    OBVIOUS
<1>2. \A i \in 0 .. n - 1 : \A s \in S : more[<<i, s>>] = step[<<i, s>>]
  OBVIOUS
<1> HIDE DEF more
<1>3. PICK f \in [Nat -> S] : \A m \in Nat : Follows(f, m, base, more)
  BY <1>1, RecursionExists
<1> DEFINE g == [i \in 0 .. n |-> f[i]]
<1>4. g \in [0 .. n -> S]
  OBVIOUS
<1>5. g[0] = base
  BY <1>3 DEF Follows
<1>6. ASSUME NEW i \in 0 .. n - 1
      PROVE  g[i + 1] = step[<<i, g[i]>>]
  <2>1. f[i + 1] = more[<<i, f[i]>>]
    BY <1>3 DEF Follows
  <2>2. f[i] \in S
    OBVIOUS
  <2> QED
    BY <1>2, <2>1, <2>2, SMTT(30)
<1> HIDE DEF g
<1> QED
  BY <1>4, <1>5, <1>6 DEF Follows
=============================================================================
