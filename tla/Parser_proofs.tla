---------------------------- MODULE Parser_proofs ----------------------------
(***************************************************************************)
(* What holds of the parser for every text.  That the call stack is well   *)
(* typed needs each parse function: what it leaves to do has its operands, *)
(* and a loop that catches an error is never left without.  That no loop   *)
(* runs outside of its block needs both the functions, which start a loop  *)
(* behind an Indent only, and where an error leaves the parser.            *)
(***************************************************************************)
EXTENDS Parser, Recursion, SequenceTheorems, FunctionTheorems

(* The parser is in the text or at its end.                                *)
Placed == tokens \in Seq(Token) /\ pos \in 0 .. Len(tokens)

-----------------------------------------------------------------------------

(* next() stays in the text, and moves on while there is a token left.     *)
LEMMA AfterInText ==
  ASSUME Placed
  PROVE  /\ Len(tokens) \in Nat /\ pos \in Nat
         /\ After(pos) \in 0 .. Len(tokens)
         /\ pos <= After(pos)
         /\ pos # Len(tokens) => After(pos) = pos + 1
<1>1. Len(tokens) \in Nat
  BY LenProperties DEF Placed
<1>2. pos \in Nat /\ pos <= Len(tokens)
  BY <1>1 DEF Placed
<1>3. CASE pos = Len(tokens)
  BY <1>1, <1>2, <1>3 DEF After
<1>4. CASE pos # Len(tokens)
  BY <1>1, <1>2, <1>4 DEF After
<1> QED
  BY <1>1, <1>3, <1>4

(* A place at p or behind it that is in the text.                          *)
LEMMA Further ==
  ASSUME Placed, NEW p \in 0 .. Len(tokens), NEW q \in p .. Len(tokens)
  PROVE  q \in 0 .. Len(tokens) /\ p <= q
<1>1. Len(tokens) \in Nat
  BY LenProperties DEF Placed
<1> QED
  BY <1>1

(* Every action stays in the text.                                         *)
LEMMA PlacedStep ==
  ASSUME Placed, Next
  PROVE  Placed'
<1>1. CASE Predict \/ MakeNode \/ Panic \/ Ended
  BY <1>1 DEF Predict, MakeNode, Panic, Ended, vars, Placed
<1>2. CASE TakeToken \/ MakeLeaf
  <2>1. tokens' = tokens /\ pos' = After(pos)
    BY <1>2 DEF TakeToken, MakeLeaf
  <2> QED
    BY <2>1, AfterInText DEF Placed
<1>3. CASE NextItem
  <2>1. PICK q \in pos .. Len(tokens) : pos' = q
    BY <1>3 DEF NextItem
  <2>2. q \in 0 .. Len(tokens)
    BY <2>1, Further DEF Placed
  <2> QED
    BY <1>3, <2>1, <2>2 DEF NextItem, Placed
<1>4. CASE EndBody
  <2>1. PICK q \in pos .. Len(tokens) : pos' = After(q)
    BY <1>4 DEF EndBody
  <2>2. q \in 0 .. Len(tokens)
    BY <2>1, Further DEF Placed
  <2>3. After(q) \in 0 .. Len(tokens)
    BY <2>2, AfterInText DEF After
  <2> QED
    BY <1>4, <2>1, <2>3 DEF EndBody, Placed
<1>5. CASE Unexpected \/ Invalid
  BY <1>5 DEF Unexpected, Invalid, FailWith, Placed
<1> QED
  BY <1>1, <1>2, <1>3, <1>4, <1>5 DEF Next

-----------------------------------------------------------------------------
(* Well-typed calls.  A goal of the call stack is one of the parse         *)
(* functions, and every operation whose left operand was read before finds *)
(* that operand on the stack of values.                                    *)

(* The loops that take the value on top as their left operand.             *)
NeedyRules == {"sumRest", "productRest", "postfix"}

(* The functions that leave at least one value when they return.           *)
ProducingRules ==
  {"expression", "comparison", "sum", "product", "unary", "postfixed", "primary",
   "decl", "function", "if"}

(* What an item of a block or of the program is parsed by.                 *)
ItemRules == {"expression", "decl", "member"}

(* A call is of a parse function, a list's with the token that closes it,  *)
(* a block's with the function for its items.                              *)
Known == {g \in Goal :
  /\ g.do = "rule" => g.what \in RuleNames
  /\ g.do = "rule" /\ g.what \in {"list", "moreArgs"} => g.with \in TokenNames
  /\ g.do = "rule" /\ g.what = "items" => g.with \in ItemRules
  /\ g.do = "body" => g.what \in ItemRules}
IsBody(g) == g.do = "body"
StartsLoop(g) == g.do = "rule" /\ g.what = "items"
Loops(g)  == IsBody(g) \/ StartsLoop(g)
Needy(g)  == g.do = "rule" /\ g.what \in NeedyRules
Safe      == {g \in Known : ~Loops(g) /\ ~Needy(g)}
Produces(g) ==
  \/ g.do \in {"leaf", "make", "bad"}
  \/ g.do = "rule" /\ g.what \in ProducingRules

(* A value that a goal of gs leaves is there when gs is done.              *)
Yields(gs) ==
  \E j \in DOMAIN gs : Produces(gs[j]) /\ \A k \in j .. Len(gs) : ~Loops(gs[k])
NoLoops(gs) == \A k \in DOMAIN gs : ~Loops(gs[k])

(* Each loop that needs an operand has it from a goal before it, or from   *)
(* the values there already; no error is caught in between.                *)
Grounded(gs, there) ==
  \A i \in DOMAIN gs : Needy(gs[i]) =>
    \/ \E j \in 1 .. i - 1 : Produces(gs[j]) /\ \A k \in j .. i : ~Loops(gs[k])
    \/ there /\ \A k \in 1 .. i : ~Loops(gs[k])

(* A loop is started behind an Indent only, and runs when it was called.   *)
Entered(gs) ==
  \A i \in DOMAIN gs :
    ~IsBody(gs[i]) /\ (StartsLoop(gs[i]) => i > 1 /\ gs[i - 1] = Take("Indent"))

(* Goals that may take the place of a rule.                                *)
Sound(gs) ==
  /\ gs \in Seq(Known)
  /\ Grounded(gs, FALSE)
  /\ Yields(gs) \/ NoLoops(gs)
  /\ Entered(gs)

(* Goals at the head of the stack may be replaced, when what the old one   *)
(* left is left by the new ones or is there now.                           *)
LEMMA Replaced ==
  ASSUME NEW gs \in Seq(Known), gs # << >>, NEW E \in Seq(Known),
         NEW h \in BOOLEAN, NEW h2 \in BOOLEAN,
         Grounded(gs, h), Grounded(E, FALSE),
         Loops(Head(gs)) \/ Yields(E) \/ (NoLoops(E) /\ (h => h2)),
         Produces(Head(gs)) => Yields(E) \/ (NoLoops(E) /\ h2)
  PROVE  /\ E \o Tail(gs) \in Seq(Known)
         /\ Grounded(E \o Tail(gs), h2)
<1> DEFINE n == Len(E)
           G == E \o Tail(gs)
<1>1. n \in Nat /\ Len(gs) \in Nat /\ Len(gs) >= 1 /\ Tail(gs) \in Seq(Known)
      /\ Len(Tail(gs)) = Len(gs) - 1 /\ DOMAIN E = 1 .. n /\ DOMAIN gs = 1 .. Len(gs)
      /\ Head(gs) = gs[1]
  BY EmptySeq, HeadTailProperties, LenProperties
<1>2. /\ G \in Seq(Known) /\ Len(G) = n + Len(gs) - 1 /\ DOMAIN G = 1 .. Len(G)
      /\ \A i \in 1 .. n : G[i] = E[i]
      /\ \A i \in n + 1 .. Len(G) : i - n + 1 \in 2 .. Len(gs) /\ G[i] = gs[i - n + 1]
  BY <1>1
<1> HIDE DEF n, G
<1>3. ASSUME NEW i \in DOMAIN G, Needy(G[i])
      PROVE  \/ \E j \in 1 .. i - 1 : Produces(G[j]) /\ \A k \in j .. i : ~Loops(G[k])
             \/ h2 /\ \A k \in 1 .. i : ~Loops(G[k])
  <2>1. CASE i \in 1 .. n
    <3>1. PICK j \in 1 .. i - 1 : Produces(E[j]) /\ \A k \in j .. i : ~Loops(E[k])
      BY <1>1, <1>2, <1>3, <2>1 DEF Grounded
    <3>2. j \in 1 .. n /\ \A k \in j .. i : k \in 1 .. n
      BY <1>1, <2>1, <3>1
    <3> QED
      BY <1>2, <3>1, <3>2
  <2>2. CASE i \in n + 1 .. Len(G)
    <3> DEFINE o == i - n + 1
    <3>1. o \in 2 .. Len(gs) /\ G[i] = gs[o] /\ i \in Int
      BY <1>1, <1>2, <2>2
    <3>2. \A k \in n + 1 .. i : G[k] = gs[k - n + 1] /\ k - n + 1 \in 2 .. o
      BY <1>1, <1>2, <2>2
    <3>3. ASSUME Yields(E), \A k \in 2 .. o : ~Loops(gs[k])
          PROVE  \E j \in 1 .. i - 1 : Produces(G[j]) /\ \A k \in j .. i : ~Loops(G[k])
      <4>1. PICK j \in 1 .. n : Produces(E[j]) /\ \A k \in j .. n : ~Loops(E[k])
        BY <1>1, <3>3 DEF Yields, n
      <4>2. j \in 1 .. i - 1 /\ Produces(G[j])
        BY <1>1, <1>2, <2>2, <4>1
      <4>3. ASSUME NEW k \in j .. i PROVE ~Loops(G[k])
        <5>1. CASE k \in 1 .. n
          BY <1>1, <1>2, <4>1, <5>1
        <5>2. CASE k \in n + 1 .. i
          BY <3>2, <3>3, <5>2
        <5> QED
          BY <1>1, <4>1, <4>3, <5>1, <5>2, <3>1
      <4> QED
        BY <4>2, <4>3
    <3>4. ASSUME NoLoops(E), \A k \in 2 .. o : ~Loops(gs[k])
          PROVE  \A k \in 1 .. i : ~Loops(G[k])
      <4> SUFFICES ASSUME NEW k \in 1 .. i PROVE ~Loops(G[k])
        OBVIOUS
      <4>1. CASE k \in 1 .. n
        BY <1>1, <1>2, <3>4, <4>1 DEF NoLoops
      <4>2. CASE k \in n + 1 .. i
        BY <3>2, <3>4, <4>2
      <4> QED
        BY <1>1, <4>1, <4>2, <3>1
    <3> HIDE DEF o
    <3>5. \/ \E j \in 1 .. o - 1 : Produces(gs[j]) /\ \A k \in j .. o : ~Loops(gs[k])
          \/ h /\ \A k \in 1 .. o : ~Loops(gs[k])
      BY <1>1, <1>3, <3>1, SMTT(30) DEF Grounded
    <3>6. CASE \E j \in 2 .. o - 1 : Produces(gs[j]) /\ \A k \in j .. o : ~Loops(gs[k])
      <4>1. PICK j \in 2 .. o - 1 : Produces(gs[j]) /\ \A k \in j .. o : ~Loops(gs[k])
        BY <3>6
      <4>2. j + n - 1 \in 1 .. i - 1 /\ j + n - 1 \in n + 1 .. i
            /\ (j + n - 1) - n + 1 = j
        BY <1>1, <3>1, <4>1 DEF o
      <4>3. Produces(G[j + n - 1])
        BY <3>2, <4>1, <4>2
      <4>4. \A k \in j + n - 1 .. i : ~Loops(G[k])
        BY <1>1, <3>1, <3>2, <4>1, <4>2 DEF o
      <4> QED
        BY <4>2, <4>3, <4>4
    <3>7. CASE Produces(gs[1]) /\ \A k \in 1 .. o : ~Loops(gs[k])
      BY <1>1, <3>1, <3>3, <3>4, <3>7
    <3>8. CASE h /\ \A k \in 1 .. o : ~Loops(gs[k])
      BY <1>1, <3>1, <3>3, <3>4, <3>8
    <3> QED
      BY <3>1, <3>5, <3>6, <3>7, <3>8
  <2> QED
    BY <1>1, <1>2, <2>1, <2>2
<1> QED
  BY <1>2, <1>3 DEF Grounded, G

(* A body at the head: what is behind it has its operands on its own.      *)
LEMMA Recovered ==
  ASSUME NEW gs \in Seq(Known), NEW c \in DOMAIN gs, Loops(gs[c]),
         NEW h, Grounded(gs, h)
  PROVE  /\ SubSeq(gs, c, Len(gs)) \in Seq(Known)
         /\ Grounded(SubSeq(gs, c, Len(gs)), FALSE)
         /\ SubSeq(gs, c, Len(gs)) # << >>
         /\ SubSeq(gs, c, Len(gs))[Len(SubSeq(gs, c, Len(gs)))] = gs[Len(gs)]
<1> DEFINE G == SubSeq(gs, c, Len(gs))
<1>1. Len(gs) \in Nat /\ DOMAIN gs = 1 .. Len(gs) /\ c \in 1 .. Len(gs)
  BY LenProperties
<1>2. /\ G \in Seq(Known) /\ Len(G) = Len(gs) - c + 1 /\ DOMAIN G = 1 .. Len(G)
      /\ \A i \in 1 .. Len(G) : G[i] = gs[c + i - 1] /\ c + i - 1 \in c .. Len(gs)
  BY <1>1, SubSeqProperties, LenProperties
<1> HIDE DEF G
<1>3. ASSUME NEW i \in DOMAIN G, Needy(G[i])
      PROVE  \E j \in 1 .. i - 1 : Produces(G[j]) /\ \A k \in j .. i : ~Loops(G[k])
  <2> DEFINE o == c + i - 1
  <2>1. o \in c .. Len(gs) /\ o \in DOMAIN gs /\ Needy(gs[o])
    BY <1>1, <1>2, <1>3
  <2>2. \/ \E j \in 1 .. o - 1 : Produces(gs[j]) /\ \A k \in j .. o : ~Loops(gs[k])
        \/ h /\ \A k \in 1 .. o : ~Loops(gs[k])
    BY <2>1 DEF Grounded
  <2>3. c \in 1 .. o
    BY <1>1, <2>1
  <2>4. PICK j \in 1 .. o - 1 : Produces(gs[j]) /\ \A k \in j .. o : ~Loops(gs[k])
    BY <2>2, <2>3
  <2>5. j > c
    BY <1>1, <2>1, <2>3, <2>4
  <2>6. j - c + 1 \in 1 .. i - 1 /\ c + (j - c + 1) - 1 = j
    BY <1>1, <1>2, <2>1, <2>4, <2>5
  <2>7. Produces(G[j - c + 1])
    <3>1. j - c + 1 \in 1 .. Len(G)
      BY <1>1, <1>2, <1>3, <2>6
    <3>2. G[j - c + 1] = gs[c + (j - c + 1) - 1]
      BY <1>2, <3>1
    <3> QED
      BY <2>4, <2>6, <3>2
  <2>8. ASSUME NEW k \in j - c + 1 .. i PROVE ~Loops(G[k])
    <3>1. k \in 1 .. Len(G) /\ c + k - 1 \in j .. o
      BY <1>1, <1>2, <1>3, <2>1, <2>4, <2>5
    <3> QED
      BY <1>2, <2>4, <3>1
  <2> QED
    BY <2>6, <2>7, <2>8
<1>4. Len(G) \in 1 .. Len(G) /\ c + Len(G) - 1 = Len(gs)
  BY <1>1, <1>2
<1>5. Grounded(G, FALSE)
  BY <1>3 DEF Grounded
<1>6. G # << >> /\ G[Len(G)] = gs[Len(gs)]
  BY <1>2, <1>4, EmptySeq
<1> QED
  BY <1>2, <1>5, <1>6 DEF G

-----------------------------------------------------------------------------
(* The goals that the parse functions are built from.                      *)

(* Tokens to take, leaves, nodes and errors are never in need.             *)
LEMMA SafeGoals ==
  /\ \A t \in TokenNames : Take(t) \in Safe
  /\ \A k \in LeafNames : Leaf(k) \in Safe /\ Produces(Leaf(k))
  /\ \A k \in NodeNames, s \in Extras, n \in Nat :
       Make(k, s, n) \in Safe /\ Produces(Make(k, s, n))
  /\ \A k \in NodeNames, n \in Nat : Build(k, n) \in Safe /\ Produces(Build(k, n))
  /\ Bad \in Safe /\ Produces(Bad)
<1>1. ASSUME NEW t \in TokenNames PROVE Take(t) \in Safe
  <2>1. Plain \in Extras
    BY DEF Extras
  <2>2. Take(t) \in Goal
    BY <2>1 DEF Take, Goal
  <2> QED
    BY <2>2 DEF Take, Safe, Known, Loops, IsBody, StartsLoop, Needy
<1>2. ASSUME NEW k \in LeafNames PROVE Leaf(k) \in Safe /\ Produces(Leaf(k))
  <2>1. Plain \in Extras
    BY DEF Extras
  <2>2. Leaf(k) \in Goal
    BY <2>1 DEF Leaf, Goal
  <2> QED
    BY <2>2 DEF Leaf, Safe, Known, Loops, IsBody, StartsLoop, Needy, Produces
<1>3. ASSUME NEW k \in NodeNames, NEW s \in Extras, NEW n \in Nat
      PROVE  Make(k, s, n) \in Safe /\ Produces(Make(k, s, n))
  <2>1. Make(k, s, n) \in Goal
    BY DEF Make, Goal
  <2> QED
    BY <2>1 DEF Make, Safe, Known, Loops, IsBody, StartsLoop, Needy, Produces
<1>4. Bad \in Safe /\ Produces(Bad)
  <2>1. Plain \in Extras
    BY DEF Extras
  <2>2. Bad \in Goal
    BY <2>1 DEF Bad, Goal
  <2> QED
    BY <2>2 DEF Bad, Safe, Known, Loops, IsBody, StartsLoop, Needy, Produces
<1>5. \A k \in NodeNames, n \in Nat : Build(k, n) \in Safe /\ Produces(Build(k, n))
  <2>1. Plain \in Extras
    BY DEF Extras
  <2> QED
    BY <1>3, <2>1 DEF Build
<1> QED
  BY <1>1, <1>2, <1>3, <1>4, <1>5

(* A call of a parse function that needs no operand.                       *)
LEMMA SafeCalls ==
  /\ \A r \in RuleNames \ NeedyRules, s \in Extras, n \in Nat :
       /\ r # "items"
       /\ r \notin {"list", "moreArgs"} \/ s \in TokenNames
       => RuleWith(r, s, n) \in Safe
  /\ \A r \in RuleNames \ NeedyRules, n \in Nat :
       r \notin {"list", "moreArgs", "items"} => RuleFrom(r, n) \in Safe /\ Rule(r) \in Safe
  /\ \A r \in ProducingRules : Produces(Rule(r))
  /\ \A s \in Extras : Produces(RuleWith("decl", s, 0))
<1>1. ASSUME NEW r \in RuleNames \ NeedyRules, NEW s \in Extras, NEW n \in Nat,
             r # "items", r \notin {"list", "moreArgs"} \/ s \in TokenNames
      PROVE  RuleWith(r, s, n) \in Safe
  <2>1. RuleWith(r, s, n) \in Goal
    BY DEF RuleWith, Goal
  <2>2. RuleWith(r, s, n) \in Known
    BY <1>1, <2>1 DEF RuleWith, Known
  <2> QED
    BY <1>1, <2>2 DEF RuleWith, Safe, Loops, IsBody, StartsLoop, Needy
<1>2. ASSUME NEW r \in ProducingRules PROVE Produces(Rule(r))
  BY DEF Rule, RuleFrom, RuleWith, Produces
<1>3. \A s \in Extras : Produces(RuleWith("decl", s, 0))
  BY DEF RuleWith, Produces, ProducingRules
<1>4. Plain \in Extras
  BY DEF Extras
<1>5. \A r \in RuleNames \ NeedyRules, n \in Nat :
        r \notin {"list", "moreArgs", "items"} => RuleFrom(r, n) \in Safe
  BY <1>1, <1>4 DEF RuleFrom
<1>6. \A r \in RuleNames \ NeedyRules :
        r \notin {"list", "moreArgs", "items"} => Rule(r) \in Safe
  BY <1>5 DEF Rule
<1> QED
  BY <1>1, <1>2, <1>3, <1>5, <1>6

(* A loop that needs its left operand.                                     *)
LEMMA NeedyCalls ==
  ASSUME NEW r \in NeedyRules
  PROVE  Rule(r) \in Known /\ ~Loops(Rule(r))
<1>1. r \in RuleNames /\ r \notin {"list", "moreArgs", "items"} /\ Plain \in Extras
  BY DEF NeedyRules, RuleNames, Extras
<1>2. Rule(r) \in Goal
  BY <1>1 DEF Rule, RuleFrom, RuleWith, Goal
<1> QED
  BY <1>1, <1>2 DEF Rule, RuleFrom, RuleWith, Known, Loops, IsBody, StartsLoop

(* The loop over a block's items, and its start.                           *)
LEMMA LoopCalls ==
  ASSUME NEW item \in ItemRules, NEW end \in Extras, NEW n \in Nat
  PROVE  /\ Body(item, end, n) \in Known /\ IsBody(Body(item, end, n))
         /\ RuleWith("items", item, 0) \in Known
         /\ StartsLoop(RuleWith("items", item, 0)) /\ ~IsBody(RuleWith("items", item, 0))
<1>1. item \in RuleNames /\ item \in Extras /\ "items" \in RuleNames
  BY DEF RuleNames, Extras, ItemRules
<1>2. Body(item, end, n) \in Goal /\ RuleWith("items", item, 0) \in Goal
  BY <1>1 DEF Body, RuleWith, Goal
<1> QED
  BY <1>1, <1>2 DEF Body, RuleWith, Known, IsBody, StartsLoop

(* Goals none of which needs anything.                                     *)
LEMMA SafeSound ==
  ASSUME NEW gs \in Seq(Safe)
  PROVE  /\ Sound(gs)
         /\ \A j \in DOMAIN gs : Produces(gs[j]) => Yields(gs)
<1>1. \A k \in DOMAIN gs : gs[k] \in Safe
  OBVIOUS
<1>2. gs \in Seq(Known)
  <2>1. Len(gs) \in Nat /\ DOMAIN gs = 1 .. Len(gs)
    BY LenProperties
  <2>2. gs = [k \in 1 .. Len(gs) |-> gs[k]]
    BY <2>1
  <2> QED
    BY <1>1, <2>1, <2>2, IsASeq DEF Safe
<1>3. NoLoops(gs) /\ Entered(gs)
  BY <1>1 DEF NoLoops, Entered, Loops, Safe
<1>4. Grounded(gs, FALSE)
  BY <1>1 DEF Grounded, Safe
<1>5. ASSUME NEW j \in DOMAIN gs, Produces(gs[j]) PROVE Yields(gs)
  <2>1. \A k \in j .. Len(gs) : k \in DOMAIN gs
    BY LenProperties
  <2> QED
    BY <1>3, <1>5, <2>1 DEF Yields, NoLoops
<1> QED
  BY <1>2, <1>3, <1>4, <1>5 DEF Sound

(* Goals the last of which has its operand from the one before.            *)
LEMMA ServedSound ==
  ASSUME NEW gs \in Seq(Safe), NEW p \in Safe, Produces(p), NEW r \in NeedyRules
  PROVE  Sound(gs \o << p, Rule(r) >>) /\ Yields(gs \o << p, Rule(r) >>)
<1> DEFINE n == Len(gs)
           G == gs \o << p, Rule(r) >>
<1>1. n \in Nat /\ Rule(r) \in Known /\ ~Loops(Rule(r)) /\ p \in Known
  BY LenProperties, NeedyCalls DEF Safe
<1>2. /\ Len(G) = n + 2 /\ DOMAIN G = 1 .. n + 2
      /\ \A k \in 1 .. n : G[k] \in Safe
      /\ G[n + 1] = p /\ G[n + 2] = Rule(r)
  BY <1>1
<1> HIDE DEF G, n
<1>3. \A k \in 1 .. n + 2 : k \in 1 .. n \/ k = n + 1 \/ k = n + 2
  BY <1>1
<1>4. G \in Seq(Known)
  <2>1. gs \in Seq(Known)
    BY SafeSound DEF Sound
  <2>2. << p, Rule(r) >> \in Seq(Known)
    BY <1>1
  <2> QED
    BY <2>1, <2>2, ConcatProperties DEF G
<1>5. NoLoops(G)
  BY <1>1, <1>2, <1>3 DEF NoLoops, Safe
<1>6. Entered(G)
  BY <1>5 DEF NoLoops, Entered, Loops
<1>7. n + 1 \in 1 .. (n + 2) - 1 /\ n + 1 \in DOMAIN G /\ Produces(G[n + 1])
  BY <1>1, <1>2
<1>8. Grounded(G, FALSE)
  <2> SUFFICES ASSUME NEW i \in DOMAIN G, Needy(G[i])
               PROVE  \E j \in 1 .. i - 1 : Produces(G[j]) /\ \A k \in j .. i : ~Loops(G[k])
    BY DEF Grounded
  <2>1. i = n + 2
    BY <1>2, <1>3 DEF Safe
  <2>2. \A k \in n + 1 .. n + 2 : k \in DOMAIN G
    BY <1>1, <1>2
  <2> QED
    BY <1>5, <1>7, <2>1, <2>2 DEF NoLoops
<1>9. Yields(G)
  <2>1. \A k \in n + 1 .. Len(G) : k \in DOMAIN G
    BY <1>1, <1>2
  <2> QED
    BY <1>5, <1>7, <2>1 DEF Yields, NoLoops
<1> QED
  BY <1>4, <1>5, <1>8, <1>9, <1>6 DEF Sound, G

(* A loop started behind an Indent, whose list becomes a node.             *)
LEMMA LoopSound ==
  ASSUME NEW gs \in Seq(Safe), NEW b \in Known, StartsLoop(b), NEW m \in Safe, Produces(m),
         gs # << >>, gs[Len(gs)] = Take("Indent")
  PROVE  Sound(gs \o << b, m >>) /\ Yields(gs \o << b, m >>)
<1> DEFINE n == Len(gs)
           G == gs \o << b, m >>
<1>1. /\ n \in Nat /\ n >= 1
      /\ m \in Known /\ ~Loops(m) /\ ~Needy(m)
      /\ ~IsBody(b) /\ ~Needy(b)
  BY EmptySeq, LenProperties DEF Safe, Loops, IsBody, StartsLoop, Needy, NeedyRules
<1>2. /\ Len(G) = n + 2 /\ DOMAIN G = 1 .. n + 2
      /\ \A k \in 1 .. n : G[k] \in Safe /\ G[k] = gs[k]
      /\ G[n + 1] = b /\ G[n + 2] = m
  BY <1>1
<1>3. G[(n + 1) - 1] = Take("Indent")
  BY <1>1, <1>2
<1> HIDE DEF G, n
<1>4. \A k \in 1 .. n + 2 : k \in 1 .. n \/ k = n + 1 \/ k = n + 2
  BY <1>1
<1>5. Entered(G)
  <2> SUFFICES ASSUME NEW k \in DOMAIN G
               PROVE  ~IsBody(G[k]) /\ (StartsLoop(G[k]) => k > 1 /\ G[k - 1] = Take("Indent"))
    BY DEF Entered
  <2>1. CASE k = n + 1
    BY <1>1, <1>2, <1>3, <2>1
  <2>2. CASE k \in 1 .. n \/ k = n + 2
    BY <1>1, <1>2, <2>2 DEF Safe, Loops
  <2> QED
    BY <1>2, <1>4, <2>1, <2>2
<1>6. G \in Seq(Known)
  <2>1. gs \in Seq(Known)
    BY SafeSound DEF Sound
  <2>2. << b, m >> \in Seq(Known)
    BY <1>1
  <2> QED
    BY <2>1, <2>2, ConcatProperties DEF G
<1>7. \A i \in DOMAIN G : ~Needy(G[i])
  BY <1>1, <1>2, <1>4 DEF Safe
<1>8. Grounded(G, FALSE)
  BY <1>7 DEF Grounded
<1>9. n + 2 \in DOMAIN G /\ Produces(G[n + 2]) /\ \A k \in n + 2 .. Len(G) : k = n + 2
  BY <1>1, <1>2
<1>10. Yields(G)
  BY <1>1, <1>2, <1>9 DEF Yields
<1> QED
  BY <1>6, <1>8, <1>10, <1>5 DEF Sound, G

-----------------------------------------------------------------------------
(* Each parse function, for any token that comes next.                     *)

(* The functions for types, declarations and functions.                    *)
LEMMA DeclarationGoals ==
  ASSUME Height \in Nat, NEW s \in Extras, NEW n \in Nat
  PROVE  /\ Field(s) \in Seq(Safe)
         /\ Default \in Seq(Safe)
         /\ Decl(s) \in Seq(Safe)
         /\ FunctionType \in Seq(Safe)
         /\ ParamTypes(n) \in Seq(Safe)
         /\ Param \in Seq(Safe)
         /\ Effects(n) \in Seq(Safe)
         /\ Function \in Seq(Safe)
         /\ FunctionBody \in Seq(Safe)
         /\ Member \in Seq(Safe)
<1> USE SafeGoals, SafeCalls
    DEF RuleNames, NeedyRules, TokenNames, LeafNames, NodeNames, Extras
<1>1. Field(s) \in Seq(Safe)
  BY DEF Field
<1>2. Default \in Seq(Safe)
  BY DEF Default
<1>3. Decl(s) \in Seq(Safe)
  BY DEF Decl
<1>4. FunctionType \in Seq(Safe)
  BY DEF FunctionType
<1>5. ParamTypes(n) \in Seq(Safe)
  BY DEF ParamTypes
<1>6. Param \in Seq(Safe)
  BY DEF Param
<1>7. Effects(n) \in Seq(Safe)
  BY DEF Effects
<1>8. Function \in Seq(Safe)
  BY DEF Function
<1>9. FunctionBody \in Seq(Safe)
  BY DEF FunctionBody
<1>10. Member \in Seq(Safe)
  <2>1. RuleWith("field", "var", 0) \in Safe /\ Take("Var") \in Safe
    OBVIOUS
  <2>2. Rule("function") \in Safe /\ Rule("field") \in Safe
    OBVIOUS
  <2> QED
    BY ONLY <2>1, <2>2 DEF Member
<1> QED
  BY <1>1, <1>2, <1>3, <1>4, <1>5, <1>6, <1>7, <1>8, <1>9, <1>10

(* The parts of a conditional.                                             *)
LEMMA ConditionalGoals ==
  ASSUME Height \in Nat
  PROVE  /\ If \in Seq(Safe)
         /\ IfHead \in Seq(Safe)
         /\ IfTail \in Seq(Safe)
         /\ Else \in Seq(Safe)
<1> USE SafeGoals, SafeCalls
    DEF RuleNames, NeedyRules, TokenNames, LeafNames, NodeNames, Extras
<1>1. If \in Seq(Safe)
  BY DEF If
<1>2. IfHead \in Seq(Safe)
  BY DEF IfHead
<1>3. IfTail \in Seq(Safe)
  BY DEF IfTail
<1>4. Else \in Seq(Safe)
  BY DEF Else
<1> QED
  BY <1>1, <1>2, <1>3, <1>4

(* Lists, tuples, templates and comparisons.                               *)
LEMMA ListGoals ==
  ASSUME Height \in Nat, NEW n \in Nat,
         NEW item \in RuleNames \ NeedyRules, item \notin {"list", "moreArgs", "items"},
         NEW more \in {"moreArgs", "moreParams", "moreTypes"},
         NEW end \in Extras \cap TokenNames
  PROVE  /\ List(item, more, end) \in Seq(Safe)
         /\ More(item, more, end) \in Seq(Safe)
         /\ OptionalComma \in Seq(Safe)
         /\ Tuple(n) \in Seq(Safe)
         /\ Elements(n) \in Seq(Safe)
         /\ Template(n) \in Seq(Safe)
         /\ Chain(n) \in Seq(Safe)
<1> USE SafeGoals, SafeCalls
    DEF RuleNames, NeedyRules, TokenNames, LeafNames, NodeNames, Extras
<1>1. List(item, more, end) \in Seq(Safe)
  BY DEF List
<1>2. More(item, more, end) \in Seq(Safe)
  BY DEF More
<1>3. OptionalComma \in Seq(Safe)
  BY DEF OptionalComma
<1>4. Tuple(n) \in Seq(Safe)
  <2>1. RuleFrom("elements", n) \in Safe /\ Take("Comma") \in Safe /\ Take("RParen") \in Safe
    OBVIOUS
  <2> QED
    BY ONLY <2>1, SafeGoals DEF Tuple
<1>5. Elements(n) \in Seq(Safe)
  BY DEF Elements
<1>6. Template(n) \in Seq(Safe)
  <2>1. RuleFrom("template", n) \in Safe /\ Build("Template", n) \in Safe
    OBVIOUS
  <2>2. Take("Newline") \in Safe /\ Leaf("Raw") \in Safe /\ Rule("expression") \in Safe
    OBVIOUS
  <2> QED
    BY ONLY <2>1, <2>2 DEF Template, NewlineSkipped
<1>7. Chain(n) \in Seq(Safe)
  <2>1. RuleFrom("chain", n) \in Safe /\ Build("CompareChain", n) \in Safe
    OBVIOUS
  <2>2. Leaf("CompareOp") \in Safe /\ Rule("sum") \in Safe
    OBVIOUS
  <2> QED
    BY ONLY <2>1, <2>2 DEF Chain
<1> QED
  BY <1>1, <1>2, <1>3, <1>4, <1>5, <1>6, <1>7

(* A block up to the loop over its items.                                  *)
LEMMA BlockGoals ==
  ASSUME NEW item \in ItemRules,
         NEW gs \in Seq(Safe), NEW m \in Safe, Produces(m)
  PROVE  /\ Sound(gs \o Block(item) \o << m >>)
         /\ Yields(gs \o Block(item) \o << m >>)
<1> DEFINE b == RuleWith("items", item, 0)
           first == << Take("Newline"), Take("Indent") >>
<1>1. b \in Known /\ StartsLoop(b)
  BY LoopCalls DEF Extras
<1>2. Take("Newline") \in Safe /\ Take("Indent") \in Safe
  BY SafeGoals DEF TokenNames
<1>3. Block(item) = first \o << b >>
  BY DEF Block
<1> HIDE DEF b, first
<1>4. gs \o first \in Seq(Safe) /\ gs \o first # << >>
      /\ (gs \o first)[Len(gs \o first)] = Take("Indent")
  <2>1. ASSUME NEW a \in Safe, NEW c \in Safe
        PROVE  /\ gs \o << a, c >> \in Seq(Safe) /\ gs \o << a, c >> # << >>
               /\ (gs \o << a, c >>)[Len(gs \o << a, c >>)] = c
    OBVIOUS
  <2> QED
    BY <1>2, <2>1 DEF first
<1>5. gs \o Block(item) \o << m >> = (gs \o first) \o << b, m >>
  BY <1>2, <1>3 DEF first
<1> QED
  BY <1>1, <1>4, <1>5, LoopSound

(* The loop over a block's items with its first one.                       *)
LEMMA ItemsGoals ==
  ASSUME Height \in Nat, NEW item \in ItemRules
  PROVE  /\ Items(item) \in Seq(Known)
         /\ Grounded(Items(item), FALSE)
<1> DEFINE b == Body(item, "Dedent", Height)
<1>1. b \in Known /\ IsBody(b)
  BY LoopCalls DEF Extras
<1>2. Rule(item) \in Safe
  BY SafeCalls DEF RuleNames, NeedyRules, ItemRules
<1>3. Items(item) = << Rule(item), b >>
  BY DEF Items
<1> HIDE DEF b
<1>4. ~Needy(Rule(item)) /\ ~Needy(b) /\ Rule(item) \in Known
  BY <1>1, <1>2 DEF Safe, IsBody, Needy
<1> QED
  BY <1>1, <1>3, <1>4 DEF Grounded

(* An expression leaves a value: its last goal does.                       *)
LEMMA ExpressionGoals ==
  ASSUME Height \in Nat
  PROVE  Sound(Expression) /\ Yields(Expression)
<1>1. CASE Peek(0) = "Class"
  <2>1. Expression = << Take("Class"), Take("Colon") >> \o Block("member")
                       \o << Build("Class", Height) >>
    BY <1>1 DEF Expression
  <2>2. << Take("Class"), Take("Colon") >> \in Seq(Safe)
        /\ Build("Class", Height) \in Safe /\ Produces(Build("Class", Height))
    BY SafeGoals DEF TokenNames, NodeNames
  <2> QED
    BY <2>1, <2>2, BlockGoals DEF ItemRules
<1>2. CASE Peek(0) # "Class"
  <2>1. Expression \in Seq(Safe)
    BY <1>2, SafeGoals, SafeCalls
    DEF Expression, RuleNames, NeedyRules, TokenNames, LeafNames, NodeNames, Extras
  <2>2. \E j \in DOMAIN Expression : Produces(Expression[j])
    BY <1>2, SafeGoals, SafeCalls DEF Expression, ProducingRules, LeafNames, NodeNames, Extras
  <2> QED
    BY <2>1, <2>2, SafeSound
<1> QED
  BY <1>1, <1>2

(* A type.                                                                 *)
LEMMA TypeGoals ==
  ASSUME Height \in Nat
  PROVE  Sound(Type)
<1>1. CASE Peek(0) = "Struct"
  <2>1. Type = << Take("Struct"), Take("Colon") >> \o Block("decl")
                 \o << Build("Struct", Height) >>
    BY <1>1 DEF Type
  <2>2. << Take("Struct"), Take("Colon") >> \in Seq(Safe)
        /\ Build("Struct", Height) \in Safe /\ Produces(Build("Struct", Height))
    BY SafeGoals DEF TokenNames, NodeNames
  <2> QED
    BY <2>1, <2>2, BlockGoals DEF ItemRules
<1>2. CASE Peek(0) # "Struct"
  <2>1. Type \in Seq(Safe)
    BY <1>2, SafeGoals, SafeCalls
    DEF Type, RuleNames, NeedyRules, TokenNames, LeafNames, NodeNames, Extras
  <2> QED
    BY <2>1, SafeSound
<1> QED
  BY <1>1, <1>2

(* The rest of a sum or a product.                                         *)
LEMMA OperationsGoals ==
  ASSUME Height \in Nat, Height >= 1, NEW ops \in SUBSET {"Plus", "Minus", "Star", "Slash"},
         NEW operand \in {"product", "unary"}, NEW rest \in NeedyRules
  PROVE  Sound(Operations(ops, operand, rest))
<1>1. CASE Peek(0) \in ops
  <2> DEFINE m == Make("Binary", Peek(0), Height - 1)
             first == << Take(Peek(0)), Rule(operand) >>
  <2>1. Take(Peek(0)) \in Safe /\ Rule(operand) \in Safe
    BY <1>1, SafeGoals, SafeCalls DEF TokenNames, RuleNames, NeedyRules
  <2>2. m \in Safe /\ Produces(m)
    <3>1. Height - 1 \in Nat
      OBVIOUS
    <3>2. Peek(0) \in {"Plus", "Minus", "Star", "Slash"}
      BY <1>1
    <3>3. Peek(0) \in Extras /\ "Binary" \in NodeNames
      BY <3>2 DEF NodeNames, Extras
    <3> QED
      BY <3>1, <3>3, SafeGoals
  <2>3. Operations(ops, operand, rest) = << Take(Peek(0)), Rule(operand), m, Rule(rest) >>
    BY <1>1 DEF Operations
  <2> HIDE DEF m
  <2>4. Operations(ops, operand, rest) = first \o << m, Rule(rest) >>
    BY <2>3
  <2>5. first \in Seq(Safe)
    BY <2>1
  <2> QED
    BY <2>2, <2>4, <2>5, ServedSound
<1>2. CASE Peek(0) \notin ops
  <2>1. Operations(ops, operand, rest) = << >>
    BY <1>2 DEF Operations
  <2>2. Operations(ops, operand, rest) \in Seq(Safe)
    BY <2>1
  <2> QED
    BY <2>2, SafeSound
<1> QED
  BY <1>1, <1>2

(* What follows an operand applies to it.                                  *)
LEMMA PostfixGoals ==
  ASSUME Height \in Nat, Height >= 1
  PROVE  Sound(Postfix)
<1>1. ASSUME NEW t \in TokenNames, NEW g \in Safe, NEW m \in Safe, Produces(m)
      PROVE  Sound(<< Take(t), g, m, Rule("postfix") >>)
  <2>1. Take(t) \in Safe /\ "postfix" \in NeedyRules
    BY SafeGoals DEF NeedyRules
  <2>2. << Take(t), g, m, Rule("postfix") >> = << Take(t), g >> \o << m, Rule("postfix") >>
    OBVIOUS
  <2>3. << Take(t), g >> \in Seq(Safe)
    BY <2>1
  <2> QED
    BY <1>1, <2>1, <2>2, <2>3, ServedSound
<1>2. Height - 1 \in Nat
  OBVIOUS
<1>3. /\ RuleWith("list", "RParen", 0) \in Safe /\ RuleWith("list", "RBracket", 0) \in Safe
      /\ RuleWith("list", "RBrace", 0) \in Safe /\ Leaf("Id") \in Safe
  BY SafeGoals, SafeCalls DEF RuleNames, NeedyRules, TokenNames, LeafNames, Extras
<1>4. ASSUME NEW k \in {"Call", "Construct", "Member", "Query"}
      PROVE  Build(k, Height - 1) \in Safe /\ Produces(Build(k, Height - 1))
  BY <1>2, SafeGoals DEF NodeNames
<1>5. /\ Make("Call", "fallible", Height - 1) \in Safe
      /\ Produces(Make("Call", "fallible", Height - 1))
  BY <1>2, SafeGoals DEF NodeNames, Extras
<1>6. {"LParen", "LBracket", "LBrace", "Dot", "Question"} \subseteq TokenNames
  BY DEF TokenNames
<1>7. CASE Peek(0) = "LParen"
  BY <1>1, <1>3, <1>4, <1>6, <1>7 DEF Postfix
<1>8. CASE Peek(0) = "LBracket"
  BY <1>1, <1>3, <1>5, <1>6, <1>8 DEF Postfix
<1>9. CASE Peek(0) = "LBrace"
  BY <1>1, <1>3, <1>4, <1>6, <1>9 DEF Postfix
<1>10. CASE Peek(0) = "Dot"
  BY <1>1, <1>3, <1>4, <1>6, <1>10 DEF Postfix
<1>11. CASE Peek(0) \notin {"LParen", "LBracket", "LBrace", "Dot"}
  <2>1. Take("Question") \in Safe
    BY <1>6, SafeGoals
  <2>2. Postfix \in Seq(Safe)
    BY <1>4, <1>11, <2>1 DEF Postfix
  <2> QED
    BY <2>2, SafeSound
<1> QED
  BY <1>7, <1>8, <1>9, <1>10, <1>11

(* Operands leave a value, whatever they are.                              *)
LEMMA OperandGoals ==
  ASSUME Height \in Nat
  PROVE  /\ Sound(Unary) /\ Yields(Unary)
         /\ Sound(Primary) /\ Yields(Primary)
<1>1. Unary \in Seq(Safe) /\ \E j \in DOMAIN Unary : Produces(Unary[j])
  <2>1. CASE Peek(0) = "Plus" \/ Peek(0) = "Minus" \/ Peek(0) = "Not"
    <3>1. Take(Peek(0)) \in Safe /\ Rule("unary") \in Safe
      BY <2>1, SafeGoals, SafeCalls DEF TokenNames, RuleNames, NeedyRules
    <3>2. Make("Unary", Peek(0), Height) \in Safe /\ Produces(Make("Unary", Peek(0), Height))
      BY <2>1, SafeGoals DEF NodeNames, Extras
    <3> QED
      BY <2>1, <3>1, <3>2 DEF Unary
  <2>2. CASE ~(Peek(0) = "Plus" \/ Peek(0) = "Minus" \/ Peek(0) = "Not")
    BY <2>2, SafeCalls DEF Unary, RuleNames, NeedyRules, ProducingRules
  <2> QED
    BY <2>1, <2>2
<1>2. Primary \in Seq(Safe) /\ \E j \in DOMAIN Primary : Produces(Primary[j])
  <2>1. /\ Leaf("Id") \in Safe /\ Produces(Leaf("Id"))
        /\ Leaf("Raw") \in Safe /\ Produces(Leaf("Raw"))
        /\ \A k \in Literals : Leaf(k) \in Safe /\ Produces(Leaf(k))
    BY SafeGoals DEF LeafNames, Literals
  <2>2. RuleFrom("template", Height) \in Safe /\ RuleFrom("tuple", Height) \in Safe
    BY SafeCalls DEF RuleNames, NeedyRules
  <2>3. Take("LParen") \in Safe /\ Rule("expression") \in Safe /\ Produces(Rule("expression"))
    BY SafeGoals, SafeCalls DEF TokenNames, RuleNames, NeedyRules, ProducingRules
  <2> QED
    BY <2>1, <2>2, <2>3, SafeGoals DEF Primary
<1> QED
  BY <1>1, <1>2, SafeSound

(* What a call leaves to do is sound, and leaves a value if the call does. *)
LEMMA ParsedSound ==
  ASSUME Height \in Nat, NEW rule \in Known, rule.do = "rule",
         Needy(rule) => Height >= 1
  PROVE  /\ Parsed(rule) \in Seq(Known) /\ Grounded(Parsed(rule), FALSE)
         /\ ~StartsLoop(rule) => Sound(Parsed(rule))
         /\ Produces(rule) => Yields(Parsed(rule))
<1>1. rule.n \in Nat /\ rule.with \in Extras /\ rule.what \in RuleNames
  BY DEF Known, Goal
<1>2. ASSUME rule.what \in NeedyRules
      PROVE  Sound(Parsed(rule))
  <2>1. Height >= 1
    BY <1>2 DEF Needy
  <2>2. CASE rule.what = "sumRest"
    <3>1. Parsed(rule) = Operations({"Plus", "Minus"}, "product", "sumRest")
      BY <2>2 DEF Parsed
    <3> QED
      BY <2>1, <3>1, OperationsGoals DEF NeedyRules
  <2>3. CASE rule.what = "productRest"
    <3>1. Parsed(rule) = Operations({"Star", "Slash"}, "unary", "productRest")
      BY <2>3 DEF Parsed
    <3> QED
      BY <2>1, <3>1, OperationsGoals DEF NeedyRules
  <2>4. CASE rule.what = "postfix"
    <3>1. Parsed(rule) = Postfix
      BY <2>4 DEF Parsed
    <3> QED
      BY <2>1, <3>1, PostfixGoals
  <2> QED
    BY <1>2, <2>2, <2>3, <2>4 DEF NeedyRules
<1>3. ASSUME rule.what \in {"sum", "product", "postfixed"}
      PROVE  Sound(Parsed(rule)) /\ Yields(Parsed(rule))
  <2>1. ASSUME NEW r \in {"product", "unary", "primary"}, NEW rest \in NeedyRules
        PROVE  Sound(<< Rule(r), Rule(rest) >>) /\ Yields(<< Rule(r), Rule(rest) >>)
    <3>1. Rule(r) \in Safe /\ Produces(Rule(r))
      BY SafeCalls DEF RuleNames, NeedyRules, ProducingRules
    <3>2. << Rule(r), Rule(rest) >> = << >> \o << Rule(r), Rule(rest) >> /\ << >> \in Seq(Safe)
      OBVIOUS
    <3> QED
      BY <3>1, <3>2, ServedSound
  <2>2. {"sumRest", "productRest", "postfix"} \subseteq NeedyRules
    BY DEF NeedyRules
  <2>3. CASE rule.what = "sum"
    BY <2>1, <2>2, <2>3 DEF Parsed
  <2>4. CASE rule.what = "product"
    BY <2>1, <2>2, <2>4 DEF Parsed
  <2>5. CASE rule.what = "postfixed"
    BY <2>1, <2>2, <2>5 DEF Parsed
  <2> QED
    BY <1>3, <2>3, <2>4, <2>5
<1>4. ASSUME rule.what \in {"expression", "unary", "primary", "comparison", "decl",
                            "function", "if"}
      PROVE  Sound(Parsed(rule)) /\ Yields(Parsed(rule))
  <2>1. CASE rule.what = "expression"
    BY <2>1, ExpressionGoals DEF Parsed
  <2>2. CASE rule.what = "unary"
    BY <2>2, OperandGoals DEF Parsed
  <2>3. CASE rule.what = "primary"
    BY <2>3, OperandGoals DEF Parsed
  <2>4. CASE rule.what = "comparison"
    <3>1. Parsed(rule) = << Rule("sum"), RuleFrom("chain", Height) >>
      BY <2>4 DEF Parsed
    <3>2. Rule("sum") \in Safe /\ RuleFrom("chain", Height) \in Safe /\ Produces(Rule("sum"))
      BY SafeCalls DEF RuleNames, NeedyRules, ProducingRules
    <3>3. Parsed(rule) \in Seq(Safe) /\ 1 \in DOMAIN Parsed(rule)
          /\ Produces(Parsed(rule)[1])
      BY <3>1, <3>2
    <3> QED
      BY <3>3, SafeSound
  <2>5. CASE rule.what = "decl"
    <3>1. Parsed(rule) = Decl(rule.with) /\ Decl(rule.with) \in Seq(Safe)
      BY <1>1, <2>5, DeclarationGoals DEF Parsed
    <3>2. 6 \in DOMAIN Decl(rule.with) /\ Decl(rule.with)[6] = Make("Decl", rule.with, Height)
      BY DEF Decl
    <3>3. Produces(Make("Decl", rule.with, Height))
      BY <1>1, SafeGoals DEF NodeNames
    <3> QED
      BY <3>1, <3>2, <3>3, SafeSound
  <2>6. CASE rule.what = "function"
    <3>1. Parsed(rule) = Function /\ Function \in Seq(Safe)
      BY <1>1, <2>6, DeclarationGoals DEF Parsed
    <3>2. 1 \in DOMAIN Function /\ Function[1] = Leaf("Id")
      BY DEF Function
    <3>3. Produces(Leaf("Id"))
      BY SafeGoals DEF LeafNames
    <3> QED
      BY <3>1, <3>2, <3>3, SafeSound
  <2>7. CASE rule.what = "if"
    <3>1. Parsed(rule) = If /\ If \in Seq(Safe)
      BY <2>7, ConditionalGoals DEF Parsed
    <3>2. 3 \in DOMAIN If /\ If[3] = Build("If", Height)
      BY DEF If
    <3>3. Produces(Build("If", Height))
      BY SafeGoals DEF NodeNames
    <3> QED
      BY <3>1, <3>2, <3>3, SafeSound
  <2> QED
    BY <1>4, <2>1, <2>2, <2>3, <2>4, <2>5, <2>6, <2>7
<1>5. ASSUME rule.what = "block"
      PROVE  Sound(Parsed(rule)) /\ Yields(Parsed(rule))
  <2>1. Parsed(rule) = << >> \o Block("expression") \o << Build("Block", Height) >>
    <3>1. Parsed(rule) = Block("expression") \o << Build("Block", Height) >>
      BY <1>5 DEF Parsed, BlockExpr
    <3>2. << >> \o Block("expression") = Block("expression")
      BY DEF Block
    <3> QED
      BY <3>1, <3>2
  <2>2. << >> \in Seq(Safe) /\ Build("Block", Height) \in Safe
        /\ Produces(Build("Block", Height))
    BY SafeGoals DEF NodeNames
  <2> QED
    BY <2>1, <2>2, BlockGoals DEF ItemRules
<1>6. ASSUME rule.what = "type"
      PROVE  Sound(Parsed(rule)) /\ ~Produces(rule)
  BY <1>6, TypeGoals DEF Parsed, Produces, ProducingRules
<1>7. ASSUME rule.what \notin NeedyRules,
             rule.what \notin {"sum", "product", "postfixed", "expression", "unary",
               "primary", "comparison", "decl", "function", "if", "block", "type", "items"}
      PROVE  Sound(Parsed(rule)) /\ ~Produces(rule)
  <2>1. ~Produces(rule)
    BY <1>7 DEF Produces, ProducingRules
  <2>2. CASE rule.what \in {"field", "default", "functionType", "paramTypes", "param",
                            "effects", "functionBody", "member"}
    <3>1. Parsed(rule) \in Seq(Safe)
      BY <1>1, <2>2, DeclarationGoals DEF Parsed
    <3> QED
      BY <2>1, <3>1, SafeSound
  <2>3. CASE rule.what \in {"ifHead", "ifTail", "else"}
    <3>1. Parsed(rule) \in Seq(Safe)
      BY <2>3, ConditionalGoals DEF Parsed
    <3> QED
      BY <2>1, <3>1, SafeSound
  <2>4. CASE rule.what \in {"list", "moreArgs"}
    <3>1. rule.with \in Extras \cap TokenNames
      BY <1>1, <2>4 DEF Known
    <3>2. Parsed(rule) \in Seq(Safe)
      BY <1>1, <2>4, <3>1, ListGoals DEF Parsed, RuleNames, NeedyRules
    <3> QED
      BY <2>1, <3>2, SafeSound
  <2>5. CASE rule.what \in {"params", "moreParams", "moreTypes"}
    <3>1. "RParen" \in Extras \cap TokenNames
      BY DEF Extras, TokenNames
    <3>2. Parsed(rule) \in Seq(Safe)
      BY <1>1, <2>5, <3>1, ListGoals DEF Parsed, RuleNames, NeedyRules
    <3> QED
      BY <2>1, <3>2, SafeSound
  <2>6. CASE rule.what \in {"chain", "template", "tuple", "elements", "comma"}
    <3>1. "RParen" \in Extras \cap TokenNames /\ "param" \in RuleNames \ NeedyRules
      BY DEF Extras, TokenNames, RuleNames, NeedyRules
    <3>2. Parsed(rule) \in Seq(Safe)
      BY <1>1, <2>6, <3>1, ListGoals DEF Parsed
    <3> QED
      BY <2>1, <3>2, SafeSound
  <2> QED
    BY <1>1, <1>7, <2>1, <2>2, <2>3, <2>4, <2>5, <2>6 DEF RuleNames, NeedyRules
<1>8. Produces(rule) => rule.what \in ProducingRules
  BY DEF Produces
<1>9. CASE rule.what = "items"
  <2>1. Parsed(rule) = Items(rule.with) /\ rule.with \in ItemRules
    BY <1>9 DEF Parsed, Known
  <2> QED
    BY <1>8, <1>9, <2>1, ItemsGoals DEF StartsLoop, ProducingRules
<1>10. CASE rule.what # "items"
  <2>1. Sound(Parsed(rule)) /\ (Produces(rule) => Yields(Parsed(rule)))
    BY <1>1, <1>2, <1>3, <1>4, <1>5, <1>6, <1>7, <1>8, <1>10 DEF ProducingRules, NeedyRules
  <2> QED
    BY <2>1 DEF Sound
<1> QED
  BY <1>9, <1>10

-----------------------------------------------------------------------------
(* The inductive invariant of the parser.                                  *)

(* An error is at a token that was taken.                                  *)
ErrorsPlaced == errors \in Seq(Error) /\ \A e \in DOMAIN errors : errors[e].at < Len(tokens)

(* Only the loops over items wait at the end of a text without tokens, and *)
(* the outermost of them is there to catch an error until it is done.      *)
Waiting ==
  /\ goals # << >> => IsBody(goals[Len(goals)])
  /\ Len(tokens) = 0 =>
       \A i \in DOMAIN goals : IsBody(goals[i]) /\ goals[i].with = "EOF"

Stacked == values \in Seq({values[i] : i \in DOMAIN values})

PInv ==
  /\ Placed
  /\ ErrorsPlaced
  /\ goals \in Seq(Known)
  /\ Waiting
  /\ Grounded(goals, Height >= 1)
  /\ Stacked
  /\ panicked \in BOOLEAN

(* What was pushed is a sequence of values.                                *)
LEMMA StackedSeq ==
  ASSUME NEW S, NEW s \in Seq(S)
  PROVE  s \in Seq({s[i] : i \in DOMAIN s}) /\ Len(s) \in Nat
<1>1. Len(s) \in Nat /\ s = [i \in 1 .. Len(s) |-> s[i]] /\ DOMAIN s = 1 .. Len(s)
  OBVIOUS
<1> QED
  BY <1>1, IsASeq

(* The values up to a height, and one more.                                *)
LEMMA StackedUpTo ==
  ASSUME NEW n \in Nat, NEW x, NEW s
  PROVE  /\ \E S : SubSeq(s, 1, n) \in Seq(S)
         /\ \E S : Append(SubSeq(s, 1, n), x) \in Seq(S)
         /\ Len(SubSeq(s, 1, n)) = n
         /\ Len(Append(SubSeq(s, 1, n), x)) = n + 1
<1> DEFINE S == {s[i] : i \in 1 .. n}
           f == [i \in 1 .. n |-> s[i]]
<1>1. f \in Seq(S) /\ Len(f) = n
  BY IsASeq
<1>2. SubSeq(s, 1, n) = f
  OBVIOUS
<1> HIDE DEF f, S
<1>3. f \in Seq(S \cup {x}) /\ x \in S \cup {x}
  BY <1>1
<1>4. Append(f, x) \in Seq(S \cup {x}) /\ Len(Append(f, x)) = n + 1
  BY <1>1, <1>3, AppendProperties
<1> QED
  BY <1>1, <1>2, <1>4

(* The outermost loop stays at the end of the goals.                       *)
LEMMA OutermostStays ==
  ASSUME NEW gs \in Seq(Known), gs # << >>, IsBody(gs[Len(gs)]), NEW E \in Seq(Known),
         ~IsBody(Head(gs)) \/ E = << >> \/ IsBody(E[Len(E)])
  PROVE  E \o Tail(gs) # << >> => IsBody((E \o Tail(gs))[Len(E \o Tail(gs))])
<1>1. Len(gs) \in Nat /\ Len(gs) >= 1 /\ Head(gs) = gs[1] /\ Tail(gs) \in Seq(Known)
      /\ Len(Tail(gs)) = Len(gs) - 1 /\ Len(E) \in Nat
      /\ \A i \in 1 .. Len(gs) - 1 : Tail(gs)[i] = gs[i + 1]
  BY EmptySeq, HeadTailProperties, LenProperties
<1>2. CASE Len(gs) = 1
  <2>1. Tail(gs) = << >>
    <3>1. Tail(gs) \in Seq(Known) /\ Len(Tail(gs)) = 0
      BY <1>1, <1>2
    <3> QED
      BY <3>1, EmptySeq
  <2>2. E \o Tail(gs) = E
    BY <2>1, ConcatEmptySeq
  <2>3. IsBody(Head(gs))
    BY <1>1, <1>2
  <2> QED
    BY <2>2, <2>3
<1>3. CASE Len(gs) > 1
  <2>1. Len(E \o Tail(gs)) = Len(E) + Len(gs) - 1
    BY <1>1
  <2>2. (E \o Tail(gs))[Len(E) + Len(gs) - 1] = gs[Len(gs)]
    BY <1>1, <1>3
  <2> QED
    BY <2>1, <2>2
<1> QED
  BY <1>1, <1>2, <1>3

(* The innermost loop is there.                                            *)
LEMMA CatcherThere ==
  ASSUME goals \in Seq(Known), goals # << >>, IsBody(goals[Len(goals)])
  PROVE  Catcher \in DOMAIN goals /\ IsBody(goals[Catcher])
<1>1. Len(goals) \in DOMAIN goals /\ DOMAIN goals = 1 .. Len(goals) /\ Len(goals) \in Nat
  BY EmptySeq, LenProperties
<1>2. Bodies \in SUBSET Nat /\ Len(goals) \in Bodies
  BY <1>1 DEF Bodies, IsBody
<1>3. \E i \in Bodies : \A j \in Bodies : i <= j
  BY <1>2, LeastNatural
<1>4. Catcher \in Bodies
  BY <1>3 DEF Catcher
<1> QED
  BY <1>4 DEF Bodies, IsBody

(* What the invariant says of the height and of the next goal.             *)
LEMMA NextGoal ==
  ASSUME PInv
  PROVE  /\ Height \in Nat
         /\ goals # << >> =>
              /\ Head(goals) \in Known
              /\ Head(goals).n \in Nat
              /\ Needy(Head(goals)) => Height >= 1
              /\ Len(tokens) = 0 => IsBody(Head(goals)) /\ Head(goals).with = "EOF"
<1>1. Height \in Nat
  BY StackedSeq DEF PInv, Stacked, Height
<1>2. ASSUME goals # << >>
      PROVE  1 \in DOMAIN goals /\ Head(goals) = goals[1] /\ Head(goals) \in Known
  BY <1>2, EmptySeq, HeadTailProperties, LenProperties DEF PInv
<1>3. ASSUME goals # << >>, Needy(Head(goals)) PROVE Height >= 1
  <2>1. 1 .. 1 - 1 = {}
    OBVIOUS
  <2> QED
    BY <1>2, <1>3, <2>1 DEF PInv, Grounded
<1> QED
  BY <1>1, <1>2, <1>3 DEF PInv, Waiting, Known, Goal

(* A step that replaces the goal at the head of the stack.                 *)
LEMMA ReplacedStep ==
  ASSUME PInv, Placed', errors' = errors, tokens' = tokens, panicked' = panicked,
         Stacked', goals # << >>, NEW E, goals' = E \o Tail(goals),
         E \in Seq(Known), Grounded(E, FALSE),
         ~IsBody(Head(goals)) \/ E = << >> \/ (Len(tokens) # 0 /\ IsBody(E[Len(E)])),
         \/ Loops(Head(goals))
         \/ Yields(E)
         \/ NoLoops(E) /\ (Height >= 1 => Height' >= 1),
         Produces(Head(goals)) => Yields(E) \/ (NoLoops(E) /\ Height' >= 1)
  PROVE  PInv'
<1> DEFINE h == Height >= 1
           h2 == Height' >= 1
<1>1. h \in BOOLEAN /\ h2 \in BOOLEAN /\ Height \in Nat /\ Height' \in Nat
  BY NextGoal, StackedSeq DEF Stacked, Height
<1> HIDE DEF h, h2
<1>2. goals \in Seq(Known) /\ Grounded(goals, h)
  BY DEF PInv, h
<1>3. Grounded(E \o Tail(goals), h2) /\ E \o Tail(goals) \in Seq(Known)
  BY <1>1, <1>2, Replaced DEF h, h2
<1>4. Grounded(goals, Height >= 1)'
  BY <1>3 DEF h2, Grounded
<1>5. IsBody(goals[Len(goals)])
  BY DEF PInv, Waiting
<1>6. (goals # << >> => IsBody(goals[Len(goals)]))'
  BY <1>2, <1>5, OutermostStays
<1>7. ASSUME Len(tokens) = 0, NEW i \in DOMAIN goals'
      PROVE  IsBody(goals'[i]) /\ goals'[i].with = "EOF"
  <2>1. E = << >>
    BY <1>7, NextGoal
  <2>2. goals' = Tail(goals)
    BY <1>2, <2>1, HeadTailProperties
  <2>3. i + 1 \in DOMAIN goals /\ goals'[i] = goals[i + 1]
    BY <1>2, <1>7, <2>2, HeadTailProperties, LenProperties
  <2> QED
    BY <1>7, <2>3 DEF PInv, Waiting
<1> QED
  BY <1>3, <1>4, <1>6, <1>7 DEF PInv, ErrorsPlaced, Waiting

(* A goal that is done is taken off.                                       *)
LEMMA DoneStep ==
  ASSUME PInv, Placed', errors' = errors, tokens' = tokens, panicked' = panicked,
         Stacked', goals # << >>, goals' = Tail(goals),
         IsBody(Head(goals)) \/ (Height >= 1 => Height' >= 1),
         Produces(Head(goals)) => Height' >= 1
  PROVE  PInv'
<1> DEFINE E == << >>
<1>1. E \in Seq(Known) /\ Len(E) = 0 /\ E = << >>
  BY EmptySeq
<1>2. goals' = E \o Tail(goals)
  <2>1. Tail(goals) \in Seq(Known)
    BY HeadTailProperties DEF PInv
  <2> QED
    BY <2>1, ConcatEmptySeq
<1> HIDE DEF E
<1>3. DOMAIN E = {}
  BY <1>1
<1>4. Grounded(E, FALSE) /\ NoLoops(E)
  BY <1>3 DEF Grounded, NoLoops
<1> QED
  BY <1>1, <1>2, <1>4, ReplacedStep DEF Loops

(* A call, which leaves the values and the text alone.                     *)
LEMMA PredictKeeps ==
  ASSUME PInv, Predict
  PROVE  PInv'
<1> DEFINE g == Head(goals)
           E == Parsed(g)
<1>1. goals # << >> /\ g.do = "rule" /\ g \in Known /\ Height \in Nat
      /\ (Needy(g) => Height >= 1)
  BY NextGoal DEF Predict, Doing
<1>2. /\ E \in Seq(Known) /\ Grounded(E, FALSE)
      /\ ~StartsLoop(g) => Sound(E)
      /\ Produces(g) => Yields(E)
  BY <1>1, ParsedSound
<1>3. goals' = E \o Tail(goals) /\ Height' = Height
  BY DEF Predict, Height
<1>4. ~IsBody(g)
  BY <1>1 DEF IsBody
<1>5. Placed' /\ Stacked'
  BY DEF Predict, PInv, Placed, Stacked
<1> HIDE DEF E
<1>6. E \in Seq(Known) /\ Grounded(E, FALSE) /\ (Loops(g) \/ Yields(E) \/ NoLoops(E))
  BY <1>2 DEF Sound, Loops
<1> QED
  BY <1>1, <1>2, <1>3, <1>4, <1>5, <1>6, ReplacedStep DEF Predict

(* A token that was expected.                                              *)
LEMMA TakeTokenKeeps ==
  ASSUME PInv, TakeToken
  PROVE  PInv'
<1>1. goals # << >> /\ Head(goals).do = "take"
  BY DEF TakeToken, Doing
<1>2. Placed'
  BY PlacedStep DEF PInv, Next
<1>3. Stacked' /\ Height' = Height
  BY DEF TakeToken, PInv, Stacked, Height
<1>4. ~Produces(Head(goals))
  BY <1>1 DEF Produces
<1> QED
  BY <1>1, <1>2, <1>3, <1>4, DoneStep DEF TakeToken

(* A token that becomes a value.                                           *)
LEMMA MakeLeafKeeps ==
  ASSUME PInv, MakeLeaf
  PROVE  PInv'
<1>1. goals # << >>
  BY DEF MakeLeaf, Doing
<1>2. Placed'
  BY PlacedStep DEF PInv, Next
<1>3. PICK x : values' = Append(values, x)
  BY DEF MakeLeaf
<1>4. Stacked' /\ Height' >= 1
  <2> DEFINE S == {values[i] : i \in DOMAIN values}
  <2>1. values \in Seq(S)
    BY DEF PInv, Stacked
  <2> HIDE DEF S
  <2>2. values \in Seq(S \cup {x}) /\ x \in S \cup {x}
    BY <2>1
  <2>3. values' \in Seq(S \cup {x}) /\ Len(values') = Len(values) + 1 /\ Len(values) \in Nat
    BY <1>3, <2>2, AppendProperties, LenProperties
  <2> QED
    BY <2>3, StackedSeq DEF Stacked, Height
<1> QED
  BY <1>1, <1>2, <1>4, DoneStep DEF MakeLeaf

(* Values that become one.                                                 *)
LEMMA MakeNodeKeeps ==
  ASSUME PInv, MakeNode
  PROVE  PInv'
<1>1. goals # << >> /\ Head(goals).n \in Nat
  BY NextGoal DEF MakeNode, Doing
<1>2. Placed'
  BY DEF MakeNode, PInv, Placed
<1>3. PICK x : values' = Append(SubSeq(values, 1, Head(goals).n), x)
  BY DEF MakeNode
<1>4. Stacked' /\ Height' >= 1
  <2>1. PICK S : values' \in Seq(S)
    BY <1>1, <1>3, StackedUpTo
  <2>2. Len(values') = Head(goals).n + 1
    BY <1>1, <1>3, StackedUpTo
  <2> QED
    BY <1>1, <2>1, <2>2, StackedSeq DEF Stacked, Height
<1> QED
  BY <1>1, <1>2, <1>4, DoneStep DEF MakeNode

(* An item more.                                                           *)
LEMMA NextItemKeeps ==
  ASSUME PInv, NextItem
  PROVE  PInv'
<1> DEFINE g == Head(goals)
           b == [g EXCEPT !.n = Height]
           E == << Rule(g.what), b >>
<1>1. goals # << >> /\ IsBody(g) /\ g \in Known /\ Height \in Nat
      /\ (Len(tokens) = 0 => g.with = "EOF")
  BY NextGoal DEF NextItem, Doing, IsBody
<1>2. Placed' /\ Stacked' /\ Height' = Height
  BY PlacedStep DEF PInv, Next, NextItem, Stacked, Height
<1>3. Len(tokens) # 0
  <2>1. PICK q \in pos .. Len(tokens) : ~Ends(g, q)
    BY DEF NextItem
  <2>2. ASSUME Len(tokens) = 0 PROVE FALSE
    <3>1. ~(q < Len(tokens))
      BY <2>1, <2>2, AfterInText DEF PInv
    <3>2. KindAt(q) = "EOF"
      BY <3>1 DEF KindAt
    <3> QED
      BY <2>1, <3>2 DEF Ends
  <2> QED
    BY <2>2
<1>4. b \in Known /\ IsBody(b)
  BY <1>1 DEF Known, Goal, IsBody
<1>5. Rule(g.what) \in Safe
  <2>1. g.what \in ItemRules
    BY <1>1 DEF Known, IsBody
  <2> QED
    BY <2>1, SafeCalls DEF RuleNames, NeedyRules, ItemRules
<1>6. goals' = E \o Tail(goals)
  BY DEF NextItem
<1> HIDE DEF g, b
<1>7. E \in Seq(Known) /\ Len(E) = 2 /\ DOMAIN E = 1 .. 2 /\ E[1] = Rule(g.what) /\ E[2] = b
  BY <1>4, <1>5 DEF Safe
<1> HIDE DEF E
<1>8. \A i \in DOMAIN E : ~Needy(E[i])
  BY <1>4, <1>5, <1>7 DEF Safe, IsBody, Needy
<1>9. Grounded(E, FALSE)
  BY <1>8 DEF Grounded
<1>10. ~Produces(g)
  BY <1>1 DEF Produces, IsBody
<1> QED
  BY <1>1, <1>2, <1>3, <1>4, <1>6, <1>7, <1>9, <1>10, ReplacedStep DEF NextItem, Loops, g

(* The end of a block or of the text.                                      *)
LEMMA EndBodyKeeps ==
  ASSUME PInv, EndBody
  PROVE  PInv'
<1>1. goals # << >> /\ IsBody(Head(goals))
  BY DEF EndBody, Doing, IsBody
<1>2. Placed'
  BY PlacedStep DEF PInv, Next
<1>3. Stacked'
  BY DEF EndBody, PInv, Stacked
<1>4. ~Produces(Head(goals))
  BY <1>1 DEF Produces, IsBody
<1> QED
  BY <1>1, <1>2, <1>3, <1>4, DoneStep DEF EndBody

(* An error: the innermost loop catches it, with the items it has.         *)
LEMMA FailWithKeeps ==
  ASSUME PInv, NEW kind \in {"UnexpectedToken", "InvalidExpression"}, FailWith(kind),
         goals # << >>, ~IsBody(Head(goals))
  PROVE  PInv'
<1>1. goals \in Seq(Known) /\ IsBody(goals[Len(goals)]) /\ Len(tokens) # 0
  BY NextGoal DEF PInv, Waiting
<1>2. Catcher \in DOMAIN goals /\ IsBody(goals[Catcher])
  BY <1>1, CatcherThere
<1> DEFINE c == Catcher
<1> HIDE DEF c
<1>3. /\ goals' \in Seq(Known)
      /\ Grounded(goals', FALSE)
      /\ goals' # << >>
      /\ goals'[Len(goals')] = goals[Len(goals)]
  <2>1. goals' = SubSeq(goals, c, Len(goals)) /\ c \in DOMAIN goals /\ IsBody(goals[c])
    BY <1>2 DEF FailWith, c
  <2> QED
    BY <1>1, <2>1, Recovered DEF PInv, Loops
<1>4. Grounded(goals, Height >= 1)'
  BY <1>3 DEF Grounded
<1>5. Placed'
  BY DEF PInv, Placed, FailWith
<1>6. Waiting'
  BY <1>1, <1>3 DEF Waiting, FailWith
<1>7. Stacked'
  <2>1. goals[c] \in Known
    BY <1>1, <1>2 DEF c
  <2>2. goals[c].n \in Nat
    BY <2>1 DEF Known, Goal
  <2>3. values' = SubSeq(values, 1, goals[c].n)
    BY DEF FailWith, c
  <2> QED
    BY <2>2, <2>3, StackedUpTo, StackedSeq DEF Stacked
<1>8. ErrorsPlaced'
  <2> DEFINE e == [kind |-> kind, at |-> After(pos) - 1]
  <2>1. Len(tokens) \in Nat /\ pos \in 0 .. Len(tokens)
    BY AfterInText DEF PInv, Placed
  <2>2. After(pos) \in 1 .. Len(tokens)
    BY <1>1, <2>1 DEF After
  <2>3. After(pos) - 1 \in Nat /\ After(pos) - 1 < Len(tokens)
    BY <2>1, <2>2
  <2>4. e \in Error /\ e.at < Len(tokens)
    BY <2>3 DEF Error
  <2>5. errors' = Append(errors, e) /\ tokens' = tokens
    BY DEF FailWith
  <2> HIDE DEF e
  <2>6. /\ errors' \in Seq(Error)
        /\ \A i \in DOMAIN errors' : \/ i \in DOMAIN errors /\ errors'[i] = errors[i]
                                     \/ errors'[i] = e
    BY <2>4, <2>5, AppendProperties, LenProperties DEF PInv, ErrorsPlaced
  <2> QED
    BY <2>4, <2>5, <2>6 DEF PInv, ErrorsPlaced
<1>9. panicked' \in BOOLEAN
  BY DEF FailWith, PInv
<1> QED
  BY <1>3, <1>4, <1>5, <1>6, <1>7, <1>8, <1>9 DEF PInv

(* The first goal is the loop over the program.                            *)
LEMMA PInvStarts ==
  ASSUME Init
  PROVE  PInv
<1> DEFINE b == Body("expression", "EOF", 0)
<1>1. tokens \in Seq(Token) /\ Len(tokens) \in Nat
  BY TextsAssumption, LenProperties DEF Init
<1>2. Placed /\ ErrorsPlaced
  BY <1>1 DEF Init, Placed, ErrorsPlaced
<1>3. b \in Known /\ IsBody(b)
  BY LoopCalls DEF Extras, ItemRules
<1>4. b.with = "EOF"
  BY DEF Body
<1>5. goals = << b >>
  BY DEF Init
<1> HIDE DEF b
<1>6. goals \in Seq(Known) /\ DOMAIN goals = 1 .. 1 /\ goals[1] = b /\ Len(goals) = 1
  BY <1>3, <1>5
<1>7. Waiting
  BY <1>3, <1>4, <1>6 DEF Waiting
<1>8. Grounded(goals, Height >= 1)
  BY <1>3, <1>6 DEF Grounded, Needy, IsBody
<1>9. Stacked
  <2>1. values \in Seq({})
    BY EmptySeq DEF Init
  <2> QED
    BY <2>1, StackedSeq DEF Stacked
<1> QED
  BY <1>2, <1>6, <1>7, <1>8, <1>9 DEF PInv, Init

(* Every action keeps the invariant.                                       *)
LEMMA PInvStep ==
  ASSUME PInv, [Next]_vars
  PROVE  PInv'
<1>1. CASE Unexpected
  <2>1. goals # << >> /\ ~IsBody(Head(goals)) /\ FailWith("UnexpectedToken")
    BY <1>1 DEF Unexpected, Doing, IsBody
  <2> QED
    BY <2>1, FailWithKeeps
<1>2. CASE Invalid
  <2>1. goals # << >> /\ ~IsBody(Head(goals)) /\ FailWith("InvalidExpression")
    BY <1>2 DEF Invalid, Doing, IsBody
  <2> QED
    BY <2>1, FailWithKeeps
<1>3. CASE Panic
  BY <1>3 DEF Panic, PInv, Placed, ErrorsPlaced, Waiting, Stacked, Height
<1>4. CASE Ended
  BY <1>4 DEF Ended, vars, PInv, Placed, ErrorsPlaced, Waiting, Stacked, Height
<1>5. CASE UNCHANGED vars
  BY <1>5 DEF vars, PInv, Placed, ErrorsPlaced, Waiting, Stacked, Height
<1> QED
  BY <1>1, <1>2, <1>3, <1>4, <1>5, PredictKeeps, TakeTokenKeeps, MakeLeafKeeps, MakeNodeKeeps,
     NextItemKeeps, EndBodyKeeps DEF Next

(* Every reachable state of the parser keeps it.                           *)
LEMMA PInvHolds == Spec => []PInv
<1>1. PInv /\ [Next]_vars => PInv'
  BY PInvStep
<1> QED
  BY <1>1, PInvStarts, PTL DEF Spec

(* For every text: what is left to do are calls of the grammar's functions *)
(* and nodes of its kinds; a left operand (parse_binary, parse_postfix) is *)
(* never looked for below the first value, and every error names a token   *)
(* of the text: next() and unexpected_error never look behind the last one *)
(* or before the first.                                                    *)
THEOREM ParserTypeCorrect == Spec => []TypeOK
<1>1. PInv => TypeOK
  <2> SUFFICES ASSUME PInv PROVE TypeOK
    OBVIOUS
  <2>1. goals \in Seq(Goal)
    <3>1. goals \in Seq(Known) /\ Known \subseteq Goal
      BY DEF PInv, Known
    <3> QED
      BY <3>1
  <2> QED
    BY <2>1 DEF PInv, Placed, ErrorsPlaced, TypeOK
<1> QED
  BY <1>1, PInvHolds, PTL

-----------------------------------------------------------------------------
(* Loops and blocks.  A loop is started behind an Indent, ends at a Dedent *)
(* or at the end of the text, and an error only ends some: so no more of   *)
(* them run than there are blocks open in the text read so far, as long as *)
(* no recovery skips a Dedent.                                             *)

(* The loops over blocks among goals, and whether one is started next.     *)
LoopsOf(gs) == {i \in DOMAIN gs : IsBody(gs[i]) /\ gs[i].with = "Dedent"}
Starting(gs) == gs # << >> /\ StartsLoop(Head(gs))
Cost(gs) == Cardinality(LoopsOf(gs)) + (IF Starting(gs) THEN 1 ELSE 0)

(* A loop that waits to be started waits for its Indent.                   *)
Awaiting(gs) ==
  \A i \in DOMAIN gs : StartsLoop(gs[i]) => i = 1 \/ gs[i - 1] = Take("Indent")

(* The blocks that are open behind the first p tokens.                     *)
TakenAt(p, t) == {r \in 1 .. p : tokens[r].t = t}
Opened(p) == Cardinality(TakenAt(p, "Indent")) - Cardinality(TakenAt(p, "Dedent"))

LInv ==
  /\ PInv
  /\ Awaiting(goals)
  /\ DedentsStartLines /\ ~LayoutLost => Cost(goals) <= Opened(pos)

(* Members of S that are members of T a distance away are not more.        *)
LEMMA Shifted ==
  ASSUME NEW S \in SUBSET Int, NEW T, IsFiniteSet(T), NEW d \in Int, \A i \in S : i + d \in T
  PROVE  IsFiniteSet(S) /\ Cardinality(S) <= Cardinality(T)
<1> DEFINE f == [i \in S |-> i + d]
<1>1. f \in [S -> T]
  OBVIOUS
<1>2. \A a, b \in S : f[a] = f[b] => a = b
  OBVIOUS
<1>3. f \in Injection(S, T)
  BY <1>1, <1>2, Fun_IsInj
<1> QED
  BY <1>3, FS_Injection

(* Loops are finitely many.                                                *)
LEMMA LoopsFinite ==
  ASSUME NEW gs \in Seq(Known)
  PROVE  /\ DOMAIN gs = 1 .. Len(gs) /\ Len(gs) \in Nat
         /\ LoopsOf(gs) \in SUBSET (1 .. Len(gs))
         /\ IsFiniteSet(LoopsOf(gs)) /\ Cardinality(LoopsOf(gs)) \in Nat
         /\ Cost(gs) \in Int
<1>1. Len(gs) \in Nat /\ DOMAIN gs = 1 .. Len(gs)
  BY LenProperties
<1>2. LoopsOf(gs) \in SUBSET (1 .. Len(gs))
  BY <1>1 DEF LoopsOf
<1>3. IsFiniteSet(LoopsOf(gs))
  <2>1. IsFiniteSet(1 .. Len(gs))
    BY <1>1, FS_Interval
  <2> QED
    BY <1>2, <2>1, FS_Subset
<1>4. Cardinality(LoopsOf(gs)) \in Nat
  BY <1>3, FS_CardinalityType
<1> QED
  BY <1>1, <1>2, <1>3, <1>4 DEF Cost

(* What is in front of the tail, by its place.                             *)
LEMMA InFront ==
  ASSUME NEW gs \in Seq(Known), gs # << >>, NEW E \in Seq(Known)
  PROVE  /\ E \o Tail(gs) \in Seq(Known)
         /\ Len(gs) >= 1 /\ Head(gs) = gs[1] /\ Len(E) \in Nat /\ DOMAIN E = 1 .. Len(E)
         /\ Len(E \o Tail(gs)) = Len(E) + Len(gs) - 1
         /\ \A i \in 1 .. Len(E) : (E \o Tail(gs))[i] = E[i]
         /\ \A i \in Len(E) + 1 .. Len(E) + Len(gs) - 1 :
              /\ i - Len(E) + 1 \in 2 .. Len(gs)
              /\ (E \o Tail(gs))[i] = gs[i - Len(E) + 1]
<1>1. Len(E) \in Nat /\ Len(gs) \in Nat /\ Len(gs) >= 1 /\ Tail(gs) \in Seq(Known)
      /\ Len(Tail(gs)) = Len(gs) - 1 /\ DOMAIN E = 1 .. Len(E) /\ Head(gs) = gs[1]
  BY EmptySeq, HeadTailProperties, LenProperties
<1> QED
  BY <1>1

(* Goals in place of one that is no call for a loop.                       *)
LEMMA LoopsPopped ==
  ASSUME NEW gs \in Seq(Known), gs # << >>, Awaiting(gs), ~StartsLoop(Head(gs)),
         NEW E \in Seq(Known), Entered(E), E = << >> \/ Head(gs) # Take("Indent")
  PROVE  /\ Awaiting(E \o Tail(gs))
         /\ Head(gs) # Take("Indent") => Cost(E \o Tail(gs)) <= Cost(gs)
         /\ Cost(E \o Tail(gs)) <= Cost(gs) + 1
         /\ IsBody(Head(gs)) /\ Head(gs).with = "Dedent" => Cost(E \o Tail(gs)) <= Cost(gs) - 1
<1> DEFINE n == Len(E)
           hs == E \o Tail(gs)
           m == Len(gs)
<1>1. /\ hs \in Seq(Known) /\ m \in Nat /\ m >= 1 /\ Head(gs) = gs[1] /\ n \in Nat
      /\ DOMAIN E = 1 .. n /\ DOMAIN gs = 1 .. m /\ DOMAIN hs = 1 .. n + m - 1
      /\ \A i \in 1 .. n : hs[i] = E[i]
      /\ \A i \in n + 1 .. n + m - 1 : i - n + 1 \in 2 .. m /\ hs[i] = gs[i - n + 1]
  BY InFront, LoopsFinite, LenProperties
<1>2. hs # << >> => Head(hs) = hs[1] /\ 1 \in DOMAIN hs
  BY <1>1, EmptySeq, HeadTailProperties, LenProperties
<1>3. n = 0 \/ Head(gs) # Take("Indent")
  BY EmptySeq
<1> HIDE DEF hs, n, m
<1>4. ASSUME NEW i \in DOMAIN hs, StartsLoop(hs[i])
      PROVE  \/ i > 1 /\ hs[i - 1] = Take("Indent")
             \/ i = 1 /\ Head(gs) = Take("Indent")
  <2>1. CASE i \in 1 .. n
    <3>1. i > 1 /\ E[i - 1] = Take("Indent")
      BY <1>1, <1>4, <2>1 DEF Entered
    <3> QED
      BY <1>1, <2>1, <3>1
  <2>2. CASE i \in n + 1 .. n + m - 1
    <3> DEFINE o == i - n + 1
    <3>1. o \in 2 .. m /\ hs[i] = gs[o] /\ i \in Int
      BY <1>1, <2>2
    <3>2. gs[o - 1] = Take("Indent")
      BY <1>1, <1>4, <3>1 DEF Awaiting
    <3>3. CASE i = n + 1
      BY <1>1, <1>3, <3>1, <3>2, <3>3
    <3>4. CASE i # n + 1
      <4>1. i - 1 \in n + 1 .. n + m - 1 /\ (i - 1) - n + 1 = o - 1 /\ i > 1
        BY <1>1, <2>2, <3>4
      <4> QED
        BY <1>1, <3>2, <4>1
    <3> QED
      BY <3>3, <3>4
  <2> QED
    BY <1>1, <2>1, <2>2
<1>5. Awaiting(hs)
  BY <1>1, <1>4 DEF Awaiting
<1>6. Starting(hs) => Head(gs) = Take("Indent")
  BY <1>2, <1>4 DEF Starting
<1>7. Cardinality(LoopsOf(hs)) <= Cardinality(LoopsOf(gs) \ {1})
  <2>1. \A i \in LoopsOf(hs) : i + (1 - n) \in LoopsOf(gs) \ {1}
    <3> SUFFICES ASSUME NEW i \in LoopsOf(hs)
                 PROVE  i + (1 - n) \in LoopsOf(gs) \ {1}
      OBVIOUS
    <3>1. i \in DOMAIN hs /\ IsBody(hs[i]) /\ hs[i].with = "Dedent"
      BY DEF LoopsOf
    <3>2. i \in n + 1 .. n + m - 1
      BY <1>1, <3>1 DEF Entered
    <3>3. i - n + 1 \in 2 .. m /\ hs[i] = gs[i - n + 1] /\ i + (1 - n) = i - n + 1
      BY <1>1, <3>2
    <3> QED
      BY <1>1, <3>1, <3>3 DEF LoopsOf
  <2>2. LoopsOf(hs) \in SUBSET Int /\ 1 - n \in Int
    BY <1>1, LoopsFinite
  <2>3. IsFiniteSet(LoopsOf(gs) \ {1})
    BY LoopsFinite, FS_RemoveElement
  <2> QED
    BY <2>1, <2>2, <2>3, Shifted
<1>8. /\ Cardinality(LoopsOf(gs)) \in Nat /\ Cardinality(LoopsOf(hs)) \in Nat
      /\ Cardinality(LoopsOf(gs) \ {1}) =
           IF 1 \in LoopsOf(gs) THEN Cardinality(LoopsOf(gs)) - 1 ELSE Cardinality(LoopsOf(gs))
  BY <1>1, LoopsFinite, FS_RemoveElement
<1>9. IsBody(Head(gs)) /\ Head(gs).with = "Dedent" => 1 \in LoopsOf(gs)
  BY <1>1 DEF LoopsOf
<1>10. ~Starting(gs)
  BY DEF Starting
<1>11. IsBody(Head(gs)) => Head(gs) # Take("Indent")
  BY DEF IsBody, Take
<1> QED
  BY <1>5, <1>6, <1>7, <1>8, <1>9, <1>10, <1>11 DEF Cost, hs

(* A turn of a loop, and its start.                                        *)
LEMMA LoopsTurned ==
  ASSUME NEW gs \in Seq(Known), gs # << >>, Awaiting(gs),
         NEW g \in Safe, NEW b \in Known, IsBody(b),
         \/ StartsLoop(Head(gs))
         \/ IsBody(Head(gs)) /\ Head(gs).with = b.with
  PROVE  /\ Awaiting(<< g, b >> \o Tail(gs))
         /\ Cost(<< g, b >> \o Tail(gs)) <= Cost(gs)
<1> DEFINE E == << g, b >>
           hs == E \o Tail(gs)
           m == Len(gs)
<1>1. g \in Known /\ ~StartsLoop(g) /\ ~IsBody(g) /\ ~StartsLoop(b)
  BY DEF Safe, Loops, IsBody, StartsLoop
<1>2. E \in Seq(Known) /\ Len(E) = 2 /\ E[1] = g /\ E[2] = b
  BY <1>1
<1> HIDE DEF E
<1>3. /\ hs \in Seq(Known) /\ m \in Nat /\ m >= 1 /\ Head(gs) = gs[1]
      /\ DOMAIN gs = 1 .. m /\ DOMAIN hs = 1 .. m + 1
      /\ hs[1] = g /\ hs[2] = b
      /\ \A i \in 3 .. m + 1 : i - 1 \in 2 .. m /\ hs[i] = gs[i - 1]
  <2>1. /\ hs \in Seq(Known) /\ m \in Nat /\ m >= 1 /\ Head(gs) = gs[1]
        /\ DOMAIN gs = 1 .. m /\ Len(hs) = 2 + m - 1
        /\ \A i \in 1 .. 2 : hs[i] = E[i]
        /\ \A i \in 2 + 1 .. 2 + m - 1 : i - 2 + 1 \in 2 .. m /\ hs[i] = gs[i - 2 + 1]
    <3> DEFINE n == Len(E)
    <3>1. n = 2
      BY <1>2
    <3>2. /\ hs \in Seq(Known) /\ m >= 1 /\ Head(gs) = gs[1] /\ Len(hs) = n + m - 1
          /\ \A i \in 1 .. n : hs[i] = E[i]
          /\ \A i \in n + 1 .. n + m - 1 : i - n + 1 \in 2 .. m /\ hs[i] = gs[i - n + 1]
      BY <1>2, InFront
    <3>3. m \in Nat /\ DOMAIN gs = 1 .. m
      BY LoopsFinite
    <3> HIDE DEF n, hs, m
    <3> QED
      BY <3>1, <3>2, <3>3
  <2>2. DOMAIN hs = 1 .. Len(hs)
    BY <2>1, LenProperties
  <2> HIDE DEF hs, m
  <2>3. \A i \in 3 .. m + 1 : i \in 2 + 1 .. 2 + m - 1 /\ i - 2 + 1 = i - 1
    BY <2>1
  <2> QED
    BY <1>2, <2>1, <2>2, <2>3
<1>4. Head(hs) = hs[1]
  BY <1>3, EmptySeq, HeadTailProperties
<1> HIDE DEF hs, m
<1>5. \A i \in DOMAIN hs : i = 1 \/ i = 2 \/ i \in 3 .. m + 1
  BY <1>3
<1>6. gs[1] # Take("Indent")
  BY <1>3 DEF StartsLoop, IsBody, Take
<1>7. Awaiting(hs)
  <2> SUFFICES ASSUME NEW i \in DOMAIN hs, StartsLoop(hs[i])
               PROVE  i = 1 \/ hs[i - 1] = Take("Indent")
    BY DEF Awaiting
  <2>1. i \in 3 .. m + 1
    BY <1>1, <1>3, <1>5
  <2>2. i - 1 \in 2 .. m /\ hs[i] = gs[i - 1] /\ i \in Int
    BY <1>3, <2>1
  <2>3. gs[(i - 1) - 1] = Take("Indent")
    BY <1>3, <2>2 DEF Awaiting
  <2>4. i - 1 \in 3 .. m + 1 /\ (i - 1) - 1 = i - 2
    <3>1. i - 1 # 2
      BY <1>6, <2>3
    <3> QED
      BY <1>3, <2>2, <3>1
  <2> QED
    BY <1>3, <2>3, <2>4
<1>8. ~Starting(hs)
  BY <1>1, <1>3, <1>4 DEF Starting
<1>9. /\ Cardinality(LoopsOf(gs)) \in Nat /\ Cardinality(LoopsOf(hs)) \in Nat
      /\ IsFiniteSet(LoopsOf(gs)) /\ IsFiniteSet(LoopsOf(hs)) /\ LoopsOf(hs) \in SUBSET Int
  BY <1>3, LoopsFinite
<1>10. \A i \in LoopsOf(hs) : i # 2 => i - 1 \in LoopsOf(gs) \ {1}
  <2> SUFFICES ASSUME NEW i \in LoopsOf(hs), i # 2
               PROVE  i - 1 \in LoopsOf(gs) \ {1}
    OBVIOUS
  <2>1. i \in 3 .. m + 1 /\ IsBody(hs[i]) /\ hs[i].with = "Dedent"
    BY <1>1, <1>3, <1>5 DEF LoopsOf
  <2>2. i - 1 \in 2 .. m /\ hs[i] = gs[i - 1]
    BY <1>3, <2>1
  <2> QED
    BY <1>3, <2>1, <2>2 DEF LoopsOf
<1>11. CASE StartsLoop(Head(gs))
  <2>1. \A i \in LoopsOf(hs) \ {2} : i + (-1) \in LoopsOf(gs)
    BY <1>9, <1>10
  <2>2. Cardinality(LoopsOf(hs) \ {2}) <= Cardinality(LoopsOf(gs))
    <3>1. LoopsOf(hs) \ {2} \in SUBSET Int /\ -1 \in Int
      BY <1>9
    <3> QED
      BY <1>9, <2>1, <3>1, Shifted
  <2>3. Cardinality(LoopsOf(hs) \ {2}) \in {Cardinality(LoopsOf(hs)), Cardinality(LoopsOf(hs)) - 1}
    BY <1>9, FS_RemoveElement
  <2>4. Starting(gs)
    BY <1>11 DEF Starting
  <2>5. Cost(gs) = Cardinality(LoopsOf(gs)) + 1 /\ Cost(hs) = Cardinality(LoopsOf(hs))
    BY <1>8, <1>9, <2>4 DEF Cost
  <2>6. Cost(hs) <= Cost(gs)
    BY <1>9, <2>2, <2>3, <2>5
  <2> QED
    BY <1>7, <2>6 DEF hs, E
<1>12. CASE IsBody(Head(gs)) /\ Head(gs).with = b.with
  <2>1. 2 \in LoopsOf(hs) => 1 \in LoopsOf(gs)
    BY <1>3, <1>12 DEF LoopsOf
  <2>2. \A i \in LoopsOf(hs) : i + (-1) \in LoopsOf(gs)
    BY <1>9, <1>10, <2>1
  <2>3. Cardinality(LoopsOf(hs)) <= Cardinality(LoopsOf(gs))
    <3>1. -1 \in Int
      OBVIOUS
    <3> QED
      BY <1>9, <2>2, <3>1, Shifted
  <2>4. ~Starting(gs)
    BY <1>12 DEF Starting, IsBody, StartsLoop
  <2>5. Cost(hs) <= Cost(gs)
    BY <1>8, <1>9, <2>3, <2>4 DEF Cost
  <2> QED
    BY <1>7, <2>5 DEF hs, E
<1> QED
  BY <1>11, <1>12

(* The loop that catches an error and those around it.                     *)
LEMMA LoopsCaught ==
  ASSUME NEW gs \in Seq(Known), Awaiting(gs), NEW c \in DOMAIN gs, IsBody(gs[c])
  PROVE  /\ Awaiting(SubSeq(gs, c, Len(gs)))
         /\ Cost(SubSeq(gs, c, Len(gs))) <= Cost(gs)
<1> DEFINE hs == SubSeq(gs, c, Len(gs))
           m == Len(gs)
<1>1. m \in Nat /\ DOMAIN gs = 1 .. m /\ c \in 1 .. m
  BY LoopsFinite
<1>2. /\ hs \in Seq(Known) /\ DOMAIN hs = 1 .. m - c + 1
      /\ \A i \in 1 .. m - c + 1 : c + i - 1 \in 1 .. m /\ hs[i] = gs[c + i - 1]
  BY <1>1, SubSeqProperties, LenProperties
<1>3. hs # << >> => Head(hs) = hs[1] /\ 1 \in DOMAIN hs
  BY <1>2, EmptySeq, HeadTailProperties, LenProperties
<1> HIDE DEF hs, m
<1>4. Awaiting(hs)
  <2> SUFFICES ASSUME NEW i \in DOMAIN hs, StartsLoop(hs[i]), i # 1
               PROVE  hs[i - 1] = Take("Indent")
    BY DEF Awaiting
  <2>1. i \in 1 .. m - c + 1 /\ i # 1 /\ m \in Nat /\ c \in 1 .. m
    BY <1>1, <1>2
  <2>2. /\ i - 1 \in 1 .. m - c + 1 /\ c + i - 1 # 1
        /\ c + (i - 1) - 1 = (c + i - 1) - 1
    BY <2>1
  <2>3. gs[(c + i - 1) - 1] = Take("Indent")
    BY <1>1, <1>2, <2>1, <2>2 DEF Awaiting
  <2> QED
    BY <1>2, <2>2, <2>3
<1>5. ~Starting(hs)
  <2>1. c + 1 - 1 = c
    BY <1>1
  <2> QED
    BY <1>2, <1>3, <2>1 DEF Starting, StartsLoop, IsBody
<1>6. /\ Cardinality(LoopsOf(gs)) \in Nat /\ Cardinality(LoopsOf(hs)) \in Nat
      /\ IsFiniteSet(LoopsOf(gs)) /\ LoopsOf(hs) \in SUBSET Int
  BY <1>2, LoopsFinite
<1>7. \A i \in LoopsOf(hs) : i + (c - 1) \in LoopsOf(gs)
  <2> SUFFICES ASSUME NEW i \in LoopsOf(hs)
               PROVE  i + (c - 1) \in LoopsOf(gs)
    OBVIOUS
  <2>1. i \in 1 .. m - c + 1 /\ IsBody(hs[i]) /\ hs[i].with = "Dedent"
    BY <1>2 DEF LoopsOf
  <2>2. c + i - 1 \in 1 .. m /\ hs[i] = gs[c + i - 1] /\ i + (c - 1) = c + i - 1
    BY <1>1, <1>2, <2>1
  <2> QED
    BY <1>1, <2>1, <2>2 DEF LoopsOf
<1>8. Cardinality(LoopsOf(hs)) <= Cardinality(LoopsOf(gs))
  <2>1. c - 1 \in Int
    BY <1>1
  <2> QED
    BY <1>6, <1>7, <2>1, Shifted
<1>9. Cost(hs) <= Cost(gs)
  BY <1>5, <1>6, <1>8 DEF Cost
<1> QED
  BY <1>4, <1>9 DEF hs, m

(* The tokens of a kind up to a place.                                     *)
LEMMA TakenFinite ==
  ASSUME NEW p \in Nat, NEW t
  PROVE  /\ IsFiniteSet(TakenAt(p, t)) /\ Cardinality(TakenAt(p, t)) \in Nat
         /\ TakenAt(p, t) \in SUBSET (1 .. p)
<1>1. IsFiniteSet(1 .. p)
  BY FS_Interval
<1>2. TakenAt(p, t) \in SUBSET (1 .. p)
  BY DEF TakenAt
<1>3. IsFiniteSet(TakenAt(p, t))
  BY <1>1, <1>2, FS_Subset
<1> QED
  BY <1>2, <1>3, FS_CardinalityType

(* One token more.                                                         *)
LEMMA OpenedByOne ==
  ASSUME NEW p \in Nat
  PROVE  /\ Opened(p) \in Int /\ Opened(p + 1) \in Int
         /\ tokens[p + 1].t = "Indent" => Opened(p + 1) = Opened(p) + 1
         /\ tokens[p + 1].t = "Dedent" => Opened(p + 1) = Opened(p) - 1
         /\ tokens[p + 1].t \notin {"Indent", "Dedent"} => Opened(p + 1) = Opened(p)
<1>1. ASSUME NEW t
      PROVE  /\ Cardinality(TakenAt(p, t)) \in Nat
             /\ Cardinality(TakenAt(p + 1, t)) =
                  Cardinality(TakenAt(p, t)) + (IF tokens[p + 1].t = t THEN 1 ELSE 0)
  <2>1. p + 1 \notin TakenAt(p, t) /\ IsFiniteSet(TakenAt(p, t))
    BY TakenFinite
  <2>2. TakenAt(p + 1, t) =
          IF tokens[p + 1].t = t THEN TakenAt(p, t) \cup {p + 1} ELSE TakenAt(p, t)
    BY DEF TakenAt
  <2>3. Cardinality(TakenAt(p, t) \cup {p + 1}) = Cardinality(TakenAt(p, t)) + 1
    BY <2>1, FS_AddElement
  <2>4. Cardinality(TakenAt(p, t)) \in Nat
    BY TakenFinite
  <2> QED
    BY <2>2, <2>3, <2>4
<1> QED
  BY <1>1 DEF Opened

(* Tokens among which there is no Dedent close nothing.                    *)
LEMMA NothingClosed ==
  ASSUME NEW p \in Nat, NEW q \in Nat, p <= q,
         \A r \in p + 1 .. q : tokens[r].t # "Dedent"
  PROVE  Opened(p) <= Opened(q) /\ Opened(p) \in Int /\ Opened(q) \in Int
<1>1. TakenAt(p, "Indent") \in SUBSET TakenAt(q, "Indent")
  BY DEF TakenAt
<1>2. TakenAt(q, "Dedent") \in SUBSET TakenAt(p, "Dedent")
  BY DEF TakenAt
<1>3. /\ Cardinality(TakenAt(p, "Indent")) \in Nat /\ Cardinality(TakenAt(q, "Indent")) \in Nat
      /\ Cardinality(TakenAt(p, "Dedent")) \in Nat /\ Cardinality(TakenAt(q, "Dedent")) \in Nat
      /\ IsFiniteSet(TakenAt(q, "Indent")) /\ IsFiniteSet(TakenAt(p, "Dedent"))
  BY TakenFinite
<1>4. Cardinality(TakenAt(p, "Indent")) <= Cardinality(TakenAt(q, "Indent"))
  BY <1>1, <1>3, FS_Subset
<1>5. Cardinality(TakenAt(q, "Dedent")) <= Cardinality(TakenAt(p, "Dedent"))
  BY <1>2, <1>3, FS_Subset
<1> QED
  BY <1>3, <1>4, <1>5 DEF Opened

(* What an error skips has no Dedent in it, when it took none itself: the  *)
(* first one would stand behind a token that is none either, and ends no   *)
(* line.                                                                   *)
LEMMA NoDedentSkipped ==
  ASSUME NEW p \in Nat, NEW q \in Nat, DedentsStartLines, q \in 0 .. Len(tokens),
         Len(tokens) \in Nat, DOMAIN tokens = 1 .. Len(tokens),
         tokens[p + 1].t \notin {"Newline", "Dedent"},
         \A r \in p + 2 .. q : tokens[r].t # "Newline"
  PROVE  \A r \in p + 1 .. q : tokens[r].t # "Dedent"
<1> DEFINE T == {r \in p + 1 .. q : tokens[r].t = "Dedent"}
<1> SUFFICES ASSUME T # {}
             PROVE  FALSE
  OBVIOUS
<1>1. T \in SUBSET Nat
  OBVIOUS
<1>2. PICK r \in T : \A s \in T : r <= s
  BY <1>1, LeastNatural
<1>3. r \in p + 1 .. q /\ tokens[r].t = "Dedent" /\ r # p + 1 /\ r \in DOMAIN tokens
  BY <1>2
<1>4. r - 1 \in p + 1 .. q /\ r - 1 < r
  BY <1>3
<1>5. tokens[r - 1].t # "Newline"
  <2>1. r - 1 = p + 1 \/ r - 1 \in p + 2 .. q
    BY <1>4
  <2> QED
    BY <2>1
<1>6. tokens[r - 1].t # "Dedent"
  <2>1. r - 1 \notin T
    BY <1>2, <1>4
  <2> QED
    BY <1>4, <2>1
<1> QED
  BY <1>3, <1>5, <1>6 DEF DedentsStartLines

(* next() closes a block only with a Dedent, and opens one with an Indent. *)
LEMMA OpenedByNext ==
  ASSUME Placed, NEW p \in 0 .. Len(tokens)
  PROVE  /\ Opened(p) \in Int /\ Opened(After(p)) \in Int
         /\ KindAt(p) # "Dedent" => Opened(p) <= Opened(After(p))
         /\ KindAt(p) = "Dedent" => Opened(After(p)) = Opened(p) - 1
         /\ KindAt(p) = "Indent" => Opened(After(p)) = Opened(p) + 1
<1>1. Len(tokens) \in Nat /\ p \in Nat /\ p <= Len(tokens)
  BY AfterInText
<1>2. /\ Opened(p) \in Int /\ Opened(p + 1) \in Int
      /\ tokens[p + 1].t = "Indent" => Opened(p + 1) = Opened(p) + 1
      /\ tokens[p + 1].t = "Dedent" => Opened(p + 1) = Opened(p) - 1
      /\ tokens[p + 1].t \notin {"Indent", "Dedent"} => Opened(p + 1) = Opened(p)
  BY <1>1, OpenedByOne
<1>3. CASE p < Len(tokens)
  <2>1. After(p) = p + 1 /\ KindAt(p) = tokens[p + 1].t
    BY <1>3 DEF After, KindAt
  <2> QED
    BY <1>2, <2>1
<1>4. CASE ~(p < Len(tokens))
  <2>1. After(p) = p /\ KindAt(p) = "EOF"
    BY <1>4 DEF After, KindAt
  <2> QED
    BY <1>2, <2>1
<1> QED
  BY <1>3, <1>4

(* Nor do newlines close one.                                              *)
LEMMA OpenedBehindNewlines ==
  ASSUME Placed, NEW q \in pos .. Len(tokens), SkipsNewlines(pos, q)
  PROVE  /\ q \in 0 .. Len(tokens) /\ Opened(pos) \in Int /\ Opened(q) \in Int
         /\ Opened(pos) <= Opened(q)
<1>1. Len(tokens) \in Nat /\ pos \in Nat
  BY AfterInText
<1>2. \A r \in pos + 1 .. q : tokens[r].t = "Newline"
  <2> SUFFICES ASSUME NEW r \in pos + 1 .. q
               PROVE  tokens[r].t = "Newline"
    OBVIOUS
  <2>1. r - 1 \in pos .. q - 1 /\ r - 1 < Len(tokens) /\ (r - 1) + 1 = r
    BY <1>1
  <2>2. KindAt(r - 1) = "Newline"
    BY <2>1 DEF SkipsNewlines
  <2> QED
    BY <2>1, <2>2 DEF KindAt
<1>3. q \in Nat /\ pos <= q /\ q \in 0 .. Len(tokens)
  BY <1>1
<1> QED
  BY <1>1, <1>2, <1>3, NothingClosed

(* What a step has to show.                                                *)
LEMMA LInvKept ==
  ASSUME LInv, PInv', tokens' = tokens, Awaiting(goals'),
         LayoutLost => LayoutLost',
         DedentsStartLines /\ ~LayoutLost /\ ~LayoutLost' /\ Cost(goals) <= Opened(pos)
           => Cost(goals') <= Opened(pos')
  PROVE  LInv'
<1>1. DedentsStartLines' <=> DedentsStartLines
  BY DEF DedentsStartLines
<1>2. Opened(pos)' = Opened(pos')
  BY DEF Opened, TakenAt
<1>3. Awaiting(goals)' <=> Awaiting(goals')
  BY DEF Awaiting
<1>4. Cost(goals)' = Cost(goals')
  BY DEF Cost, LoopsOf, Starting
<1> QED
  BY <1>1, <1>2, <1>3, <1>4 DEF LInv

(* A call.                                                                 *)
LEMMA PredictLoops ==
  ASSUME LInv, Predict
  PROVE  LInv'
<1> DEFINE g == Head(goals)
<1>1. goals # << >> /\ g.do = "rule" /\ g \in Known /\ Height \in Nat
      /\ (Needy(g) => Height >= 1) /\ goals \in Seq(Known)
  BY NextGoal DEF Predict, Doing, LInv, PInv
<1>2. PInv' /\ Awaiting(goals) /\ PInv
  BY PredictKeeps DEF LInv
<1>3. /\ tokens' = tokens /\ pos' = pos /\ goals' = Parsed(g) \o Tail(goals)
      /\ LayoutLost' = LayoutLost
  BY DEF Predict, LayoutLost
<1>4. Awaiting(goals') /\ Cost(goals') <= Cost(goals)
  <2>1. CASE StartsLoop(g)
    <3>1. Parsed(g) = << Rule(g.with), Body(g.with, "Dedent", Height) >>
      BY <2>1 DEF Parsed, Items, StartsLoop
    <3>2. g.with \in ItemRules
      BY <1>1, <2>1 DEF Known, StartsLoop
    <3>3. Rule(g.with) \in Safe
      BY <3>2 DEF Safe, Known, Loops, IsBody, StartsLoop, Needy, NeedyRules, ItemRules,
                  Rule, RuleFrom, RuleWith, Goal, RuleNames, Extras, Plain
    <3>4. Body(g.with, "Dedent", Height) \in Known /\ IsBody(Body(g.with, "Dedent", Height))
      BY <1>1, <3>2 DEF Known, IsBody, ItemRules, Body, Goal, RuleNames, Extras
    <3> QED
      BY <1>1, <1>2, <1>3, <2>1, <3>1, <3>3, <3>4, LoopsTurned
  <2>2. CASE ~StartsLoop(g)
    <3>1. Parsed(g) \in Seq(Known) /\ Entered(Parsed(g))
      BY <1>1, <2>2, ParsedSound DEF Sound
    <3>2. g # Take("Indent")
      BY <1>1 DEF Take
    <3> QED
      BY <1>1, <1>2, <1>3, <2>2, <3>1, <3>2, LoopsPopped
  <2> QED
    BY <2>1, <2>2
<1>5. Cost(goals) \in Int /\ Cost(goals') \in Int /\ Opened(pos) \in Int
  <2>1. goals' \in Seq(Known)
    BY <1>2 DEF PInv
  <2> QED
    BY <1>1, <1>2, <2>1, LoopsFinite, OpenedByNext DEF PInv, Placed
<1> QED
  BY <1>2, <1>3, <1>4, <1>5, LInvKept

(* A goal that is done, with the loops that are left behind it.            *)
LEMMA DoneLoops ==
  ASSUME NEW gs \in Seq(Known), gs # << >>, Awaiting(gs), ~StartsLoop(Head(gs))
  PROVE  /\ Awaiting(Tail(gs)) /\ Cost(gs) \in Int /\ Cost(Tail(gs)) \in Int
         /\ Head(gs) # Take("Indent") => Cost(Tail(gs)) <= Cost(gs)
         /\ Cost(Tail(gs)) <= Cost(gs) + 1
         /\ IsBody(Head(gs)) /\ Head(gs).with = "Dedent" => Cost(Tail(gs)) <= Cost(gs) - 1
<1> DEFINE E == << >>
<1>1. E \in Seq(Known) /\ E = << >> /\ DOMAIN E = {}
  BY EmptySeq
<1>2. Tail(gs) \in Seq(Known) /\ E \o Tail(gs) = Tail(gs)
  BY HeadTailProperties, ConcatEmptySeq
<1>3. Entered(E)
  BY <1>1 DEF Entered
<1>4. Cost(gs) \in Int /\ Cost(Tail(gs)) \in Int
  BY <1>2, LoopsFinite
<1> HIDE DEF E
<1> QED
  BY <1>1, <1>2, <1>3, <1>4, LoopsPopped

(* A token that becomes part of an item: an Indent may start a loop, and   *)
(* no goal is for a Dedent.                                                *)
LEMMA TokenLoops ==
  ASSUME LInv, PInv', TakeToken \/ MakeLeaf
  PROVE  LInv'
<1> DEFINE g == Head(goals)
<1>1. /\ goals # << >> /\ goals \in Seq(Known) /\ g \in Known /\ Awaiting(goals) /\ Placed
      /\ g.do \in {"take", "leaf"} /\ ~StartsLoop(g)
  BY NextGoal DEF TakeToken, MakeLeaf, Doing, LInv, PInv, StartsLoop
<1>2. /\ tokens' = tokens /\ pos' = After(pos) /\ goals' = Tail(goals)
      /\ LayoutLost' = LayoutLost
  BY DEF TakeToken, MakeLeaf, LayoutLost
<1>3. KindAt(pos) = Peek(0)
  BY <1>1 DEF Peek, Placed
<1>4. KindAt(pos) # "Dedent"
  <2>1. g.what # "Dedent"
    BY <1>1 DEF Known, Goal, RuleNames, TokenNames, LeafNames, NodeNames, Plain
  <2>2. CASE TakeToken
    BY <1>3, <2>1, <2>2 DEF TakeToken
  <2>3. CASE MakeLeaf
    BY <1>3, <2>1, <2>3 DEF MakeLeaf, LeafFits, LeafTokens, CompareOps
  <2> QED
    BY <2>2, <2>3
<1>5. g = Take("Indent") => KindAt(pos) = "Indent"
  <2>1. CASE TakeToken
    BY <1>3, <2>1 DEF TakeToken, Take
  <2>2. CASE MakeLeaf
    BY <2>2 DEF MakeLeaf, Doing, Take
  <2> QED
    BY <2>1, <2>2
<1>6. pos \in 0 .. Len(tokens)
  BY <1>1 DEF Placed
<1>7. /\ Opened(pos) \in Int /\ Opened(pos') \in Int /\ Opened(pos) <= Opened(pos')
      /\ g = Take("Indent") => Opened(pos') = Opened(pos) + 1
  BY <1>1, <1>2, <1>4, <1>5, <1>6, OpenedByNext
<1>8. /\ Awaiting(goals') /\ Cost(goals) \in Int /\ Cost(goals') \in Int
      /\ g # Take("Indent") => Cost(goals') <= Cost(goals)
      /\ Cost(goals') <= Cost(goals) + 1
  BY <1>1, <1>2, DoneLoops
<1>9. Cost(goals) <= Opened(pos) => Cost(goals') <= Opened(pos')
  BY <1>7, <1>8
<1> QED
  BY <1>2, <1>8, <1>9, LInvKept

(* A node that is built.                                                   *)
LEMMA NodeLoops ==
  ASSUME LInv, PInv', MakeNode
  PROVE  LInv'
<1>1. /\ goals # << >> /\ goals \in Seq(Known) /\ Awaiting(goals) /\ Placed
      /\ Head(goals).do = "make"
  BY DEF MakeNode, Doing, LInv, PInv
<1>2. ~StartsLoop(Head(goals)) /\ Head(goals) # Take("Indent")
  BY <1>1 DEF StartsLoop, Take
<1>3. tokens' = tokens /\ pos' = pos /\ goals' = Tail(goals) /\ LayoutLost' = LayoutLost
  BY DEF MakeNode, LayoutLost
<1>4. Opened(pos) \in Int
  BY <1>1, OpenedByNext DEF Placed
<1>5. /\ Awaiting(goals') /\ Cost(goals) \in Int /\ Cost(goals') \in Int
      /\ Cost(goals') <= Cost(goals)
  BY <1>1, <1>2, <1>3, DoneLoops
<1>6. Cost(goals) <= Opened(pos) => Cost(goals') <= Opened(pos')
  BY <1>3, <1>4, <1>5
<1> QED
  BY <1>3, <1>5, <1>6, LInvKept

(* A turn of a loop.                                                       *)
LEMMA TurnLoops ==
  ASSUME LInv, PInv', NextItem
  PROVE  LInv'
<1> DEFINE g == Head(goals)
           b == [g EXCEPT !.n = Height]
<1>1. /\ goals # << >> /\ goals \in Seq(Known) /\ g \in Known /\ Awaiting(goals) /\ Placed
      /\ IsBody(g) /\ Height \in Nat
  BY NextGoal DEF NextItem, Doing, LInv, PInv, IsBody
<1>2. PICK q \in pos .. Len(tokens) : SkipsNewlines(pos, q) /\ pos' = q
  BY DEF NextItem
<1>3. /\ Opened(pos) \in Int /\ Opened(pos') \in Int /\ Opened(pos) <= Opened(pos')
  BY <1>1, <1>2, OpenedBehindNewlines
<1>4. /\ tokens' = tokens /\ goals' = << Rule(g.what), b >> \o Tail(goals)
      /\ LayoutLost' = LayoutLost
  BY DEF NextItem, LayoutLost
<1>5. g.what \in ItemRules
  BY <1>1 DEF Known, IsBody
<1>6. Rule(g.what) \in Safe
  BY <1>5 DEF Safe, Known, Loops, IsBody, StartsLoop, Needy, NeedyRules, ItemRules,
              Rule, RuleFrom, RuleWith, Goal, RuleNames, Extras, Plain
<1>7. b \in Known /\ IsBody(b) /\ b.with = g.with
  BY <1>1 DEF Known, Goal, IsBody
<1>8. Awaiting(goals') /\ Cost(goals') <= Cost(goals)
  <2> HIDE DEF b
  <2> QED
    BY <1>1, <1>4, <1>6, <1>7, LoopsTurned
<1>9. Cost(goals) \in Int /\ Cost(goals') \in Int
  <2>1. goals' \in Seq(Known)
    BY DEF PInv
  <2> QED
    BY <1>1, <2>1, LoopsFinite
<1>10. Cost(goals) <= Opened(pos) => Cost(goals') <= Opened(pos')
  BY <1>3, <1>8, <1>9
<1> QED
  BY <1>4, <1>8, <1>10, LInvKept

(* The end of a loop, with the Dedent of its block.                        *)
LEMMA EndLoops ==
  ASSUME LInv, PInv', EndBody
  PROVE  LInv'
<1> DEFINE g == Head(goals)
<1>1. /\ goals # << >> /\ goals \in Seq(Known) /\ Awaiting(goals) /\ Placed /\ IsBody(g)
  BY DEF EndBody, Doing, LInv, PInv, IsBody
<1>2. PICK q \in pos .. Len(tokens) : SkipsNewlines(pos, q) /\ Ends(g, q) /\ pos' = After(q)
  BY DEF EndBody
<1>3. /\ q \in 0 .. Len(tokens) /\ Opened(pos) \in Int /\ Opened(q) \in Int
      /\ Opened(pos) <= Opened(q)
  BY <1>1, <1>2, OpenedBehindNewlines
<1>4. /\ Opened(pos') \in Int
      /\ KindAt(q) # "Dedent" => Opened(q) <= Opened(pos')
      /\ KindAt(q) = "Dedent" => Opened(pos') = Opened(q) - 1
  BY <1>1, <1>2, <1>3, OpenedByNext
<1>5. KindAt(q) = "Dedent" => g.with = "Dedent"
  BY <1>2 DEF Ends
<1>6. tokens' = tokens /\ goals' = Tail(goals) /\ LayoutLost' = LayoutLost
  BY DEF EndBody, LayoutLost
<1>7. ~StartsLoop(g) /\ g # Take("Indent")
  BY <1>1 DEF StartsLoop, IsBody, Take
<1>8. /\ Awaiting(goals') /\ Cost(goals) \in Int /\ Cost(goals') \in Int
      /\ Cost(goals') <= Cost(goals)
      /\ g.with = "Dedent" => Cost(goals') <= Cost(goals) - 1
  BY <1>1, <1>6, <1>7, DoneLoops
<1>9. Cost(goals) <= Opened(pos) => Cost(goals') <= Opened(pos')
  BY <1>3, <1>4, <1>5, <1>8
<1> QED
  BY <1>6, <1>8, <1>9, LInvKept

(* An error that took no Newline or Dedent skips no Dedent.                *)
LEMMA RecoveryClosesNothing ==
  ASSUME Placed, ErrorsPlaced, NEW kind, FailWith(kind)
  PROVE  /\ LayoutLost => LayoutLost'
         /\ Opened(pos) \in Int /\ Opened(pos') \in Int
         /\ DedentsStartLines /\ ~LayoutLost' => Opened(pos) <= Opened(pos')
<1>1. /\ Len(tokens) \in Nat /\ pos \in Nat /\ pos <= Len(tokens)
      /\ DOMAIN tokens = 1 .. Len(tokens) /\ After(pos) \in 0 .. Len(tokens)
  BY AfterInText, LenProperties DEF Placed
<1> DEFINE new == [kind |-> kind, at |-> After(pos) - 1]
<1>2. errors' = Append(errors, new) /\ tokens' = tokens
  BY DEF FailWith
<1>3. /\ Len(errors) \in Nat /\ DOMAIN errors = 1 .. Len(errors)
      /\ DOMAIN errors' = 1 .. Len(errors) + 1
      /\ \A e \in 1 .. Len(errors) : errors'[e] = errors[e]
      /\ errors'[Len(errors) + 1] = new
  BY <1>2, AppendProperties, LenProperties DEF ErrorsPlaced
<1>4. LayoutLost => LayoutLost'
  BY <1>2, <1>3 DEF LayoutLost
<1>5. ~LayoutLost' => tokens[After(pos) - 1 + 1].t \notin {"Newline", "Dedent"}
  BY <1>2, <1>3 DEF LayoutLost
<1>6. PICK q \in 0 .. Len(tokens) : LeavesLine(After(pos), q) /\ pos' = q
  BY DEF FailWith
<1>7. q \in After(pos) .. Len(tokens) /\ q \in Nat
  BY <1>1, <1>6 DEF LeavesLine
<1>8. \A r \in After(pos) + 1 .. q : tokens[r].t # "Newline"
  <2> SUFFICES ASSUME NEW r \in After(pos) + 1 .. q
               PROVE  tokens[r].t # "Newline"
    OBVIOUS
  <2>1. r - 1 \in After(pos) .. q - 1 /\ r - 1 < Len(tokens) /\ (r - 1) + 1 = r
    BY <1>1, <1>7
  <2>2. KindAt(r - 1) # "Newline"
    BY <1>6, <2>1 DEF LeavesLine
  <2> QED
    BY <2>1, <2>2 DEF KindAt
<1>9. Opened(pos) \in Int /\ Opened(q) \in Int
  BY <1>1, <1>6, OpenedByNext
<1>10. ASSUME DedentsStartLines, ~LayoutLost'
       PROVE  Opened(pos) <= Opened(q)
  <2>1. CASE pos < Len(tokens)
    <3>1. After(pos) = pos + 1 /\ After(pos) - 1 + 1 = pos + 1
      BY <1>1, <2>1 DEF After
    <3>2. tokens[pos + 1].t \notin {"Newline", "Dedent"}
      BY <1>5, <1>10, <3>1
    <3>3. \A r \in pos + 2 .. q : tokens[r].t # "Newline"
      BY <1>1, <1>8, <3>1
    <3>4. \A r \in pos + 1 .. q : tokens[r].t # "Dedent"
      BY <1>1, <1>6, <1>7, <1>10, <3>2, <3>3, NoDedentSkipped
    <3>5. pos <= q
      BY <1>1, <1>7, <3>1
    <3> QED
      BY <1>1, <1>7, <3>4, <3>5, NothingClosed
  <2>2. CASE ~(pos < Len(tokens))
    <3>1. q = pos
      BY <1>1, <1>7, <2>2 DEF After
    <3> QED
      BY <1>9, <3>1
  <2> QED
    BY <2>1, <2>2
<1> QED
  BY <1>4, <1>6, <1>9, <1>10

(* An error leaves the loop that catches it and those around it.           *)
LEMMA FailLoops ==
  ASSUME LInv, PInv', goals # << >>, NEW kind, FailWith(kind)
  PROVE  LInv'
<1>1. goals \in Seq(Known) /\ Awaiting(goals) /\ Placed /\ ErrorsPlaced /\ PInv
  BY DEF LInv, PInv
<1>2. tokens' = tokens /\ goals' = SubSeq(goals, Catcher, Len(goals))
  BY DEF FailWith
<1>3. Catcher \in DOMAIN goals /\ IsBody(goals[Catcher])
  BY <1>1, CatcherThere DEF PInv, Waiting
<1>4. Awaiting(goals') /\ Cost(goals') <= Cost(goals)
  BY <1>1, <1>2, <1>3, LoopsCaught
<1>5. Cost(goals) \in Int /\ Cost(goals') \in Int
  <2>1. goals' \in Seq(Known)
    BY DEF PInv
  <2> QED
    BY <1>1, <2>1, LoopsFinite
<1>6. /\ LayoutLost => LayoutLost'
      /\ Opened(pos) \in Int /\ Opened(pos') \in Int
      /\ DedentsStartLines /\ ~LayoutLost' => Opened(pos) <= Opened(pos')
  BY <1>1, RecoveryClosesNothing
<1>7. DedentsStartLines /\ ~LayoutLost' /\ Cost(goals) <= Opened(pos)
        => Cost(goals') <= Opened(pos')
  BY <1>4, <1>5, <1>6
<1> QED
  BY <1>2, <1>4, <1>6, <1>7, LInvKept

(* At the start the program's own loop runs, which is no block's.          *)
LEMMA LInvStarts == Init => LInv
<1> SUFFICES ASSUME Init
             PROVE  LInv
  OBVIOUS
<1>1. PInv
  BY PInvStarts
<1>2. /\ goals = << Body("expression", "EOF", 0) >> /\ Len(goals) = 1 /\ DOMAIN goals = {1}
      /\ goals[1] = Body("expression", "EOF", 0) /\ Head(goals) = goals[1] /\ pos = 0
  BY DEF Init
<1>3. IsBody(goals[1]) /\ goals[1].with = "EOF" /\ ~StartsLoop(goals[1])
  BY <1>2 DEF IsBody, StartsLoop, Body
<1>4. Awaiting(goals)
  BY <1>2, <1>3 DEF Awaiting
<1>5. LoopsOf(goals) = {} /\ ~Starting(goals)
  BY <1>2, <1>3 DEF LoopsOf, Starting
<1>6. Cost(goals) = 0
  BY <1>5, FS_EmptySet DEF Cost
<1>7. \A t : TakenAt(0, t) = {}
  BY DEF TakenAt
<1>8. Opened(pos) = 0
  BY <1>2, <1>7, FS_EmptySet DEF Opened
<1> QED
  BY <1>1, <1>4, <1>6, <1>8 DEF LInv

(* Every step keeps the loops to their blocks.                             *)
LEMMA LInvStep == LInv /\ [Next]_vars => LInv'
<1> SUFFICES ASSUME LInv, [Next]_vars
             PROVE  LInv'
  OBVIOUS
<1>1. PInv'
  BY PInvStep DEF LInv
<1>2. CASE Predict
  BY <1>2, PredictLoops
<1>3. CASE TakeToken \/ MakeLeaf
  BY <1>1, <1>3, TokenLoops
<1>4. CASE MakeNode
  BY <1>1, <1>4, NodeLoops
<1>5. CASE NextItem
  BY <1>1, <1>5, TurnLoops
<1>6. CASE EndBody
  BY <1>1, <1>6, EndLoops
<1>7. CASE Unexpected \/ Invalid
  <2>1. goals # << >> /\ \E kind : FailWith(kind)
    BY <1>7 DEF Unexpected, Invalid, Doing
  <2> QED
    BY <1>1, <2>1, FailLoops
<1>8. CASE Panic \/ Ended \/ UNCHANGED vars
  <2>1. tokens' = tokens /\ pos' = pos /\ goals' = goals /\ LayoutLost' = LayoutLost
    BY <1>8 DEF Panic, Ended, vars, LayoutLost
  <2>2. Awaiting(goals') /\ (Cost(goals) <= Opened(pos) => Cost(goals') <= Opened(pos'))
    BY <2>1 DEF LInv
  <2> QED
    BY <1>1, <2>1, <2>2, LInvKept
<1> QED
  BY <1>2, <1>3, <1>4, <1>5, <1>6, <1>7, <1>8 DEF Next

(* However many errors a text has and whatever they broke off, each loop   *)
(* over a block that runs is in the block: it took an Indent of its own    *)
(* whose Dedent is to come.  The text starts each Dedent on a line of its  *)
(* own, and no error took a Newline or a Dedent.                           *)
THEOREM LoopsAlwaysInBlocks == Spec => []LoopsInBlocks
<1>1. LInv => LoopsInBlocks
  <2> SUFFICES ASSUME LInv, DedentsStartLines, ~LayoutLost
               PROVE  Cardinality(BlockLoops)
                        <= Cardinality(Taken("Indent")) - Cardinality(Taken("Dedent"))
    BY DEF LoopsInBlocks
  <2>1. Cost(goals) <= Opened(pos)
    BY DEF LInv
  <2>2. BlockLoops = LoopsOf(goals)
    BY DEF BlockLoops, LoopsOf, Bodies, IsBody
  <2>3. /\ Opened(pos) = Cardinality(Taken("Indent")) - Cardinality(Taken("Dedent"))
        /\ Opened(pos) \in Int
    <3>1. Opened(pos) \in Int
      BY OpenedByNext DEF LInv, PInv, Placed
    <3> QED
      BY <3>1 DEF Opened, Taken, TakenAt
  <2>4. Cardinality(LoopsOf(goals)) \in Nat /\ Cost(goals) \in Int
    BY LoopsFinite DEF LInv, PInv
  <2>5. Cardinality(LoopsOf(goals)) <= Cost(goals)
    BY <2>4 DEF Cost
  <2> HIDE DEF LoopsOf, Opened
  <2> QED
    BY <2>1, <2>2, <2>3, <2>4, <2>5
<1> QED
  BY <1>1, LInvStarts, LInvStep, PTL DEF Spec
=============================================================================
