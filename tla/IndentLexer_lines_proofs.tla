----------------------- MODULE IndentLexer_lines_proofs -----------------------
(***************************************************************************)
(* What the lexer hands over and which indents it keeps open, against the  *)
(* text it has read, for every set of texts.                               *)
(***************************************************************************)
EXTENDS IndentLexer_proofs, Recursion

(* The same as StartsLine, Shown and TokensKept, of any text r and any     *)
(* tokens ts.                                                              *)
StartsIn(r, p) ==
  \A q \in 1 .. p - 1 :
    (\A k \in q .. p - 1 : r[k].t # "newline") => r[q].t \in IndentKinds

ShownIn(r) ==
  {p \in DOMAIN r : r[p].t \notin IndentKinds /\ ~(r[p].t = "newline" /\ StartsIn(r, p))}

Matches(S, T, R) ==
  /\ Cardinality(T) = Cardinality(S)
  /\ \A p \in S : \A i \in T : Rank(S, p) = Rank(T, i) => <<p, i>> \in R

Stands(r, ts) ==
  {x \in (DOMAIN r) \X (DOMAIN ts) : StandsFor(ts[x[2]], r[x[1]])}

HandedOver(r, ts) == Matches(ShownIn(r), Handed(ts), Stands(r, ts))

(* The places of a text or of tokens.                                      *)
PlaceSets == {S \in SUBSET Nat : IsFiniteSet(S)}

(* A place behind all others is the last, and leaves their ranks alone.    *)
LEMMA RankGrows ==
  ASSUME NEW S \in PlaceSets, NEW a \in Nat, \A p \in S : p < a
  PROVE  /\ S \cup {a} \in PlaceSets
         /\ Cardinality(S) \in Nat
         /\ Cardinality(S \cup {a}) = Cardinality(S) + 1
         /\ Rank(S \cup {a}, a) = Cardinality(S) + 1
         /\ \A p \in S : /\ Rank(S \cup {a}, p) = Rank(S, p)
                         /\ Rank(S, p) \in Nat
                         /\ Rank(S, p) <= Cardinality(S)
<1>1. IsFiniteSet(S) /\ S \subseteq Nat /\ a \notin S
  BY DEF PlaceSets
<1>2. Cardinality(S) \in Nat
  BY <1>1, FS_CardinalityType
<1>3. IsFiniteSet(S \cup {a}) /\ Cardinality(S \cup {a}) = Cardinality(S) + 1
  BY <1>1, FS_AddElement
<1>4. {q \in S \cup {a} : q <= a} = S \cup {a}
  <2>1. \A q \in S \cup {a} : q <= a
    BY <1>1
  <2> QED
    BY <2>1
<1>5. ASSUME NEW p \in S
      PROVE  /\ Rank(S \cup {a}, p) = Rank(S, p)
             /\ Rank(S, p) \in Nat
             /\ Rank(S, p) <= Cardinality(S)
  <2> DEFINE U == {q \in S : q <= p}
  <2>1. {q \in S \cup {a} : q <= p} = U
    BY <1>1
  <2>2. U \in SUBSET S
    OBVIOUS
  <2> HIDE DEF U
  <2>3. IsFiniteSet(U) /\ Cardinality(U) <= Cardinality(S)
    BY <1>1, <2>2, FS_Subset
  <2>4. Cardinality(U) \in Nat
    BY <2>3, FS_CardinalityType
  <2> QED
    BY <2>1, <2>3, <2>4 DEF Rank, U
<1> QED
  BY <1>1, <1>2, <1>3, <1>4, <1>5 DEF Rank, PlaceSets

(* A place of the text and one of the tokens, both behind all others.      *)
LEMMA MatchGrows ==
  ASSUME NEW S \in PlaceSets, NEW T \in PlaceSets, NEW a \in Nat, NEW b \in Nat,
         \A p \in S : p < a, \A i \in T : i < b,
         NEW R, NEW Q, Matches(S, T, R), <<a, b>> \in Q,
         \A p \in S : \A i \in T : <<p, i>> \in R => <<p, i>> \in Q
  PROVE  Matches(S \cup {a}, T \cup {b}, Q)
<1> DEFINE n == Cardinality(S)
<1>1. /\ n \in Nat
      /\ Cardinality(S \cup {a}) = n + 1
      /\ Rank(S \cup {a}, a) = n + 1
      /\ \A p \in S : /\ Rank(S \cup {a}, p) = Rank(S, p)
                      /\ Rank(S, p) \in Nat
                      /\ Rank(S, p) <= n
  BY RankGrows
<1>2. Cardinality(T) = n
  BY DEF Matches
<1>3. /\ Cardinality(T \cup {b}) = n + 1
      /\ Rank(T \cup {b}, b) = n + 1
      /\ \A i \in T : /\ Rank(T \cup {b}, i) = Rank(T, i)
                      /\ Rank(T, i) \in Nat
                      /\ Rank(T, i) <= n
  BY <1>2, RankGrows
<1> HIDE DEF n
<1>4. ASSUME NEW p \in S \cup {a}, NEW i \in T \cup {b},
             Rank(S \cup {a}, p) = Rank(T \cup {b}, i)
      PROVE  <<p, i>> \in Q
  <2>1. CASE p \in S /\ i \in T
    BY <1>1, <1>3, <1>4, <2>1 DEF Matches
  <2>2. CASE p \in S /\ i = b
    <3>1. Rank(S, p) = n + 1
      BY <1>1, <1>3, <1>4, <2>2
    <3> QED
      BY <1>1, <2>2, <3>1
  <2>3. CASE p = a /\ i \in T
    <3>1. Rank(T, i) = n + 1
      BY <1>1, <1>3, <1>4, <2>3
    <3> QED
      BY <1>1, <1>3, <2>3, <3>1
  <2>4. CASE p = a /\ i = b
    BY <2>4
  <2> QED
    BY <2>1, <2>2, <2>3, <2>4
<1> QED
  BY <1>1, <1>3, <1>4 DEF Matches

-----------------------------------------------------------------------------
(* One more lexeme.                                                        *)

(* It leaves the text before it as it was.                                 *)
LEMMA ReadGrows ==
  ASSUME NEW r \in Seq(Lexeme), NEW x \in Lexeme
  PROVE  /\ Len(r) \in Nat
         /\ DOMAIN r = 1 .. Len(r)
         /\ Append(r, x) \in Seq(Lexeme)
         /\ Len(Append(r, x)) = Len(r) + 1
         /\ DOMAIN Append(r, x) = (1 .. Len(r)) \cup {Len(r) + 1}
         /\ \A p \in 1 .. Len(r) : Append(r, x)[p] = r[p]
         /\ Append(r, x)[Len(r) + 1] = x
<1> DEFINE s == Append(r, x)
<1>1. /\ Len(r) \in Nat
      /\ DOMAIN r = 1 .. Len(r)
      /\ s \in Seq(Lexeme)
      /\ Len(s) = Len(r) + 1
      /\ \A p \in 1 .. Len(r) : s[p] = r[p]
      /\ s[Len(r) + 1] = x
  BY AppendProperties, LenProperties
<1>2. DOMAIN s = 1 .. Len(r) + 1
  BY <1>1, LenProperties
<1>3. 1 .. Len(r) + 1 = (1 .. Len(r)) \cup {Len(r) + 1}
  BY <1>1
<1> QED
  BY <1>1, <1>2, <1>3

(* Nor does it move the starts of lines; whether the next one starts a     *)
(* line is up to it.                                                       *)
LEMMA StartsGrow ==
  ASSUME NEW r \in Seq(Lexeme), NEW x \in Lexeme
  PROVE  /\ \A p \in 1 .. Len(r) + 1 : StartsIn(Append(r, x), p) <=> StartsIn(r, p)
         /\ StartsIn(Append(r, x), Len(r) + 2) <=>
              x.t = "newline" \/ (x.t \in IndentKinds /\ StartsIn(r, Len(r) + 1))
<1> DEFINE s == Append(r, x)
           n == Len(r)
<1>1. /\ n \in Nat
      /\ \A p \in 1 .. n : s[p] = r[p]
      /\ s[n + 1] = x
  BY ReadGrows
<1> HIDE DEF s, n
<1>2. ASSUME NEW p \in 1 .. n + 1
      PROVE  StartsIn(s, p) <=> StartsIn(r, p)
  <2>1. \A q \in 1 .. p - 1 : s[q] = r[q] /\ \A k \in q .. p - 1 : s[k] = r[k]
    <3>1. \A q \in 1 .. p - 1 : q \in 1 .. n /\ \A k \in q .. p - 1 : k \in 1 .. n
      BY <1>1
    <3> QED
      BY <1>1, <3>1
  <2> QED
    BY <2>1 DEF StartsIn
<1>3. CASE x.t = "newline"
  <2>1. \A q \in 1 .. n + 1 : n + 1 \in q .. n + 1
    BY <1>1
  <2>2. (n + 2) - 1 = n + 1
    BY <1>1
  <2>3. StartsIn(s, n + 2)
    BY <1>1, <1>3, <2>1, <2>2 DEF StartsIn
  <2> QED
    BY <1>2, <1>3, <2>3 DEF s, n
<1>4. CASE x.t # "newline"
  <2>1. StartsIn(s, n + 2) <=>
          \A q \in 1 .. n + 1 :
            (\A k \in q .. n + 1 : s[k].t # "newline") => s[q].t \in IndentKinds
    <3>1. (n + 2) - 1 = n + 1
      BY <1>1
    <3> QED
      BY <3>1 DEF StartsIn
  <2>2. StartsIn(r, n + 1) <=>
          \A q \in 1 .. n :
            (\A k \in q .. n : r[k].t # "newline") => r[q].t \in IndentKinds
    <3>1. (n + 1) - 1 = n
      BY <1>1
    <3> QED
      BY <3>1 DEF StartsIn
  <2>3. \A q \in 1 .. n :
          (\A k \in q .. n + 1 : s[k].t # "newline") <=> (\A k \in q .. n : r[k].t # "newline")
    <3>1. \A q \in 1 .. n : \A k \in q .. n + 1 : k \in q .. n \/ k = n + 1
      BY <1>1
    <3>2. \A q \in 1 .. n : \A k \in q .. n : k \in 1 .. n /\ k \in q .. n + 1
      BY <1>1
    <3> QED
      BY <1>1, <1>4, <3>1, <3>2
  <2>4. (\A k \in n + 1 .. n + 1 : s[k].t # "newline")
    BY <1>1, <1>4
  <2>5. \A q \in 1 .. n + 1 : q \in 1 .. n \/ q = n + 1
    BY <1>1
  <2>6. \A q \in 1 .. n : q \in 1 .. n + 1 /\ s[q] = r[q]
    BY <1>1
  <2>7. n + 1 \in 1 .. n + 1
    BY <1>1
  <2>8. StartsIn(s, n + 2) => x.t \in IndentKinds /\ StartsIn(r, n + 1)
    <3> SUFFICES ASSUME StartsIn(s, n + 2) PROVE x.t \in IndentKinds /\ StartsIn(r, n + 1)
      OBVIOUS
    <3>1. s[n + 1].t \in IndentKinds
      BY <2>1, <2>4, <2>7
    <3>2. ASSUME NEW q \in 1 .. n, \A k \in q .. n : r[k].t # "newline"
          PROVE  r[q].t \in IndentKinds
      BY <2>1, <2>3, <2>6, <3>2
    <3> QED
      BY <1>1, <2>2, <3>1, <3>2
  <2>9. x.t \in IndentKinds /\ StartsIn(r, n + 1) => StartsIn(s, n + 2)
    <3> SUFFICES ASSUME x.t \in IndentKinds, StartsIn(r, n + 1) PROVE StartsIn(s, n + 2)
      OBVIOUS
    <3>1. ASSUME NEW q \in 1 .. n + 1, \A k \in q .. n + 1 : s[k].t # "newline"
          PROVE  s[q].t \in IndentKinds
      <4>1. CASE q = n + 1
        BY <1>1, <4>1
      <4>2. CASE q \in 1 .. n
        BY <2>2, <2>3, <2>6, <3>1, <4>2
      <4> QED
        BY <2>5, <4>1, <4>2
    <3> QED
      BY <2>1, <3>1
  <2> QED
    BY <1>2, <1>4, <2>8, <2>9 DEF s, n
<1> QED
  BY <1>3, <1>4

(* What is to be seen of the text is the same, and the lexeme itself       *)
(* unless it is blank or ends an empty line.                               *)
LEMMA ShownGrows ==
  ASSUME NEW r \in Seq(Lexeme), NEW x \in Lexeme
  PROVE  /\ ShownIn(r) \in PlaceSets
         /\ \A p \in ShownIn(r) : p \in 1 .. Len(r)
         /\ ShownIn(Append(r, x)) =
              IF x.t \in IndentKinds \/ (x.t = "newline" /\ StartsIn(r, Len(r) + 1))
              THEN ShownIn(r) ELSE ShownIn(r) \cup {Len(r) + 1}
<1> DEFINE s == Append(r, x)
           n == Len(r)
           Hidden == x.t \in IndentKinds \/ (x.t = "newline" /\ StartsIn(r, n + 1))
<1>1. /\ n \in Nat
      /\ DOMAIN r = 1 .. n
      /\ DOMAIN s = (1 .. n) \cup {n + 1}
      /\ \A p \in 1 .. n : s[p] = r[p]
      /\ s[n + 1] = x
  BY ReadGrows
<1>2. IsFiniteSet(1 .. n) /\ 1 .. n \subseteq Nat
  BY <1>1, FS_Interval
<1>3. ShownIn(r) \in SUBSET (1 .. n)
  BY <1>1 DEF ShownIn
<1>4. ShownIn(r) \in PlaceSets
  BY <1>2, <1>3, FS_Subset DEF PlaceSets
<1>5. \A p \in 1 .. n : p \in 1 .. n + 1 /\ p # n + 1
  BY <1>1
<1>6. n + 1 \in 1 .. n + 1
  BY <1>1
<1>7. \A p \in 1 .. n + 1 : StartsIn(s, p) <=> StartsIn(r, p)
  BY StartsGrow
<1> HIDE DEF s, n
<1>8. \A p \in 1 .. n : p \in ShownIn(s) <=> p \in ShownIn(r)
  BY <1>1, <1>5, <1>7 DEF ShownIn
<1>9. n + 1 \in ShownIn(s) <=> ~Hidden
  BY <1>1, <1>6, <1>7 DEF ShownIn
<1>10. ShownIn(s) \subseteq (1 .. n) \cup {n + 1}
  BY <1>1 DEF ShownIn
<1>11. ShownIn(s) = IF Hidden THEN ShownIn(r) ELSE ShownIn(r) \cup {n + 1}
  <2> HIDE DEF Hidden
  <2>1. n + 1 \notin ShownIn(r)
    BY <1>3, <1>5
  <2>2. ASSUME Hidden PROVE ShownIn(s) = ShownIn(r)
    BY <1>3, <1>8, <1>9, <1>10, <2>2
  <2>3. ASSUME ~Hidden PROVE ShownIn(s) = ShownIn(r) \cup {n + 1}
    <3>1. \A p \in ShownIn(s) : p \in ShownIn(r) \cup {n + 1}
      BY <1>8, <1>10
    <3>2. \A p \in ShownIn(r) \cup {n + 1} : p \in ShownIn(s)
      BY <1>3, <1>8, <1>9, <2>3
    <3> QED
      BY <3>1, <3>2
  <2> QED
    BY <2>2, <2>3
<1> QED
  BY <1>3, <1>4, <1>11 DEF s, n

(* The places of a sequence whose members are no Indents or Dedents.       *)
LEMMA HandedPlaces ==
  ASSUME NEW ts \in Seq(Given)
  PROVE  /\ Handed(ts) \in PlaceSets
         /\ Handed(ts) \subseteq 1 .. Len(ts)
         /\ Len(ts) \in Nat
<1>1. Len(ts) \in Nat /\ DOMAIN ts = 1 .. Len(ts)
  BY LenProperties
<1>2. IsFiniteSet(1 .. Len(ts)) /\ 1 .. Len(ts) \subseteq Nat
  BY <1>1, FS_Interval
<1>3. Handed(ts) \in SUBSET (1 .. Len(ts))
  BY <1>1 DEF Handed
<1> QED
  BY <1>1, <1>2, <1>3, FS_Subset DEF PlaceSets

(* Indents or Dedents and a token behind them add the place of the token.  *)
LEMMA HandedGrows ==
  ASSUME NEW ts \in Seq(Given), NEW vs \in Seq(Given), NEW t \in Given,
         \A i \in DOMAIN vs : vs[i] \in Margins, t \notin Margins
  PROVE  LET more == ts \o Append(vs, t)
             b    == Len(ts) + Len(vs) + 1
         IN  /\ b \in Nat
             /\ b \in DOMAIN more
             /\ more[b] = t
             /\ Handed(more) = Handed(ts) \cup {b}
             /\ \A i \in Handed(ts) :
                  i < b /\ i \in DOMAIN more /\ i \in DOMAIN ts /\ more[i] = ts[i]
<1> DEFINE m == Len(ts)
           k == Len(vs)
           us == Append(vs, t)
           more == ts \o us
<1>1. m \in Nat /\ k \in Nat /\ DOMAIN ts = 1 .. m /\ DOMAIN vs = 1 .. k
  BY LenProperties
<1>2. /\ us \in Seq(Given)
      /\ Len(us) = k + 1
      /\ \A i \in 1 .. k : us[i] = vs[i]
      /\ us[k + 1] = t
  BY AppendProperties
<1>3. /\ more \in Seq(Given)
      /\ Len(more) = m + (k + 1)
      /\ \A i \in 1 .. m + (k + 1) : more[i] = IF i <= m THEN ts[i] ELSE us[i - m]
  <2> HIDE DEF us
  <2>1. /\ ts \o us \in Seq(Given)
        /\ Len(ts \o us) = Len(ts) + Len(us)
        /\ \A i \in 1 .. Len(ts) + Len(us) :
             (ts \o us)[i] = IF i <= Len(ts) THEN ts[i] ELSE us[i - Len(ts)]
    BY <1>2, ConcatProperties
  <2> HIDE DEF more, m, k
  <2>2. Len(ts) = m /\ more = ts \o us
    BY DEF m, more
  <2> QED
    BY <1>2, <2>1, <2>2
<1>4. DOMAIN more = 1 .. m + k + 1
  <2>1. DOMAIN more = 1 .. m + (k + 1)
    BY <1>3, LenProperties
  <2> QED
    BY <1>1, <2>1
<1> HIDE DEF m, k, us, more
<1>5. \A i \in 1 .. m : i \in 1 .. m + k + 1 /\ more[i] = ts[i]
  <2>1. \A i \in 1 .. m : i \in 1 .. m + (k + 1) /\ i <= m /\ i \in 1 .. m + k + 1
    BY <1>1
  <2> QED
    BY <1>3, <2>1
<1>6. \A i \in m + 1 .. m + k : more[i] \in Margins
  <2> SUFFICES ASSUME NEW i \in m + 1 .. m + k PROVE more[i] \in Margins
    OBVIOUS
  <2>1. i \in 1 .. m + (k + 1) /\ ~(i <= m) /\ i - m \in 1 .. k
    BY <1>1
  <2>2. more[i] = vs[i - m]
    BY <1>2, <1>3, <2>1
  <2> QED
    BY <1>1, <2>1, <2>2
<1>7. more[m + k + 1] = t
  <2>1. m + k + 1 \in 1 .. m + (k + 1) /\ ~(m + k + 1 <= m) /\ (m + k + 1) - m = k + 1
    BY <1>1
  <2> QED
    BY <1>2, <1>3, <2>1
<1>8. \A i \in 1 .. m + k + 1 : i \in 1 .. m \/ i \in m + 1 .. m + k \/ i = m + k + 1
  BY <1>1
<1>9. m + k + 1 \in 1 .. m + k + 1 /\ m + k + 1 \in Nat
  BY <1>1
<1>10. \A i \in 1 .. m : i < m + k + 1
  BY <1>1
<1>11. Handed(more) = Handed(ts) \cup {m + k + 1}
  <2>1. \A i \in 1 .. m : i \in Handed(more) <=> i \in Handed(ts)
    BY <1>1, <1>4, <1>5 DEF Handed
  <2>2. \A i \in m + 1 .. m + k : i \notin Handed(more)
    BY <1>6 DEF Handed, Margins
  <2>3. m + k + 1 \in Handed(more)
    BY <1>4, <1>7, <1>9 DEF Handed, Margins
  <2>4. Handed(more) \subseteq 1 .. m + k + 1 /\ Handed(ts) \subseteq 1 .. m
    BY <1>1, <1>4 DEF Handed
  <2> QED
    BY <1>8, <2>1, <2>2, <2>3, <2>4
<1>12. Handed(ts) \subseteq 1 .. m
  BY <1>1 DEF Handed
<1> QED
  BY <1>1, <1>4, <1>5, <1>7, <1>9, <1>10, <1>11, <1>12 DEF m, k, us, more

(* A lexeme that is to be seen, and its token.                             *)
LEMMA KeptGrows ==
  ASSUME NEW r \in Seq(Lexeme), NEW ts \in Seq(Given), HandedOver(r, ts),
         NEW x \in Lexeme, x.t \notin IndentKinds,
         x.t = "newline" => ~StartsIn(r, Len(r) + 1),
         NEW vs \in Seq(Given), \A i \in DOMAIN vs : vs[i] \in Margins,
         NEW t \in Given, t \notin Margins, StandsFor(t, x)
  PROVE  HandedOver(Append(r, x), ts \o Append(vs, t))
<1> DEFINE s == Append(r, x)
           more == ts \o Append(vs, t)
           a == Len(r) + 1
           b == Len(ts) + Len(vs) + 1
           S == ShownIn(r)
           T == Handed(ts)
<1>1. /\ S \in PlaceSets /\ T \in PlaceSets
      /\ ShownIn(s) = S \cup {a}
      /\ \A p \in S : p \in 1 .. Len(r)
  BY ShownGrows, HandedPlaces
<1>2. /\ Len(r) \in Nat
      /\ DOMAIN r = 1 .. Len(r)
      /\ DOMAIN s = (1 .. Len(r)) \cup {a}
      /\ \A p \in 1 .. Len(r) : s[p] = r[p]
      /\ s[a] = x
  BY ReadGrows
<1>3. /\ b \in Nat /\ b \in DOMAIN more /\ more[b] = t
      /\ Handed(more) = T \cup {b}
      /\ \A i \in T : i < b /\ i \in DOMAIN more /\ i \in DOMAIN ts /\ more[i] = ts[i]
  BY HandedGrows
<1>4. a \in Nat /\ \A p \in S : p < a
  BY <1>1, <1>2
<1> HIDE DEF s, more, a, b, S, T
<1>5. <<a, b>> \in Stands(s, more)
  BY <1>2, <1>3 DEF Stands
<1>6. ASSUME NEW p \in S, NEW i \in T, <<p, i>> \in Stands(r, ts)
      PROVE  <<p, i>> \in Stands(s, more)
  <2>1. StandsFor(ts[i], r[p])
    BY <1>6 DEF Stands
  <2>2. p \in DOMAIN s /\ i \in DOMAIN more /\ s[p] = r[p] /\ more[i] = ts[i]
    BY <1>1, <1>2, <1>3
  <2> QED
    BY <2>1, <2>2 DEF Stands
<1>7. Matches(S, T, Stands(r, ts))
  BY DEF HandedOver, S, T
<1>8. Matches(S \cup {a}, T \cup {b}, Stands(s, more))
  BY <1>1, <1>3, <1>4, <1>5, <1>6, <1>7, MatchGrows
<1> QED
  BY <1>1, <1>3, <1>8 DEF HandedOver, s, more

(* A lexeme that is not.                                                   *)
LEMMA KeptSkips ==
  ASSUME NEW r \in Seq(Lexeme), NEW ts \in Seq(Given), HandedOver(r, ts),
         NEW x \in Lexeme,
         x.t \in IndentKinds \/ (x.t = "newline" /\ StartsIn(r, Len(r) + 1))
  PROVE  HandedOver(Append(r, x), ts)
<1> DEFINE s == Append(r, x)
           S == ShownIn(r)
<1>1. ShownIn(s) = S /\ \A p \in S : p \in 1 .. Len(r)
  BY ShownGrows
<1>2. /\ DOMAIN r = 1 .. Len(r)
      /\ DOMAIN s = (1 .. Len(r)) \cup {Len(r) + 1}
      /\ \A p \in 1 .. Len(r) : s[p] = r[p]
  BY ReadGrows
<1> HIDE DEF s, S
<1>3. ASSUME NEW p \in S, NEW i \in Handed(ts), <<p, i>> \in Stands(r, ts)
      PROVE  <<p, i>> \in Stands(s, ts)
  BY <1>1, <1>2, <1>3 DEF Stands
<1>4. Matches(S, Handed(ts), Stands(r, ts))
  BY DEF HandedOver, S
<1> QED
  BY <1>1, <1>3, <1>4 DEF HandedOver, Matches, s

-----------------------------------------------------------------------------
(* What every step keeps.                                                  *)

(* Something is left in the line being read.                               *)
AheadIn(i) ==
  \E p \in DOMAIN i : /\ i[p].t \notin {"newline", "spaces", "tabs"}
                      /\ \A q \in 1 .. p : i[q].t # "newline"

Starting == StartsIn(read, Len(read) + 1)

(* The lexer knows that it is in a line.  It takes a line for a new one    *)
(* behind a stray brace that starts it, but then something follows there.  *)
LineKnown ==
  ~hasError => /\ ~atLineStart => ~Starting
               /\ atLineStart /\ ~Starting => AheadIn(input)

KInv == LInv /\ LineKnown /\ (~hasError => HandedOver(read, out \o pending))

(* The same, of the state.                                                 *)
LEMMA KeptIs == LInv => (TokensKept <=> (~hasError => HandedOver(read, out \o pending)))
<1> SUFFICES ASSUME LInv
             PROVE  TokensKept <=> (~hasError => HandedOver(read, out \o pending))
  OBVIOUS
<1> DEFINE ts == out \o pending
<1>1. ShownIn(read) = Shown
  BY DEF ShownIn, Shown, EndsEmptyLine, StartsLine, StartsIn, SameLine
<1>2. Shown \subseteq DOMAIN read /\ Handed(ts) \subseteq DOMAIN ts
  BY DEF Shown, Handed
<1>3. \A p \in Shown : \A i \in Handed(ts) :
        <<p, i>> \in Stands(read, ts) <=> StandsFor(ts[i], read[p])
  BY <1>2 DEF Stands
<1>4. TokensKept <=>
        (~hasError =>
           /\ Cardinality(Handed(ts)) = Cardinality(Shown)
           /\ \A p \in Shown : \A i \in Handed(ts) :
                Rank(Shown, p) = Rank(Handed(ts), i) => StandsFor(ts[i], read[p]))
  BY DEF TokensKept
<1>5. HandedOver(read, ts) <=>
           /\ Cardinality(Handed(ts)) = Cardinality(Shown)
           /\ \A p \in Shown : \A i \in Handed(ts) :
                Rank(Shown, p) = Rank(Handed(ts), i) => <<p, i>> \in Stands(read, ts)
  BY <1>1 DEF HandedOver, Matches
<1> HIDE DEF ts
<1>6. HandedOver(read, ts) <=>
           /\ Cardinality(Handed(ts)) = Cardinality(Shown)
           /\ \A p \in Shown : \A i \in Handed(ts) :
                Rank(Shown, p) = Rank(Handed(ts), i) => StandsFor(ts[i], read[p])
  BY <1>3, <1>5
<1> QED
  BY <1>4, <1>6 DEF ts

(* A newline in the line being read, or blanks, leave something there.     *)
LEMMA AheadOn ==
  ASSUME TypeOK, NEW kinds, Reading(kinds), AheadIn(input)
  PROVE  /\ Head(input).t # "newline"
         /\ Head(input).t \in IndentKinds => AheadIn(Tail(input))
<1> DEFINE n == Len(input)
           rest == Tail(input)
<1>1. /\ n \in Nat \ {0}
      /\ DOMAIN input = 1 .. n
      /\ Head(input) = input[1]
      /\ DOMAIN rest = 1 .. n - 1
      /\ \A i \in 1 .. n - 1 : rest[i] = input[i + 1]
  <2>1. input \in Seq(Lexeme) /\ input # << >>
    BY DEF TypeOK, Reading
  <2>2. n \in Nat \ {0} /\ DOMAIN input = 1 .. n
    BY <2>1, LenProperties, EmptySeq
  <2>3. /\ rest \in Seq(Lexeme)
        /\ Len(rest) = n - 1
        /\ \A i \in 1 .. Len(rest) : rest[i] = input[i + 1]
    BY <2>1, HeadTailProperties
  <2>4. DOMAIN rest = 1 .. n - 1
    BY <2>3, LenProperties
  <2> QED
    BY <2>1, <2>2, <2>3, <2>4
<1> HIDE DEF n, rest
<1>2. PICK p \in 1 .. n : /\ input[p].t \notin {"newline", "spaces", "tabs"}
                          /\ \A q \in 1 .. p : input[q].t # "newline"
  BY <1>1 DEF AheadIn
<1>3. 1 \in 1 .. p
  BY <1>1
<1>4. Head(input).t # "newline"
  BY <1>1, <1>2, <1>3
<1>5. ASSUME Head(input).t \in IndentKinds
      PROVE  AheadIn(rest)
  <2>1. p # 1
    BY <1>1, <1>2, <1>5 DEF IndentKinds
  <2>2. p - 1 \in 1 .. n - 1 /\ (p - 1) + 1 = p
    BY <1>1, <2>1
  <2>3. \A q \in 1 .. p - 1 : q \in 1 .. n - 1 /\ q + 1 \in 1 .. p
    BY <1>1
  <2>4. rest[p - 1].t \notin {"newline", "spaces", "tabs"}
    BY <1>1, <1>2, <2>2
  <2>5. \A q \in 1 .. p - 1 : rest[q].t # "newline"
    BY <1>1, <1>2, <2>3
  <2> QED
    BY <1>1, <2>2, <2>4, <2>5 DEF AheadIn
<1> QED
  BY <1>4, <1>5 DEF rest

(* The text read so far, and one lexeme more.                              *)
LEMMA ConsumeReads ==
  ASSUME TypeOK, NEW kinds, Reading(kinds), Consume
  PROVE  /\ read \in Seq(Lexeme) /\ out \o pending \in Seq(Given)
         /\ out \in Seq(Given) /\ pending \in Seq(Given)
         /\ Head(input) \in Lexeme /\ Head(input).t \in kinds
         /\ read' = Append(read, Head(input))
         /\ input' = Tail(input)
         /\ ~hasError
         /\ Len(read') + 1 = Len(read) + 2
         /\ Starting' <=> \/ Head(input).t = "newline"
                          \/ Head(input).t \in IndentKinds /\ Starting
<1>1. read \in Seq(Lexeme) /\ out \in Seq(Given) /\ pending \in Seq(Given)
  BY DEF TypeOK, Given
<1>2. out \o pending \in Seq(Given)
  BY <1>1, ConcatProperties
<1>3. Head(input) \in Lexeme /\ Head(input).t \in kinds /\ ~hasError
  BY HeadTailProperties DEF TypeOK, Reading
<1>4. read' = Append(read, Head(input)) /\ input' = Tail(input)
  BY DEF Consume
<1>5. Len(read') + 1 = Len(read) + 2
  <2>1. Len(Append(read, Head(input))) = Len(read) + 1 /\ Len(read) \in Nat
    BY <1>1, <1>3, ReadGrows
  <2> QED
    BY <1>4, <2>1
<1>6. StartsIn(Append(read, Head(input)), Len(read) + 2) <=>
        \/ Head(input).t = "newline"
        \/ Head(input).t \in IndentKinds /\ StartsIn(read, Len(read) + 1)
  BY <1>1, <1>3, StartsGrow
<1>7. Starting' <=> StartsIn(read', Len(read) + 2)
  BY <1>5 DEF Starting
<1> QED
  BY <1>1, <1>2, <1>3, <1>4, <1>5, <1>6, <1>7 DEF Starting

(* A token is handed over behind Indents or Dedents.                       *)
LEMMA GiveKeeps ==
  ASSUME KInv, NEW kinds, Reading(kinds), NEW vs \in Seq(Given), NEW t \in Given,
         \A i \in DOMAIN vs : vs[i] \in Margins, t \notin Margins,
         Give(Append(vs, t)), StandsFor(t, Head(input)),
         Head(input).t \notin IndentKinds,
         Head(input).t = "newline" => ~Starting
  PROVE  HandedOver(read', out' \o pending')
<1>1. TypeOK /\ Consume /\ out' = out /\ pending' = pending \o Append(vs, t)
  BY DEF KInv, LInv, Give
<1>2. /\ read \in Seq(Lexeme) /\ out \o pending \in Seq(Given)
      /\ out \in Seq(Given) /\ pending \in Seq(Given)
      /\ Head(input) \in Lexeme
      /\ read' = Append(read, Head(input))
      /\ ~hasError
  BY <1>1, ConsumeReads
<1>3. Append(vs, t) \in Seq(Given)
  BY AppendProperties
<1>4. (out \o pending) \o Append(vs, t) = out \o (pending \o Append(vs, t))
  <2> DEFINE us == Append(vs, t)
  <2> HIDE DEF us
  <2>1. us \in Seq(Given)
    BY <1>3 DEF us
  <2>2. (out \o pending) \o us = out \o (pending \o us)
    BY <1>2, <2>1, ConcatAssociative
  <2> QED
    BY <2>2 DEF us
<1>5. HandedOver(read, out \o pending)
  BY <1>2 DEF KInv
<1>6. HandedOver(Append(read, Head(input)), (out \o pending) \o Append(vs, t))
  BY <1>2, <1>5, KeptGrows DEF Starting
<1> QED
  BY <1>1, <1>2, <1>4, <1>6

(* A token is handed over that starts the line, or goes on with it.        *)
LEMMA VisitKeeps ==
  ASSUME KInv, Reading(Visible), NEW vs \in Seq(Given),
         \A i \in DOMAIN vs : vs[i] \in Margins, Visit(vs)
  PROVE  LineKnown' /\ HandedOver(read', out' \o pending')
<1> DEFINE t == Head(input).t
<1>1. TypeOK /\ Give(Append(vs, t)) /\ Consume /\ atLineStart' = FALSE
  BY DEF KInv, LInv, Visit, Give
<1>2. t \in Visible
  BY <1>1, ConsumeReads
<1>3. t \in Given /\ t \notin Margins /\ t \notin IndentKinds /\ t # "newline"
  BY <1>2 DEF Visible, Given, Tokens, Margins, IndentKinds
<1>4. StandsFor(t, Head(input))
  BY DEF StandsFor
<1>5. HandedOver(read', out' \o pending')
  BY <1>1, <1>3, <1>4, GiveKeeps
<1>6. ~Starting'
  BY <1>1, <1>3, ConsumeReads
<1> QED
  BY <1>1, <1>5, <1>6 DEF LineKnown

(* A lexeme that is not to be seen is skipped.                             *)
LEMMA SkipKeeps ==
  ASSUME KInv, NEW kinds, Reading(kinds), Skip,
         Head(input).t \in IndentKinds \/ (Head(input).t = "newline" /\ Starting)
  PROVE  HandedOver(read', out' \o pending')
<1>1. TypeOK /\ Consume /\ out' = out /\ pending' = pending
  BY DEF KInv, LInv, Skip
<1>2. /\ read \in Seq(Lexeme) /\ out \o pending \in Seq(Given)
      /\ Head(input) \in Lexeme
      /\ read' = Append(read, Head(input))
      /\ ~hasError
  BY <1>1, ConsumeReads
<1>3. HandedOver(read, out \o pending)
  BY <1>2 DEF KInv
<1>4. HandedOver(Append(read, Head(input)), out \o pending)
  BY <1>2, <1>3, KeptSkips DEF Starting
<1> QED
  BY <1>1, <1>2, <1>4

(* Blanks do not make or break the start of a line.                        *)
LEMMA BlanksKeep ==
  ASSUME KInv, Reading(IndentKinds), Skip, UNCHANGED <<atLineStart, hasError>>
  PROVE  LineKnown' /\ HandedOver(read', out' \o pending')
<1>1. TypeOK /\ Consume
  BY DEF KInv, LInv, Skip
<1>2. /\ Head(input).t \in IndentKinds
      /\ input' = Tail(input)
      /\ ~hasError
      /\ Starting' <=> \/ Head(input).t = "newline"
                       \/ Head(input).t \in IndentKinds /\ Starting
  BY <1>1, ConsumeReads
<1>3. HandedOver(read', out' \o pending')
  BY <1>2, SkipKeeps
<1>4. Starting' <=> Starting
  BY <1>2 DEF IndentKinds
<1>5. AheadIn(input) => AheadIn(input')
  BY <1>1, <1>2, AheadOn
<1> QED
  BY <1>2, <1>3, <1>4, <1>5 DEF KInv, LineKnown

(* What a step leaves alone while there is an error does not matter.       *)
LEMMA ErrorKeeps ==
  ASSUME hasError'
  PROVE  LineKnown' /\ (~hasError => HandedOver(read, out \o pending))'
BY DEF LineKnown

(* Delivering a token hands over nothing new.                              *)
LEMMA DeliverJoins ==
  ASSUME TypeOK, Deliver
  PROVE  out' \o pending' = out \o pending
<1> DEFINE h == Head(pending)
           rest == Tail(pending)
<1>1. out \in Seq(Given) /\ pending \in Seq(Given) /\ pending # << >>
  BY DEF TypeOK, Given, Deliver
<1>2. h \in Given /\ rest \in Seq(Given) /\ << h >> \in Seq(Given)
  BY <1>1, HeadTailProperties
<1>3. Append(out, h) = out \o << h >>
  BY <1>1, <1>2, AppendIsConcat
<1>4. pending = << h >> \o rest
  BY <1>1, <1>2, ConcatProperties, HeadTailProperties
<1>5. (out \o << h >>) \o rest = out \o (<< h >> \o rest)
  BY <1>1, <1>2, ConcatAssociative
<1>6. out' = Append(out, h) /\ pending' = rest
  BY DEF Deliver
<1> HIDE DEF h, rest
<1> QED
  BY <1>3, <1>4, <1>5, <1>6

(* A stray brace is read as one, and what follows in the line comes next.  *)
LEMMA BraceKeeps ==
  ASSUME KInv, StrayBrace
  PROVE  LineKnown' /\ HandedOver(read', out' \o pending')
<1> DEFINE x == [t |-> "other", w |-> 1]
<1>1. /\ TypeOK /\ Reading({"middle", "tail"})
      /\ read' = Append(read, x) /\ out' = out /\ pending' = Append(pending, "rbrace")
      /\ input' \in Rescanned
      /\ UNCHANGED <<atLineStart, hasError>>
  BY DEF KInv, LInv, StrayBrace
<1>2. /\ read \in Seq(Lexeme) /\ out \in Seq(Given) /\ pending \in Seq(Given)
      /\ ~hasError
  BY <1>1 DEF TypeOK, Given, Reading
<1>3. out \o pending \in Seq(Given) /\ << >> \in Seq(Given)
  BY <1>2, ConcatProperties, EmptySeq
<1>4. x \in Lexeme
  BY <1>1, HeadType
<1>5. "rbrace" \in Given /\ "rbrace" \notin Margins
  BY DEF Given, Tokens, Margins
<1>6. x.t \notin IndentKinds /\ x.t # "newline" /\ StandsFor("rbrace", x)
  BY DEF IndentKinds, StandsFor
<1>7. HandedOver(read, out \o pending)
  BY <1>2 DEF KInv
<1>8. \A i \in DOMAIN << >> : << >>[i] \in Margins
  OBVIOUS
<1> HIDE DEF x
<1>9. HandedOver(Append(read, x), (out \o pending) \o Append(<< >>, "rbrace"))
  BY <1>2, <1>3, <1>4, <1>5, <1>6, <1>7, <1>8, KeptGrows
<1>10. (out \o pending) \o Append(<< >>, "rbrace") = out \o Append(pending, "rbrace")
  <2>1. << "rbrace" >> \in Seq(Given)
    BY <1>5
  <2>2. (out \o pending) \o << "rbrace" >> = out \o (pending \o << "rbrace" >>)
    BY <1>2, <2>1, ConcatAssociative
  <2>3. pending \o << "rbrace" >> = Append(pending, "rbrace")
    BY <1>2, <1>5, AppendIsConcat
  <2>4. Append(<< >>, "rbrace") = << "rbrace" >>
    OBVIOUS
  <2> QED
    BY <2>2, <2>3, <2>4
<1>11. ~Starting'
  <2>1. Len(Append(read, x)) + 1 = Len(read) + 2
    BY <1>2, <1>4, ReadGrows
  <2>2. ~StartsIn(Append(read, x), Len(read) + 2)
    BY <1>2, <1>4, <1>6, StartsGrow
  <2> QED
    BY <1>1, <2>1, <2>2 DEF Starting
<1>12. AheadIn(input')
  BY <1>1, RescannedAssumption DEF AheadIn
<1> QED
  BY <1>1, <1>9, <1>10, <1>11, <1>12 DEF LineKnown

(* Every action hands over what it reads.                                  *)
LEMMA KeptStep ==
  ASSUME KInv, Next
  PROVE  LineKnown' /\ (~hasError => HandedOver(read, out \o pending))'
<1>1. /\ TypeOK /\ LInv
      /\ << >> \in Seq(Given) /\ \A i \in DOMAIN << >> : << >>[i] \in Margins
  <2>1. TypeOK /\ LInv
    BY DEF KInv, LInv
  <2> QED
    BY <2>1, EmptySeq
<1>2. ASSUME LineKnown' /\ HandedOver(read', out' \o pending')
      PROVE  LineKnown' /\ (~hasError => HandedOver(read, out \o pending))'
  BY <1>2
<1>3. CASE BadLexeme
  BY <1>3, ErrorKeeps DEF BadLexeme
<1>4. CASE EmptyLine
  <2>1. /\ Reading({"newline"}) /\ Skip /\ Consume /\ atLineStart
        /\ UNCHANGED <<atLineStart, hasError>>
    BY <1>4 DEF EmptyLine, NoNewline, Skip
  <2>2. Head(input).t = "newline" /\ ~hasError /\ Starting'
    BY <1>1, <2>1, ConsumeReads
  <2>3. Starting
    BY <1>1, <2>1, <2>2, AheadOn DEF KInv, LineKnown
  <2>4. HandedOver(read', out' \o pending')
    BY <2>1, <2>2, <2>3, SkipKeeps
  <2> QED
    BY <1>2, <2>1, <2>2, <2>4 DEF LineKnown
<1>5. CASE EndLine
  <2>1. /\ Reading({"newline"}) /\ ~atLineStart /\ Give(<< "newline" >>) /\ Consume
        /\ atLineStart' = TRUE
    BY <1>5 DEF EndLine, Give
  <2>2. Head(input).t = "newline" /\ ~hasError /\ Starting'
    BY <1>1, <2>1, ConsumeReads
  <2>3. ~Starting
    BY <2>1, <2>2 DEF KInv, LineKnown
  <2>4. Append(<< >>, "newline") = << "newline" >>
    OBVIOUS
  <2>5. "newline" \in Given /\ "newline" \notin Margins /\ "newline" \notin IndentKinds
    BY DEF Given, Tokens, Margins, IndentKinds
  <2>6. StandsFor("newline", Head(input))
    BY <2>2 DEF StandsFor
  <2>7. Give(Append(<< >>, "newline"))
    BY <2>1, <2>4
  <2>8. HandedOver(read', out' \o pending')
    BY <1>1, <2>1, <2>2, <2>3, <2>5, <2>6, <2>7, GiveKeeps
  <2> QED
    BY <1>2, <2>1, <2>2, <2>8 DEF LineKnown
<1>6. CASE LeadingBlanks
  BY <1>2, <1>6, BlanksKeep DEF LeadingBlanks
<1>7. CASE MixedBlanks
  BY <1>7, ErrorKeeps DEF MixedBlanks, Reject
<1>8. CASE InnerBlanks
  <2>1. Reading(IndentKinds) /\ Skip /\ UNCHANGED <<atLineStart, hasError>>
    BY <1>1, <1>8, BlanksInside DEF InnerBlanks
  <2> QED
    BY <1>2, <2>1, BlanksKeep
<1>9. CASE StrayBrace
  BY <1>2, <1>9, BraceKeeps
<1>10. ASSUME NEW vs \in Seq(Given), \A i \in DOMAIN vs : vs[i] \in Margins,
              Reading(Visible), Visit(vs)
       PROVE  LineKnown' /\ (~hasError => HandedOver(read, out \o pending))'
  BY <1>2, <1>10, VisitKeeps
<1>11. CASE InLine
  BY <1>1, <1>10, <1>11 DEF InLine
<1>12. CASE SameLevel
  BY <1>1, <1>10, <1>12 DEF SameLevel
<1>13. CASE Deeper
  <2>1. << "Indent" >> \in Seq(Given) /\ \A i \in DOMAIN << "Indent" >> :
          << "Indent" >>[i] \in Margins
    <3>1. "Indent" \in Given /\ "Indent" \in Margins
      BY DEF Given, Tokens, Margins
    <3> QED
      BY <3>1
  <2> QED
    BY <1>10, <1>13, <2>1 DEF Deeper
<1>14. CASE Shallower
  <2>1. PICK pos \in 0 .. Len(indentStack) : Visit(Dedents(LevelsClosed(pos)))
    BY <1>14 DEF Shallower
  <2>2. LevelsClosed(pos) \in Nat
    BY <1>1, StackType DEF LevelsClosed
  <2>3. Dedents(LevelsClosed(pos)) \in Seq(Given)
    BY <2>2, TokensType DEF Given
  <2>4. \A i \in DOMAIN Dedents(LevelsClosed(pos)) :
          Dedents(LevelsClosed(pos))[i] \in Margins
    BY DEF Dedents, Margins
  <2> QED
    BY <1>10, <1>14, <2>1, <2>3, <2>4 DEF Shallower
<1>15. CASE NoSuchLevel
  BY <1>15, ErrorKeeps DEF NoSuchLevel, Reject
<1>16. CASE Deliver
  <2>1. out' \o pending' = out \o pending
    BY <1>1, <1>16, DeliverJoins
  <2>2. UNCHANGED <<read, input, atLineStart, hasError>>
    BY <1>16 DEF Deliver
  <2> QED
    BY <2>1, <2>2 DEF KInv, LineKnown, Starting
<1>17. CASE OutOfText \/ UNCHANGED vars
  BY <1>17 DEF OutOfText, vars, KInv, LineKnown, Starting
<1> QED
  BY <1>3, <1>4, <1>5, <1>6, <1>7, <1>8, <1>9, <1>11, <1>12, <1>13, <1>14, <1>15,
     <1>16, <1>17 DEF Next

(* Nothing is read before the text, and every step keeps the invariant.    *)
LEMMA KInvHolds == Spec => []KInv
<1>1. Init /\ LInv => KInv
  <2> SUFFICES ASSUME Init, LInv PROVE KInv
    OBVIOUS
  <2>1. read = << >> /\ out = << >> /\ pending = << >> /\ atLineStart
    BY DEF Init
  <2>2. << >> \in Seq(Lexeme) /\ << >> \in Seq(Given) /\ Len(<< >>) = 0
    BY EmptySeq
  <2>3. DOMAIN << >> = {} /\ << >> \o << >> = << >>
    BY <2>2, LenProperties
  <2>4. Starting
    BY <2>1, <2>2 DEF Starting, StartsIn
  <2>5. ShownIn(<< >>) = {} /\ Handed(<< >>) = {}
    BY <2>3 DEF ShownIn, Handed
  <2>6. HandedOver(<< >>, << >>)
    BY <2>5 DEF HandedOver, Matches
  <2> QED
    BY <2>1, <2>3, <2>4, <2>6 DEF KInv, LineKnown
<1>2. KInv /\ LInv' /\ [Next]_vars => KInv'
  <2>1. ASSUME KInv, LInv', UNCHANGED vars PROVE KInv'
    BY <2>1 DEF KInv, LineKnown, Starting, vars
  <2>2. ASSUME KInv, LInv', Next PROVE KInv'
    BY <2>2, KeptStep DEF KInv
  <2> QED
    BY <2>1, <2>2
<1> QED
  BY <1>1, <1>2, LInvHolds, PTL DEF Spec

(* For every set of texts: until the lexer reports an error, it hands over *)
(* every lexeme that is no blank and ends no empty line, in order and as   *)
(* what it is, and no other token but Indents and Dedents (next,           *)
(* lexer.rs:230): no pending token is lost, doubled or overtaken.          *)
THEOREM EveryLexemeHandedOver == Spec => []TokensKept
<1>1. KInv => TokensKept
  BY KeptIs DEF KInv
<1> QED
  BY <1>1, KInvHolds, PTL

-----------------------------------------------------------------------------
(* The widths of lines.                                                    *)

(* How wide a line of the text r is after n lexemes.                       *)
WidthIn(r, f, n) ==
  IF n = 0 THEN 0 ELSE IF r[n].t = "newline" THEN 0 ELSE f[n - 1] + r[n].w

WidthsIn(r) == CHOOSE f : f = [n \in 0 .. Len(r) |-> WidthIn(r, f, n)]

(* There is such a function, and it counts as it says.                     *)
LEMMA WidthsUnfold ==
  ASSUME NEW r \in Seq(Lexeme)
  PROVE  /\ WidthsIn(r) \in [0 .. Len(r) -> Nat]
         /\ WidthsIn(r)[0] = 0
         /\ \A i \in 0 .. Len(r) - 1 :
              WidthsIn(r)[i + 1] =
                IF r[i + 1].t = "newline" THEN 0 ELSE WidthsIn(r)[i] + r[i + 1].w
<1> DEFINE n == Len(r)
           step == [x \in (0 .. n - 1) \X Nat |->
                      IF r[x[1] + 1].t = "newline" THEN 0 ELSE x[2] + r[x[1] + 1].w]
           W == WidthsIn(r)
<1>1. n \in Nat /\ \A i \in 0 .. n - 1 : r[i + 1] \in Lexeme
  <2>1. n \in Nat
    BY LenProperties
  <2>2. \A i \in 0 .. n - 1 : i + 1 \in 1 .. n
    BY <2>1
  <2> QED
    BY <2>1, <2>2, ElementOfSeq
<1>2. \A i \in 0 .. n - 1 : r[i + 1].w \in Nat
  BY <1>1 DEF Lexeme
<1>3. step \in [(0 .. n - 1) \X Nat -> Nat]
  <2> SUFFICES ASSUME NEW i \in 0 .. n - 1, NEW v \in Nat
               PROVE  (IF r[i + 1].t = "newline" THEN 0 ELSE v + r[i + 1].w) \in Nat
    OBVIOUS
  <2> QED
    BY <1>2
<1>4. \A i \in 0 .. n - 1 : \A v \in Nat :
        step[<<i, v>>] = IF r[i + 1].t = "newline" THEN 0 ELSE v + r[i + 1].w
  OBVIOUS
<1> HIDE DEF n, step, W
<1>5. PICK f \in [0 .. n -> Nat] : Follows(f, n, 0, step)
  BY <1>1, <1>3, BoundedRecursionExists
<1>6. f = [i \in 0 .. n |-> WidthIn(r, f, i)]
  <2>1. f[0] = WidthIn(r, f, 0)
    BY <1>5 DEF Follows, WidthIn
  <2>2. ASSUME NEW i \in 1 .. n
        PROVE  f[i] = WidthIn(r, f, i)
    <3>1. i - 1 \in 0 .. n - 1 /\ (i - 1) + 1 = i /\ i - 1 \in 0 .. n /\ i # 0
      BY <1>1
    <3>2. f[i - 1] \in Nat
      BY <3>1
    <3>3. f[i] = step[<<i - 1, f[i - 1]>>]
      BY <1>5, <3>1 DEF Follows
    <3> QED
      BY <1>4, <3>1, <3>2, <3>3 DEF WidthIn
  <2>3. \A i \in 0 .. n : f[i] = WidthIn(r, f, i)
    BY <1>1, <2>1, <2>2
  <2> QED
    BY <2>3
<1>7. W = [i \in 0 .. n |-> WidthIn(r, W, i)]
  BY <1>6 DEF W, WidthsIn, n
<1>8. W[0] = 0
  BY <1>1, <1>7 DEF WidthIn
<1>9. ASSUME NEW i \in 0 .. n - 1
      PROVE  W[i + 1] = IF r[i + 1].t = "newline" THEN 0 ELSE W[i] + r[i + 1].w
  <2>1. i + 1 \in 0 .. n /\ i + 1 # 0 /\ (i + 1) - 1 = i
    BY <1>1
  <2>2. W[i + 1] = WidthIn(r, W, i + 1)
    BY <1>7, <2>1
  <2> QED
    BY <2>1, <2>2 DEF WidthIn
<1>10. \A i \in 0 .. n : W[i] \in Nat
  <2> DEFINE P == {i \in Nat : W[i] \in Nat}
  <2>1. 0 \in P
    BY <1>8
  <2>2. ASSUME NEW i \in 0 .. n - 1, i \in P
        PROVE  i + 1 \in P
    <3>1. W[i] \in Nat /\ i + 1 \in Nat
      BY <2>2
    <3> QED
      BY <1>2, <1>9, <3>1
  <2> HIDE DEF P
  <2>3. 0 .. n \subseteq P
    BY <1>1, <2>1, <2>2, BoundedInduction
  <2> QED
    BY <2>3 DEF P
<1> QED
  BY <1>7, <1>8, <1>9, <1>10 DEF W, n

(* One more lexeme leaves the widths before it as they were.               *)
LEMMA WidthsGrow ==
  ASSUME NEW r \in Seq(Lexeme), NEW x \in Lexeme
  PROVE  LET s == Append(r, x)
             n == Len(r)
         IN  /\ \A i \in 0 .. n : /\ WidthsIn(s)[i] = WidthsIn(r)[i]
                                  /\ WidthsIn(r)[i] \in Nat
             /\ WidthsIn(s)[n + 1] =
                  IF x.t = "newline" THEN 0 ELSE WidthsIn(r)[n] + x.w
<1> DEFINE s == Append(r, x)
           n == Len(r)
           V == WidthsIn(s)
           W == WidthsIn(r)
<1>1. /\ n \in Nat
      /\ s \in Seq(Lexeme) /\ Len(s) = n + 1
      /\ \A p \in 1 .. n : s[p] = r[p]
      /\ s[n + 1] = x
  BY ReadGrows
<1>2. /\ \A i \in 0 .. n : W[i] \in Nat
      /\ W[0] = 0
      /\ \A i \in 0 .. n - 1 :
           W[i + 1] = IF r[i + 1].t = "newline" THEN 0 ELSE W[i] + r[i + 1].w
  BY WidthsUnfold
<1> HIDE DEF s
<1>3. /\ V[0] = 0
      /\ \A i \in 0 .. n :
           V[i + 1] = IF s[i + 1].t = "newline" THEN 0 ELSE V[i] + s[i + 1].w
  <2>1. /\ V[0] = 0
        /\ \A i \in 0 .. Len(s) - 1 :
             V[i + 1] = IF s[i + 1].t = "newline" THEN 0 ELSE V[i] + s[i + 1].w
    BY <1>1, WidthsUnfold
  <2>2. Len(s) - 1 = n
    BY <1>1
  <2> QED
    BY <2>1, <2>2
<1> HIDE DEF n, V, W
<1> DEFINE P == {i \in Nat : V[i] = W[i]}
<1>4. 0 \in P
  BY <1>2, <1>3
<1>5. ASSUME NEW i \in 0 .. n - 1, i \in P
      PROVE  i + 1 \in P
  <2>1. i + 1 \in 1 .. n /\ i \in 0 .. n /\ i + 1 \in Nat
    BY <1>1
  <2>2. s[i + 1] = r[i + 1] /\ V[i] = W[i]
    BY <1>1, <1>5, <2>1
  <2> QED
    BY <1>2, <1>3, <2>1, <2>2
<1> HIDE DEF P
<1>6. 0 .. n \subseteq P
  BY <1>1, <1>4, <1>5, BoundedInduction
<1>7. \A i \in 0 .. n : V[i] = W[i]
  BY <1>6 DEF P
<1>8. V[n + 1] = IF x.t = "newline" THEN 0 ELSE W[n] + x.w
  <2>1. n \in 0 .. n
    BY <1>1
  <2> QED
    BY <1>1, <1>3, <1>7, <2>1
<1> QED
  BY <1>2, <1>7, <1>8 DEF s, n, V, W

-----------------------------------------------------------------------------
(* The blocks that are open at the end of a text.                          *)

StartsOf(r) == {p \in DOMAIN r : r[p].t \in Visible /\ StartsIn(r, p)}
WideIn(r, p) == WidthsIn(r)[p - 1]

(* v is the width of a line that no narrower line has followed.            *)
OpensIn(r, q, v) ==
  /\ q \in StartsOf(r) /\ WideIn(r, q) = v /\ v > 0
  /\ \A p \in StartsOf(r) : q <= p => WideIn(r, p) >= v

BlocksIn(r) == {v \in Nat : \E q \in StartsOf(r) : OpensIn(r, q, v)}

(* What a line of width w leaves open of some blocks, and opens.           *)
Narrowed(blocks, w) == {v \in blocks : v <= w} \cup {v \in {w} : v > 0}

(* The starts of lines are the same, and the lexeme itself if it is one.   *)
LEMMA LinesGrow ==
  ASSUME NEW r \in Seq(Lexeme), NEW x \in Lexeme
  PROVE  LET s == Append(r, x)
             n == Len(r)
         IN  /\ StartsOf(s) = StartsOf(r) \cup
                  {p \in {n + 1} : x.t \in Visible /\ StartsIn(r, n + 1)}
             /\ StartsOf(r) \subseteq 1 .. n
             /\ \A p \in 1 .. n + 1 : WideIn(s, p) = WideIn(r, p) /\ WideIn(r, p) \in Nat
<1> DEFINE s == Append(r, x)
           n == Len(r)
<1>1. /\ n \in Nat
      /\ DOMAIN r = 1 .. n
      /\ DOMAIN s = (1 .. n) \cup {n + 1}
      /\ \A p \in 1 .. n : s[p] = r[p]
      /\ s[n + 1] = x
  BY ReadGrows
<1>2. \A p \in 1 .. n + 1 : StartsIn(s, p) <=> StartsIn(r, p)
  BY StartsGrow
<1>3. \A i \in 0 .. n : WidthsIn(s)[i] = WidthsIn(r)[i] /\ WidthsIn(r)[i] \in Nat
  BY WidthsGrow
<1> HIDE DEF s, n
<1>4. \A p \in 1 .. n + 1 : p - 1 \in 0 .. n
  BY <1>1
<1>5. \A p \in 1 .. n + 1 : WideIn(s, p) = WideIn(r, p) /\ WideIn(r, p) \in Nat
  BY <1>3, <1>4 DEF WideIn
<1>6. \A p \in 1 .. n : p \in 1 .. n + 1 /\ p # n + 1
  BY <1>1
<1>7. n + 1 \in 1 .. n + 1
  BY <1>1
<1>8. StartsOf(r) \subseteq 1 .. n
  BY <1>1 DEF StartsOf
<1>9. \A p \in 1 .. n : p \in StartsOf(s) <=> p \in StartsOf(r)
  BY <1>1, <1>2, <1>6 DEF StartsOf
<1>10. n + 1 \in StartsOf(s) <=> x.t \in Visible /\ StartsIn(r, n + 1)
  BY <1>1, <1>2, <1>7 DEF StartsOf
<1>11. StartsOf(s) \subseteq (1 .. n) \cup {n + 1}
  BY <1>1 DEF StartsOf
<1>12. StartsOf(s) = StartsOf(r) \cup
                       {p \in {n + 1} : x.t \in Visible /\ StartsIn(r, n + 1)}
  <2> DEFINE new == {p \in {n + 1} : x.t \in Visible /\ StartsIn(r, n + 1)}
  <2>1. \A p \in StartsOf(s) : p \in StartsOf(r) \cup new
    BY <1>9, <1>10, <1>11
  <2>2. \A p \in StartsOf(r) \cup new : p \in StartsOf(s)
    BY <1>8, <1>9, <1>10
  <2> QED
    BY <2>1, <2>2
<1> QED
  BY <1>5, <1>8, <1>12 DEF s, n

(* No line starts: the same blocks are open.                               *)
LEMMA BlocksStay ==
  ASSUME NEW r \in Seq(Lexeme), NEW x \in Lexeme,
         ~(x.t \in Visible /\ StartsIn(r, Len(r) + 1))
  PROVE  BlocksIn(Append(r, x)) = BlocksIn(r)
<1> DEFINE s == Append(r, x)
           n == Len(r)
<1>1. /\ StartsOf(s) = StartsOf(r)
      /\ StartsOf(r) \subseteq 1 .. n
      /\ \A p \in 1 .. n + 1 : WideIn(s, p) = WideIn(r, p) /\ WideIn(r, p) \in Nat
  BY LinesGrow
<1>2. n \in Nat
  BY LenProperties
<1>3. \A p \in 1 .. n : p \in 1 .. n + 1
  BY <1>2
<1> HIDE DEF s, n
<1>4. \A p \in StartsOf(r) : WideIn(s, p) = WideIn(r, p)
  BY <1>1, <1>3
<1>5. \A q, v : OpensIn(s, q, v) <=> OpensIn(r, q, v)
  BY <1>1, <1>4 DEF OpensIn
<1> QED
  BY <1>1, <1>5 DEF BlocksIn, s

(* A line starts: it closes the wider blocks and opens one of its own.     *)
LEMMA BlocksMove ==
  ASSUME NEW r \in Seq(Lexeme), NEW x \in Lexeme,
         x.t \in Visible, StartsIn(r, Len(r) + 1)
  PROVE  LET w == WidthsIn(r)[Len(r)]
         IN  /\ w \in Nat
             /\ BlocksIn(Append(r, x)) = Narrowed(BlocksIn(r), w)
<1> DEFINE s == Append(r, x)
           n == Len(r)
           w == WidthsIn(r)[n]
           S == StartsOf(r)
<1>1. n \in Nat
  BY LenProperties
<1>2. /\ StartsOf(s) = S \cup {n + 1}
      /\ S \subseteq 1 .. n
      /\ \A p \in 1 .. n + 1 : WideIn(s, p) = WideIn(r, p) /\ WideIn(r, p) \in Nat
  BY LinesGrow
<1>3. WideIn(r, n + 1) = w /\ n + 1 \in 1 .. n + 1
  <2>1. (n + 1) - 1 = n
    BY <1>1
  <2> QED
    BY <1>1, <2>1 DEF WideIn
<1>4. \A p \in 1 .. n : p \in 1 .. n + 1 /\ p <= n + 1 /\ ~(n + 1 <= p)
  BY <1>1
<1> HIDE DEF s, n, w, S
<1>5. w \in Nat /\ WideIn(s, n + 1) = w
  BY <1>2, <1>3
<1>6. \A p \in S : WideIn(s, p) = WideIn(r, p) /\ WideIn(r, p) \in Nat
  BY <1>2, <1>4
<1>7. ASSUME NEW v \in Nat, NEW q \in S
      PROVE  OpensIn(s, q, v) <=> OpensIn(r, q, v) /\ v <= w
  <2>1. q <= n + 1 /\ q \in StartsOf(s)
    BY <1>2, <1>4
  <2>2. (\A p \in StartsOf(s) : q <= p => WideIn(s, p) >= v) <=>
          (\A p \in S : q <= p => WideIn(r, p) >= v) /\ w >= v
    BY <1>2, <1>5, <1>6, <2>1
  <2>3. w >= v <=> v <= w
    BY <1>5
  <2> QED
    BY <1>6, <2>1, <2>2, <2>3 DEF OpensIn, S
<1>8. ASSUME NEW v \in Nat
      PROVE  OpensIn(s, n + 1, v) <=> v = w /\ v > 0
  <2>1. \A p \in StartsOf(s) : n + 1 <= p => p = n + 1
    BY <1>2, <1>4
  <2>2. n + 1 \in StartsOf(s)
    BY <1>2
  <2>3. w >= w
    BY <1>5
  <2> QED
    BY <1>5, <2>1, <2>2, <2>3 DEF OpensIn
<1>9. \A v \in Nat : v \in BlocksIn(s) <=>
                       (v \in BlocksIn(r) /\ v <= w) \/ (v = w /\ v > 0)
  <2> SUFFICES ASSUME NEW v \in Nat
               PROVE  v \in BlocksIn(s) <=>
                        (v \in BlocksIn(r) /\ v <= w) \/ (v = w /\ v > 0)
    OBVIOUS
  <2>1. v \in BlocksIn(s) <=> (\E q \in S : OpensIn(s, q, v)) \/ OpensIn(s, n + 1, v)
    BY <1>2 DEF BlocksIn
  <2>2. v \in BlocksIn(r) <=> \E q \in S : OpensIn(r, q, v)
    BY DEF BlocksIn, S
  <2> QED
    BY <1>7, <1>8, <2>1, <2>2
<1>10. BlocksIn(s) \subseteq Nat /\ BlocksIn(r) \subseteq Nat
  BY DEF BlocksIn
<1>11. BlocksIn(s) = {v \in BlocksIn(r) : v <= w} \cup {v \in {w} : v > 0}
  <2> DEFINE U == {v \in BlocksIn(r) : v <= w} \cup {v \in {w} : v > 0}
  <2>1. U \subseteq Nat
    BY <1>5, <1>10
  <2>2. \A v \in Nat : v \in U <=> (v \in BlocksIn(r) /\ v <= w) \/ (v = w /\ v > 0)
    OBVIOUS
  <2> HIDE DEF U
  <2>3. BlocksIn(s) = U
    BY <1>9, <1>10, <2>1, <2>2
  <2> QED
    BY <2>3 DEF U
<1> QED
  BY <1>5, <1>11 DEF Narrowed, s, n, w

-----------------------------------------------------------------------------
(* The indents that are open.                                              *)

Sizes(stack) == {Size(stack[i]) : i \in DOMAIN stack}
LineWidth == IF current = << >> THEN 0 ELSE Size(current[1])

(* The line's indent is as wide as it is long.                             *)
LEMMA LineWidthType ==
  ASSUME LInv
  PROVE  /\ LineWidth \in Nat
         /\ current # << >> => LineWidth > 0 /\ LineWidth = Size(current[1])
<1>1. CASE current = << >>
  BY <1>1 DEF LineWidth
<1>2. CASE current # << >>
  <2>1. current[1] \in Indent /\ current[1].from < current[1].to
    BY <1>2, CurrentType DEF LInv, CurrentBehind
  <2> QED
    BY <1>2, <2>1 DEF LineWidth, Size, Indent
<1> QED
  BY <1>1, <1>2

(* The sizes of the open indents: the topmost is the largest.              *)
LEMMA SizesType ==
  ASSUME LInv
  PROVE  /\ Sizes(indentStack) \subseteq Nat
         /\ \A v \in Sizes(indentStack) : v > 0 /\ v <= SizeOfTop
         /\ indentStack = << >> => Sizes(indentStack) = {} /\ SizeOfTop = 0
         /\ indentStack # << >> => SizeOfTop \in Sizes(indentStack)
<1> DEFINE n == Len(indentStack)
           Z(i) == Size(indentStack[i])
<1>1. /\ n \in Nat /\ DOMAIN indentStack = 1 .. n
      /\ \A i \in 1 .. n : Z(i) \in Int
      /\ indentStack # << >> => n \in 1 .. n
  BY StackType DEF LInv
<1>2. \A i \in 1 .. n : Z(i) > 0
  BY <1>1 DEF LInv, StackDeepens
<1>3. \A i, j \in 1 .. n : i < j => Z(i) < Z(j)
  BY <1>1 DEF LInv, StackDeepens
<1>4. indentStack = << >> => n = 0
  BY EmptySeq
<1>5. SizeOfTop = IF indentStack = << >> THEN 0 ELSE Z(n)
  BY DEF SizeOfTop, Last
<1>6. Sizes(indentStack) = {Z(i) : i \in 1 .. n}
  BY <1>1 DEF Sizes
<1> HIDE DEF n, Z
<1>7. CASE indentStack = << >>
  <2>1. 1 .. n = {}
    BY <1>1, <1>4, <1>7
  <2> QED
    BY <1>5, <1>6, <1>7, <2>1
<1>8. CASE indentStack # << >>
  <2>1. n \in 1 .. n /\ SizeOfTop = Z(n)
    BY <1>1, <1>5, <1>8
  <2>2. \A i \in 1 .. n : Z(i) <= Z(n)
    <3> SUFFICES ASSUME NEW i \in 1 .. n PROVE Z(i) <= Z(n)
      OBVIOUS
    <3>1. i = n \/ i < n
      BY <1>1
    <3> QED
      BY <1>1, <1>3, <2>1, <3>1
  <2>3. \A i \in 1 .. n : Z(i) \in Nat /\ Z(i) > 0
    BY <1>1, <1>2
  <2> QED
    BY <1>6, <1>8, <2>1, <2>2, <2>3
<1> QED
  BY <1>7, <1>8

(* A line at the level of the line before opens and closes nothing.        *)
LEMMA SameMoves ==
  ASSUME LInv, SameLevel
  PROVE  Sizes(indentStack') = Narrowed(Sizes(indentStack), LineWidth)
<1>1. /\ indentStack' = indentStack
      /\ IF current = << >> THEN indentStack = << >> ELSE Size(current[1]) = SizeOfTop
  BY DEF SameLevel
<1>2. /\ Sizes(indentStack) \subseteq Nat
      /\ \A v \in Sizes(indentStack) : v > 0 /\ v <= SizeOfTop
      /\ indentStack = << >> => Sizes(indentStack) = {} /\ SizeOfTop = 0
      /\ indentStack # << >> => SizeOfTop \in Sizes(indentStack)
  BY SizesType
<1>3. /\ LineWidth \in Nat
      /\ current # << >> => LineWidth > 0 /\ LineWidth = Size(current[1])
  BY LineWidthType
<1>4. CASE current = << >>
  BY <1>1, <1>2, <1>4 DEF LineWidth, Narrowed
<1>5. CASE current # << >>
  <2>1. LineWidth = SizeOfTop /\ LineWidth > 0
    BY <1>1, <1>3, <1>5
  <2>2. LineWidth \in Sizes(indentStack)
    BY <1>2, <1>3, <2>1
  <2>3. \A v \in Sizes(indentStack) : v <= LineWidth
    BY <1>2, <2>1
  <2> QED
    BY <1>1, <2>1, <2>2, <2>3 DEF Narrowed
<1> QED
  BY <1>4, <1>5

(* A deeper one opens a block.                                             *)
LEMMA DeeperMoves ==
  ASSUME LInv, Deeper
  PROVE  Sizes(indentStack') = Narrowed(Sizes(indentStack), LineWidth)
<1> DEFINE n == Len(indentStack)
           longer == indentStack \o current
<1>1. /\ indentStack' = longer /\ current # << >>
      /\ Size(current[1]) > SizeOfTop
  BY DEF Deeper
<1>2. /\ Sizes(indentStack) \subseteq Nat
      /\ \A v \in Sizes(indentStack) : v > 0 /\ v <= SizeOfTop
  BY SizesType
<1>3. /\ LineWidth \in Nat
      /\ LineWidth > 0 /\ LineWidth = Size(current[1])
  BY <1>1, LineWidthType
<1>4. Len(current) = 1 /\ current \in Seq(Indent) /\ indentStack \in Seq(Indent)
  BY <1>1, CurrentType DEF LInv, TypeOK
<1>5. n \in Nat /\ DOMAIN indentStack = 1 .. n
  BY StackType DEF LInv
<1>6. /\ DOMAIN longer = 1 .. n + 1
      /\ \A i \in 1 .. n : longer[i] = indentStack[i]
      /\ longer[n + 1] = current[1]
  <2>1. /\ longer \in Seq(Indent)
        /\ Len(longer) = n + Len(current)
        /\ \A i \in 1 .. n + Len(current) :
             longer[i] = IF i <= n THEN indentStack[i] ELSE current[i - n]
    BY <1>4, ConcatProperties
  <2> HIDE DEF longer, n
  <2>2. DOMAIN longer = 1 .. n + 1
    BY <1>4, <2>1, LenProperties
  <2>3. \A i \in 1 .. n : i \in 1 .. n + 1 /\ i <= n
    BY <1>5
  <2>4. n + 1 \in 1 .. n + 1 /\ ~(n + 1 <= n) /\ (n + 1) - n = 1
    BY <1>5
  <2> QED
    BY <1>4, <2>1, <2>2, <2>3, <2>4
<1> HIDE DEF longer, n
<1>7. Sizes(longer) = Sizes(indentStack) \cup {LineWidth}
  <2>1. \A i \in 1 .. n + 1 : i \in 1 .. n \/ i = n + 1
    BY <1>5
  <2>2. \A i \in 1 .. n : i \in 1 .. n + 1
    BY <1>5
  <2>3. n + 1 \in 1 .. n + 1
    BY <1>5
  <2>4. \A v \in Sizes(longer) : v \in Sizes(indentStack) \cup {LineWidth}
    BY <1>3, <1>5, <1>6, <2>1 DEF Sizes
  <2>5. \A v \in Sizes(indentStack) \cup {LineWidth} : v \in Sizes(longer)
    BY <1>3, <1>5, <1>6, <2>2, <2>3 DEF Sizes
  <2> QED
    BY <2>4, <2>5
<1>8. SizeOfTop < LineWidth /\ SizeOfTop \in Int
  <2>1. SizeOfTop \in Int
    BY SizesType
  <2> QED
    BY <1>1, <1>3, <2>1
<1>9. \A v \in Sizes(indentStack) : v <= LineWidth
  BY <1>2, <1>3, <1>8
<1> QED
  BY <1>1, <1>3, <1>7, <1>9 DEF Narrowed

(* A shallower one closes those it is not as wide as.                      *)
LEMMA ShallowerMoves ==
  ASSUME LInv, Shallower
  PROVE  Sizes(indentStack') = Narrowed(Sizes(indentStack), LineWidth)
<1> DEFINE n == Len(indentStack)
           Z(i) == Size(indentStack[i])
           w == LineWidth
<1>1. PICK pos \in 0 .. n : Level(pos) /\ indentStack' = Kept(pos)
  BY DEF Shallower
<1>2. /\ n \in Nat /\ DOMAIN indentStack = 1 .. n
      /\ \A i \in 1 .. n : Z(i) \in Int
  BY StackType DEF LInv
<1>3. \A i, j \in 1 .. n : i < j => Z(i) < Z(j)
  BY <1>2 DEF LInv, StackDeepens
<1>4. \A i \in 1 .. n : Z(i) > 0
  BY <1>2 DEF LInv, StackDeepens
<1>5. /\ w \in Nat
      /\ current = << >> => w = 0
      /\ current # << >> => w > 0 /\ w = Size(current[1])
  BY LineWidthType DEF LineWidth
<1>6. /\ current = << >> => pos = 0
      /\ current # << >> => pos \in 1 .. n /\ Z(pos) = w
  BY <1>1, <1>2, <1>5 DEF Level
<1>7. \A i \in 1 .. pos : i \in 1 .. n
  BY <1>2
<1>8. DOMAIN indentStack' = 1 .. pos /\ \A i \in 1 .. pos : indentStack'[i] = indentStack[i]
  <2>1. indentStack \in Seq(Indent)
    BY DEF LInv, TypeOK
  <2>2. \A i \in 1 .. pos : indentStack[i] \in Indent
    BY <1>2, <1>7, <2>1, ElementOfSeq
  <2>3. /\ indentStack' \in Seq(Indent)
        /\ Len(indentStack') = pos
        /\ \A i \in 1 .. pos : indentStack'[i] = indentStack[i]
    BY <1>1, <1>2, <1>7, <2>2, SubSeqProperties DEF Kept
  <2> QED
    BY <2>3, LenProperties
<1> HIDE DEF n, w
<1>9. \A v : v \in Sizes(indentStack') <=> \E i \in 1 .. pos : v = Z(i)
  BY <1>8 DEF Sizes
<1>10. \A v : v \in Sizes(indentStack) <=> \E i \in 1 .. n : v = Z(i)
  BY <1>2 DEF Sizes
<1> HIDE DEF Z
<1>11. \A i \in 1 .. n : Z(i) <= w <=> i \in 1 .. pos
  <2> SUFFICES ASSUME NEW i \in 1 .. n PROVE Z(i) <= w <=> i \in 1 .. pos
    OBVIOUS
  <2>1. CASE current = << >>
    BY <1>2, <1>4, <1>5, <1>6, <2>1
  <2>2. CASE current # << >>
    <3>1. pos \in 1 .. n /\ Z(pos) = w
      BY <1>6, <2>2
    <3>2. i < pos => Z(i) < w
      BY <1>3, <3>1
    <3>3. pos < i => w < Z(i)
      BY <1>3, <3>1
    <3>4. i < pos \/ i = pos \/ pos < i
      BY <1>2
    <3> QED
      BY <1>2, <1>5, <3>1, <3>2, <3>3, <3>4
  <2> QED
    BY <2>1, <2>2
<1>12. w > 0 => \E i \in 1 .. pos : w = Z(i)
  <2> SUFFICES ASSUME w > 0 PROVE \E i \in 1 .. pos : w = Z(i)
    OBVIOUS
  <2>1. current # << >>
    BY <1>5
  <2>2. pos \in 1 .. pos /\ Z(pos) = w
    BY <1>2, <1>6, <2>1
  <2> QED
    BY <2>2
<1>13. \A v : v \in Sizes(indentStack') <=>
                (v \in Sizes(indentStack) /\ v <= w) \/ (v = w /\ v > 0)
  <2>1. ASSUME NEW i \in 1 .. pos
        PROVE  Z(i) \in Sizes(indentStack) /\ Z(i) <= w
    BY <1>7, <1>10, <1>11
  <2>2. ASSUME NEW i \in 1 .. n, Z(i) <= w
        PROVE  i \in 1 .. pos
    BY <1>11, <2>2
  <2> QED
    BY <1>9, <1>10, <1>12, <2>1, <2>2
<1> QED
  BY <1>13 DEF Narrowed, w

-----------------------------------------------------------------------------
(* The blocks open at a line, as OpenBlocks has them.                      *)

OpenIn(r, p) ==
  {WideIn(r, q) : q \in {q \in StartsOf(r) : q <= p /\ WideIn(r, q) > 0
                           /\ \A k \in StartsOf(r) :
                                q <= k /\ k <= p => WideIn(r, k) >= WideIn(r, q)}}

Misfits(r) ==
  LET line   == Max(StartsOf(r))
      before == OpenIn(r, Max(StartsOf(r) \ {line}))
  IN  /\ WideIn(r, line) \notin before
      /\ \E w \in before : WideIn(r, line) < w

(* The last of some places.                                                *)
LEMMA MaxIs ==
  ASSUME NEW n \in Nat, NEW S \in SUBSET (1 .. n), S # {}
  PROVE  Max(S) \in S /\ \A p \in S : p <= Max(S)
<1> DEFINE T == {n - p : p \in S}
<1>1. T \in SUBSET Nat /\ T # {}
  OBVIOUS
<1> HIDE DEF T
<1>2. PICK d \in T : \A e \in T : d <= e
  BY <1>1, LeastNatural
<1>3. PICK m \in S : d = n - m
  BY <1>2 DEF T
<1>4. \A p \in S : n - p \in T
  BY DEF T
<1>5. \A p \in S : m >= p
  <2>1. \A p \in S : p \in Int /\ n - m <= n - p
    BY <1>2, <1>3, <1>4
  <2> QED
    BY <1>3, <2>1
<1>6. \E max \in S : \A p \in S : max >= p
  BY <1>5
<1>7. Max(S) \in S /\ \A p \in S : Max(S) >= p
  BY <1>6 DEF Max
<1>8. \A p \in S : p \in Int
  OBVIOUS
<1> QED
  BY <1>7, <1>8

(* If q is the last line of r, whatever else s reads, the blocks open in   *)
(* s at q are the ones open at the end of r.                               *)
LEMMA OpenAtLast ==
  ASSUME NEW r, NEW s, NEW last,
         \A p \in StartsOf(r) : /\ p \in Int /\ p <= last
                                /\ WideIn(s, p) = WideIn(r, p)
                                /\ WideIn(r, p) \in Nat,
         \A p : p \in StartsOf(r) <=> p \in StartsOf(s) /\ p <= last
  PROVE  OpenIn(s, last) = BlocksIn(r)
<1>1. ASSUME NEW q, NEW v \in Nat
      PROVE  OpensIn(r, q, v) <=>
               /\ q \in StartsOf(s) /\ q <= last /\ WideIn(s, q) > 0
               /\ \A k \in StartsOf(s) :
                    q <= k /\ k <= last => WideIn(s, k) >= WideIn(s, q)
               /\ v = WideIn(s, q)
  BY DEF OpensIn
<1>2. \A v \in Nat : v \in OpenIn(s, last) <=> v \in BlocksIn(r)
  BY <1>1 DEF OpenIn, BlocksIn, OpensIn
<1>3. OpenIn(s, last) \subseteq Nat /\ BlocksIn(r) \subseteq Nat
  BY DEF OpenIn, BlocksIn
<1> QED
  BY <1>2, <1>3

(* At the last line.                                                       *)
LEMMA OpenNow ==
  ASSUME NEW r \in Seq(Lexeme), StartsOf(r) # {}
  PROVE  OpenIn(r, Max(StartsOf(r))) = BlocksIn(r)
<1>1. PICK x : x \in Lexeme
  <2>1. PICK p \in StartsOf(r) : TRUE
    OBVIOUS
  <2>2. r[p] \in Lexeme
    BY <2>1, LenProperties, ElementOfSeq DEF StartsOf
  <2> QED
    BY <2>2
<1>2. /\ Len(r) \in Nat
      /\ StartsOf(r) \in SUBSET (1 .. Len(r))
      /\ \A p \in 1 .. Len(r) + 1 : WideIn(r, p) \in Nat
  BY <1>1, LinesGrow, LenProperties
<1>3. /\ Max(StartsOf(r)) \in StartsOf(r)
      /\ \A p \in StartsOf(r) : p <= Max(StartsOf(r))
  BY <1>2, MaxIs
<1>4. \A p \in StartsOf(r) : p \in Int /\ WideIn(r, p) \in Nat
  <2>1. \A p \in 1 .. Len(r) : p \in 1 .. Len(r) + 1 /\ p \in Int
    BY <1>2
  <2> QED
    BY <1>2, <2>1
<1> QED
  BY <1>3, <1>4, OpenAtLast

(* A line that is as wide as no open block, and not as wide as one, is     *)
(* the misfit of the text it is read into.                                 *)
LEMMA Misfit ==
  ASSUME NEW r \in Seq(Lexeme), NEW x \in Lexeme,
         x.t \in Visible, StartsIn(r, Len(r) + 1),
         WidthsIn(r)[Len(r)] \notin BlocksIn(r),
         \E v \in BlocksIn(r) : WidthsIn(r)[Len(r)] < v
  PROVE  Misfits(Append(r, x))
<1> DEFINE s == Append(r, x)
           n == Len(r)
           S == StartsOf(r)
           w == WidthsIn(r)[n]
<1>1. n \in Nat
  BY LenProperties
<1>2. /\ StartsOf(s) = S \cup {n + 1}
      /\ S \in SUBSET (1 .. n)
      /\ \A p \in 1 .. n + 1 : WideIn(s, p) = WideIn(r, p) /\ WideIn(r, p) \in Nat
  BY LinesGrow
<1>3. WideIn(r, n + 1) = w /\ n + 1 \in 1 .. n + 1
  <2>1. (n + 1) - 1 = n
    BY <1>1
  <2> QED
    BY <1>1, <2>1 DEF WideIn
<1>4. S # {}
  BY DEF BlocksIn, OpensIn
<1>5. w \notin BlocksIn(r) /\ \E v \in BlocksIn(r) : w < v
  OBVIOUS
<1> HIDE DEF s, n, S, w
<1>6. WideIn(s, n + 1) = w
  BY <1>2, <1>3
<1>7. Max(S) \in S /\ \A p \in S : p <= Max(S)
  BY <1>1, <1>2, <1>4, MaxIs
<1>8. \A p \in 1 .. n : p \in 1 .. n + 1 /\ p \in Int /\ p # n + 1 /\ p < n + 1
  BY <1>1
<1>9. Max(S \cup {n + 1}) = n + 1
  <2>1. S \cup {n + 1} \in SUBSET (1 .. n + 1) /\ n + 1 \in Nat
    BY <1>1, <1>2, <1>3, <1>8
  <2>2. /\ Max(S \cup {n + 1}) \in S \cup {n + 1}
        /\ \A p \in S \cup {n + 1} : p <= Max(S \cup {n + 1})
    BY <2>1, MaxIs
  <2>3. n + 1 <= Max(S \cup {n + 1})
    BY <2>2
  <2>4. Max(S \cup {n + 1}) \in S => Max(S \cup {n + 1}) < n + 1
    BY <1>2, <1>8
  <2>5. \A m \in S : m \in Int
    BY <1>2, <1>8
  <2> QED
    BY <1>1, <2>2, <2>3, <2>4, <2>5
<1>10. StartsOf(s) \ {n + 1} = S
  BY <1>2, <1>8
<1>11. OpenIn(s, Max(S)) = BlocksIn(r)
  <2>1. \A p \in S : /\ p \in Int /\ p <= Max(S)
                     /\ WideIn(s, p) = WideIn(r, p) /\ WideIn(r, p) \in Nat
    BY <1>2, <1>7, <1>8
  <2>2. Max(S) \in Int /\ Max(S) < n + 1
    BY <1>2, <1>7, <1>8
  <2>3. ~(n + 1 <= Max(S))
    BY <1>1, <2>2
  <2>4. \A p : p \in S <=> p \in StartsOf(s) /\ p <= Max(S)
    BY <1>2, <2>1, <2>3
  <2> QED
    BY <2>1, <2>4, OpenAtLast DEF S
<1>12. Misfits(s)
  BY <1>2, <1>5, <1>6, <1>9, <1>10, <1>11 DEF Misfits
<1> QED
  BY <1>12 DEF s

-----------------------------------------------------------------------------
(* What every step keeps that reads no line of blanks alone, and no stray  *)
(* brace before the first token of a line.                                 *)

PlainText ==
  /\ Reading({"newline"}) /\ atLineStart => current = << >>
  /\ Reading({"middle", "tail"}) /\ templateDepth = 0 => ~atLineStart

(* Where a line starts, current_indent has its width.                      *)
LineMeasured ==
  atLineStart =>
    /\ Starting
    /\ WidthsIn(read)[Len(read)] = LineWidth
    /\ current # << >> => current[1].to = at

NoneRefused(ts) == \A i \in DOMAIN ts : ts[i] # "InvalidIndentSize"

BInv ==
  /\ KInv
  /\ ~hasError => LineMeasured /\ Sizes(indentStack) = BlocksIn(read)
  /\ NoneRefused(pending)
  /\ ~NoneRefused(out) => hasError /\ Misfits(read)

(* A lexeme that starts no line opens and closes nothing.                  *)
LEMMA ReadStays ==
  ASSUME BInv, NEW kinds, Reading(kinds), Consume, UNCHANGED indentStack,
         ~(Head(input).t \in Visible /\ Starting)
  PROVE  Sizes(indentStack') = BlocksIn(read')
<1>1. TypeOK
  BY DEF BInv, KInv, LInv
<1>2. /\ read \in Seq(Lexeme) /\ Head(input) \in Lexeme
      /\ read' = Append(read, Head(input))
      /\ ~hasError
  BY <1>1, ConsumeReads
<1>3. BlocksIn(Append(read, Head(input))) = BlocksIn(read)
  BY <1>2, BlocksStay DEF Starting
<1>4. Sizes(indentStack) = BlocksIn(read)
  BY <1>2 DEF BInv
<1> QED
  BY <1>2, <1>3, <1>4 DEF Sizes

(* One that starts a line closes the wider blocks and opens its own.       *)
LEMMA ReadMoves ==
  ASSUME BInv, Reading(Visible), Consume, atLineStart
  PROVE  /\ BlocksIn(read') = Narrowed(Sizes(indentStack), LineWidth)
         /\ LineWidth \notin Sizes(indentStack)
              /\ (\E v \in Sizes(indentStack) : LineWidth < v) => Misfits(read')
<1>1. TypeOK
  BY DEF BInv, KInv, LInv
<1>2. /\ read \in Seq(Lexeme) /\ Head(input) \in Lexeme
      /\ Head(input).t \in Visible
      /\ read' = Append(read, Head(input))
      /\ ~hasError
  BY <1>1, ConsumeReads
<1>3. /\ Sizes(indentStack) = BlocksIn(read)
      /\ Starting /\ WidthsIn(read)[Len(read)] = LineWidth
  BY <1>2 DEF BInv, LineMeasured
<1>4. BlocksIn(Append(read, Head(input))) = Narrowed(BlocksIn(read), LineWidth)
  BY <1>2, <1>3, BlocksMove DEF Starting
<1>5. LineWidth \notin BlocksIn(read) /\ (\E v \in BlocksIn(read) : LineWidth < v)
        => Misfits(Append(read, Head(input)))
  BY <1>2, <1>3, Misfit DEF Starting
<1> QED
  BY <1>2, <1>3, <1>4, <1>5

(* A newline starts a line of no width.                                    *)
LEMMA NewlineMeasures ==
  ASSUME TypeOK, Reading({"newline"}), Consume, current' = << >>
  PROVE  LineMeasured'
<1>1. /\ read \in Seq(Lexeme) /\ Head(input) \in Lexeme
      /\ Head(input).t = "newline"
      /\ read' = Append(read, Head(input))
      /\ Starting'
  BY ConsumeReads
<1>2. Len(Append(read, Head(input))) = Len(read) + 1
  BY <1>1, ReadGrows
<1>3. WidthsIn(Append(read, Head(input)))[Len(read) + 1] = 0
  BY <1>1, WidthsGrow
<1>4. LineWidth' = 0
  BY DEF LineWidth
<1>5. WidthsIn(read')[Len(read')] = 0
  BY <1>1, <1>2, <1>3
<1> QED
  BY <1>1, <1>4, <1>5 DEF LineMeasured

(* Blanks make the line wider, and its indent longer, by their width.      *)
LEMMA BlanksMeasure ==
  ASSUME BInv, LeadingBlanks
  PROVE  LineMeasured'
<1> DEFINE w == Head(input).w
           old == current[1]
           from == IF current = << >> THEN at ELSE old.from
<1>1. /\ LInv /\ TypeOK /\ Reading(IndentKinds) /\ Consume
      /\ current' = << [kind |-> Head(input).t, from |-> from, to |-> at + w] >>
      /\ at' = at + w /\ atLineStart
  BY DEF BInv, KInv, LInv, LeadingBlanks, NewIndent, Skip, Consume
<1>2. /\ read \in Seq(Lexeme) /\ Head(input) \in Lexeme
      /\ Head(input).t \in IndentKinds
      /\ read' = Append(read, Head(input))
      /\ ~hasError
      /\ Starting' <=> Head(input).t = "newline" \/ (Head(input).t \in IndentKinds /\ Starting)
  BY <1>1, ConsumeReads
<1>3. /\ Starting
      /\ WidthsIn(read)[Len(read)] = LineWidth
      /\ current # << >> => old.to = at
  BY <1>1, <1>2 DEF BInv, LineMeasured
<1>4. Head(input).t # "newline"
  BY <1>2 DEF IndentKinds
<1>5. /\ Len(Append(read, Head(input))) = Len(read) + 1
      /\ WidthsIn(Append(read, Head(input)))[Len(read) + 1] = LineWidth + w
  BY <1>2, <1>3, <1>4, ReadGrows, WidthsGrow
<1>6. w \in Nat /\ at \in Nat
  BY <1>1, <1>2 DEF Lexeme, TypeOK
<1>7. LineWidth = IF current = << >> THEN 0 ELSE at - old.from
  BY <1>3 DEF LineWidth, Size
<1>8. current # << >> => old.from \in Nat
  BY <1>1, CurrentType DEF Indent
<1> HIDE DEF w, old
<1>9. LineWidth + w = (at + w) - from
  BY <1>6, <1>7, <1>8
<1> HIDE DEF from
<1>10. LineWidth' = (at + w) - from /\ current'[1].to = at'
  <2>1. current' # << >> /\ current'[1] = [kind |-> Head(input).t, from |-> from, to |-> at + w]
    BY <1>1
  <2> QED
    BY <1>1, <2>1 DEF LineWidth, Size
<1>11. WidthsIn(read')[Len(read')] = LineWidth + w
  BY <1>2, <1>5
<1> QED
  BY <1>2, <1>3, <1>9, <1>10, <1>11 DEF LineMeasured

(* Where no line starts there is nothing to measure.                       *)
LEMMA InsideMeasures ==
  ASSUME atLineStart' = FALSE
  PROVE  LineMeasured'
BY DEF LineMeasured

(* Every action keeps the blocks and the indents together.                 *)
LEMMA BlocksStep ==
  ASSUME BInv, PlainText, Next
  PROVE  ~hasError' => LineMeasured' /\ Sizes(indentStack') = BlocksIn(read')
<1> SUFFICES ASSUME ~hasError'
             PROVE  LineMeasured' /\ Sizes(indentStack') = BlocksIn(read')
  OBVIOUS
<1>1. TypeOK /\ LInv /\ KInv
  BY DEF BInv, KInv, LInv
<1>2. CASE BadLexeme
  BY <1>2 DEF BadLexeme
<1>3. CASE EmptyLine
  <2>1. Reading({"newline"}) /\ Consume /\ atLineStart /\ UNCHANGED <<indentStack, current>>
    BY <1>3 DEF EmptyLine, NoNewline, Skip
  <2>2. current' = << >>
    BY <2>1 DEF PlainText
  <2>3. Head(input).t \notin Visible
    BY <1>1, <2>1, ConsumeReads DEF Visible
  <2> QED
    BY <1>1, <2>1, <2>2, <2>3, NewlineMeasures, ReadStays
<1>4. CASE EndLine
  <2>1. Reading({"newline"}) /\ Consume /\ current' = << >> /\ UNCHANGED indentStack
    BY <1>4 DEF EndLine, Give
  <2>2. Head(input).t \notin Visible
    BY <1>1, <2>1, ConsumeReads DEF Visible
  <2> QED
    BY <1>1, <2>1, <2>2, NewlineMeasures, ReadStays
<1>5. CASE LeadingBlanks
  <2>1. Reading(IndentKinds) /\ Consume /\ UNCHANGED indentStack
    BY <1>5 DEF LeadingBlanks, Skip
  <2>2. Head(input).t \notin Visible
    BY <1>1, <2>1, ConsumeReads DEF Visible, IndentKinds
  <2> QED
    BY <1>5, <2>1, <2>2, BlanksMeasure, ReadStays
<1>6. CASE MixedBlanks
  BY <1>6 DEF MixedBlanks, Reject
<1>7. CASE InnerBlanks
  <2>1. Reading(IndentKinds) /\ Consume /\ atLineStart' = FALSE /\ UNCHANGED indentStack
    <3>1. ~atLineStart /\ UNCHANGED <<indentStack, atLineStart>> /\ Reading(IndentKinds)
      BY <1>7 DEF InnerBlanks
    <3>2. Skip
      BY <1>1, <1>7, BlanksInside
    <3>3. atLineStart \in BOOLEAN
      BY <1>1 DEF TypeOK
    <3> QED
      BY <3>1, <3>2, <3>3 DEF Skip
  <2>2. Head(input).t \notin Visible
    BY <1>1, <2>1, ConsumeReads DEF Visible, IndentKinds
  <2> QED
    BY <2>1, <2>2, InsideMeasures, ReadStays
<1>8. CASE StrayBrace
  <2> DEFINE x == [t |-> "other", w |-> 1]
  <2>1. /\ Reading({"middle", "tail"}) /\ templateDepth = 0
        /\ read' = Append(read, x) /\ UNCHANGED <<indentStack, atLineStart>>
    BY <1>8 DEF StrayBrace
  <2>2. ~atLineStart /\ ~hasError
    BY <2>1 DEF PlainText, Reading
  <2>3. ~Starting
    BY <1>1, <2>2 DEF KInv, LineKnown
  <2>4. read \in Seq(Lexeme) /\ x \in Lexeme /\ atLineStart \in BOOLEAN
    BY <1>1, <2>1, HeadType DEF TypeOK
  <2> HIDE DEF x
  <2>5. BlocksIn(Append(read, x)) = BlocksIn(read)
    BY <2>3, <2>4, BlocksStay DEF Starting
  <2>6. Sizes(indentStack) = BlocksIn(read)
    BY <2>2 DEF BInv
  <2>7. atLineStart' = FALSE
    BY <2>1, <2>2, <2>4
  <2> QED
    BY <2>1, <2>5, <2>6, <2>7, InsideMeasures DEF Sizes
<1>9. CASE InLine
  <2>1. /\ Reading(Visible) /\ Consume /\ ~atLineStart /\ atLineStart' = FALSE
        /\ UNCHANGED indentStack
    BY <1>9 DEF InLine, Visit, Give
  <2>2. ~hasError
    BY <2>1 DEF Reading
  <2>3. ~Starting
    BY <1>1, <2>1, <2>2 DEF KInv, LineKnown
  <2> QED
    BY <2>1, <2>3, InsideMeasures, ReadStays
<1>10. ASSUME Reading(Visible), atLineStart, NEW vs, Visit(vs),
              Sizes(indentStack') = Narrowed(Sizes(indentStack), LineWidth)
       PROVE  LineMeasured' /\ Sizes(indentStack') = BlocksIn(read')
  <2>1. Consume /\ atLineStart' = FALSE
    BY <1>10 DEF Visit, Give
  <2>2. BlocksIn(read') = Narrowed(Sizes(indentStack), LineWidth)
    BY <1>10, <2>1, ReadMoves
  <2> QED
    BY <1>10, <2>1, <2>2, InsideMeasures
<1>11. CASE SameLevel
  BY <1>1, <1>10, <1>11, SameMoves DEF SameLevel
<1>12. CASE Deeper
  BY <1>1, <1>10, <1>12, DeeperMoves DEF Deeper
<1>13. CASE Shallower
  BY <1>1, <1>10, <1>13, ShallowerMoves DEF Shallower
<1>14. CASE NoSuchLevel
  BY <1>14 DEF NoSuchLevel, Reject
<1>15. CASE Deliver \/ OutOfText \/ UNCHANGED vars
  <2>1. UNCHANGED <<read, at, indentStack, current, atLineStart, hasError>>
    BY <1>15 DEF Deliver, OutOfText, vars
  <2>2. LineMeasured /\ Sizes(indentStack) = BlocksIn(read)
    BY <2>1 DEF BInv
  <2>3. LineMeasured'
    BY <2>1, <2>2 DEF LineMeasured, Starting, LineWidth, Size
  <2> QED
    BY <2>1, <2>2, <2>3
<1> QED
  BY <1>2, <1>3, <1>4, <1>5, <1>6, <1>7, <1>8, <1>9, <1>11, <1>12, <1>13, <1>14,
     <1>15 DEF Next

(* A sequence that refuses no line, and one or more tokens.                *)
LEMMA NoneJoins ==
  ASSUME NEW s \in Seq(Given), NoneRefused(s)
  PROVE  /\ \A t \in Given : t # "InvalidIndentSize" => NoneRefused(Append(s, t))
         /\ \A ts \in Seq(Given) : NoneRefused(ts) => NoneRefused(s \o ts)
<1>1. ASSUME NEW t \in Given, t # "InvalidIndentSize"
      PROVE  NoneRefused(Append(s, t))
  <2> DEFINE u == Append(s, t)
  <2>1. /\ u \in Seq(Given) /\ Len(u) = Len(s) + 1 /\ Len(s) \in Nat
        /\ \A i \in 1 .. Len(s) : u[i] = s[i]
        /\ u[Len(s) + 1] = t
        /\ DOMAIN s = 1 .. Len(s)
    BY AppendProperties, LenProperties
  <2> HIDE DEF u
  <2>2. DOMAIN u = 1 .. Len(s) + 1
    BY <2>1, LenProperties
  <2>3. \A i \in 1 .. Len(s) + 1 : i \in 1 .. Len(s) \/ i = Len(s) + 1
    BY <2>1
  <2>4. NoneRefused(u)
    BY <1>1, <2>1, <2>2, <2>3 DEF NoneRefused
  <2> QED
    BY <2>4 DEF u
<1>2. ASSUME NEW ts \in Seq(Given), NoneRefused(ts)
      PROVE  NoneRefused(s \o ts)
  <2> DEFINE u == s \o ts
             m == Len(s)
             k == Len(ts)
  <2>1. /\ m \in Nat /\ k \in Nat /\ DOMAIN s = 1 .. m /\ DOMAIN ts = 1 .. k
        /\ u \in Seq(Given) /\ Len(u) = m + k
        /\ \A i \in 1 .. m + k : u[i] = IF i <= m THEN s[i] ELSE ts[i - m]
    BY ConcatProperties, LenProperties
  <2> HIDE DEF u, m, k
  <2>2. DOMAIN u = 1 .. m + k
    BY <2>1, LenProperties
  <2>3. ASSUME NEW i \in 1 .. m + k
        PROVE  u[i] # "InvalidIndentSize"
    <3>1. CASE i <= m
      <4>1. i \in 1 .. m
        BY <2>1, <3>1
      <4> QED
        BY <2>1, <3>1, <4>1 DEF NoneRefused
    <3>2. CASE ~(i <= m)
      <4>1. i - m \in 1 .. k
        BY <2>1, <3>2
      <4> QED
        BY <1>2, <2>1, <3>2, <4>1 DEF NoneRefused
    <3> QED
      BY <3>1, <3>2
  <2> QED
    BY <2>2, <2>3 DEF NoneRefused, u
<1> QED
  BY <1>1, <1>2

(* Only NoSuchLevel refuses a line, and nothing is read after it.          *)
LEMMA RefusedStep ==
  ASSUME BInv, PlainText, Next
  PROVE  /\ NoneRefused(pending')
         /\ ~NoneRefused(out') => hasError' /\ Misfits(read')
<1>1. /\ TypeOK /\ LInv
      /\ out \in Seq(Given) /\ pending \in Seq(Given)
      /\ NoneRefused(pending)
      /\ << >> \in Seq(Given)
  <2>1. TypeOK /\ LInv /\ NoneRefused(pending)
    BY DEF BInv, KInv, LInv
  <2>2. << >> \in Seq(Given)
    BY EmptySeq
  <2> QED
    BY <2>1, <2>2 DEF TypeOK, Given
<1>2. ASSUME NEW kinds, Reading(kinds)
      PROVE  NoneRefused(out)
  BY <1>2 DEF BInv, Reading
<1>3. ASSUME NEW kinds, Reading(kinds), NEW ts \in Seq(Given), NoneRefused(ts), Give(ts)
      PROVE  /\ NoneRefused(pending')
             /\ ~NoneRefused(out') => hasError' /\ Misfits(read')
  <2>1. out' = out /\ pending' = pending \o ts
    BY <1>3 DEF Give
  <2>2. NoneRefused(out)
    BY <1>2, <1>3
  <2>3. NoneRefused(pending \o ts)
    BY <1>1, <1>3, NoneJoins
  <2> QED
    BY <2>1, <2>2, <2>3
<1>4. ASSUME NEW kinds, Reading(kinds), UNCHANGED <<out, pending>>
      PROVE  /\ NoneRefused(pending')
             /\ ~NoneRefused(out') => hasError' /\ Misfits(read')
  BY <1>1, <1>2, <1>4
<1>5. ASSUME NEW ts \in Seq(Given), NoneRefused(ts), Reading(Visible), Visit(ts)
      PROVE  /\ NoneRefused(pending')
             /\ ~NoneRefused(out') => hasError' /\ Misfits(read')
  <2> DEFINE t == Head(input).t
  <2>1. Give(Append(ts, t)) /\ t \in Visible
    BY <1>1, <1>5, HeadType DEF Visit
  <2>2. t \in Given /\ t # "InvalidIndentSize"
    BY <2>1 DEF Visible, Given, Tokens
  <2>3. Append(ts, t) \in Seq(Given) /\ NoneRefused(Append(ts, t))
    BY <1>5, <2>2, NoneJoins, AppendProperties
  <2> QED
    BY <1>3, <1>5, <2>1, <2>3
<1>6. \A t \in Given : t # "InvalidIndentSize" =>
        << t >> \in Seq(Given) /\ NoneRefused(<< t >>)
  BY DEF NoneRefused
<1>7. NoneRefused(<< >>)
  BY DEF NoneRefused
<1>8. CASE BadLexeme
  <2>1. "InvalidToken" \in Given
    BY DEF Given, Errors
  <2> QED
    BY <1>3, <1>6, <1>8, <2>1 DEF BadLexeme
<1>9. CASE EmptyLine
  BY <1>4, <1>9 DEF EmptyLine, NoNewline, Skip
<1>10. CASE EndLine
  <2>1. "newline" \in Given
    BY DEF Given, Tokens
  <2> QED
    BY <1>3, <1>6, <1>10, <2>1 DEF EndLine
<1>11. CASE LeadingBlanks
  BY <1>4, <1>11 DEF LeadingBlanks, Skip
<1>12. CASE MixedBlanks
  <2>1. /\ Reading(IndentKinds) /\ pending' = pending
        /\ out' = Append(out, "InconsistentIndent")
    BY <1>12 DEF MixedBlanks, Reject
  <2>2. "InconsistentIndent" \in Given
    BY DEF Given, Errors
  <2>3. NoneRefused(Append(out, "InconsistentIndent"))
    BY <1>1, <1>2, <2>1, <2>2, NoneJoins
  <2> QED
    BY <1>1, <2>1, <2>3
<1>13. CASE InnerBlanks
  <2>1. Reading(IndentKinds) /\ Skip
    BY <1>1, <1>13, BlanksInside DEF InnerBlanks
  <2> QED
    BY <1>4, <2>1 DEF Skip
<1>14. CASE StrayBrace
  <2>1. /\ Reading({"middle", "tail"}) /\ out' = out /\ pending' = Append(pending, "rbrace")
    BY <1>14 DEF StrayBrace
  <2>2. "rbrace" \in Given
    BY DEF Given, Tokens
  <2>3. NoneRefused(Append(pending, "rbrace")) /\ NoneRefused(out)
    BY <1>1, <1>2, <2>1, <2>2, NoneJoins
  <2> QED
    BY <2>1, <2>3
<1>15. CASE InLine
  BY <1>1, <1>5, <1>7, <1>15 DEF InLine
<1>16. CASE SameLevel
  BY <1>1, <1>5, <1>7, <1>16 DEF SameLevel
<1>17. CASE Deeper
  <2>1. "Indent" \in Given
    BY DEF Given, Tokens
  <2> QED
    BY <1>5, <1>6, <1>17, <2>1 DEF Deeper
<1>18. CASE Shallower
  <2>1. PICK pos \in 0 .. Len(indentStack) : Visit(Dedents(LevelsClosed(pos)))
    BY <1>18 DEF Shallower
  <2>2. LevelsClosed(pos) \in Nat
    BY <1>1, StackType DEF LevelsClosed
  <2>3. Dedents(LevelsClosed(pos)) \in Seq(Given)
    BY <2>2, TokensType DEF Given
  <2>4. NoneRefused(Dedents(LevelsClosed(pos)))
    BY DEF Dedents, NoneRefused
  <2> QED
    BY <1>5, <1>18, <2>1, <2>3, <2>4 DEF Shallower
<1>19. CASE NoSuchLevel
  <2>1. /\ Reading(Visible) /\ atLineStart /\ Consume /\ hasError' = TRUE
        /\ pending' = << >> /\ current # << >>
        /\ Size(current[1]) < SizeOfTop
        /\ \A pos \in DOMAIN indentStack : ~Level(pos)
    BY <1>19 DEF NoSuchLevel, Reject
  <2>2. LineWidth = Size(current[1]) /\ LineWidth \in Nat
    BY <1>1, <2>1, LineWidthType
  <2>3. indentStack # << >>
    BY <1>1, <2>1, <2>2, SizesType
  <2>4. SizeOfTop \in Sizes(indentStack) /\ LineWidth < SizeOfTop
    BY <1>1, <2>1, <2>2, <2>3, SizesType
  <2>5. LineWidth \notin Sizes(indentStack)
    BY <2>1, <2>2 DEF Sizes, Level
  <2>6. Misfits(read')
    BY <2>1, <2>4, <2>5, ReadMoves
  <2> QED
    BY <1>7, <2>1, <2>6
<1>20. CASE Deliver
  <2>1. /\ pending # << >>
        /\ out' = Append(out, Head(pending)) /\ pending' = Tail(pending)
        /\ UNCHANGED <<read, hasError>>
    BY <1>20 DEF Deliver
  <2>2. /\ DOMAIN pending = 1 .. Len(pending) /\ Len(pending) \in Nat \ {0}
        /\ Head(pending) \in Given /\ Head(pending) = pending[1]
        /\ Tail(pending) \in Seq(Given) /\ Len(Tail(pending)) = Len(pending) - 1
        /\ \A i \in 1 .. Len(Tail(pending)) : Tail(pending)[i] = pending[i + 1]
    BY <1>1, <2>1, HeadTailProperties, LenProperties, EmptySeq
  <2>3. DOMAIN Tail(pending) = 1 .. Len(pending) - 1
    BY <2>2, LenProperties
  <2>4. Head(pending) # "InvalidIndentSize"
    <3>1. 1 \in 1 .. Len(pending)
      BY <2>2
    <3> QED
      BY <1>1, <2>2, <3>1 DEF NoneRefused
  <2>5. NoneRefused(Tail(pending))
    <3>1. \A i \in 1 .. Len(pending) - 1 : i + 1 \in 1 .. Len(pending)
      BY <2>2
    <3> QED
      BY <1>1, <2>2, <2>3, <3>1 DEF NoneRefused
  <2>6. NoneRefused(out) => NoneRefused(Append(out, Head(pending)))
    BY <1>1, <2>2, <2>4, NoneJoins
  <2> QED
    BY <2>1, <2>5, <2>6 DEF BInv
<1>21. CASE OutOfText \/ UNCHANGED vars
  <2>1. UNCHANGED <<read, out, pending, hasError>>
    BY <1>21 DEF OutOfText, vars
  <2> QED
    BY <2>1 DEF BInv
<1> QED
  BY <1>8, <1>9, <1>10, <1>11, <1>12, <1>13, <1>14, <1>15, <1>16, <1>17, <1>18, <1>19,
     <1>20, <1>21 DEF Next

(* While the text is plain.                                                *)
LEMMA BInvHolds == Spec /\ []PlainText => []BInv
<1>1. Init /\ KInv => BInv
  <2> SUFFICES ASSUME Init, KInv PROVE BInv
    OBVIOUS
  <2>1. /\ read = << >> /\ out = << >> /\ pending = << >> /\ indentStack = << >>
        /\ current = << >>
    BY DEF Init
  <2>2. << >> \in Seq(Lexeme) /\ Len(<< >>) = 0 /\ DOMAIN << >> = {}
    BY EmptySeq
  <2>3. Starting
    BY <2>1, <2>2 DEF Starting, StartsIn
  <2>4. WidthsIn(<< >>)[Len(<< >>)] = 0
    BY <2>2, WidthsUnfold
  <2>5. StartsOf(<< >>) = {}
    BY <2>2 DEF StartsOf
  <2>6. BlocksIn(<< >>) = {}
    BY <2>5 DEF BlocksIn
  <2>7. Sizes(<< >>) = {} /\ NoneRefused(<< >>)
    BY <2>2 DEF Sizes, NoneRefused
  <2>8. LineMeasured
    BY <2>1, <2>3, <2>4 DEF LineMeasured, LineWidth
  <2> QED
    BY <2>1, <2>6, <2>7, <2>8 DEF BInv
<1>2. BInv /\ KInv' /\ PlainText /\ [Next]_vars => BInv'
  <2>1. ASSUME BInv, KInv', UNCHANGED vars PROVE BInv'
    <3>1. UNCHANGED <<read, at, out, pending, indentStack, current, atLineStart, hasError>>
      BY <2>1 DEF vars
    <3>2. LineMeasured => LineMeasured'
      BY <3>1 DEF LineMeasured, Starting, LineWidth, Size
    <3> QED
      BY <2>1, <3>1, <3>2 DEF BInv
  <2>2. ASSUME BInv, KInv', PlainText, Next PROVE BInv'
    <3>1. ~hasError' => LineMeasured' /\ Sizes(indentStack') = BlocksIn(read')
      BY <2>2, BlocksStep
    <3>2. /\ NoneRefused(pending')
          /\ ~NoneRefused(out') => hasError' /\ Misfits(read')
      BY <2>2, RefusedStep
    <3> QED
      BY <2>2, <3>1, <3>2 DEF BInv
  <2> QED
    BY <2>1, <2>2
<1> QED
  BY <1>1, <1>2, KInvHolds, PTL DEF Spec

(* The words of the properties.                                            *)
LEMMA LinesAre ==
  ASSUME BInv
  PROVE  /\ LineStarts = StartsOf(read)
         /\ \A p : Width(p) = WideIn(read, p) /\ OpenBlocks(p) = OpenIn(read, p)
<1>1. LineStarts = StartsOf(read)
  BY DEF LineStarts, StartsOf, StartsLine, StartsIn, SameLine
<1>2. WidthAfter = WidthsIn(read)
  BY DEF WidthAfter, WidthsIn, WidthIn
<1>3. \A p : Width(p) = WideIn(read, p)
  BY <1>2 DEF Width, WideIn
<1>4. \A p : OpenBlocks(p) = OpenIn(read, p)
  BY <1>1, <1>3 DEF OpenBlocks, OpenIn
<1> QED
  BY <1>1, <1>3, <1>4

(* For every set of texts, as long as no line of blanks alone and no stray *)
(* brace before the first token of a line is read: in every line the open  *)
(* indents of indent_stack are the widths of the lines that enclose it, as *)
(* read off the text (lexer.rs:322 to 371).                                *)
THEOREM IndentsAreBlocks == Spec /\ []PlainText => []BlocksFollowLines
<1>1. BInv => BlocksFollowLines
  <2> SUFFICES ASSUME BInv, ~hasError, LineStarts # {}
               PROVE  Sizes(indentStack) = OpenBlocks(Max(LineStarts))
    BY DEF BlocksFollowLines, Sizes
  <2>1. read \in Seq(Lexeme)
    BY DEF BInv, KInv, LInv, TypeOK
  <2>2. LineStarts = StartsOf(read) /\ Sizes(indentStack) = BlocksIn(read)
    BY LinesAre DEF BInv
  <2>3. OpenIn(read, Max(StartsOf(read))) = BlocksIn(read)
    BY <2>1, <2>2, OpenNow
  <2> QED
    BY <2>2, <2>3, LinesAre
<1> QED
  BY <1>1, BInvHolds, PTL

(* For the same texts: a line is refused with InvalidIndentSize only if it *)
(* is narrower than the one before and as wide as no block open there, so  *)
(* no text that is laid out well is refused (lexer.rs:341).                *)
THEOREM MisfitsAreRefused == Spec /\ []PlainText => []RefusedLinesMisfit
<1>1. BInv => RefusedLinesMisfit
  <2> SUFFICES ASSUME BInv, ~NoneRefused(out)
               PROVE  LET line   == Max(LineStarts)
                          before == OpenBlocks(Max(LineStarts \ {line}))
                      IN  /\ Width(line) \notin before
                          /\ \E w \in before : Width(line) < w
    BY DEF RefusedLinesMisfit, NoneRefused
  <2>1. Misfits(read)
    BY DEF BInv
  <2> QED
    BY <2>1, LinesAre DEF Misfits
<1> QED
  BY <1>1, BInvHolds, PTL
=============================================================================
