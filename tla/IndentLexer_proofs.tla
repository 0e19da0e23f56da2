-------------------------- MODULE IndentLexer_proofs --------------------------
(***************************************************************************)
(* What holds of IndentAwareLexer for every set of texts.                  *)
(***************************************************************************)
EXTENDS IndentLexer, SequenceTheorems, FiniteSetTheorems, FunctionTheorems, TLAPS

(* The line's indent is not empty, and lies in the text read so far.       *)
CurrentBehind ==
  current # << >> => current[1].from < current[1].to /\ current[1].to <= at

LInv == TypeOK /\ StackDeepens /\ NoIndentInLine /\ CurrentBehind

-----------------------------------------------------------------------------

(* The lexeme read next.                                                   *)
LEMMA HeadType ==
  ASSUME TypeOK, NEW kinds, Reading(kinds)
  PROVE  /\ Head(input).t \in LexemeKinds \cap kinds
         /\ Head(input).w \in Nat \ {0}
         /\ [t |-> "other", w |-> 1] \in Lexeme
<1>1. Head(input) \in Lexeme
  BY HeadTailProperties DEF TypeOK, Reading
<1> QED
  BY <1>1 DEF Reading, Lexeme, LexemeKinds

(* Reading on keeps the types of the text read and the text to come.       *)
LEMMA ConsumeType ==
  ASSUME TypeOK, NEW kinds, Reading(kinds), Consume
  PROVE  /\ read' \in Seq(Lexeme)
         /\ input' \in Seq(Lexeme)
         /\ at' \in Nat
         /\ at' = at + Head(input).w
         /\ at < at'
<1>1. Head(input) \in Lexeme /\ Tail(input) \in Seq(Lexeme)
  BY HeadTailProperties DEF TypeOK, Reading
<1>2. read' \in Seq(Lexeme)
  BY <1>1, AppendProperties DEF TypeOK, Consume
<1> QED
  BY <1>1, <1>2, HeadType DEF TypeOK, Consume

(* What is handed over stays a sequence of tokens and errors.              *)
LEMMA GiveType ==
  ASSUME TypeOK, NEW kinds, Reading(kinds), NEW tokens \in Seq(Tokens \cup Errors),
         Give(tokens)
  PROVE  /\ out' \in Seq(Tokens \cup Errors)
         /\ pending' \in Seq(Tokens \cup Errors)
         /\ scanning' \in BOOLEAN
BY ConcatProperties DEF TypeOK, Give

(* An error returned at once stays among them.                             *)
LEMMA RejectType ==
  ASSUME TypeOK, NEW error \in Errors, Reject(error)
  PROVE  /\ out' \in Seq(Tokens \cup Errors)
         /\ hasError' \in BOOLEAN
         /\ scanning' \in BOOLEAN
BY AppendProperties DEF TypeOK, Reject

(* The line's indent, where there is one.                                  *)
LEMMA CurrentType ==
  ASSUME TypeOK, current # << >>
  PROVE  /\ Len(current) = 1
         /\ current[1] \in Indent
         /\ Size(current[1]) \in Int
<1>1. current \in Seq(Indent) /\ Len(current) <= 1
  BY DEF TypeOK
<1>2. Len(current) \in Nat \ {0}
  BY <1>1, EmptySeq
<1>3. Len(current) = 1
  <2>1. \A m \in Nat : m # 0 /\ m <= 1 => m = 1
    OBVIOUS
  <2> QED
    BY <1>1, <1>2, <2>1
<1>4. current[1] \in Indent
  BY <1>1, <1>3, ElementOfSeq
<1>5. Size(current[1]) \in Int
  BY <1>4 DEF Indent, Size
<1> QED
  BY <1>3, <1>4, <1>5

(* The sizes of the open indents are ints, and Last is the last of them.   *)
LEMMA StackType ==
  ASSUME TypeOK
  PROVE  /\ Len(indentStack) \in Nat
         /\ DOMAIN indentStack = 1 .. Len(indentStack)
         /\ \A i \in DOMAIN indentStack :
              indentStack[i] \in Indent /\ Size(indentStack[i]) \in Int
         /\ indentStack # << >> => Len(indentStack) \in DOMAIN indentStack
<1>1. indentStack \in Seq(Indent)
  BY DEF TypeOK
<1>2. Len(indentStack) \in Nat /\ DOMAIN indentStack = 1 .. Len(indentStack)
  BY <1>1, LenProperties
<1>3. \A i \in DOMAIN indentStack : indentStack[i] \in Indent
  BY <1>1, <1>2, ElementOfSeq
<1>4. \A i \in DOMAIN indentStack : Size(indentStack[i]) \in Int
  BY <1>3 DEF Indent, Size
<1>5. indentStack # << >> => Len(indentStack) \in DOMAIN indentStack
  BY <1>1, <1>2, EmptySeq
<1> QED
  BY <1>2, <1>3, <1>4, <1>5

-----------------------------------------------------------------------------
(* What the steps do to the indents.                                       *)

(* The line goes on, or is over, as it was.                                *)
LEMMA SameIndents ==
  ASSUME LInv, at' \in Nat, at <= at', UNCHANGED <<indentStack, current, atLineStart>>
  PROVE  StackDeepens' /\ NoIndentInLine' /\ CurrentBehind'
<1>1. StackDeepens' /\ NoIndentInLine'
  BY DEF LInv, StackDeepens, NoIndentInLine, Size
<1>2. CASE current = << >>
  BY <1>1, <1>2 DEF CurrentBehind
<1>3. CASE current # << >>
  <2>1. current[1].to \in Nat /\ at \in Nat
    BY <1>3, CurrentType DEF LInv, TypeOK, Indent
  <2> QED
    BY <1>1, <1>3, <2>1 DEF LInv, CurrentBehind
<1> QED
  BY <1>2, <1>3

(* The line's indent is taken or dropped, and no level opens or closes.    *)
LEMMA IndentGone ==
  ASSUME LInv, current' = << >>, UNCHANGED indentStack
  PROVE  StackDeepens' /\ NoIndentInLine' /\ CurrentBehind'
BY DEF LInv, StackDeepens, NoIndentInLine, CurrentBehind, Size

(* The line's first blanks, or more of them, end where the text is read to.*)
LEMMA IndentFound ==
  ASSUME LInv, LeadingBlanks
  PROVE  /\ current' \in Seq(Indent) /\ Len(current') <= 1
         /\ StackDeepens' /\ NoIndentInLine' /\ CurrentBehind'
<1> DEFINE from == IF current = << >> THEN at ELSE current[1].from
           new  == [kind |-> Head(input).t, from |-> from, to |-> at + Head(input).w]
<1>1. /\ Head(input).t \in IndentKinds
      /\ Head(input).w \in Nat \ {0}
  BY HeadType DEF LInv, LeadingBlanks
<1>2. at \in Nat
  BY DEF LInv, TypeOK
<1>3. from \in Nat /\ from <= at
  BY <1>2, CurrentType DEF LInv, CurrentBehind, Indent
<1>4. current' = << new >>
  BY DEF LeadingBlanks, NewIndent
<1>5. at' = at + Head(input).w
  BY DEF LeadingBlanks, Skip, Consume
<1>6. new \in Indent /\ new.from < new.to /\ new.to = at'
  BY <1>1, <1>2, <1>3, <1>5 DEF Indent
<1>7. UNCHANGED <<indentStack, atLineStart>> /\ atLineStart
  BY DEF LeadingBlanks
<1>8. StackDeepens'
  BY <1>7 DEF LInv, StackDeepens, Size
<1> HIDE DEF new, from
<1>9. current' \in Seq(Indent) /\ Len(current') = 1 /\ current'[1] = new
  BY <1>4, <1>6
<1>10. at' \in Nat
  BY <1>1, <1>2, <1>5
<1> QED
  BY <1>6, <1>7, <1>8, <1>9, <1>10 DEF NoIndentInLine, CurrentBehind

(* A line that is deeper than the last open indent opens one more.         *)
LEMMA IndentOpens ==
  ASSUME LInv, Deeper
  PROVE  /\ indentStack' \in Seq(Indent)
         /\ StackDeepens' /\ NoIndentInLine' /\ CurrentBehind'
<1> DEFINE n == Len(indentStack)
           new == current[1]
<1>1. /\ n \in Nat
      /\ DOMAIN indentStack = 1 .. n
      /\ \A i \in 1 .. n : Size(indentStack[i]) \in Int
      /\ indentStack # << >> => n \in 1 .. n
  BY StackType DEF LInv
<1>2. new \in Indent /\ Size(new) \in Int /\ Len(current) = 1
  BY CurrentType DEF LInv, Deeper
<1>3. Size(new) > 0
  BY <1>2 DEF LInv, CurrentBehind, Deeper, Size, Indent
<1>4. \A i \in 1 .. n : Size(indentStack[i]) < Size(new)
  <2>1. CASE indentStack = << >>
    BY <2>1
  <2>2. CASE indentStack # << >>
    <3>1. Size(indentStack[n]) < Size(new)
      BY <1>1, <1>2, <2>2 DEF Deeper, SizeOfTop, Last
    <3>2. \A i \in 1 .. n : i < n => Size(indentStack[i]) < Size(indentStack[n])
      BY <1>1, <2>2 DEF LInv, StackDeepens
    <3> QED
      BY <1>1, <1>2, <2>2, <3>1, <3>2
  <2> QED
    BY <2>1, <2>2
<1>5. indentStack \in Seq(Indent) /\ current \in Seq(Indent)
  BY DEF LInv, TypeOK
<1>6. indentStack' = indentStack \o current
  BY DEF Deeper
<1>7. /\ indentStack' \in Seq(Indent)
      /\ Len(indentStack') = n + 1
      /\ \A i \in 1 .. n : indentStack'[i] = indentStack[i]
      /\ indentStack'[n + 1] = new
  <2> DEFINE longer == indentStack \o current
  <2>1. /\ longer \in Seq(Indent)
        /\ Len(longer) = n + Len(current)
        /\ \A i \in 1 .. n + Len(current) :
             longer[i] = IF i <= n THEN indentStack[i] ELSE current[i - n]
    BY <1>5, ConcatProperties
  <2>3. \A i \in 1 .. n : i \in 1 .. n + 1 /\ i <= n
    BY <1>1
  <2>4. indentStack' = longer /\ Len(current) = 1
    BY <1>2, <1>6
  <2> HIDE DEF n, longer
  <2>5. \A i \in 1 .. n : longer[i] = indentStack[i]
    BY <2>1, <2>3, <2>4
  <2>6. \A i \in 1 .. n + 1 :
          longer[i] = IF i <= n THEN indentStack[i] ELSE current[i - n]
    BY <2>1, <2>4
  <2>7. longer[n + 1] = current[1]
    <3> DEFINE m == n + 1
    <3>1. m \in 1 .. n + 1 /\ ~(m <= n) /\ m - n = 1
      BY <1>1
    <3> HIDE DEF m
    <3>2. longer[m] = current[1]
      BY <2>6, <3>1
    <3> QED
      BY <3>2 DEF m
  <2> QED
    BY <2>1, <2>4, <2>5, <2>7
<1>8. DOMAIN indentStack' = 1 .. n + 1
  BY <1>7, LenProperties
<1>9. \A i \in 1 .. n : Size(indentStack[i]) > 0
  BY <1>1 DEF LInv, StackDeepens
<1>10. \A i, j \in 1 .. n : i < j => Size(indentStack[i]) < Size(indentStack[j])
  BY <1>1 DEF LInv, StackDeepens
<1> DEFINE S(i) == Size(indentStack'[i])
<1>11. /\ \A i \in 1 .. n : S(i) = Size(indentStack[i])
       /\ S(n + 1) = Size(new)
  BY <1>7
<1>12. \A i \in 1 .. n + 1 : i \in 1 .. n \/ i = n + 1
  BY <1>1
<1> HIDE DEF n, new, S
<1>13. \A i \in 1 .. n + 1 : S(i) > 0
  BY <1>3, <1>9, <1>11, <1>12
<1>14. \A i, j \in 1 .. n + 1 : i < j => S(i) < S(j)
  BY <1>1, <1>4, <1>10, <1>11, <1>12
<1>15. StackDeepens'
  BY <1>8, <1>13, <1>14 DEF StackDeepens, S, Size
<1> QED
  BY <1>7, <1>15 DEF Deeper, IndentTaken, NoIndentInLine, CurrentBehind

(* A shallower line keeps the open indents up to its own level.            *)
LEMMA IndentsClose ==
  ASSUME LInv, Shallower
  PROVE  /\ indentStack' \in Seq(Indent)
         /\ StackDeepens' /\ NoIndentInLine' /\ CurrentBehind'
<1>1. PICK pos \in 0 .. Len(indentStack) : indentStack' = Kept(pos)
  BY DEF Shallower
<1>2. /\ Len(indentStack) \in Nat
      /\ DOMAIN indentStack = 1 .. Len(indentStack)
      /\ \A i \in 1 .. Len(indentStack) : indentStack[i] \in Indent
  BY StackType DEF LInv
<1>3. /\ pos \in Nat /\ pos <= Len(indentStack)
      /\ \A i \in 1 .. pos : i \in 1 .. Len(indentStack)
  BY <1>2
<1>4. /\ indentStack' \in Seq(Indent)
      /\ Len(indentStack') = pos
      /\ \A i \in 1 .. pos : indentStack'[i] = indentStack[i]
  BY <1>1, <1>2, <1>3, SubSeqProperties DEF Kept
<1>5. DOMAIN indentStack' = 1 .. pos
  BY <1>4, LenProperties
<1>6. \A i \in 1 .. pos : Size(indentStack[i]) > 0
  BY <1>2, <1>3 DEF LInv, StackDeepens
<1>7. \A i, j \in 1 .. pos : i < j => Size(indentStack[i]) < Size(indentStack[j])
  BY <1>2, <1>3 DEF LInv, StackDeepens
<1>8. StackDeepens'
  BY <1>4, <1>5, <1>6, <1>7 DEF StackDeepens, Size
<1> QED
  BY <1>4, <1>8 DEF Shallower, IndentTaken, NoIndentInLine, CurrentBehind

(* Blanks inside a line change nothing: the line's indent is taken.        *)
LEMMA BlanksInside ==
  ASSUME LInv, InnerBlanks
  PROVE  current = << >> /\ current' = << >> /\ Skip /\ UNCHANGED hasError
BY DEF LInv, NoIndentInLine, InnerBlanks

-----------------------------------------------------------------------------

(* A nested template's depth never falls below 0.                          *)
LEMMA NestingType ==
  ASSUME TypeOK, NEW kinds, Reading(kinds), Nesting
  PROVE  templateDepth' \in Nat
<1>1. templateDepth \in Nat
  BY DEF TypeOK
<1>2. CASE Head(input).t = "head"
  BY <1>1, <1>2 DEF Nesting
<1>3. CASE Head(input).t = "tail"
  BY <1>1, <1>3 DEF Nesting
<1>4. CASE Head(input).t \notin {"head", "tail"}
  BY <1>1, <1>4 DEF Nesting
<1> QED
  BY <1>2, <1>3, <1>4

(* A token read as it stands, after Indents or Dedents.                    *)
LEMMA VisitType ==
  ASSUME TypeOK, Reading(Visible), NEW tokens \in Seq(Tokens \cup Errors), Visit(tokens)
  PROVE  /\ out' \in Seq(Tokens \cup Errors)
         /\ pending' \in Seq(Tokens \cup Errors)
         /\ scanning' \in BOOLEAN
         /\ atLineStart' = FALSE
         /\ hasError' = hasError
         /\ Consume
<1>1. Head(input).t \in Tokens \cup Errors
  BY HeadType DEF Visible, Tokens
<1>2. Append(tokens, Head(input).t) \in Seq(Tokens \cup Errors)
  BY <1>1, AppendProperties
<1>3. Give(Append(tokens, Head(input).t)) /\ atLineStart' = FALSE /\ hasError' = hasError
  BY DEF Visit
<1> QED
  BY <1>2, <1>3, GiveType DEF Give

(* One token, or any number of Dedents, is a sequence of tokens.           *)
LEMMA TokensType ==
  /\ << >> \in Seq(Tokens \cup Errors)
  /\ \A t \in Tokens \cup Errors : << t >> \in Seq(Tokens \cup Errors)
  /\ \A n \in Nat : Dedents(n) \in Seq(Tokens \cup Errors)
<1>1. "Dedent" \in Tokens \cup Errors
  BY DEF Tokens
<1>2. \A n \in Nat : Dedents(n) \in Seq(Tokens \cup Errors)
  BY <1>1, IsASeq DEF Dedents
<1> QED
  BY <1>2, EmptySeq

(* Every action keeps the types.                                           *)
LEMMA TypeStep ==
  ASSUME LInv, Next
  PROVE  TypeOK'
<1> USE DEF LInv
<1>1. CASE BadLexeme
  <2>1. Reading({"bad"}) /\ Give(<< "InvalidToken" >>) /\ hasError' = TRUE
        /\ UNCHANGED <<indentStack, current, atLineStart, templateDepth>>
    BY <1>1 DEF BadLexeme
  <2>2. << "InvalidToken" >> \in Seq(Tokens \cup Errors)
    BY TokensType DEF Errors
  <2>3. Consume
    BY <2>1 DEF Give
  <2> QED
    BY <2>1, <2>2, <2>3, GiveType, ConsumeType DEF TypeOK
<1>2. CASE EmptyLine
  <2>1. Reading({"newline"}) /\ Consume /\ scanning' = TRUE
        /\ UNCHANGED <<out, pending, indentStack, current, atLineStart, hasError,
                       templateDepth>>
    BY <1>2 DEF EmptyLine, NoNewline, Skip
  <2> QED
    BY <2>1, ConsumeType DEF TypeOK
<1>3. CASE EndLine
  <2>1. Reading({"newline"}) /\ Give(<< "newline" >>) /\ current' = << >>
        /\ atLineStart' = TRUE /\ UNCHANGED <<indentStack, hasError, templateDepth>>
    BY <1>3 DEF EndLine
  <2>2. << "newline" >> \in Seq(Tokens \cup Errors)
    BY TokensType DEF Tokens
  <2>3. Consume
    BY <2>1 DEF Give
  <2>4. << >> \in Seq(Indent) /\ Len(<< >>) <= 1
    BY EmptySeq
  <2> QED
    BY <2>1, <2>2, <2>3, <2>4, GiveType, ConsumeType DEF TypeOK
<1>4. CASE LeadingBlanks
  <2>1. Reading(IndentKinds) /\ Consume /\ scanning' = TRUE
        /\ UNCHANGED <<out, pending, indentStack, atLineStart, hasError, templateDepth>>
    BY <1>4 DEF LeadingBlanks, Skip
  <2> QED
    BY <1>4, <2>1, IndentFound, ConsumeType DEF TypeOK
<1>5. CASE MixedBlanks
  <2>1. Reading(IndentKinds) /\ Reject("InconsistentIndent")
        /\ UNCHANGED <<pending, indentStack, current, atLineStart, templateDepth>>
    BY <1>5 DEF MixedBlanks
  <2>2. Consume
    BY <2>1 DEF Reject
  <2>3. "InconsistentIndent" \in Errors
    BY DEF Errors
  <2> QED
    BY <2>1, <2>2, <2>3, RejectType, ConsumeType DEF TypeOK
<1>6. CASE InnerBlanks
  <2>1. Reading(IndentKinds) /\ Consume /\ scanning' = TRUE /\ current' = << >>
        /\ current = << >>
        /\ UNCHANGED <<out, pending, indentStack, atLineStart, hasError, templateDepth>>
    BY <1>6, BlanksInside DEF InnerBlanks, Skip
  <2> QED
    BY <2>1, ConsumeType DEF TypeOK
<1>7. CASE StrayBrace
  <2>1. Reading({"middle", "tail"})
        /\ pending' = Append(pending, "rbrace")
        /\ read' = Append(read, [t |-> "other", w |-> 1])
        /\ at' = at + 1 /\ input' \in Rescanned /\ scanning' = TRUE
        /\ UNCHANGED <<out, indentStack, current, atLineStart, hasError, templateDepth>>
    BY <1>7 DEF StrayBrace
  <2>2. input' \in Seq(Lexeme) /\ at' \in Nat
    BY <2>1, InputsAssumption DEF TypeOK
  <2>3. read' \in Seq(Lexeme)
    BY <2>1, HeadType, AppendProperties DEF TypeOK
  <2>4. pending' \in Seq(Tokens \cup Errors)
    BY <2>1, AppendProperties DEF TypeOK, Tokens
  <2> QED
    BY <2>1, <2>2, <2>3, <2>4 DEF TypeOK
<1>8. CASE InLine
  <2>1. Reading(Visible) /\ Nesting /\ Visit(<< >>) /\ UNCHANGED <<indentStack, current>>
    BY <1>8 DEF InLine
  <2> QED
    BY <2>1, TokensType, NestingType, VisitType, ConsumeType DEF TypeOK
<1>9. CASE SameLevel
  <2>1. Reading(Visible) /\ Nesting /\ Visit(<< >>) /\ current' = << >>
        /\ UNCHANGED indentStack
    BY <1>9 DEF SameLevel, IndentTaken
  <2>2. << >> \in Seq(Indent) /\ Len(<< >>) <= 1
    BY EmptySeq
  <2> QED
    BY <2>1, <2>2, TokensType, NestingType, VisitType, ConsumeType DEF TypeOK
<1>10. CASE Deeper
  <2>1. Reading(Visible) /\ Nesting /\ Visit(<< "Indent" >>) /\ current' = << >>
    BY <1>10 DEF Deeper, IndentTaken
  <2>2. << >> \in Seq(Indent) /\ Len(<< >>) <= 1
    BY EmptySeq
  <2>3. << "Indent" >> \in Seq(Tokens \cup Errors)
    BY TokensType DEF Tokens
  <2> QED
    BY <1>10, <2>1, <2>2, <2>3, IndentOpens, NestingType, VisitType, ConsumeType DEF TypeOK
<1>11. CASE Shallower
  <2>1. Reading(Visible) /\ Nesting /\ current' = << >>
    BY <1>11 DEF Shallower, IndentTaken
  <2>2. PICK pos \in 0 .. Len(indentStack) : Visit(Dedents(LevelsClosed(pos)))
    BY <1>11 DEF Shallower
  <2>3. LevelsClosed(pos) \in Nat
    BY StackType DEF LevelsClosed
  <2>4. << >> \in Seq(Indent) /\ Len(<< >>) <= 1
    BY EmptySeq
  <2>5. Dedents(LevelsClosed(pos)) \in Seq(Tokens \cup Errors)
    BY <2>3, TokensType
  <2> QED
    BY <1>11, <2>1, <2>2, <2>4, <2>5, IndentsClose, NestingType, VisitType, ConsumeType
       DEF TypeOK
<1>12. CASE NoSuchLevel
  <2>1. Reading(Visible) /\ Nesting /\ Reject("InvalidIndentSize") /\ pending' = << >>
        /\ current' = << >> /\ UNCHANGED <<indentStack, atLineStart>>
    BY <1>12 DEF NoSuchLevel, IndentTaken
  <2>2. Consume
    BY <2>1 DEF Reject
  <2>3. "InvalidIndentSize" \in Errors
    BY DEF Errors
  <2>4. << >> \in Seq(Indent) /\ Len(<< >>) <= 1
    BY EmptySeq
  <2> QED
    BY <2>1, <2>2, <2>3, <2>4, TokensType, NestingType, RejectType, ConsumeType DEF TypeOK
<1>13. CASE Deliver
  <2>1. Head(pending) \in Tokens \cup Errors /\ Tail(pending) \in Seq(Tokens \cup Errors)
    BY <1>13, HeadTailProperties DEF Deliver, TypeOK
  <2>2. out' \in Seq(Tokens \cup Errors)
    BY <1>13, <2>1, AppendProperties DEF Deliver, TypeOK
  <2> QED
    BY <1>13, <2>1, <2>2 DEF Deliver, TypeOK
<1>14. CASE OutOfText \/ UNCHANGED vars
  BY <1>14 DEF OutOfText, vars, TypeOK
<1> QED
  BY <1>1, <1>2, <1>3, <1>4, <1>5, <1>6, <1>7, <1>8, <1>9, <1>10, <1>11, <1>12, <1>13,
     <1>14 DEF Next

(* Reading on in a line leaves its indents as they were.                   *)
LEMMA ReadOn ==
  ASSUME LInv, NEW kinds, Reading(kinds), Consume,
         UNCHANGED <<indentStack, current, atLineStart>>
  PROVE  StackDeepens' /\ NoIndentInLine' /\ CurrentBehind'
<1>1. at \in Nat /\ at' \in Nat /\ at < at'
  BY ConsumeType DEF LInv, TypeOK
<1>2. at <= at'
  BY <1>1
<1> QED
  BY <1>1, <1>2, SameIndents

(* Every action keeps the open indents in order.                           *)
LEMMA IndentStep ==
  ASSUME LInv, Next
  PROVE  StackDeepens' /\ NoIndentInLine' /\ CurrentBehind'
<1> USE DEF LInv
<1>1. at \in Nat
  BY DEF TypeOK
<1>2. CASE BadLexeme
  BY <1>2, ReadOn DEF BadLexeme, Give
<1>3. CASE EmptyLine
  BY <1>3, ReadOn DEF EmptyLine, NoNewline, Skip
<1>4. CASE EndLine
  BY <1>4, IndentGone DEF EndLine
<1>5. CASE LeadingBlanks
  BY <1>5, IndentFound
<1>6. CASE MixedBlanks
  BY <1>6, ReadOn DEF MixedBlanks, Reject
<1>7. CASE InnerBlanks
  BY <1>7, BlanksInside, IndentGone DEF InnerBlanks
<1>8. CASE StrayBrace
  <2>1. at' \in Nat /\ at <= at'
    BY <1>1, <1>8 DEF StrayBrace
  <2> QED
    BY <1>8, <2>1, SameIndents DEF StrayBrace
<1>9. CASE InLine
  <2>1. current' = << >> /\ UNCHANGED indentStack
    BY <1>9 DEF InLine, NoIndentInLine
  <2> QED
    BY <2>1, IndentGone
<1>10. CASE SameLevel
  BY <1>10, IndentGone DEF SameLevel, IndentTaken
<1>11. CASE Deeper
  BY <1>11, IndentOpens
<1>12. CASE Shallower
  BY <1>12, IndentsClose
<1>13. CASE NoSuchLevel
  BY <1>13, IndentGone DEF NoSuchLevel, IndentTaken
<1>14. CASE Deliver \/ OutOfText \/ UNCHANGED vars
  <2>1. UNCHANGED <<at, indentStack, current, atLineStart>>
    BY <1>14 DEF Deliver, OutOfText, vars
  <2> QED
    BY <1>1, <2>1, SameIndents
<1> QED
  BY <1>2, <1>3, <1>4, <1>5, <1>6, <1>7, <1>8, <1>9, <1>10, <1>11, <1>12, <1>13,
     <1>14 DEF Next

(* Nothing is open before the text, and every step keeps the invariant.    *)
LEMMA LInvHolds == Spec => []LInv
<1>1. Init => LInv
  <2> SUFFICES ASSUME Init PROVE LInv
    OBVIOUS
  <2>1. input \in Seq(Lexeme)
    BY InputsAssumption DEF Init
  <2>2. /\ << >> \in Seq(Lexeme)
        /\ << >> \in Seq(Tokens \cup Errors)
        /\ << >> \in Seq(Indent) /\ Len(<< >>) <= 1
    BY EmptySeq
  <2>3. TypeOK
    BY <2>1, <2>2 DEF Init, TypeOK
  <2>4. DOMAIN indentStack = {}
    BY StackType, <2>3, EmptySeq DEF Init
  <2> QED
    BY <2>3, <2>4 DEF Init, LInv, StackDeepens, NoIndentInLine, CurrentBehind
<1>2. LInv /\ [Next]_vars => LInv'
  <2>1. ASSUME LInv, UNCHANGED vars PROVE LInv'
    BY <2>1 DEF LInv, TypeOK, StackDeepens, NoIndentInLine, CurrentBehind, Size, vars
  <2>2. ASSUME LInv, Next PROVE LInv'
    BY <2>2, TypeStep, IndentStep DEF LInv
  <2> QED
    BY <2>1, <2>2
<1> QED
  BY <1>1, <1>2, PTL DEF Spec

(* For every set of texts: what the lexer keeps is well formed, it holds   *)
(* one indent of the line at most, and template_depth, a u32, never falls  *)
(* below 0 however many template tails a text has.                         *)
THEOREM LexerTypeCorrect == Spec => []TypeOK
<1>1. LInv => TypeOK
  BY DEF LInv
<1> QED
  BY <1>1, LInvHolds, PTL

(* The open indents get deeper and deeper, so that rposition (lexer.rs:341)*)
(* finds the only indent of a size, and a line closes no more than it must.*)
THEOREM IndentsDeepen == Spec => []StackDeepens
<1>1. LInv => StackDeepens
  BY DEF LInv
<1> QED
  BY <1>1, LInvHolds, PTL

(* Inside a line there is no current_indent: the branch for blanks there   *)
(* (lexer.rs:308) never extends one and never refuses a text.              *)
THEOREM IndentTakenInLine == Spec => []NoIndentInLine
<1>1. LInv => NoIndentInLine
  BY DEF LInv
<1> QED
  BY <1>1, LInvHolds, PTL

-----------------------------------------------------------------------------
(* Indents and Dedents are counted.                                        *)

Places(s, token) == {i \in DOMAIN s : s[i] = token}

(* The places of a token are finitely many, and are counted by Count.      *)
LEMMA PlacesFinite ==
  ASSUME NEW S, NEW s \in Seq(S), NEW token
  PROVE  /\ IsFiniteSet(Places(s, token))
         /\ Count(s, token) = Cardinality(Places(s, token))
         /\ Count(s, token) \in Nat
<1>1. Len(s) \in Nat /\ DOMAIN s = 1 .. Len(s)
  BY LenProperties
<1>2. IsFiniteSet(1 .. Len(s))
  BY <1>1, FS_Interval
<1>3. Places(s, token) \in SUBSET (1 .. Len(s))
  BY <1>1 DEF Places
<1>4. IsFiniteSet(Places(s, token))
  BY <1>2, <1>3, FS_Subset
<1> QED
  BY <1>4, FS_CardinalityType DEF Count, Places

(* In a concatenation the counts add up.                                   *)
LEMMA CountConcat ==
  ASSUME NEW S, NEW s \in Seq(S), NEW t \in Seq(S), NEW token
  PROVE  Count(s \o t, token) = Count(s, token) + Count(t, token)
<1> DEFINE m == Len(s)
           n == Len(t)
           A == Places(s, token)
           B == Places(t, token)
           C == {i \in m + 1 .. m + n : t[i - m] = token}
           f == [i \in B |-> i + m]
<1>1. /\ m \in Nat /\ n \in Nat
      /\ DOMAIN s = 1 .. m /\ DOMAIN t = 1 .. n
  BY LenProperties
<1>2. /\ s \o t \in Seq(S)
      /\ DOMAIN (s \o t) = 1 .. m + n
      /\ \A i \in 1 .. m + n : (s \o t)[i] = IF i <= m THEN s[i] ELSE t[i - m]
  BY ConcatProperties, LenProperties
<1> HIDE DEF m, n
<1>3. \A i \in 1 .. m : i \in 1 .. m + n /\ i <= m
  BY <1>1
<1>4. \A i \in m + 1 .. m + n : i \in 1 .. m + n /\ ~(i <= m)
  BY <1>1
<1>5. \A i \in 1 .. m + n : i \in 1 .. m \/ i \in m + 1 .. m + n
  BY <1>1
<1>6. Places(s \o t, token) = A \cup C
  BY <1>1, <1>2, <1>3, <1>4, <1>5 DEF Places
<1>7. A \cap C = {}
  BY <1>1, <1>4 DEF Places
<1>8. ExistsBijection(B, C)
  <2>1. \A i \in B : i \in 1 .. n /\ t[i] = token
    BY <1>1 DEF Places
  <2>2. \A i \in 1 .. n : i + m \in m + 1 .. m + n /\ (i + m) - m = i
    BY <1>1
  <2>3. f \in [B -> C]
    BY <2>1, <2>2
  <2>4. \A a, b \in B : f[a] = f[b] => a = b
    BY <1>1, <2>1
  <2>5. \A c \in C : \E b \in B : f[b] = c
    <3> TAKE c \in C
    <3>1. c - m \in 1 .. n /\ (c - m) + m = c /\ t[c - m] = token
      BY <1>1
    <3>2. c - m \in B
      BY <1>1, <3>1 DEF Places
    <3> QED
      BY <3>1, <3>2
  <2>6. f \in Bijection(B, C)
    BY <2>3, <2>4, <2>5, Fun_IsBij
  <2> QED
    BY <2>6, Fun_ExistsBij
<1>9. /\ IsFiniteSet(A) /\ Count(s, token) = Cardinality(A) /\ Cardinality(A) \in Nat
      /\ IsFiniteSet(B) /\ Count(t, token) = Cardinality(B) /\ Cardinality(B) \in Nat
      /\ Count(s \o t, token) = Cardinality(Places(s \o t, token))
  BY <1>2, PlacesFinite
<1> HIDE DEF A, B, C, f
<1>10. IsFiniteSet(C) /\ Cardinality(C) = Cardinality(B)
  BY <1>8, <1>9, FS_Bijection
<1>11. Cardinality(A \cup C) = Cardinality(A) + Cardinality(C) - Cardinality(A \cap C)
  BY <1>9, <1>10, FS_Union
<1>12. Cardinality(A \cap C) = 0
  BY <1>7, FS_EmptySet
<1> QED
  BY <1>6, <1>9, <1>10, <1>11, <1>12

(* A single token counts once or not at all.                               *)
LEMMA CountOne ==
  ASSUME NEW t, NEW token
  PROVE  Count(<< t >>, token) = IF t = token THEN 1 ELSE 0
<1>1. Places(<< t >>, token) = IF t = token THEN {} \cup {1} ELSE {}
  BY DEF Places
<1>2. Cardinality({} \cup {1}) = 1 /\ Cardinality({}) = 0
  BY FS_EmptySet, FS_AddElement
<1>3. Count(<< t >>, token) = Cardinality(Places(<< t >>, token))
  BY DEF Count, Places
<1> QED
  BY <1>1, <1>2, <1>3

(* Appending adds one to the count of what is appended.                    *)
LEMMA CountAppend ==
  ASSUME NEW S, NEW s \in Seq(S), NEW t \in S, NEW token
  PROVE  Count(Append(s, t), token) = Count(s, token) + IF t = token THEN 1 ELSE 0
<1>1. << t >> \in Seq(S) /\ Append(s, t) = s \o << t >>
  BY AppendIsConcat
<1>2. Count(s \o << t >>, token) = Count(s, token) + Count(<< t >>, token)
  BY <1>1, CountConcat
<1>3. Count(<< t >>, token) = IF t = token THEN 1 ELSE 0
  BY CountOne
<1> QED
  BY <1>1, <1>2, <1>3

(* n Dedents are n Dedents and no Indent.                                  *)
LEMMA CountDedents ==
  ASSUME NEW n \in Nat
  PROVE  Count(Dedents(n), "Dedent") = n /\ Count(Dedents(n), "Indent") = 0
<1>1. Places(Dedents(n), "Dedent") = 1 .. n /\ Places(Dedents(n), "Indent") = {}
  BY DEF Places, Dedents
<1>2. Cardinality(1 .. n) = n
  BY FS_Interval
<1> QED
  BY <1>1, <1>2, FS_EmptySet DEF Count, Places

(* What no token of a sequence is counts zero times.                       *)
LEMMA CountNone ==
  ASSUME NEW S, NEW s \in Seq(S), NEW token, \A i \in DOMAIN s : s[i] # token
  PROVE  Count(s, token) = 0
<1>1. Places(s, token) = {}
  BY DEF Places
<1> QED
  BY <1>1, FS_EmptySet, PlacesFinite

-----------------------------------------------------------------------------
(* Indents and Dedents balance.                                            *)

Given == Tokens \cup Errors
Margins == {"Indent", "Dedent"}

(* The Indents of a sequence that no Dedent of it closes.                  *)
Balance(s) == Count(s, "Indent") - Count(s, "Dedent")

Balanced == Balance(out) + Balance(pending) = Len(indentStack)

(* While next() is in its loop only the braces of stray template pieces    *)
(* are pending, so an error that drops what is pending drops no Indent.    *)
BracesPending == scanning => \A i \in DOMAIN pending : pending[i] \notin Margins

MInv == LInv /\ BracesPending /\ Balanced

(* Balances add up.                                                        *)
LEMMA BalanceConcat ==
  ASSUME NEW S, NEW s \in Seq(S), NEW t \in Seq(S)
  PROVE  /\ Balance(s) \in Int /\ Balance(t) \in Int
         /\ Balance(s \o t) = Balance(s) + Balance(t)
<1>1. /\ Count(s, "Indent") \in Nat /\ Count(s, "Dedent") \in Nat
      /\ Count(t, "Indent") \in Nat /\ Count(t, "Dedent") \in Nat
  BY PlacesFinite
<1>2. Count(s \o t, "Indent") = Count(s, "Indent") + Count(t, "Indent")
  BY CountConcat
<1>3. Count(s \o t, "Dedent") = Count(s, "Dedent") + Count(t, "Dedent")
  BY CountConcat
<1>4. \A a, b, c, d \in Nat :
        /\ a - b \in Int
        /\ (a + c) - (b + d) = (a - b) + (c - d)
  OBVIOUS
<1> QED
  BY <1>1, <1>2, <1>3, <1>4 DEF Balance

(* What has no Indent and no Dedent balances.                              *)
LEMMA BalanceNone ==
  ASSUME NEW S, NEW s \in Seq(S), \A i \in DOMAIN s : s[i] \notin Margins
  PROVE  Balance(s) = 0
<1>1. \A i \in DOMAIN s : s[i] # "Indent" /\ s[i] # "Dedent"
  BY DEF Margins
<1>2. Count(s, "Indent") = 0
  BY <1>1, CountNone
<1>3. Count(s, "Dedent") = 0
  BY <1>1, CountNone
<1> QED
  BY <1>2, <1>3 DEF Balance

(* So does nothing at all.                                                 *)
LEMMA BalanceEmpty ==
  ASSUME NEW S
  PROVE  << >> \in Seq(S) /\ Balance(<< >>) = 0
<1>1. << >> \in Seq(S) /\ DOMAIN << >> = {}
  BY EmptySeq, LenProperties
<1> QED
  BY <1>1, BalanceNone

(* The balance of one token.                                               *)
LEMMA BalanceOne ==
  ASSUME NEW t
  PROVE  Balance(<< t >>) = IF t = "Indent" THEN 1 ELSE IF t = "Dedent" THEN -1 ELSE 0
<1>1. Count(<< t >>, "Indent") = IF t = "Indent" THEN 1 ELSE 0
  BY CountOne
<1>2. Count(<< t >>, "Dedent") = IF t = "Dedent" THEN 1 ELSE 0
  BY CountOne
<1> QED
  BY <1>1, <1>2 DEF Balance

(* A token behind a sequence adds its own balance.                         *)
LEMMA BalanceAppend ==
  ASSUME NEW S, NEW s \in Seq(S), NEW t \in S
  PROVE  /\ Balance(s) \in Int
         /\ Balance(Append(s, t)) = Balance(s) + Balance(<< t >>)
<1>1. << t >> \in Seq(S) /\ Append(s, t) = s \o << t >>
  BY AppendIsConcat
<1>2. Balance(s \o << t >>) = Balance(s) + Balance(<< t >>) /\ Balance(s) \in Int
  BY <1>1, BalanceConcat
<1> QED
  BY <1>1, <1>2

(* A token that leaves the queue for the output keeps the sum.             *)
LEMMA BalanceDelivered ==
  ASSUME NEW S, NEW s \in Seq(S), NEW p \in Seq(S), p # << >>
  PROVE  Balance(Append(s, Head(p))) + Balance(Tail(p)) = Balance(s) + Balance(p)
<1>1. Head(p) \in S /\ Tail(p) \in Seq(S) /\ << Head(p) >> \in Seq(S)
  BY HeadTailProperties
<1>2. p = << Head(p) >> \o Tail(p)
  BY <1>1, ConcatProperties, HeadTailProperties
<1>3. /\ Balance(<< Head(p) >>) \in Int /\ Balance(Tail(p)) \in Int
      /\ Balance(<< Head(p) >> \o Tail(p)) = Balance(<< Head(p) >>) + Balance(Tail(p))
  BY <1>1, BalanceConcat
<1>4. /\ Balance(s) \in Int
      /\ Balance(Append(s, Head(p))) = Balance(s) + Balance(<< Head(p) >>)
  BY <1>1, BalanceAppend
<1>5. Balance(p) = Balance(<< Head(p) >>) + Balance(Tail(p))
  BY <1>2, <1>3
<1> QED
  BY <1>3, <1>4, <1>5

(* n Dedents close n Indents.                                              *)
LEMMA BalanceDedents ==
  ASSUME NEW n \in Nat
  PROVE  Balance(Dedents(n)) = -n
BY CountDedents DEF Balance

-----------------------------------------------------------------------------
(* How the steps keep the balance.                                         *)

(* What is handed over opens or closes as many indents as its balance.     *)
LEMMA GiveBalances ==
  ASSUME MInv, NEW tokens \in Seq(Given), Give(tokens),
         Len(indentStack') = Len(indentStack) + Balance(tokens)
  PROVE  Balanced' /\ BracesPending'
<1>1. out \in Seq(Given) /\ pending \in Seq(Given)
  BY DEF MInv, LInv, TypeOK, Given
<1>2. /\ Balance(pending) \in Int /\ Balance(tokens) \in Int
      /\ Balance(pending \o tokens) = Balance(pending) + Balance(tokens)
  BY <1>1, BalanceConcat
<1>3. Balance(out) \in Int
  BY <1>1, BalanceConcat
<1>4. out' = out /\ pending' = pending \o tokens /\ scanning' = FALSE
  BY DEF Give
<1>5. Balance(out) + Balance(pending) = Len(indentStack)
  BY DEF MInv, Balanced
<1>6. Balance(out') = Balance(out) /\ Balance(pending') = Balance(pending \o tokens)
  BY <1>4
<1>7. Balance(out') + Balance(pending') = Len(indentStack')
  BY <1>2, <1>3, <1>5, <1>6
<1>8. Balanced'
  BY <1>7 DEF Balanced, Balance, Count
<1> QED
  BY <1>4, <1>8 DEF BracesPending

(* The token of a lexeme is handed over behind the Indents or Dedents.     *)
LEMMA VisitBalances ==
  ASSUME MInv, Reading(Visible), NEW tokens \in Seq(Given), Visit(tokens),
         Len(indentStack') = Len(indentStack) + Balance(tokens)
  PROVE  Balanced' /\ BracesPending'
<1> DEFINE t == Head(input).t
<1>1. t \in Given /\ t \notin Margins
  BY HeadType DEF MInv, LInv, Visible, Given, Tokens, Margins
<1>2. Balance(<< t >>) = 0
  BY <1>1, BalanceOne DEF Margins
<1>3. Append(tokens, t) \in Seq(Given) /\ Give(Append(tokens, t))
  BY <1>1, AppendProperties DEF Visit
<1>4. /\ Balance(tokens) \in Int
      /\ Balance(Append(tokens, t)) = Balance(tokens) + Balance(<< t >>)
  BY <1>1, BalanceAppend
<1> HIDE DEF t
<1>5. Len(indentStack') = Len(indentStack) + Balance(Append(tokens, t))
  BY <1>2, <1>4
<1> QED
  BY <1>3, <1>5, GiveBalances

(* Where next() reads on, nothing but braces is pending.                   *)
LEMMA ReadingBraces ==
  ASSUME MInv, NEW kinds, Reading(kinds)
  PROVE  \A i \in DOMAIN pending : pending[i] \notin Margins
<1>1. CASE scanning
  BY <1>1 DEF MInv, BracesPending
<1>2. CASE pending = << >>
  BY <1>2
<1> QED
  BY <1>1, <1>2 DEF Reading

(* What leaves the tokens and the indents alone.                           *)
LEMMA SameTokens ==
  ASSUME MInv, UNCHANGED <<out, pending, indentStack>>,
         scanning' => \A i \in DOMAIN pending : pending[i] \notin Margins
  PROVE  Balanced' /\ BracesPending'
BY DEF MInv, Balanced, Balance, Count, BracesPending

(* A lexeme that is skipped leaves nothing but braces pending.             *)
LEMMA SkipBalances ==
  ASSUME MInv, NEW kinds, Reading(kinds), Skip, UNCHANGED indentStack
  PROVE  Balanced' /\ BracesPending'
<1>1. \A i \in DOMAIN pending : pending[i] \notin Margins
  BY ReadingBraces
<1> QED
  BY <1>1, SameTokens DEF Skip

(* An error returned at once opens and closes nothing.                     *)
LEMMA RejectBalances ==
  ASSUME MInv, NEW error \in Errors, Reject(error), UNCHANGED indentStack,
         pending' \in Seq(Given), Balance(pending') = Balance(pending)
  PROVE  Balanced' /\ BracesPending'
<1>1. out \in Seq(Given) /\ pending \in Seq(Given)
  BY DEF MInv, LInv, TypeOK, Given
<1>2. error \in Given /\ error \notin Margins
  BY DEF Given, Errors, Margins
<1>3. Balance(<< error >>) = 0
  BY <1>2, BalanceOne DEF Margins
<1>4. /\ Balance(out) \in Int
      /\ Balance(Append(out, error)) = Balance(out) + Balance(<< error >>)
  BY <1>1, <1>2, BalanceAppend
<1>5. out' = Append(out, error) /\ scanning' = FALSE
  BY DEF Reject
<1>6. Balance(out) + Balance(pending) = Len(indentStack)
  BY DEF MInv, Balanced
<1>7. Balance(out') = Balance(out)
  BY <1>3, <1>4, <1>5
<1>8. Balance(out') + Balance(pending') = Len(indentStack')
  BY <1>6, <1>7
<1>9. Balanced'
  BY <1>8 DEF Balanced, Balance, Count
<1> QED
  BY <1>5, <1>9 DEF BracesPending

(* Every action opens and closes as many indents as the tokens say.        *)
LEMMA BalanceStep ==
  ASSUME MInv, Next
  PROVE  Balanced' /\ BracesPending'
<1>1. /\ TypeOK /\ LInv
      /\ out \in Seq(Given) /\ pending \in Seq(Given)
      /\ Len(indentStack) \in Nat
  <2>1. TypeOK /\ LInv
    BY DEF MInv, LInv
  <2>2. out \in Seq(Given) /\ pending \in Seq(Given)
    BY <2>1 DEF TypeOK, Given
  <2> QED
    BY <2>1, <2>2, StackType
<1>2. Balance(<< >>) = 0 /\ << >> \in Seq(Given)
  BY BalanceEmpty
<1>3. ASSUME NEW token \in Given \ Margins, Give(<< token >>), UNCHANGED indentStack
      PROVE  Balanced' /\ BracesPending'
  <2>1. Balance(<< token >>) = 0
    BY <1>3, BalanceOne DEF Margins
  <2>2. Len(indentStack') = Len(indentStack) + Balance(<< token >>)
    BY <1>1, <1>3, <2>1
  <2>3. << token >> \in Seq(Given)
    BY <1>3
  <2> QED
    BY <1>3, <2>2, <2>3, GiveBalances
<1>4. ASSUME Reading(Visible), Visit(<< >>), UNCHANGED indentStack
      PROVE  Balanced' /\ BracesPending'
  <2>1. Len(indentStack') = Len(indentStack) + Balance(<< >>)
    BY <1>1, <1>2, <1>4
  <2> QED
    BY <1>2, <1>4, <2>1, VisitBalances
<1>5. CASE BadLexeme
  <2>1. "InvalidToken" \in Given \ Margins
    BY DEF Given, Errors, Margins
  <2> QED
    BY <1>3, <1>5, <2>1 DEF BadLexeme
<1>6. CASE EmptyLine
  BY <1>6, SkipBalances DEF EmptyLine, NoNewline
<1>7. CASE EndLine
  <2>1. "newline" \in Given \ Margins
    BY DEF Given, Tokens, Margins
  <2> QED
    BY <1>3, <1>7, <2>1 DEF EndLine
<1>8. CASE LeadingBlanks
  BY <1>8, SkipBalances DEF LeadingBlanks
<1>9. CASE MixedBlanks
  BY <1>1, <1>9, RejectBalances DEF MixedBlanks, Errors
<1>10. CASE InnerBlanks
  <2>1. Skip /\ Reading(IndentKinds) /\ UNCHANGED indentStack
    BY <1>1, <1>10, BlanksInside DEF InnerBlanks
  <2> QED
    BY <2>1, SkipBalances
<1>11. CASE StrayBrace
  <2>1. /\ Reading({"middle", "tail"}) /\ scanning' = TRUE
        /\ pending' = Append(pending, "rbrace")
        /\ UNCHANGED <<out, indentStack>>
    BY <1>11 DEF StrayBrace
  <2>2. \A j \in DOMAIN pending : pending[j] \notin Margins
    BY <2>1, ReadingBraces
  <2>3. "rbrace" \in Given /\ "rbrace" \notin Margins
    BY DEF Given, Tokens, Margins
  <2>4. pending' \in Seq(Given)
    BY <1>1, <2>1, <2>3, AppendProperties
  <2>5. \A j \in DOMAIN pending' : pending'[j] \notin Margins
    BY <1>1, <2>1, <2>2, <2>3, AppendProperties, LenProperties
  <2>6. Balance(pending) = 0
    BY <1>1, <2>2, BalanceNone
  <2>7. Balance(Append(pending, "rbrace")) = 0
    BY <2>1, <2>4, <2>5, BalanceNone
  <2>8. Balance(out') + Balance(pending') = Len(indentStack')
    BY <2>1, <2>6, <2>7 DEF MInv, Balanced
  <2> QED
    BY <2>5, <2>8 DEF Balanced, Balance, Count, BracesPending
<1>12. CASE InLine
  BY <1>4, <1>12 DEF InLine
<1>13. CASE SameLevel
  BY <1>4, <1>13 DEF SameLevel
<1>14. CASE Deeper
  <2>1. /\ Reading(Visible) /\ Visit(<< "Indent" >>)
        /\ indentStack' = indentStack \o current /\ current # << >>
    BY <1>14 DEF Deeper
  <2>2. Len(current) = 1 /\ current \in Seq(Indent) /\ indentStack \in Seq(Indent)
    BY <1>1, <2>1, CurrentType DEF TypeOK
  <2>3. Len(indentStack \o current) = Len(indentStack) + Len(current)
    BY <2>2, ConcatProperties
  <2>4. Balance(<< "Indent" >>) = 1
    BY BalanceOne
  <2>5. << "Indent" >> \in Seq(Given)
    BY TokensType DEF Given, Tokens
  <2>6. Len(indentStack') = Len(indentStack) + Balance(<< "Indent" >>)
    BY <2>1, <2>2, <2>3, <2>4
  <2> QED
    BY <2>1, <2>5, <2>6, VisitBalances
<1>15. CASE Shallower
  <2>1. Reading(Visible)
    BY <1>15 DEF Shallower
  <2>2. PICK pos \in 0 .. Len(indentStack) :
          Visit(Dedents(LevelsClosed(pos))) /\ indentStack' = Kept(pos)
    BY <1>15 DEF Shallower
  <2>3. pos \in Nat /\ pos <= Len(indentStack) /\ indentStack \in Seq(Indent)
    BY <1>1 DEF TypeOK
  <2>4. Len(indentStack') = pos
    BY <1>1, <2>2, <2>3, SubSeqProperties, StackType DEF Kept
  <2> DEFINE n == LevelsClosed(pos)
  <2>5. n \in Nat /\ pos = Len(indentStack) + (-n)
    BY <1>1, <2>3 DEF LevelsClosed
  <2>6. Dedents(n) \in Seq(Given) /\ Balance(Dedents(n)) = -n
    BY <2>5, TokensType, BalanceDedents DEF Given
  <2>7. Len(indentStack') = Len(indentStack) + Balance(Dedents(n))
    BY <2>4, <2>5, <2>6
  <2> QED
    BY <2>1, <2>2, <2>6, <2>7, VisitBalances
<1>16. CASE NoSuchLevel
  <2>1. /\ Reading(Visible) /\ Reject("InvalidIndentSize") /\ pending' = << >>
        /\ UNCHANGED indentStack
    BY <1>16 DEF NoSuchLevel
  <2>2. \A j \in DOMAIN pending : pending[j] \notin Margins
    BY <2>1, ReadingBraces
  <2>3. Balance(pending) = 0
    BY <1>1, <2>2, BalanceNone
  <2>4. Balance(pending') = Balance(pending) /\ pending' \in Seq(Given)
    BY <1>2, <2>1, <2>3
  <2> QED
    BY <2>1, <2>4, RejectBalances DEF Errors
<1>17. CASE Deliver
  <2>1. /\ pending # << >> /\ out' = Append(out, Head(pending)) /\ pending' = Tail(pending)
        /\ ~scanning /\ UNCHANGED <<indentStack, scanning>>
    BY <1>17 DEF Deliver
  <2>2. Balance(Append(out, Head(pending))) + Balance(Tail(pending))
          = Balance(out) + Balance(pending)
    BY <1>1, <2>1, BalanceDelivered
  <2>3. Balance(out') + Balance(pending') = Len(indentStack')
    BY <2>1, <2>2 DEF MInv, Balanced
  <2> QED
    BY <2>1, <2>3 DEF Balanced, Balance, Count, BracesPending
<1>18. CASE OutOfText \/ UNCHANGED vars
  BY <1>18, SameTokens DEF OutOfText, vars, MInv, BracesPending
<1> QED
  BY <1>5, <1>6, <1>7, <1>8, <1>9, <1>10, <1>11, <1>12, <1>13, <1>14, <1>15, <1>16,
     <1>17, <1>18 DEF Next

(* Nothing is open before the text, and every step keeps the balance.      *)
LEMMA MInvHolds == Spec => []MInv
<1>1. Init /\ LInv => MInv
  <2> SUFFICES ASSUME Init, LInv PROVE MInv
    OBVIOUS
  <2>1. out = << >> /\ pending = << >> /\ indentStack = << >> /\ ~scanning
    BY DEF Init
  <2>2. Balance(<< >>) = 0 /\ Len(<< >>) = 0
    BY BalanceEmpty
  <2> QED
    BY <2>1, <2>2 DEF MInv, Balanced, BracesPending
<1>2. MInv /\ LInv' /\ [Next]_vars => MInv'
  <2>1. ASSUME MInv, LInv', UNCHANGED vars PROVE MInv'
    BY <2>1, SameTokens DEF MInv, BracesPending, vars
  <2>2. ASSUME MInv, LInv', Next PROVE MInv'
    BY <2>2, BalanceStep DEF MInv
  <2> QED
    BY <2>1, <2>2
<1> QED
  BY <1>1, <1>2, LInvHolds, PTL DEF Spec

(* For every set of texts: no Dedent is handed over before the Indent it   *)
(* closes, and those not closed are the ones on indent_stack, whatever     *)
(* errors and stray braces come between (lexer.rs:341 to the end of next). *)
THEOREM DedentsMatchAlways == Spec => []DedentsMatch
<1>1. MInv => DedentsMatch
  <2> SUFFICES ASSUME MInv PROVE DedentsMatch
    OBVIOUS
  <2>1. out \in Seq(Given) /\ pending \in Seq(Given)
    BY DEF MInv, LInv, TypeOK, Given
  <2>2. Balance(out \o pending) = Balance(out) + Balance(pending)
    BY <2>1, BalanceConcat
  <2> QED
    BY <2>2 DEF MInv, Balanced, Balance, DedentsMatch
<1> QED
  BY <1>1, MInvHolds, PTL

=============================================================================
