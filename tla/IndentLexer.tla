----------------------------- MODULE IndentLexer -----------------------------
(***************************************************************************)
(* IndentAwareLexer of compiler/lexer.rs: it turns the lexemes that the    *)
(* generated scanner (logos) finds into tokens, with an Indent or Dedent   *)
(* token where a line starts deeper or less deep than the line before.     *)
(*                                                                         *)
(* A lexeme is its kind and its length in bytes.  A step is one round of   *)
(* the loop in next(), which reads one lexeme, or one token handed over;   *)
(* scanning tells that next() has gone round its loop and not left it yet. *)
(***************************************************************************)
EXTENDS Integers, Sequences, FiniteSets, SequencesExt, FiniteSetsExt

CONSTANTS
  Inputs,     (* the texts: sequences of lexemes                           *)
  Rescanned   (* what the text behind a stray brace may scan to            *)

LexemeKinds == {"newline", "spaces", "tabs", "head", "middle", "tail", "other", "bad"}
Lexeme == [t : LexemeKinds, w : Nat \ {0}]

ASSUME InputsAssumption == Inputs \subseteq Seq(Lexeme) /\ Rescanned \subseteq Seq(Lexeme)

(* The scanner takes } for part of a template only if a " or a { follows   *)
(* in the line, so something other than blanks is left there to scan.      *)
ASSUME RescannedAssumption ==
  \A r \in Rescanned : \E p \in DOMAIN r :
    /\ r[p].t \notin {"newline", "spaces", "tabs"}
    /\ \A q \in 1 .. p : r[q].t # "newline"

(* Tokens handed over: Whitespaces and Tabs never are; "rbrace" is the one *)
(* a stray "middle" or "tail" is cut back to.                              *)
Tokens == {"newline", "head", "middle", "tail", "other", "rbrace", "Indent", "Dedent"}
Errors == {"InvalidToken", "InvalidIndentSize", "InconsistentIndent"}

VARIABLES
  read,          (* history: the lexemes read so far                       *)
  input,         (* the lexemes to come                                    *)
  at,            (* the byte offset of the next one                        *)
  out,           (* what next() has returned so far                        *)
  pending,       (* IndentAwareLexer::pending                              *)
  indentStack,   (* the size and kind of each open indent, outermost first *)
  current,       (* current_indent: at most one                            *)
  atLineStart, hasError, templateDepth,
  scanning       (* next() is in its loop                                  *)

vars == <<read, input, at, out, pending, indentStack, current, atLineStart, hasError,
          templateDepth, scanning>>

IndentKinds == {"spaces", "tabs"}
Indent == [kind : IndentKinds, from : Nat, to : Nat]
Size(indent) == indent.to - indent.from

(* Mutant: compares with the outermost indent.                             *)
SizeOfBottom == IF indentStack = << >> THEN 0 ELSE Size(indentStack[1])

SizeOfTop == IF indentStack = << >> THEN 0 ELSE Size(Last(indentStack))

TypeOK ==
  /\ read \in Seq(Lexeme)
  /\ input \in Seq(Lexeme)
  /\ at \in Nat
  /\ out \in Seq(Tokens \cup Errors)
  /\ pending \in Seq(Tokens \cup Errors)
  /\ indentStack \in Seq(Indent)
  /\ current \in Seq(Indent) /\ Len(current) <= 1
  /\ atLineStart \in BOOLEAN /\ hasError \in BOOLEAN /\ scanning \in BOOLEAN
  /\ templateDepth \in Nat

Init ==
  /\ input \in Inputs
  /\ read = << >> /\ at = 0 /\ templateDepth = 0
  /\ out = << >> /\ pending = << >> /\ indentStack = << >> /\ current = << >>
  /\ atLineStart = TRUE /\ hasError = FALSE /\ scanning = FALSE

-----------------------------------------------------------------------------

Reading(kinds) ==
  /\ scanning \/ pending = << >>
  /\ ~hasError
  /\ input # << >>
  /\ Head(input).t \in kinds

Consume ==
  /\ read' = Append(read, Head(input))
  /\ input' = Tail(input)
  /\ at' = at + Head(input).w

(* The token is returned, after everything pending.                        *)
Give(tokens) ==
  /\ Consume
  /\ pending' = pending \o tokens
  /\ scanning' = FALSE
  /\ UNCHANGED out

(* The loop goes on with the next lexeme.                                  *)
Skip == Consume /\ scanning' = TRUE /\ UNCHANGED <<out, pending>>

(* next() returns an error at once, before everything pending.             *)
Reject(error) ==
  /\ Consume
  /\ hasError' = TRUE
  /\ out' = Append(out, error)
  /\ scanning' = FALSE

BadLexeme ==
  /\ Reading({"bad"})
  /\ hasError' = TRUE
  /\ Give(<< "InvalidToken" >>)
  /\ UNCHANGED <<indentStack, current, atLineStart, templateDepth>>

(* Mutant: an empty line counts.                                           *)
EmptyLineKept == Give(<< "newline" >>)

NoNewline == Skip

EmptyLine ==
  /\ Reading({"newline"}) /\ atLineStart
  /\ NoNewline
  /\ UNCHANGED <<indentStack, current, atLineStart, hasError, templateDepth>>

EndLine ==
  /\ Reading({"newline"}) /\ ~atLineStart
  /\ Give(<< "newline" >>)
  /\ current' = << >>
  /\ atLineStart' = TRUE
  /\ UNCHANGED <<indentStack, hasError, templateDepth>>

(* Blanks where the line starts: a first run, or one that extends it.      *)
NewIndent ==
  << [kind |-> Head(input).t,
      from |-> IF current = << >> THEN at ELSE current[1].from,
      to   |-> at + Head(input).w] >>

LeadingBlanks ==
  /\ Reading(IndentKinds) /\ atLineStart
  /\ current # << >> => current[1].kind = Head(input).t
  /\ current' = NewIndent
  /\ Skip
  /\ UNCHANGED <<indentStack, atLineStart, hasError, templateDepth>>

MixedBlanks ==
  /\ Reading(IndentKinds) /\ atLineStart
  /\ current # << >> /\ current[1].kind # Head(input).t
  /\ Reject("InconsistentIndent")
  /\ UNCHANGED <<pending, indentStack, current, atLineStart, templateDepth>>

(* Blanks inside a line.  The code would extend the line's indent if it    *)
(* were still there; NoIndentInLine says that it never is.                 *)
InnerBlanks ==
  /\ Reading(IndentKinds) /\ ~atLineStart
  /\ current' = IF current = << >> THEN << >> ELSE [current EXCEPT ![1].to = at + Head(input).w]
  /\ IF current # << >> /\ current[1].kind # Head(input).t
     THEN Reject("InconsistentIndent") /\ UNCHANGED pending
     ELSE Skip /\ UNCHANGED hasError
  /\ UNCHANGED <<indentStack, atLineStart, templateDepth>>

(* A } that belongs to no template: the rest of the text is scanned anew.  *)
StrayBrace ==
  /\ Reading({"middle", "tail"}) /\ templateDepth = 0
  /\ pending' = Append(pending, "rbrace")
  /\ read' = Append(read, [t |-> "other", w |-> 1])
  /\ at' = at + 1
  /\ input' \in Rescanned
  /\ scanning' = TRUE
  /\ UNCHANGED <<out, indentStack, current, atLineStart, hasError, templateDepth>>

(* Mutant: closes one too few.                                             *)
LevelsAbove(pos) == Len(indentStack) - pos - 1

(* How many indents are closed when the open one at pos goes on.           *)
LevelsClosed(pos) == Len(indentStack) - pos

(* Mutant: closes the indent the line goes on at.                          *)
KeptBelow(pos) == SubSeq(indentStack, 1, pos - 1)

Kept(pos) == SubSeq(indentStack, 1, pos)

Dedents(n) == [i \in 1 .. n |-> "Dedent"]

(* Any other lexeme: the first of a line opens or closes indents.          *)
Visible == {"head", "middle", "tail", "other"}

(* Mutant: a tail always leaves a template.                                *)
NestingUnchecked ==
  templateDepth' = CASE Head(input).t = "head" -> templateDepth + 1
                     [] Head(input).t = "tail" -> templateDepth - 1
                     [] OTHER -> templateDepth

Nesting ==
  /\ templateDepth = 0 => Head(input).t \notin {"middle", "tail"}
  /\ templateDepth' = CASE Head(input).t = "head" -> templateDepth + 1
                        [] Head(input).t = "tail" -> templateDepth - 1
                        [] OTHER -> templateDepth

(* The rest of the round: the token itself.                                *)
Visit(tokens) ==
  /\ Give(Append(tokens, Head(input).t))
  /\ atLineStart' = FALSE
  /\ UNCHANGED hasError

InLine ==
  /\ Reading(Visible) /\ Nesting /\ ~atLineStart
  /\ Visit(<< >>)
  /\ UNCHANGED <<indentStack, current>>

(* Mutant: the indent is looked at, not taken.                             *)
IndentLeft == current

(* current_indent.take()                                                   *)
IndentTaken == << >>

SameLevel ==
  /\ Reading(Visible) /\ Nesting /\ atLineStart
  /\ IF current = << >> THEN indentStack = << >> ELSE Size(current[1]) = SizeOfTop
  /\ Visit(<< >>)
  /\ current' = IndentTaken
  /\ UNCHANGED indentStack

Deeper ==
  /\ Reading(Visible) /\ Nesting /\ atLineStart
  /\ current # << >> /\ Size(current[1]) > SizeOfTop
  /\ indentStack' = indentStack \o current
  /\ Visit(<< "Indent" >>)
  /\ current' = IndentTaken

(* Mutant: only the outermost indent is looked at.                         *)
OutermostLevel(pos) ==
  IF current = << >> THEN pos = 0
  ELSE pos = 1 /\ Size(indentStack[pos]) = Size(current[1])

(* The line goes on at the open indent of its size, or at none.            *)
Level(pos) ==
  IF current = << >> THEN pos = 0
  ELSE pos \in DOMAIN indentStack /\ Size(indentStack[pos]) = Size(current[1])

Shallower ==
  /\ Reading(Visible) /\ Nesting /\ atLineStart
  /\ IF current = << >> THEN indentStack # << >> ELSE Size(current[1]) < SizeOfTop
  /\ \E pos \in 0 .. Len(indentStack) :
       /\ Level(pos)
       /\ \A more \in pos + 1 .. Len(indentStack) : ~Level(more)
       /\ Visit(Dedents(LevelsClosed(pos)))
       /\ indentStack' = Kept(pos)
  /\ current' = IndentTaken

NoSuchLevel ==
  /\ Reading(Visible) /\ Nesting /\ atLineStart
  /\ current # << >> /\ Size(current[1]) < SizeOfTop
  /\ \A pos \in DOMAIN indentStack : ~Level(pos)
  /\ Reject("InvalidIndentSize")
  /\ pending' = << >>
  /\ current' = IndentTaken
  /\ UNCHANGED <<indentStack, atLineStart>>

(* next() returns what is pending.                                         *)
Deliver ==
  /\ ~scanning /\ pending # << >>
  /\ out' = Append(out, Head(pending))
  /\ pending' = Tail(pending)
  /\ UNCHANGED <<read, input, at, indentStack, current, atLineStart, hasError,
                 templateDepth, scanning>>

(* The loop ends with the text.                                            *)
OutOfText ==
  /\ scanning /\ input = << >>
  /\ scanning' = FALSE
  /\ UNCHANGED <<read, input, at, out, pending, indentStack, current, atLineStart,
                 hasError, templateDepth>>

(* next() returns None.                                                    *)
Ended == ~scanning /\ pending = << >> /\ (hasError \/ input = << >>)

Next ==
  \/ BadLexeme \/ EmptyLine \/ EndLine \/ LeadingBlanks \/ MixedBlanks \/ InnerBlanks
  \/ StrayBrace \/ InLine \/ SameLevel \/ Deeper \/ Shallower \/ NoSuchLevel
  \/ Deliver \/ OutOfText
  \/ Ended /\ UNCHANGED vars

Spec == Init /\ [][Next]_vars /\ WF_vars(Next)

-----------------------------------------------------------------------------
(* Properties.                                                             *)

(* The indents that are open get deeper and deeper, so that the search for *)
(* the size of a shallower line finds one at most.                         *)
StackDeepens ==
  /\ \A i \in DOMAIN indentStack : Size(indentStack[i]) > 0
  /\ \A i, j \in DOMAIN indentStack :
       i < j => Size(indentStack[i]) < Size(indentStack[j])

(* The line's indent is taken by its first token: the code that extends it *)
(* for blanks inside a line is never reached.                              *)
NoIndentInLine == ~atLineStart => current = << >>

Count(s, token) == Cardinality({i \in DOMAIN s : s[i] = token})

(* Every Dedent closes an Indent that was handed over before, and those    *)
(* not closed are the ones on the stack.                                   *)
DedentsMatch ==
  LET tokens == out \o pending
  IN  Count(tokens, "Indent") - Count(tokens, "Dedent") = Len(indentStack)

SameLine(p, q) == \A r \in p .. q : read[r].t # "newline"

(* Nothing before p in its line but blanks.                                *)
StartsLine(p) == \A q \in 1 .. p - 1 : SameLine(q, p - 1) => read[q].t \in IndentKinds

(* The newline of a line that holds nothing.                               *)
EndsEmptyLine(p) == read[p].t = "newline" /\ StartsLine(p)

(* What was read and is to be seen, what was handed over for it, and which *)
(* of a set of places a place is.                                          *)
Shown == {p \in DOMAIN read : read[p].t \notin IndentKinds /\ ~EndsEmptyLine(p)}
Handed(tokens) == {i \in DOMAIN tokens : tokens[i] \notin {"Indent", "Dedent"}}
Rank(places, p) == Cardinality({q \in places : q <= p})

(* A token stands for the lexeme; a stray brace was read as some other.    *)
StandsFor(token, lexeme) ==
  token = lexeme.t \/ (token = "rbrace" /\ lexeme.t = "other")

(* Nothing that is no blank is lost or moved: without the tokens the lexer *)
(* adds and the newlines of empty lines, it hands over what it read.       *)
TokensKept ==
  LET tokens == out \o pending
  IN  ~hasError =>
        /\ Cardinality(Handed(tokens)) = Cardinality(Shown)
        /\ \A p \in Shown : \A i \in Handed(tokens) :
             Rank(Shown, p) = Rank(Handed(tokens), i) => StandsFor(tokens[i], read[p])

(* The layout of the text read, said without a stack.  A line starts at    *)
(* its first token; its width is what precedes that in the line; the open  *)
(* blocks are the widths of the lines so far that no narrower line has     *)
(* followed.                                                               *)
LineStarts == {p \in DOMAIN read : read[p].t \in Visible /\ StartsLine(p)}

(* How wide a line is after n lexemes.                                     *)
WidthAfter[n \in 0 .. Len(read)] ==
  IF n = 0 THEN 0
  ELSE IF read[n].t = "newline" THEN 0
  ELSE WidthAfter[n - 1] + read[n].w

Width(p) == WidthAfter[p - 1]

OpenBlocks(p) ==
  {Width(q) : q \in {q \in LineStarts : q <= p /\ Width(q) > 0
                       /\ \A r \in LineStarts : q <= r /\ r <= p => Width(r) >= Width(q)}}

(* The indents that are open while a line is read are the blocks open      *)
(* there: what closes a block is a narrower line, and nothing else.        *)
BlocksFollowLines ==
  ~atLineStart /\ ~hasError /\ LineStarts # {} =>
    {Size(indentStack[i]) : i \in DOMAIN indentStack} = OpenBlocks(Max(LineStarts))

(* A line is refused for its indent only if it is narrower than the line   *)
(* before and starts at the width of no block that is open there.          *)
RefusedLinesMisfit ==
  \A i \in DOMAIN out : out[i] = "InvalidIndentSize" =>
    LET line   == Max(LineStarts)
        before == OpenBlocks(Max(LineStarts \ {line}))
    IN  /\ Width(line) \notin before
        /\ \E w \in before : Width(line) < w
=============================================================================
