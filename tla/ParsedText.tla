----------------------------- MODULE ParsedText -----------------------------
(* What the parser makes of texts, held against how trees are written.     *)
EXTENDS Parser, SourceText

CONSTANTS
  BrokenLines,    \* lines that no item of a program or block is written as, and
  CutLines        \* lines that go on in the next one, which does not go on with them

(* A text that is accepted was understood to its last token: nothing in it *)
(* is dropped, moved or made up but ends of lines, commas and parentheses. *)
Free == {"Newline", "Comma", "LParen", "RParen"}
Bound(text) == SelectSeq(text, LAMBDA token : token.t \notin Free)
NothingDropped ==
  Done /\ errors = << >> => Bound(ProgramText(values)) = Bound(EndOfText(tokens))

(* The lines of the text, each with the block tokens in front of it, and   *)
(* the positions they end at.                                              *)
LineEnds == SelectSeq([p \in DOMAIN tokens |-> p], LAMBDA p : tokens[p].t = "Newline")
LineStart(i) == IF i = 1 THEN 1 ELSE LineEnds[i - 1] + 1
TextLine(i) == SubSeq(tokens, LineStart(i), LineEnds[i] - 1)

Layout(line) == SelectSeq(line, LAMBDA token : token.t \in {"Indent", "Dedent"})
Content(line) == SelectSeq(line, LAMBDA token : token.t \notin {"Indent", "Dedent"})
LeadsBlock(i) == i < Len(LineEnds) /\ tokens[LineEnds[i] + 1].t = "Indent"
IsCut(i) == Content(TextLine(i)) \in CutLines /\ ~LeadsBlock(i)
IsBroken(i) == Content(TextLine(i)) \in BrokenLines \/ IsCut(i)

(* The lines that go with the one before, and the broken ones that do not. *)
GoesAlong ==
  LET goes[i \in DOMAIN LineEnds] == i > 1 /\ IsCut(i - 1) /\ ~goes[i - 1] IN goes
Broken ==
  SelectSeq([i \in DOMAIN LineEnds |-> i], LAMBDA i : IsBroken(i) /\ ~GoesAlong[i])

WithoutBroken ==
  FlattenSeq([i \in DOMAIN LineEnds |->
    CASE GoesAlong[i] -> << >>
      [] IsBroken(i)  -> Layout(TextLine(i))
      [] OTHER        -> TextLine(i) \o Tk("Newline")])

(* Of the text of a program the parser makes that program, without error:  *)
(* precedence, associativity and what each function looks ahead for agree  *)
(* with how trees are written.                                             *)
RoundTrip ==
  Done /\ Broken = << >> => errors = << >> /\ ProgramText(values) = tokens

=============================================================================
