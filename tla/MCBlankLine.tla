---------------------------- MODULE MCBlankLine -----------------------------
(* Texts of up to three lines of which some hold nothing but blanks.       *)
EXTENDS MCLayout

BlankLine == {Blanks("spaces", n) \o NL : n \in 1 .. 2}
BlankTexts ==
  {FlattenSeq(<<above, blank, below>>) :
     above \in {<< >>, X \o NL}, blank \in BlankLine, below \in Line \ {NL}}

(* lexer.rs:278 says of a newline before any token of its line "strip      *)
(* empty line": a text that has a line of blanks alone is laid out as if   *)
(* the line were not there, so that the indents open in a line are those   *)
(* that the widths of the lines with tokens open.                          *)
BlankLinesStripped ==
  (\E p \in DOMAIN read : read[p].t = "newline" /\ StartsLine(p)) => BlocksFollowLines
=============================================================================
