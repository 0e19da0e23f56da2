------------------------------ MODULE MCWritten ------------------------------
(* Texts written from trees, and texts some of whose lines are broken.     *)
EXTENDS GrammarTexts, BrokenTexts

MCTexts == Grammar \cup Recovery
=============================================================================
