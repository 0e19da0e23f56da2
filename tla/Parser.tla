------------------------------- MODULE Parser -------------------------------
(***************************************************************************)
(* Parser of compiler/parser.rs: recursive descent over the lexer's tokens *)
(* with recovery to the next line or the end of the block.                 *)
(*                                                                         *)
(* What the Rust call stack has still to do is a stack of goals, and what  *)
(* its locals hold is a stack of values.  A goal is                        *)
(*    take  a token to expect         leaf  a token that becomes a node    *)
(*    rule  a parse function to call  make  a node to build                *)
(*    body  the loop over a block's items, where an error is caught        *)
(*    bad   `next` and return unexpected_error                             *)
(* A node built at height n takes all values above the n-th as children,   *)
(* so that no counters of list elements are needed.  Spans and expression  *)
(* ids are left out.  The AST keeps a class's fields and methods in two    *)
(* lists; here they are in the order of the text.                          *)
(***************************************************************************)
EXTENDS Integers, Sequences, FiniteSets

CONSTANT Texts      \* the sequences of tokens the parser may be given

Token == [t : STRING, s : STRING]     \* its kind, and what it stands for
ASSUME TextsAssumption == Texts \subseteq Seq(Token)

VARIABLES
  tokens, pos, errors,   \* of struct Parser
  goals, values,         \* the call stack: the head of goals is next
  panicked

vars == <<tokens, pos, errors, goals, values, panicked>>

(* What goals name: parse functions, tokens, leaves and nodes, and the     *)
(* token, operator or kind they come with.                                 *)
RuleNames ==
  {"expression", "comparison", "chain", "sum", "sumRest", "product", "productRest",
   "unary", "postfixed", "postfix", "primary", "template", "tuple", "elements", "list",
   "moreArgs", "params", "moreParams", "moreTypes", "comma", "if", "ifHead", "ifTail",
   "else", "block", "function", "param", "effects", "functionBody", "decl", "type",
   "functionType", "paramTypes", "member", "field", "default", "items"}
TokenNames ==
  {"Newline", "Indent", "Set", "Eq", "Var", "ColonEq", "Loop", "Colon", "Class", "Type",
   "LBrace", "RBrace", "Question", "LBracket", "RBracket", "Tuple", "LParen", "RParen",
   "Struct", "Underscore", "Comma", "Plus", "Minus", "Star", "Slash", "Not", "Dot",
   "If", "Then", "Else", "Less", "Greater"}
LeafNames ==
  {"Id", "Break", "TypeType", "Named", "CompareOp", "Raw", "IntegerLiteral",
   "FloatLiteral", "CharLiteral", "Char32Literal", "True", "False", "StringLiteral"}
NodeNames ==
  {"Block", "Set", "Init", "Loop", "Type", "Class", "Field", "Decl", "Option",
   "ArrayType", "TupleType", "Struct", "FunctionType", "List", "CompareChain",
   "Binary", "Unary", "Call", "Construct", "Member", "Query", "If", "Function",
   "Param", "Template", "Tuple"}
Plain == ""
Extras ==
  {Plain, "var", "fallible", "EOF", "Dedent", "RParen", "RBracket", "RBrace",
   "Plus", "Minus", "Star", "Slash", "Not", "expression", "decl", "member"}

Goal == [do : {"take", "leaf", "rule", "make", "body", "bad"},
         what : RuleNames \cup TokenNames \cup LeafNames \cup NodeNames \cup {Plain},
         with : Extras, n : Nat]
Error == [kind : {"UnexpectedToken", "InvalidExpression"}, at : Nat]

Take(t)          == [do |-> "take", what |-> t, with |-> Plain, n |-> 0]
Leaf(k)          == [do |-> "leaf", what |-> k, with |-> Plain, n |-> 0]
Make(k, s, n)    == [do |-> "make", what |-> k, with |-> s, n |-> n]
Build(k, n)      == Make(k, Plain, n)
Body(item, end, n) == [do |-> "body", what |-> item, with |-> end, n |-> n]
RuleWith(r, s, n)  == [do |-> "rule", what |-> r, with |-> s, n |-> n]
RuleFrom(r, n)   == RuleWith(r, Plain, n)
Rule(r)          == RuleFrom(r, 0)
Bad              == [do |-> "bad", what |-> Plain, with |-> Plain, n |-> 0]

Node(k, s, c) == [k |-> k, s |-> s, c |-> c]

TypeOK ==
  /\ tokens \in Seq(Token)
  /\ pos \in 0 .. Len(tokens)
  /\ errors \in Seq(Error) /\ \A e \in DOMAIN errors : errors[e].at < Len(tokens)
  /\ goals \in Seq(Goal)
  /\ panicked \in BOOLEAN

Init ==
  /\ tokens \in Texts
  /\ pos = 0
  /\ errors = << >>
  /\ goals = << Body("expression", "EOF", 0) >>
  /\ values = << >>
  /\ panicked = FALSE

KindAt(p) == IF p < Len(tokens) THEN tokens[p + 1].t ELSE "EOF"
Peek(n)   == KindAt(pos + n)
Height    == Len(values)

-----------------------------------------------------------------------------
(* The parse functions: the goals that take the place of a rule.           *)

(* Mutant: the loop over the items is there for what leads to it, too.     *)
BlockAround(item) ==
  << Take("Newline"), Take("Indent"), Rule(item), Body(item, "Dedent", Height) >>

(* The block that follows the end of a line.  Its loop, which catches the  *)
(* errors in its items, starts behind the Indent: an error in what leads   *)
(* there goes to the loop around it.                                       *)
Block(item) == << Take("Newline"), Take("Indent"), RuleWith("items", item, 0) >>
Items(item) == << Rule(item), Body(item, "Dedent", Height) >>

BlockExpr == Block("expression") \o << Build("Block", Height) >>

LooksLikeFunctionSignature ==
  /\ Peek(1) = "LParen"
  /\ \/ Peek(2) = "Id" /\ Peek(3) = "Colon"
     \/ Peek(2) = "RParen" /\ Peek(3) \in {"Colon", "Less"}

Expression ==
  CASE Peek(0) = "If"   -> << Rule("if") >>
    [] Peek(0) = "Set"  -> << Take("Set"), Rule("postfixed"), Take("Eq"),
                              Rule("expression"), Build("Set", Height) >>
    [] Peek(0) = "Var"  -> << Take("Var"), RuleWith("decl", "var", 0) >>
    [] Peek(0) = "Id" /\ LooksLikeFunctionSignature -> << Rule("function") >>
    [] Peek(0) = "Id" /\ Peek(1) = "Colon" -> << Rule("decl") >>
    [] Peek(0) = "Id" /\ Peek(1) = "ColonEq" ->
         << Leaf("Id"), Take("ColonEq"), Rule("expression"), Build("Init", Height) >>
    [] Peek(0) = "Loop" -> << Take("Loop"), Take("Colon"), Rule("block"),
                              Build("Loop", Height) >>
    [] Peek(0) = "Break" -> << Leaf("Break") >>
    [] Peek(0) \in {"Type", "Tuple", "Question", "Struct"} ->
         << Rule("type"), Build("Type", Height) >>
    [] Peek(0) = "Class" -> << Take("Class"), Take("Colon") >> \o Block("member")
                              \o << Build("Class", Height) >>
    [] OTHER -> << Rule("comparison") >>

Member ==
  CASE LooksLikeFunctionSignature -> << Rule("function") >>
    [] Peek(0) = "Var" -> << Take("Var"), RuleWith("field", "var", 0) >>
    [] OTHER -> << Rule("field") >>

Field(mutable) ==
  << Leaf("Id"), Take("Colon"), Rule("type"), Rule("default"),
     Make("Field", mutable, Height) >>
Default == IF Peek(0) = "Eq" THEN << Take("Eq"), Rule("expression") >> ELSE << >>

Decl(mutable) ==
  << Leaf("Id"), Take("Colon"), Rule("type"), Take("Eq"), Rule("expression"),
     Make("Decl", mutable, Height) >>

Type ==
  CASE Peek(0) = "Type" /\ Peek(1) = "LBrace" ->
         << Take("Type"), Take("LBrace"), Rule("functionType"), Take("RBrace") >>
    [] Peek(0) = "Type" -> << Leaf("TypeType") >>
    [] Peek(0) = "Question" -> << Take("Question"), Rule("type"), Build("Option", Height) >>
    [] Peek(0) = "LBracket" -> << Take("LBracket"), Take("RBracket"), Rule("type"),
                                  Build("ArrayType", Height) >>
    [] Peek(0) = "Tuple" -> << Take("Tuple"), Take("LParen"), Rule("type"),
                               Rule("moreTypes"), Build("TupleType", Height) >>
    [] Peek(0) = "Struct" -> << Take("Struct"), Take("Colon") >> \o Block("decl")
                               \o << Build("Struct", Height) >>
    [] Peek(0) = "Id" -> << Leaf("Named") >>
    [] OTHER -> << Bad >>

FunctionType ==
  IF Peek(0) = "Underscore"
  THEN << Take("Underscore"), Take("LParen"), RuleFrom("paramTypes", Height),
          Take("Colon"), Rule("type"), Build("FunctionType", Height) >>
  ELSE << Rule("type") >>

ParamTypes(n) ==
  IF Peek(0) = "RParen" THEN << Take("RParen"), Build("List", n) >>
  ELSE << Take("Colon"), Rule("type"), Rule("comma"), RuleFrom("paramTypes", n) >>

OptionalComma == IF Peek(0) = "Comma" THEN << Take("Comma") >> ELSE << >>

CompareOps == {"Eq", "NotEq", "Greater", "GreaterEq", "Less", "LessEq"}

(* A chain has its operators and operands in turn; without an operator it  *)
(* is its only operand.                                                    *)
Chain(n) ==
  CASE Peek(0) \in CompareOps -> << Leaf("CompareOp"), Rule("sum"), RuleFrom("chain", n) >>
    [] Height = n + 1 -> << >>
    [] OTHER -> << Build("CompareChain", n) >>

(* Mutant: the rest of the operation is its right operand.                 *)
Rightmost(ops, operand, rest) ==
  IF Peek(0) \in ops
  THEN << Take(Peek(0)), Rule(operand), Rule(rest), Make("Binary", Peek(0), Height - 1) >>
  ELSE << >>

(* A loop that makes what it has so far the left operand.                  *)
Operations(ops, operand, rest) ==
  IF Peek(0) \in ops
  THEN << Take(Peek(0)), Rule(operand), Make("Binary", Peek(0), Height - 1), Rule(rest) >>
  ELSE << >>

(* Mutant: a plus sign is dropped.                                         *)
UnaryKept ==
  CASE Peek(0) = "Plus" -> << Take("Plus"), Rule("unary") >>
    [] Peek(0) \in {"Minus", "Not"} ->
         << Take(Peek(0)), Rule("unary"), Make("Unary", Peek(0), Height) >>
    [] OTHER -> << Rule("postfixed") >>

Unary ==
  IF Peek(0) \in {"Plus", "Minus", "Not"}
  THEN << Take(Peek(0)), Rule("unary"), Make("Unary", Peek(0), Height) >>
  ELSE << Rule("postfixed") >>

(* An argument list is a list; a query ends the loop.                      *)
Postfix ==
  CASE Peek(0) = "LParen" -> << Take("LParen"), RuleWith("list", "RParen", 0),
                                Build("Call", Height - 1), Rule("postfix") >>
    [] Peek(0) = "LBracket" -> << Take("LBracket"), RuleWith("list", "RBracket", 0),
                                  Make("Call", "fallible", Height - 1), Rule("postfix") >>
    [] Peek(0) = "LBrace" -> << Take("LBrace"), RuleWith("list", "RBrace", 0),
                                Build("Construct", Height - 1), Rule("postfix") >>
    [] Peek(0) = "Dot" -> << Take("Dot"), Leaf("Id"), Build("Member", Height - 1),
                             Rule("postfix") >>
    [] Peek(0) = "Question" -> << Take("Question"), Build("Query", Height - 1) >>
    [] OTHER -> << >>

(* parse_comma_separated_list.  Its synchronize_to has no effect of its    *)
(* own: the body that catches the error goes on to the end of the line.    *)
List(item, more, end) ==
  (IF Peek(0) = end THEN << Take(end) >> ELSE << Rule(item), RuleWith(more, end, 0) >>)
    \o << Build("List", Height) >>
More(item, more, end) ==
  IF Peek(0) = "Comma" THEN << Take("Comma"), Rule(item), RuleWith(more, end, 0) >>
  ELSE << Take(end) >>

If == << Take("If"), Rule("ifHead"), Build("If", Height) >>
IfHead ==
  CASE Peek(0) = "LParen" -> << Take("LParen"), Rule("expression"), Take("RParen"),
                                Rule("ifTail") >>
    [] Peek(0) = "Colon" -> << Take("Colon"), Rule("block"), Take("Then"), Take("Colon"),
                               Rule("block"), Rule("else") >>
    [] OTHER -> << Bad >>
IfTail ==
  CASE Peek(0) = "Colon" -> << Take("Colon"), Rule("block"), Rule("else") >>
    [] Peek(0) = "Then" -> << Take("Then"), Rule("expression"), Rule("else") >>
    [] OTHER -> << Bad >>
Else ==
  CASE Peek(0) # "Else" -> << >>
    [] Peek(1) = "Colon" -> << Take("Else"), Take("Colon"), Rule("block") >>
    [] Peek(1) = "If" -> << Take("Else"), Rule("if") >>
    [] OTHER -> << Take("Else"), Bad >>

Function ==
  << Leaf("Id"), Take("LParen"), Rule("params"), RuleFrom("effects", Height + 2),
     Take("Colon"), Rule("type"), Take("Eq"), Rule("functionBody"),
     Build("Function", Height) >>
Param == << Leaf("Id"), Take("Colon"), Rule("type"), Build("Param", Height) >>
Effects(n) ==
  IF Peek(0) = "Less"
  THEN << Take("Less"), Leaf("Id"), Take("Greater"), RuleFrom("effects", n) >>
  ELSE << Build("List", n) >>
FunctionBody == IF Peek(0) = "Newline" THEN << Rule("block") >> ELSE << Rule("expression") >>

Literals == {"IntegerLiteral", "FloatLiteral", "CharLiteral", "Char32Literal", "True",
             "False", "StringLiteral"}

Primary ==
  CASE Peek(0) = "Id" -> << Leaf("Id") >>
    [] Peek(0) = "TemplateHead" -> << Leaf("Raw"), RuleFrom("template", Height) >>
    [] Peek(0) = "LParen" -> << Take("LParen"), Rule("expression"),
                                RuleFrom("tuple", Height) >>
    [] Peek(0) \in Literals -> << Leaf(Peek(0)) >>
    [] OTHER -> << Bad >>

(* Mutant: newlines are looked at, not taken.                              *)
NewlineLeft == << >>
NewlineSkipped == << Take("Newline") >>

Template(n) ==
  CASE Peek(0) = "Newline" -> NewlineSkipped \o << RuleFrom("template", n) >>
    [] Peek(0) = "TemplateMiddle" -> << Leaf("Raw"), RuleFrom("template", n) >>
    [] Peek(0) = "TemplateTail" -> << Leaf("Raw"), Build("Template", n) >>
    [] OTHER -> << Rule("expression"), RuleFrom("template", n) >>

(* After the first expression; one with a comma is a tuple.                *)
Tuple(n) ==
  CASE Peek(0) = "Comma" -> << Take("Comma"), RuleFrom("elements", n) >>
    [] Peek(0) = "RParen" -> << Take("RParen") >>
    [] OTHER -> << Bad >>
Elements(n) ==
  IF Peek(0) = "RParen" THEN << Take("RParen"), Build("Tuple", n) >>
  ELSE << Rule("expression"), Rule("comma"), RuleFrom("elements", n) >>

Parsed(rule) ==
  CASE rule.what = "expression"   -> Expression
    [] rule.what = "comparison"   -> << Rule("sum"), RuleFrom("chain", Height) >>
    [] rule.what = "chain"        -> Chain(rule.n)
    [] rule.what = "sum"          -> << Rule("product"), Rule("sumRest") >>
    [] rule.what = "sumRest"      -> Operations({"Plus", "Minus"}, "product", "sumRest")
    [] rule.what = "product"      -> << Rule("unary"), Rule("productRest") >>
    [] rule.what = "productRest"  -> Operations({"Star", "Slash"}, "unary", "productRest")
    [] rule.what = "unary"        -> Unary
    [] rule.what = "postfixed"    -> << Rule("primary"), Rule("postfix") >>
    [] rule.what = "postfix"      -> Postfix
    [] rule.what = "primary"      -> Primary
    [] rule.what = "template"     -> Template(rule.n)
    [] rule.what = "tuple"        -> Tuple(rule.n)
    [] rule.what = "elements"     -> Elements(rule.n)
    [] rule.what = "list"         -> List("expression", "moreArgs", rule.with)
    [] rule.what = "moreArgs"     -> More("expression", "moreArgs", rule.with)
    [] rule.what = "params"       -> List("param", "moreParams", "RParen")
    [] rule.what = "moreParams"   -> More("param", "moreParams", "RParen")
    [] rule.what = "moreTypes"    -> More("type", "moreTypes", "RParen")
    [] rule.what = "comma"        -> OptionalComma
    [] rule.what = "if"           -> If
    [] rule.what = "ifHead"       -> IfHead
    [] rule.what = "ifTail"       -> IfTail
    [] rule.what = "else"         -> Else
    [] rule.what = "block"        -> BlockExpr
    [] rule.what = "function"     -> Function
    [] rule.what = "param"        -> Param
    [] rule.what = "effects"      -> Effects(rule.n)
    [] rule.what = "functionBody" -> FunctionBody
    [] rule.what = "decl"         -> Decl(rule.with)
    [] rule.what = "type"         -> Type
    [] rule.what = "functionType" -> FunctionType
    [] rule.what = "paramTypes"   -> ParamTypes(rule.n)
    [] rule.what = "member"       -> Member
    [] rule.what = "field"        -> Field(rule.with)
    [] rule.what = "default"      -> Default
    [] rule.what = "items"        -> Items(rule.with)

-----------------------------------------------------------------------------
(* The steps.                                                              *)

(* Mutant: next() goes past the end.                                       *)
Beyond(p) == p + 1

(* next()                                                                  *)
After(p) == IF p < Len(tokens) THEN p + 1 ELSE p

Doing(do) == goals # << >> /\ ~panicked /\ Head(goals).do = do

Predict ==
  /\ Doing("rule")
  /\ goals' = Parsed(Head(goals)) \o Tail(goals)
  /\ UNCHANGED <<tokens, pos, errors, values, panicked>>

TakeToken ==
  /\ Doing("take") /\ Head(goals).what = Peek(0)
  /\ pos' = After(pos)
  /\ goals' = Tail(goals)
  /\ UNCHANGED <<tokens, errors, values, panicked>>

(* The tokens a leaf is made of.  Only a name is not looked at before.     *)
LeafTokens(k) ==
  CASE k \in {"Id", "Named"} -> {"Id"}
    [] k = "TypeType"  -> {"Type"}
    [] k = "CompareOp" -> CompareOps
    [] k = "Raw"       -> {"TemplateHead", "TemplateMiddle", "TemplateTail"}
    [] OTHER           -> {k}
LeafFits == Peek(0) \in LeafTokens(Head(goals).what)
Overflows == Head(goals).what = "IntegerLiteral" /\ tokens[pos + 1].s = "too big"
NoCharacter == Head(goals).what = "Char32Literal" /\ tokens[pos + 1].s = "surrogate"

MakeLeaf ==
  /\ Doing("leaf") /\ LeafFits /\ ~Overflows /\ ~NoCharacter
  /\ LET k == Head(goals).what
         s == IF k = "CompareOp" THEN Peek(0) ELSE tokens[pos + 1].s
     IN  values' = Append(values, Node(k, s, << >>))
  /\ pos' = After(pos)
  /\ goals' = Tail(goals)
  /\ UNCHANGED <<tokens, errors, panicked>>

(* char::from_u32(..).unwrap()                                             *)
Panic ==
  /\ Doing("leaf") /\ NoCharacter
  /\ panicked' = TRUE
  /\ UNCHANGED <<tokens, pos, errors, goals, values>>

MakeNode ==
  /\ Doing("make")
  /\ LET g == Head(goals)
     IN  values' = Append(SubSeq(values, 1, g.n),
                          Node(g.what, g.with, SubSeq(values, g.n + 1, Height)))
  /\ goals' = Tail(goals)
  /\ UNCHANGED <<tokens, pos, errors, panicked>>

(* skip_newlines goes on from p to q.                                      *)
SkipsNewlines(p, q) ==
  /\ q \in p .. Len(tokens) /\ KindAt(q) # "Newline"
  /\ \A r \in p .. q - 1 : KindAt(r) = "Newline"

(* The line that p is in ends at q.                                        *)
LeavesLine(p, q) ==
  /\ q \in p .. Len(tokens) /\ KindAt(q) \in {"Newline", "EOF"}
  /\ \A r \in p .. q - 1 : KindAt(r) # "Newline"

Ends(body, q) == KindAt(q) \in {body.with, "EOF"}

(* One turn of the loop over the items of the program or a block: after an *)
(* item, or the error in it, the newlines are skipped.                     *)
NextItem ==
  /\ Doing("body")
  /\ \E q \in pos .. Len(tokens) :
       /\ SkipsNewlines(pos, q)
       /\ ~Ends(Head(goals), q)
       /\ pos' = q
  /\ goals' = << Rule(Head(goals).what), [Head(goals) EXCEPT !.n = Height] >> \o Tail(goals)
  /\ UNCHANGED <<tokens, errors, values, panicked>>

EndBody ==
  /\ Doing("body")
  /\ \E q \in pos .. Len(tokens) :
       /\ SkipsNewlines(pos, q)
       /\ Ends(Head(goals), q)
       /\ pos' = After(q)
  /\ goals' = Tail(goals)
  /\ UNCHANGED <<tokens, errors, values, panicked>>

Bodies == {i \in DOMAIN goals : goals[i].do = "body"}


Catcher == CHOOSE i \in Bodies : \A j \in Bodies : i <= j

(* The token that was not expected is taken, unless there is none left;    *)
(* the error names the last one taken.  The innermost loop keeps the items *)
(* it has and goes on at the end of the line; at the top level, where a    *)
(* token is taken if that is here, the newlines are skipped anyway.        *)
FailWith(kind) ==
  /\ errors' = Append(errors, [kind |-> kind, at |-> After(pos) - 1])
  /\ \E q \in 0 .. Len(tokens) : LeavesLine(After(pos), q) /\ pos' = q
  /\ goals' = SubSeq(goals, Catcher, Len(goals))
  /\ values' = SubSeq(values, 1, goals[Catcher].n)
  /\ UNCHANGED <<tokens, panicked>>

Unexpected ==
  /\ \/ Doing("bad")
     \/ Doing("take") /\ Head(goals).what # Peek(0)
     \/ Doing("leaf") /\ ~LeafFits
  /\ FailWith("UnexpectedToken")

Invalid ==
  /\ Doing("leaf") /\ Overflows
  /\ FailWith("InvalidExpression")

Done == goals = << >>
Ended == (Done \/ panicked) /\ UNCHANGED vars

Next ==
  \/ Predict \/ TakeToken \/ MakeLeaf \/ MakeNode \/ NextItem \/ EndBody
  \/ Unexpected \/ Invalid \/ Panic \/ Ended

Spec == Init /\ [][Next]_vars /\ WF_vars(Next)

-----------------------------------------------------------------------------
(* Properties.                                                             *)

(* The parser is done with every text, whatever is wrong with it: no loop  *)
(* and no recovery goes round without taking a token.                      *)
Terminates == <>(Done \/ panicked)

(* A Dedent starts a line, as it does in what the lexer hands over.        *)
DedentsStartLines ==
  \A p \in DOMAIN tokens :
    tokens[p].t = "Dedent" => p > 1 /\ tokens[p - 1].t \in {"Newline", "Dedent"}

(* An error took the end of a line, or of a block, for part of an item.    *)
LayoutLost ==
  \E e \in DOMAIN errors : tokens[errors[e].at + 1].t \in {"Newline", "Dedent"}

Taken(t) == {p \in 1 .. pos : tokens[p].t = t}
BlockLoops == {i \in Bodies : goals[i].with = "Dedent"}

(* No loop runs that is not inside of its block, whatever errors there     *)
(* were, unless one took a Newline or a Dedent it did not expect: each has *)
(* an Indent that was taken and whose Dedent is to come.                   *)
LoopsInBlocks ==
  DedentsStartLines /\ ~LayoutLost =>
    Cardinality(BlockLoops) <= Cardinality(Taken("Indent")) - Cardinality(Taken("Dedent"))
=============================================================================
