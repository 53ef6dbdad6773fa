----------------------------- MODULE Expressions -----------------------------
(***************************************************************************)
(* The expressions of policy rules: the recursive descent parser           *)
(* (policy/parser.py), against the grammar that its docstring states, and  *)
(* the Evaluator of what it returns.  The variables hold one expression,   *)
(* token by token, and what the parser makes of it; TLC enumerates the     *)
(* expressions of up to MaxTokens tokens.                                  *)
(*                                                                         *)
(* Cutting the text into tokens is left out: a token is a string such as   *)
(* "and", a field's name, or a literal.                                    *)
(***************************************************************************)
EXTENDS Evaluator

CONSTANT MaxTokens

Keyword == {"and", "or", "not", "contains"}

Punctuation == {".", "(", ")"}

Token == Field \cup DOMAIN Literal \cup CompOp \cup Keyword \cup Punctuation

\* What a token is, the tokenizer has decided; there is an end of the tokens.
ASSUME ExpressionsAssumption ==
  /\ MaxTokens \in Nat
  /\ Field \cap DOMAIN Literal = {}
  /\ (Field \cup DOMAIN Literal) \cap (CompOp \cup Keyword \cup Punctuation) = {}
  /\ "EOF" \notin Token

VARIABLE tokens

-----------------------------------------------------------------------------
(* Parser.  A method called at a position returns the nodes that it made   *)
(* and the position after the last token that it took, or the position of  *)
(* a token that it did not expect.  All calls are in one function, from    *)
(* the method (named for its kind of expression) and the position.         *)

Peek(s, p) == IF p <= Len(s) THEN s[p] ELSE "EOF"

Parsed(nodes, at) == [ok |-> TRUE, nodes |-> nodes, at |-> at]

Unexpected(at) == [ok |-> FALSE, nodes |-> <<>>, at |-> at]

Constant(token) == <<<<"literal", token>>>>

Access(path) == <<<<"field", path>>>>

Negated(operand) == Append(operand, <<"not">>)

Joined(op, left, right) == Append(left \o right, <<op, Len(right)>>)

\* IDENT ("." IDENT)*; keywords are not identifiers.
FieldAccess(call, s, p) ==
  LET rest == call[<<"field", p + 2>>]
  IN IF Peek(s, p) \notin Field THEN Unexpected(p)
     ELSE IF Peek(s, p + 1) # "." THEN Parsed(Access(<<s[p]>>), p + 1)
     ELSE IF rest.ok THEN Parsed(Access(<<s[p]>> \o rest.nodes[1][2]), rest.at)
     ELSE rest

Primary(call, s, p) ==
  LET inner == call[<<"or", p + 1>>]
  IN IF Peek(s, p) \in DOMAIN Literal THEN Parsed(Constant(s[p]), p + 1)
     ELSE IF Peek(s, p) # "(" THEN call[<<"field", p>>]
     ELSE IF inner.ok /\ Peek(s, inner.at) = ")" THEN Parsed(inner.nodes, inner.at + 1)
     ELSE Unexpected(inner.at)

\* One more operator and its right operand, if such an operator follows.
Optional(call, s, left, ops, operand) ==
  LET right == call[<<operand, left.at + 1>>]
  IN IF ~left.ok \/ Peek(s, left.at) \notin ops THEN left
     ELSE IF right.ok THEN Parsed(Joined(s[left.at], left.nodes, right.nodes), right.at)
     ELSE right

\* The operators that do not chain.
ContainsExpr(call, s, p) ==
  Optional(call, s, call[<<"primary", p>>], {"contains"}, "primary")

Comparison(call, s, p) ==
  Optional(call, s, call[<<"contains", p>>], CompOp, "contains")

\* "not" taken for an operator on one operand.
FaultyNotExpr(call, s, p) ==
  LET operand == call[<<"primary", p + 1>>]
  IN IF Peek(s, p) # "not" THEN call[<<"comparison", p>>]
     ELSE IF operand.ok THEN Parsed(Negated(operand.nodes), operand.at)
     ELSE operand

NotExpr(call, s, p) ==
  LET operand == call[<<"not", p + 1>>]
  IN IF Peek(s, p) # "not" THEN call[<<"comparison", p>>]
     ELSE IF operand.ok THEN Parsed(Negated(operand.nodes), operand.at)
     ELSE operand

\* The while loops, turn by turn: what there is so far is the left operand of
\* the next operator.
Turns(call, s, p, ops, operand) ==
  LET left[n \in 0..Len(s)] ==
        IF n = 0 THEN call[<<operand, p>>] ELSE Optional(call, s, left[n - 1], ops, operand)
  IN left

AndExpr(call, s, p) == Turns(call, s, p, {"and"}, "not")[Len(s)]

OrExpr(call, s, p) == Turns(call, s, p, {"or"}, "and")[Len(s)]

Kind == {"or", "and", "not", "comparison", "contains", "primary", "field"}

Method(call, s, kind, p) ==
  CASE kind = "or" -> OrExpr(call, s, p)
    [] kind = "and" -> AndExpr(call, s, p)
    [] kind = "not" -> NotExpr(call, s, p)
    [] kind = "comparison" -> Comparison(call, s, p)
    [] kind = "contains" -> ContainsExpr(call, s, p)
    [] kind = "primary" -> Primary(call, s, p)
    [] kind = "field" -> FieldAccess(call, s, p)

Calls(s) ==
  LET call[k \in Kind \X (1..(Len(s) + 1))] == Method(call, s, k[1], k[2])
  IN call

\* parse_expression: nothing may follow the expression.
Parse(s) ==
  LET result == Calls(s)[<<"or", 1>>]
  IN IF result.ok /\ result.at <= Len(s) THEN Unexpected(result.at) ELSE result

-----------------------------------------------------------------------------

Init == tokens = <<>> /\ parsed = Parse(tokens)

\* No part of the program: which expressions are tried.  Operands and operators
\* alternate in them; a token that breaks that is typed once, as the last one.
EndsOperand(s) == s # <<>> /\ s[Len(s)] \in Field \cup DOMAIN Literal \cup {")"}

Alternates(s, t) ==
  IF EndsOperand(s) THEN t \in CompOp \cup {"and", "or", "contains", ".", ")"}
  ELSE t \in Field \cup DOMAIN Literal \cup {"not", "("}

Type(t) ==
  /\ Len(tokens) < MaxTokens
  /\ tokens # <<>> => Alternates(SubSeq(tokens, 1, Len(tokens) - 1), tokens[Len(tokens)])
  /\ tokens' = Append(tokens, t)
  /\ parsed' = Parse(tokens')

Next == \E t \in Token : Type(t)

Spec == Init /\ [][Next]_<<tokens, parsed>>

-----------------------------------------------------------------------------

(* The grammar of parser.py:5-14: all trees that it has for the tokens     *)
(* from i to j as an expression of a kind, for all spans of the tokens.    *)

\* IDENT ("." IDENT)*, of n names.
Names(s, i, j, n) ==
  /\ j = i + 2 * n - 2
  /\ \A k \in 1..n : s[i + 2 * k - 2] \in Field
  /\ \A k \in 1..(n - 1) : s[i + 2 * k - 1] = "."

Path(s, i, n) == [k \in 1..n |-> s[i + 2 * k - 2]]

AllJoined(op, lefts, rights) == {Joined(op, a, b) : a \in lefts, b \in rights}

\* An operator of ops, an expression of kind l before it, one of kind r behind.
Split(trees, s, i, j, ops, l, r) ==
  UNION {AllJoined(s[k], trees[<<l, i, k - 1>>], trees[<<r, k + 1, j>>]) :
         k \in {n \in (i + 1)..(j - 1) : s[n] \in ops}}

\* "and" and "or" group to the left.
Rule(trees, s, kind, i, j) ==
  CASE kind = "or" -> trees[<<"and", i, j>>] \cup Split(trees, s, i, j, {"or"}, "or", "and")
    [] kind = "and" -> trees[<<"not", i, j>>] \cup Split(trees, s, i, j, {"and"}, "and", "not")
    [] kind = "not" ->
         trees[<<"comparison", i, j>>] \cup
         (IF i < j /\ s[i] = "not" THEN {Negated(a) : a \in trees[<<"not", i + 1, j>>]} ELSE {})
    [] kind = "comparison" ->
         trees[<<"contains", i, j>>] \cup Split(trees, s, i, j, CompOp, "contains", "contains")
    [] kind = "contains" ->
         trees[<<"primary", i, j>>] \cup Split(trees, s, i, j, {"contains"}, "primary", "primary")
    [] kind = "primary" ->
         {Constant(token) : token \in {t \in DOMAIN Literal : i = j /\ t = s[i]}} \cup
         trees[<<"field", i, j>>] \cup
         (IF i + 1 < j /\ s[i] = "(" /\ s[j] = ")" THEN trees[<<"or", i + 1, j - 1>>] ELSE {})
    [] kind = "field" ->  {Access(Path(s, i, n)) : n \in {m \in 1..Len(s) : Names(s, i, j, m)}}

Trees(s) ==
  LET trees[k \in Kind \X (1..Len(s)) \X (1..Len(s))] == Rule(trees, s, k[1], k[2], k[3])
  IN trees

Derive(s) == IF s = <<>> THEN {} ELSE Trees(s)[<<"or", 1, Len(s)>>]

\* The parser accepts an expression exactly if the grammar of its docstring
\* has it, and reads it the only way the grammar allows: precedence, the
\* grouping of chains, comparisons that must not be chained, "not" before a
\* comparison but not inside one.
ParserReadsGrammar ==
  /\ ParsesToTree
  /\ Derive(tokens) = IF parsed.ok THEN {parsed.nodes} ELSE {}

=============================================================================
