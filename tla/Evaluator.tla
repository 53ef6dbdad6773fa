------------------------------ MODULE Evaluator ------------------------------
(***************************************************************************)
(* The evaluator of policy conditions (policy/evaluator.py) on what the    *)
(* parser leaves: the nodes of the syntax tree in the order in which they  *)
(* are made, operands before their operator, the root last.  A leaf is     *)
(* <<"literal", token>> or <<"field", path>>.  The node before an operator *)
(* is the root of its right operand (of the only one of "not"); where that *)
(* operand's nodes end, and so the root of the left one, is told by their  *)
(* number n in the operator's node <<op, n>>.                              *)
(*                                                                         *)
(* Python's == and < between values are constants.  So that a field path   *)
(* stays within payloads, attributes of Python values are left out (a      *)
(* field named like a method).                                             *)
(***************************************************************************)
EXTENDS Integers, Sequences

CONSTANTS Field,        \* identifiers
          Literal,      \* the literals, as a function from tokens to values
          CompOp,       \* the comparison operators in use
          PayloadValue, \* what a field of a payload may hold
          Same(_, _),   \* l == r
          Less(_, _)    \* l < r, of values that have an order

ASSUME EvaluatorAssumption == CompOp \subseteq {"<", ">", "<=", ">=", "==", "!="}

VARIABLE parsed  \* the parser's result: whether it is a tree, its nodes

-----------------------------------------------------------------------------
(* Values: a type and content; a string is its length, as if every shorter *)
(* string were part of every longer one.                                   *)

Missing == [type |-> "missing", of |-> 0]

Bool(b) == [type |-> "bool", of |-> IF b THEN 1 ELSE 0]

IsNumber(v) == v.type \in {"number", "bool"}

\* Python's truth value.  (A list and a dict are the functions they are.)
Truthy(v) ==
  CASE v.type \in {"missing", "null"} -> FALSE
    [] v.type \in {"list", "dict"} -> DOMAIN v.of # {}
    [] OTHER -> v.of # 0

\* What has no order raises TypeError, which is caught and means false.
Ordered(l, r) ==
  \/ IsNumber(l) /\ IsNumber(r)
  \/ l.type = r.type /\ l.type \in {"string", "list"}

FaultyCompare(op, l, r) ==
  CASE op = "==" -> Same(l, r)
    [] op = "!=" -> ~Same(l, r)
    [] op = "<" -> Ordered(l, r) /\ Less(l, r)
    [] OTHER -> FALSE

Compare(op, l, r) ==
  /\ Missing \notin {l, r}
  /\ CASE op = "==" -> Same(l, r)
       [] op = "!=" -> ~Same(l, r)
       [] op = "<" -> Ordered(l, r) /\ Less(l, r)
       [] op = ">" -> Ordered(l, r) /\ Less(r, l)
       [] op = "<=" -> Ordered(l, r) /\ (Less(l, r) \/ Same(l, r))
       [] op = ">=" -> Ordered(l, r) /\ (Less(r, l) \/ Same(l, r))

\* A string, or the summary of a structured object (which is a string here;
\* str() makes one of anything else).
Text(v) ==
  IF v.type = "dict" /\ "summary" \in DOMAIN v.of THEN v.of["summary"] ELSE v

Contains(l, r) ==
  /\ Missing \notin {l, r}
  /\ IF Text(l).type = "string" /\ r.type = "string" THEN r.of <= Text(l).of
     ELSE l.type = "list" /\ \E k \in DOMAIN l.of : Same(l.of[k], r)

-----------------------------------------------------------------------------
(* evaluate *)

Member(v, part) ==
  IF v.type = "dict" /\ part \in DOMAIN v.of THEN v.of[part] ELSE Missing

\* _resolve_field walks the dotted path.
Resolve(payload, path) ==
  LET walk[n \in 0..Len(path)] ==
        IF n = 0 THEN [type |-> "dict", of |-> payload] ELSE Member(walk[n - 1], path[n])
  IN walk[Len(path)]

\* The root of the left operand of the operator that is node k.
LeftOf(nodes, k) == k - 1 - nodes[k][2]

\* What a node is worth, given what its operands are.
Value(nodes, k, values, payload) ==
  LET op == nodes[k][1]
      left == values[LeftOf(nodes, k)]
      right == values[k - 1]
  IN CASE op = "literal" -> Literal[nodes[k][2]]
       [] op = "field" -> Resolve(payload, nodes[k][2])
       [] op = "not" -> Bool(~Truthy(right))
       [] op = "and" -> Bool(Truthy(left) /\ Truthy(right))
       [] op = "or" -> Bool(Truthy(left) \/ Truthy(right))
       [] op = "contains" -> Bool(Contains(left, right))
       [] OTHER -> Bool(Compare(op, left, right))

Eval(nodes, payload) ==
  LET values[k \in DOMAIN nodes] == Value(nodes, k, values, payload)
  IN values[Len(nodes)]

-----------------------------------------------------------------------------

LeafNode == ({"literal"} \X DOMAIN Literal) \cup ({"field"} \X (Seq(Field) \ {<<>>}))

BinaryNode == (CompOp \cup {"and", "or", "contains"}) \X Nat

Node == LeafNode \cup {<<"not">>} \cup BinaryNode

Leaf(node) == node[1] \in {"literal", "field"}

\* Operands come before their operators.
IsTree(nodes) ==
  /\ nodes \in Seq(Node) \ {<<>>}
  /\ \A k \in DOMAIN nodes :
       \/ Leaf(nodes[k])
       \/ nodes[k][1] = "not" /\ k > 1
       \/ nodes[k][1] # "not" /\ nodes[k][2] \in 1..(k - 2)

\* What the parser returns is a tree: Expressions says so of the parser.
ParsesToTree == parsed.ok => IsTree(parsed.nodes)

\* Negation and results compared with each other apart, so that what a
\* comparison yields is only ever used as a condition.
Plain(nodes) ==
  \A k \in DOMAIN nodes :
    \/ Leaf(nodes[k]) \/ nodes[k][1] \in {"and", "or"}
    \/ nodes[k][1] # "not" /\ Leaf(nodes[LeftOf(nodes, k)]) /\ Leaf(nodes[k - 1])

Payloads == UNION {[fields -> PayloadValue] : fields \in SUBSET Field}

\* A rule whose condition is free of "not" is never true because a field is
\* missing: if it is true of a payload, it stays true when fields are added,
\* whatever they hold.  (evaluator.py:3: a comparison with a missing field is
\* false, != included.)
MissingOnlyHides ==
  parsed.ok /\ Plain(parsed.nodes) =>
    \A payload \in Payloads : \A fields \in SUBSET DOMAIN payload :
      Truthy(Eval(parsed.nodes, [f \in fields |-> payload[f]])) =>
        Truthy(Eval(parsed.nodes, payload))

=============================================================================
