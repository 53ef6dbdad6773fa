--------------------------- MODULE ExpressionsProofs ---------------------------
(***************************************************************************)
(* Proofs about the conditions of policy rules, for expressions of any     *)
(* length over any fields, literals and comparison operators, every        *)
(* payload, and whatever == and < mean between values.                     *)
(*                                                                         *)
(*   Evaluator   What a node is worth depends on earlier nodes; a part of  *)
(*               a payload gives each leaf its value or "missing".         *)
(*   Calls       The parser's calls go on to later positions or down the   *)
(*               methods, so that all of them return.                      *)
(*   Trees       So do the rules of the grammar, to shorter spans.         *)
(*   Soundness   What a method returns, the grammar has for the tokens     *)
(*               that it took.                                             *)
(*   Completeness  What the grammar has for a span, a method returns if    *)
(*               the next token cannot go on with it.                      *)
(*                                                                         *)
(* The last two say that parse_expression accepts what the grammar has,    *)
(* and that no expression has two trees.                                   *)
(*                                                                         *)
(* Recursive functions are reasoned about by the least argument, by some   *)
(* measure, for which a claim fails.                                       *)
(***************************************************************************)
EXTENDS Expressions, NaturalsInduction, WellFoundedInduction, TLAPS

LEMMA LeastNumber ==
  ASSUME NEW T \in SUBSET Nat, T # {}
  PROVE  \E n \in T : \A m \in T : n <= m
<1> DEFINE R == OpToRel(<, Nat)
<1>1. IsWellFoundedOn(R, Nat)
  BY NatLessThanWellFounded
<1>2. \E n \in T : \A m \in T : ~(<<m, n>> \in R)
  <2> HIDE DEF R
  <2> QED
    BY <1>1, WFMin
<1>3. \A m, n \in Nat : <<m, n>> \in R <=> m < n
  BY DEF OpToRel
<1> HIDE DEF R
<1>4. PICK n \in T : \A m \in T : ~(<<m, n>> \in R)
  BY <1>2
<1>5. ASSUME NEW m \in T PROVE n <= m
  <2>1. m \in Nat /\ n \in Nat /\ ~(<<m, n>> \in R)
    BY <1>4
  <2>2. ~(m < n)
    BY <1>3, <2>1
  <2> QED
    BY <2>1, <2>2
<1> QED
  BY <1>5

-----------------------------------------------------------------------------
(* Paths *)

Walk(payload, path, walk, n) ==
  walk = [k \in 0..n |-> IF k = 0 THEN [type |-> "dict", of |-> payload]
                         ELSE Member(walk[k - 1], path[k])]

\* The walk along a path exists.
LEMMA WalkExists ==
  ASSUME NEW payload, NEW path, NEW n \in Nat
  PROVE  \E walk : Walk(payload, path, walk, n)
<1> DEFINE start == [type |-> "dict", of |-> payload]
<1> DEFINE T == {m \in Nat : ~\E walk : Walk(payload, path, walk, m)}
<1> SUFFICES ASSUME T # {} PROVE FALSE
  OBVIOUS
<1>1. PICK m \in T : \A k \in T : m <= k
  BY LeastNumber
<1>2. m \in Nat /\ ~\E walk : Walk(payload, path, walk, m)
  OBVIOUS
<1>3. CASE m = 0
  <2> DEFINE walk == [k \in 0..0 |-> start]
  <2>1. Walk(payload, path, walk, 0)
    BY DEF Walk
  <2> QED
    BY <1>2, <1>3, <2>1
<1>4. CASE m > 0
  <2>1. m - 1 \in Nat /\ m - 1 \notin T
    BY <1>1, <1>2, <1>4
  <2>2. PICK before : Walk(payload, path, before, m - 1)
    BY <2>1
  <2> DEFINE last == Member(before[m - 1], path[m])
  <2> HIDE DEF start, last
  <2> DEFINE walk == [k \in 0..m |-> IF k < m THEN before[k] ELSE last]
  <2>3. ASSUME NEW k \in 0..m
        PROVE  walk[k] = IF k = 0 THEN start ELSE Member(walk[k - 1], path[k])
    <3>1. CASE k = m
      BY <1>2, <1>4, <3>1 DEF last
    <3>2. CASE k < m
      <4>1. k \in 0..(m - 1) /\ walk[k] = before[k] /\ (k > 0 => walk[k - 1] = before[k - 1])
        BY <1>2, <3>2
      <4>2. before[k] = IF k = 0 THEN start ELSE Member(before[k - 1], path[k])
        BY <2>2, <4>1 DEF Walk, start
      <4> QED
        BY <4>1, <4>2
    <3> QED
      BY <1>2, <3>1, <3>2
  <2>4. walk = [k \in 0..m |-> IF k = 0 THEN start ELSE Member(walk[k - 1], path[k])]
    BY <2>3
  <2>5. Walk(payload, path, walk, m)
    BY <2>4 DEF Walk, start
  <2> QED
    BY <1>2, <2>5
<1> QED
  BY <1>2, <1>3, <1>4

\* Resolve is the end of that walk.
LEMMA ResolveWalks ==
  ASSUME NEW payload, NEW path, Len(path) \in Nat
  PROVE  \E walk : Walk(payload, path, walk, Len(path)) /\ Resolve(payload, path) = walk[Len(path)]
<1> DEFINE walk == CHOOSE w : w = [k \in 0..Len(path) |->
                     IF k = 0 THEN [type |-> "dict", of |-> payload]
                     ELSE Member(w[k - 1], path[k])]
<1>1. Resolve(payload, path) = walk[Len(path)]
  BY DEF Resolve
<1>2. \E w : w = [k \in 0..Len(path) |->
                     IF k = 0 THEN [type |-> "dict", of |-> payload]
                     ELSE Member(w[k - 1], path[k])]
  <2>1. \E w : Walk(payload, path, w, Len(path))
    BY WalkExists
  <2> QED
    BY <2>1, Zenon DEF Walk
<1>3. walk = [k \in 0..Len(path) |->
                     IF k = 0 THEN [type |-> "dict", of |-> payload]
                     ELSE Member(walk[k - 1], path[k])]
  BY <1>2
<1>4. Walk(payload, path, walk, Len(path))
  BY <1>3 DEF Walk
<1> QED
  BY <1>1, <1>4

Part(payload, fields) == [f \in fields |-> payload[f]]

\* A field of a part of a payload is what it is in all of it, or missing.
LEMMA PartsResolveAlike ==
  ASSUME NEW payload, NEW fields \in SUBSET DOMAIN payload,
         NEW path, Len(path) \in Nat \ {0}
  PROVE  \/ Resolve(Part(payload, fields), path) = Missing
         \/ Resolve(Part(payload, fields), path) = Resolve(payload, path)
<1> DEFINE N == Len(path)
<1>1. PICK some : Walk(Part(payload, fields), path, some, N)
                  /\ Resolve(Part(payload, fields), path) = some[N]
  BY ResolveWalks
<1>2. PICK all : Walk(payload, path, all, N) /\ Resolve(payload, path) = all[N]
  BY ResolveWalks
<1> DEFINE T == {n \in Nat : n \in 1..N /\ some[n] # Missing /\ some[n] # all[n]}
<1>3. N \in Nat /\ N \in 1..N
  OBVIOUS
<1> HIDE DEF N
<1>4. \A n \in 1..N : some[n] = Member(some[n - 1], path[n]) /\ all[n] = Member(all[n - 1], path[n])
  BY <1>1, <1>2, <1>3 DEF Walk
<1>5. some[0] = [type |-> "dict", of |-> Part(payload, fields)] /\ all[0] = [type |-> "dict", of |-> payload]
  BY <1>1, <1>2, <1>3 DEF Walk
<1>6. ASSUME T # {} PROVE FALSE
  <2>1. PICK n \in T : \A m \in T : n <= m
    BY <1>6, LeastNumber
  <2>2. n \in 1..N /\ some[n] # Missing /\ some[n] # all[n]
    OBVIOUS
  <2>3. CASE n = 1
    <3>1. some[1] = IF path[1] \in fields THEN payload[path[1]] ELSE Missing
      BY <1>4, <1>5, <2>2, <2>3 DEF Member, Part
    <3>2. path[1] \in fields => all[1] = payload[path[1]]
      BY <1>4, <1>5, <2>2, <2>3 DEF Member
    <3> QED
      BY <2>2, <2>3, <3>1, <3>2
  <2>4. CASE n > 1
    <3>1. n - 1 \in 1..N /\ n - 1 \in Nat /\ n - 1 \notin T
      BY <1>3, <2>1, <2>2, <2>4
    <3>2. some[n - 1] = Missing \/ some[n - 1] = all[n - 1]
      BY <3>1
    <3>3. Member(Missing, path[n]) = Missing
      BY DEF Member, Missing
    <3> QED
      BY <1>4, <2>2, <3>2, <3>3
  <2> QED
    BY <1>3, <2>2, <2>3, <2>4
<1> QED
  BY <1>1, <1>2, <1>3, <1>6

-----------------------------------------------------------------------------
(* Nodes *)

Valuation(nodes, payload, values, n) ==
  values = [k \in 1..n |-> Value(nodes, k, values, payload)]

LEMMA TreesAreSequences ==
  ASSUME NEW nodes, IsTree(nodes)
  PROVE  /\ Len(nodes) \in Nat \ {0}
         /\ DOMAIN nodes = 1..Len(nodes)
         /\ Len(nodes) \in 1..Len(nodes)
BY DEF IsTree

\* What stands at a node.
LEMMA NodeForms ==
  ASSUME NEW nodes, IsTree(nodes), NEW k \in 1..Len(nodes)
  PROVE  /\ nodes[k][1] = "literal" => nodes[k][2] \in DOMAIN Literal
         /\ nodes[k][1] = "field" => nodes[k][2] \in Seq(Field) \ {<<>>}
         /\ nodes[k][1] = "not" => k - 1 \in 1..(k - 1)
         /\ ~Leaf(nodes[k]) /\ nodes[k][1] # "not" =>
              LeftOf(nodes, k) \in 1..(k - 1) /\ k - 1 \in 1..(k - 1)
<1>1. nodes \in Seq(Node) /\ nodes[k] \in Node /\ k \in DOMAIN nodes /\ k \in Nat
  BY TreesAreSequences DEF IsTree
<1>2. \/ Leaf(nodes[k])
      \/ nodes[k][1] = "not" /\ k > 1
      \/ nodes[k][1] # "not" /\ nodes[k][2] \in 1..(k - 2)
  BY <1>1 DEF IsTree
<1>3. CASE Leaf(nodes[k])
  <2>1. nodes[k] \in LeafNode
    BY <1>1, <1>3, EvaluatorAssumption DEF Node, Leaf, BinaryNode
  <2> QED
    BY <1>3, <2>1 DEF Leaf, LeafNode
<1>4. CASE nodes[k][1] = "not" /\ k > 1
  BY <1>1, <1>4 DEF Leaf
<1>5. CASE ~Leaf(nodes[k]) /\ nodes[k][1] # "not" /\ nodes[k][2] \in 1..(k - 2)
  BY <1>1, <1>5 DEF Leaf, LeftOf
<1> QED
  BY <1>2, <1>3, <1>4, <1>5 DEF Leaf

\* What a node is worth depends on its payload and on earlier nodes only.
LEMMA ValueOfOperands ==
  ASSUME NEW nodes, IsTree(nodes), NEW payload, NEW k \in 1..Len(nodes), NEW f, NEW g,
         \A i \in 1..(k - 1) : f[i] = g[i]
  PROVE  Value(nodes, k, f, payload) = Value(nodes, k, g, payload)
<1>1. CASE Leaf(nodes[k])
  BY <1>1 DEF Leaf, Value
<1>2. CASE nodes[k][1] = "not"
  <2>1. f[k - 1] = g[k - 1]
    BY <1>2, NodeForms
  <2> QED
    BY <1>2, <2>1 DEF Value
<1>3. CASE ~Leaf(nodes[k]) /\ nodes[k][1] # "not"
  <2>1. f[LeftOf(nodes, k)] = g[LeftOf(nodes, k)] /\ f[k - 1] = g[k - 1]
    BY <1>3, NodeForms
  <2> QED
    BY <2>1, Zenon DEF Value
<1> QED
  BY <1>1, <1>2, <1>3

\* The nodes of a tree have values.
LEMMA ValuationExists ==
  ASSUME NEW nodes, IsTree(nodes), NEW payload, NEW n \in 0..Len(nodes)
  PROVE  \E values : Valuation(nodes, payload, values, n)
<1> DEFINE T == {m \in Nat : m <= n /\ ~\E values : Valuation(nodes, payload, values, m)}
<1>0. DOMAIN nodes = 1..Len(nodes) /\ Len(nodes) \in Nat
  BY TreesAreSequences
<1> SUFFICES ASSUME T # {} PROVE FALSE
  BY <1>0
<1>1. PICK m \in T : \A k \in T : m <= k
  BY LeastNumber
<1>2. m \in Nat /\ m <= n /\ ~\E values : Valuation(nodes, payload, values, m)
  OBVIOUS
<1>3. CASE m = 0
  <2> DEFINE none == [k \in 1..0 |-> 0]
  <2>1. Valuation(nodes, payload, none, 0)
    BY DEF Valuation
  <2> QED
    BY <1>2, <1>3, <2>1
<1>4. CASE m > 0
  <2>1. m - 1 \in Nat /\ m - 1 \notin T /\ m - 1 <= n
    BY <1>0, <1>1, <1>2, <1>4
  <2>2. PICK before : Valuation(nodes, payload, before, m - 1)
    BY <2>1
  <2> DEFINE last == Value(nodes, m, before, payload)
  <2> HIDE DEF last
  <2> DEFINE values == [k \in 1..m |-> IF k < m THEN before[k] ELSE last]
  <2>3. \A k \in 1..(m - 1) : values[k] = before[k]
    BY <1>2
  <2> HIDE DEF values
  <2>4. ASSUME NEW k \in 1..m PROVE values[k] = Value(nodes, k, values, payload)
    <3>1. k \in 1..Len(nodes) /\ \A i \in 1..(k - 1) : values[i] = before[i]
      BY <1>0, <1>2, <2>3
    <3>2. Value(nodes, k, values, payload) = Value(nodes, k, before, payload)
      BY <3>1, ValueOfOperands
    <3>3. CASE k = m
      BY <1>2, <1>4, <3>2, <3>3 DEF values, last
    <3>4. CASE k < m
      <4>1. k \in 1..(m - 1)
        BY <1>2, <3>4
      <4>2. before[k] = Value(nodes, k, before, payload)
        BY <2>2, <4>1 DEF Valuation
      <4> QED
        BY <2>3, <3>2, <4>1, <4>2
    <3> QED
      BY <1>2, <3>3, <3>4
  <2>5. Valuation(nodes, payload, values, m)
    BY <2>4 DEF Valuation, values
  <2> QED
    BY <1>2, <2>5
<1> QED
  BY <1>2, <1>3, <1>4

\* evaluate returns what the root is worth.
LEMMA EvalValues ==
  ASSUME NEW nodes, IsTree(nodes), NEW payload
  PROVE  \E values : Valuation(nodes, payload, values, Len(nodes)) /\ Eval(nodes, payload) = values[Len(nodes)]
<1> DEFINE values == CHOOSE v : v = [k \in DOMAIN nodes |-> Value(nodes, k, v, payload)]
<1>1. Eval(nodes, payload) = values[Len(nodes)]
  BY DEF Eval
<1>2. DOMAIN nodes = 1..Len(nodes) /\ Len(nodes) \in 0..Len(nodes)
  BY TreesAreSequences
<1>3. \E v : v = [k \in DOMAIN nodes |-> Value(nodes, k, v, payload)]
  <2>1. \E v : Valuation(nodes, payload, v, Len(nodes))
    BY <1>2, ValuationExists
  <2> QED
    BY <1>2, <2>1, Zenon DEF Valuation
<1>4. values = [k \in DOMAIN nodes |-> Value(nodes, k, values, payload)]
  BY <1>3
<1>5. Valuation(nodes, payload, values, Len(nodes))
  BY <1>2, <1>4, Zenon DEF Valuation
<1> QED
  BY <1>1, <1>5

-----------------------------------------------------------------------------
(* Missing fields *)

LEMMA TruthOfBool ==
  ASSUME NEW b \in BOOLEAN
  PROVE  Truthy(Bool(b)) <=> b
BY DEF Truthy, Bool

LEMMA MissingIsFalse == ~Truthy(Missing)
BY DEF Truthy, Missing

\* Of a part of a payload a leaf is worth what it is of all of it, or missing.
LEMMA LeavesAreAlike ==
  ASSUME NEW nodes, IsTree(nodes), NEW k \in 1..Len(nodes), Leaf(nodes[k]),
         NEW payload, NEW fields \in SUBSET DOMAIN payload, NEW f, NEW g
  PROVE  \/ Value(nodes, k, f, Part(payload, fields)) = Missing
         \/ Value(nodes, k, f, Part(payload, fields)) = Value(nodes, k, g, payload)
<1>1. CASE nodes[k][1] = "literal"
  BY <1>1 DEF Value
<1>2. CASE nodes[k][1] = "field"
  <2>1. nodes[k][2] \in Seq(Field) /\ nodes[k][2] # <<>>
    BY <1>2, NodeForms
  <2>2. Len(nodes[k][2]) \in Nat \ {0}
    BY <2>1
  <2>3. /\ Value(nodes, k, f, Part(payload, fields)) = Resolve(Part(payload, fields), nodes[k][2])
        /\ Value(nodes, k, g, payload) = Resolve(payload, nodes[k][2])
    BY <1>2 DEF Value
  <2> QED
    BY <2>2, <2>3, PartsResolveAlike
<1> QED
  BY <1>1, <1>2 DEF Leaf

\* A condition without "not" is never true because a field is missing.
LEMMA PartsOnlyHide ==
  ASSUME NEW nodes, IsTree(nodes), Plain(nodes),
         NEW payload, NEW fields \in SUBSET DOMAIN payload,
         Truthy(Eval(nodes, Part(payload, fields)))
  PROVE  Truthy(Eval(nodes, payload))
<1> DEFINE N == Len(nodes)
<1>0. DOMAIN nodes = 1..N /\ N \in Nat /\ N \in 1..N
  BY TreesAreSequences
<1>1. PICK some : Valuation(nodes, Part(payload, fields), some, N)
                  /\ Eval(nodes, Part(payload, fields)) = some[N]
  BY EvalValues
<1>2. PICK all : Valuation(nodes, payload, all, N) /\ Eval(nodes, payload) = all[N]
  BY EvalValues
<1> DEFINE T == {k \in Nat : k \in 1..N /\ Truthy(some[k]) /\ ~Truthy(all[k])}
<1>n. \A k \in 1..N : /\ nodes[k][1] = "not" => k - 1 \in 1..(k - 1)
                      /\ ~Leaf(nodes[k]) /\ nodes[k][1] # "not" =>
                           LeftOf(nodes, k) \in 1..(k - 1) /\ k - 1 \in 1..(k - 1)
  BY NodeForms
<1>l. \A k \in 1..N : Leaf(nodes[k]) =>
        \A f, g : \/ Value(nodes, k, f, Part(payload, fields)) = Missing
                 \/ Value(nodes, k, f, Part(payload, fields)) = Value(nodes, k, g, payload)
  BY LeavesAreAlike
<1> HIDE DEF N
<1>3. \A k \in 1..N : /\ some[k] = Value(nodes, k, some, Part(payload, fields))
                      /\ all[k] = Value(nodes, k, all, payload)
  BY <1>1, <1>2 DEF Valuation
<1>4. \A k \in 1..N : Leaf(nodes[k]) => some[k] = Missing \/ some[k] = all[k]
  BY <1>3, <1>l
<1>5. ASSUME T # {} PROVE FALSE
  <2>1. PICK k \in T : \A m \in T : k <= m
    BY <1>5, LeastNumber
  <2>2. k \in 1..N /\ Truthy(some[k]) /\ ~Truthy(all[k])
    OBVIOUS
  <2>3. \A i \in 1..(k - 1) : i \in 1..N /\ (Truthy(some[i]) => Truthy(all[i]))
    BY <1>0, <2>1, <2>2
  <2>4. CASE Leaf(nodes[k])
    BY <1>4, <2>2, <2>4, MissingIsFalse
  <2>5. CASE nodes[k][1] = "and"
    <3> DEFINE l == LeftOf(nodes, k)  r == k - 1
    <3>1. l \in 1..(k - 1) /\ r \in 1..(k - 1)
      BY <1>n, <2>2, <2>5 DEF Leaf
    <3>2. some[k] = Bool(Truthy(some[l]) /\ Truthy(some[r])) /\ all[k] = Bool(Truthy(all[l]) /\ Truthy(all[r]))
      BY <1>3, <2>2, <2>5 DEF Value
    <3> QED
      BY <2>2, <2>3, <3>1, <3>2, TruthOfBool
  <2>6. CASE nodes[k][1] = "or"
    <3> DEFINE l == LeftOf(nodes, k)  r == k - 1
    <3>1. l \in 1..(k - 1) /\ r \in 1..(k - 1)
      BY <1>n, <2>2, <2>6 DEF Leaf
    <3>2. some[k] = Bool(Truthy(some[l]) \/ Truthy(some[r])) /\ all[k] = Bool(Truthy(all[l]) \/ Truthy(all[r]))
      BY <1>3, <2>2, <2>6 DEF Value
    <3> QED
      BY <2>2, <2>3, <3>1, <3>2, TruthOfBool
  <2>7. CASE ~Leaf(nodes[k]) /\ nodes[k][1] \notin {"and", "or"}
    <3> DEFINE l == LeftOf(nodes, k)  r == k - 1  op == nodes[k][1]
    <3>1. op # "not" /\ Leaf(nodes[l]) /\ Leaf(nodes[r])
      BY <1>0, <2>2, <2>7 DEF Plain
    <3>2. l \in 1..(k - 1) /\ r \in 1..(k - 1)
      BY <1>n, <2>2, <2>7, <3>1
    <3>3. /\ some[l] = Missing \/ some[l] = all[l]
          /\ some[r] = Missing \/ some[r] = all[r]
      BY <1>4, <2>3, <3>1, <3>2
    <3> HIDE DEF l, r
    <3>4. CASE op = "contains"
      <4>1. some[k] = Bool(Contains(some[l], some[r])) /\ all[k] = Bool(Contains(all[l], all[r]))
        BY <1>3, <2>2, <3>4 DEF Value, l, r
      <4>2. Contains(some[l], some[r])
        BY <2>2, <4>1, TruthOfBool DEF Contains
      <4>3. Contains(all[l], all[r])
        BY <3>3, <4>2 DEF Contains
      <4> QED
        BY <2>2, <4>1, <4>3, TruthOfBool DEF Contains
    <3>5. CASE op # "contains"
      <4>1. some[k] = Bool(Compare(op, some[l], some[r])) /\ all[k] = Bool(Compare(op, all[l], all[r]))
        BY <1>3, <2>2, <2>7, <3>1, <3>5 DEF Value, l, r, Leaf
      <4> QED
        BY <2>2, <3>3, <4>1, TruthOfBool DEF Compare
    <3> QED
      BY <3>4, <3>5
  <2> QED
    BY <2>4, <2>5, <2>6, <2>7
<1> QED
  BY <1>0, <1>1, <1>2, <1>5

\* Whatever tree the parser returns, however values compare and however deep
\* payloads are: a rule whose condition is free of "not" is not true of a
\* payload because a field is missing.
THEOREM MissingFieldsOnlyHide == ParsesToTree => MissingOnlyHides
<1> SUFFICES ASSUME IsTree(parsed.nodes), Plain(parsed.nodes),
                    NEW payload, NEW fields \in SUBSET DOMAIN payload,
                    Truthy(Eval(parsed.nodes, [f \in fields |-> payload[f]]))
             PROVE  Truthy(Eval(parsed.nodes, payload))
  BY DEF ParsesToTree, MissingOnlyHides
<1>1. Truthy(Eval(parsed.nodes, Part(payload, fields)))
  BY DEF Part
<1> QED
  BY <1>1, PartsOnlyHide

-----------------------------------------------------------------------------
(* Calls.  A method calls others further on, or at its own position lower  *)
(* ones only.                                                              *)

Rank(kind) ==
  CASE kind = "field" -> 0
    [] kind = "primary" -> 1
    [] kind = "contains" -> 2
    [] kind = "comparison" -> 3
    [] kind = "not" -> 4
    [] kind = "and" -> 5
    [] kind = "or" -> 6

LEMMA RankType == \A kind \in Kind : Rank(kind) \in 0..6
BY DEF Rank, Kind

Deeper(m, q, kind, p) == q > p \/ (q = p /\ Rank(m) < Rank(kind))

\* A method that returns has taken some tokens.
Forward(s, r, p) == r.ok => r.at \in (p + 1)..(Len(s) + 1)

LEMMA PeekInside ==
  ASSUME NEW s \in Seq(Token), NEW p \in Nat \ {0}, Peek(s, p) # "EOF"
  PROVE  p \in 1..Len(s) /\ Peek(s, p) = s[p] /\ s[p] \in Token
BY DEF Peek

LEMMA ParsedFields ==
  ASSUME NEW nodes, NEW at
  PROVE  /\ Parsed(nodes, at).ok /\ Parsed(nodes, at).nodes = nodes /\ Parsed(nodes, at).at = at
         /\ ~Unexpected(at).ok
BY DEF Parsed, Unexpected

LEMMA NoOperatorAtEnd ==
  /\ "EOF" \notin CompOp /\ "EOF" \notin Field /\ "EOF" \notin DOMAIN Literal
  /\ "EOF" \notin {"and"} /\ "EOF" \notin {"or"} /\ "EOF" \notin {"contains"}
BY ExpressionsAssumption DEF Token

\* An optional operator and its operand take tokens too.
LEMMA OptionalForward ==
  ASSUME NEW s \in Seq(Token), NEW p \in 1..(Len(s) + 1), NEW call, NEW left, NEW ops, NEW operand,
         "EOF" \notin ops, Forward(s, left, p),
         \A q \in (p + 1)..(Len(s) + 1) : Forward(s, call[<<operand, q>>], q)
  PROVE  Forward(s, Optional(call, s, left, ops, operand), p)
<1> DEFINE right == call[<<operand, left.at + 1>>]
<1>1. CASE ~left.ok \/ Peek(s, left.at) \notin ops
  BY <1>1 DEF Optional
<1>2. CASE left.ok /\ Peek(s, left.at) \in ops
  <2>1. left.at \in (p + 1)..(Len(s) + 1)
    BY <1>2 DEF Forward
  <2>2. left.at \in 1..Len(s)
    BY <1>2, <2>1, PeekInside
  <2>3. Forward(s, right, left.at + 1)
    BY <2>1, <2>2
  <2>4. CASE right.ok
    <3>1. right.at \in (p + 1)..(Len(s) + 1)
      BY <2>1, <2>3, <2>4 DEF Forward
    <3> QED
      BY <1>2, <2>4, <3>1, ParsedFields DEF Optional, Forward
  <2>5. CASE ~right.ok
    BY <1>2, <2>5 DEF Optional, Forward
  <2> QED
    BY <2>4, <2>5
<1> QED
  BY <1>1, <1>2

\* It depends on what follows only.
LEMMA OptionalAgrees ==
  ASSUME NEW s \in Seq(Token), NEW p \in 1..(Len(s) + 1), NEW c, NEW d, NEW left, NEW ops, NEW operand,
         "EOF" \notin ops, Forward(s, left, p),
         \A q \in (p + 1)..(Len(s) + 1) : c[<<operand, q>>] = d[<<operand, q>>]
  PROVE  Optional(c, s, left, ops, operand) = Optional(d, s, left, ops, operand)
<1>1. CASE ~left.ok \/ Peek(s, left.at) \notin ops
  BY <1>1 DEF Optional
<1>2. CASE left.ok /\ Peek(s, left.at) \in ops
  <2>1. left.at \in (p + 1)..(Len(s) + 1)
    BY <1>2 DEF Forward
  <2>2. left.at \in 1..Len(s)
    BY <1>2, <2>1, PeekInside
  <2>3. c[<<operand, left.at + 1>>] = d[<<operand, left.at + 1>>]
    BY <2>1, <2>2
  <2> QED
    BY <2>3, Zenon DEF Optional
<1> QED
  BY <1>1, <1>2

-----------------------------------------------------------------------------
(* Turns of the loops *)

Loop(call, s, p, ops, operand, left, n) ==
  left = [m \in 0..n |-> IF m = 0 THEN call[<<operand, p>>]
                         ELSE Optional(call, s, left[m - 1], ops, operand)]

LEMMA LoopExists ==
  ASSUME NEW call, NEW s, NEW p, NEW ops, NEW operand, NEW n \in Nat
  PROVE  \E left : Loop(call, s, p, ops, operand, left, n)
<1> DEFINE first == call[<<operand, p>>]
<1> DEFINE T == {m \in Nat : ~\E left : Loop(call, s, p, ops, operand, left, m)}
<1> SUFFICES ASSUME T # {} PROVE FALSE
  OBVIOUS
<1>1. PICK m \in T : \A k \in T : m <= k
  BY LeastNumber
<1>2. m \in Nat /\ ~\E left : Loop(call, s, p, ops, operand, left, m)
  OBVIOUS
<1>3. CASE m = 0
  <2> DEFINE left == [k \in 0..0 |-> first]
  <2>1. Loop(call, s, p, ops, operand, left, 0)
    BY DEF Loop
  <2> QED
    BY <1>2, <1>3, <2>1
<1>4. CASE m > 0
  <2>1. m - 1 \in Nat /\ m - 1 \notin T
    BY <1>1, <1>2, <1>4
  <2>2. PICK before : Loop(call, s, p, ops, operand, before, m - 1)
    BY <2>1
  <2> DEFINE last == Optional(call, s, before[m - 1], ops, operand)
  <2> HIDE DEF first, last
  <2> DEFINE left == [k \in 0..m |-> IF k < m THEN before[k] ELSE last]
  <2>3. ASSUME NEW k \in 0..m
        PROVE  left[k] = IF k = 0 THEN first ELSE Optional(call, s, left[k - 1], ops, operand)
    <3>1. CASE k = m
      BY <1>2, <1>4, <3>1 DEF last
    <3>2. CASE k < m
      <4>1. k \in 0..(m - 1) /\ left[k] = before[k] /\ (k > 0 => left[k - 1] = before[k - 1])
        BY <1>2, <3>2
      <4>2. before[k] = IF k = 0 THEN first ELSE Optional(call, s, before[k - 1], ops, operand)
        BY <2>2, <4>1 DEF Loop, first
      <4> QED
        BY <4>1, <4>2
    <3> QED
      BY <1>2, <3>1, <3>2
  <2>4. left = [k \in 0..m |-> IF k = 0 THEN first ELSE Optional(call, s, left[k - 1], ops, operand)]
    BY <2>3
  <2>5. Loop(call, s, p, ops, operand, left, m)
    BY <2>4 DEF Loop, first
  <2> QED
    BY <1>2, <2>5
<1> QED
  BY <1>2, <1>3, <1>4

\* Every turn takes one more operator.
LEMMA TurnsStep ==
  ASSUME NEW call, NEW s \in Seq(Token), NEW p, NEW ops, NEW operand
  PROVE  /\ Turns(call, s, p, ops, operand)[0] = call[<<operand, p>>]
         /\ \A n \in 1..Len(s) : Turns(call, s, p, ops, operand)[n] =
              Optional(call, s, Turns(call, s, p, ops, operand)[n - 1], ops, operand)
<1> DEFINE left == CHOOSE w : w = [m \in 0..Len(s) |-> IF m = 0 THEN call[<<operand, p>>]
                         ELSE Optional(call, s, w[m - 1], ops, operand)]
<1>1. Turns(call, s, p, ops, operand) = left
  BY DEF Turns
<1>2. \E w : w = [m \in 0..Len(s) |-> IF m = 0 THEN call[<<operand, p>>]
                         ELSE Optional(call, s, w[m - 1], ops, operand)]
  <2>1. \E w : Loop(call, s, p, ops, operand, w, Len(s))
    BY LoopExists
  <2> QED
    BY <2>1, Zenon DEF Loop
<1>3. left = [m \in 0..Len(s) |-> IF m = 0 THEN call[<<operand, p>>]
                         ELSE Optional(call, s, left[m - 1], ops, operand)]
  BY <1>2
<1> HIDE DEF left
<1>4. \A m \in 0..Len(s) : left[m] = IF m = 0 THEN call[<<operand, p>>]
                                    ELSE Optional(call, s, left[m - 1], ops, operand)
  BY <1>3
<1>5. left[0] = call[<<operand, p>>]
  BY <1>4
<1>6. ASSUME NEW n \in 1..Len(s) PROVE left[n] = Optional(call, s, left[n - 1], ops, operand)
  <2>1. n \in 0..Len(s) /\ n # 0
    OBVIOUS
  <2> QED
    BY <1>4, <2>1
<1> QED
  BY <1>1, <1>5, <1>6

LEMMA TurnsForward ==
  ASSUME NEW s \in Seq(Token), NEW p \in 1..(Len(s) + 1), NEW call, NEW ops, NEW operand,
         "EOF" \notin ops, \A q \in p..(Len(s) + 1) : Forward(s, call[<<operand, q>>], q),
         NEW n \in 0..Len(s)
  PROVE  Forward(s, Turns(call, s, p, ops, operand)[n], p)
<1> DEFINE left == Turns(call, s, p, ops, operand)
<1> DEFINE T == {m \in Nat : m <= Len(s) /\ ~Forward(s, left[m], p)}
<1> SUFFICES ASSUME T # {} PROVE FALSE
  OBVIOUS
<1>1. PICK m \in T : \A k \in T : m <= k
  BY LeastNumber
<1>2. m \in Nat /\ m <= Len(s) /\ ~Forward(s, left[m], p) /\ Len(s) \in Nat
  OBVIOUS
<1>3. /\ left[0] = call[<<operand, p>>]
      /\ \A k \in 1..Len(s) : left[k] = Optional(call, s, left[k - 1], ops, operand)
  BY TurnsStep
<1> HIDE DEF left
<1>4. CASE m = 0
  <2>1. Forward(s, call[<<operand, p>>], p)
    OBVIOUS
  <2> QED
    BY <1>2, <1>3, <1>4, <2>1
<1>5. CASE m > 0
  <2>1. m - 1 \in Nat /\ m - 1 \notin T /\ m \in 1..Len(s)
    BY <1>1, <1>2, <1>5
  <2>2. Forward(s, left[m - 1], p)
    BY <1>2, <2>1
  <2>3. \A q \in (p + 1)..(Len(s) + 1) : Forward(s, call[<<operand, q>>], q)
    OBVIOUS
  <2>4. Forward(s, Optional(call, s, left[m - 1], ops, operand), p)
    BY <2>2, <2>3, OptionalForward
  <2> QED
    BY <1>2, <1>3, <2>1, <2>4
<1> QED
  BY <1>2, <1>4, <1>5

LEMMA TurnsAgree ==
  ASSUME NEW s \in Seq(Token), NEW p \in 1..(Len(s) + 1), NEW c, NEW d, NEW ops, NEW operand,
         "EOF" \notin ops, \A q \in p..(Len(s) + 1) : Forward(s, c[<<operand, q>>], q),
         \A q \in p..(Len(s) + 1) : c[<<operand, q>>] = d[<<operand, q>>],
         NEW n \in 0..Len(s)
  PROVE  Turns(c, s, p, ops, operand)[n] = Turns(d, s, p, ops, operand)[n]
<1> DEFINE left == Turns(c, s, p, ops, operand)  other == Turns(d, s, p, ops, operand)
<1> DEFINE T == {m \in Nat : m <= Len(s) /\ left[m] # other[m]}
<1> SUFFICES ASSUME T # {} PROVE FALSE
  OBVIOUS
<1>1. PICK m \in T : \A k \in T : m <= k
  BY LeastNumber
<1>2. m \in Nat /\ m <= Len(s) /\ left[m] # other[m] /\ Len(s) \in Nat
  OBVIOUS
<1>3. /\ left[0] = c[<<operand, p>>] /\ other[0] = d[<<operand, p>>]
      /\ \A k \in 1..Len(s) : left[k] = Optional(c, s, left[k - 1], ops, operand)
      /\ \A k \in 1..Len(s) : other[k] = Optional(d, s, other[k - 1], ops, operand)
  BY TurnsStep
<1>4. \A k \in 0..Len(s) : Forward(s, left[k], p)
  BY TurnsForward
<1> HIDE DEF left, other
<1>5. CASE m = 0
  BY <1>2, <1>3, <1>5
<1>6. CASE m > 0
  <2>1. m - 1 \in Nat /\ m - 1 \notin T /\ m \in 1..Len(s) /\ m - 1 \in 0..Len(s)
    BY <1>1, <1>2, <1>6
  <2>2. left[m - 1] = other[m - 1] /\ Forward(s, left[m - 1], p)
    BY <1>2, <1>4, <2>1
  <2>3. \A q \in (p + 1)..(Len(s) + 1) : c[<<operand, q>>] = d[<<operand, q>>]
    OBVIOUS
  <2>4. Optional(c, s, left[m - 1], ops, operand) = Optional(d, s, left[m - 1], ops, operand)
    BY <2>2, <2>3, OptionalAgrees
  <2> QED
    BY <1>2, <1>3, <2>1, <2>2, <2>4
<1> QED
  BY <1>2, <1>5, <1>6

-----------------------------------------------------------------------------
(* The calls of one position *)

LEMMA DeeperCalls ==
  /\ \A kind, m \in Kind : \A p, q \in Nat : q > p => Deeper(m, q, kind, p)
  /\ \A p \in Nat : /\ Deeper("and", p, "or", p) /\ Deeper("not", p, "and", p)
                    /\ Deeper("comparison", p, "not", p) /\ Deeper("contains", p, "comparison", p)
                    /\ Deeper("primary", p, "contains", p) /\ Deeper("field", p, "primary", p)
BY DEF Deeper, Rank

LEMMA MethodForward ==
  ASSUME NEW s \in Seq(Token), NEW call, NEW kind \in Kind, NEW p \in 1..(Len(s) + 1),
         \A m \in Kind, q \in 1..(Len(s) + 1) : Deeper(m, q, kind, p) => Forward(s, call[<<m, q>>], q)
  PROVE  Forward(s, Method(call, s, kind, p), p)
<1> DEFINE N == Len(s)
<1>1. N \in Nat /\ p \in Nat /\ \A q \in (p + 1)..(N + 1) : q \in 1..(N + 1) /\ q \in Nat /\ q > p
  OBVIOUS
<1>2. \A m \in Kind, q \in (p + 1)..(N + 1) : Forward(s, call[<<m, q>>], q)
  BY <1>1, DeeperCalls
<1>3. ASSUME NEW m \in Kind, Deeper(m, p, kind, p)
      PROVE  /\ Forward(s, call[<<m, p>>], p)
             /\ \A q \in p..(N + 1) : Forward(s, call[<<m, q>>], q)
  <2>1. Forward(s, call[<<m, p>>], p)
    BY <1>3
  <2>2. \A q \in p..(N + 1) : q = p \/ q \in (p + 1)..(N + 1)
    BY <1>1
  <2> QED
    BY <1>2, <2>1, <2>2
<1> HIDE DEF N
<1>4. CASE kind = "or"
  <2>1. "and" \in Kind /\ Deeper("and", p, kind, p)
    BY <1>1, <1>4, DeeperCalls DEF Kind
  <2>2. \A q \in p..(Len(s) + 1) : Forward(s, call[<<"and", q>>], q)
    BY <1>3, <2>1 DEF N
  <2>3. \A n \in 0..Len(s) : Forward(s, Turns(call, s, p, {"or"}, "and")[n], p)
    BY <2>2, NoOperatorAtEnd, TurnsForward
  <2>4. Len(s) \in 0..Len(s)
    OBVIOUS
  <2> QED
    BY <1>4, <2>3, <2>4 DEF Method, OrExpr
<1>5. CASE kind = "and"
  <2>1. "not" \in Kind /\ Deeper("not", p, kind, p)
    BY <1>1, <1>5, DeeperCalls DEF Kind
  <2>2. \A q \in p..(Len(s) + 1) : Forward(s, call[<<"not", q>>], q)
    BY <1>3, <2>1 DEF N
  <2>3. \A n \in 0..Len(s) : Forward(s, Turns(call, s, p, {"and"}, "not")[n], p)
    BY <2>2, NoOperatorAtEnd, TurnsForward
  <2>4. Len(s) \in 0..Len(s)
    OBVIOUS
  <2> QED
    BY <1>5, <2>3, <2>4 DEF Method, AndExpr
<1>6. CASE kind = "not"
  <2>1. Forward(s, call[<<"comparison", p>>], p)
    BY <1>1, <1>3, <1>6, DeeperCalls DEF Kind
  <2>2. CASE Peek(s, p) # "not"
    BY <1>6, <2>1, <2>2 DEF Method, NotExpr
  <2>3. CASE Peek(s, p) = "not"
    <3>1. p \in 1..N
      BY <1>1, <2>3, PeekInside DEF N
    <3>2. Forward(s, call[<<"not", p + 1>>], p + 1)
      BY <1>1, <1>2, <3>1 DEF Kind
    <3> QED
      BY <1>1, <1>6, <2>3, <3>1, <3>2, ParsedFields DEF Method, NotExpr, Forward, N
  <2> QED
    BY <2>2, <2>3
<1>7. CASE kind = "comparison"
  <2>1. Forward(s, call[<<"contains", p>>], p)
    BY <1>1, <1>3, <1>7, DeeperCalls DEF Kind
  <2>2. \A q \in (p + 1)..(Len(s) + 1) : Forward(s, call[<<"contains", q>>], q)
    BY <1>2 DEF Kind, N
  <2> QED
    BY <1>7, <2>1, <2>2, NoOperatorAtEnd, OptionalForward DEF Method, Comparison
<1>8. CASE kind = "contains"
  <2>1. Forward(s, call[<<"primary", p>>], p)
    BY <1>1, <1>3, <1>8, DeeperCalls DEF Kind
  <2>2. \A q \in (p + 1)..(Len(s) + 1) : Forward(s, call[<<"primary", q>>], q)
    BY <1>2 DEF Kind, N
  <2> QED
    BY <1>8, <2>1, <2>2, NoOperatorAtEnd, OptionalForward DEF Method, ContainsExpr
<1>9. CASE kind = "primary"
  <2>1. Forward(s, call[<<"field", p>>], p)
    BY <1>1, <1>3, <1>9, DeeperCalls DEF Kind
  <2>2. CASE Peek(s, p) \in DOMAIN Literal
    <3>1. p \in 1..N
      BY <1>1, <2>2, NoOperatorAtEnd, PeekInside DEF N
    <3> QED
      BY <1>1, <1>9, <2>2, <3>1, ParsedFields DEF Method, Primary, Forward, N
  <2>3. CASE Peek(s, p) \notin DOMAIN Literal /\ Peek(s, p) # "("
    BY <1>9, <2>1, <2>3 DEF Method, Primary
  <2>4. CASE Peek(s, p) \notin DOMAIN Literal /\ Peek(s, p) = "("
    <3> DEFINE inner == call[<<"or", p + 1>>]
    <3>1. p \in 1..N
      BY <1>1, <2>4, PeekInside DEF N
    <3>2. Forward(s, inner, p + 1)
      BY <1>1, <1>2, <3>1 DEF Kind
    <3>3. CASE inner.ok /\ Peek(s, inner.at) = ")"
      <4>1. inner.at \in (p + 2)..(N + 1)
        BY <1>1, <3>1, <3>2, <3>3 DEF Forward, N
      <4>2. inner.at \in 1..N
        BY <1>1, <3>1, <3>3, <4>1, PeekInside DEF N
      <4>3. Method(call, s, kind, p) = Parsed(inner.nodes, inner.at + 1)
        BY <1>9, <2>4, <3>3 DEF Method, Primary
      <4> QED
        BY <1>1, <3>1, <4>1, <4>2, <4>3, ParsedFields DEF Forward, N
    <3>4. CASE ~(inner.ok /\ Peek(s, inner.at) = ")")
      <4>1. Method(call, s, kind, p) = Unexpected(inner.at)
        BY <1>9, <2>4, <3>4 DEF Method, Primary
      <4> QED
        BY <4>1, ParsedFields DEF Forward
    <3> QED
      BY <3>3, <3>4
  <2> QED
    BY <2>2, <2>3, <2>4
<1>10. CASE kind = "field"
  <2>1. CASE Peek(s, p) \notin Field
    BY <1>10, <2>1, ParsedFields DEF Method, FieldAccess, Forward
  <2>2. CASE Peek(s, p) \in Field /\ Peek(s, p + 1) # "."
    <3>1. p \in 1..N
      BY <1>1, <2>2, NoOperatorAtEnd, PeekInside DEF N
    <3> QED
      BY <1>1, <1>10, <2>2, <3>1, ParsedFields DEF Method, FieldAccess, Forward, N
  <2>3. CASE Peek(s, p) \in Field /\ Peek(s, p + 1) = "."
    <3> DEFINE rest == call[<<"field", p + 2>>]
    <3>1. p \in 1..N /\ p + 1 \in 1..N
      BY <1>1, <2>3, NoOperatorAtEnd, PeekInside DEF N
    <3>2. Forward(s, rest, p + 2)
      BY <1>1, <1>2, <3>1 DEF Kind
    <3>3. CASE rest.ok
      BY <1>1, <1>10, <2>3, <3>1, <3>2, <3>3, ParsedFields DEF Method, FieldAccess, Forward, N
    <3>4. CASE ~rest.ok
      BY <1>10, <2>3, <3>4 DEF Method, FieldAccess, Forward
    <3> QED
      BY <3>3, <3>4
  <2> QED
    BY <2>1, <2>2, <2>3
<1> QED
  BY <1>4, <1>5, <1>6, <1>7, <1>8, <1>9, <1>10 DEF Kind

LEMMA MethodAgrees ==
  ASSUME NEW s \in Seq(Token), NEW c, NEW d, NEW kind \in Kind, NEW p \in 1..(Len(s) + 1),
         \A m \in Kind, q \in 1..(Len(s) + 1) : Deeper(m, q, kind, p) =>
           c[<<m, q>>] = d[<<m, q>>] /\ Forward(s, c[<<m, q>>], q)
  PROVE  Method(c, s, kind, p) = Method(d, s, kind, p)
<1> DEFINE N == Len(s)
<1> DEFINE Alike(m, q) == c[<<m, q>>] = d[<<m, q>>] /\ Forward(s, c[<<m, q>>], q)
<1>1. N \in Nat /\ p \in Nat /\ \A q \in (p + 1)..(N + 1) : q \in 1..(N + 1) /\ q \in Nat /\ q > p
  OBVIOUS
<1>2. \A m \in Kind, q \in (p + 1)..(N + 1) : Alike(m, q)
  BY <1>1, DeeperCalls
<1>3. ASSUME NEW m \in Kind, Deeper(m, p, kind, p)
      PROVE  Alike(m, p) /\ \A q \in p..(N + 1) : Alike(m, q)
  <2>1. Alike(m, p)
    BY <1>3
  <2>2. \A q \in p..(N + 1) : q = p \/ q \in (p + 1)..(N + 1)
    BY <1>1
  <2> QED
    BY <1>2, <2>1, <2>2
<1> HIDE DEF N, Alike
<1>4. CASE kind = "or"
  <2>1. "and" \in Kind /\ Deeper("and", p, kind, p)
    BY <1>1, <1>4, DeeperCalls DEF Kind
  <2>2. /\ \A q \in p..(Len(s) + 1) : c[<<"and", q>>] = d[<<"and", q>>]
        /\ \A q \in p..(Len(s) + 1) : Forward(s, c[<<"and", q>>], q)
    BY <1>3, <2>1 DEF N, Alike
  <2>3. \A n \in 0..Len(s) : Turns(c, s, p, {"or"}, "and")[n] = Turns(d, s, p, {"or"}, "and")[n]
    BY <2>2, NoOperatorAtEnd, TurnsAgree
  <2>4. Len(s) \in 0..Len(s)
    OBVIOUS
  <2> QED
    BY <1>4, <2>3, <2>4 DEF Method, OrExpr
<1>5. CASE kind = "and"
  <2>1. "not" \in Kind /\ Deeper("not", p, kind, p)
    BY <1>1, <1>5, DeeperCalls DEF Kind
  <2>2. /\ \A q \in p..(Len(s) + 1) : c[<<"not", q>>] = d[<<"not", q>>]
        /\ \A q \in p..(Len(s) + 1) : Forward(s, c[<<"not", q>>], q)
    BY <1>3, <2>1 DEF N, Alike
  <2>3. \A n \in 0..Len(s) : Turns(c, s, p, {"and"}, "not")[n] = Turns(d, s, p, {"and"}, "not")[n]
    BY <2>2, NoOperatorAtEnd, TurnsAgree
  <2>4. Len(s) \in 0..Len(s)
    OBVIOUS
  <2> QED
    BY <1>5, <2>3, <2>4 DEF Method, AndExpr
<1>6. CASE kind = "not"
  <2>1. Alike("comparison", p)
    BY <1>1, <1>3, <1>6, DeeperCalls DEF Kind
  <2>2. CASE Peek(s, p) # "not"
    BY <1>6, <2>1, <2>2 DEF Method, NotExpr, Alike
  <2>3. CASE Peek(s, p) = "not"
    <3>1. p \in 1..N
      BY <1>1, <2>3, PeekInside DEF N
    <3>2. c[<<"not", p + 1>>] = d[<<"not", p + 1>>]
      BY <1>1, <1>2, <3>1 DEF Kind, Alike
    <3> QED
      BY <1>6, <2>3, <3>2 DEF Method, NotExpr
  <2> QED
    BY <2>2, <2>3
<1>7. CASE kind = "comparison"
  <2>1. Alike("contains", p)
    BY <1>1, <1>3, <1>7, DeeperCalls DEF Kind
  <2>2. \A q \in (p + 1)..(Len(s) + 1) : c[<<"contains", q>>] = d[<<"contains", q>>]
    BY <1>2 DEF Kind, N, Alike
  <2>3. Optional(c, s, c[<<"contains", p>>], CompOp, "contains") = Optional(d, s, c[<<"contains", p>>], CompOp, "contains")
    BY <2>1, <2>2, NoOperatorAtEnd, OptionalAgrees DEF Alike
  <2> QED
    BY <1>7, <2>1, <2>3 DEF Method, Comparison, Alike
<1>8. CASE kind = "contains"
  <2>1. Alike("primary", p)
    BY <1>1, <1>3, <1>8, DeeperCalls DEF Kind
  <2>2. \A q \in (p + 1)..(Len(s) + 1) : c[<<"primary", q>>] = d[<<"primary", q>>]
    BY <1>2 DEF Kind, N, Alike
  <2>3. Optional(c, s, c[<<"primary", p>>], {"contains"}, "primary") = Optional(d, s, c[<<"primary", p>>], {"contains"}, "primary")
    BY <2>1, <2>2, NoOperatorAtEnd, OptionalAgrees DEF Alike
  <2> QED
    BY <1>8, <2>1, <2>3 DEF Method, ContainsExpr, Alike
<1>9. CASE kind = "primary"
  <2>1. Alike("field", p)
    BY <1>1, <1>3, <1>9, DeeperCalls DEF Kind
  <2>2. CASE Peek(s, p) # "("
    BY <1>9, <2>1, <2>2 DEF Method, Primary, Alike
  <2>3. CASE Peek(s, p) = "("
    <3>1. p \in 1..N
      BY <1>1, <2>3, PeekInside DEF N
    <3>2. c[<<"or", p + 1>>] = d[<<"or", p + 1>>]
      BY <1>1, <1>2, <3>1 DEF Kind, Alike
    <3> QED
      BY <1>9, <2>3, <3>2 DEF Method, Primary
  <2> QED
    BY <2>2, <2>3
<1>10. CASE kind = "field"
  <2>1. CASE Peek(s, p) \notin Field \/ Peek(s, p + 1) # "."
    BY <1>10, <2>1 DEF Method, FieldAccess
  <2>2. CASE Peek(s, p) \in Field /\ Peek(s, p + 1) = "."
    <3>1. p \in 1..N /\ p + 1 \in 1..N
      BY <1>1, <2>2, NoOperatorAtEnd, PeekInside DEF N
    <3>2. c[<<"field", p + 2>>] = d[<<"field", p + 2>>]
      BY <1>1, <1>2, <3>1 DEF Kind, Alike
    <3> QED
      BY <1>10, <2>2, <3>2 DEF Method, FieldAccess
  <2> QED
    BY <2>1, <2>2
<1> QED
  BY <1>4, <1>5, <1>6, <1>7, <1>8, <1>9, <1>10 DEF Kind

LEMMA Weigh ==
  ASSUME NEW x \in Int, NEW y \in Int, NEW q \in 0..6, NEW r \in 0..6, x < y \/ (x = y /\ q < r)
  PROVE  7 * x + q < 7 * y + r
OBVIOUS

\* How many calls, at most, one may be inside of.
Depth(s, kind, p) == 7 * (Len(s) + 1 - p) + Rank(kind)

LEMMA DepthType ==
  ASSUME NEW s \in Seq(Token), NEW kind \in Kind, NEW p \in 1..(Len(s) + 1)
  PROVE  /\ Depth(s, kind, p) \in 0..(7 * Len(s) + 6)
         /\ \A m \in Kind, q \in 1..(Len(s) + 1) :
              Deeper(m, q, kind, p) => Depth(s, m, q) < Depth(s, kind, p)
<1>1. Rank(kind) \in 0..6 /\ \A m \in Kind : Rank(m) \in 0..6
  BY RankType
<1>2. Len(s) \in Nat
  OBVIOUS
<1>3. Depth(s, kind, p) \in 0..(7 * Len(s) + 6)
  BY <1>1, <1>2 DEF Depth
<1>4. ASSUME NEW m \in Kind, NEW q \in 1..(Len(s) + 1), Deeper(m, q, kind, p)
      PROVE  Depth(s, m, q) < Depth(s, kind, p)
  <2>1. Rank(m) \in 0..6 /\ Rank(kind) \in 0..6
    BY <1>1
  <2>2. p \in Int /\ q \in Int /\ Len(s) \in Int
    BY <1>2
  <2>3. \/ Len(s) + 1 - q < Len(s) + 1 - p
        \/ Len(s) + 1 - q = Len(s) + 1 - p /\ Rank(m) < Rank(kind)
    BY <1>4, <2>2 DEF Deeper
  <2>4. Len(s) + 1 - q \in Int /\ Len(s) + 1 - p \in Int
    BY <2>2
  <2> QED
    BY <2>1, <2>3, <2>4, Weigh DEF Depth
<1> QED
  BY <1>3, <1>4

CallTable(s, call, n) ==
  \A m \in Kind, q \in 1..(Len(s) + 1) :
    Depth(s, m, q) < n => /\ call[<<m, q>>] = Method(call, s, m, q)
                          /\ Forward(s, call[<<m, q>>], q)

LEMMA CallTableGrows ==
  ASSUME NEW s \in Seq(Token), NEW n \in Nat, NEW before, CallTable(s, before, n), NEW call,
         \A m \in Kind, q \in 1..(Len(s) + 1) : call[<<m, q>>] = Method(before, s, m, q)
  PROVE  CallTable(s, call, n + 1)
<1> SUFFICES ASSUME NEW kind \in Kind, NEW p \in 1..(Len(s) + 1), Depth(s, kind, p) < n + 1
             PROVE  /\ call[<<kind, p>>] = Method(call, s, kind, p)
                    /\ Forward(s, call[<<kind, p>>], p)
  BY DEF CallTable
<1>1. \A m \in Kind, q \in 1..(Len(s) + 1) : call[<<m, q>>] = Method(before, s, m, q)
  OBVIOUS
<1>2. ASSUME NEW m \in Kind, NEW q \in 1..(Len(s) + 1), Deeper(m, q, kind, p)
      PROVE  before[<<m, q>>] = call[<<m, q>>] /\ Forward(s, before[<<m, q>>], q)
  <2>1. Depth(s, m, q) < Depth(s, kind, p) /\ Depth(s, kind, p) \in Nat /\ Depth(s, m, q) \in Nat
    BY <1>2, DepthType
  <2>2. Depth(s, m, q) < n
    BY <2>1
  <2> QED
    BY <1>1, <2>2 DEF CallTable
<1>3. \A m \in Kind, q \in 1..(Len(s) + 1) : Deeper(m, q, kind, p) =>
        before[<<m, q>>] = call[<<m, q>>] /\ Forward(s, before[<<m, q>>], q)
  BY <1>2, Zenon
<1>4. Method(before, s, kind, p) = Method(call, s, kind, p)
  BY <1>3, MethodAgrees
<1>5. Forward(s, Method(before, s, kind, p), p)
  BY <1>3, MethodForward
<1> QED
  BY <1>1, <1>4, <1>5

LEMMA CallTableStarts ==
  ASSUME NEW s \in Seq(Token), NEW call
  PROVE  CallTable(s, call, 0)
<1>1. \A m \in Kind, q \in 1..(Len(s) + 1) : ~(Depth(s, m, q) < 0)
  <2>1. \A m \in Kind, q \in 1..(Len(s) + 1) : Depth(s, m, q) \in 0..(7 * Len(s) + 6)
    BY DepthType
  <2> QED
    BY <2>1
<1> QED
  BY <1>1, Zenon DEF CallTable

LEMMA CallTableExists ==
  ASSUME NEW s \in Seq(Token), NEW n \in Nat
  PROVE  \E call : CallTable(s, call, n)
<1> DEFINE T == {m \in Nat : ~\E call : CallTable(s, call, m)}
<1> SUFFICES ASSUME T # {} PROVE FALSE
  OBVIOUS
<1>1. PICK m \in T : \A k \in T : m <= k
  BY LeastNumber
<1>2. m \in Nat /\ ~\E call : CallTable(s, call, m)
  OBVIOUS
<1>3. CASE m = 0
  <2>1. CallTable(s, <<>>, 0)
    BY CallTableStarts
  <2> QED
    BY <1>2, <1>3, <2>1
<1>4. CASE m > 0
  <2>1. m - 1 \in Nat /\ m - 1 \notin T
    BY <1>1, <1>2, <1>4
  <2>2. PICK before : CallTable(s, before, m - 1)
    BY <2>1
  <2> DEFINE call == [k \in Kind \X (1..(Len(s) + 1)) |-> Method(before, s, k[1], k[2])]
  <2>3. CallTable(s, call, m - 1 + 1)
    <3> HIDE DEF T
    <3> QED
      BY <2>1, <2>2, CallTableGrows
  <2> QED
    BY <1>2, <2>3
<1> QED
  BY <1>2, <1>3, <1>4

\* What the methods return, they return by the code of the method; and one
\* that returns has taken a token.
CallsReturn(s, call) ==
  \A m \in Kind, q \in 1..(Len(s) + 1) :
    call[<<m, q>>] = Method(call, s, m, q) /\ Forward(s, call[<<m, q>>], q)

LEMMA CallsOfMethods ==
  ASSUME NEW s \in Seq(Token)
  PROVE  CallsReturn(s, Calls(s))
<1> DEFINE N == Len(s)
<1> DEFINE pairs == Kind \X (1..(N + 1))
<1> DEFINE call == CHOOSE c : c = [k \in pairs |-> Method(c, s, k[1], k[2])]
<1>1. Calls(s) = call
  BY DEF Calls
<1>2. ASSUME NEW c, CallTable(s, c, 7 * N + 7)
      PROVE  \A m \in Kind, q \in 1..(N + 1) : c[<<m, q>>] = Method(c, s, m, q) /\ Forward(s, c[<<m, q>>], q)
  <2>1. \A m \in Kind, q \in 1..(N + 1) : Depth(s, m, q) < 7 * N + 7
    BY DepthType
  <2> QED
    BY <1>2, <2>1 DEF CallTable
<1>3. N \in Nat /\ 7 * N + 7 \in Nat
  OBVIOUS
<1>4. \E c : c = [k \in pairs |-> Method(c, s, k[1], k[2])]
  <2>1. PICK before : CallTable(s, before, 7 * N + 7)
    BY <1>3, CallTableExists
  <2> DEFINE c == [k \in pairs |-> Method(before, s, k[1], k[2])]
  <2>2. \A m \in Kind, q \in 1..(N + 1) : before[<<m, q>>] = Method(before, s, m, q) /\ Forward(s, before[<<m, q>>], q)
    BY <1>2, <2>1
  <2>3. \A m \in Kind, q \in 1..(N + 1) : c[<<m, q>>] = before[<<m, q>>]
    BY <2>2
  <2>4. \A m \in Kind, q \in 1..(N + 1) : Method(before, s, m, q) = Method(c, s, m, q)
    <3> HIDE DEF c
    <3> QED
      BY <2>2, <2>3, MethodAgrees
  <2>5. \A k \in pairs : k[1] \in Kind /\ k[2] \in 1..(N + 1)
    OBVIOUS
  <2>6. \A k \in pairs : Method(before, s, k[1], k[2]) = Method(c, s, k[1], k[2])
    <3> HIDE DEF c, pairs
    <3> QED
      BY <2>4, <2>5
  <2>7. c = [k \in pairs |-> Method(c, s, k[1], k[2])]
    <3>1. c = [k \in pairs |-> Method(before, s, k[1], k[2])]
      OBVIOUS
    <3> HIDE DEF c, pairs
    <3> QED
      BY <2>6, <3>1
  <2> QED
    BY <2>7
<1>5. call = [k \in pairs |-> Method(call, s, k[1], k[2])]
  BY <1>4
<1> HIDE DEF call
<1>6. \A m \in Kind, q \in 1..(N + 1) : call[<<m, q>>] = Method(call, s, m, q)
  BY <1>5
<1>7. \A n \in Nat : CallTable(s, call, n)
  <2> DEFINE T == {n \in Nat : ~CallTable(s, call, n)}
  <2> SUFFICES ASSUME T # {} PROVE FALSE
    OBVIOUS
  <2>1. PICK n \in T : \A k \in T : n <= k
    BY LeastNumber
  <2>2. n \in Nat /\ ~CallTable(s, call, n)
    OBVIOUS
  <2>3. CASE n = 0
    BY <2>2, <2>3, CallTableStarts
  <2>4. CASE n > 0
    <3>1. n - 1 \in Nat /\ n - 1 \notin T
      BY <2>1, <2>2, <2>4
    <3>2. CallTable(s, call, n - 1)
      BY <3>1
    <3> HIDE DEF T
    <3>3. CallTable(s, call, n - 1 + 1)
      BY <1>5, <3>1, <3>2, CallTableGrows
    <3> QED
      BY <2>2, <3>3
  <2> QED
    BY <2>2, <2>3, <2>4
<1>8. CallTable(s, call, 7 * N + 7)
  BY <1>3, <1>7
<1> QED
  BY <1>1, <1>2, <1>8 DEF CallsReturn

-----------------------------------------------------------------------------
(* Trees.  Those of a span are made of those of shorter spans, or of the    *)
(* same span as an expression of a lower kind.                              *)

LEMMA JoinedMember ==
  ASSUME NEW op, NEW lefts, NEW rights, NEW x
  PROVE  x \in AllJoined(op, lefts, rights) <=> \E a \in lefts : \E b \in rights : x = Joined(op, a, b)
BY DEF AllJoined

LEMMA SplitMember ==
  ASSUME NEW trees, NEW s, NEW i, NEW j, NEW ops, NEW l, NEW r, NEW x
  PROVE  x \in Split(trees, s, i, j, ops, l, r) <=>
           \E k \in (i + 1)..(j - 1) :
             s[k] \in ops /\ x \in AllJoined(s[k], trees[<<l, i, k - 1>>], trees[<<r, k + 1, j>>])
BY DEF Split

LEMMA SplitAgrees ==
  ASSUME NEW c, NEW d, NEW s, NEW i, NEW j, NEW ops, NEW l, NEW r,
         \A k \in (i + 1)..(j - 1) : c[<<l, i, k - 1>>] = d[<<l, i, k - 1>>]
                                     /\ c[<<r, k + 1, j>>] = d[<<r, k + 1, j>>]
  PROVE  Split(c, s, i, j, ops, l, r) = Split(d, s, i, j, ops, l, r)
<1>1. ASSUME NEW x
      PROVE  x \in Split(c, s, i, j, ops, l, r) <=> x \in Split(d, s, i, j, ops, l, r)
  BY DEF Split
<1> QED
  BY <1>1

Narrower(m, a, b, kind, i, j) == b - a < j - i \/ (a = i /\ b = j /\ Rank(m) < Rank(kind))

LEMMA RuleAgrees ==
  ASSUME NEW s \in Seq(Token), NEW c, NEW d, NEW kind \in Kind, NEW i \in 1..Len(s), NEW j \in 1..Len(s),
         \A m \in Kind, a \in 1..Len(s), b \in 1..Len(s) :
           Narrower(m, a, b, kind, i, j) => c[<<m, a, b>>] = d[<<m, a, b>>]
  PROVE  Rule(c, s, kind, i, j) = Rule(d, s, kind, i, j)
<1>1. ASSUME NEW m \in Kind, Deeper(m, i, kind, i)
      PROVE  c[<<m, i, j>>] = d[<<m, i, j>>]
  BY <1>1 DEF Deeper, Narrower
<1>2. ASSUME NEW m \in Kind, NEW a \in 1..Len(s), NEW b \in 1..Len(s), b - a < j - i
      PROVE  c[<<m, a, b>>] = d[<<m, a, b>>]
  BY <1>2 DEF Narrower
<1>3. ASSUME NEW l \in Kind, NEW r \in Kind, NEW ops
      PROVE  Split(c, s, i, j, ops, l, r) = Split(d, s, i, j, ops, l, r)
  <2>1. ASSUME NEW k \in (i + 1)..(j - 1)
        PROVE  c[<<l, i, k - 1>>] = d[<<l, i, k - 1>>] /\ c[<<r, k + 1, j>>] = d[<<r, k + 1, j>>]
    <3>1. /\ k - 1 \in 1..Len(s) /\ (k - 1) - i < j - i
          /\ k + 1 \in 1..Len(s) /\ j - (k + 1) < j - i
      OBVIOUS
    <3> QED
      BY <1>2, <3>1
  <2> QED
    BY <2>1, SplitAgrees
<1>4. CASE kind = "or"
  <2>1. c[<<"and", i, j>>] = d[<<"and", i, j>>]
    BY <1>1, <1>4, DeeperCalls DEF Kind
  <2>2. Split(c, s, i, j, {"or"}, "or", "and") = Split(d, s, i, j, {"or"}, "or", "and")
    BY <1>3 DEF Kind
  <2> QED
    BY <1>4, <2>1, <2>2 DEF Rule
<1>5. CASE kind = "and"
  <2>1. c[<<"not", i, j>>] = d[<<"not", i, j>>]
    BY <1>1, <1>5, DeeperCalls DEF Kind
  <2>2. Split(c, s, i, j, {"and"}, "and", "not") = Split(d, s, i, j, {"and"}, "and", "not")
    BY <1>3 DEF Kind
  <2> QED
    BY <1>5, <2>1, <2>2 DEF Rule
<1>6. CASE kind = "not"
  <2>1. c[<<"comparison", i, j>>] = d[<<"comparison", i, j>>]
    BY <1>1, <1>6, DeeperCalls DEF Kind
  <2>2. i < j => c[<<"not", i + 1, j>>] = d[<<"not", i + 1, j>>]
    <3>1. i < j => i + 1 \in 1..Len(s) /\ j - (i + 1) < j - i
      OBVIOUS
    <3> QED
      BY <1>2, <3>1 DEF Kind
  <2> QED
    BY <1>6, <2>1, <2>2 DEF Rule
<1>7. CASE kind = "comparison"
  <2>1. c[<<"contains", i, j>>] = d[<<"contains", i, j>>]
    BY <1>1, <1>7, DeeperCalls DEF Kind
  <2>2. Split(c, s, i, j, CompOp, "contains", "contains") = Split(d, s, i, j, CompOp, "contains", "contains")
    BY <1>3 DEF Kind
  <2> QED
    BY <1>7, <2>1, <2>2 DEF Rule
<1>8. CASE kind = "contains"
  <2>1. c[<<"primary", i, j>>] = d[<<"primary", i, j>>]
    BY <1>1, <1>8, DeeperCalls DEF Kind
  <2>2. Split(c, s, i, j, {"contains"}, "primary", "primary") = Split(d, s, i, j, {"contains"}, "primary", "primary")
    BY <1>3 DEF Kind
  <2> QED
    BY <1>8, <2>1, <2>2 DEF Rule
<1>9. CASE kind = "primary"
  <2>1. c[<<"field", i, j>>] = d[<<"field", i, j>>]
    BY <1>1, <1>9, DeeperCalls DEF Kind
  <2>2. i + 1 < j => c[<<"or", i + 1, j - 1>>] = d[<<"or", i + 1, j - 1>>]
    <3>1. i + 1 < j => i + 1 \in 1..Len(s) /\ j - 1 \in 1..Len(s) /\ (j - 1) - (i + 1) < j - i
      OBVIOUS
    <3> QED
      BY <1>2, <3>1 DEF Kind
  <2> QED
    BY <1>9, <2>1, <2>2 DEF Rule
<1>10. CASE kind = "field"
  BY <1>10 DEF Rule
<1> QED
  BY <1>4, <1>5, <1>6, <1>7, <1>8, <1>9, <1>10 DEF Kind

Size(s, kind, i, j) == 7 * (Len(s) + j - i) + Rank(kind)

LEMMA SizeType ==
  ASSUME NEW s \in Seq(Token), NEW kind \in Kind, NEW i \in 1..Len(s), NEW j \in 1..Len(s)
  PROVE  /\ Size(s, kind, i, j) \in 0..(14 * Len(s) + 6)
         /\ \A m \in Kind, a \in 1..Len(s), b \in 1..Len(s) :
              Narrower(m, a, b, kind, i, j) => Size(s, m, a, b) < Size(s, kind, i, j)
<1>1. Rank(kind) \in 0..6 /\ \A m \in Kind : Rank(m) \in 0..6
  BY RankType
<1>2. Len(s) \in Nat
  OBVIOUS
<1>3. Size(s, kind, i, j) \in 0..(14 * Len(s) + 6)
  BY <1>1, <1>2 DEF Size
<1>4. ASSUME NEW m \in Kind, NEW a \in 1..Len(s), NEW b \in 1..Len(s), Narrower(m, a, b, kind, i, j)
      PROVE  Size(s, m, a, b) < Size(s, kind, i, j)
  <2>1. Rank(m) \in 0..6 /\ Rank(kind) \in 0..6
    BY <1>1
  <2>2. a \in Int /\ b \in Int /\ i \in Int /\ j \in Int /\ Len(s) \in Int
    BY <1>2
  <2>3. \/ Len(s) + b - a < Len(s) + j - i
        \/ Len(s) + b - a = Len(s) + j - i /\ Rank(m) < Rank(kind)
    BY <1>4, <2>2 DEF Narrower
  <2>4. Len(s) + b - a \in Int /\ Len(s) + j - i \in Int
    BY <2>2
  <2> QED
    BY <2>1, <2>3, <2>4, Weigh DEF Size
<1> QED
  BY <1>3, <1>4

TreeTable(s, trees, n) ==
  \A m \in Kind, a \in 1..Len(s), b \in 1..Len(s) :
    Size(s, m, a, b) < n => trees[<<m, a, b>>] = Rule(trees, s, m, a, b)

LEMMA TreeTableGrows ==
  ASSUME NEW s \in Seq(Token), NEW n \in Nat, NEW before, TreeTable(s, before, n), NEW trees,
         \A m \in Kind, a \in 1..Len(s), b \in 1..Len(s) : trees[<<m, a, b>>] = Rule(before, s, m, a, b)
  PROVE  TreeTable(s, trees, n + 1)
<1> SUFFICES ASSUME NEW kind \in Kind, NEW i \in 1..Len(s), NEW j \in 1..Len(s), Size(s, kind, i, j) < n + 1
             PROVE  trees[<<kind, i, j>>] = Rule(trees, s, kind, i, j)
  BY DEF TreeTable
<1>1. ASSUME NEW m \in Kind, NEW a \in 1..Len(s), NEW b \in 1..Len(s), Narrower(m, a, b, kind, i, j)
      PROVE  before[<<m, a, b>>] = trees[<<m, a, b>>]
  <2>1. Size(s, m, a, b) < Size(s, kind, i, j)
    BY <1>1, SizeType
  <2>2. Size(s, kind, i, j) \in 0..(14 * Len(s) + 6)
    BY SizeType
  <2>3. Size(s, m, a, b) \in 0..(14 * Len(s) + 6)
    BY SizeType
  <2>4. Size(s, m, a, b) < n
    BY <2>1, <2>2, <2>3
  <2> QED
    BY <2>4 DEF TreeTable
<1>2. \A m \in Kind, a \in 1..Len(s), b \in 1..Len(s) :
        Narrower(m, a, b, kind, i, j) => before[<<m, a, b>>] = trees[<<m, a, b>>]
  BY <1>1, Zenon
<1>3. Rule(before, s, kind, i, j) = Rule(trees, s, kind, i, j)
  BY <1>2, RuleAgrees, SMTT(30)
<1> QED
  BY <1>3

LEMMA TreeTableStarts ==
  ASSUME NEW s \in Seq(Token), NEW trees
  PROVE  TreeTable(s, trees, 0)
<1>1. \A m \in Kind, a \in 1..Len(s), b \in 1..Len(s) : ~(Size(s, m, a, b) < 0)
  <2>1. \A m \in Kind, a \in 1..Len(s), b \in 1..Len(s) : Size(s, m, a, b) \in 0..(14 * Len(s) + 6)
    BY SizeType
  <2> QED
    BY <2>1
<1> QED
  BY <1>1, Zenon DEF TreeTable

LEMMA TreeTableExists ==
  ASSUME NEW s \in Seq(Token), NEW n \in Nat
  PROVE  \E trees : TreeTable(s, trees, n)
<1> DEFINE T == {m \in Nat : ~\E trees : TreeTable(s, trees, m)}
<1> SUFFICES ASSUME T # {} PROVE FALSE
  OBVIOUS
<1>1. PICK m \in T : \A k \in T : m <= k
  BY LeastNumber
<1>2. m \in Nat /\ ~\E trees : TreeTable(s, trees, m)
  OBVIOUS
<1>3. CASE m = 0
  BY <1>2, <1>3, TreeTableStarts
<1>4. CASE m > 0
  <2>1. m - 1 \in Nat /\ m - 1 \notin T
    BY <1>1, <1>2, <1>4
  <2>2. PICK before : TreeTable(s, before, m - 1)
    BY <2>1
  <2> DEFINE trees == [k \in Kind \X (1..Len(s)) \X (1..Len(s)) |-> Rule(before, s, k[1], k[2], k[3])]
  <2>3. \A k \in Kind, a \in 1..Len(s), b \in 1..Len(s) : trees[<<k, a, b>>] = Rule(before, s, k, a, b)
    OBVIOUS
  <2>4. TreeTable(s, trees, m - 1 + 1)
    <3> HIDE DEF T, trees
    <3> QED
      BY <2>1, <2>2, <2>3, TreeTableGrows
  <2> QED
    BY <1>2, <2>4
<1> QED
  BY <1>2, <1>3, <1>4

\* The trees of all spans are those that the rules make of them.
TreesDerived(s, trees) ==
  \A m \in Kind, a \in 1..Len(s), b \in 1..Len(s) : trees[<<m, a, b>>] = Rule(trees, s, m, a, b)

LEMMA TreesOfRules ==
  ASSUME NEW s \in Seq(Token)
  PROVE  TreesDerived(s, Trees(s))
<1> DEFINE spans == Kind \X (1..Len(s)) \X (1..Len(s))
<1> DEFINE trees == CHOOSE c : c = [k \in spans |-> Rule(c, s, k[1], k[2], k[3])]
<1>1. Trees(s) = trees
  BY DEF Trees
<1>2. \E c : c = [k \in spans |-> Rule(c, s, k[1], k[2], k[3])]
  <2>1. PICK before : TreeTable(s, before, 14 * Len(s) + 7)
    <3>1. 14 * Len(s) + 7 \in Nat
      OBVIOUS
    <3> QED
      BY <3>1, TreeTableExists
  <2>2. \A m \in Kind, a \in 1..Len(s), b \in 1..Len(s) : before[<<m, a, b>>] = Rule(before, s, m, a, b)
    <3>1. \A m \in Kind, a \in 1..Len(s), b \in 1..Len(s) : Size(s, m, a, b) < 14 * Len(s) + 7
      BY SizeType
    <3> QED
      BY <2>1, <3>1 DEF TreeTable
  <2> DEFINE c == [k \in spans |-> Rule(before, s, k[1], k[2], k[3])]
  <2>3. \A m \in Kind, a \in 1..Len(s), b \in 1..Len(s) : c[<<m, a, b>>] = before[<<m, a, b>>]
    BY <2>2
  <2>4. \A m \in Kind, a \in 1..Len(s), b \in 1..Len(s) : Rule(before, s, m, a, b) = Rule(c, s, m, a, b)
    <3> HIDE DEF c
    <3> QED
      BY <2>3, RuleAgrees, SMTT(30)
  <2>5. \A k \in spans : k[1] \in Kind /\ k[2] \in 1..Len(s) /\ k[3] \in 1..Len(s)
    OBVIOUS
  <2>6. \A k \in spans : Rule(before, s, k[1], k[2], k[3]) = Rule(c, s, k[1], k[2], k[3])
    <3> HIDE DEF c, spans
    <3> QED
      BY <2>4, <2>5
  <2>7. c = [k \in spans |-> Rule(c, s, k[1], k[2], k[3])]
    <3>1. c = [k \in spans |-> Rule(before, s, k[1], k[2], k[3])]
      OBVIOUS
    <3> HIDE DEF c, spans
    <3> QED
      BY <2>6, <3>1
  <2> QED
    BY <2>7
<1>3. trees = [k \in spans |-> Rule(trees, s, k[1], k[2], k[3])]
  BY <1>2
<1> HIDE DEF trees
<1>4. \A m \in Kind, a \in 1..Len(s), b \in 1..Len(s) : trees[<<m, a, b>>] = Rule(trees, s, m, a, b)
  BY <1>3
<1> QED
  BY <1>1, <1>4 DEF TreesDerived

-----------------------------------------------------------------------------
(* What the parser accepts, the grammar has *)

LEMMA MethodsOfKinds ==
  ASSUME NEW s, NEW call, CallsReturn(s, call), NEW p \in 1..(Len(s) + 1)
  PROVE  /\ call[<<"or", p>>] = OrExpr(call, s, p)
         /\ call[<<"and", p>>] = AndExpr(call, s, p)
         /\ call[<<"not", p>>] = NotExpr(call, s, p)
         /\ call[<<"comparison", p>>] = Comparison(call, s, p)
         /\ call[<<"contains", p>>] = ContainsExpr(call, s, p)
         /\ call[<<"primary", p>>] = Primary(call, s, p)
         /\ call[<<"field", p>>] = FieldAccess(call, s, p)
<1>1. \A m \in Kind : call[<<m, p>>] = Method(call, s, m, p)
  BY DEF CallsReturn
<1> QED
  BY <1>1 DEF Method, Kind

LEMMA RuleOr ==
  ASSUME NEW s, NEW trees, TreesDerived(s, trees), NEW i \in 1..Len(s), NEW j \in 1..Len(s), NEW x
  PROVE  x \in trees[<<"or", i, j>>] <=>
           x \in trees[<<"and", i, j>>] \/ x \in Split(trees, s, i, j, {"or"}, "or", "and")
<1>1. trees[<<"or", i, j>>] = Rule(trees, s, "or", i, j)
  BY DEF TreesDerived, Kind
<1> QED
  BY <1>1 DEF Rule

LEMMA RuleAnd ==
  ASSUME NEW s, NEW trees, TreesDerived(s, trees), NEW i \in 1..Len(s), NEW j \in 1..Len(s), NEW x
  PROVE  x \in trees[<<"and", i, j>>] <=>
           x \in trees[<<"not", i, j>>] \/ x \in Split(trees, s, i, j, {"and"}, "and", "not")
<1>1. trees[<<"and", i, j>>] = Rule(trees, s, "and", i, j)
  BY DEF TreesDerived, Kind
<1> QED
  BY <1>1 DEF Rule

LEMMA RuleNot ==
  ASSUME NEW s, NEW trees, TreesDerived(s, trees), NEW i \in 1..Len(s), NEW j \in 1..Len(s), NEW x
  PROVE  x \in trees[<<"not", i, j>>] <=>
           \/ x \in trees[<<"comparison", i, j>>]
           \/ i < j /\ s[i] = "not" /\ \E a \in trees[<<"not", i + 1, j>>] : x = Negated(a)
<1>1. trees[<<"not", i, j>>] = Rule(trees, s, "not", i, j)
  BY DEF TreesDerived, Kind
<1> QED
  BY <1>1 DEF Rule

LEMMA RuleComparison ==
  ASSUME NEW s, NEW trees, TreesDerived(s, trees), NEW i \in 1..Len(s), NEW j \in 1..Len(s), NEW x
  PROVE  x \in trees[<<"comparison", i, j>>] <=>
           x \in trees[<<"contains", i, j>>] \/ x \in Split(trees, s, i, j, CompOp, "contains", "contains")
<1>1. trees[<<"comparison", i, j>>] = Rule(trees, s, "comparison", i, j)
  BY DEF TreesDerived, Kind
<1> QED
  BY <1>1 DEF Rule

LEMMA RuleContains ==
  ASSUME NEW s, NEW trees, TreesDerived(s, trees), NEW i \in 1..Len(s), NEW j \in 1..Len(s), NEW x
  PROVE  x \in trees[<<"contains", i, j>>] <=>
           x \in trees[<<"primary", i, j>>] \/ x \in Split(trees, s, i, j, {"contains"}, "primary", "primary")
<1>1. trees[<<"contains", i, j>>] = Rule(trees, s, "contains", i, j)
  BY DEF TreesDerived, Kind
<1> QED
  BY <1>1 DEF Rule

LEMMA RulePrimary ==
  ASSUME NEW s, NEW trees, TreesDerived(s, trees), NEW i \in 1..Len(s), NEW j \in 1..Len(s), NEW x
  PROVE  x \in trees[<<"primary", i, j>>] <=>
           \/ i = j /\ s[i] \in DOMAIN Literal /\ x = Constant(s[i])
           \/ x \in trees[<<"field", i, j>>]
           \/ i + 1 < j /\ s[i] = "(" /\ s[j] = ")" /\ x \in trees[<<"or", i + 1, j - 1>>]
<1>1. trees[<<"primary", i, j>>] = Rule(trees, s, "primary", i, j)
  BY DEF TreesDerived, Kind
<1> QED
  BY <1>1 DEF Rule

LEMMA RuleField ==
  ASSUME NEW s, NEW trees, TreesDerived(s, trees), NEW i \in 1..Len(s), NEW j \in 1..Len(s), NEW x
  PROVE  x \in trees[<<"field", i, j>>] <=>
           \E n \in 1..Len(s) : Names(s, i, j, n) /\ x = Access(Path(s, i, n))
<1>1. trees[<<"field", i, j>>] = Rule(trees, s, "field", i, j)
  BY DEF TreesDerived, Kind
<1> QED
  BY <1>1 DEF Rule

\* A path with one more name and dot before it.
LEMMA NamesGrow ==
  ASSUME NEW s, NEW i \in Nat, NEW j \in Nat, NEW n \in Nat \ {0},
         s[i] \in Field, s[i + 1] = ".", Names(s, i + 2, j, n)
  PROVE  Names(s, i, j, n + 1)
<1>1. j = i + 2 + 2 * n - 2
  BY DEF Names
<1>2. ASSUME NEW k \in 1..(n + 1) PROVE s[i + 2 * k - 2] \in Field
  <2>1. CASE k = 1
    BY <2>1
  <2>2. CASE k > 1
    <3>1. k - 1 \in 1..n /\ i + 2 + 2 * (k - 1) - 2 = i + 2 * k - 2
      BY <2>2
    <3> QED
      BY <3>1 DEF Names
  <2> QED
    BY <2>1, <2>2
<1>3. ASSUME NEW k \in 1..n PROVE s[i + 2 * k - 1] = "."
  <2>1. CASE k = 1
    BY <2>1
  <2>2. CASE k > 1
    <3>1. k - 1 \in 1..(n - 1) /\ i + 2 + 2 * (k - 1) - 1 = i + 2 * k - 1
      BY <2>2
    <3> QED
      BY <3>1 DEF Names
  <2> QED
    BY <2>1, <2>2
<1> QED
  BY <1>1, <1>2, <1>3 DEF Names

LEMMA PathGrows ==
  ASSUME NEW s, NEW i \in Nat, NEW n \in Nat
  PROVE  <<s[i]>> \o Path(s, i + 2, n) = Path(s, i, n + 1)
<1> DEFINE S == {s[i + k] : k \in Nat}
<1> DEFINE rest == [k \in 1..n |-> s[i + 2 + 2 * k - 2]]
<1> DEFINE path == [k \in 1..(n + 1) |-> s[i + 2 * k - 2]]
<1>1. rest \in Seq(S) /\ Len(rest) = n
  <2>1. \A k \in 1..n : 2 + 2 * k - 2 \in Nat /\ i + 2 + 2 * k - 2 = i + (2 + 2 * k - 2)
    OBVIOUS
  <2>2. \A k \in 1..n : s[i + 2 + 2 * k - 2] \in S
    BY <2>1
  <2>3. rest \in [1..n -> S]
    <3> HIDE DEF S
    <3> QED
      BY <2>2
  <2> HIDE DEF rest, S
  <2> QED
    BY <2>3
<1>2. <<s[i]>> \in Seq(S) /\ Len(<<s[i]>>) = 1
  <2>1. s[i + 0] \in S /\ i + 0 = i
    OBVIOUS
  <2> QED
    BY <2>1
<1>3. DOMAIN (<<s[i]>> \o rest) = 1..(n + 1)
  <2> HIDE DEF rest, S
  <2> QED
    BY <1>1, <1>2
<1>4. ASSUME NEW k \in 1..(n + 1) PROVE (<<s[i]>> \o rest)[k] = s[i + 2 * k - 2]
  <2>1. CASE k = 1
    <3>1. (<<s[i]>> \o rest)[k] = s[i]
      <4> HIDE DEF rest, S
      <4> QED
        BY <1>1, <1>2, <2>1
    <3> QED
      BY <2>1, <3>1
  <2>2. CASE k > 1
    <3>1. (<<s[i]>> \o rest)[k] = rest[k - 1]
      <4> HIDE DEF rest, S
      <4> QED
        BY <1>1, <1>2, <2>2
    <3>2. k - 1 \in 1..n /\ i + 2 + 2 * (k - 1) - 2 = i + 2 * k - 2
      BY <2>2
    <3> QED
      BY <3>1, <3>2
  <2> QED
    BY <2>1, <2>2
<1>5. <<s[i]>> \o rest \in Seq(S)
  <2> HIDE DEF rest, S
  <2> QED
    BY <1>1, <1>2
<1> HIDE DEF rest
<1>6. <<s[i]>> \o rest = [k \in 1..(n + 1) |-> (<<s[i]>> \o rest)[k]]
  BY <1>3, <1>5
<1>7. <<s[i]>> \o rest = path
  BY <1>4, <1>6
<1> QED
  BY <1>7 DEF rest, Path

Sound(s, call, trees, kind, p) ==
  call[<<kind, p>>].ok =>
    call[<<kind, p>>].nodes \in trees[<<kind, p, call[<<kind, p>>].at - 1>>]

LEMMA OptionalSound ==
  ASSUME NEW s \in Seq(Token), NEW call, NEW trees, CallsReturn(s, call), NEW i \in 1..Len(s),
         NEW left, NEW ops, NEW l \in Kind, NEW r \in Kind, "EOF" \notin ops,
         left.ok => left.at \in (i + 1)..(Len(s) + 1) /\ left.nodes \in trees[<<l, i, left.at - 1>>],
         \A q \in (i + 1)..(Len(s) + 1) : Sound(s, call, trees, r, q),
         Optional(call, s, left, ops, r).ok
  PROVE  \/ Optional(call, s, left, ops, r) = left
         \/ /\ Optional(call, s, left, ops, r).at \in (i + 1)..(Len(s) + 1)
            /\ Optional(call, s, left, ops, r).nodes \in
                 Split(trees, s, i, Optional(call, s, left, ops, r).at - 1, ops, l, r)
<1> DEFINE k == left.at
<1> DEFINE right == call[<<r, k + 1>>]
<1>1. CASE ~left.ok \/ Peek(s, k) \notin ops
  BY <1>1 DEF Optional
<1>2. CASE left.ok /\ Peek(s, k) \in ops /\ ~right.ok
  BY <1>2 DEF Optional
<1>3. CASE left.ok /\ Peek(s, k) \in ops /\ right.ok
  <2>1. k \in (i + 1)..(Len(s) + 1) /\ left.nodes \in trees[<<l, i, k - 1>>]
    BY <1>3
  <2>2. k \in 1..Len(s) /\ s[k] \in ops
    BY <1>3, <2>1, PeekInside
  <2>3. k + 1 \in (i + 1)..(Len(s) + 1) /\ k + 1 \in 1..(Len(s) + 1)
    BY <2>1, <2>2
  <2>4. right.at \in (k + 2)..(Len(s) + 1)
    BY <1>3, <2>2, <2>3 DEF CallsReturn, Forward
  <2>5. right.nodes \in trees[<<r, k + 1, right.at - 1>>]
    BY <1>3, <2>3 DEF Sound
  <2>6. /\ Optional(call, s, left, ops, r).at = right.at
        /\ Optional(call, s, left, ops, r).nodes = Joined(s[k], left.nodes, right.nodes)
    BY <1>3, ParsedFields DEF Optional
  <2>7. k \in (i + 1)..(right.at - 1 - 1) /\ right.at \in (i + 1)..(Len(s) + 1)
    BY <2>1, <2>2, <2>4
  <2> HIDE DEF k, right
  <2>8. Joined(s[k], left.nodes, right.nodes) \in Split(trees, s, i, right.at - 1, ops, l, r)
    <3>1. Joined(s[k], left.nodes, right.nodes) \in
            AllJoined(s[k], trees[<<l, i, k - 1>>], trees[<<r, k + 1, right.at - 1>>])
      BY <2>1, <2>5, JoinedMember
    <3> QED
      BY <2>2, <2>7, <3>1 DEF Split
  <2> QED
    BY <2>6, <2>7, <2>8
<1> QED
  BY <1>1, <1>2, <1>3

\* The loops: if a kind of expression is one operand, or one of its own, an
\* operator and an operand, then every turn makes one.
LEMMA TurnsSound ==
  ASSUME NEW s \in Seq(Token), NEW call, NEW trees, CallsReturn(s, call), NEW i \in 1..Len(s),
         NEW ops, NEW kind \in Kind, NEW operand \in Kind, "EOF" \notin ops,
         \A j \in i..Len(s) : \A x : x \in trees[<<kind, i, j>>] <=>
           x \in trees[<<operand, i, j>>] \/ x \in Split(trees, s, i, j, ops, kind, operand),
         \A q \in i..(Len(s) + 1) : Sound(s, call, trees, operand, q),
         NEW n \in 0..Len(s), Turns(call, s, i, ops, operand)[n].ok
  PROVE  /\ Turns(call, s, i, ops, operand)[n].at \in (i + 1)..(Len(s) + 1)
         /\ Turns(call, s, i, ops, operand)[n].nodes \in
              trees[<<kind, i, Turns(call, s, i, ops, operand)[n].at - 1>>]
<1> DEFINE left == Turns(call, s, i, ops, operand)
<1> DEFINE Good(r) == r.ok => r.at \in (i + 1)..(Len(s) + 1) /\ r.nodes \in trees[<<kind, i, r.at - 1>>]
<1> DEFINE T == {m \in Nat : m <= Len(s) /\ ~Good(left[m])}
<1> SUFFICES ASSUME T # {} PROVE FALSE
  <2>1. n \in Nat /\ n <= Len(s)
    OBVIOUS
  <2>2. T = {} => Good(left[n])
    <3> HIDE DEF Good, left
    <3> QED
      BY <2>1
  <2> HIDE DEF T
  <2> QED
    BY <2>2
<1>1. PICK m \in T : \A k \in T : m <= k
  BY LeastNumber
<1>2. m \in Nat /\ m <= Len(s) /\ ~Good(left[m]) /\ Len(s) \in Nat
  OBVIOUS
<1>3. /\ left[0] = call[<<operand, i>>]
      /\ \A k \in 1..Len(s) : left[k] = Optional(call, s, left[k - 1], ops, operand)
  BY <1>2, TurnsStep
<1> HIDE DEF left
<1>4. CASE m = 0
  <2>1. Forward(s, call[<<operand, i>>], i) /\ Sound(s, call, trees, operand, i)
    BY DEF CallsReturn
  <2>2. ASSUME call[<<operand, i>>].ok
        PROVE  /\ call[<<operand, i>>].at - 1 \in i..Len(s)
               /\ call[<<operand, i>>].at \in (i + 1)..(Len(s) + 1)
               /\ call[<<operand, i>>].nodes \in trees[<<operand, i, call[<<operand, i>>].at - 1>>]
    BY <2>1, <2>2 DEF Forward, Sound
  <2>3. Good(call[<<operand, i>>])
    BY <2>2
  <2> HIDE DEF Good
  <2> QED
    BY <1>2, <1>3, <1>4, <2>3
<1>5. CASE m > 0
  <2>1. m - 1 \in Nat /\ m - 1 \notin T /\ m \in 1..Len(s)
    BY <1>1, <1>2, <1>5
  <2>2. Good(left[m - 1])
    BY <1>2, <2>1
  <2> DEFINE before == left[m - 1]
  <2> DEFINE after == Optional(call, s, before, ops, operand)
  <2>3. left[m] = after
    BY <1>3, <2>1
  <2> HIDE DEF before
  <2>4. \A q \in (i + 1)..(Len(s) + 1) : Sound(s, call, trees, operand, q)
    OBVIOUS
  <2>5. before.ok => before.at \in (i + 1)..(Len(s) + 1) /\ before.nodes \in trees[<<kind, i, before.at - 1>>]
    BY <2>2 DEF before
  <2>6. ASSUME after.ok
        PROVE  \/ after = before
               \/ /\ after.at \in (i + 1)..(Len(s) + 1)
                  /\ after.nodes \in Split(trees, s, i, after.at - 1, ops, kind, operand)
    BY <2>4, <2>5, <2>6, OptionalSound
  <2> HIDE DEF after
  <2>7. ASSUME after.ok
        PROVE  after.at \in (i + 1)..(Len(s) + 1) /\ after.nodes \in trees[<<kind, i, after.at - 1>>]
    <3>1. CASE after = before
      BY <2>5, <2>7, <3>1
    <3>2. CASE /\ after.at \in (i + 1)..(Len(s) + 1)
               /\ after.nodes \in Split(trees, s, i, after.at - 1, ops, kind, operand)
      <4>1. after.at - 1 \in i..Len(s)
        BY <3>2
      <4> QED
        BY <3>2, <4>1
    <3> QED
      BY <2>6, <2>7, <3>1, <3>2
  <2>8. Good(after)
    BY <2>7
  <2> HIDE DEF Good
  <2> QED
    BY <1>2, <2>3, <2>8
<1> QED
  BY <1>2, <1>4, <1>5

LEMMA MethodSound ==
  ASSUME NEW s \in Seq(Token), NEW call, NEW trees, CallsReturn(s, call), TreesDerived(s, trees),
         NEW kind \in Kind, NEW p \in 1..(Len(s) + 1),
         \A m \in Kind, q \in 1..(Len(s) + 1) : Deeper(m, q, kind, p) => Sound(s, call, trees, m, q)
  PROVE  Sound(s, call, trees, kind, p)
<1> DEFINE N == Len(s)
<1> DEFINE result == call[<<kind, p>>]
<1> SUFFICES ASSUME result.ok PROVE result.nodes \in trees[<<kind, p, result.at - 1>>]
  BY DEF Sound
<1>1. N \in Nat /\ result.at \in (p + 1)..(N + 1) /\ p \in 1..N /\ result.at - 1 \in p..N
  <2>1. result.at \in (p + 1)..(N + 1)
    BY DEF CallsReturn, Forward
  <2> QED
    BY <2>1
<1>2. \A m \in Kind, q \in (p + 1)..(N + 1) : Sound(s, call, trees, m, q) /\ Forward(s, call[<<m, q>>], q)
  <2>1. \A q \in (p + 1)..(N + 1) : q \in 1..(N + 1) /\ q \in Nat /\ q > p
    BY <1>1
  <2>2. \A m \in Kind, q \in (p + 1)..(N + 1) : Deeper(m, q, kind, p)
    BY <1>1, <2>1, DeeperCalls
  <2> QED
    BY <2>1, <2>2 DEF CallsReturn
<1>3. ASSUME NEW m \in Kind, Deeper(m, p, kind, p)
      PROVE  /\ call[<<m, p>>].ok => /\ call[<<m, p>>].at \in (p + 1)..(N + 1)
                                     /\ call[<<m, p>>].nodes \in trees[<<m, p, call[<<m, p>>].at - 1>>]
             /\ \A q \in p..(N + 1) : Sound(s, call, trees, m, q)
  <2>1. Sound(s, call, trees, m, p) /\ Forward(s, call[<<m, p>>], p)
    BY <1>1, <1>3 DEF CallsReturn
  <2>2. \A q \in p..(N + 1) : q = p \/ q \in (p + 1)..(N + 1)
    BY <1>1
  <2> QED
    BY <1>2, <2>1, <2>2 DEF Sound, Forward
<1>4. \A j \in p..N : j \in 1..N
  BY <1>1
<1>4a. p \in 1..Len(s) /\ result.at - 1 \in 1..Len(s)
  BY <1>1, <1>4
<1> HIDE DEF N, result
<1>5. CASE kind = "or"
  <2>1. "and" \in Kind /\ Deeper("and", p, kind, p)
    BY <1>1, <1>5, DeeperCalls DEF Kind
  <2>2. \A q \in p..(Len(s) + 1) : Sound(s, call, trees, "and", q)
    BY <1>3, <2>1 DEF N
  <2>3. \A j \in p..Len(s) : \A x : x \in trees[<<"or", p, j>>] <=>
          x \in trees[<<"and", p, j>>] \/ x \in Split(trees, s, p, j, {"or"}, "or", "and")
    BY <1>1, <1>4, RuleOr DEF N
  <2>4. result = Turns(call, s, p, {"or"}, "and")[Len(s)]
    BY <1>5, MethodsOfKinds DEF OrExpr, result
  <2>5. Len(s) \in 0..Len(s) /\ p \in 1..Len(s) /\ Turns(call, s, p, {"or"}, "and")[Len(s)].ok
    BY <1>1, <2>4 DEF N
  <2> QED
    BY <1>5, <2>1, <2>2, <2>3, <2>4, <2>5, NoOperatorAtEnd, TurnsSound, ZenonT(30) DEF Kind
<1>6. CASE kind = "and"
  <2>1. "not" \in Kind /\ Deeper("not", p, kind, p)
    BY <1>1, <1>6, DeeperCalls DEF Kind
  <2>2. \A q \in p..(Len(s) + 1) : Sound(s, call, trees, "not", q)
    BY <1>3, <2>1 DEF N
  <2>3. \A j \in p..Len(s) : \A x : x \in trees[<<"and", p, j>>] <=>
          x \in trees[<<"not", p, j>>] \/ x \in Split(trees, s, p, j, {"and"}, "and", "not")
    BY <1>1, <1>4, RuleAnd DEF N
  <2>4. result = Turns(call, s, p, {"and"}, "not")[Len(s)]
    BY <1>6, MethodsOfKinds DEF AndExpr, result
  <2>5. Len(s) \in 0..Len(s) /\ p \in 1..Len(s) /\ Turns(call, s, p, {"and"}, "not")[Len(s)].ok
    BY <1>1, <2>4 DEF N
  <2> QED
    BY <1>6, <2>1, <2>2, <2>3, <2>4, <2>5, NoOperatorAtEnd, TurnsSound, ZenonT(30) DEF Kind
<1>7. CASE kind = "not"
  <2>1. result = NotExpr(call, s, p)
    BY <1>7, MethodsOfKinds DEF result
  <2> DEFINE j == result.at - 1
  <2>2. result.nodes \in trees[<<"not", p, j>>] <=>
          \/ result.nodes \in trees[<<"comparison", p, j>>]
          \/ p < j /\ s[p] = "not" /\ \E a \in trees[<<"not", p + 1, j>>] : result.nodes = Negated(a)
    BY <1>4a, RuleNot, SMTT(30)
  <2>3. CASE Peek(s, p) # "not"
    <3>1. result = call[<<"comparison", p>>]
      BY <2>1, <2>3 DEF NotExpr
    <3>2. Deeper("comparison", p, kind, p)
      BY <1>1, <1>7, DeeperCalls
    <3>3. result.nodes \in trees[<<"comparison", p, result.at - 1>>]
      BY <1>3, <3>1, <3>2 DEF Kind
    <3> QED
      BY <1>7, <2>2, <3>3
  <2>4. CASE Peek(s, p) = "not"
    <3> DEFINE operand == call[<<"not", p + 1>>]
    <3>1. operand.ok /\ result.nodes = Negated(operand.nodes) /\ result.at = operand.at
      BY <2>1, <2>4, ParsedFields DEF NotExpr
    <3>2. s[p] = "not"
      BY <1>1, <2>4, PeekInside DEF N
    <3>3. p + 1 \in (p + 1)..(N + 1)
      BY <1>1
    <3>4. operand.at \in (p + 2)..(N + 1) /\ operand.nodes \in trees[<<"not", p + 1, operand.at - 1>>]
      BY <1>1, <1>2, <3>1, <3>3 DEF Sound, Forward, Kind, N
    <3>5. p < j
      BY <1>1, <3>1, <3>4
    <3> HIDE DEF operand
    <3> QED
      BY <1>7, <2>2, <3>1, <3>2, <3>4, <3>5
  <2> QED
    BY <2>3, <2>4
<1>8. CASE kind = "comparison"
  <2> DEFINE left == call[<<"contains", p>>]
  <2>1. result = Optional(call, s, left, CompOp, "contains")
    BY <1>8, MethodsOfKinds DEF Comparison, result
  <2>2. left.ok => left.at \in (p + 1)..(Len(s) + 1) /\ left.nodes \in trees[<<"contains", p, left.at - 1>>]
    BY <1>1, <1>3, <1>8, DeeperCalls DEF Kind, N
  <2>3. \A q \in (p + 1)..(Len(s) + 1) : Sound(s, call, trees, "contains", q)
    BY <1>2 DEF Kind, N
  <2>4. result.nodes \in trees[<<"comparison", p, result.at - 1>>] <=>
          \/ result.nodes \in trees[<<"contains", p, result.at - 1>>]
          \/ result.nodes \in Split(trees, s, p, result.at - 1, CompOp, "contains", "contains")
    BY <1>4a, RuleComparison
  <2> HIDE DEF left
  <2>5. \/ result = left
        \/ result.nodes \in Split(trees, s, p, result.at - 1, CompOp, "contains", "contains")
    BY <1>1, <2>1, <2>2, <2>3, NoOperatorAtEnd, OptionalSound DEF Kind, N
  <2> QED
    BY <1>8, <2>2, <2>4, <2>5
<1>9. CASE kind = "contains"
  <2> DEFINE left == call[<<"primary", p>>]
  <2>1. result = Optional(call, s, left, {"contains"}, "primary")
    BY <1>9, MethodsOfKinds DEF ContainsExpr, result
  <2>2. left.ok => left.at \in (p + 1)..(Len(s) + 1) /\ left.nodes \in trees[<<"primary", p, left.at - 1>>]
    BY <1>1, <1>3, <1>9, DeeperCalls DEF Kind, N
  <2>3. \A q \in (p + 1)..(Len(s) + 1) : Sound(s, call, trees, "primary", q)
    BY <1>2 DEF Kind, N
  <2>4. result.nodes \in trees[<<"contains", p, result.at - 1>>] <=>
          \/ result.nodes \in trees[<<"primary", p, result.at - 1>>]
          \/ result.nodes \in Split(trees, s, p, result.at - 1, {"contains"}, "primary", "primary")
    BY <1>4a, RuleContains
  <2> HIDE DEF left
  <2>5. \/ result = left
        \/ result.nodes \in Split(trees, s, p, result.at - 1, {"contains"}, "primary", "primary")
    BY <1>1, <2>1, <2>2, <2>3, NoOperatorAtEnd, OptionalSound DEF Kind, N
  <2> QED
    BY <1>9, <2>2, <2>4, <2>5
<1>10. CASE kind = "primary"
  <2> DEFINE j == result.at - 1
  <2>1. result = Primary(call, s, p)
    BY <1>10, MethodsOfKinds DEF result
  <2>2. result.nodes \in trees[<<"primary", p, j>>] <=>
          \/ p = j /\ s[p] \in DOMAIN Literal /\ result.nodes = Constant(s[p])
          \/ result.nodes \in trees[<<"field", p, j>>]
          \/ p + 1 < j /\ s[p] = "(" /\ s[j] = ")" /\ result.nodes \in trees[<<"or", p + 1, j - 1>>]
    BY <1>4a, RulePrimary
  <2>3. Peek(s, p) = s[p]
    BY <1>1 DEF Peek, N
  <2>4. CASE s[p] \in DOMAIN Literal
    <3>1. result.nodes = Constant(s[p]) /\ result.at = p + 1
      BY <2>1, <2>3, <2>4, ParsedFields DEF Primary
    <3>2. p = j
      BY <1>1, <3>1
    <3> QED
      BY <1>10, <2>2, <2>4, <3>1, <3>2
  <2>5. CASE s[p] \notin DOMAIN Literal /\ s[p] # "("
    <3>1. result = call[<<"field", p>>]
      BY <2>1, <2>3, <2>5 DEF Primary
    <3>2. Deeper("field", p, kind, p)
      BY <1>1, <1>10, DeeperCalls
    <3>3. result.nodes \in trees[<<"field", p, result.at - 1>>]
      BY <1>3, <3>1, <3>2 DEF Kind
    <3> QED
      BY <1>10, <2>2, <3>3
  <2>6. CASE s[p] \notin DOMAIN Literal /\ s[p] = "("
    <3> DEFINE inner == call[<<"or", p + 1>>]
    <3>1. inner.ok /\ Peek(s, inner.at) = ")" /\ result.nodes = inner.nodes /\ result.at = inner.at + 1
      BY <2>1, <2>3, <2>6, ParsedFields DEF Primary
    <3>2. p + 1 \in (p + 1)..(N + 1)
      BY <1>1
    <3>3. inner.at \in (p + 2)..(N + 1) /\ inner.nodes \in trees[<<"or", p + 1, inner.at - 1>>]
      BY <1>1, <1>2, <3>1, <3>2 DEF Sound, Forward, Kind, N
    <3> HIDE DEF inner
    <3>4. s[inner.at] = ")"
      <4>1. inner.at \in p..N
        BY <1>1, <3>1, <3>3
      <4> QED
        BY <3>1, <4>1 DEF Peek, N
    <3>5. j = inner.at /\ p + 1 < j
      <4>1. inner.at \in Int /\ p \in Int /\ p + 2 <= inner.at
        BY <1>1, <3>3
      <4> QED
        BY <3>1, <4>1
    <3> HIDE DEF j
    <3> QED
      BY <1>10, <2>2, <2>6, <3>1, <3>3, <3>4, <3>5 DEF j
  <2> QED
    BY <2>4, <2>5, <2>6
<1>11. CASE kind = "field"
  <2> DEFINE j == result.at - 1
  <2>1. result = FieldAccess(call, s, p)
    BY <1>11, MethodsOfKinds DEF result
  <2>2. result.nodes \in trees[<<"field", p, j>>] <=>
          \E n \in 1..Len(s) : Names(s, p, j, n) /\ result.nodes = Access(Path(s, p, n))
    BY <1>4a, RuleField
  <2>3. Peek(s, p) = s[p] /\ s[p] \in Field
    <3>1. Peek(s, p) = s[p]
      BY <1>1 DEF Peek, N
    <3>2. CASE Peek(s, p) \notin Field
      <4>1. result = Unexpected(p)
        BY <2>1, <3>2 DEF FieldAccess
      <4> QED
        BY <4>1, ParsedFields
    <3> QED
      BY <3>1, <3>2
  <2>4. CASE Peek(s, p + 1) # "."
    <3>1. result.nodes = Access(<<s[p]>>) /\ result.at = p + 1
      BY <2>1, <2>3, <2>4, ParsedFields DEF FieldAccess
    <3>2. j = p /\ 1 \in 1..Len(s)
      BY <1>1, <3>1 DEF N
    <3>3. Names(s, p, j, 1)
      BY <1>1, <2>3, <3>2 DEF Names
    <3>4. Path(s, p, 1) = <<s[p]>>
      BY <1>1 DEF N, Path
    <3> HIDE DEF j
    <3> QED
      BY <1>11, <2>2, <3>1, <3>2, <3>3, <3>4 DEF j
  <2>5. CASE Peek(s, p + 1) = "."
    <3> DEFINE rest == call[<<"field", p + 2>>]
    <3>1. rest.ok /\ result.nodes = Access(<<s[p]>> \o rest.nodes[1][2]) /\ result.at = rest.at
      BY <2>1, <2>3, <2>5, ParsedFields DEF FieldAccess
    <3>2. p + 1 \in 1..N /\ s[p + 1] = "."
      BY <1>1, <2>5, PeekInside DEF N
    <3>3. p + 2 \in (p + 1)..(N + 1)
      BY <1>1, <3>2
    <3>4. rest.at \in (p + 3)..(N + 1) /\ rest.nodes \in trees[<<"field", p + 2, rest.at - 1>>]
      BY <1>1, <1>2, <3>1, <3>3 DEF Sound, Forward, Kind, N
    <3>5. p + 2 \in 1..N /\ j = rest.at - 1 /\ j \in 1..N
      BY <1>1, <3>1, <3>2, <3>4
    <3> HIDE DEF rest, j
    <3>7. PICK n \in 1..Len(s) : Names(s, p + 2, j, n) /\ rest.nodes = Access(Path(s, p + 2, n))
      BY <3>4, <3>5, RuleField DEF N
    <3>8. rest.nodes[1][2] = Path(s, p + 2, n)
      BY <3>7 DEF Access
    <3>9. result.nodes = Access(Path(s, p, n + 1))
      <4>1. <<s[p]>> \o Path(s, p + 2, n) = Path(s, p, n + 1)
        <5>1. p \in Nat /\ n \in Nat
          BY <1>1
        <5> QED
          BY <5>1, PathGrows
      <4> QED
        BY <3>1, <3>8, <4>1
    <3>10. Names(s, p, j, n + 1)
      BY <1>1, <2>3, <3>2, <3>5, <3>7, NamesGrow DEF N
    <3>11. n + 1 \in 1..Len(s)
      BY <1>1, <3>5, <3>10 DEF Names, N
    <3> QED
      BY <1>11, <2>2, <3>9, <3>10, <3>11 DEF j
  <2> QED
    BY <2>4, <2>5
<1> QED
  BY <1>5, <1>6, <1>7, <1>8, <1>9, <1>10, <1>11 DEF Kind, result

LEMMA ParserSound ==
  ASSUME NEW s \in Seq(Token), NEW call, NEW trees, CallsReturn(s, call), TreesDerived(s, trees),
         NEW kind \in Kind, NEW p \in 1..(Len(s) + 1)
  PROVE  Sound(s, call, trees, kind, p)
<1> DEFINE T == {n \in Nat : \E m \in Kind, q \in 1..(Len(s) + 1) :
                   Depth(s, m, q) = n /\ ~Sound(s, call, trees, m, q)}
<1>1. ASSUME T # {} PROVE FALSE
  <2>1. PICK n \in T : \A k \in T : n <= k
    BY <1>1, LeastNumber
  <2>2. PICK m \in Kind, q \in 1..(Len(s) + 1) : Depth(s, m, q) = n /\ ~Sound(s, call, trees, m, q)
    BY <2>1
  <2>3. ASSUME NEW l \in Kind, NEW o \in 1..(Len(s) + 1), Deeper(l, o, m, q)
        PROVE  Sound(s, call, trees, l, o)
    <3>1. Depth(s, l, o) < Depth(s, m, q)
      BY <2>3, DepthType
    <3>2. Depth(s, l, o) \in 0..(7 * Len(s) + 6) /\ Depth(s, m, q) \in 0..(7 * Len(s) + 6)
      BY DepthType
    <3>3. Depth(s, l, o) \notin T /\ Depth(s, l, o) \in Nat
      BY <2>1, <2>2, <3>1, <3>2
    <3> QED
      BY <3>3
  <2>4. Sound(s, call, trees, m, q)
    BY <2>3, MethodSound
  <2> QED
    BY <2>2, <2>4
<1>2. Depth(s, kind, p) \in Nat
  <2>1. Depth(s, kind, p) \in 0..(7 * Len(s) + 6)
    BY DepthType
  <2> QED
    BY <2>1
<1> QED
  BY <1>1, <1>2

-----------------------------------------------------------------------------
(* What the grammar has, the parser accepts *)

\* The tokens with which an expression of the kind could go on.
Onward(kind) ==
  CASE kind \in {"field", "primary"} -> {"."}
    [] kind = "contains" -> {".", "contains"}
    [] kind \in {"comparison", "not"} -> {".", "contains"} \cup CompOp
    [] kind = "and" -> {".", "contains", "and"} \cup CompOp
    [] kind = "or" -> {".", "contains", "and", "or"} \cup CompOp

LEMMA OnwardFacts ==
  /\ \A kind \in Kind : "EOF" \notin Onward(kind) /\ ")" \notin Onward(kind) /\ "." \in Onward(kind)
  /\ Onward("field") \subseteq Onward("primary")
  /\ Onward("primary") \cup {"contains"} \subseteq Onward("contains")
  /\ Onward("contains") \cup CompOp \subseteq Onward("comparison")
  /\ Onward("comparison") \subseteq Onward("not")
  /\ Onward("not") \cup {"and"} \subseteq Onward("and")
  /\ Onward("and") \cup {"or"} \subseteq Onward("or")
  /\ "contains" \notin Onward("primary") /\ "and" \notin Onward("not") /\ "or" \notin Onward("and")
  /\ \A op \in CompOp : op \notin Onward("contains")
BY EvaluatorAssumption DEF Onward, Kind

Complete(s, call, trees, kind, i, j) ==
  \A x \in trees[<<kind, i, j>>] :
    Peek(s, j + 1) \notin Onward(kind) => call[<<kind, i>>] = Parsed(x, j + 1)

\* The loops have each expression of the span after some turn.
Reached(s, call, trees, kind, ops, operand, i, j) ==
  \A x \in trees[<<kind, i, j>>] :
    Peek(s, j + 1) \notin Onward(operand) =>
      \E n \in 0..(j - i) : Turns(call, s, i, ops, operand)[n] = Parsed(x, j + 1)

LEMMA OptionalStops ==
  ASSUME NEW s, NEW call, NEW x, NEW at, NEW ops, NEW operand, Peek(s, at) \notin ops
  PROVE  Optional(call, s, Parsed(x, at), ops, operand) = Parsed(x, at)
<1>1. Parsed(x, at).at = at
  BY ParsedFields
<1> QED
  BY <1>1 DEF Optional

LEMMA OptionalGoesOn ==
  ASSUME NEW s, NEW call, NEW x, NEW y, NEW k \in 1..Len(s), NEW at, NEW ops, NEW operand,
         s[k] \in ops, call[<<operand, k + 1>>] = Parsed(y, at)
  PROVE  Optional(call, s, Parsed(x, k), ops, operand) = Parsed(Joined(s[k], x, y), at)
<1>1. /\ Parsed(x, k).at = k /\ Parsed(x, k).ok /\ Parsed(x, k).nodes = x
      /\ Parsed(y, at).at = at /\ Parsed(y, at).ok /\ Parsed(y, at).nodes = y
  BY ParsedFields
<1>2. Peek(s, k) = s[k]
  BY DEF Peek
<1> QED
  BY <1>1, <1>2 DEF Optional

\* A loop that has met another token turns without effect.
LEMMA TurnsStop ==
  ASSUME NEW s \in Seq(Token), NEW call, NEW i, NEW ops, NEW operand, NEW n \in 0..Len(s), NEW x, NEW at,
         Turns(call, s, i, ops, operand)[n] = Parsed(x, at), Peek(s, at) \notin ops
  PROVE  Turns(call, s, i, ops, operand)[Len(s)] = Parsed(x, at)
<1> DEFINE left == Turns(call, s, i, ops, operand)
<1> DEFINE T == {m \in Nat : n <= m /\ m <= Len(s) /\ left[m] # Parsed(x, at)}
<1>1. n \in Nat /\ Len(s) \in Nat /\ n <= Len(s)
  OBVIOUS
<1>2. /\ left[0] = call[<<operand, i>>]
      /\ \A k \in 1..Len(s) : left[k] = Optional(call, s, left[k - 1], ops, operand)
  BY <1>1, TurnsStep
<1>3. left[n] = Parsed(x, at)
  OBVIOUS
<1> HIDE DEF left
<1>4. ASSUME T # {} PROVE FALSE
  <2>1. PICK m \in T : \A k \in T : m <= k
    BY <1>4, LeastNumber
  <2>2. m \in Nat /\ n <= m /\ m <= Len(s) /\ left[m] # Parsed(x, at)
    OBVIOUS
  <2>3. m \in 1..Len(s) /\ m - 1 \in Nat /\ n <= m - 1 /\ m - 1 <= Len(s)
    BY <1>1, <1>3, <2>2
  <2>4. m - 1 \notin T
    BY <2>1, <2>2
  <2>5. left[m - 1] = Parsed(x, at)
    BY <2>3, <2>4
  <2>6. left[m] = Optional(call, s, Parsed(x, at), ops, operand)
    BY <1>2, <2>3, <2>5
  <2> QED
    BY <2>2, <2>6, OptionalStops
<1>5. left[Len(s)] = Parsed(x, at)
  BY <1>1, <1>4
<1> QED
  BY <1>5 DEF left

LEMMA TurnsComplete ==
  ASSUME NEW s \in Seq(Token), NEW call, NEW trees, CallsReturn(s, call),
         NEW i \in 1..Len(s), NEW j \in 1..Len(s), NEW ops, NEW kind \in Kind, NEW operand \in Kind,
         \A op \in ops : op \notin Onward(operand),
         \A x : x \in trees[<<kind, i, j>>] =>
           x \in trees[<<operand, i, j>>] \/ x \in Split(trees, s, i, j, ops, kind, operand),
         Complete(s, call, trees, operand, i, j),
         \A k \in (i + 1)..(j - 1) : /\ Reached(s, call, trees, kind, ops, operand, i, k - 1)
                                     /\ Complete(s, call, trees, operand, k + 1, j)
  PROVE  Reached(s, call, trees, kind, ops, operand, i, j)
<1> SUFFICES ASSUME NEW x \in trees[<<kind, i, j>>], Peek(s, j + 1) \notin Onward(operand)
             PROVE  \E n \in 0..(j - i) : Turns(call, s, i, ops, operand)[n] = Parsed(x, j + 1)
  BY DEF Reached
<1> DEFINE left == Turns(call, s, i, ops, operand)
<1>1. Len(s) \in Nat /\ i \in 1..(Len(s) + 1)
  OBVIOUS
<1>2. left[0] = call[<<operand, i>>] /\ \A k \in 1..Len(s) : left[k] = Optional(call, s, left[k - 1], ops, operand)
  BY TurnsStep
<1> HIDE DEF left
<1>3. CASE x \in trees[<<operand, i, j>>]
  <2>1. call[<<operand, i>>] = Parsed(x, j + 1)
    BY <1>3 DEF Complete
  <2>2. Forward(s, Parsed(x, j + 1), i)
    BY <1>1, <2>1 DEF CallsReturn
  <2>3. j + 1 \in (i + 1)..(Len(s) + 1)
    BY <2>2, ParsedFields DEF Forward
  <2>4. 0 \in 0..(j - i)
    BY <1>1, <2>3
  <2> QED
    BY <1>2, <2>1, <2>4 DEF left
<1>4. CASE x \in Split(trees, s, i, j, ops, kind, operand)
  <2>1. PICK k \in (i + 1)..(j - 1) :
          s[k] \in ops /\ x \in AllJoined(s[k], trees[<<kind, i, k - 1>>], trees[<<operand, k + 1, j>>])
    BY <1>4, SplitMember
  <2>2. PICK a \in trees[<<kind, i, k - 1>>], b \in trees[<<operand, k + 1, j>>] : x = Joined(s[k], a, b)
    BY <2>1, JoinedMember
  <2>3. k \in 1..Len(s) /\ (k - 1) + 1 = k
    BY <1>1
  <2>4. Peek(s, k) = s[k] /\ s[k] \notin Onward(operand)
    BY <1>1, <2>1, <2>3 DEF Peek
  <2>5. PICK n \in 0..(k - 1 - i) : left[n] = Parsed(a, k)
    <3>1. Reached(s, call, trees, kind, ops, operand, i, k - 1)
      OBVIOUS
    <3>2. Peek(s, (k - 1) + 1) \notin Onward(operand)
      BY <2>3, <2>4
    <3>3. \E n \in 0..(k - 1 - i) : left[n] = Parsed(a, (k - 1) + 1)
      BY <3>1, <3>2 DEF Reached, left
    <3> QED
      BY <2>3, <3>3
  <2>6. call[<<operand, k + 1>>] = Parsed(b, j + 1)
    BY DEF Complete
  <2>7. Optional(call, s, Parsed(a, k), ops, operand) = Parsed(x, j + 1)
    BY <2>1, <2>2, <2>3, <2>6, OptionalGoesOn
  <2>8. n + 1 \in 0..(j - i) /\ n + 1 \in 1..Len(s) /\ (n + 1) - 1 = n
    BY <1>1
  <2>9. left[n + 1] = Parsed(x, j + 1)
    BY <1>2, <2>5, <2>7, <2>8
  <2> QED
    BY <2>8, <2>9 DEF left
<1> QED
  BY <1>3, <1>4

\* The loop ends with it, if no operator follows.
LEMMA TurnsEnd ==
  ASSUME NEW s \in Seq(Token), NEW call, NEW trees, NEW i \in 1..Len(s), NEW j \in 1..Len(s),
         NEW ops, NEW kind \in Kind, NEW operand \in Kind,
         Reached(s, call, trees, kind, ops, operand, i, j),
         NEW x \in trees[<<kind, i, j>>], Peek(s, j + 1) \notin Onward(operand), Peek(s, j + 1) \notin ops
  PROVE  Turns(call, s, i, ops, operand)[Len(s)] = Parsed(x, j + 1)
<1>1. PICK n \in 0..(j - i) : Turns(call, s, i, ops, operand)[n] = Parsed(x, j + 1)
  BY DEF Reached
<1>2. n \in 0..Len(s)
  OBVIOUS
<1> QED
  BY <1>1, <1>2, TurnsStop

\* An expression of the kinds below "not" does not begin with "not".
LEMMA ComparisonBegins ==
  ASSUME NEW s \in Seq(Token), NEW call, CallsReturn(s, call), NEW p \in 1..Len(s),
         call[<<"comparison", p>>].ok
  PROVE  Peek(s, p) # "not"
<1>1. p \in 1..(Len(s) + 1)
  OBVIOUS
<1>2. call[<<"contains", p>>].ok
  <2>1. Comparison(call, s, p).ok
    BY <1>1, MethodsOfKinds
  <2> QED
    BY <2>1 DEF Comparison, Optional
<1>3. call[<<"primary", p>>].ok
  <2>1. ContainsExpr(call, s, p).ok
    BY <1>1, <1>2, MethodsOfKinds
  <2> QED
    BY <2>1 DEF ContainsExpr, Optional
<1>4. Primary(call, s, p).ok
  BY <1>1, <1>3, MethodsOfKinds
<1>5. CASE Peek(s, p) \in DOMAIN Literal
  BY <1>5, ExpressionsAssumption DEF Keyword
<1>6. CASE Peek(s, p) = "("
  BY <1>6
<1>7. CASE Peek(s, p) \notin DOMAIN Literal /\ Peek(s, p) # "("
  <2>1. FieldAccess(call, s, p).ok
    BY <1>1, <1>4, <1>7, MethodsOfKinds DEF Primary
  <2>2. CASE Peek(s, p) \notin Field
    <3>1. FieldAccess(call, s, p) = Unexpected(p)
      BY <2>2 DEF FieldAccess
    <3> QED
      BY <2>1, <3>1, ParsedFields
  <2>3. CASE Peek(s, p) \in Field
    BY <2>3, ExpressionsAssumption DEF Keyword
  <2> QED
    BY <2>2, <2>3
<1> QED
  BY <1>5, <1>6, <1>7

\* An access to a field begins with a field.
LEMMA FieldBegins ==
  ASSUME NEW s, NEW trees, TreesDerived(s, trees), NEW i \in 1..Len(s), NEW j \in 1..Len(s),
         NEW x \in trees[<<"field", i, j>>]
  PROVE  s[i] \in Field
<1>1. PICK n \in 1..Len(s) : Names(s, i, j, n) /\ x = Access(Path(s, i, n))
  BY RuleField
<1>2. 1 \in 1..n /\ i + 2 * 1 - 2 = i
  OBVIOUS
<1> QED
  BY <1>1, <1>2 DEF Names

\* An optional operator: what the grammar has on either side of it is what
\* the parser finds there.
NoneMissed(s, call, trees, kind, i, j) ==
  \A k \in (i + 1)..(j - 1) : /\ Complete(s, call, trees, kind, i, k - 1)
                              /\ Complete(s, call, trees, kind, k + 1, j)

LEMMA OptionalComplete ==
  ASSUME NEW s \in Seq(Token), NEW call, NEW trees, NEW i \in 1..Len(s), NEW j \in 1..Len(s),
         NEW ops, NEW kind \in Kind, NEW x,
         \A op \in ops : op \notin Onward(kind),
         NoneMissed(s, call, trees, kind, i, j),
         x \in Split(trees, s, i, j, ops, kind, kind),
         Peek(s, j + 1) \notin Onward(kind)
  PROVE  Optional(call, s, call[<<kind, i>>], ops, kind) = Parsed(x, j + 1)
<1>1. PICK k \in (i + 1)..(j - 1) :
        s[k] \in ops /\ x \in AllJoined(s[k], trees[<<kind, i, k - 1>>], trees[<<kind, k + 1, j>>])
  BY SplitMember
<1>2. PICK a \in trees[<<kind, i, k - 1>>], b \in trees[<<kind, k + 1, j>>] : x = Joined(s[k], a, b)
  BY <1>1, JoinedMember
<1>3. k \in 1..Len(s) /\ (k - 1) + 1 = k
  OBVIOUS
<1>4. Peek(s, k) = s[k] /\ s[k] \notin Onward(kind)
  BY <1>1, <1>3 DEF Peek
<1>5. call[<<kind, i>>] = Parsed(a, k)
  <2>1. Complete(s, call, trees, kind, i, k - 1)
    BY DEF NoneMissed
  <2>2. Peek(s, (k - 1) + 1) \notin Onward(kind)
    BY <1>3, <1>4
  <2>3. call[<<kind, i>>] = Parsed(a, (k - 1) + 1)
    BY <2>1, <2>2 DEF Complete
  <2> QED
    BY <1>3, <2>3
<1>6. call[<<kind, k + 1>>] = Parsed(b, j + 1)
  BY DEF Complete, NoneMissed
<1> QED
  BY <1>1, <1>2, <1>3, <1>5, <1>6, OptionalGoesOn

Claim(s, call, trees, kind, i, j) ==
  /\ Complete(s, call, trees, kind, i, j)
  /\ kind = "and" => Reached(s, call, trees, "and", {"and"}, "not", i, j)
  /\ kind = "or" => Reached(s, call, trees, "or", {"or"}, "and", i, j)

LEMMA FieldComplete ==
  ASSUME NEW s \in Seq(Token), NEW call, NEW trees, CallsReturn(s, call), TreesDerived(s, trees),
         NEW i \in 1..Len(s), NEW j \in 1..Len(s),
         i + 2 \in 1..Len(s) => Complete(s, call, trees, "field", i + 2, j)
  PROVE  Complete(s, call, trees, "field", i, j)
<1> SUFFICES ASSUME NEW x \in trees[<<"field", i, j>>], Peek(s, j + 1) # "."
             PROVE  call[<<"field", i>>] = Parsed(x, j + 1)
  BY OnwardFacts DEF Complete, Kind
<1>1. PICK n \in 1..Len(s) : Names(s, i, j, n) /\ x = Access(Path(s, i, n))
  BY RuleField
<1>2. j = i + 2 * n - 2 /\ s[i] \in Field /\ Peek(s, i) = s[i] /\ Len(s) \in Nat
  <2>1. j = i + 2 * n - 2
    BY <1>1 DEF Names
  <2> QED
    BY <2>1, FieldBegins DEF Peek
<1>3. call[<<"field", i>>] = FieldAccess(call, s, i)
  <2>1. i \in 1..(Len(s) + 1)
    OBVIOUS
  <2> QED
    BY <2>1, MethodsOfKinds
<1>4. CASE n = 1
  <2>1. j = i
    BY <1>2, <1>4
  <2>2. Path(s, i, 1) = <<s[i]>>
    BY DEF Path
  <2>3. FieldAccess(call, s, i) = Parsed(Access(<<s[i]>>), i + 1)
    BY <1>2, <2>1 DEF FieldAccess
  <2> QED
    BY <1>1, <1>3, <1>4, <2>1, <2>2, <2>3
<1>5. CASE n > 1
  <2>1. i + 2 \in 1..Len(s) /\ i + 1 \in 1..Len(s) /\ n - 1 \in 1..Len(s) /\ n - 1 \in Nat /\ i \in Nat
    <3>1. i \in Nat /\ j \in Nat /\ n \in Nat /\ Len(s) \in Nat /\ j <= Len(s) /\ 0 < i /\ n <= Len(s)
      BY <1>2
    <3> QED
      BY <1>2, <1>5, <3>1
  <2>2. s[i + 1] = "." /\ Peek(s, i + 1) = "."
    <3>1. 1 \in 1..(n - 1) /\ i + 2 * 1 - 1 = i + 1
      BY <1>5
    <3>2. s[i + 1] = "."
      BY <1>1, <3>1 DEF Names
    <3> QED
      BY <2>1, <3>2 DEF Peek
  <2>3. Names(s, i + 2, j, n - 1)
    <3>1. j = (i + 2) + 2 * (n - 1) - 2
      BY <1>2
    <3>2. ASSUME NEW k \in 1..(n - 1) PROVE s[(i + 2) + 2 * k - 2] \in Field
      <4>1. k + 1 \in 1..n /\ i + 2 * (k + 1) - 2 = (i + 2) + 2 * k - 2
        BY <2>1
      <4>2. s[i + 2 * (k + 1) - 2] \in Field
        BY <1>1, <4>1 DEF Names
      <4> QED
        BY <4>1, <4>2
    <3>3. ASSUME NEW k \in 1..(n - 1 - 1) PROVE s[(i + 2) + 2 * k - 1] = "."
      <4>1. k + 1 \in 1..(n - 1) /\ i + 2 * (k + 1) - 1 = (i + 2) + 2 * k - 1
        BY <2>1
      <4>2. s[i + 2 * (k + 1) - 1] = "."
        BY <1>1, <4>1 DEF Names
      <4> QED
        BY <4>1, <4>2
    <3> QED
      BY <3>1, <3>2, <3>3 DEF Names
  <2> DEFINE y == Access(Path(s, i + 2, n - 1))
  <2>4. y \in trees[<<"field", i + 2, j>>]
    BY <2>1, <2>3, RuleField
  <2>5. call[<<"field", i + 2>>] = Parsed(y, j + 1)
    <3>1. Peek(s, j + 1) \notin Onward("field")
      BY DEF Onward
    <3> HIDE DEF y
    <3> QED
      BY <2>1, <2>4, <3>1 DEF Complete
  <2>6. y[1][2] = Path(s, i + 2, n - 1)
    BY DEF Access
  <2>7. <<s[i]>> \o Path(s, i + 2, n - 1) = Path(s, i, n)
    <3>1. <<s[i]>> \o Path(s, i + 2, n - 1) = Path(s, i, n - 1 + 1)
      BY <2>1, PathGrows
    <3>2. n - 1 + 1 = n
      OBVIOUS
    <3> QED
      BY <3>1, <3>2
  <2> HIDE DEF y
  <2>8. FieldAccess(call, s, i) = Parsed(Access(<<s[i]>> \o y[1][2]), j + 1)
    BY <1>2, <2>2, <2>5, ParsedFields DEF FieldAccess
  <2> QED
    BY <1>1, <1>3, <2>6, <2>7, <2>8
<1> QED
  BY <1>4, <1>5

LEMMA MethodComplete ==
  ASSUME NEW s \in Seq(Token), NEW call, NEW trees, CallsReturn(s, call), TreesDerived(s, trees),
         NEW kind \in Kind, NEW i \in 1..Len(s), NEW j \in 1..Len(s),
         \A m \in Kind, a \in 1..Len(s), b \in 1..Len(s) :
           Narrower(m, a, b, kind, i, j) => Claim(s, call, trees, m, a, b)
  PROVE  Claim(s, call, trees, kind, i, j)
<1>1. Len(s) \in Nat /\ i \in 1..(Len(s) + 1)
  OBVIOUS
<1>2. ASSUME NEW m \in Kind, Deeper(m, i, kind, i)
      PROVE  Claim(s, call, trees, m, i, j)
  BY <1>2 DEF Deeper, Narrower
<1>3. ASSUME NEW m \in Kind, NEW a \in 1..Len(s), NEW b \in 1..Len(s), b - a < j - i
      PROVE  Claim(s, call, trees, m, a, b)
  BY <1>3 DEF Narrower
<1>4. ASSUME NEW m \in Kind, NEW k \in (i + 1)..(j - 1)
      PROVE  Claim(s, call, trees, m, i, k - 1) /\ Claim(s, call, trees, m, k + 1, j)
  <2>1. /\ k - 1 \in 1..Len(s) /\ (k - 1) - i < j - i
        /\ k + 1 \in 1..Len(s) /\ j - (k + 1) < j - i
    BY <1>1
  <2> QED
    BY <1>3, <2>1
<1>5. CASE kind = "or"
  <2>1. Complete(s, call, trees, "and", i, j)
    BY <1>1, <1>2, <1>5, DeeperCalls DEF Claim, Kind
  <2>2. \A k \in (i + 1)..(j - 1) : /\ Reached(s, call, trees, "or", {"or"}, "and", i, k - 1)
                                    /\ Complete(s, call, trees, "and", k + 1, j)
    BY <1>4 DEF Claim, Kind
  <2>3. \A x : x \in trees[<<"or", i, j>>] =>
          x \in trees[<<"and", i, j>>] \/ x \in Split(trees, s, i, j, {"or"}, "or", "and")
    BY RuleOr
  <2>4. Reached(s, call, trees, "or", {"or"}, "and", i, j)
    BY <2>1, <2>2, <2>3, OnwardFacts, TurnsComplete DEF Kind
  <2>5. Complete(s, call, trees, "or", i, j)
    <3> SUFFICES ASSUME NEW x \in trees[<<"or", i, j>>], Peek(s, j + 1) \notin Onward("or")
                 PROVE  call[<<"or", i>>] = Parsed(x, j + 1)
      BY DEF Complete
    <3>1. Peek(s, j + 1) \notin Onward("and") /\ Peek(s, j + 1) \notin {"or"}
      BY OnwardFacts
    <3>2. Turns(call, s, i, {"or"}, "and")[Len(s)] = Parsed(x, j + 1)
      <4>1. "or" \in Kind /\ "and" \in Kind
        BY DEF Kind
      <4> QED
        BY <2>4, <3>1, <4>1, TurnsEnd
    <3> QED
      BY <1>1, <3>2, MethodsOfKinds DEF OrExpr
  <2> QED
    BY <1>5, <2>4, <2>5 DEF Claim
<1>6. CASE kind = "and"
  <2>1. Complete(s, call, trees, "not", i, j)
    BY <1>1, <1>2, <1>6, DeeperCalls DEF Claim, Kind
  <2>2. \A k \in (i + 1)..(j - 1) : /\ Reached(s, call, trees, "and", {"and"}, "not", i, k - 1)
                                    /\ Complete(s, call, trees, "not", k + 1, j)
    BY <1>4 DEF Claim, Kind
  <2>3. \A x : x \in trees[<<"and", i, j>>] =>
          x \in trees[<<"not", i, j>>] \/ x \in Split(trees, s, i, j, {"and"}, "and", "not")
    BY RuleAnd
  <2>4. Reached(s, call, trees, "and", {"and"}, "not", i, j)
    BY <2>1, <2>2, <2>3, OnwardFacts, TurnsComplete DEF Kind
  <2>5. Complete(s, call, trees, "and", i, j)
    <3> SUFFICES ASSUME NEW x \in trees[<<"and", i, j>>], Peek(s, j + 1) \notin Onward("and")
                 PROVE  call[<<"and", i>>] = Parsed(x, j + 1)
      BY DEF Complete
    <3>1. Peek(s, j + 1) \notin Onward("not") /\ Peek(s, j + 1) \notin {"and"}
      BY OnwardFacts
    <3>2. Turns(call, s, i, {"and"}, "not")[Len(s)] = Parsed(x, j + 1)
      <4>1. "and" \in Kind /\ "not" \in Kind
        BY DEF Kind
      <4> QED
        BY <2>4, <3>1, <4>1, TurnsEnd
    <3> QED
      BY <1>1, <3>2, MethodsOfKinds DEF AndExpr
  <2> QED
    BY <1>6, <2>4, <2>5 DEF Claim
<1>7. CASE kind = "not"
  <2> SUFFICES ASSUME NEW x \in trees[<<"not", i, j>>], Peek(s, j + 1) \notin Onward("not")
               PROVE  call[<<"not", i>>] = Parsed(x, j + 1)
    BY <1>7 DEF Claim, Complete
  <2>1. call[<<"not", i>>] = NotExpr(call, s, i) /\ Peek(s, i) = s[i]
    <3>1. Peek(s, i) = s[i]
      BY <1>1 DEF Peek
    <3> QED
      BY <1>1, <3>1, MethodsOfKinds
  <2>2. CASE x \in trees[<<"comparison", i, j>>]
    <3>1. Claim(s, call, trees, "comparison", i, j)
      BY <1>1, <1>2, <1>7, DeeperCalls DEF Kind
    <3>2. Peek(s, j + 1) \notin Onward("comparison")
      BY OnwardFacts
    <3>3. call[<<"comparison", i>>] = Parsed(x, j + 1)
      BY <2>2, <3>1, <3>2 DEF Claim, Complete
    <3>4. Peek(s, i) # "not"
      BY <3>3, ParsedFields, ComparisonBegins
    <3> QED
      BY <2>1, <3>3, <3>4 DEF NotExpr
  <2>3. CASE i < j /\ s[i] = "not" /\ \E a \in trees[<<"not", i + 1, j>>] : x = Negated(a)
    <3>1. PICK a \in trees[<<"not", i + 1, j>>] : x = Negated(a)
      BY <2>3
    <3>2. i + 1 \in 1..Len(s) /\ j - (i + 1) < j - i
      BY <1>1, <2>3
    <3>3. Claim(s, call, trees, "not", i + 1, j)
      BY <1>3, <3>2 DEF Kind
    <3>4. call[<<"not", i + 1>>] = Parsed(a, j + 1)
      BY <3>3 DEF Claim, Complete
    <3> QED
      BY <2>1, <2>3, <3>1, <3>4, ParsedFields DEF NotExpr
  <2> QED
    BY <2>2, <2>3, RuleNot
<1>8. CASE kind = "comparison"
  <2> SUFFICES ASSUME NEW x \in trees[<<"comparison", i, j>>], Peek(s, j + 1) \notin Onward("comparison")
               PROVE  call[<<"comparison", i>>] = Parsed(x, j + 1)
    BY <1>8 DEF Claim, Complete
  <2>1. Complete(s, call, trees, "contains", i, j)
    BY <1>1, <1>2, <1>8, DeeperCalls DEF Claim, Kind
  <2>2. NoneMissed(s, call, trees, "contains", i, j)
    BY <1>4 DEF Claim, Kind, NoneMissed
  <2>3. x \in trees[<<"contains", i, j>>] \/ x \in Split(trees, s, i, j, CompOp, "contains", "contains")
    BY RuleComparison
  <2>4. Peek(s, j + 1) \notin Onward("contains") /\ Peek(s, j + 1) \notin CompOp
    BY OnwardFacts
  <2>5. Optional(call, s, call[<<"contains", i>>], CompOp, "contains") = Parsed(x, j + 1)
    <3>1. "contains" \in Kind /\ \A op \in CompOp : op \notin Onward("contains")
      BY OnwardFacts DEF Kind
    <3>2. CASE x \in trees[<<"contains", i, j>>]
      <4>1. call[<<"contains", i>>] = Parsed(x, j + 1)
        BY <2>1, <2>4, <3>2 DEF Complete
      <4> QED
        BY <2>4, <4>1, OptionalStops
    <3>3. CASE x \in Split(trees, s, i, j, CompOp, "contains", "contains")
      BY <2>2, <2>4, <3>1, <3>3, OptionalComplete
    <3> QED
      BY <2>3, <3>2, <3>3
  <2> QED
    BY <1>1, <2>5, MethodsOfKinds DEF Comparison
<1>9. CASE kind = "contains"
  <2> SUFFICES ASSUME NEW x \in trees[<<"contains", i, j>>], Peek(s, j + 1) \notin Onward("contains")
               PROVE  call[<<"contains", i>>] = Parsed(x, j + 1)
    BY <1>9 DEF Claim, Complete
  <2>1. Complete(s, call, trees, "primary", i, j)
    BY <1>1, <1>2, <1>9, DeeperCalls DEF Claim, Kind
  <2>2. NoneMissed(s, call, trees, "primary", i, j)
    BY <1>4 DEF Claim, Kind, NoneMissed
  <2>3. x \in trees[<<"primary", i, j>>] \/ x \in Split(trees, s, i, j, {"contains"}, "primary", "primary")
    BY RuleContains
  <2>4. Peek(s, j + 1) \notin Onward("primary") /\ Peek(s, j + 1) \notin {"contains"}
    BY OnwardFacts
  <2>5. Optional(call, s, call[<<"primary", i>>], {"contains"}, "primary") = Parsed(x, j + 1)
    <3>1. "primary" \in Kind /\ \A op \in {"contains"} : op \notin Onward("primary")
      BY OnwardFacts DEF Kind
    <3>2. CASE x \in trees[<<"primary", i, j>>]
      <4>1. call[<<"primary", i>>] = Parsed(x, j + 1)
        BY <2>1, <2>4, <3>2 DEF Complete
      <4> QED
        BY <2>4, <4>1, OptionalStops
    <3>3. CASE x \in Split(trees, s, i, j, {"contains"}, "primary", "primary")
      BY <2>2, <2>4, <3>1, <3>3, OptionalComplete
    <3> QED
      BY <2>3, <3>2, <3>3
  <2> QED
    BY <1>1, <2>5, MethodsOfKinds DEF ContainsExpr
<1>10. CASE kind = "primary"
  <2> SUFFICES ASSUME NEW x \in trees[<<"primary", i, j>>], Peek(s, j + 1) \notin Onward("primary")
               PROVE  call[<<"primary", i>>] = Parsed(x, j + 1)
    BY <1>10 DEF Claim, Complete
  <2>1. call[<<"primary", i>>] = Primary(call, s, i) /\ Peek(s, i) = s[i]
    <3>1. Peek(s, i) = s[i]
      BY <1>1 DEF Peek
    <3> QED
      BY <1>1, <3>1, MethodsOfKinds
  <2>2. CASE i = j /\ s[i] \in DOMAIN Literal /\ x = Constant(s[i])
    BY <2>1, <2>2 DEF Primary
  <2>3. CASE x \in trees[<<"field", i, j>>]
    <3>1. Claim(s, call, trees, "field", i, j)
      BY <1>1, <1>2, <1>10, DeeperCalls DEF Kind
    <3>2. Peek(s, j + 1) \notin Onward("field")
      BY DEF Onward
    <3>3. call[<<"field", i>>] = Parsed(x, j + 1)
      BY <2>3, <3>1, <3>2 DEF Claim, Complete
    <3>4. s[i] \in Field
      BY <2>3, FieldBegins
    <3>5. s[i] \notin DOMAIN Literal /\ s[i] # "("
      BY <3>4, ExpressionsAssumption DEF Punctuation
    <3> QED
      BY <2>1, <3>3, <3>5 DEF Primary
  <2>4. CASE i + 1 < j /\ s[i] = "(" /\ s[j] = ")" /\ x \in trees[<<"or", i + 1, j - 1>>]
    <3>1. i + 1 \in 1..Len(s) /\ j - 1 \in 1..Len(s) /\ (j - 1) - (i + 1) < j - i /\ (j - 1) + 1 = j
      <4>1. i \in Int /\ j \in Int /\ Len(s) \in Int /\ 0 < i /\ j <= Len(s) /\ i + 1 < j
        BY <1>1, <2>4
      <4> HIDE <2>4
      <4> QED
        BY <4>1
    <3>2. Claim(s, call, trees, "or", i + 1, j - 1)
      BY <1>3, <3>1 DEF Kind
    <3>3. Peek(s, j) = ")" /\ ")" \notin Onward("or")
      BY <2>4, OnwardFacts DEF Peek, Kind
    <3>4. call[<<"or", i + 1>>] = Parsed(x, j)
      BY <2>4, <3>1, <3>2, <3>3 DEF Claim, Complete
    <3>5. "(" \notin DOMAIN Literal
      BY ExpressionsAssumption DEF Punctuation
    <3> QED
      BY <2>1, <2>4, <3>3, <3>4, <3>5, ParsedFields DEF Primary
  <2> QED
    BY <2>2, <2>3, <2>4, RulePrimary
<1>11. CASE kind = "field"
  <2>1. ASSUME i + 2 \in 1..Len(s) PROVE Complete(s, call, trees, "field", i + 2, j)
    <3>1. j - (i + 2) < j - i
      BY <1>1
    <3> QED
      BY <1>3, <2>1, <3>1 DEF Claim, Kind
  <2>2. Complete(s, call, trees, "field", i, j)
    BY <2>1, FieldComplete
  <2> QED
    BY <1>11, <2>2 DEF Claim
<1> QED
  BY <1>5, <1>6, <1>7, <1>8, <1>9, <1>10, <1>11 DEF Kind

LEMMA ParserComplete ==
  ASSUME NEW s \in Seq(Token), NEW call, NEW trees, CallsReturn(s, call), TreesDerived(s, trees),
         NEW kind \in Kind, NEW i \in 1..Len(s), NEW j \in 1..Len(s)
  PROVE  Complete(s, call, trees, kind, i, j)
<1> DEFINE T == {n \in Nat : \E m \in Kind, a \in 1..Len(s), b \in 1..Len(s) :
                   Size(s, m, a, b) = n /\ ~Claim(s, call, trees, m, a, b)}
<1>1. ASSUME T # {} PROVE FALSE
  <2>1. PICK n \in T : \A k \in T : n <= k
    BY <1>1, LeastNumber
  <2>2. PICK m \in Kind, a \in 1..Len(s), b \in 1..Len(s) :
          Size(s, m, a, b) = n /\ ~Claim(s, call, trees, m, a, b)
    BY <2>1
  <2>3. ASSUME NEW l \in Kind, NEW c \in 1..Len(s), NEW d \in 1..Len(s), Narrower(l, c, d, m, a, b)
        PROVE  Claim(s, call, trees, l, c, d)
    <3>1. Size(s, l, c, d) < Size(s, m, a, b)
      BY <2>3, SizeType
    <3>2. Size(s, l, c, d) \in 0..(14 * Len(s) + 6)
      BY SizeType
    <3>3. Size(s, m, a, b) \in 0..(14 * Len(s) + 6)
      BY SizeType
    <3>4. Size(s, l, c, d) \notin T /\ Size(s, l, c, d) \in Nat
      BY <2>1, <2>2, <3>1, <3>2, <3>3
    <3> QED
      BY <3>4
  <2>4. Claim(s, call, trees, m, a, b)
    BY <2>3, MethodComplete
  <2> QED
    BY <2>2, <2>4
<1>2. Size(s, kind, i, j) \in Nat
  <2>1. Size(s, kind, i, j) \in 0..(14 * Len(s) + 6)
    BY SizeType
  <2> QED
    BY <2>1
<1>3. Claim(s, call, trees, kind, i, j)
  BY <1>1, <1>2
<1> QED
  BY <1>3 DEF Claim

-----------------------------------------------------------------------------
(* What the grammar has are trees, with operands before their operators *)

LEMMA LeavesAreTrees ==
  /\ \A token \in DOMAIN Literal : IsTree(Constant(token))
  /\ \A path \in Seq(Field) \ {<<>>} : IsTree(Access(path))
<1>1. ASSUME NEW node \in LeafNode PROVE IsTree(<<node>>)
  <2>1. node \in Node /\ Leaf(node)
    BY <1>1 DEF Node, Leaf, LeafNode
  <2>2. <<node>> \in Seq(Node) /\ DOMAIN <<node>> = {1} /\ <<node>>[1] = node /\ <<node>> # <<>>
    BY <2>1
  <2> QED
    BY <2>1, <2>2 DEF IsTree
<1>2. ASSUME NEW token \in DOMAIN Literal PROVE IsTree(Constant(token))
  BY <1>1 DEF LeafNode, Constant
<1>3. ASSUME NEW path \in Seq(Field) \ {<<>>} PROVE IsTree(Access(path))
  BY <1>1 DEF LeafNode, Access
<1> QED
  BY <1>2, <1>3

\* What is asked of the node that stands at a place of a tree.
Stands(node, k) ==
  \/ Leaf(node)
  \/ node[1] = "not" /\ k > 1
  \/ node[1] # "not" /\ node[2] \in 1..(k - 2)

LEMMA TreesStand ==
  ASSUME NEW nodes
  PROVE  IsTree(nodes) <=>
           nodes \in Seq(Node) \ {<<>>} /\ \A k \in 1..Len(nodes) : Stands(nodes[k], k)
BY DEF IsTree, Stands

LEMMA NodesMove ==
  ASSUME NEW node, NEW k \in Nat, NEW m \in Nat, k <= m, Stands(node, k)
  PROVE  Stands(node, m)
BY DEF Stands

LEMMA NegatedTree ==
  ASSUME NEW x, IsTree(x)
  PROVE  IsTree(Negated(x))
<1> DEFINE y == Append(x, <<"not">>)
<1>1. x \in Seq(Node) \ {<<>>} /\ Len(x) \in Nat /\ Len(x) > 0
  BY DEF IsTree
<1>2. <<"not">> \in Node
  BY DEF Node
<1>3. y \in Seq(Node) \ {<<>>} /\ Len(y) = Len(x) + 1
  BY <1>1, <1>2
<1>4. ASSUME NEW k \in 1..Len(y) PROVE Stands(y[k], k)
  <2>1. CASE k <= Len(x)
    <3>1. y[k] = x[k] /\ k \in 1..Len(x)
      BY <1>1, <1>3, <2>1
    <3> QED
      BY <3>1, TreesStand
  <2>2. CASE k = Len(x) + 1
    <3>1. y[k] = <<"not">> /\ k > 1
      BY <1>1, <2>2
    <3> QED
      BY <3>1 DEF Stands
  <2> QED
    BY <1>1, <1>3, <2>1, <2>2
<1>5. IsTree(y)
  <2> HIDE DEF y
  <2> QED
    BY <1>3, <1>4, TreesStand
<1> QED
  BY <1>5 DEF Negated

LEMMA JoinedTree ==
  ASSUME NEW l, IsTree(l), NEW r, IsTree(r), NEW op \in CompOp \cup {"and", "or", "contains"}
  PROVE  IsTree(Joined(op, l, r))
<1> DEFINE last == <<op, Len(r)>>
<1> DEFINE y == Append(l \o r, last)
<1>1. /\ l \in Seq(Node) /\ Len(l) \in Nat /\ Len(l) > 0
      /\ r \in Seq(Node) /\ Len(r) \in Nat /\ Len(r) > 0
  BY DEF IsTree
<1>2. last \in Node /\ last[1] # "not" /\ last[2] = Len(r)
  BY <1>1, EvaluatorAssumption DEF Node, BinaryNode
<1> HIDE DEF last
<1>3. l \o r \in Seq(Node) /\ Len(l \o r) = Len(l) + Len(r)
  BY <1>1
<1>4. y \in Seq(Node) \ {<<>>} /\ Len(y) = Len(l) + Len(r) + 1
  BY <1>1, <1>2, <1>3
<1>5. ASSUME NEW k \in 1..Len(y) PROVE Stands(y[k], k)
  <2>0. k \in Nat
    BY <1>1, <1>4
  <2>1. CASE k <= Len(l)
    <3>1. y[k] = l[k] /\ k \in 1..Len(l)
      BY <1>1, <1>3, <2>1
    <3> QED
      BY <3>1, TreesStand
  <2>2. CASE Len(l) < k /\ k <= Len(l) + Len(r)
    <3>1. y[k] = r[k - Len(l)] /\ k - Len(l) \in 1..Len(r) /\ k - Len(l) \in Nat /\ k - Len(l) <= k
      BY <1>1, <1>3, <2>0, <2>2
    <3>2. Stands(r[k - Len(l)], k - Len(l))
      BY <3>1, TreesStand
    <3> QED
      BY <2>0, <3>1, <3>2, NodesMove
  <2>3. CASE k = Len(l) + Len(r) + 1
    <3>1. y[k] = last
      BY <1>1, <1>3, <2>3
    <3>2. Len(r) \in 1..(k - 2)
      BY <1>1, <2>3
    <3> QED
      BY <1>2, <3>1, <3>2 DEF Stands
  <2> QED
    BY <1>1, <1>4, <2>1, <2>2, <2>3
<1>6. IsTree(y)
  <2> HIDE DEF y
  <2> QED
    BY <1>4, <1>5, TreesStand
<1> QED
  BY <1>6 DEF Joined, last

LEMMA PathOfFields ==
  ASSUME NEW s, NEW i, NEW j, NEW n \in Nat \ {0}, Names(s, i, j, n)
  PROVE  Path(s, i, n) \in Seq(Field) \ {<<>>}
<1> DEFINE path == [k \in 1..n |-> s[i + 2 * k - 2]]
<1>1. path \in [1..n -> Field]
  BY DEF Names
<1>2. path \in Seq(Field) /\ Len(path) = n
  <2> HIDE DEF path
  <2> QED
    BY <1>1
<1> HIDE DEF path
<1>3. path # <<>>
  BY <1>2
<1> QED
  BY <1>2, <1>3 DEF Path, path

AllTrees(trees, kind, i, j) == \A x \in trees[<<kind, i, j>>] : IsTree(x)

LEMMA SplitTrees ==
  ASSUME NEW s \in Seq(Token), NEW trees, NEW i \in 1..Len(s), NEW j \in 1..Len(s), NEW l, NEW r,
         NEW ops, NEW x,
         ops \subseteq CompOp \cup {"and", "or", "contains"},
         \A k \in (i + 1)..(j - 1) : AllTrees(trees, l, i, k - 1) /\ AllTrees(trees, r, k + 1, j),
         x \in Split(trees, s, i, j, ops, l, r)
  PROVE  IsTree(x)
<1>1. PICK k \in (i + 1)..(j - 1) :
        s[k] \in ops /\ x \in AllJoined(s[k], trees[<<l, i, k - 1>>], trees[<<r, k + 1, j>>])
  BY SplitMember
<1>2. PICK a \in trees[<<l, i, k - 1>>], b \in trees[<<r, k + 1, j>>] : x = Joined(s[k], a, b)
  BY <1>1, JoinedMember
<1>3. IsTree(a) /\ IsTree(b)
  BY <1>1, <1>2 DEF AllTrees
<1> QED
  BY <1>1, <1>2, <1>3, JoinedTree

LEMMA RuleTrees ==
  ASSUME NEW s \in Seq(Token), NEW trees, TreesDerived(s, trees),
         NEW kind \in Kind, NEW i \in 1..Len(s), NEW j \in 1..Len(s),
         \A m \in Kind, a \in 1..Len(s), b \in 1..Len(s) :
           Narrower(m, a, b, kind, i, j) => AllTrees(trees, m, a, b)
  PROVE  AllTrees(trees, kind, i, j)
<1>0. Len(s) \in Nat
  OBVIOUS
<1>1. ASSUME NEW m \in Kind, Rank(m) < Rank(kind)
      PROVE  AllTrees(trees, m, i, j)
  BY <1>1 DEF Narrower
<1>2. ASSUME NEW m \in Kind, NEW a \in 1..Len(s), NEW b \in 1..Len(s), b - a < j - i
      PROVE  AllTrees(trees, m, a, b)
  BY <1>2 DEF Narrower
<1>3. ASSUME NEW m \in Kind, NEW n \in Kind
      PROVE  \A k \in (i + 1)..(j - 1) : AllTrees(trees, m, i, k - 1) /\ AllTrees(trees, n, k + 1, j)
  <2> SUFFICES ASSUME NEW k \in (i + 1)..(j - 1)
               PROVE  AllTrees(trees, m, i, k - 1) /\ AllTrees(trees, n, k + 1, j)
    OBVIOUS
  <2>1. /\ k - 1 \in 1..Len(s) /\ (k - 1) - i < j - i
        /\ k + 1 \in 1..Len(s) /\ j - (k + 1) < j - i
    BY <1>0
  <2> QED
    BY <1>2, <2>1
<1> SUFFICES ASSUME NEW x \in trees[<<kind, i, j>>] PROVE IsTree(x)
  BY DEF AllTrees
<1>4. CASE kind = "or"
  <2>1. CASE x \in trees[<<"and", i, j>>]
    <3>1. AllTrees(trees, "and", i, j)
      BY <1>1, <1>4 DEF Kind, Rank
    <3> QED
      BY <2>1, <3>1 DEF AllTrees
  <2>2. CASE x \in Split(trees, s, i, j, {"or"}, "or", "and")
    <3>1. \A k \in (i + 1)..(j - 1) : AllTrees(trees, "or", i, k - 1) /\ AllTrees(trees, "and", k + 1, j)
      BY <1>3 DEF Kind
    <3>2. {"or"} \subseteq CompOp \cup {"and", "or", "contains"}
      OBVIOUS
    <3> QED
      BY <2>2, <3>1, <3>2, SplitTrees
  <2> QED
    BY <1>4, <2>1, <2>2, RuleOr
<1>5. CASE kind = "and"
  <2>1. CASE x \in trees[<<"not", i, j>>]
    <3>1. AllTrees(trees, "not", i, j)
      BY <1>1, <1>5 DEF Kind, Rank
    <3> QED
      BY <2>1, <3>1 DEF AllTrees
  <2>2. CASE x \in Split(trees, s, i, j, {"and"}, "and", "not")
    <3>1. \A k \in (i + 1)..(j - 1) : AllTrees(trees, "and", i, k - 1) /\ AllTrees(trees, "not", k + 1, j)
      BY <1>3 DEF Kind
    <3>2. {"and"} \subseteq CompOp \cup {"and", "or", "contains"}
      OBVIOUS
    <3> QED
      BY <2>2, <3>1, <3>2, SplitTrees
  <2> QED
    BY <1>5, <2>1, <2>2, RuleAnd
<1>6. CASE kind = "not"
  <2>1. CASE x \in trees[<<"comparison", i, j>>]
    <3>1. AllTrees(trees, "comparison", i, j)
      BY <1>1, <1>6 DEF Kind, Rank
    <3> QED
      BY <2>1, <3>1 DEF AllTrees
  <2>2. CASE i < j /\ s[i] = "not" /\ \E a \in trees[<<"not", i + 1, j>>] : x = Negated(a)
    <3>1. i + 1 \in 1..Len(s) /\ j - (i + 1) < j - i
      BY <1>0, <2>2
    <3>2. AllTrees(trees, "not", i + 1, j)
      BY <1>2, <3>1 DEF Kind
    <3>3. PICK a \in trees[<<"not", i + 1, j>>] : x = Negated(a)
      BY <2>2
    <3>4. IsTree(a)
      BY <3>2 DEF AllTrees
    <3> QED
      BY <3>3, <3>4, NegatedTree
  <2> QED
    BY <1>6, <2>1, <2>2, RuleNot
<1>7. CASE kind = "comparison"
  <2>1. CASE x \in trees[<<"contains", i, j>>]
    <3>1. AllTrees(trees, "contains", i, j)
      BY <1>1, <1>7 DEF Kind, Rank
    <3> QED
      BY <2>1, <3>1 DEF AllTrees
  <2>2. CASE x \in Split(trees, s, i, j, CompOp, "contains", "contains")
    <3>1. \A k \in (i + 1)..(j - 1) :
            AllTrees(trees, "contains", i, k - 1) /\ AllTrees(trees, "contains", k + 1, j)
      BY <1>3 DEF Kind
    <3>2. CompOp \subseteq CompOp \cup {"and", "or", "contains"}
      OBVIOUS
    <3> QED
      BY <2>2, <3>1, <3>2, SplitTrees
  <2> QED
    BY <1>7, <2>1, <2>2, RuleComparison
<1>8. CASE kind = "contains"
  <2>1. CASE x \in trees[<<"primary", i, j>>]
    <3>1. AllTrees(trees, "primary", i, j)
      BY <1>1, <1>8 DEF Kind, Rank
    <3> QED
      BY <2>1, <3>1 DEF AllTrees
  <2>2. CASE x \in Split(trees, s, i, j, {"contains"}, "primary", "primary")
    <3>1. \A k \in (i + 1)..(j - 1) :
            AllTrees(trees, "primary", i, k - 1) /\ AllTrees(trees, "primary", k + 1, j)
      BY <1>3 DEF Kind
    <3>2. {"contains"} \subseteq CompOp \cup {"and", "or", "contains"}
      OBVIOUS
    <3> QED
      BY <2>2, <3>1, <3>2, SplitTrees
  <2> QED
    BY <1>8, <2>1, <2>2, RuleContains
<1>9. CASE kind = "primary"
  <2>1. CASE i = j /\ s[i] \in DOMAIN Literal /\ x = Constant(s[i])
    BY <2>1, LeavesAreTrees
  <2>2. CASE x \in trees[<<"field", i, j>>]
    <3>1. AllTrees(trees, "field", i, j)
      BY <1>1, <1>9 DEF Kind, Rank
    <3> QED
      BY <2>2, <3>1 DEF AllTrees
  <2>3. CASE i + 1 < j /\ s[i] = "(" /\ s[j] = ")" /\ x \in trees[<<"or", i + 1, j - 1>>]
    <3>1. i + 1 \in 1..Len(s) /\ j - 1 \in 1..Len(s) /\ (j - 1) - (i + 1) < j - i
      BY <1>0, <2>3
    <3>2. AllTrees(trees, "or", i + 1, j - 1)
      BY <1>2, <3>1 DEF Kind
    <3> QED
      BY <2>3, <3>2 DEF AllTrees
  <2> QED
    BY <1>9, <2>1, <2>2, <2>3, RulePrimary
<1>10. CASE kind = "field"
  <2>1. PICK n \in 1..Len(s) : Names(s, i, j, n) /\ x = Access(Path(s, i, n))
    BY <1>10, RuleField
  <2>2. n \in Nat \ {0}
    BY <1>0
  <2>3. Path(s, i, n) \in Seq(Field) \ {<<>>}
    BY <2>1, <2>2, PathOfFields
  <2> QED
    BY <2>1, <2>3, LeavesAreTrees
<1> QED
  BY <1>4, <1>5, <1>6, <1>7, <1>8, <1>9, <1>10 DEF Kind

LEMMA GrammarHasTrees ==
  ASSUME NEW s \in Seq(Token), NEW trees, TreesDerived(s, trees),
         NEW kind \in Kind, NEW i \in 1..Len(s), NEW j \in 1..Len(s)
  PROVE  AllTrees(trees, kind, i, j)
<1> DEFINE T == {n \in Nat : \E m \in Kind, a \in 1..Len(s), b \in 1..Len(s) :
                   Size(s, m, a, b) = n /\ ~AllTrees(trees, m, a, b)}
<1>1. ASSUME T # {} PROVE FALSE
  <2>1. PICK n \in T : \A k \in T : n <= k
    BY <1>1, LeastNumber
  <2>2. PICK m \in Kind, a \in 1..Len(s), b \in 1..Len(s) :
          Size(s, m, a, b) = n /\ ~AllTrees(trees, m, a, b)
    BY <2>1
  <2>3. ASSUME NEW l \in Kind, NEW c \in 1..Len(s), NEW d \in 1..Len(s), Narrower(l, c, d, m, a, b)
        PROVE  AllTrees(trees, l, c, d)
    <3>1. Size(s, l, c, d) < Size(s, m, a, b)
      BY <2>3, SizeType
    <3>2. Size(s, l, c, d) \in 0..(14 * Len(s) + 6)
      BY SizeType
    <3>3. Size(s, m, a, b) \in 0..(14 * Len(s) + 6)
      BY SizeType
    <3>4. Size(s, l, c, d) \notin T /\ Size(s, l, c, d) \in Nat
      BY <2>1, <2>2, <3>1, <3>2, <3>3
    <3> QED
      BY <3>4
  <2>4. AllTrees(trees, m, a, b)
    BY <2>3, RuleTrees
  <2> QED
    BY <2>2, <2>4
<1>2. Size(s, kind, i, j) \in Nat
  <2>1. Size(s, kind, i, j) \in 0..(14 * Len(s) + 6)
    BY SizeType
  <2> QED
    BY <2>1
<1> QED
  BY <1>1, <1>2

-----------------------------------------------------------------------------
(* parse_expression *)

LEMMA ParseReads ==
  ASSUME NEW s \in Seq(Token)
  PROVE  /\ Derive(s) = IF Parse(s).ok THEN {Parse(s).nodes} ELSE {}
         /\ Parse(s).ok => IsTree(Parse(s).nodes)
<1> DEFINE N == Len(s)
<1> DEFINE call == Calls(s)
<1> DEFINE trees == Trees(s)
<1> DEFINE result == call[<<"or", 1>>]
<1>1. CallsReturn(s, call) /\ TreesDerived(s, trees)
  BY CallsOfMethods, TreesOfRules
<1>2. N \in Nat /\ 1 \in 1..(N + 1) /\ "or" \in Kind
  BY DEF Kind
<1>3. Parse(s) = IF result.ok /\ result.at <= N THEN Unexpected(result.at) ELSE result
  BY DEF Parse
<1> HIDE DEF N, call, trees
<1>4. result.ok => result.at \in 2..(N + 1)
  BY <1>1, <1>2 DEF CallsReturn, Forward, N
<1>5. Parse(s).ok <=> result.ok /\ result.at = N + 1
  BY <1>2, <1>3, <1>4, ParsedFields
<1>6. Parse(s).ok => Parse(s) = result
  BY <1>3, ParsedFields
<1>7. CASE s = <<>>
  <2>1. N = 0
    BY <1>7 DEF N
  <2>2. ~Parse(s).ok
    BY <1>4, <1>5, <2>1
  <2> QED
    BY <1>7, <2>2 DEF Derive
<1>8. CASE s # <<>>
  <2>1. 1 \in 1..N /\ N \in 1..N /\ (N + 1) - 1 = N
    BY <1>2, <1>8 DEF N
  <2>2. Derive(s) = trees[<<"or", 1, N>>]
    BY <1>8 DEF Derive, trees, N
  <2>3. ASSUME Parse(s).ok
        PROVE  Parse(s).nodes \in trees[<<"or", 1, N>>]
    <3>1. Sound(s, call, trees, "or", 1)
      BY <1>1, <1>2, ParserSound DEF N
    <3> QED
      BY <1>5, <1>6, <2>1, <2>3, <3>1 DEF Sound
  <2>4. ASSUME NEW x \in trees[<<"or", 1, N>>]
        PROVE  Parse(s).ok /\ Parse(s).nodes = x
    <3>1. Complete(s, call, trees, "or", 1, N)
      BY <1>1, <1>2, <2>1, ParserComplete DEF N
    <3>2. Peek(s, N + 1) \notin Onward("or")
      <4>1. Peek(s, N + 1) = "EOF"
        BY <1>2 DEF Peek, N
      <4> QED
        BY <1>2, <4>1, OnwardFacts
    <3>3. result = Parsed(x, N + 1)
      BY <3>1, <3>2 DEF Complete
    <3>4. result.ok /\ result.at = N + 1 /\ result.nodes = x
      BY <3>3, ParsedFields
    <3> QED
      BY <1>5, <1>6, <3>4
  <2>5. AllTrees(trees, "or", 1, N)
    BY <1>1, <1>2, <2>1, GrammarHasTrees DEF N
  <2>6. Derive(s) = IF Parse(s).ok THEN {Parse(s).nodes} ELSE {}
    <3>1. CASE Parse(s).ok
      BY <2>2, <2>3, <2>4, <3>1
    <3>2. CASE ~Parse(s).ok
      BY <2>2, <2>4, <3>2
    <3> QED
      BY <3>1, <3>2
  <2> QED
    BY <2>3, <2>5, <2>6 DEF AllTrees
<1> QED
  BY <1>7, <1>8

-----------------------------------------------------------------------------

\* What TLC's runs hold by evaluation: only tokens are typed, and what the
\* parser returned is what it returns for them.
Read == tokens \in Seq(Token) /\ parsed = Parse(tokens)

LEMMA ReadInvariant == Spec => []Read
<1>1. Init => Read
  BY DEF Init, Read
<1>2. Read /\ [Next]_<<tokens, parsed>> => Read'
  <2> SUFFICES ASSUME Read, [Next]_<<tokens, parsed>> PROVE Read'
    OBVIOUS
  <2>1. ASSUME NEW t \in Token, Type(t) PROVE Read'
    BY <2>1 DEF Read, Type
  <2>2. CASE UNCHANGED <<tokens, parsed>>
    BY <2>2 DEF Read
  <2> QED
    BY <2>1, <2>2 DEF Next
<1> QED
  BY <1>1, <1>2, PTL DEF Spec

\* parse_expression reads the grammar of its docstring, and nothing else, in
\* the one way that the grammar allows, whatever expression is written.
THEOREM ParserReads == Spec => []ParserReadsGrammar
<1>1. Read => ParserReadsGrammar
  BY ParseReads DEF Read, ParserReadsGrammar, ParsesToTree
<1> QED
  BY <1>1, ReadInvariant, PTL

\* A condition without "not" that has been parsed is never true because a
\* field is missing from the interrupt's payload.
THEOREM MissingHides == Spec => []MissingOnlyHides
<1>1. Read => MissingOnlyHides
  BY ParseReads, MissingFieldsOnlyHide DEF Read, ParsesToTree
<1> QED
  BY <1>1, ReadInvariant, PTL

=============================================================================
