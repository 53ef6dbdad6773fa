----------------------------- MODULE MCEscalation -----------------------------
(* An instance of Escalation, and with it of Routing and Directory, for TLC. *)
EXTENDS Escalation, TLC

CONSTANTS ann, bob, ops, i1, i2, e1

\* ann and bob are ops; a group of ann alone has bob's id.
TheFile ==
  [approvers |-> [a \in Approver |-> e1],
   groups |-> [g \in Group |-> IF g = ops THEN {ann, bob} ELSE {ann}]]

Asks(when, refs, escalateTo) ==
  [when |-> when, action |-> "request_human", mode |-> "any_of", refs |-> refs,
   escalateTo |-> escalateTo]

\* By the first policy i1 is decided by the first rule and would match the
\* second, and for i2 the first does not hold.  The second policy can decide
\* either: it asks another approver for i1, and nobody for i2.
TheFilePolicies ==
  <<[matches |-> {i1, i2},
     rules |-> <<[Asks({i1}, {ops}, bob) EXCEPT !.mode = "all_of"],
                 Asks({i1, i2}, {bob}, ops)>>],
    [matches |-> {i1, i2},
     rules |-> <<[Asks({i2}, {}, Absent) EXCEPT !.action = "auto_approve"],
                 Asks({i1}, {ann}, ann)>>]>>

Loads(p) ==
  [matches |-> p.matches, rules |-> [k \in DOMAIN p.rules |-> Base(p.rules[k])]]

\* The server has all policies, or the first was deleted.
ThePolicySets ==
  {{Loads(TheFilePolicies[n]) : n \in {1, 2}}, {Loads(TheFilePolicies[2])}}

\* What one interrupt asks, and whom its rows are handed to, depends on no
\* other: of the two, one is submitted.
OneInterrupt ==
  \A i, j \in Interrupt : fate[i] # "new" /\ fate[j] # "new" => i = j

Symmetry == Permutations(Call)

=============================================================================
