----------------------------- MODULE GatePromise -----------------------------
(***************************************************************************)
(* What @approval_gate promises to the graph it guards, without rows,      *)
(* workers, polls and acknowledgements: a gate opens with an answer that   *)
(* somebody it asked has given, or if it need not ask anybody; it never    *)
(* opens for any other reason, changes its answer, or opens after it has   *)
(* raised.  ApprovalGate is shown to implement this.                       *)
(***************************************************************************)
CONSTANTS Gate, Answer, AutoApproval, NoAnswer

VARIABLES asked,    \* gates whose question was put to people
          answers,  \* what they have answered so far
          gate,     \* "none", "waiting", "answered", then "resumed" or "raised"
          outcome   \* the answer the gate goes on with

vars == <<asked, answers, gate, outcome>>

Init ==
  /\ asked = {}
  /\ answers = [g \in Gate |-> {}]
  /\ gate = [g \in Gate |-> "none"]
  /\ outcome = [g \in Gate |-> NoAnswer]

\* The question is put, or its asker gone before it learns that it was.
Ask(g) ==
  /\ gate[g] = "none" /\ g \notin asked
  /\ asked' = asked \cup {g}
  /\ \E next \in {"waiting", "raised"} : gate' = [gate EXCEPT ![g] = next]
  /\ UNCHANGED <<answers, outcome>>

\* Nobody has to be asked.
OpenUnasked(g) ==
  /\ gate[g] = "none" /\ g \notin asked
  /\ \/ gate' = [gate EXCEPT ![g] = "resumed"] /\ outcome' = [outcome EXCEPT ![g] = AutoApproval]
     \/ gate' = [gate EXCEPT ![g] = "raised"] /\ UNCHANGED outcome
  /\ UNCHANGED <<asked, answers>>

SomebodyAnswers(g, x) ==
  /\ g \in asked
  /\ answers' = [answers EXCEPT ![g] = @ \cup {x}]
  /\ UNCHANGED <<asked, gate, outcome>>

Learn(g) ==
  /\ gate[g] = "waiting"
  /\ \E x \in answers[g] : outcome' = [outcome EXCEPT ![g] = x]
  /\ gate' = [gate EXCEPT ![g] = "answered"]
  /\ UNCHANGED <<asked, answers>>

Resume(g) ==
  /\ gate[g] = "answered"
  /\ gate' = [gate EXCEPT ![g] = "resumed"]
  /\ UNCHANGED <<asked, answers, outcome>>

Raise(g) ==
  /\ gate[g] \in {"waiting", "answered"}
  /\ gate' = [gate EXCEPT ![g] = "raised"]
  /\ UNCHANGED <<asked, answers, outcome>>

Next ==
  \E g \in Gate :
    \/ Ask(g) \/ OpenUnasked(g) \/ Learn(g) \/ Resume(g) \/ Raise(g)
    \/ \E x \in Answer : SomebodyAnswers(g, x)

Spec == Init /\ [][Next]_vars

=============================================================================
