------------------------------- MODULE Handover -------------------------------
(***************************************************************************)
(* What the approval rows of the server promise together, without          *)
(* transactions, locks, workers and stale reads: a question is asked, may  *)
(* be handed over to somebody else a bounded number of times, is closed,   *)
(* and never opens again.  Approvals is shown to implement this.           *)
(***************************************************************************)
EXTENDS Integers

CONSTANTS Approval, MaxDepth

VARIABLES open,    \* questions that wait for an answer
          closed,  \* questions that no longer do
          hops     \* how often a question was handed over before it came here

vars == <<open, closed, hops>>

Init ==
  /\ open = {}
  /\ closed = {}
  /\ hops = [a \in Approval |-> 0]

Ask(S) ==
  /\ S \cap (open \cup closed) = {}
  /\ open' = open \cup S
  /\ UNCHANGED <<closed, hops>>

Close(S) ==
  /\ S \subseteq open
  /\ open' = open \ S
  /\ closed' = closed \cup S
  /\ UNCHANGED hops

HandOver(a, b) ==
  /\ a \in open
  /\ hops[a] < MaxDepth
  /\ b \notin open \cup closed
  /\ open' = (open \ {a}) \cup {b}
  /\ closed' = closed \cup {a}
  /\ hops' = [hops EXCEPT ![b] = hops[a] + 1]

Next ==
  \/ \E S \in SUBSET Approval : Ask(S) \/ Close(S)
  \/ \E a, b \in Approval : HandOver(a, b)

Spec == Init /\ [][Next]_vars

=============================================================================
