---------------------------- MODULE MCApprovals ----------------------------
(* Instances of Approvals for TLC. *)
EXTENDS Approvals, TLC

\* The ids of a kind are interchangeable.
Symmetry == Permutations(Approval) \cup Permutations(Request) \cup Permutations(Worker)

=============================================================================
