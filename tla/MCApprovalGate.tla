---------------------------- MODULE MCApprovalGate ----------------------------
(* Instances of ApprovalGate for TLC. *)
EXTENDS ApprovalGate, TLC

\* Rows and decide calls are interchangeable.
Symmetry == Permutations(Approval) \cup Permutations(Request)

=============================================================================
