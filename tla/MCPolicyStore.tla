---------------------------- MODULE MCPolicyStore ----------------------------
(* Instances of PolicyStore for TLC. *)
EXTENDS PolicyStore, TLC

\* Keys are interchangeable, and so are calls with like definitions.
Symmetry ==
  Permutations(Key) \cup Permutations(Loadable) \cup Permutations(Call \ Loadable)

=============================================================================
