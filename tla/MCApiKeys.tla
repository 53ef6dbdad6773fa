------------------------------- MODULE MCApiKeys -------------------------------
(* Instances of ApiKeys for TLC. *)
EXTENDS ApiKeys, TLC

\* For the run of safety properties.
Symmetry == Permutations(Key) \cup Permutations(Server) \cup Permutations(Call)

Admin == {"api_keys:write", "policies:write", "interrupts:write"}

\* admin, and an agent's key.
TheScopeSets == {Admin, {"interrupts:write"}}

=============================================================================
