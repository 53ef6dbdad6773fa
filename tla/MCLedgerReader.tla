---------------------------- MODULE MCLedgerReader ----------------------------
(* Instances of LedgerReader for TLC. *)
EXTENDS LedgerReader, TLC

CONSTANTS s1, s2, w1

\* No filter, and a filter that leaves one entry out.
Selections == {{s1, s2, w1}, {s2, w1}}

=============================================================================
