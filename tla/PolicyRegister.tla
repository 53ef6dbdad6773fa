--------------------------- MODULE PolicyRegister ---------------------------
(***************************************************************************)
(* What the table of a policy and its history promise together, without    *)
(* keys, transactions, seeding and restarts: a register of versions with   *)
(* an audit trail.  A change replaces some version the policy had, not     *)
(* always the last, by a definition it never had, and leaves the replaced  *)
(* version in the trail.  Changes that are made in turn replace the last,  *)
(* and the trail has the last Depth of those before.  PolicyStore is shown *)
(* to implement this.                                                      *)
(***************************************************************************)
EXTENDS Integers

CONSTANTS Definition, NoDefinition, Depth

VARIABLES state,       \* "absent", then "active", then "deleted"
          version, definition,
          past,        \* what it was: pairs of a version and its definition
          trail        \* what an auditor finds of that

vars == <<state, version, definition, past, trail>>

Init ==
  /\ state = "absent"
  /\ version = 0 /\ definition = NoDefinition
  /\ past = {} /\ trail = {}

Install(d) ==
  /\ state = "absent"
  /\ state' = "active"
  /\ version' = 1 /\ definition' = d
  /\ past' = {<<1, d>>}
  /\ trail' \subseteq past'

Change(base, d) ==
  /\ state # "absent"
  /\ base \in past
  /\ \A p \in past : p[2] # d
  /\ version' = base[1] + 1 /\ definition' = d
  /\ past' = past \cup {<<base[1] + 1, d>>}
  /\ trail' \subseteq trail \cup {base}
  /\ UNCHANGED state

Retire ==
  /\ state # "absent"
  /\ state' = "deleted"
  /\ UNCHANGED <<version, definition, past, trail>>

Next ==
  \/ Retire
  \/ \E d \in Definition : Install(d) \/ \E base \in past : Change(base, d)

ChangeInTurn(d) ==
  /\ Change(<<version, definition>>, d)
  /\ \A p \in past : p[1] \in (version' - Depth)..(version' - 1) => p \in trail'

NextInTurn == Retire \/ \E d \in Definition : Install(d) \/ ChangeInTurn(d)

Spec == Init /\ [][Next]_vars

SpecInTurn == Init /\ [][NextInTurn]_vars

=============================================================================
