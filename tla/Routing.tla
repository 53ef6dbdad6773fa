------------------------------- MODULE Routing -------------------------------
(***************************************************************************)
(* Whom an interrupt asks: POST /interrupts (api/routes/interrupts.py)     *)
(* evaluates the policies (policy/engine.py) over the server's copy of the *)
(* directory, and commits the approval rows in a transaction after that,   *)
(* while administrators go on changing approvers and groups.               *)
(*                                                                         *)
(* What an expression says of an interrupt is a set of interrupts here; a  *)
(* rule whose expression raises is skipped, and so like one that is false. *)
(* (Expressions has the expressions themselves, PolicyStore the changes of *)
(* policies; here each interrupt meets any of the lists there may be.)     *)
(* Notification and the ledger are not part of this module.                *)
(***************************************************************************)
EXTENDS Directory, Sequences

CONSTANTS Interrupt,
          PolicySets,       \* what the list of loaded policies may be
          DefaultApprover   \* the id "default_approver"

Ref == Approver \cup Group

Rule == [when : SUBSET Interrupt, action : {"auto_approve", "request_human"},
         mode : {"any_of", "all_of"}, refs : SUBSET Ref]

ASSUME RoutingAssumption ==
  /\ DefaultApprover \notin Ref
  /\ \A loaded \in PolicySets : \A p \in loaded :
       p.matches \subseteq Interrupt /\ p.rules \in Seq(Rule)

VARIABLES
  fate,     \* how far the submission of each interrupt is
  rule,     \* the rule it matched
  people,   \* plan.approvers: ids and addresses
  asked     \* the approver_id of its approval rows

submissions == <<fate, rule, people, asked>>
vars == <<directoryVars, submissions>>

Person == (Approver \cup {DefaultApprover}) \X (Email \cup {DefaultApprover})

\* The plan of the fallback: any_of, one approver who is in no table.
DefaultRule ==
  [when |-> {}, action |-> "request_human", mode |-> "any_of", refs |-> {}]

RoutingTypeOK ==
  /\ DirectoryTypeOK
  /\ fate \in [Interrupt -> {"new", "planned", "asked", "auto_approved", "refused", "failed"}]
  /\ rule \in [Interrupt -> Rule]
  /\ people \in [Interrupt -> SUBSET Person]
  /\ asked \in [Interrupt -> SUBSET (Approver \cup {DefaultApprover})]

Init ==
  /\ DirectoryInit
  /\ fate = [i \in Interrupt |-> "new"]
  /\ rule = [i \in Interrupt |-> DefaultRule]
  /\ people = [i \in Interrupt |-> {}]
  /\ asked = [i \in Interrupt |-> {}]

-----------------------------------------------------------------------------

(* PolicyEngine.evaluate *)

\* The first rule, top to bottom, of a policy whose matches block fits.
FirstRule(p, i) ==
  {p.rules[k] : k \in {l \in DOMAIN p.rules :
     /\ i \in p.matches /\ i \in p.rules[l].when
     /\ \A h \in 1..(l - 1) : i \notin p.rules[h].when}}

\* The first of the policies that has such a rule decides, and any can be the
\* first: they are loaded by a SELECT without ORDER BY, and an UPDATE of a
\* policy's row moves it.
RulesFor(loaded, i) == UNION {FirstRule(p, i) : p \in loaded}

(* ApproverDirectory.resolve *)

KnownApprovers == {a \in Approver : copy.approvers[a] # Absent}

KnownGroups == {g \in Group : copy.groups[g] # Absent}

FaultySkipsUnknown(ref) == ref \in KnownApprovers \cup KnownGroups

\* An unknown id raises ApproverNotFoundError, an unknown member KeyError.
Resolvable(ref) ==
  \/ ref \in KnownApprovers
  \/ ref \in KnownGroups /\ copy.groups[ref] \subseteq KnownApprovers

FaultyGroupsFirst(ref) ==
  {<<a, copy.approvers[a]>> : a \in IF ref \in KnownGroups THEN copy.groups[ref] ELSE {ref}}

\* An approver goes before a group of the same id.  (Of what is Resolvable,
\* all members are known.)
Resolve(ref) ==
  {<<a, copy.approvers[a]>> : a \in
     (IF ref \in KnownApprovers THEN {ref} ELSE copy.groups[ref]) \cap KnownApprovers}

(* submit_interrupt *)

Plan(i, r, them) ==
  /\ fate' = [fate EXCEPT ![i] = "planned"]
  /\ rule' = [rule EXCEPT ![i] = r]
  /\ people' = [people EXCEPT ![i] = them]

\* evaluate and _build_plan run without an await, on one copy.
Evaluate(i) ==
  /\ server = "up"
  /\ fate[i] = "new"
  /\ \E loaded \in PolicySets : \E r \in RulesFor(loaded, i) :
       /\ r.action = "request_human" => \A ref \in r.refs : Resolvable(ref)
       /\ Plan(i, r, IF r.action = "request_human"
                     THEN UNION {Resolve(ref) : ref \in r.refs} ELSE {})
  /\ UNCHANGED <<directoryVars, asked>>

\* Only NoMatchingPolicyError falls back; without a default it is a 400.
FallBack(i) ==
  /\ server = "up"
  /\ fate[i] = "new"
  /\ \E loaded \in PolicySets : RulesFor(loaded, i) = {}
  /\ HasDefault
  /\ Plan(i, DefaultRule, {<<DefaultApprover, DefaultApprover>>})
  /\ UNCHANGED <<directoryVars, asked>>

\* An error of evaluation is not caught: a 500.
RefuseInterrupt(i) ==
  /\ server = "up"
  /\ fate[i] = "new"
  /\ \E loaded \in PolicySets :
       \/ RulesFor(loaded, i) = {} /\ ~HasDefault
       \/ \E r \in RulesFor(loaded, i) :
            r.action = "request_human" /\ \E ref \in r.refs : ~Resolvable(ref)
  /\ fate' = [fate EXCEPT ![i] = "refused"]
  /\ UNCHANGED <<directoryVars, rule, people, asked>>

Ids(them) == {p[1] : p \in them}

\* any_of has one row, for the first approver of the plan (refs and members
\* have no order here); all_of has one for each.
RowsFor(i) ==
  IF rule[i].mode = "any_of" THEN {{a} : a \in Ids(people[i])} ELSE {Ids(people[i])}

\* _handle_request_human and _handle_auto_approve commit.
Ask(i) ==
  /\ fate[i] = "planned"
  /\ \/ /\ rule[i].action = "auto_approve"
        /\ fate' = [fate EXCEPT ![i] = "auto_approved"]
        /\ UNCHANGED asked
     \/ /\ rule[i].action = "request_human"
        /\ people[i] # {}
        /\ fate' = [fate EXCEPT ![i] = "asked"]
        /\ \E rows \in RowsFor(i) : asked' = [asked EXCEPT ![i] = rows]
  /\ UNCHANGED <<directoryVars, rule, people>>

\* A statement fails, or the plan has no approvers (500).
Abandon(i) ==
  /\ fate[i] = "planned"
  /\ fate' = [fate EXCEPT ![i] = "failed"]
  /\ UNCHANGED <<directoryVars, rule, people, asked>>

\* When the process stops, what is not committed is lost.
Administer ==
  /\ DirectoryStep
  /\ fate' = [i \in Interrupt |->
                IF server' = "down" /\ fate[i] = "planned" THEN "failed" ELSE fate[i]]
  /\ UNCHANGED <<rule, people, asked>>

Next ==
  \/ Administer
  \/ \E i \in Interrupt : Evaluate(i) \/ FallBack(i) \/ RefuseInterrupt(i) \/ Ask(i) \/ Abandon(i)

Spec == Init /\ [][Next]_vars

-----------------------------------------------------------------------------

\* The ids that a reference of a rule means by the tables.
Named(ref) ==
  IF ref \in ActiveApprovers THEN {ref} ELSE groups[ref]

\* An interrupt that is planned between changes, while the last reload was not
\* overtaken, asks exactly the active approvers the tables name, by their
\* current addresses: nobody who was deactivated, nobody who left the group.
RoutesByTheTable ==
  [][\A i \in Interrupt :
       /\ fate[i] = "new" /\ fate'[i] = "planned"
       /\ rule'[i].action = "request_human" /\ rule'[i] # DefaultRule
       /\ ~stale /\ \A c \in Call : ~Reloading(c)
       => people'[i] = {<<a, approvers[a]>> : a \in UNION {Named(ref) : ref \in rule'[i].refs}}]_vars

\* A membership that a reference once had, or itself.
Meant(ref) == {{ref}} \cup {m \in Members : <<ref, m>> \in had}

\* However torn or old the copy is, an all_of interrupt never asks less than
\* its rule: of every group that a rule names it asks all of a membership the
\* group had, and it asks nobody that no such membership has.  A member that
\* is not known makes the interrupt fail and is not left out.
AsksWholeGroups ==
  \A i \in Interrupt : fate[i] = "asked" /\ rule[i].mode = "all_of" =>
    /\ \A ref \in rule[i].refs : \E m \in Meant(ref) : m \subseteq asked[i]
    /\ asked[i] \subseteq UNION UNION {Meant(ref) : ref \in rule[i].refs}

=============================================================================
