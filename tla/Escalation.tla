------------------------------ MODULE Escalation ------------------------------
(***************************************************************************)
(* Whom a row is handed to that nobody answers in time.                    *)
(*                                                                         *)
(* The server asks by the tables (Routing).  The timeout worker            *)
(* (worker.py) is another process with an engine and a directory of its    *)
(* own, which init_policy_system (policy/__init__.py) fills from the YAML  *)
(* files when it starts, and nothing reloads.  It evaluates the interrupt  *)
(* again to learn what its policy says of a time-out.  Whether a row is    *)
(* still pending, how deep its chain is, the transaction, and rows that    *)
(* fail by timeout are in Approvals; here rows of an interrupt are handed  *)
(* over any number of times.                                               *)
(***************************************************************************)
EXTENDS Routing

CONSTANT FilePolicies   \* the policies of the files, in the order of their names

\* What a rule says beside what the server uses of it: the id to escalate to,
\* or Absent if on_timeout is not "escalate" or there is no such id.
FileRule ==
  [when : SUBSET Interrupt, action : {"auto_approve", "request_human"},
   mode : {"any_of", "all_of"}, refs : SUBSET Ref, escalateTo : {Absent} \cup Ref]

FilePolicy == [matches : SUBSET Interrupt, rules : Seq(FileRule)]

ASSUME EscalationAssumption == FilePolicies \in Seq(FilePolicy)

VARIABLES
  worker,           \* whether the worker process is up
  workerCopy,       \* its approver_directory
  workerPolicies,   \* its policy_engine
  heir              \* whom a row of an interrupt was escalated to last

memory == <<worker, workerCopy, workerPolicies>>
escalationVars == <<vars, memory, heir>>

EscalationTypeOK ==
  /\ RoutingTypeOK
  /\ worker \in {"down", "up"}
  /\ workerCopy \in Copy
  /\ workerPolicies \in {<<>>, FilePolicies}
  /\ heir \in [Interrupt -> {Absent} \cup Person]

EscalationInit ==
  /\ Init
  /\ worker = "down"
  /\ workerCopy = Nothing
  /\ workerPolicies = <<>>
  /\ heir = [i \in Interrupt |-> Absent]

-----------------------------------------------------------------------------

(* init_policy_system *)

\* What ApproverDirectory.load leaves behind.
LoadedDirectory == IF FileIsValid THEN File ELSE Nothing

Loaded == INSTANCE Routing WITH copy <- LoadedDirectory

\* load_policies resolves whom rules ask, not whom they escalate to.
PoliciesAreValid ==
  \A n \in DOMAIN FilePolicies : \A k \in DOMAIN FilePolicies[n].rules :
    \A ref \in FilePolicies[n].rules[k].refs : Loaded!Resolvable(ref)

\* Either load may raise, which the worker survives: what was not loaded is
\* missing.  Without a default approver the first error ends the function.
WorkerStart ==
  /\ worker = "down"
  /\ worker' = "up"
  /\ workerCopy' = LoadedDirectory
  /\ workerPolicies' =
       IF PoliciesAreValid /\ (FileIsValid \/ HasDefault) THEN FilePolicies ELSE <<>>
  /\ UNCHANGED <<vars, heir>>

WorkerStop ==
  /\ worker = "up"
  /\ worker' = "down"
  /\ workerCopy' = Nothing
  /\ workerPolicies' = <<>>
  /\ UNCHANGED <<vars, heir>>

(* _process_timed_out_approval *)

Worker == INSTANCE Routing WITH copy <- workerCopy

FaultyAnyOrder(i) ==
  UNION {FirstRule(workerPolicies[n], i) : n \in DOMAIN workerPolicies}

\* The rule that decides: of the first policy, by name, that has one.
RuleOfFiles(i) ==
  UNION {FirstRule(workerPolicies[n], i) : n \in
           {m \in DOMAIN workerPolicies :
              \A l \in 1..(m - 1) : FirstRule(workerPolicies[l], i) = {}}}

\* What evaluate raises is caught and means "fail", as does no match, and a
\* rule that approves automatically.
Escalates(r) ==
  /\ r.action = "request_human"
  /\ \A ref \in r.refs : Worker!Resolvable(ref)
  /\ r.escalateTo # Absent
  /\ Worker!Resolvable(r.escalateTo)

FaultyUnresolved(i) == {r.escalateTo : r \in {q \in RuleOfFiles(i) : Escalates(q)}}

\* The first that escalate_to resolves to: of a group any member, as members
\* have no order here.
Targets(i) ==
  UNION {Worker!Resolve(r.escalateTo) : r \in {q \in RuleOfFiles(i) : Escalates(q)}}

\* _process_timeout_escalate of a row of the interrupt.
Escalate(i) ==
  /\ worker = "up"
  /\ fate[i] = "asked"
  /\ \E them \in Targets(i) : heir' = [heir EXCEPT ![i] = them]
  /\ UNCHANGED <<vars, memory>>

\* The server's side.
Route == Next /\ UNCHANGED <<memory, heir>>

EscalationNext ==
  \/ Route
  \/ WorkerStart \/ WorkerStop
  \/ \E i \in Interrupt : Escalate(i)

EscalationSpec == EscalationInit /\ [][EscalationNext]_escalationVars

-----------------------------------------------------------------------------

\* The ids that a reference means by the files.
NamedInFile(ref) ==
  IF ref \in Approver /\ File.approvers[ref] # Absent THEN {ref} ELSE File.groups[ref]

\* The tables say of an id what the files do.
SaidAlike(id) ==
  /\ id \in Approver => InForce.approvers[id] = File.approvers[id]
  /\ id \in Group => InForce.groups[id] = File.groups[id]

\* Whatever administrators have made of the tables, a row is handed to
\* somebody whom the files name, at the address they give.  Where the tables still say the same of
\* the reference and of this approver, it is whom the tables name, although
\* worker and server never exchange what they have loaded.
HandsOverAsSeeded ==
  [][\A i \in Interrupt : heir'[i] # heir[i] =>
       \E r \in RuleOfFiles(i) : \E a \in NamedInFile(r.escalateTo) :
         /\ heir'[i] = <<a, File.approvers[a]>>
         /\ SaidAlike(r.escalateTo) /\ SaidAlike(a) =>
              a \in Named(r.escalateTo) /\ heir'[i] = <<a, approvers[a]>>]_escalationVars

\* The rule as the server knows it.
Base(r) == [when |-> r.when, action |-> r.action, mode |-> r.mode, refs |-> r.refs]

SameRules(p, q) ==
  /\ p.matches = q.matches
  /\ Len(p.rules) = Len(q.rules)
  /\ \A k \in DOMAIN p.rules : p.rules[k] = Base(q.rules[k])

\* The server's lists have policies of the files and no others.
OnlyTheFiles ==
  \A loaded \in PolicySets : \A p \in loaded :
    \E n \in DOMAIN FilePolicies : SameRules(p, FilePolicies[n])

\* A row is handed over by the rule that asked it, or by that of a policy
\* earlier in the files that decides the interrupt too, and never by a later
\* one: server and worker evaluate the interrupt at different times, in
\* different processes and over lists of different origin and order, of which
\* the server's may have lost policies, and the row does not remember its rule.
HandsOverInFileOrder ==
  [][\A i \in Interrupt : heir'[i] # heir[i] /\ rule[i] # DefaultRule /\ OnlyTheFiles =>
       \E m \in DOMAIN FilePolicies : \E n \in 1..m :
         /\ rule[i] \in {Base(q) : q \in FirstRule(FilePolicies[m], i)}
         /\ \E r \in FirstRule(FilePolicies[n], i) :
              heir'[i] \in Worker!Resolve(r.escalateTo)]_escalationVars

=============================================================================
