------------------------------ MODULE Approvals ------------------------------
(***************************************************************************)
(* The approval life cycle of the Deliberate server: rows of the tables    *)
(* approvals, decisions and ledger_entries, and the three kinds of process *)
(* that change them.                                                       *)
(*                                                                         *)
(*  - POST /interrupts (api/routes/interrupts.py) creates the approval     *)
(*    rows of a group in one transaction, or auto-approves.                *)
(*  - POST /approvals/{id}/decide (api/routes/approvals.py) runs as a      *)
(*    transaction whose statements interleave with every other one.        *)
(*  - the timeout worker (worker.py) polls for overdue rows and times them *)
(*    out or escalates them, each in a transaction that holds the row.     *)
(*                                                                         *)
(* The database is PostgreSQL at READ COMMITTED: a plain SELECT reads the  *)
(* committed rows and takes no lock; an UPDATE and a SELECT ... FOR UPDATE *)
(* wait for the transaction that holds the row, then go on with the row as *)
(* that transaction left it.  The functions below are the COMMITTED state; *)
(* what a decide transaction has written and not committed is in its phase.*)
(***************************************************************************)
EXTENDS Integers, FiniteSets

CONSTANTS Approval,     \* ids of approval rows (uuid4: never reused)
          Group,        \* interrupts; each has one approval group
          Request,      \* POST .../decide calls; each is made at most once
          Worker,       \* processes running worker.py
          MaxApprovers, \* most approvers of an all_of rule (a bound of the model)
          MaxDepth,     \* settings.max_escalation_depth
          NoApproval, NoGroup

\* _count_escalation_depth stops counting at 21, so a larger limit would
\* never be reached.
ASSUME ConstantsAssumption ==
  /\ NoApproval \notin Approval
  /\ NoGroup \notin Group
  /\ MaxDepth \in 0..21
  /\ MaxApprovers \in Nat

VARIABLES
  status,       \* approvals.status; "none" while the row does not exist
  group,        \* approvals.approval_group_id
  mode,         \* approvals.approval_mode, one value for the whole group
  escalatedTo,  \* approvals.escalated_to
  expired,      \* rows whose timeout_at has passed
  decision,     \* the approval a request's committed decision row points to
  ledger,       \* how many ledger entries of each kind there are
  phase, target, rivals,     \* the decide transactions
  batch, current, plan       \* the workers

rows == <<status, group, mode, escalatedTo>>
books == <<decision, ledger>>
decides == <<phase, target, rivals>>
workers == <<batch, current, plan>>
vars == <<rows, expired, books, decides, workers>>

Status == {"none", "pending", "decided", "timed_out", "escalated", "superseded"}
Mode == {"none", "any_of", "all_of", "auto_approve"}
Phase == {"idle", "read", "flushed", "matched", "done", "refused", "failed"}
Plan == {"none", "fail", "escalate"}

\* A ledger entry is told apart by its kind and by what it is about.
LedgerKey == ({"decision", "timeout", "escalate"} \X Approval)
             \cup ({"auto_approve"} \X Group)

TypeOK ==
  /\ status \in [Approval -> Status]
  /\ group \in [Approval -> Group \cup {NoGroup}]
  /\ mode \in [Group -> Mode]
  /\ escalatedTo \in [Approval -> Approval \cup {NoApproval}]
  /\ expired \in SUBSET Approval
  /\ decision \in [Request -> Approval \cup {NoApproval}]
  /\ ledger \in [LedgerKey -> Nat]
  /\ phase \in [Request -> Phase]
  /\ target \in [Request -> Approval \cup {NoApproval}]
  /\ rivals \in [Request -> SUBSET Approval]
  /\ batch \in [Worker -> SUBSET Approval]
  /\ current \in [Worker -> Approval \cup {NoApproval}]
  /\ plan \in [Worker -> Plan]

Init ==
  /\ status = [a \in Approval |-> "none"]
  /\ group = [a \in Approval |-> NoGroup]
  /\ mode = [g \in Group |-> "none"]
  /\ escalatedTo = [a \in Approval |-> NoApproval]
  /\ expired = {}
  /\ decision = [r \in Request |-> NoApproval]
  /\ ledger = [k \in LedgerKey |-> 0]
  /\ phase = [r \in Request |-> "idle"]
  /\ target = [r \in Request |-> NoApproval]
  /\ rivals = [r \in Request |-> {}]
  /\ batch = [w \in Worker |-> {}]
  /\ current = [w \in Worker |-> NoApproval]
  /\ plan = [w \in Worker |-> "none"]

-----------------------------------------------------------------------------
(* Reading the rows *)

Pending(a) == status[a] = "pending"

Fresh == {a \in Approval : status[a] = "none"}

SameGroup(a, b) == group[a] = group[b]

\* A row is held from the UPDATE a decide transaction flushes to its end.
Holds(r, a) == phase[r] \in {"flushed", "matched"} /\ target[r] = a

HeldByOther(r, a) == \E q \in Request \ {r} : Holds(q, a)

Held(a) == \E r \in Request : Holds(r, a)

\* There are n rows above a on the escalated_to chain: what the loop of
\* _count_escalation_depth finds when it counts at least n.
DepthAtLeast(a, n) ==
  \E chain \in [1..n -> Approval] :
    \A i \in 1..n : escalatedTo[chain[i]] = IF i = 1 THEN a ELSE chain[i - 1]

\* The faulty forms of definitions, here and below, are what a plausible bug
\* would make of them: the properties are checked to notice each.
FaultyBookDecisionsOnly(kind, subject) ==
  ledger' = IF kind = "decision" THEN [ledger EXCEPT ![<<kind, subject>>] = @ + 1] ELSE ledger

Book(kind, subject) == ledger' = [ledger EXCEPT ![<<kind, subject>>] = @ + 1]

-----------------------------------------------------------------------------
(* POST /interrupts *)

FaultyOpeningRowPerApprover(m) == {S \in SUBSET Fresh : Cardinality(S) \in 1..MaxApprovers}

\* Rows that open a group: one shared row for any_of whatever the number of
\* approvers, one row per approver for all_of.
OpeningRows(m) ==
  IF m = "any_of" THEN {{a} : a \in Fresh}
  ELSE {S \in SUBSET Fresh : Cardinality(S) \in 1..MaxApprovers}

\* _handle_request_human: the whole group appears in one commit.
RequestHuman(g, m, S) ==
  /\ mode[g] = "none"
  /\ S \in OpeningRows(m)
  /\ mode' = [mode EXCEPT ![g] = m]
  /\ status' = [a \in Approval |-> IF a \in S THEN "pending" ELSE status[a]]
  /\ group' = [a \in Approval |-> IF a \in S THEN g ELSE group[a]]
  /\ UNCHANGED <<escalatedTo, expired, books, decides, workers>>

\* _handle_auto_approve: a ledger entry and no approval row.
AutoApprove(g) ==
  /\ mode[g] = "none"
  /\ mode' = [mode EXCEPT ![g] = "auto_approve"]
  /\ Book("auto_approve", g)
  /\ UNCHANGED <<status, group, escalatedTo, expired, decision, decides, workers>>

\* Time passes the timeout_at of a row that is still pending.
Expire(a) ==
  /\ Pending(a)
  /\ a \notin expired
  /\ expired' = expired \cup {a}
  /\ UNCHANGED <<rows, books, decides, workers>>

-----------------------------------------------------------------------------
(* POST /approvals/{id}/decide: one transaction, statement by statement *)

Decidable(a) == Pending(a)

\* session.get(Approval, approval_id) takes no lock.  What it read is what
\* the rest of the handler goes by.
DecideRead(r, a) ==
  /\ phase[r] = "idle"
  /\ Decidable(a)
  /\ phase' = [phase EXCEPT ![r] = "read"]
  /\ target' = [target EXCEPT ![r] = a]
  /\ UNCHANGED <<rivals, rows, expired, books, workers>>

\* 404 for a row that does not exist, 409 for one that is not pending.
DecideRefuse(r, a) ==
  /\ phase[r] = "idle"
  /\ ~Decidable(a)
  /\ phase' = [phase EXCEPT ![r] = "refused"]
  /\ UNCHANGED <<target, rivals, rows, expired, books, workers>>

\* The first query after `approval.status = "decided"` flushes it: an UPDATE
\* by primary key, with no condition on the status, that waits for the row.
DecideFlush(r) ==
  /\ phase[r] = "read"
  /\ ~HeldByOther(r, target[r])
  /\ phase' = [phase EXCEPT ![r] = "flushed"]
  /\ UNCHANGED <<target, rivals, rows, expired, books, workers>>

FaultyRivalsOfAnyStatus(a) == {b \in Approval \ {a} : SameGroup(b, a)}

\* The pending rows of the group, to be superseded.
Rivals(a) == {b \in Approval \ {a} : SameGroup(b, a) /\ Pending(b)}

\* any_of: the SELECT of the rows to supersede.
DecideMatch(r) ==
  /\ phase[r] = "flushed"
  /\ mode[group[target[r]]] = "any_of"
  /\ phase' = [phase EXCEPT ![r] = "matched"]
  /\ rivals' = [rivals EXCEPT ![r] = Rivals(target[r])]
  /\ UNCHANGED <<target, rows, expired, books, workers>>

\* Everything the transaction has to write is written.
Written(r) ==
  \/ phase[r] = "matched"
  \/ phase[r] = "flushed" /\ mode[group[target[r]]] = "all_of"

FaultyStatusLeftPending(r) ==
  [b \in Approval |-> IF b \in rivals[r] THEN "superseded" ELSE status[b]]

\* What the transaction makes of the status column: again by primary key.
StatusAfterDecide(r) ==
  [b \in Approval |-> CASE b = target[r] -> "decided"
                        [] b \in rivals[r] -> "superseded"
                        [] OTHER -> status[b]]

\* The UPDATE of the rivals waits for their rows; then the ledger entry is
\* inserted and the transaction commits.
DecideCommit(r) ==
  /\ Written(r)
  /\ \A b \in rivals[r] : ~HeldByOther(r, b)
  /\ status' = StatusAfterDecide(r)
  /\ decision' = [decision EXCEPT ![r] = target[r]]
  /\ Book("decision", target[r])
  /\ phase' = [phase EXCEPT ![r] = "done"]
  /\ rivals' = [rivals EXCEPT ![r] = {}]
  /\ UNCHANGED <<group, mode, escalatedTo, target, expired, workers>>

\* The ledger entry fails its schema, a statement fails, the server dies.
DecideAbort(r) ==
  /\ phase[r] \in {"read", "flushed", "matched"}
  /\ phase' = [phase EXCEPT ![r] = "failed"]
  /\ rivals' = [rivals EXCEPT ![r] = {}]
  /\ UNCHANGED <<target, rows, expired, books, workers>>

-----------------------------------------------------------------------------
(* The timeout worker *)

FaultyOverdueOriginals ==
  {a \in expired : Pending(a) /\ \A b \in Approval : escalatedTo[b] # a}

Overdue == {a \in expired : Pending(a)}

\* poll_timeouts: max_instances=1, so a worker polls when it has finished
\* the batch before.
Poll(w) ==
  /\ batch[w] = {}
  /\ current[w] = NoApproval
  /\ Overdue # {}
  /\ batch' = [batch EXCEPT ![w] = Overdue]
  /\ UNCHANGED <<current, plan, rows, expired, books, decides>>

\* _count_escalation_depth(snap.id) >= settings.max_escalation_depth
DepthReached(a) == DepthAtLeast(a, MaxDepth)

FaultyPlansUnbounded(a) == {"fail", "escalate"}

\* What the worker may make of an overdue row: its policy is read anew, so
\* it can say "fail", say "escalate", match nothing or not resolve.
PlansFor(a) == IF DepthReached(a) THEN {"fail"} ELSE {"fail", "escalate"}

\* _process_timed_out_approval up to the transaction: the policy and the
\* escalation depth are read while the row is not held.
Evaluate(w, a) ==
  /\ current[w] = NoApproval
  /\ a \in batch[w]
  /\ current' = [current EXCEPT ![w] = a]
  /\ batch' = [batch EXCEPT ![w] = @ \ {a}]
  /\ \E p \in PlansFor(a) : plan' = [plan EXCEPT ![w] = p]
  /\ UNCHANGED <<rows, expired, books, decides>>

FaultyNoRecheck(w) == TRUE

\* SELECT ... FOR UPDATE waits for the row and re-reads its status.
Recheck(w) == Pending(current[w])

Proceed(w, p) ==
  /\ current[w] # NoApproval
  /\ plan[w] = p
  /\ ~Held(current[w])
  /\ Recheck(w)

Forget(w) ==
  /\ current' = [current EXCEPT ![w] = NoApproval]
  /\ plan' = [plan EXCEPT ![w] = "none"]

\* _process_timeout_fail
TimeOut(w) ==
  /\ Proceed(w, "fail")
  /\ status' = [status EXCEPT ![current[w]] = "timed_out"]
  /\ Book("timeout", current[w])
  /\ Forget(w)
  /\ UNCHANGED <<group, mode, escalatedTo, expired, decision, decides, batch>>

SuccessorGroup(w) == group[current[w]]

\* _process_timeout_escalate: b is the new row, for the first approver that
\* escalate_to resolves to, in the same group as the row it replaces.
Escalate(w, b) ==
  /\ Proceed(w, "escalate")
  /\ b \in Fresh
  /\ status' = [status EXCEPT ![current[w]] = "escalated", ![b] = "pending"]
  /\ group' = [group EXCEPT ![b] = SuccessorGroup(w)]
  /\ escalatedTo' = [escalatedTo EXCEPT ![current[w]] = b]
  /\ Book("escalate", current[w])
  /\ Forget(w)
  /\ UNCHANGED <<mode, expired, decision, decides, batch>>

\* "Race condition -- already decided or handled"
Skip(w) ==
  /\ current[w] # NoApproval
  /\ ~Held(current[w])
  /\ ~Recheck(w)
  /\ Forget(w)
  /\ UNCHANGED <<rows, expired, books, decides, batch>>

\* An exception while one row is processed is logged; the loop goes on.
WorkerError(w) ==
  /\ current[w] # NoApproval
  /\ Forget(w)
  /\ UNCHANGED <<rows, expired, books, decides, batch>>

\* The process stops and is started again: the batch was in memory only.
WorkerCrash(w) ==
  /\ batch[w] # {}
  /\ Forget(w)
  /\ batch' = [batch EXCEPT ![w] = {}]
  /\ UNCHANGED <<rows, expired, books, decides>>

-----------------------------------------------------------------------------
(* What is reported of an any_of group *)

\* Row b was escalated, in one or several steps, to row a.
Above(b, a) ==
  \E n \in 1..MaxDepth : \E chain \in [0..n -> Approval] :
    /\ chain[0] = a /\ chain[n] = b
    /\ \A i \in 1..n : escalatedTo[chain[i]] = chain[i - 1]

FaultyLastWins(a) ==
  /\ status[a] = "decided"
  /\ mode[group[a]] = "any_of"
  /\ ~\E b \in Approval \ {a} : status[b] = "decided" /\ Above(a, b)

\* _resolve_any_of: the first decided row by age.  In an any_of group a row
\* is older than those it was escalated to.
Wins(a) ==
  /\ status[a] = "decided"
  /\ mode[group[a]] = "any_of"
  /\ ~\E b \in Approval \ {a} : status[b] = "decided" /\ Above(b, a)

-----------------------------------------------------------------------------

Submit ==
  \E g \in Group :
    \/ AutoApprove(g)
    \/ \E m \in {"any_of", "all_of"}, S \in SUBSET Approval : RequestHuman(g, m, S)

Decide(r) ==
  \/ \E a \in Approval : DecideRead(r, a) \/ DecideRefuse(r, a)
  \/ DecideFlush(r) \/ DecideMatch(r) \/ DecideCommit(r) \/ DecideAbort(r)

Work(w) ==
  \/ Poll(w)
  \/ \E a \in Approval : Evaluate(w, a)
  \/ TimeOut(w)
  \/ \E b \in Approval : Escalate(w, b)
  \/ Skip(w) \/ WorkerError(w) \/ WorkerCrash(w)

Next ==
  \/ Submit
  \/ \E a \in Approval : Expire(a)
  \/ \E r \in Request : Decide(r)
  \/ \E w \in Worker : Work(w)

Spec == Init /\ [][Next]_vars

\* The worker is never stopped or failed for good just before it gets to
\* act, an open transaction goes on, and clocks run.  Nobody has to decide.
Fairness ==
  /\ \A a \in Approval : WF_vars(Expire(a))
  /\ \A r \in Request : WF_vars(DecideFlush(r) \/ DecideMatch(r) \/ DecideCommit(r))
  /\ \A w \in Worker :
       /\ WF_vars(Poll(w))
       /\ SF_vars(\E a \in Approval : Evaluate(w, a))
       /\ SF_vars(TimeOut(w) \/ (\E b \in Approval : Escalate(w, b)) \/ Skip(w))

FairSpec == Spec /\ Fairness

-----------------------------------------------------------------------------
(* Safety *)

\* A row that still waits for an answer has none: no committed decision, no
\* entry in the ledger and no successor.  So a call that starts after an
\* earlier one has committed is refused, and a worker acts on nothing that
\* was answered.
PendingIsUntouched ==
  \A a \in Approval : Pending(a) =>
    /\ \A r \in Request : decision[r] # a
    /\ \A kind \in {"decision", "timeout", "escalate"} : ledger[<<kind, a>>] = 0
    /\ escalatedTo[a] = NoApproval

\* An any_of group asks one row at a time, however escalation, decisions and
\* the superseding of siblings interleave.
OnePendingPerAnyOf ==
  \A a, b \in Approval :
    Pending(a) /\ Pending(b) /\ SameGroup(a, b) /\ mode[group[a]] = "any_of" => a = b

\* However many workers poll and however old their snapshots, one row is
\* timed out or escalated once at most, and escalated exactly if it has a
\* successor.
WorkerActsOnce ==
  \A a \in Approval :
    /\ ledger[<<"timeout", a>>] + ledger[<<"escalate", a>>] \in {0, 1}
    /\ ledger[<<"escalate", a>>] = 1 <=> escalatedTo[a] # NoApproval

\* The guard against escalation loops: no row has more than MaxDepth rows
\* above it, although the depth is counted before the row is held.
EscalationBounded ==
  \A a \in Approval : ~DepthAtLeast(a, MaxDepth + 1)

\* Escalation is a chain: a row replaces one row, of its own group, and
\* exists.
EscalationIsChain ==
  \A a \in Approval : escalatedTo[a] # NoApproval =>
    /\ status[escalatedTo[a]] # "none"
    /\ SameGroup(a, escalatedTo[a])
    /\ \A b \in Approval \ {a} : escalatedTo[b] # escalatedTo[a]

Explained(a) ==
  /\ status[a] = "decided" => ledger[<<"decision", a>>] > 0
  /\ status[a] = "timed_out" => ledger[<<"timeout", a>>] = 1
  /\ status[a] = "escalated" => ledger[<<"escalate", a>>] = 1
  /\ status[a] = "superseded" =>
       \E b \in Approval \ {a} : SameGroup(a, b) /\ ledger[<<"decision", b>>] > 0
  /\ ledger[<<"decision", a>>] > 0 => status[a] \in {"decided", "superseded"}

\* The ledger tells why each row is in the state it is in: a row is never
\* closed by a step that left no entry, a superseded row has a sibling whose
\* decision superseded it, and a recorded decision is never lost to another
\* outcome than a sibling's decision.
LedgerExplains == \A a \in Approval : Explained(a)

\* No two decide transactions wait for each other's row.
WaitsFor(r, q) ==
  \/ phase[r] = "read" /\ Holds(q, target[r])
  \/ phase[r] = "matched" /\ \E b \in rivals[r] : Holds(q, b)

NoLockCycle ==
  \A r, q \in Request : r # q => ~(WaitsFor(r, q) /\ WaitsFor(q, r))

\* What one step may do to a row: nothing goes back to pending, a worker
\* closes pending rows only, and an answer is only ever replaced by another
\* transaction's answer.
Lifecycle ==
  [][\A a \in Approval : status'[a] # status[a] =>
       \/ status[a] = "none" /\ status'[a] = "pending"
       \/ status[a] = "pending" /\ status'[a] \in {"timed_out", "escalated"}
       \/ status[a] # "none" /\ status'[a] \in {"decided", "superseded"}]_vars

(* Liveness *)

\* "Expired approvals are either failed or escalated rather than left open
\* indefinitely" (docs/security.md:85): once a group is asked, some day none
\* of its rows is pending, its successors by escalation included.
GroupSettles ==
  \A g \in Group : mode[g] \in {"any_of", "all_of"} ~>
    [](\A a \in Approval : group[a] = g => ~Pending(a))

-----------------------------------------------------------------------------
(* What the rows promise together *)

IsSuccessor(a) == \E b \in Approval : escalatedTo[b] = a

\* How many rows a row has above it.
Depth(a) ==
  IF IsSuccessor(a) THEN Cardinality({n \in 1..MaxDepth : DepthAtLeast(a, n)}) ELSE 0

Question == INSTANCE Handover WITH
  open <- {a \in Approval : Pending(a)},
  closed <- {a \in Approval : status[a] \notin {"none", "pending"}},
  hops <- [a \in Approval |-> Depth(a)]

\* Whatever approvers and workers do, and however old what they have read is,
\* the rows behave like questions that are asked, handed over at most MaxDepth
\* times, closed and never opened again.
ImplementsHandover == Question!Spec

-----------------------------------------------------------------------------
(* What the code is said to do and does not *)

\* "Second decide on same approval returns 409, no duplicate rows."
\* (server/tests/integration/test_validation.py:256)
AtMostOneDecision ==
  \A r, q \in Request : decision[r] = decision[q] /\ decision[r] # NoApproval => r = q

=============================================================================
