----------------------------- MODULE ApprovalGate -----------------------------
(***************************************************************************)
(* The agent's side of an approval: @approval_gate of the SDK              *)
(* (sdk/deliberate/decorator.py, client.py) submits an interrupt, polls    *)
(* the server until there is an answer, acknowledges it, and lets the      *)
(* graph go on, or raises.  An any_of gate polls the status of the row the *)
(* submission returned; an all_of gate polls the status of the group       *)
(* (api/routes/approval_groups.py).                                        *)
(*                                                                         *)
(* This module composes the gate with the rows of Approvals, of which each *)
(* poll and each acknowledgement reads the committed state.  The two       *)
(* queries of a status endpoint are one step here: a row that a gate polls *)
(* does not cease to be decided and decisions are never removed, so that   *)
(* what they find together one atomic read finds, then or a little later.  *)
(***************************************************************************)
EXTENDS Approvals

CONSTANTS Amount,     \* numbers in the payload of a "modify" answer
          NoAmount,   \* ... which need not have one
          NoAnswer

ASSUME AnswerAssumption ==
  /\ Amount \subseteq Nat
  /\ NoAmount \notin Nat
  /\ NoAnswer \notin [type: STRING, amount: Amount \cup {NoAmount}]

VARIABLES
  answer,    \* the decision_type and decision_payload of a request's decision
  gate,      \* where the gate that submitted a group is
  first,     \* approval_ids[0] of the submission's response
  outcome,   \* the answer the gate got
  acked      \* decisions whose ledger entry has a resume event

gates == <<gate, first, outcome, acked>>
gateVars == <<vars, answer, gates>>

Answer == [type: {"approve", "reject", "escalate"}, amount: {NoAmount}]
          \cup [type: {"modify"}, amount: Amount \cup {NoAmount}]

AutoApproval == [type |-> "auto_approve", amount |-> NoAmount]

\* After "waiting" and "answered": the graph resumed, or the gate raised
\* DeliberateTimeoutError, DeliberateServerError, a pydantic ValidationError
\* or an httpx error.
Gate == {"none", "waiting", "answered",
         "resumed", "gave_up", "server_error", "invalid", "lost"}

GateTypeOK ==
  /\ TypeOK
  /\ answer \in [Request -> Answer \cup {NoAnswer}]
  /\ gate \in [Group -> Gate]
  /\ first \in [Group -> Approval \cup {NoApproval}]
  /\ outcome \in [Group -> Answer \cup {AutoApproval, NoAnswer}]
  /\ acked \subseteq Request

GateInit ==
  /\ Init
  /\ answer = [r \in Request |-> NoAnswer]
  /\ gate = [g \in Group |-> "none"]
  /\ first = [g \in Group |-> NoApproval]
  /\ outcome = [g \in Group |-> NoAnswer]
  /\ acked = {}

-----------------------------------------------------------------------------
(* What the status endpoints report *)

GroupRows(g) == {a \in Approval : group[a] = g}

DecidedRows(g) == {a \in GroupRows(g) : status[a] = "decided"}

DecisionsOf(a) == {r \in Request : decision[r] = a}

\* A row nobody decided in time counts as approved.
FaultyFailsOpen(a) ==
  IF status[a] = "timed_out" THEN {[type |-> "approve", amount |-> NoAmount]}
  ELSE IF status[a] = "decided" THEN {answer[r] : r \in DecisionsOf(a)} ELSE {}

\* GET /approvals/{id}/status: scalar_one_or_none raises if there are two.
RowAnswers(a) ==
  IF status[a] = "decided" THEN {answer[r] : r \in DecisionsOf(a)} ELSE {}

RowReadFails(a) == status[a] = "decided" /\ \E r, q \in DecisionsOf(a) : r # q

\* decisions_by_approval keeps one decision of a row, whichever came last.
Picks(g) ==
  {pick \in [DecidedRows(g) -> Request] :
     \A a \in DecidedRows(g) : decision[pick[a]] = a}

Numeric(answers) == {x \in answers : x.amount # NoAmount}

FaultyLeastRestrictive(answers) ==
  {x \in Numeric(answers) : \A y \in Numeric(answers) : y.amount <= x.amount}

\* _pick_most_restrictive
MostRestrictive(answers) ==
  IF Numeric(answers) = {} THEN answers
  ELSE {x \in Numeric(answers) : \A y \in Numeric(answers) : x.amount <= y.amount}

OfType(answers, type) == {x \in answers : x.type = type}

FaultySomeDecided(g) == DecidedRows(g) # {}

FaultyNoneIsPending(g) == \A a \in GroupRows(g) : ~Pending(a)

AllDecided(g) == DecidedRows(g) = GroupRows(g)

\* _resolve_all_of and _aggregate_decisions, given one decision per decided
\* row.  The rows of a submission are equally old: without a "modify" the
\* first one's answer is anybody's.
Aggregate(g, answers) ==
  IF OfType(answers, "reject") # {} THEN OfType(answers, "reject")
  ELSE IF ~AllDecided(g) THEN {}
  ELSE IF OfType(answers, "modify") # {} THEN MostRestrictive(OfType(answers, "modify"))
  ELSE answers

\* GET /approval-groups/{id}/status: the answers it may report, none while
\* the group is pending.
GroupAnswers(g) ==
  IF mode[g] = "any_of"
  THEN UNION {RowAnswers(a) : a \in {b \in GroupRows(g) : Wins(b)}}
  ELSE UNION {Aggregate(g, {answer[pick[a]] : a \in DecidedRows(g)}) : pick \in Picks(g)}

-----------------------------------------------------------------------------
(* submit_interrupt *)

\* The response may not reach the gate: submit_interrupt is not retried, the
\* group stays.
GateSubmit(g, m, S, a) ==
  /\ a \in S
  /\ RequestHuman(g, m, S)
  /\ \/ gate' = [gate EXCEPT ![g] = "waiting"] /\ first' = [first EXCEPT ![g] = a]
     \/ gate' = [gate EXCEPT ![g] = "lost"] /\ UNCHANGED first
  /\ UNCHANGED <<answer, outcome, acked>>

GateAutoApproved(g) ==
  /\ AutoApprove(g)
  /\ \/ gate' = [gate EXCEPT ![g] = "resumed"] /\ outcome' = [outcome EXCEPT ![g] = AutoApproval]
     \/ gate' = [gate EXCEPT ![g] = "lost"] /\ UNCHANGED outcome
  /\ UNCHANGED <<answer, first, acked>>

(* wait_for_decision *)

\* use_group = (approval_mode == "all_of")
Polled(g) ==
  IF mode[g] = "all_of" THEN GroupAnswers(g) ELSE RowAnswers(first[g])

PollRefused(g) == mode[g] # "all_of" /\ RowReadFails(first[g])

FaultyEscalatedIsPending(g) ==
  mode[g] # "all_of" /\ status[first[g]] \in {"timed_out", "superseded"}

\* The polled row is neither pending nor decided: the response has no
\* decision_type and Decision(...) does not validate.
PollInvalid(g) ==
  mode[g] # "all_of" /\ status[first[g]] \in {"timed_out", "escalated", "superseded"}

PollAnswered(g) ==
  /\ gate[g] = "waiting"
  /\ ~PollRefused(g)
  /\ \E x \in Polled(g) : outcome' = [outcome EXCEPT ![g] = x]
  /\ gate' = [gate EXCEPT ![g] = "answered"]
  /\ UNCHANGED <<vars, answer, first, acked>>

PollRaises(g) ==
  /\ gate[g] = "waiting"
  /\ \/ PollRefused(g) /\ gate' = [gate EXCEPT ![g] = "server_error"]
     \/ PollInvalid(g) /\ gate' = [gate EXCEPT ![g] = "invalid"]
  /\ UNCHANGED <<vars, answer, first, outcome, acked>>

\* The poll says "pending" and timeout_seconds have passed.
GiveUp(g) ==
  /\ gate[g] = "waiting"
  /\ Polled(g) = {} /\ ~PollInvalid(g)
  /\ gate' = [gate EXCEPT ![g] = "gave_up"]
  /\ UNCHANGED <<vars, answer, first, outcome, acked>>

(* submit_resume_ack *)

FaultyAnyEntry(a) == DecisionsOf(a)

\* resume_ack: the ledger entry joined with the row's decision, if there is
\* one and no more.
AckableEntries(a) == IF \E r, q \in DecisionsOf(a) : r # q THEN {} ELSE DecisionsOf(a)

Ack(g) ==
  /\ gate[g] = "answered"
  /\ \E r \in AckableEntries(first[g]) : acked' = acked \cup {r}
  /\ \E result \in {"resumed", "lost"} : gate' = [gate EXCEPT ![g] = result]
  /\ UNCHANGED <<vars, answer, first, outcome>>

\* 404 or 500: the gate raises although it has its answer.
AckRefused(g) ==
  /\ gate[g] = "answered"
  /\ AckableEntries(first[g]) = {}
  /\ gate' = [gate EXCEPT ![g] = "server_error"]
  /\ UNCHANGED <<vars, answer, first, outcome, acked>>

\* A request cannot be sent or its response does not come.
Disconnect(g) ==
  /\ gate[g] \in {"waiting", "answered"}
  /\ gate' = [gate EXCEPT ![g] = "lost"]
  /\ UNCHANGED <<vars, answer, first, outcome, acked>>

-----------------------------------------------------------------------------

\* The server's own steps; a decision commits with some answer.
Serve ==
  /\ \/ \E a \in Approval : Expire(a)
     \/ \E r \in Request : Decide(r)
     \/ \E w \in Worker : Work(w)
  /\ \/ decision' = decision /\ UNCHANGED answer
     \/ \E r \in Request, x \in Answer :
          decision'[r] # decision[r] /\ answer' = [answer EXCEPT ![r] = x]
  /\ UNCHANGED gates

GateStep(g) ==
  \/ GateAutoApproved(g)
  \/ \E m \in {"any_of", "all_of"}, S \in SUBSET Approval : \E a \in S : GateSubmit(g, m, S, a)
  \/ PollAnswered(g) \/ PollRaises(g) \/ GiveUp(g)
  \/ Ack(g) \/ AckRefused(g) \/ Disconnect(g)

GateNext == Serve \/ \E g \in Group : GateStep(g)

GateSpec == GateInit /\ [][GateNext]_gateVars

\* The server's fairness, and a gate that goes on polling.  Nothing is
\* assumed of its own timeout.
GateFairness ==
  /\ Fairness
  /\ \A g \in Group : WF_gateVars(PollAnswered(g) \/ PollRaises(g)) /\ WF_gateVars(Ack(g) \/ AckRefused(g))

FairGateSpec == GateSpec /\ GateFairness

-----------------------------------------------------------------------------

HasAnswer(g) == outcome[g] \notin {NoAnswer, AutoApproval}

(* Safety *)

\* What the gate acts on stays among what the group's status reports: later
\* answers, escalations and time-outs of other rows do not make it wrong.
AnswerStands ==
  \A g \in Group : HasAnswer(g) => outcome[g] \in GroupAnswers(g)

\* An all_of gate lets nothing pass that somebody was asked about and has
\* not answered, or has answered with nothing but "reject".
NobodyIsOverruled ==
  \A g \in Group : HasAnswer(g) /\ mode[g] = "all_of" /\ outcome[g].type # "reject" =>
    \A a \in GroupRows(g) : \E r \in DecisionsOf(a) : answer[r].type # "reject"

\* "Most restrictive": the amount an all_of gate goes on with is not above
\* one that an approver, answering once, has set.
LeastAmountWins ==
  \A g \in Group : HasAnswer(g) /\ mode[g] = "all_of" /\ outcome[g].type = "modify" =>
    \A a \in GroupRows(g) : \A r \in DecisionsOf(a) :
      DecisionsOf(a) = {r} /\ answer[r].type = "modify" /\ answer[r].amount # NoAmount =>
        outcome[g].amount # NoAmount /\ outcome[g].amount <= answer[r].amount

\* The ledger entry that an any_of gate marks as resumed is that of the
\* answer the graph resumed with, although a row may get a second decision
\* between the poll and the acknowledgement.
AckMatchesAnswer ==
  \A r \in acked : LET g == group[decision[r]] IN
    mode[g] = "any_of" => outcome[g] = answer[r]

\* A row that nobody decided in time, and nobody is deciding.
Overslept(a) ==
  /\ status[a] \in {"timed_out", "escalated"}
  /\ \A r \in Request : phase[r] \in {"read", "flushed", "matched"} => target[r] # a

Stranded(g) == mode[g] = "all_of" /\ \E a \in GroupRows(g) : Overslept(a)

\* An approver of an all_of group who was late is not replaced by the one
\* their row was escalated to: the group can be rejected, or stay pending,
\* whatever anybody decides from then on.
LateIsNeverApproved ==
  [][\A g \in Group : Stranded(g) =>
       Stranded(g)' /\ OfType(GroupAnswers(g)', "reject") = GroupAnswers(g)']_gateVars

Promise == INSTANCE GatePromise WITH
  Gate <- Group,
  asked <- {g \in Group : mode[g] \in {"any_of", "all_of"}},
  answers <- [g \in Group |->
    {answer[r] : r \in {q \in Request : decision[q] # NoApproval /\ group[decision[q]] = g}}],
  gate <- [g \in Group |->
    IF gate[g] \in {"none", "waiting", "answered", "resumed"} THEN gate[g] ELSE "raised"]

\* A gate fails closed: it opens with an answer that was given to its own
\* question or without asking, and for no other reason, however rows expire,
\* are escalated or superseded, and whatever is lost.
ImplementsPromise == Promise!Spec

(* Liveness *)

\* An any_of gate does not depend on its own timeout: approvers or the
\* timeout worker end its wait.  (An all_of gate may wait for ever.)
AnyOfGateEnds ==
  \A g \in Group : gate[g] = "waiting" /\ mode[g] = "any_of" ~> gate[g] \notin {"waiting", "answered"}

-----------------------------------------------------------------------------
(* What the code is said to do and does not *)

\* "Approver didn't respond in 4h?  Auto-escalate to the backup or fail
\* gracefully." (README.md:107): a gate does not fail because its question
\* was handed to the backup.
EscalationKeepsTheGate ==
  \A g \in Group : gate[g] = "invalid" => status[first[g]] # "escalated"

=============================================================================
