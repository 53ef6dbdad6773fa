-------------------------- MODULE ApprovalGateProofs --------------------------
(***************************************************************************)
(* Proofs about the composition of the SDK's gate with the server: it      *)
(* leaves the server's behaviour as Approvals has it, so that what is      *)
(* proved there holds here; an all_of gate overrules nobody; the answer a  *)
(* gate goes on with stands; and every gate keeps the abstract promise.    *)
(***************************************************************************)
EXTENDS ApprovalGate, ApprovalsProofs

LEMMA GateStepsAreSteps == [GateNext]_gateVars => [Next]_vars
<1> SUFFICES ASSUME [GateNext]_gateVars PROVE [Next]_vars
  OBVIOUS
<1>1. CASE Serve
  BY <1>1 DEF Serve, Next
<1>2. ASSUME NEW g \in Group, GateStep(g) PROVE [Next]_vars
  <2>1. CASE GateAutoApproved(g)
    BY <2>1 DEF GateAutoApproved, Next, Submit
  <2>2. ASSUME NEW m \in {"any_of", "all_of"}, NEW S \in SUBSET Approval,
               \E a \in S : GateSubmit(g, m, S, a)
        PROVE  Next
    <3>1. RequestHuman(g, m, S)
      BY <2>2 DEF GateSubmit
    <3> QED
      BY <3>1 DEF Next, Submit
  <2>3. CASE PollAnswered(g) \/ PollRaises(g) \/ GiveUp(g) \/ Ack(g) \/ AckRefused(g) \/ Disconnect(g)
    BY <2>3 DEF PollAnswered, PollRaises, GiveUp, Ack, AckRefused, Disconnect
  <2> QED
    BY <1>2, <2>1, <2>2, <2>3 DEF GateStep
<1>3. CASE UNCHANGED gateVars
  BY <1>3 DEF gateVars
<1> QED
  BY <1>1, <1>2, <1>3 DEF GateNext

\* A server with gates behaves as Approvals says: whatever holds of Approvals
\* holds of it.
THEOREM GateImplementsApprovals == GateSpec => Spec
<1>1. GateInit => Init
  BY DEF GateInit
<1> QED
  BY <1>1, GateStepsAreSteps, PTL DEF GateSpec, Spec

-----------------------------------------------------------------------------
(* Types *)

LEMMA AggregateChooses ==
  ASSUME NEW g \in Group, NEW answers, NEW x \in Aggregate(g, answers)
  PROVE  x \in answers
BY DEF Aggregate, OfType, MostRestrictive, Numeric

LEMMA PolledIsAnAnswer ==
  ASSUME GateTypeOK, NEW g \in Group, NEW x \in Polled(g)
  PROVE  x \in Answer \cup {NoAnswer}
<1>1. ASSUME NEW a, x \in RowAnswers(a) PROVE x \in Answer \cup {NoAnswer}
  BY <1>1 DEF RowAnswers, DecisionsOf, GateTypeOK
<1>2. ASSUME NEW pick \in Picks(g), x \in Aggregate(g, {answer[pick[a]] : a \in DecidedRows(g)})
      PROVE  x \in Answer \cup {NoAnswer}
  BY <1>2, AggregateChooses DEF Picks, GateTypeOK
<1> QED
  BY <1>1, <1>2 DEF Polled, GroupAnswers

\* The variables of the gate have their types.
THEOREM GateTypeCorrect == GateSpec => []GateTypeOK
<1>1. GateInit /\ TypeOK => GateTypeOK
  BY DEF GateInit, GateTypeOK, Gate
<1>2. GateTypeOK /\ TypeOK' /\ [GateNext]_gateVars => GateTypeOK'
  <2> SUFFICES ASSUME GateTypeOK, TypeOK', [GateNext]_gateVars PROVE GateTypeOK'
    OBVIOUS
  <2> USE DEF GateTypeOK
  <2>1. CASE Serve
    BY <2>1 DEF Serve, gates
  <2>2. ASSUME NEW g \in Group, GateStep(g) PROVE GateTypeOK'
    <3>1. CASE GateAutoApproved(g)
      BY <3>1 DEF GateAutoApproved, Gate
    <3>2. ASSUME NEW m \in {"any_of", "all_of"}, NEW S \in SUBSET Approval, NEW a \in S,
                 GateSubmit(g, m, S, a)
          PROVE  GateTypeOK'
      BY <3>2 DEF GateSubmit, Gate
    <3>3. CASE PollAnswered(g)
      BY <3>3, PolledIsAnAnswer DEF PollAnswered, Gate
    <3>4. CASE Ack(g)
      <4>1. AckableEntries(first[g]) \subseteq Request
        BY DEF AckableEntries, DecisionsOf
      <4> QED
        BY <3>4, <4>1 DEF Ack, Gate
    <3>5. CASE PollRaises(g) \/ GiveUp(g) \/ AckRefused(g) \/ Disconnect(g)
      BY <3>5 DEF PollRaises, GiveUp, AckRefused, Disconnect, Gate
    <3> QED
      BY <2>2, <3>1, <3>2, <3>3, <3>4, <3>5 DEF GateStep
  <2>3. CASE UNCHANGED gateVars
    BY <2>3 DEF gateVars, gates
  <2> QED
    BY <2>1, <2>2, <2>3 DEF GateNext
<1> QED
  BY <1>1, <1>2, GateImplementsApprovals, TypeCorrect, PTL DEF GateSpec

-----------------------------------------------------------------------------
(* Nobody is overruled *)

\* What the gate and the rows and answers of its group agree on.
NotRejectedBy(a) == \E r \in DecisionsOf(a) : answer[r].type # "reject"

Consented(g) == AllDecided(g) /\ \A a \in GroupRows(g) : NotRejectedBy(a)

Passed(g) == HasAnswer(g) /\ outcome[g].type # "reject"

PassedAreConsented ==
  \A g \in Group : mode[g] = "all_of" /\ Passed(g) => Consented(g)

UnaskedGatesAreIdle ==
  \A g \in Group : mode[g] = "none" => gate[g] = "none" /\ outcome[g] = NoAnswer

\* A group in which all have decided gets no more rows, and its rows stay
\* decided.
Stays(g) ==
  /\ mode'[g] = mode[g]
  /\ \A a \in Approval : group'[a] = g <=> group[a] = g
  /\ \A a \in Approval : group[a] = g => status'[a] = "decided"

LEMMA DecidedGroupsStay ==
  ASSUME TypeOK, RowsOK, [Next]_vars, NEW g \in Group, mode[g] = "all_of", AllDecided(g)
  PROVE  Stays(g)
<1>1. \A a \in Approval : group[a] = g => Exists(a) /\ status[a] = "decided"
  <2>1. \A a \in Approval : group[a] = g => status[a] = "decided"
    BY DEF AllDecided, DecidedRows, GroupRows
  <2> QED
    BY <2>1 DEF Exists
<1>2. CASE UNCHANGED <<rows, books>>
  BY <1>1, <1>2 DEF rows, Stays
<1>3. ASSUME NEW h \in Group, NEW m \in {"any_of", "all_of"}, NEW S \in SUBSET Approval,
             Asked(h, m, S)
      PROVE  Stays(g)
  BY <1>1, <1>3 DEF Asked, Stays, Exists
<1>4. CASE AutoApproved
  BY <1>1, <1>4 DEF AutoApproved, Stays
<1>5. ASSUME NEW r \in Request, NEW b \in Approval, NEW R \in SUBSET Approval, Answered(r, b, R)
      PROVE  Stays(g)
  BY <1>1, <1>5 DEF Answered, Stays
<1>6. ASSUME NEW b \in Approval, TimedOut(b) PROVE Stays(g)
  BY <1>1, <1>6 DEF TimedOut, Stays, Pending
<1>7. ASSUME NEW b \in Approval, NEW c \in Approval, HandedOver(b, c) PROVE Stays(g)
  BY <1>1, <1>7 DEF HandedOver, Stays, Pending
<1> QED
  BY <1>2, <1>3, <1>4, <1>5, <1>6, <1>7, TableSteps

\* A committed decision is never changed or removed.
LEMMA DecisionsRemain ==
  ASSUME TypeOK, DecisionsAreFinal, [Next]_vars, NEW r \in Request, decision[r] # NoApproval
  PROVE  decision'[r] = decision[r]
<1>1. phase[r] = "done"
  BY DEF DecisionsAreFinal
<1>2. ASSUME NEW q \in Request, DecideCommit(q) PROVE decision'[r] = decision[r]
  BY <1>1, <1>2 DEF DecideCommit, Written, TypeOK
<1>3. ASSUME ~\E q \in Request : DecideCommit(q) PROVE decision' = decision
  BY <1>3
  DEF Next, Submit, RequestHuman, AutoApprove, Expire, Decide, DecideRead, DecideRefuse,
      DecideFlush, DecideMatch, DecideAbort, Work, Poll, Evaluate, TimeOut, Escalate, Skip,
      WorkerError, WorkerCrash, books, vars
<1> QED
  BY <1>2, <1>3

\* A decision that was made keeps its answer.
LEMMA AnswersStay ==
  ASSUME GateTypeOK, DecisionsAreFinal, [GateNext]_gateVars,
         NEW r \in Request, decision[r] # NoApproval
  PROVE  decision'[r] = decision[r] /\ answer'[r] = answer[r]
<1>1. decision'[r] = decision[r]
  BY GateStepsAreSteps, DecisionsRemain DEF GateTypeOK
<1>2. CASE Serve
  BY <1>1, <1>2 DEF Serve, GateTypeOK
<1>3. ~Serve => answer' = answer
  BY DEF GateNext, GateStep, GateAutoApproved, GateSubmit, PollAnswered, PollRaises, GiveUp, Ack,
         AckRefused, Disconnect, gateVars
<1> QED
  BY <1>1, <1>2, <1>3

\* What had consented still has.
LEMMA ConsentStays ==
  ASSUME GateTypeOK, RowsOK, DecisionsAreFinal, [GateNext]_gateVars,
         NEW g \in Group, mode[g] = "all_of", Consented(g)
  PROVE  mode'[g] = "all_of" /\ Consented(g)'
<1>1. Stays(g)
  BY GateStepsAreSteps, DecidedGroupsStay DEF Consented, GateTypeOK
<1>2. AllDecided(g)'
  BY <1>1 DEF Stays, AllDecided, DecidedRows, GroupRows
<1>3. ASSUME NEW a \in Approval, group'[a] = g PROVE NotRejectedBy(a)'
  <2>1. PICK r \in Request : decision[r] = a /\ answer[r].type # "reject"
    BY <1>1, <1>3 DEF Stays, Consented, GroupRows, NotRejectedBy, DecisionsOf
  <2>2. decision'[r] = a /\ answer'[r] = answer[r]
    BY <2>1, AnswersStay, ConstantsAssumption
  <2> QED
    BY <2>1, <2>2 DEF NotRejectedBy, DecisionsOf
<1> QED
  BY <1>1, <1>2, <1>3 DEF Stays, Consented, GroupRows

\* What a poll of the group may answer other than "reject", all consented to.
LEMMA PolledIsConsented ==
  ASSUME NEW g \in Group, mode[g] = "all_of", NEW x \in Polled(g), x.type # "reject"
  PROVE  Consented(g)
<1>1. PICK pick \in Picks(g) : x \in Aggregate(g, {answer[pick[a]] : a \in DecidedRows(g)})
  BY DEF Polled, GroupAnswers
<1> DEFINE answers == {answer[pick[a]] : a \in DecidedRows(g)}
<1>2. OfType(answers, "reject") = {} /\ AllDecided(g)
  <2> HIDE DEF answers
  <2>1. x \in Aggregate(g, answers)
    BY <1>1 DEF answers
  <2>2. x \notin OfType(answers, "reject")
    BY DEF OfType
  <2> QED
    BY <2>1, <2>2 DEF Aggregate
<1>3. ASSUME NEW a \in GroupRows(g) PROVE NotRejectedBy(a)
  <2>1. a \in DecidedRows(g)
    BY <1>2, <1>3 DEF AllDecided
  <2>2. pick[a] \in Request /\ decision[pick[a]] = a
    BY <1>1, <2>1 DEF Picks
  <2>3. answer[pick[a]].type # "reject"
    BY <1>2, <2>1 DEF OfType
  <2> QED
    BY <2>2, <2>3 DEF NotRejectedBy, DecisionsOf
<1> QED
  BY <1>2, <1>3 DEF Consented

\* The gate of a group that was not asked has done nothing.
THEOREM UnaskedGatesStayIdle == GateSpec => []UnaskedGatesAreIdle
<1>1. GateInit => UnaskedGatesAreIdle
  BY DEF GateInit, UnaskedGatesAreIdle, Init
<1>2. GateTypeOK /\ UnaskedGatesAreIdle /\ [GateNext]_gateVars => UnaskedGatesAreIdle'
  <2> SUFFICES ASSUME GateTypeOK, UnaskedGatesAreIdle, [GateNext]_gateVars,
                      NEW h \in Group, mode'[h] = "none"
               PROVE  gate'[h] = "none" /\ outcome'[h] = NoAnswer
    BY DEF UnaskedGatesAreIdle
  <2> USE DEF UnaskedGatesAreIdle, GateTypeOK, TypeOK
  <2>1. CASE Serve
    <3>1. mode' = mode
      BY <2>1 DEF Serve, Expire, Decide, DecideRead, DecideRefuse, DecideFlush, DecideMatch,
                  DecideCommit, DecideAbort, Work, Poll, Evaluate, TimeOut, Escalate, Skip,
                  WorkerError, WorkerCrash, rows
    <3> QED
      BY <2>1, <3>1 DEF Serve, gates
  <2>2. ASSUME NEW g \in Group, GateStep(g) PROVE gate'[h] = "none" /\ outcome'[h] = NoAnswer
    <3>1. CASE GateAutoApproved(g)
      BY <3>1 DEF GateAutoApproved, AutoApprove
    <3>2. ASSUME NEW m \in {"any_of", "all_of"}, NEW S \in SUBSET Approval, NEW a \in S,
                 GateSubmit(g, m, S, a)
          PROVE  gate'[h] = "none" /\ outcome'[h] = NoAnswer
      BY <3>2 DEF GateSubmit, RequestHuman
    <3>3. CASE PollAnswered(g) \/ PollRaises(g) \/ GiveUp(g) \/ Ack(g) \/ AckRefused(g) \/ Disconnect(g)
      BY <3>3 DEF PollAnswered, PollRaises, GiveUp, Ack, AckRefused, Disconnect, vars, rows
    <3> QED
      BY <2>2, <3>1, <3>2, <3>3 DEF GateStep
  <2>3. CASE UNCHANGED gateVars
    BY <2>3 DEF gateVars, gates, vars, rows
  <2> QED
    BY <2>1, <2>2, <2>3 DEF GateNext
<1> QED
  BY <1>1, <1>2, GateTypeCorrect, PTL DEF GateSpec

\* An all_of gate goes on with an approval or a modification only if every
\* row of the group, those of later escalations included, has an answer that
\* is not a rejection; and it stays so.
THEOREM GateOverrulesNobody == GateSpec => []NobodyIsOverruled
<1>1. GateInit => PassedAreConsented
  BY DEF GateInit, PassedAreConsented, Passed, HasAnswer
<1>2. GateTypeOK /\ RowsOK /\ DecisionsAreFinal /\ UnaskedGatesAreIdle /\ PassedAreConsented
        /\ [GateNext]_gateVars => PassedAreConsented'
  <2> SUFFICES ASSUME GateTypeOK, RowsOK, DecisionsAreFinal, UnaskedGatesAreIdle,
                      PassedAreConsented, [GateNext]_gateVars,
                      NEW h \in Group, mode'[h] = "all_of", Passed(h)'
               PROVE  Consented(h)'
    BY DEF PassedAreConsented
  <2>1. ASSUME mode[h] = "all_of", Consented(h) PROVE Consented(h)'
    BY <2>1, ConsentStays
  <2>2. ASSUME mode[h] = "all_of", outcome'[h] = outcome[h] PROVE Consented(h)'
    BY <2>1, <2>2 DEF PassedAreConsented, Passed, HasAnswer
  <2>3. ASSUME UNCHANGED outcome PROVE Consented(h)'
    <3>1. CASE mode[h] = "all_of"
      BY <2>2, <2>3, <3>1
    <3>2. CASE mode[h] # "all_of"
      <4>1. [Next]_vars /\ mode'[h] # mode[h]
        BY <3>2, GateStepsAreSteps
      <4>2. mode[h] = "none"
        BY <4>1 DEF Next, Submit, RequestHuman, AutoApprove, Expire, Decide, DecideRead,
            DecideRefuse, DecideFlush, DecideMatch, DecideCommit, DecideAbort, Work, Poll,
            Evaluate, TimeOut, Escalate, Skip, WorkerError, WorkerCrash, rows, vars, GateTypeOK,
            TypeOK
      <4> QED
        BY <2>3, <4>2 DEF UnaskedGatesAreIdle, Passed, HasAnswer
    <3> QED
      BY <3>1, <3>2
  <2>4. CASE Serve \/ UNCHANGED gateVars
    BY <2>3, <2>4 DEF Serve, gateVars, gates
  <2>5. ASSUME NEW g \in Group, GateAutoApproved(g) PROVE Consented(h)'
    <3>1. g # h /\ mode'[h] = mode[h] /\ outcome'[h] = outcome[h]
      BY <2>5 DEF GateAutoApproved, AutoApprove, GateTypeOK, TypeOK
    <3> QED
      BY <2>2, <3>1
  <2>6. ASSUME NEW g \in Group, PollAnswered(g) PROVE Consented(h)'
    <3>1. UNCHANGED vars
      BY <2>6 DEF PollAnswered
    <3>2. mode[h] = "all_of"
      BY <3>1 DEF vars, rows
    <3>3. CASE g # h
      BY <2>2, <2>6, <3>2, <3>3 DEF PollAnswered, GateTypeOK
    <3>4. CASE g = h
      <4>1. outcome'[h] \in Polled(h) /\ outcome'[h].type # "reject"
        BY <2>6, <3>4 DEF PollAnswered, Passed, GateTypeOK
      <4> QED
        BY <2>1, <3>2, <4>1, PolledIsConsented
    <3> QED
      BY <3>3, <3>4
  <2>7. ASSUME NEW g \in Group, GateStep(g), ~GateAutoApproved(g), ~PollAnswered(g)
        PROVE  Consented(h)'
    BY <2>3, <2>7 DEF GateStep, GateSubmit, PollRaises, GiveUp, Ack, AckRefused, Disconnect
  <2> QED
    BY <2>4, <2>5, <2>6, <2>7 DEF GateNext
<1>3. PassedAreConsented => NobodyIsOverruled
  BY DEF PassedAreConsented, NobodyIsOverruled, Passed, Consented, NotRejectedBy
<1> QED
  BY <1>1, <1>2, <1>3, GateTypeCorrect, UnaskedGatesStayIdle, GateImplementsApprovals,
     RowsAreWellFormed, DecisionsStay, PTL DEF GateSpec

-----------------------------------------------------------------------------
(* The answers the gates go on with.  An any_of gate polls the row that    *)
(* opened its group: nobody else is ever asked while that row is pending,  *)
(* so no decision about another row supersedes it.  An all_of gate polls   *)
(* the group: a rejection stays one, and a group in which all have decided *)
(* gets no more rows.                                                      *)

\* A row that opened its group, not one that another was escalated to.
Opened(a) == Exists(a) /\ \A b \in Approval : escalatedTo[b] # a

OpenedAnyOf(a) == Opened(a) /\ mode[group[a]] = "any_of"

\* The row that opened an any_of group is the only one while it is pending,
\* and no transaction is about to supersede it.
OpeningRowsAreSafe ==
  \A a \in Approval : OpenedAnyOf(a) =>
    /\ Pending(a) => \A b \in Approval : SameGroup(b, a) => b = a
    /\ \A r \in Request : a \notin rivals[r]

DecidedHaveDecisions ==
  \A a \in Approval : status[a] = "decided" => \E r \in Request : decision[r] = a

-----------------------------------------------------------------------------
(* Rows and their decisions *)

LEMMA ModesStay ==
  ASSUME TypeOK, RowsOK, [Next]_vars, NEW g \in Group, mode[g] # "none"
  PROVE  mode'[g] = mode[g]
BY TableSteps DEF Asked, AutoApproved, Answered, TimedOut, HandedOver, rows

LEMMA RowsKeepTheirGroup ==
  ASSUME TypeOK, RowsOK, [Next]_vars, NEW a \in Approval, Exists(a)
  PROVE  /\ Exists(a)'
         /\ group'[a] = group[a]
         /\ group[a] \in Group
         /\ mode'[group[a]] = mode[group[a]]
<1>1. group[a] \in Group /\ mode[group[a]] # "none"
  BY DEF RowsOK, RowsHaveAGroup
<1>2. mode'[group[a]] = mode[group[a]]
  BY <1>1, ModesStay
<1>3. group'[a] = group[a]
  BY TableSteps DEF Asked, AutoApproved, Answered, TimedOut, HandedOver, rows
<1>4. Exists(a)'
  BY RowStatusSteps DEF Exists
<1> QED
  BY <1>1, <1>2, <1>3, <1>4

\* A decided row changes only when a transaction that matched it commits.
LEMMA DecidedRowsChangeByDecision ==
  ASSUME TypeOK, RowsOK, [Next]_vars, NEW a \in Approval,
         status[a] = "decided", status'[a] # "decided"
  PROVE  \E r \in Request : a \in rivals[r]
<1>1. ASSUME NEW r \in Request, DecideCommit(r) PROVE a \in rivals[r]
  BY <1>1, DecideCommitWritesExistingRows DEF RowsOK
<1>2. ASSUME NEW r \in Request, Decide(r), ~DecideCommit(r) PROVE FALSE
  BY <1>2 DEF Decide, DecideRead, DecideRefuse, DecideFlush, DecideMatch, DecideAbort, rows
<1>3. ASSUME NEW w \in Worker, TimeOut(w) PROVE FALSE
  BY <1>3, TimedOutStep DEF TimedOut, Pending
<1>4. ASSUME NEW w \in Worker, NEW b \in Approval, Escalate(w, b) PROVE FALSE
  BY <1>4, HandedOverStep DEF HandedOver, Pending, Exists
<1>5. ASSUME NEW w \in Worker, Work(w), ~TimeOut(w), ~\E b \in Approval : Escalate(w, b)
      PROVE  FALSE
  BY <1>5 DEF Work, Poll, Evaluate, Skip, WorkerError, WorkerCrash, rows
<1>6. ASSUME NEW g \in Group, NEW m \in {"any_of", "all_of"}, NEW S \in SUBSET Approval,
             RequestHuman(g, m, S)
      PROVE  FALSE
  BY <1>6, AskedStep DEF Asked, Exists
<1>7. ASSUME NEW g \in Group, AutoApprove(g) PROVE FALSE
  BY <1>7 DEF AutoApprove
<1>8. (\E b \in Approval : Expire(b)) \/ UNCHANGED vars => FALSE
  BY DEF Expire, vars, rows
<1> QED
  BY <1>1, <1>2, <1>3, <1>4, <1>5, <1>6, <1>7, <1>8 DEF Next, Submit

\* A decided row has a committed decision.
THEOREM DecidedRowsHaveDecisions == Spec => []DecidedHaveDecisions
<1>1. Init => DecidedHaveDecisions
  BY DEF Init, DecidedHaveDecisions
<1>2. TypeOK /\ RowsOK /\ DecisionsAreFinal /\ DecidedHaveDecisions /\ [Next]_vars
        => DecidedHaveDecisions'
  <2> SUFFICES ASSUME TypeOK, RowsOK, DecisionsAreFinal, DecidedHaveDecisions, [Next]_vars,
                      NEW a \in Approval, status'[a] = "decided"
               PROVE  \E r \in Request : decision'[r] = a
    BY DEF DecidedHaveDecisions
  <2>1. CASE status[a] = "decided"
    BY <2>1, DecisionsRemain, ConstantsAssumption DEF DecidedHaveDecisions
  <2>2. CASE status[a] # "decided"
    BY <2>2, TableSteps DEF Asked, AutoApproved, Answered, TimedOut, HandedOver, rows
  <2> QED
    BY <2>1, <2>2
<1> QED
  BY <1>1, <1>2, TypeCorrect, RowsAreWellFormed, DecisionsStay, PTL DEF Spec

\* Nothing is ever escalated to a row that has opened its group.
LEMMA OpenedRowsStayOpened ==
  ASSUME TypeOK, RowsOK, [Next]_vars, NEW a \in Approval, Opened(a)
  PROVE  Opened(a)'
<1>1. Exists(a)'
  BY RowsKeepTheirGroup DEF Opened
<1>2. \A b \in Approval : escalatedTo'[b] # a
  BY TableSteps DEF Asked, AutoApproved, Answered, TimedOut, HandedOver, rows, Opened
<1> QED
  BY <1>1, <1>2 DEF Opened

\* A transaction matches the rows that are pending when it looks.
LEMMA NewRivalsArePending ==
  ASSUME TypeOK, RowsOK, [Next]_vars, NEW r \in Request, NEW a \in rivals'[r], a \notin rivals[r]
  PROVE  target[r] \in Approval /\ a # target[r] /\ SameGroup(a, target[r]) /\ Pending(a)
<1>1. ASSUME NEW q \in Request, DecideMatch(q)
      PROVE  target[r] \in Approval /\ a \in Rivals(target[r])
  BY <1>1 DEF DecideMatch, RowsOK, ReferencesExist, TypeOK
<1>2. ASSUME NEW q \in Request, Decide(q), ~DecideMatch(q) PROVE FALSE
  BY <1>2 DEF Decide, DecideRead, DecideRefuse, DecideFlush, DecideCommit, DecideAbort, TypeOK
<1>3. ASSUME NEW w \in Worker, Work(w) PROVE UNCHANGED decides
  BY <1>3 DEF Work, Poll, Evaluate, TimeOut, Escalate, Skip, WorkerError, WorkerCrash
<1>4. (Submit \/ (\E b \in Approval : Expire(b)) \/ UNCHANGED vars) => UNCHANGED decides
  BY DEF Submit, RequestHuman, AutoApprove, Expire, vars
<1> QED
  BY <1>1, <1>2, <1>3, <1>4 DEF Next, decides, Rivals

\* While the row that opened an any_of group is pending it is the only row of
\* the group, so that nobody can supersede it.
THEOREM OpeningRowsStaySafe == Spec => []OpeningRowsAreSafe
<1>1. Init => OpeningRowsAreSafe
  BY DEF Init, OpeningRowsAreSafe, OpenedAnyOf, Opened, Exists
<1>2. TypeOK /\ RowsOK /\ PendingIsUntouched /\ OpeningRowsAreSafe /\ [Next]_vars
        => OpeningRowsAreSafe'
  <2> SUFFICES ASSUME TypeOK, RowsOK, PendingIsUntouched, OpeningRowsAreSafe, [Next]_vars,
                      NEW a \in Approval, OpenedAnyOf(a)'
               PROVE  /\ Pending(a)' => \A b \in Approval : SameGroup(b, a)' => b = a
                      /\ \A r \in Request : a \notin rivals'[r]
    BY DEF OpeningRowsAreSafe
  <2>1. CASE Opened(a)
    <3>1. OpenedAnyOf(a)
      BY <2>1, RowsKeepTheirGroup DEF OpenedAnyOf, Opened
    <3>2. ASSUME status'[a] = "pending", NEW b \in Approval, group'[b] = group'[a] PROVE b = a
      <4>1. status[a] = "pending" /\ group'[a] = group[a]
        BY <2>1, <3>2, RowStatusSteps, RowsKeepTheirGroup DEF Opened, Exists
      <4>2. \A c \in Approval : group[c] = group[a] => c = a
        BY <3>1, <4>1 DEF OpeningRowsAreSafe, Pending, SameGroup
      <4>3. CASE group'[b] = group[b]
        BY <3>2, <4>1, <4>2, <4>3
      <4>4. ASSUME NEW g \in Group, NEW m \in {"any_of", "all_of"}, NEW S \in SUBSET Approval,
                   Asked(g, m, S)
            PROVE  b = a
        BY <2>1, <3>2, <4>1, <4>2, <4>4 DEF Asked, Opened
      <4>5. ASSUME NEW c \in Approval, NEW d \in Approval, HandedOver(c, d) PROVE b = a
        BY <3>2, <4>1, <4>2, <4>5 DEF HandedOver
      <4> QED
        BY <4>3, <4>4, <4>5, TableSteps DEF AutoApproved, Answered, TimedOut, rows
    <3>3. ASSUME NEW r \in Request, a \in rivals'[r] PROVE FALSE
      <4>1. a \notin rivals[r]
        BY <3>1 DEF OpeningRowsAreSafe
      <4>2. target[r] \in Approval /\ a # target[r] /\ SameGroup(a, target[r]) /\ Pending(a)
        BY <3>3, <4>1, NewRivalsArePending
      <4> QED
        BY <3>1, <4>2 DEF OpeningRowsAreSafe, SameGroup
    <3> QED
      BY <3>2, <3>3 DEF Pending, SameGroup
  <2>2. CASE ~Opened(a)
    <3>1. ~Exists(a)
      <4> SUFFICES ASSUME NEW b \in Approval, escalatedTo[b] = a PROVE escalatedTo'[b] = a
        BY <2>2 DEF OpenedAnyOf, Opened
      <4>1. ~Pending(b)
        BY ConstantsAssumption DEF PendingIsUntouched
      <4> QED
        BY <4>1, TableSteps DEF Asked, AutoApproved, Answered, TimedOut, HandedOver, rows
    <3>2. status'[a] # status[a] /\ \A b \in Approval : escalatedTo'[b] # a
      BY <3>1 DEF OpenedAnyOf, Opened, Exists
    <3>3. \E g \in Group, m \in {"any_of", "all_of"}, S \in SUBSET Approval :
            Asked(g, m, S) /\ a \in S
      BY <3>1, <3>2, TableSteps DEF Asked, AutoApproved, Answered, TimedOut, HandedOver, rows,
                                    Exists, Pending
    <3>4. ASSUME NEW b \in Approval, group'[b] = group'[a] PROVE b = a
      <4>1. PICK g \in Group, m \in {"any_of", "all_of"}, S \in SUBSET Approval :
              Asked(g, m, S) /\ a \in S
        BY <3>3
      <4>2. group'[a] = g /\ mode'[g] = m /\ m = "any_of"
        BY <4>1 DEF Asked, OpenedAnyOf
      <4>3. group[b] # g
        <5>1. Exists(b) => group[b] # g
          BY <4>1 DEF Asked
        <5>2. ~Exists(b) => group[b] = NoGroup
          BY DEF RowsOK, AbsentRowsAreBlank
        <5>3. g # NoGroup
          BY ConstantsAssumption
        <5> QED
          BY <5>1, <5>2, <5>3
      <4>4. b \in S
        BY <3>4, <4>1, <4>2, <4>3 DEF Asked
      <4> QED
        BY <4>1, <4>2, <4>4 DEF Asked
    <3>5. ASSUME NEW r \in Request, a \in rivals'[r] PROVE FALSE
      BY <3>1, <3>5, NewRivalsArePending DEF RowsOK, ReferencesExist, Exists, Pending
    <3> QED
      BY <3>4, <3>5 DEF SameGroup
  <2> QED
    BY <2>1, <2>2
<1> QED
  BY <1>1, <1>2, TypeCorrect, RowsAreWellFormed, PendingRowsAreUntouched, PTL DEF Spec

-----------------------------------------------------------------------------
(* The row a gate polls *)

\* A gate that has submitted knows a row that opened its group.
FirstsOK ==
  \A g \in Group :
    /\ \A a \in Approval : first[g] = a =>
         Opened(a) /\ group[a] = g /\ mode[g] \in {"any_of", "all_of"}
    /\ gate[g] \in {"waiting", "answered"} \/ HasAnswer(g) => first[g] # NoApproval

\* What a step may do to a gate whose group was asked.
GoesOn(h) ==
  /\ first'[h] = first[h]
  /\ outcome'[h] # outcome[h] => PollAnswered(h)
  /\ gate'[h] = "waiting" => gate[h] = "waiting"
  /\ gate'[h] = "answered" => gate[h] = "answered" \/ PollAnswered(h)
  /\ gate[h] \in {"resumed", "lost"} => gate'[h] = gate[h]

LEMMA AskedGatesGoOn ==
  ASSUME GateTypeOK, [GateNext]_gateVars, NEW h \in Group, mode[h] # "none"
  PROVE  GoesOn(h)
<1> USE DEF GoesOn, GateTypeOK, Gate
<1>1. CASE Serve \/ UNCHANGED gateVars
  BY <1>1 DEF Serve, gates, gateVars
<1>2. ASSUME NEW g \in Group, GateAutoApproved(g) PROVE GoesOn(h)
  BY <1>2 DEF GateAutoApproved, AutoApprove
<1>3. ASSUME NEW g \in Group, NEW m \in {"any_of", "all_of"}, NEW S \in SUBSET Approval, NEW a \in S,
             GateSubmit(g, m, S, a)
      PROVE  GoesOn(h)
  BY <1>3 DEF GateSubmit, RequestHuman
<1>4. ASSUME NEW g \in Group, PollAnswered(g) PROVE GoesOn(h)
  <2>1. CASE g = h
    BY <1>4, <2>1 DEF PollAnswered
  <2>2. CASE g # h
    BY <1>4, <2>2 DEF PollAnswered
  <2> QED
    BY <2>1, <2>2
<1>5. ASSUME NEW g \in Group, PollRaises(g) PROVE GoesOn(h)
  BY <1>5 DEF PollRaises
<1>6. ASSUME NEW g \in Group, GiveUp(g) \/ Ack(g) \/ AckRefused(g) \/ Disconnect(g) PROVE GoesOn(h)
  BY <1>6 DEF GiveUp, Ack, AckRefused, Disconnect
<1> QED
  BY <1>1, <1>2, <1>3, <1>4, <1>5, <1>6 DEF GateNext, GateStep

\* The gate of a group that was not asked learns its row when it submits.
LEMMA SubmittingGateLearnsItsRow ==
  ASSUME GateTypeOK, RowsOK, FirstsOK, UnaskedGatesAreIdle, [GateNext]_gateVars,
         NEW h \in Group, mode[h] = "none"
  PROVE  /\ \A a \in Approval : first'[h] = a =>
              Opened(a)' /\ group'[a] = h /\ mode'[h] \in {"any_of", "all_of"}
         /\ gate'[h] = "waiting" => first'[h] # NoApproval
         /\ gate'[h] # "answered"
         /\ outcome'[h] \in {NoAnswer, AutoApproval}
<1> USE DEF GateTypeOK, Gate
<1>1. first[h] = NoApproval /\ gate[h] = "none" /\ outcome[h] = NoAnswer
  BY DEF FirstsOK, UnaskedGatesAreIdle
<1>2. CASE Serve \/ UNCHANGED gateVars
  BY <1>1, <1>2, ConstantsAssumption DEF Serve, gates, gateVars
<1>3. ASSUME NEW g \in Group, GateStep(g), ~\E m \in {"any_of", "all_of"}, S \in SUBSET Approval :
               \E a \in S : GateSubmit(g, m, S, a)
      PROVE  /\ first'[h] = NoApproval
             /\ gate'[h] \notin {"waiting", "answered"}
             /\ outcome'[h] \in {NoAnswer, AutoApproval}
  <2>1. CASE GateAutoApproved(g)
    BY <1>1, <2>1 DEF GateAutoApproved
  <2>2. CASE PollAnswered(g) \/ PollRaises(g) \/ GiveUp(g) \/ Ack(g) \/ AckRefused(g) \/ Disconnect(g)
    BY <1>1, <2>2 DEF PollAnswered, PollRaises, GiveUp, Ack, AckRefused, Disconnect
  <2> QED
    BY <1>3, <2>1, <2>2 DEF GateStep
<1>4. ASSUME NEW g \in Group, NEW m \in {"any_of", "all_of"}, NEW S \in SUBSET Approval, NEW a \in S,
             GateSubmit(g, m, S, a)
      PROVE  /\ a \in Approval /\ Opened(a)' /\ group'[a] = g /\ mode'[g] = m
             /\ outcome' = outcome
             /\ g # h => first'[h] = first[h] /\ gate'[h] = gate[h]
             /\ g = h => \/ first'[h] = a /\ gate'[h] = "waiting"
                         \/ first'[h] = first[h] /\ gate'[h] = "lost"
  <2>1. Asked(g, m, S)
    BY <1>4, AskedStep DEF GateSubmit
  <2>2. Opened(a)' /\ group'[a] = g /\ mode'[g] = m
    BY <2>1 DEF Asked, Opened, Exists, RowsOK, AbsentRowsAreBlank
  <2> QED
    BY <1>4, <2>2 DEF GateSubmit
<1> QED
  BY <1>1, <1>2, <1>3, <1>4, ConstantsAssumption DEF GateNext

\* The row a gate polls has opened the group the gate submitted.
THEOREM GatesPollTheOpeningRow == GateSpec => []FirstsOK
<1>1. GateInit => FirstsOK
  BY ConstantsAssumption DEF GateInit, FirstsOK, HasAnswer
<1>2. GateTypeOK /\ RowsOK /\ UnaskedGatesAreIdle /\ FirstsOK /\ [GateNext]_gateVars => FirstsOK'
  <2> SUFFICES ASSUME GateTypeOK, RowsOK, UnaskedGatesAreIdle, FirstsOK, [GateNext]_gateVars,
                      NEW h \in Group
               PROVE  /\ \A a \in Approval : first'[h] = a =>
                           Opened(a)' /\ group'[a] = h /\ mode'[h] \in {"any_of", "all_of"}
                      /\ gate'[h] \in {"waiting", "answered"} \/ HasAnswer(h)' => first'[h] # NoApproval
    BY DEF FirstsOK
  <2>1. CASE mode[h] = "none"
    BY <2>1, SubmittingGateLearnsItsRow DEF HasAnswer
  <2>2. CASE mode[h] # "none"
    <3>1. GoesOn(h) /\ [Next]_vars /\ TypeOK
      BY <2>2, AskedGatesGoOn, GateStepsAreSteps DEF GateTypeOK
    <3>2. first'[h] = first[h]
      BY <3>1 DEF GoesOn
    <3>3. gate'[h] \in {"waiting", "answered"} \/ HasAnswer(h)' => first[h] # NoApproval
      BY <3>1 DEF GoesOn, FirstsOK, PollAnswered, HasAnswer
    <3>4. ASSUME NEW a \in Approval, first[h] = a
          PROVE  Opened(a)' /\ group'[a] = h /\ mode'[h] = mode[h] /\ mode[h] \in {"any_of", "all_of"}
      <4>1. Opened(a) /\ group[a] = h /\ mode[h] \in {"any_of", "all_of"}
        BY <3>4 DEF FirstsOK
      <4>2. Opened(a)'
        BY <3>1, <4>1, OpenedRowsStayOpened
      <4>3. group'[a] = h /\ mode'[h] = mode[h]
        BY <3>1, <4>1, RowsKeepTheirGroup DEF Opened
      <4> QED
        BY <4>1, <4>2, <4>3
    <3> QED
      BY <3>2, <3>3, <3>4
  <2> QED
    BY <2>1, <2>2
<1> QED
  BY <1>1, <1>2, GateTypeCorrect, GateImplementsApprovals, RowsAreWellFormed,
     UnaskedGatesStayIdle, PTL DEF GateSpec

-----------------------------------------------------------------------------
(* The answer of an any_of gate *)

\* What an any_of gate goes on with is an answer to the row it polls, which
\* stays decided.
AnsweredBy(a, x) == status[a] = "decided" /\ \E r \in DecisionsOf(a) : answer[r] = x

AnyOfAnswersOK ==
  \A g \in Group : mode[g] = "any_of" /\ (gate[g] = "answered" \/ HasAnswer(g)) =>
    first[g] \in Approval /\ AnsweredBy(first[g], outcome[g])

\* The row that opened an any_of group stays decided, with the answers it has.
LEMMA OpeningAnswersStay ==
  ASSUME GateTypeOK, RowsOK, DecisionsAreFinal, OpeningRowsAreSafe, [GateNext]_gateVars,
         NEW a \in Approval, OpenedAnyOf(a), NEW x, AnsweredBy(a, x)
  PROVE  status'[a] = "decided" /\ \E r \in Request : decision'[r] = a /\ answer'[r] = x
<1>1. [Next]_vars /\ TypeOK
  BY GateStepsAreSteps DEF GateTypeOK
<1>2. status'[a] = "decided"
  BY <1>1, DecidedRowsChangeByDecision DEF AnsweredBy, OpeningRowsAreSafe
<1>3. PICK r \in Request : decision[r] = a /\ answer[r] = x
  BY DEF AnsweredBy, DecisionsOf
<1>4. decision'[r] = a /\ answer'[r] = x
  BY <1>3, AnswersStay, ConstantsAssumption
<1> QED
  BY <1>2, <1>4

\* An any_of gate goes on with an answer to the row it polled, and that row
\* keeps this answer, whatever becomes of rows it was escalated to.
THEOREM AnyOfAnswersStand == GateSpec => []AnyOfAnswersOK
<1>1. GateInit => AnyOfAnswersOK
  BY DEF GateInit, AnyOfAnswersOK, HasAnswer
<1>2. GateTypeOK /\ RowsOK /\ DecisionsAreFinal /\ OpeningRowsAreSafe /\ FirstsOK
        /\ UnaskedGatesAreIdle /\ AnyOfAnswersOK /\ [GateNext]_gateVars => AnyOfAnswersOK'
  <2> SUFFICES ASSUME GateTypeOK, RowsOK, DecisionsAreFinal, OpeningRowsAreSafe, FirstsOK,
                      UnaskedGatesAreIdle, AnyOfAnswersOK, [GateNext]_gateVars,
                      NEW h \in Group, mode'[h] = "any_of",
                      gate'[h] = "answered" \/ HasAnswer(h)'
               PROVE  /\ first'[h] \in Approval
                      /\ status'[first'[h]] = "decided"
                      /\ \E r \in Request : decision'[r] = first'[h] /\ answer'[r] = outcome'[h]
    BY DEF AnyOfAnswersOK, AnsweredBy, DecisionsOf
  <2>1. mode[h] # "none"
    BY SubmittingGateLearnsItsRow DEF HasAnswer
  <2>2. GoesOn(h) /\ mode[h] = "any_of"
    BY <2>1, AskedGatesGoOn, ModesStay, GateStepsAreSteps DEF GateTypeOK
  <2>3. CASE PollAnswered(h)
    <3>1. mode' = mode /\ status' = status /\ decision' = decision /\ answer' = answer
      BY <2>3 DEF PollAnswered, vars, rows, books
    <3>2. first[h] \in Approval /\ first'[h] = first[h]
      BY <2>2, <2>3 DEF PollAnswered, FirstsOK, GateTypeOK, GoesOn
    <3>3. outcome'[h] \in RowAnswers(first[h])
      BY <2>2, <2>3 DEF PollAnswered, Polled, GateTypeOK
    <3> QED
      BY <3>1, <3>2, <3>3 DEF RowAnswers, DecisionsOf
  <2>4. CASE ~PollAnswered(h)
    <3>1. first'[h] = first[h] /\ outcome'[h] = outcome[h]
      BY <2>2, <2>4 DEF GoesOn
    <3>2. gate[h] = "answered" \/ HasAnswer(h)
      BY <2>2, <2>4, <3>1 DEF GoesOn, HasAnswer
    <3>3. first[h] \in Approval /\ AnsweredBy(first[h], outcome[h])
      BY <2>2, <3>2 DEF AnyOfAnswersOK
    <3>4. OpenedAnyOf(first[h])
      BY <2>2, <3>3 DEF FirstsOK, OpenedAnyOf
    <3> QED
      BY <3>1, <3>3, <3>4, OpeningAnswersStay
  <2> QED
    BY <2>3, <2>4
<1> QED
  BY <1>1, <1>2, GateTypeCorrect, GateImplementsApprovals, RowsAreWellFormed, DecisionsStay,
     OpeningRowsStaySafe, GatesPollTheOpeningRow, UnaskedGatesStayIdle, PTL DEF GateSpec

\* What holds of an acknowledged decision: its gate is through, and an any_of
\* gate went on with that decision's answer.
AckedOK ==
  \A r \in acked : \E a \in Approval, g \in Group :
    /\ decision[r] = a /\ Exists(a) /\ group[a] = g
    /\ gate[g] \in {"resumed", "lost"}
    /\ mode[g] = "any_of" => outcome[g] = answer[r]

LEMMA AckedStaysOK ==
  ASSUME GateTypeOK, RowsOK, DecisionsAreFinal, [GateNext]_gateVars,
         NEW r \in Request, NEW a \in Approval, NEW g \in Group,
         decision[r] = a, Exists(a), group[a] = g, gate[g] \in {"resumed", "lost"},
         mode[g] = "any_of" => outcome[g] = answer[r]
  PROVE  /\ decision'[r] = a /\ Exists(a)' /\ group'[a] = g
         /\ gate'[g] \in {"resumed", "lost"}
         /\ mode'[g] = "any_of" => outcome'[g] = answer'[r]
<1>1. decision'[r] = a /\ answer'[r] = answer[r]
  BY AnswersStay, ConstantsAssumption
<1>2. Exists(a)' /\ group'[a] = g /\ mode'[g] = mode[g]
  BY GateStepsAreSteps, RowsKeepTheirGroup DEF GateTypeOK
<1>3. mode[g] # "none"
  BY DEF RowsOK, RowsHaveAGroup
<1>4. GoesOn(g)
  BY <1>3, AskedGatesGoOn
<1>5. gate'[g] = gate[g] /\ outcome'[g] = outcome[g]
  BY <1>4 DEF GoesOn, PollAnswered
<1> QED
  BY <1>1, <1>2, <1>5

\* An acknowledgement marks a decision about the row the gate polled, and of an
\* any_of gate the very answer it has.
LEMMA AckIsOK ==
  ASSUME GateTypeOK, RowsOK, FirstsOK, AnyOfAnswersOK, NEW g \in Group, Ack(g),
         NEW r \in acked', r \notin acked
  PROVE  \E a \in Approval :
           /\ r \in Request /\ decision'[r] = a /\ Exists(a)' /\ group'[a] = g
           /\ gate'[g] \in {"resumed", "lost"}
           /\ mode'[g] = "any_of" => outcome'[g] = answer'[r]
<1>1. /\ gate[g] = "answered" /\ r \in AckableEntries(first[g])
      /\ gate'[g] \in {"resumed", "lost"}
      /\ status' = status /\ group' = group /\ mode' = mode /\ decision' = decision
      /\ UNCHANGED <<answer, outcome>>
  BY DEF Ack, GateTypeOK, vars, rows, books
<1>2. first[g] \in Approval /\ Opened(first[g]) /\ group[first[g]] = g
  BY <1>1 DEF FirstsOK, GateTypeOK
<1>3. r \in DecisionsOf(first[g]) /\ \A q \in DecisionsOf(first[g]) : q = r
  BY <1>1 DEF AckableEntries
<1>4. mode[g] = "any_of" => outcome[g] = answer[r]
  BY <1>1, <1>3 DEF AnyOfAnswersOK, AnsweredBy
<1> QED
  BY <1>1, <1>2, <1>3, <1>4 DEF DecisionsOf, Opened, Exists

\* The decision an any_of gate acknowledges is the one it went on with.
THEOREM AcksMatchAnswers == GateSpec => []AckMatchesAnswer
<1>1. GateInit => AckedOK
  BY DEF GateInit, AckedOK
<1>2. GateTypeOK /\ RowsOK /\ DecisionsAreFinal /\ FirstsOK /\ AnyOfAnswersOK /\ AckedOK
        /\ [GateNext]_gateVars => AckedOK'
  <2> SUFFICES ASSUME GateTypeOK, RowsOK, DecisionsAreFinal, FirstsOK, AnyOfAnswersOK, AckedOK,
                      [GateNext]_gateVars, NEW r \in acked'
               PROVE  \E a \in Approval, g \in Group :
                        /\ decision'[r] = a /\ Exists(a)' /\ group'[a] = g
                        /\ gate'[g] \in {"resumed", "lost"}
                        /\ mode'[g] = "any_of" => outcome'[g] = answer'[r]
    BY DEF AckedOK
  <2>1. CASE r \in acked
    <3>1. PICK a \in Approval, g \in Group :
            /\ decision[r] = a /\ Exists(a) /\ group[a] = g
            /\ gate[g] \in {"resumed", "lost"}
            /\ mode[g] = "any_of" => outcome[g] = answer[r]
      BY <2>1 DEF AckedOK
    <3> QED
      BY <2>1, <3>1, AckedStaysOK DEF GateTypeOK
  <2>2. CASE r \notin acked
    <3>1. PICK g \in Group : Ack(g)
      BY <2>2 DEF GateNext, GateStep, Serve, gates, GateAutoApproved, GateSubmit, PollAnswered,
                  PollRaises, GiveUp, AckRefused, Disconnect, gateVars
    <3> QED
      BY <2>2, <3>1, AckIsOK
  <2> QED
    BY <2>1, <2>2
<1>3. AckedOK => AckMatchesAnswer
  BY DEF AckedOK, AckMatchesAnswer
<1> QED
  BY <1>1, <1>2, <1>3, GateTypeCorrect, GateImplementsApprovals, RowsAreWellFormed, DecisionsStay,
     GatesPollTheOpeningRow, AnyOfAnswersStand, PTL DEF GateSpec

-----------------------------------------------------------------------------
(* The answer of an all_of gate *)

\* The answers that one decision of each decided row gives.
AnswersOf(g, pick) == {answer[pick[a]] : a \in DecidedRows(g)}

\* What rows of an all_of group have decided stays decided.
LEMMA AllOfRowsStayDecided ==
  ASSUME TypeOK, RowsOK, [Next]_vars, NEW g \in Group, mode[g] = "all_of",
         NEW a \in DecidedRows(g)
  PROVE  group'[a] = g /\ status'[a] = "decided"
<1>1. a \in Approval /\ group[a] = g /\ status[a] = "decided" /\ Exists(a)
  BY DEF DecidedRows, GroupRows, Exists
<1>2. group'[a] = g
  BY <1>1, RowsKeepTheirGroup
<1>3. \A r \in Request : a \notin rivals[r]
  BY <1>1 DEF RowsOK, ReferencesExist
<1> QED
  BY <1>1, <1>2, <1>3, DecidedRowsChangeByDecision

\* A rejection that a group's status reports, it goes on reporting.
LEMMA RejectionsStay ==
  ASSUME GateTypeOK, RowsOK, DecisionsAreFinal, DecidedHaveDecisions', [GateNext]_gateVars,
         NEW g \in Group, mode[g] = "all_of",
         NEW pick \in Picks(g), NEW x \in OfType(AnswersOf(g, pick), "reject")
  PROVE  x \in GroupAnswers(g)'
<1>1. \A a \in DecidedRows(g) : pick[a] \in Request /\ decision[pick[a]] = a /\ a \in Approval
  BY DEF Picks, DecidedRows, GroupRows
<1>2. \A a \in DecidedRows(g) : decision'[pick[a]] = a /\ answer'[pick[a]] = answer[pick[a]]
  BY <1>1, AnswersStay, ConstantsAssumption
<1>3. \A a \in DecidedRows(g) : a \in DecidedRows(g)'
  BY <1>1, AllOfRowsStayDecided, GateStepsAreSteps DEF DecidedRows, GroupRows, GateTypeOK
<1>4. PICK a \in DecidedRows(g) : x = answer[pick[a]] /\ x.type = "reject"
  BY DEF OfType, AnswersOf
<1>5. PICK after \in Picks(g)' : answer'[after[a]] = x
  <2> DEFINE f == [b \in DecidedRows(g)' |-> IF b \in DecidedRows(g) THEN pick[b]
                                             ELSE CHOOSE r \in Request : decision'[r] = b]
  <2>1. \A b \in DecidedRows(g)' : \E r \in Request : decision'[r] = b
    BY DEF DecidedRows, GroupRows, DecidedHaveDecisions
  <2>2. \A b \in DecidedRows(g)' : f[b] \in Request /\ decision'[f[b]] = b
    BY <1>1, <1>2, <2>1
  <2>3. f \in Picks(g)'
    BY <2>2 DEF Picks
  <2>4. answer'[f[a]] = x
    BY <1>2, <1>3, <1>4
  <2> QED
    BY <2>3, <2>4
<1>6. (x \in OfType({answer[after[b]] : b \in DecidedRows(g)}, "reject"))'
  BY <1>3, <1>4, <1>5 DEF OfType
<1>7. (x \in Aggregate(g, {answer[after[b]] : b \in DecidedRows(g)}))'
  BY <1>6 DEF Aggregate
<1>8. mode'[g] = "all_of"
  BY ModesStay, GateStepsAreSteps DEF GateTypeOK
<1> QED
  BY <1>7, <1>8 DEF GroupAnswers

\* What a group in which all have decided may answer does not change.
LEMMA CompleteAnswersStay ==
  ASSUME GateTypeOK, RowsOK, DecisionsAreFinal, [GateNext]_gateVars,
         NEW g \in Group, mode[g] = "all_of", AllDecided(g),
         NEW pick \in Picks(g), NEW x \in Aggregate(g, AnswersOf(g, pick))
  PROVE  x \in GroupAnswers(g)'
<1>1. Stays(g)
  BY GateStepsAreSteps, DecidedGroupsStay DEF GateTypeOK
<1>2. AllDecided(g)' /\ DecidedRows(g)' = DecidedRows(g) /\ mode'[g] = "all_of"
  BY <1>1 DEF Stays, AllDecided, DecidedRows, GroupRows
<1>3. \A a \in DecidedRows(g) : pick[a] \in Request /\ decision[pick[a]] = a /\ a \in Approval
  BY DEF Picks, DecidedRows, GroupRows
<1>4. \A a \in DecidedRows(g) : decision'[pick[a]] = a /\ answer'[pick[a]] = answer[pick[a]]
  BY <1>3, AnswersStay, ConstantsAssumption
<1>5. pick \in Picks(g)'
  BY <1>2, <1>4 DEF Picks
<1>6. {answer'[pick[a]] : a \in DecidedRows(g)'} = AnswersOf(g, pick)
  BY <1>2, <1>4 DEF AnswersOf
<1>7. (x \in Aggregate(g, {answer[pick[a]] : a \in DecidedRows(g)}))'
  BY <1>2, <1>6 DEF Aggregate
<1> QED
  BY <1>2, <1>5, <1>7 DEF GroupAnswers

LEMMA GroupAnswersStay ==
  ASSUME GateTypeOK, RowsOK, DecisionsAreFinal, DecidedHaveDecisions', [GateNext]_gateVars,
         NEW g \in Group, mode[g] = "all_of", NEW x \in GroupAnswers(g)
  PROVE  x \in GroupAnswers(g)'
<1>1. PICK pick \in Picks(g) : x \in Aggregate(g, AnswersOf(g, pick))
  BY DEF GroupAnswers, AnswersOf
<1>2. CASE x \in OfType(AnswersOf(g, pick), "reject")
  BY <1>2, RejectionsStay
<1>3. CASE x \notin OfType(AnswersOf(g, pick), "reject")
  <2>1. AllDecided(g)
    BY <1>1, <1>3 DEF Aggregate
  <2> QED
    BY <1>1, <2>1, CompleteAnswersStay
<1> QED
  BY <1>2, <1>3

AllOfAnswersOK ==
  \A g \in Group : mode[g] = "all_of" /\ HasAnswer(g) => outcome[g] \in GroupAnswers(g)

\* What an all_of gate goes on with is what its group's status can still
\* report at any later time.
THEOREM AllOfAnswersStand == GateSpec => []AllOfAnswersOK
<1>1. GateInit => AllOfAnswersOK
  BY DEF GateInit, AllOfAnswersOK, HasAnswer
<1>2. GateTypeOK /\ RowsOK /\ DecisionsAreFinal /\ DecidedHaveDecisions' /\ FirstsOK
        /\ UnaskedGatesAreIdle /\ AllOfAnswersOK /\ [GateNext]_gateVars => AllOfAnswersOK'
  <2> SUFFICES ASSUME GateTypeOK, RowsOK, DecisionsAreFinal, DecidedHaveDecisions', FirstsOK,
                      UnaskedGatesAreIdle, AllOfAnswersOK, [GateNext]_gateVars,
                      NEW h \in Group, mode'[h] = "all_of", HasAnswer(h)'
               PROVE  outcome'[h] \in GroupAnswers(h)'
    BY DEF AllOfAnswersOK
  <2>1. mode[h] # "none"
    BY SubmittingGateLearnsItsRow DEF HasAnswer
  <2>2. GoesOn(h) /\ mode[h] = "all_of"
    BY <2>1, AskedGatesGoOn, ModesStay, GateStepsAreSteps DEF GateTypeOK
  <2>3. outcome'[h] \in GroupAnswers(h)
    <3>1. CASE outcome'[h] = outcome[h]
      BY <2>2, <3>1 DEF AllOfAnswersOK, HasAnswer
    <3>2. CASE PollAnswered(h)
      BY <2>2, <3>2 DEF PollAnswered, Polled, GateTypeOK
    <3> QED
      BY <2>2, <3>1, <3>2 DEF GoesOn
  <2>4. PICK x : x = outcome'[h]
    OBVIOUS
  <2>5. x \in GroupAnswers(h)'
    BY <2>2, <2>3, <2>4, GroupAnswersStay
  <2> QED
    BY <2>4, <2>5
<1> QED
  BY <1>1, <1>2, GateTypeCorrect, GateImplementsApprovals, RowsAreWellFormed, DecisionsStay,
     DecidedRowsHaveDecisions, GatesPollTheOpeningRow, UnaskedGatesStayIdle, PTL DEF GateSpec

-----------------------------------------------------------------------------
(* Both *)

\* The row that opened an any_of group, once decided, is the first of the group.
LEMMA OpeningRowsWin ==
  ASSUME NEW a \in Approval, OpenedAnyOf(a), status[a] = "decided"
  PROVE  Wins(a)
<1>1. ASSUME NEW b \in Approval, Above(b, a) PROVE FALSE
  <2>1. PICK n \in 1..MaxDepth : \E chain \in [0..n -> Approval] :
          chain[0] = a /\ \A i \in 1..n : escalatedTo[chain[i]] = chain[i - 1]
    BY <1>1 DEF Above
  <2>2. PICK chain \in [0..n -> Approval] :
          chain[0] = a /\ \A i \in 1..n : escalatedTo[chain[i]] = chain[i - 1]
    BY <2>1
  <2>3. 1 \in 1..n /\ 1 \in 0..n
    OBVIOUS
  <2>4. chain[1] \in Approval /\ escalatedTo[chain[1]] = a
    BY <2>2, <2>3
  <2> QED
    BY <2>4 DEF OpenedAnyOf, Opened
<1> QED
  BY <1>1 DEF Wins, OpenedAnyOf

\* What a gate goes on with stays among what its group's status reports,
\* whatever is decided, escalated or timed out afterwards.
THEOREM AnswersStand == GateSpec => []AnswerStands
<1>1. GateTypeOK /\ FirstsOK /\ AnyOfAnswersOK /\ AllOfAnswersOK => AnswerStands
  <2> SUFFICES ASSUME GateTypeOK, FirstsOK, AnyOfAnswersOK, AllOfAnswersOK,
                      NEW g \in Group, HasAnswer(g), mode[g] # "all_of"
               PROVE  outcome[g] \in GroupAnswers(g)
    BY DEF AnswerStands, AllOfAnswersOK
  <2>1. mode[g] = "any_of"
    BY DEF FirstsOK, GateTypeOK
  <2>2. first[g] \in Approval /\ AnsweredBy(first[g], outcome[g])
    BY <2>1 DEF AnyOfAnswersOK
  <2>3. OpenedAnyOf(first[g]) /\ first[g] \in GroupRows(g)
    BY <2>1, <2>2 DEF FirstsOK, OpenedAnyOf, GroupRows
  <2>4. Wins(first[g])
    BY <2>2, <2>3, OpeningRowsWin DEF AnsweredBy
  <2>5. outcome[g] \in RowAnswers(first[g])
    BY <2>2 DEF AnsweredBy, RowAnswers
  <2> QED
    BY <2>1, <2>3, <2>4, <2>5 DEF GroupAnswers
<1> QED
  BY <1>1, GateTypeCorrect, GatesPollTheOpeningRow, AnyOfAnswersStand, AllOfAnswersStand, PTL

\* The amount an all_of gate goes on with is not above one that an approver,
\* answering once, has set.
THEOREM LeastAmountsWin == GateSpec => []LeastAmountWins
<1>1. GateTypeOK /\ AnswerStands => LeastAmountWins
  <2> SUFFICES ASSUME GateTypeOK, AnswerStands, NEW g \in Group, HasAnswer(g), mode[g] = "all_of",
                      outcome[g].type = "modify", NEW a \in GroupRows(g), NEW r \in DecisionsOf(a),
                      DecisionsOf(a) = {r}, answer[r].type = "modify", answer[r].amount # NoAmount
               PROVE  outcome[g].amount # NoAmount /\ outcome[g].amount <= answer[r].amount
    BY DEF LeastAmountWins
  <2>1. PICK pick \in Picks(g) : outcome[g] \in Aggregate(g, AnswersOf(g, pick))
    BY DEF AnswerStands, GroupAnswers, AnswersOf
  <2> DEFINE modified == OfType(AnswersOf(g, pick), "modify")
  <2>2. AllDecided(g) /\ (modified # {} => outcome[g] \in MostRestrictive(modified))
    BY <2>1 DEF Aggregate, OfType
  <2>3. a \in DecidedRows(g) /\ pick[a] = r
    BY <2>1, <2>2 DEF AllDecided, Picks, DecisionsOf
  <2>4. answer[r] \in modified
    BY <2>3 DEF OfType, AnswersOf
  <2> HIDE DEF modified
  <2>5. answer[r] \in Numeric(modified) /\ outcome[g] \in MostRestrictive(modified)
    BY <2>2, <2>4 DEF Numeric
  <2> QED
    BY <2>5 DEF MostRestrictive, Numeric
<1> QED
  BY <1>1, GateTypeCorrect, AnswersStand, PTL

-----------------------------------------------------------------------------
(* The promise of the gate *)

\* What the abstract gate sees: the groups that were asked, the answers that
\* committed decisions about their rows have given, and where the gates are.
Questions == {g \in Group : mode[g] \in {"any_of", "all_of"}}

AnswersGiven(g) ==
  {answer[r] : r \in {q \in Request : decision[q] # NoApproval /\ group[decision[q]] = g}}

Given == [g \in Group |-> AnswersGiven(g)]

Shown == [g \in Group |->
  IF gate[g] \in {"none", "waiting", "answered", "resumed"} THEN gate[g] ELSE "raised"]

LEMMA GivenIffDecided ==
  ASSUME NEW g \in Group, NEW x
  PROVE  x \in AnswersGiven(g) <=>
           \E r \in Request : decision[r] # NoApproval /\ group[decision[r]] = g /\ answer[r] = x
BY DEF AnswersGiven

\* A row that was decided stays in its group.
LEMMA DecidedRowsKeepTheirGroup ==
  ASSUME TypeOK, RowsOK, [Next]_vars, NEW r \in Request, decision[r] # NoApproval
  PROVE  /\ decision[r] \in Approval /\ Exists(decision[r])
         /\ group[decision[r]] \in Questions
         /\ group'[decision[r]] = group[decision[r]]
<1>1. decision[r] \in Approval /\ Exists(decision[r])
  <2>1. decision[r] \in Approval
    BY DEF TypeOK
  <2> QED
    BY <2>1 DEF RowsOK, AbsentRowsAreBlank
<1>2. group[decision[r]] \in Questions
  BY <1>1 DEF RowsOK, RowsHaveAGroup, Questions
<1> QED
  BY <1>1, <1>2, RowsKeepTheirGroup

\* Answers are given by decisions and by nothing else.
LEMMA GivenChangesByDecision ==
  ASSUME TypeOK, RowsOK, [Next]_vars, decision' = decision, answer' = answer
  PROVE  Given' = Given
<1>1. ASSUME NEW g \in Group PROVE AnswersGiven(g)' = AnswersGiven(g)
  <2>1. ASSUME NEW r \in Request, decision[r] # NoApproval
        PROVE  group'[decision[r]] = group[decision[r]]
    BY <2>1, DecidedRowsKeepTheirGroup
  <2>2. {q \in Request : decision'[q] # NoApproval /\ group'[decision'[q]] = g}
          = {q \in Request : decision[q] # NoApproval /\ group[decision[q]] = g}
    BY <2>1
  <2> QED
    BY <2>2 DEF AnswersGiven
<1> QED
  BY <1>1 DEF Given

\* The decision of one row is an answer to its group.
LEMMA DecisionAnswers ==
  ASSUME GateTypeOK, RowsOK, DecisionsAreFinal, [GateNext]_gateVars,
         NEW r \in Request, NEW x \in Answer,
         decision'[r] # decision[r], answer' = [answer EXCEPT ![r] = x]
  PROVE  \E g \in Questions : Given' = [Given EXCEPT ![g] = @ \cup {x}]
<1>1. [Next]_vars /\ TypeOK
  BY GateStepsAreSteps DEF GateTypeOK
<1>2. PICK a \in Approval : Exists(a) /\ group' = group
                            /\ \A q \in Request : decision'[q] = IF q = r THEN a ELSE decision[q]
  BY <1>1, TableSteps DEF Asked, AutoApproved, Answered, TimedOut, HandedOver, books
<1>3. decision[r] = NoApproval
  BY AnswersStay
<1>4. group[a] \in Questions /\ group[a] \in Group
  BY <1>2 DEF RowsOK, RowsHaveAGroup, Questions
<1>5. \A q \in Request : answer'[q] = IF q = r THEN x ELSE answer[q]
  BY DEF GateTypeOK
<1>6. a # NoApproval
  BY ConstantsAssumption
<1>7. ASSUME NEW g \in Group
      PROVE  AnswersGiven(g)' = IF g = group[a] THEN AnswersGiven(g) \cup {x} ELSE AnswersGiven(g)
  <2>1. \A y : y \in AnswersGiven(g)' <=>
          \E q \in Request : decision'[q] # NoApproval /\ group[decision'[q]] = g /\ answer'[q] = y
    BY <1>2 DEF AnswersGiven
  <2>2. \A y : y \in AnswersGiven(g)' <=> y \in AnswersGiven(g) \/ (g = group[a] /\ y = x)
    BY <2>1, <1>2, <1>3, <1>5, <1>6, GivenIffDecided
  <2> QED
    BY <2>2
<1>8. Given' = [Given EXCEPT ![group[a]] = @ \cup {x}]
  BY <1>4, <1>7 DEF Given
<1> QED
  BY <1>4, <1>8

\* Whatever a poll answers, somebody has answered to the question of the gate.
LEMMA PolledIsGiven ==
  ASSUME GateTypeOK, FirstsOK, NEW g \in Group, gate[g] = "waiting", NEW x \in Polled(g)
  PROVE  x \in AnswersGiven(g)
<1>1. CASE mode[g] = "all_of"
  <2>1. PICK pick \in Picks(g) : x \in Aggregate(g, {answer[pick[a]] : a \in DecidedRows(g)})
    BY <1>1 DEF Polled, GroupAnswers
  <2>2. PICK a \in DecidedRows(g) : x = answer[pick[a]]
    BY <2>1, AggregateChooses
  <2>3. pick[a] \in Request /\ decision[pick[a]] = a /\ a \in Approval /\ group[a] = g
    BY <2>1, <2>2 DEF Picks, DecidedRows, GroupRows
  <2> QED
    BY <2>2, <2>3, GivenIffDecided, ConstantsAssumption
<1>2. CASE mode[g] # "all_of"
  <2>1. first[g] \in Approval /\ group[first[g]] = g
    BY DEF FirstsOK, GateTypeOK
  <2>2. \E r \in Request : decision[r] = first[g] /\ answer[r] = x
    BY <1>2 DEF Polled, RowAnswers, DecisionsOf
  <2> QED
    BY <2>1, <2>2, GivenIffDecided, ConstantsAssumption
<1> QED
  BY <1>1, <1>2

LEMMA ServingIsAnswering ==
  ASSUME GateTypeOK, RowsOK, DecisionsAreFinal, Serve
  PROVE  [Promise!Next]_Promise!vars
<1>1. [GateNext]_gateVars /\ [Next]_vars /\ TypeOK
  BY GateStepsAreSteps DEF GateNext, GateTypeOK
<1>2. Questions' = Questions
  <2>1. mode' = mode
    BY DEF Serve, Expire, Decide, DecideRead, DecideRefuse, DecideFlush, DecideMatch,
           DecideCommit, DecideAbort, Work, Poll, Evaluate, TimeOut, Escalate, Skip,
           WorkerError, WorkerCrash, rows
  <2> QED
    BY <2>1 DEF Questions
<1>3. Shown' = Shown /\ outcome' = outcome
  BY DEF Serve, gates, Shown
<1>4. CASE decision' = decision /\ answer' = answer
  BY <1>1, <1>2, <1>3, <1>4, GivenChangesByDecision
     DEF Promise!vars, Questions, Given, AnswersGiven, Shown
<1>5. ASSUME NEW r \in Request, NEW x \in Answer,
             decision'[r] # decision[r], answer' = [answer EXCEPT ![r] = x]
      PROVE  Promise!Next
  <2>1. PICK g \in Questions : Given' = [Given EXCEPT ![g] = @ \cup {x}]
    BY <1>1, <1>5, DecisionAnswers
  <2>2. Promise!SomebodyAnswers(g, x)
    BY <1>2, <1>3, <2>1 DEF Promise!SomebodyAnswers, Questions, Given, AnswersGiven, Shown
  <2> QED
    BY <2>2 DEF Promise!Next, Questions
<1> QED
  BY <1>4, <1>5 DEF Serve

\* A gate asks its question, gets its answer, goes on or raises: each step of
\* the client is the step of the promise of that name.
LEMMA GateStepsAreKept ==
  ASSUME GateTypeOK, RowsOK, FirstsOK, UnaskedGatesAreIdle, NEW g \in Group, GateStep(g)
  PROVE  [Promise!Next]_Promise!vars
<1>1. [Next]_vars /\ TypeOK
  BY GateStepsAreSteps DEF GateNext, GateTypeOK
<1>2. Given' = Given
  <2>1. decision' = decision /\ answer' = answer
    BY DEF GateStep, GateAutoApproved, AutoApprove, GateSubmit, RequestHuman, PollAnswered,
           PollRaises, GiveUp, Ack, AckRefused, Disconnect, vars, books
  <2> QED
    BY <1>1, <2>1, GivenChangesByDecision
<1>3. mode \in [Group -> Mode] /\ gate \in [Group -> Gate]
  BY DEF GateTypeOK, TypeOK
<1>4. CASE GateAutoApproved(g)
  <2>1. gate[g] = "none" /\ mode[g] = "none" /\ mode' = [mode EXCEPT ![g] = "auto_approve"]
    BY <1>4 DEF GateAutoApproved, AutoApprove, UnaskedGatesAreIdle
  <2>2. g \notin Questions /\ Questions' = Questions /\ Shown[g] = "none"
    BY <1>3, <2>1 DEF Questions, Shown
  <2>3. \/ /\ Shown' = [Shown EXCEPT ![g] = "resumed"]
           /\ outcome' = [outcome EXCEPT ![g] = AutoApproval]
        \/ /\ Shown' = [Shown EXCEPT ![g] = "raised"]
           /\ outcome' = outcome
    BY <1>3, <1>4 DEF GateAutoApproved, Shown
  <2>4. Promise!OpenUnasked(g)
    BY <1>2, <2>2, <2>3 DEF Promise!OpenUnasked, Questions, Given, AnswersGiven, Shown
  <2> QED
    BY <2>4 DEF Promise!Next
<1>5. ASSUME NEW m \in {"any_of", "all_of"}, NEW S \in SUBSET Approval, NEW a \in S,
             GateSubmit(g, m, S, a)
      PROVE  Promise!Next
  <2>1. gate[g] = "none" /\ mode[g] = "none" /\ mode' = [mode EXCEPT ![g] = m]
    BY <1>5 DEF GateSubmit, RequestHuman, UnaskedGatesAreIdle
  <2>2. g \notin Questions /\ Questions' = Questions \cup {g} /\ Shown[g] = "none"
    BY <1>3, <2>1 DEF Questions, Shown
  <2>3. \E next \in {"waiting", "raised"} : Shown' = [Shown EXCEPT ![g] = next]
    BY <1>3, <1>5 DEF GateSubmit, Shown
  <2>4. outcome' = outcome
    BY <1>5 DEF GateSubmit
  <2>5. Promise!Ask(g)
    BY <1>2, <2>2, <2>3, <2>4 DEF Promise!Ask, Questions, Given, AnswersGiven, Shown
  <2> QED
    BY <2>5 DEF Promise!Next
<1>6. CASE PollAnswered(g)
  <2>1. Questions' = Questions
    BY <1>6 DEF PollAnswered, vars, rows, Questions
  <2>2. Shown[g] = "waiting" /\ Shown' = [Shown EXCEPT ![g] = "answered"]
    BY <1>3, <1>6 DEF PollAnswered, Shown
  <2>3. \E x \in Given[g] : outcome' = [outcome EXCEPT ![g] = x]
    BY <1>6, PolledIsGiven DEF PollAnswered, Given
  <2>4. Promise!Learn(g)
    BY <1>2, <2>1, <2>2, <2>3 DEF Promise!Learn, Questions, Given, AnswersGiven, Shown
  <2> QED
    BY <2>4 DEF Promise!Next
<1>7. CASE Ack(g) /\ gate' = [gate EXCEPT ![g] = "resumed"]
  <2>1. Questions' = Questions /\ outcome' = outcome
    BY <1>7 DEF Ack, vars, rows, Questions
  <2>2. Shown[g] = "answered" /\ Shown' = [Shown EXCEPT ![g] = "resumed"]
    BY <1>3, <1>7 DEF Ack, Shown
  <2>3. Promise!Resume(g)
    BY <1>2, <2>1, <2>2 DEF Promise!Resume, Questions, Given, AnswersGiven, Shown
  <2> QED
    BY <2>3 DEF Promise!Next
<1>8. ASSUME NEW end \in {"gave_up", "server_error", "invalid", "lost"},
             PollRaises(g) \/ GiveUp(g) \/ Ack(g) \/ AckRefused(g) \/ Disconnect(g),
             gate' = [gate EXCEPT ![g] = end]
      PROVE  Promise!Next
  <2>1. Questions' = Questions /\ outcome' = outcome
    BY <1>8 DEF PollRaises, GiveUp, Ack, AckRefused, Disconnect, vars, rows, Questions
  <2>2. gate[g] \in {"waiting", "answered"}
    BY <1>8 DEF PollRaises, GiveUp, Ack, AckRefused, Disconnect
  <2>3. Shown[g] \in {"waiting", "answered"} /\ Shown' = [Shown EXCEPT ![g] = "raised"]
    BY <1>3, <1>8, <2>2 DEF Shown
  <2>4. Promise!Raise(g)
    BY <1>2, <2>1, <2>3 DEF Promise!Raise, Questions, Given, AnswersGiven, Shown
  <2> QED
    BY <2>4 DEF Promise!Next
<1>9. PollRaises(g) \/ GiveUp(g) \/ Ack(g) \/ AckRefused(g) \/ Disconnect(g) =>
        \E end \in {"gave_up", "server_error", "invalid", "lost", "resumed"} :
          gate' = [gate EXCEPT ![g] = end] /\ (end = "resumed" => Ack(g))
  BY DEF PollRaises, GiveUp, Ack, AckRefused, Disconnect
<1> QED
  BY <1>4, <1>5, <1>6, <1>7, <1>8, <1>9 DEF GateStep

\* A gate opens with an answer that somebody it asked has given, or without
\* asking, and for no other reason; what expires, is escalated or superseded,
\* gets lost or fails does not open it.
THEOREM GateKeepsPromise == GateSpec => ImplementsPromise
<1>1. GateInit => Promise!Init
  <2> SUFFICES ASSUME GateInit PROVE Promise!Init
    OBVIOUS
  <2>1. Questions = {}
    BY DEF GateInit, Init, Questions
  <2>2. Given = [g \in Group |-> {}]
    BY DEF GateInit, Init, Given, AnswersGiven
  <2>3. Shown = [g \in Group |-> "none"] /\ outcome = [g \in Group |-> NoAnswer]
    BY DEF GateInit, Shown
  <2> QED
    BY <2>1, <2>2, <2>3 DEF Promise!Init, Questions, Given, AnswersGiven, Shown
<1>2. GateTypeOK /\ RowsOK /\ DecisionsAreFinal /\ FirstsOK /\ UnaskedGatesAreIdle
        /\ [GateNext]_gateVars => [Promise!Next]_Promise!vars
  <2>1. UNCHANGED gateVars => UNCHANGED Promise!vars
    BY DEF gateVars, gates, vars, rows, books, Promise!vars
  <2> QED
    BY <2>1, ServingIsAnswering, GateStepsAreKept DEF GateNext
<1> QED
  BY <1>1, <1>2, GateTypeCorrect, GateImplementsApprovals, RowsAreWellFormed, DecisionsStay,
     GatesPollTheOpeningRow, UnaskedGatesStayIdle, PTL
     DEF GateSpec, ImplementsPromise, Promise!Spec

-----------------------------------------------------------------------------
(* Groups with a row that nobody decided in time *)

\* A row that is overslept stays so: it is no sibling to be superseded, since
\* its group asks all, and it is not pending, so nobody begins to decide it.
LEMMA OversleptStays ==
  ASSUME TypeOK, RowsOK, [Next]_vars, NEW a \in Approval, Overslept(a), mode[group[a]] = "all_of"
  PROVE  Overslept(a)'
<1> USE DEF Overslept
<1>1. Exists(a) /\ ~Pending(a) /\ status[a] # "none" /\ \A r \in Request : a \notin rivals[r]
  BY DEF Exists, Pending, RowsOK, ReferencesExist
<1>2. ASSUME NEW r \in Request, DecideCommit(r) PROVE Overslept(a)'
  <2>1. target[r] # a /\ phase' = [phase EXCEPT ![r] = "done"] /\ target' = target
    BY <1>2 DEF DecideCommit, Written
  <2>2. status'[a] = status[a]
    BY <1>1, <1>2, <2>1, DecideCommitWritesExistingRows DEF RowsOK
  <2> QED
    BY <2>1, <2>2 DEF TypeOK
<1>3. ASSUME NEW r \in Request, NEW b \in Approval, DecideRead(r, b) PROVE Overslept(a)'
  BY <1>1, <1>3 DEF DecideRead, Decidable, rows, TypeOK
<1>4. ASSUME NEW r \in Request, Decide(r), ~DecideCommit(r), ~\E b \in Approval : DecideRead(r, b)
      PROVE  Overslept(a)'
  BY <1>4 DEF Decide, DecideRefuse, DecideFlush, DecideMatch, DecideAbort, rows, TypeOK
<1>5. ASSUME UNCHANGED decides, ~\E r \in Request : DecideCommit(r) PROVE Overslept(a)'
  <2>1. status'[a] = status[a]
    <3>1. ASSUME NEW w \in Worker, TimeOut(w) PROVE status'[a] = status[a]
      BY <1>1, <3>1, TimedOutStep DEF TimedOut
    <3>2. ASSUME NEW w \in Worker, NEW b \in Approval, Escalate(w, b) PROVE status'[a] = status[a]
      BY <1>1, <3>2, HandedOverStep DEF HandedOver, Exists
    <3>3. ASSUME NEW w \in Worker, Work(w), ~TimeOut(w), ~\E b \in Approval : Escalate(w, b)
          PROVE  status'[a] = status[a]
      BY <3>3 DEF Work, Poll, Evaluate, Skip, WorkerError, WorkerCrash, rows
    <3>4. ASSUME NEW r \in Request, Decide(r) PROVE status'[a] = status[a]
      BY <1>5, <3>4 DEF Decide, DecideRead, DecideRefuse, DecideFlush, DecideMatch, DecideAbort, rows
    <3>5. ASSUME NEW g \in Group, NEW m \in {"any_of", "all_of"}, NEW S \in SUBSET Approval,
                 RequestHuman(g, m, S)
          PROVE  status'[a] = status[a]
      BY <1>1, <3>5, AskedStep DEF Asked, Exists
    <3>6. (\E g \in Group : AutoApprove(g)) \/ (\E b \in Approval : Expire(b)) \/ UNCHANGED vars
            => status'[a] = status[a]
      BY DEF AutoApprove, Expire, vars, rows
    <3> QED
      BY <3>1, <3>2, <3>3, <3>4, <3>5, <3>6 DEF Next, Submit
  <2> QED
    BY <1>5, <2>1 DEF decides
<1>6. \A w \in Worker : Work(w) => UNCHANGED decides /\ ~\E r \in Request : DecideCommit(r)
  <2> SUFFICES ASSUME NEW w \in Worker, Work(w)
               PROVE  UNCHANGED decides /\ ~\E r \in Request : DecideCommit(r)
    OBVIOUS
  <2>1. UNCHANGED decides
    BY DEF Work, Poll, Evaluate, TimeOut, Escalate, Skip, WorkerError, WorkerCrash
  <2> QED
    BY <2>1 DEF decides, DecideCommit, Written, TypeOK
<1>7. Submit \/ (\E b \in Approval : Expire(b)) \/ UNCHANGED vars
        => UNCHANGED decides /\ ~\E r \in Request : DecideCommit(r)
  <2>1. Submit \/ (\E b \in Approval : Expire(b)) \/ UNCHANGED vars => UNCHANGED decides
    BY DEF Submit, RequestHuman, AutoApprove, Expire, vars
  <2> QED
    BY <2>1 DEF decides, DecideCommit, Written, TypeOK
<1> QED
  BY <1>2, <1>3, <1>4, <1>5, <1>6, <1>7 DEF Next

\* While a row of an all_of group is not decided, its status reports nothing
\* but a rejection.
LEMMA IncompleteGroupsReject ==
  ASSUME NEW g \in Group, mode[g] = "all_of", ~AllDecided(g)
  PROVE  OfType(GroupAnswers(g), "reject") = GroupAnswers(g)
BY DEF GroupAnswers, Aggregate, OfType

\* An all_of group that has lost an approver to the clock is never approved,
\* neither by the one the row was escalated to nor by all the others.
THEOREM LateApproversAreMissed == GateSpec => LateIsNeverApproved
<1>1. TypeOK /\ RowsOK /\ [GateNext]_gateVars
        => [\A g \in Group : Stranded(g) =>
              Stranded(g)' /\ OfType(GroupAnswers(g)', "reject") = GroupAnswers(g)']_gateVars
  <2> SUFFICES ASSUME TypeOK, RowsOK, [GateNext]_gateVars, NEW g \in Group, Stranded(g)
               PROVE  Stranded(g)' /\ OfType(GroupAnswers(g)', "reject") = GroupAnswers(g)'
    OBVIOUS
  <2>1. [Next]_vars
    BY GateStepsAreSteps
  <2>2. PICK a \in GroupRows(g) : Overslept(a)
    BY DEF Stranded
  <2>3. a \in Approval /\ group[a] = g /\ mode[g] = "all_of" /\ Exists(a)
    BY <2>2 DEF GroupRows, Stranded, Overslept, Exists
  <2>4. group'[a] = g /\ mode'[g] = "all_of"
    BY <2>1, <2>3, RowsKeepTheirGroup
  <2>5. Overslept(a)'
    BY <2>1, <2>2, <2>3, OversleptStays
  <2>6. Stranded(g)'
    BY <2>3, <2>4, <2>5 DEF Stranded, GroupRows
  <2>7. ~AllDecided(g)'
    BY <2>3, <2>4, <2>5 DEF AllDecided, DecidedRows, GroupRows, Overslept
  <2>8. (mode[g] = "all_of" /\ ~AllDecided(g)
           => OfType(GroupAnswers(g), "reject") = GroupAnswers(g))'
    BY IncompleteGroupsReject, PTL
  <2>9. (OfType(GroupAnswers(g), "reject") = GroupAnswers(g))'
    BY <2>4, <2>7, <2>8
  <2> QED
    BY <2>6, <2>9 DEF OfType
<1> QED
  BY <1>1, GateImplementsApprovals, TypeCorrect, RowsAreWellFormed, PTL
     DEF GateSpec, LateIsNeverApproved

=============================================================================
