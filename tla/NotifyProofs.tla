----------------------------- MODULE NotifyProofs -----------------------------
(***************************************************************************)
(* Proofs, for any approvers, channels, webhooks and number of retries, of *)
(* what Notify says of a dispatch.                                         *)
(***************************************************************************)
EXTENDS Notify, TLAPS

InFlight(s) == IF sender[s] = "sending" THEN 1 ELSE 0

\* Every copy, received or on its way, is of an attempt of its own, and a
\* sender that has used up its attempts is not ready for another.
CopiesAreAttempts ==
  \A s \in Sender :
    /\ received[s] + late[s] + InFlight(s) <= attempts[s]
    /\ attempts[s] <= Tries(s)
    /\ sender[s] = "ready" => attempts[s] < Tries(s)

DeliveredIsReceived == \A s \in Sender : sender[s] = "delivered" => received[s] >= 1

SuccessIsDelivered ==
  \A t \in Task :
    /\ row[t] = "success" => result[t] = "success"
    /\ result[t] = "success" => \A s \in SendersOf(t) : sender[s] = "delivered"

NotifyOK == NotifyTypeOK /\ CopiesAreAttempts /\ DeliveredIsReceived /\ SuccessIsDelivered

LEMMA TriesType ==
  ASSUME NEW s \in Sender PROVE Tries(s) \in Nat /\ 1 <= Tries(s)
BY NotifyAssumption DEF Tries

LEMMA TasksSenders ==
  ASSUME NEW t \in Task PROVE SendersOf(t) \subseteq Sender
BY DEF Sender

\* A sender moves, the others do not: what is left to show is about it.
LEMMA SenderMoves ==
  ASSUME NotifyOK, NEW s \in Sender,
         NEW now \in {"ready", "sending", "delivered", "failed"},
         sender[s] \in {"ready", "sending"},
         sender' = [sender EXCEPT ![s] = now],
         attempts' \in [Sender -> Nat],
         late' \in [Sender -> Int], received' \in [Sender -> Nat],
         late'[s] >= 0,
         \A d \in Sender \ {s} :
           attempts'[d] = attempts[d] /\ late'[d] = late[d] /\ received'[d] = received[d],
         received'[s] + late'[s] + (IF now = "sending" THEN 1 ELSE 0) <= attempts'[s],
         attempts'[s] <= Tries(s),
         now = "ready" => attempts'[s] < Tries(s),
         now = "delivered" => received'[s] >= 1,
         UNCHANGED <<phase, client, result, row>>
  PROVE  NotifyOK'
<1> USE DEF NotifyOK, NotifyTypeOK
<1>1. sender'[s] = now /\ \A d \in Sender \ {s} : sender'[d] = sender[d]
  OBVIOUS
<1>2. CopiesAreAttempts'
  <2> SUFFICES ASSUME NEW d \in Sender
               PROVE  /\ received'[d] + late'[d] + InFlight(d)' <= attempts'[d]
                      /\ attempts'[d] <= Tries(d)
                      /\ sender'[d] = "ready" => attempts'[d] < Tries(d)
    BY DEF CopiesAreAttempts, Tries
  <2>1. CASE d = s
    BY <1>1, <2>1 DEF InFlight
  <2>2. CASE d # s
    BY <1>1, <2>2 DEF CopiesAreAttempts, InFlight
  <2> QED
    BY <2>1, <2>2
<1>3. late' \in [Sender -> Nat]
  <2> SUFFICES ASSUME NEW d \in Sender PROVE late'[d] \in Nat
    OBVIOUS
  <2>1. late'[d] \in Int
    OBVIOUS
  <2>2. late'[d] = late[d] \/ d = s
    OBVIOUS
  <2>3. late[d] \in Nat /\ late'[s] >= 0
    OBVIOUS
  <2> QED
    BY <2>1, <2>2, <2>3
<1>4. NotifyTypeOK'
  BY <1>3
<1>5. DeliveredIsReceived'
  BY <1>1 DEF DeliveredIsReceived
<1>6. SuccessIsDelivered'
  BY <1>1 DEF SuccessIsDelivered
<1> QED
  BY <1>2, <1>4, <1>5, <1>6

\* What the counters of one sender are before it moves.
LEMMA CountersType ==
  ASSUME NotifyOK, NEW s \in Sender
  PROVE  /\ received[s] \in Nat /\ late[s] \in Nat /\ attempts[s] \in Nat
         /\ Tries(s) \in Nat
         /\ late \in [Sender -> Int]
         /\ attempts[s] <= Tries(s)
         /\ sender[s] = "ready" => /\ received[s] + late[s] <= attempts[s]
                                   /\ attempts[s] < Tries(s)
         /\ sender[s] = "sending" => received[s] + late[s] + 1 <= attempts[s]
<1>1. late[s] \in Nat /\ attempts[s] \in Nat /\ received[s] \in Nat
  BY DEF NotifyOK, NotifyTypeOK
<1>2. late \in [Sender -> Int]
  <2>1. \A d \in Sender : late[d] \in Int
    BY DEF NotifyOK, NotifyTypeOK
  <2> QED
    BY <2>1 DEF NotifyOK, NotifyTypeOK
<1> QED
  BY <1>1, <1>2, TriesType DEF NotifyOK, CopiesAreAttempts, InFlight

LEMMA SendKeepsOK ==
  ASSUME NotifyOK, NEW s \in Sender, Send(s) PROVE NotifyOK'
<1> USE DEF Send
<1>1. CASE s[3] \in Configured
  <2>1. /\ sender' = [sender EXCEPT ![s] = "sending"]
        /\ attempts' = [attempts EXCEPT ![s] = attempts[s] + 1]
        /\ UNCHANGED <<phase, client, late, received, result, row>>
    BY <1>1
  <2>2. attempts[s] + 1 \in Nat /\ attempts[s] + 1 <= Tries(s)
    BY CountersType
  <2>3. attempts' \in [Sender -> Nat]
    BY <2>1, <2>2 DEF NotifyOK, NotifyTypeOK
  <2>4. attempts'[s] = attempts[s] + 1 /\ received' \in [Sender -> Nat]
    BY <2>1 DEF NotifyOK, NotifyTypeOK
  <2>5. received'[s] + late'[s] + 1 <= attempts'[s] /\ late'[s] >= 0
    BY <2>1, <2>4, CountersType
  <2>6. \A d \in Sender \ {s} :
          attempts'[d] = attempts[d] /\ late'[d] = late[d] /\ received'[d] = received[d]
    BY <2>1 DEF NotifyOK, NotifyTypeOK
  <2> QED
    BY <2>1, <2>2, <2>3, <2>4, <2>5, <2>6, CountersType, SenderMoves
<1>2. CASE s[3] \notin Configured
  <2>1. /\ sender' = [sender EXCEPT ![s] = "failed"]
        /\ UNCHANGED <<phase, client, attempts, late, received, result, row>>
    BY <1>2
  <2>2. attempts' \in [Sender -> Nat] /\ received' \in [Sender -> Nat]
    BY <2>1 DEF NotifyOK, NotifyTypeOK
  <2>3. received'[s] + late'[s] + 0 <= attempts'[s] /\ late'[s] >= 0
    BY <2>1, CountersType
  <2> QED
    BY <2>1, <2>2, <2>3, CountersType, SenderMoves
<1> QED
  BY <1>1, <1>2

LEMMA AnswerKeepsOK ==
  ASSUME NotifyOK, NEW s \in Sender, Answer(s) PROVE NotifyOK'
<1>1. /\ sender[s] = "sending"
      /\ UNCHANGED <<phase, client, attempts, result, row>>
      /\ attempts' \in [Sender -> Nat]
  BY DEF Answer, Accepted, Rejected, Failed, Unanswered, Answered, NotifyOK, NotifyTypeOK
<1>2. PICK now \in {"ready", "failed", "delivered"} :
        /\ sender' = [sender EXCEPT ![s] = now]
        /\ now = "ready" => attempts[s] < Tries(s)
        /\ now = "delivered" => received'[s] = received[s] + 1
  BY DEF Answer, Accepted, Rejected, Failed, Unanswered, Retry, NotifyOK, NotifyTypeOK
<1>3. /\ received' \in [Sender -> Nat] /\ late' \in [Sender -> Int]
      /\ late'[s] >= 0 /\ received'[s] + late'[s] <= received[s] + late[s] + 1
      /\ \A d \in Sender \ {s} : late'[d] = late[d] /\ received'[d] = received[d]
  <2> USE DEF NotifyOK, NotifyTypeOK
  <2>1. CASE Accepted(s)
    BY <2>1, CountersType DEF Accepted
  <2>2. CASE Rejected(s)
    BY <2>2, CountersType DEF Rejected
  <2>3. CASE Failed(s)
    BY <2>3, CountersType DEF Failed
  <2>4. CASE Unanswered(s)
    BY <2>4, CountersType DEF Unanswered
  <2> QED
    BY <2>1, <2>2, <2>3, <2>4 DEF Answer
<1>4. received'[s] + late'[s] + 0 <= attempts'[s] /\ attempts'[s] <= Tries(s)
  BY <1>1, <1>3, CountersType
<1>5. now = "delivered" => received'[s] >= 1
  BY <1>2, CountersType
<1> QED
  BY <1>1, <1>2, <1>3, <1>4, <1>5, SenderMoves

LEMMA ArriveKeepsOK ==
  ASSUME NotifyOK, NEW s \in Sender, Arrive(s) PROVE NotifyOK'
<1> USE DEF NotifyOK, NotifyTypeOK, Arrive
<1>1. /\ late'[s] = late[s] - 1 /\ received'[s] = received[s] + 1
      /\ \A d \in Sender \ {s} : late'[d] = late[d] /\ received'[d] = received[d]
  OBVIOUS
<1>2. /\ late[s] - 1 \in Nat /\ received[s] + 1 \in Nat
      /\ received'[s] + late'[s] = received[s] + late[s]
  BY <1>1, CountersType
<1>3. NotifyTypeOK'
  BY <1>2
<1>4. CopiesAreAttempts'
  BY <1>1, <1>2 DEF CopiesAreAttempts, InFlight, Tries
<1>5. DeliveredIsReceived'
  BY <1>1, CountersType DEF DeliveredIsReceived
<1> QED
  BY <1>3, <1>4, <1>5 DEF SuccessIsDelivered

LEMMA RaiseKeepsOK ==
  ASSUME NotifyOK, NEW t \in Task, Raise(t) PROVE NotifyOK'
<1>1. UNCHANGED <<phase, client, attempts, received, result, row>>
  BY DEF Raise
<1>2. ASSUME NEW s \in Sender
      PROVE  /\ late'[s] = late[s] + (IF s \in SendersOf(t) /\ sender[s] = "sending" THEN 1 ELSE 0)
             /\ sender'[s] = IF s \in SendersOf(t) /\ ~Ended(s) THEN "failed" ELSE sender[s]
  BY DEF Raise
<1>3. ASSUME NEW s \in Sender
      PROVE  /\ received'[s] + late'[s] + InFlight(s)' <= attempts'[s]
             /\ attempts'[s] <= Tries(s)
             /\ sender'[s] = "ready" => attempts'[s] < Tries(s)
             /\ late'[s] \in Nat
  <2>1. CASE s \in SendersOf(t) /\ sender[s] = "sending"
    <3>1. late'[s] = late[s] + 1 /\ sender'[s] = "failed"
      BY <1>2, <2>1 DEF Ended
    <3>2. late[s] + 1 \in Nat
      BY <2>1, CountersType
    <3> QED
      BY <1>1, <2>1, <3>1, <3>2, CountersType DEF InFlight
  <2>2. CASE ~(s \in SendersOf(t) /\ sender[s] = "sending")
    <3>1. late'[s] = late[s] + 0 /\ sender'[s] \in {sender[s], "failed"}
      BY <1>2, <2>2
    <3>2. late'[s] = late[s]
      BY <3>1, CountersType
    <3>3. /\ received[s] + late[s] + InFlight(s) <= attempts[s]
          /\ InFlight(s) \in {0, 1} /\ InFlight(s)' \in {0, 1}
          /\ InFlight(s)' = 1 => InFlight(s) = 1
      BY <3>1 DEF NotifyOK, CopiesAreAttempts, InFlight
    <3>4. received'[s] + late'[s] + InFlight(s)' <= attempts'[s]
      BY <1>1, <3>2, <3>3, CountersType
    <3>5. sender'[s] = "ready" => sender[s] = "ready"
      BY <3>1
    <3>6. late[s] \in Nat
      BY DEF NotifyOK, NotifyTypeOK
    <3> QED
      BY <1>1, <3>2, <3>4, <3>5, <3>6, CountersType
  <2> QED
    BY <2>1, <2>2
<1>4. CopiesAreAttempts'
  BY <1>3 DEF CopiesAreAttempts, Tries
<1>5. sender' \in [Sender -> {"ready", "sending", "delivered", "failed"}]
  BY DEF Raise, NotifyOK, NotifyTypeOK
<1>6. late' \in [Sender -> Nat]
  BY <1>3 DEF Raise
<1>7. NotifyTypeOK'
  BY <1>1, <1>5, <1>6 DEF NotifyOK, NotifyTypeOK
<1>8. \A s \in Sender : sender'[s] = "delivered" <=> sender[s] = "delivered"
  BY <1>2 DEF Ended
<1>9. DeliveredIsReceived' /\ SuccessIsDelivered'
  BY <1>1, <1>8, TasksSenders DEF NotifyOK, DeliveredIsReceived, SuccessIsDelivered
<1> QED
  BY <1>4, <1>7, <1>9 DEF NotifyOK

LEMMA TaskKeepsOK ==
  ASSUME NotifyOK, NEW t \in Task, Return(t) \/ Record(t) PROVE NotifyOK'
<1> USE DEF NotifyOK
<1>1. UNCHANGED <<phase, client, senders>>
  BY DEF Return, Record
<1>2. CopiesAreAttempts' /\ DeliveredIsReceived'
  BY <1>1 DEF senders, CopiesAreAttempts, InFlight, Tries, DeliveredIsReceived
<1>3. NotifyTypeOK' /\ SuccessIsDelivered'
  <2>1. CASE Return(t)
    <3>1. result' = [result EXCEPT ![t] = Verdict(t)] /\ result[t] = "none" /\ row' = row
      BY <2>1 DEF Return
    <3>2. /\ Verdict(t) \in {"success", "failure"}
          /\ Verdict(t) = "success" => \A s \in SendersOf(t) : sender[s] = "delivered"
      BY DEF Verdict
    <3> QED
      BY <1>1, <3>1, <3>2 DEF senders, NotifyTypeOK, SuccessIsDelivered
  <2>2. CASE Record(t)
    BY <1>1, <2>2 DEF Record, senders, NotifyTypeOK, SuccessIsDelivered
  <2> QED
    BY <2>1, <2>2
<1> QED
  BY <1>2, <1>3

LEMMA OthersKeepOK ==
  ASSUME NotifyOK, Dispatch \/ Finish \/ GiveUp \/ Crash \/ UNCHANGED vars PROVE NotifyOK'
<1> USE DEF NotifyOK
<1>1. UNCHANGED <<senders, result, row>>
  BY DEF Dispatch, Finish, GiveUp, Crash, vars
<1>2. phase' \in {"committed", "dispatching", "done", "lost"} /\ client' \in {"waiting", "answered", "gone"}
  BY DEF Dispatch, Finish, GiveUp, Crash, vars, NotifyTypeOK
<1> QED
  BY <1>1, <1>2 DEF senders, NotifyTypeOK, CopiesAreAttempts, InFlight, Tries,
     DeliveredIsReceived, SuccessIsDelivered

\* The invariant the others rest on: every copy is of an attempt, and a
\* success is of deliveries.
THEOREM DispatchStaysOK == Spec => []NotifyOK
<1>1. Init => NotifyOK
  <2> SUFFICES ASSUME Init PROVE NotifyOK
    OBVIOUS
  <2>1. NotifyTypeOK
    BY DEF Init, NotifyTypeOK
  <2>2. CopiesAreAttempts
    BY TriesType DEF Init, CopiesAreAttempts, InFlight
  <2> QED
    BY <2>1, <2>2 DEF Init, NotifyOK, DeliveredIsReceived, SuccessIsDelivered
<1>2. NotifyOK /\ [Next]_vars => NotifyOK'
  BY SendKeepsOK, AnswerKeepsOK, ArriveKeepsOK, RaiseKeepsOK, TaskKeepsOK, OthersKeepOK DEF Next
<1> QED
  BY <1>1, <1>2, PTL DEF Spec

\* The variables of a dispatch keep their types.
THEOREM NotifyIsTyped == Spec => []NotifyTypeOK
<1>1. NotifyOK => NotifyTypeOK
  BY DEF NotifyOK
<1> QED
  BY <1>1, DispatchStaysOK, PTL

\* A row that says success is about a notification that every destination of
\* its channel has processed, for any number of webhooks.
THEOREM SuccessIsReceived == Spec => []SuccessMeansReceived
<1>1. NotifyOK => SuccessMeansReceived
  BY TasksSenders DEF NotifyOK, SuccessIsDelivered, DeliveredIsReceived, SuccessMeansReceived
<1> QED
  BY <1>1, DispatchStaysOK, PTL

\* No destination gets more copies than its sender may make attempts, the
\* client's own ones included, although requests that were given up may still
\* arrive.
THEOREM CopiesStayBounded == Spec => []CopiesAreBounded
<1>1. NotifyOK => CopiesAreBounded
  <2> SUFFICES ASSUME NotifyOK, NEW s \in Sender PROVE received[s] + late[s] <= Tries(s)
    BY DEF CopiesAreBounded, Tries
  <2>1. received[s] + late[s] + InFlight(s) <= attempts[s] /\ InFlight(s) \in {0, 1}
    BY DEF NotifyOK, CopiesAreAttempts, InFlight
  <2> QED
    BY <2>1, CountersType
<1> QED
  BY <1>1, DispatchStaysOK, PTL

=============================================================================
