-------------------------------- MODULE Notify --------------------------------
(***************************************************************************)
(* The notifications of one plan (notify/): after the approval rows are    *)
(* committed, the dispatcher sends to every approver on every channel at   *)
(* once, and POST /interrupts answers when all have ended.  The same       *)
(* dispatch follows an escalation, with no client that waits for it.       *)
(*                                                                         *)
(* A channel has one destination, or, webhook, every active webhook.  The  *)
(* receivers and the network are external: a request may be processed and  *)
(* answered with an error, answered too late, or arrive after its sender   *)
(* has given it up.  A loop of webhook.py or email.py is not the only one  *)
(* that sends again: the Slack client has a retry of its own.              *)
(***************************************************************************)
EXTENDS Integers, FiniteSets

CONSTANTS Approver,    \* the entries of plan.approvers
          Channel,     \* plan.notify_channels
          Webhook,     \* the active webhooks of webhooks.yaml
          Configured,  \* destinations whose host, token or secret is set
          MaxRetries   \* 3 in webhook.py and email.py

Destination(channel) == IF channel = "webhook" THEN Webhook ELSE {channel}

ASSUME NotifyAssumption ==
  /\ Channel \subseteq {"email", "webhook", "slack"}
  /\ Configured \subseteq UNION {Destination(ch) : ch \in Channel}
  /\ MaxRetries \in Nat \ {0}

Task == Approver \X Channel

\* One _send_to_webhook, or the one loop of a channel's send.
SendersOf(t) == {<<t[1], t[2], d>> : d \in Destination(t[2])}

Sender == UNION {SendersOf(t) : t \in Task}

VARIABLES
  phase,     \* committed, dispatching, done, or lost when the server stopped
  client,    \* the SDK's POST /interrupts
  sender,    \* where each sender is
  attempts,  \* how often it has sent
  late,      \* requests given up by their sender that may still arrive
  received,  \* how often the destination has processed the notification
  result,    \* what a task's send returned
  row        \* its row in notification_attempts

senders == <<sender, attempts, late, received>>
vars == <<phase, client, senders, result, row>>

NotifyTypeOK ==
  /\ phase \in {"committed", "dispatching", "done", "lost"}
  /\ client \in {"waiting", "answered", "gone"}
  /\ sender \in [Sender -> {"ready", "sending", "delivered", "failed"}]
  /\ attempts \in [Sender -> Nat]
  /\ late \in [Sender -> Nat]
  /\ received \in [Sender -> Nat]
  /\ result \in [Task -> {"none", "success", "failure"}]
  /\ row \in [Task -> {"none", "success", "failure", "missing"}]

Init ==
  /\ phase = "committed"
  /\ client = "waiting"
  /\ sender = [s \in Sender |-> "ready"]
  /\ attempts = [s \in Sender |-> 0]
  /\ late = [s \in Sender |-> 0]
  /\ received = [s \in Sender |-> 0]
  /\ result = [t \in Task |-> "none"]
  /\ row = [t \in Task |-> "none"]

-----------------------------------------------------------------------------

\* The Slack client is made with the defaults of slack_sdk, one of which is
\* a handler that repeats a request once when its connection is lost.
Tries(s) == IF s[2] = "slack" THEN 2 ELSE MaxRetries

FaultyRetry(s) == IF attempts[s] <= Tries(s) THEN "ready" ELSE "failed"

\* What a sender does when an attempt failed.
Retry(s) == IF attempts[s] < Tries(s) THEN "ready" ELSE "failed"

FaultyEnded(s) == sender[s] = "delivered"

Ended(s) == sender[s] \in {"delivered", "failed"}

FaultyVerdict(t) ==
  IF SendersOf(t) = {} \/ \E s \in SendersOf(t) : sender[s] = "delivered"
  THEN "success" ELSE "failure"

\* all(results): no active webhook is a success.
Verdict(t) ==
  IF \A s \in SendersOf(t) : sender[s] = "delivered" THEN "success" ELSE "failure"

Dispatch ==
  /\ phase = "committed"
  /\ phase' = "dispatching"
  /\ UNCHANGED <<client, senders, result, row>>

\* Without host, token or secret a sender fails at once.
Send(s) ==
  /\ phase = "dispatching"
  /\ sender[s] = "ready"
  /\ IF s[3] \in Configured
     THEN /\ sender' = [sender EXCEPT ![s] = "sending"]
          /\ attempts' = [attempts EXCEPT ![s] = @ + 1]
     ELSE /\ sender' = [sender EXCEPT ![s] = "failed"]
          /\ UNCHANGED attempts
  /\ UNCHANGED <<phase, client, late, received, result, row>>

Answered(s) ==
  /\ phase = "dispatching"
  /\ sender[s] = "sending"
  /\ UNCHANGED <<phase, client, attempts, result, row>>

Accepted(s) ==
  /\ Answered(s)
  /\ sender' = [sender EXCEPT ![s] = "delivered"]
  /\ received' = [received EXCEPT ![s] = @ + 1]
  /\ UNCHANGED late

\* HTTP 4xx, an authentication error, an error of Slack's: no retry.
Rejected(s) ==
  /\ Answered(s)
  /\ sender' = [sender EXCEPT ![s] = "failed"]
  /\ UNCHANGED <<late, received>>

\* HTTP 5xx or an SMTP error, which may come after the receiver's work; of
\* Slack's it raises SlackApiError, which nobody retries.
Failed(s) ==
  /\ Answered(s)
  /\ sender' = [sender EXCEPT ![s] = IF s[2] = "slack" THEN "failed" ELSE Retry(s)]
  /\ \E copies \in {0, 1} : received' = [received EXCEPT ![s] = @ + copies]
  /\ UNCHANGED late

\* No answer came, of a timeout or a lost connection: the request may have
\* been processed, or still be on its way.  (Slack's timeout is a Raise.)
Unanswered(s) ==
  /\ Answered(s)
  /\ sender' = [sender EXCEPT ![s] = Retry(s)]
  /\ late' = [late EXCEPT ![s] = @ + 1]
  /\ UNCHANGED received

Answer(s) == Accepted(s) \/ Rejected(s) \/ Failed(s) \/ Unanswered(s)

Arrive(s) ==
  /\ late[s] > 0
  /\ late' = [late EXCEPT ![s] = @ - 1]
  /\ received' = [received EXCEPT ![s] = @ + 1]
  /\ UNCHANGED <<phase, client, sender, attempts, result, row>>

\* An exception that send does not expect ends the senders of its task, the
\* other webhooks by closing the client they share.
Raise(t) ==
  /\ phase = "dispatching"
  /\ \E s \in SendersOf(t) : sender[s] = "sending"
  /\ sender' = [s \in Sender |->
                  IF s \in SendersOf(t) /\ ~Ended(s) THEN "failed" ELSE sender[s]]
  /\ late' = [s \in Sender |->
                late[s] + IF s \in SendersOf(t) /\ sender[s] = "sending" THEN 1 ELSE 0]
  /\ UNCHANGED <<phase, client, attempts, received, result, row>>

\* send returns, or _send_safe has caught what it raised.
Return(t) ==
  /\ phase = "dispatching"
  /\ result[t] = "none"
  /\ \A s \in SendersOf(t) : Ended(s)
  /\ result' = [result EXCEPT ![t] = Verdict(t)]
  /\ UNCHANGED <<phase, client, senders, row>>

\* The row is inserted, unless that fails, which is logged.
Record(t) ==
  /\ phase = "dispatching"
  /\ result[t] # "none"
  /\ row[t] = "none"
  /\ \E r \in {result[t], "missing"} : row' = [row EXCEPT ![t] = r]
  /\ UNCHANGED <<phase, client, senders, result>>

\* gather returns, and the endpoint answers.
Finish ==
  /\ phase = "dispatching"
  /\ \A t \in Task : row[t] # "none"
  /\ phase' = "done"
  /\ client' = IF client = "waiting" THEN "answered" ELSE client
  /\ UNCHANGED <<senders, result, row>>

\* The SDK gives up after 30 seconds, less than the retries may take; the
\* handler goes on.
GiveUp ==
  /\ client = "waiting"
  /\ client' = "gone"
  /\ UNCHANGED <<phase, senders, result, row>>

\* Nothing sends again what a server that stopped has not sent.
Crash ==
  /\ phase \in {"committed", "dispatching"}
  /\ phase' = "lost"
  /\ client' = "gone"
  /\ UNCHANGED <<senders, result, row>>

Next ==
  \/ Dispatch \/ Finish \/ GiveUp \/ Crash
  \/ \E s \in Sender : Send(s) \/ Answer(s) \/ Arrive(s)
  \/ \E t \in Task : Raise(t) \/ Return(t) \/ Record(t)

\* Every attempt ends: WEBHOOK_TIMEOUT, SMTP_TIMEOUT and the timeout of the
\* Slack client are finite, so is the backoff, and gather runs all tasks.
\* (httpx's timeout is one of silence: a webhook's receiver is assumed not to
\* send its answer byte by byte for ever.)
Fairness ==
  /\ WF_vars(Dispatch) /\ WF_vars(Finish)
  /\ \A s \in Sender : WF_vars(Send(s)) /\ WF_vars(Answer(s))
  /\ \A t \in Task : WF_vars(Return(t)) /\ WF_vars(Record(t))

Spec == Init /\ [][Next]_vars

FairSpec == Spec /\ Fairness

-----------------------------------------------------------------------------

\* What the table notification_attempts calls a success has reached every
\* destination of the channel, not only one of the webhooks.
SuccessMeansReceived ==
  \A t \in Task : row[t] = "success" => \A s \in SendersOf(t) : received[s] >= 1

\* However answers are lost and requests overtaken by their retries, what a
\* destination has processed and what may yet arrive there are MaxRetries
\* copies at most, and of a Slack message two.
CopiesAreBounded ==
  \A s \in Sender :
    received[s] + late[s] <= IF s[2] = "slack" THEN 2 ELSE MaxRetries

\* The dispatch ends and with it the handler of POST /interrupts, also when
\* every destination fails and the client has gone, unless the server stops.
DispatchEnds == phase = "committed" ~> phase \in {"done", "lost"}

=============================================================================
