CONSTANTS
  Approval = {a1, a2}
  Group = {g1}
  Request = {r1}
  Worker = {w1}
  MaxApprovers = 2
  MaxDepth = 1
  Amount = {1, 2}
  NoApproval = NoApproval
  NoGroup = NoGroup
  NoAmount = NoAmount
  NoAnswer = NoAnswer
SPECIFICATION GateSpec
INVARIANT EscalationKeepsTheGate
CHECK_DEADLOCK FALSE
