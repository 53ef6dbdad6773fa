CONSTANTS
  Approval = {a1, a2, a3, a4}
  Group = {g1}
  Request = {r1}
  Worker = {w1}
  MaxApprovers = 2
  MaxDepth = 1
  Amount = {}
  NoApproval = NoApproval
  NoGroup = NoGroup
  NoAmount = NoAmount
  NoAnswer = NoAnswer
SPECIFICATION FairGateSpec
PROPERTIES
  GroupSettles
  AnyOfGateEnds
CHECK_DEADLOCK FALSE
