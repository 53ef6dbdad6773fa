CONSTANTS
  Approval = {a1, a2}
  Group = {g1}
  Request = {r1, r2}
  Worker = {w1}
  MaxApprovers = 2
  MaxDepth = 1
  NoApproval = NoApproval
  NoGroup = NoGroup
SPECIFICATION Spec
INVARIANT AtMostOneDecision
CHECK_DEADLOCK FALSE
