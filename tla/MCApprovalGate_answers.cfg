CONSTANTS
  Approval = {a1, a2, a3}
  Group = {g1}
  Request = {r1, r2}
  Worker = {w1}
  MaxApprovers = 2
  MaxDepth = 1
  Amount = {1, 2}
  NoApproval = NoApproval
  NoGroup = NoGroup
  NoAmount = NoAmount
  NoAnswer = NoAnswer
SPECIFICATION GateSpec
SYMMETRY Symmetry
INVARIANTS
  AnswerStands
  NobodyIsOverruled
  LeastAmountWins
  AckMatchesAnswer
PROPERTIES
  ImplementsPromise
  LateIsNeverApproved
CHECK_DEADLOCK FALSE
