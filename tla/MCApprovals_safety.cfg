CONSTANTS
  Approval = {a1, a2, a3, a4}
  Group = {g1}
  Request = {r1, r2}
  Worker = {w1, w2}
  MaxApprovers = 2
  MaxDepth = 2
  NoApproval = NoApproval
  NoGroup = NoGroup
SPECIFICATION Spec
SYMMETRY Symmetry
INVARIANTS
  PendingIsUntouched
  OnePendingPerAnyOf
  WorkerActsOnce
  EscalationBounded
  LedgerExplains
  NoLockCycle
PROPERTIES
  Lifecycle
  ImplementsHandover
CHECK_DEADLOCK FALSE
