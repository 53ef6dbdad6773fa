CONSTANTS
  Approver = {a1}
  Channel = {"webhook", "slack", "email"}
  Webhook = {w1, w2}
  Configured = {w1, w2, "slack"}
  MaxRetries = 2
SPECIFICATION FairSpec
INVARIANTS
  SuccessMeansReceived
  CopiesAreBounded
PROPERTIES
  DispatchEnds
CHECK_DEADLOCK FALSE
