CONSTANTS
  ann = ann
  bob = bob
  ops = ops
  i1 = i1
  i2 = i2
  e1 = e1
  Approver = {ann, bob}
  Group = {ops, bob}
  Email = {e1, e2}
  Call = {c1, c2}
  Key = {k1}
  File <- TheFile
  HasDefault = TRUE
  Absent = Absent
  Deleted = Deleted
  Interrupt = {i1, i2}
  PolicySets <- ThePolicySets
  FilePolicies <- TheFilePolicies
  DefaultApprover = default_approver
SPECIFICATION EscalationSpec
CONSTRAINT OneInterrupt
SYMMETRY Symmetry
INVARIANTS
  EscalationTypeOK
  CopyIsTable
  AsksWholeGroups
PROPERTIES
  GroupsGetActiveMembers
  RoutesByTheTable
  HandsOverAsSeeded
  HandsOverInFileOrder
CHECK_DEADLOCK FALSE
