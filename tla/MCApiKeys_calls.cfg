CONSTANTS
  Key = {k1, k2, k3}
  Call = {c1, c2}
  Server = {s1, s2}
  ScopeSets <- TheScopeSets
  AllScopes <- Admin
  BootstrapKey = bootstrap_key
  Absent = Absent
SPECIFICATION FairSpec
INVARIANTS
  SomebodyIsLeft
PROPERTIES
  BootActsOnItsLook
  CallsEnd
CHECK_DEADLOCK FALSE
