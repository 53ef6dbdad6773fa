CONSTANTS
  Key = {k1, k2}
  Call = {c1, c2}
  Server = {s1}
  ScopeSets <- TheScopeSets
  AllScopes <- Admin
  BootstrapKey = bootstrap_key
  Absent = Absent
SPECIFICATION Spec
INVARIANT UsedKeysLookUsed
CHECK_DEADLOCK FALSE
