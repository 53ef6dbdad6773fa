CONSTANTS
  Call = {c1, c2, x1}
  Loadable = {c1, c2}
  Key = {k1, k2}
  KeepVersions = 2
  Seed = Seed
  NoContent = NoContent
SPECIFICATION Spec
SYMMETRY Symmetry
INVARIANTS
  SnapshotsAreTrue
  HistoryKeepsTheLast
  CacheIsRow
PROPERTIES
  ImplementsRegister
  UpdatesInTurn
CHECK_DEADLOCK FALSE
