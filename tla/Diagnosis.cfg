\* Two link qualities, windows of two tasks, every verdict of the mesh.
SPECIFICATION Spec
CONSTANTS
  Link = {"normal", "lossy"}
  Workload = {"bursty"}
  Sample <- MCSample
  WINDOW = 2
  Answer <- MCAnswer
  Bound <- MCBound
  Foreign <- MCForeign
  OwnIds = {4}
  Margins <- MCMargins
  ScopeOrder <- MCScopeOrder
  None = None
  MaxTasks = 3
  MaxKnown = 2
INVARIANTS TypeOK IncidentIffBreach NeverBlank ClaimsAreOurs SameOnEveryReplica
CHECK_DEADLOCK FALSE
