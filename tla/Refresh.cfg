CONSTANTS
  c1 = c1
  Cluster = {c1}
  PageAsks = {c1}
  Outcome = {"ok", "gone"}
  MaxLoads = 1
  None = None
SPECIFICATION Spec
INVARIANTS
  SweepOwnsItsFetches
  ReloadIsClean
PROPERTIES
  ShowsOnlyAnswers
  SweepEnds
  ReloadIsRead
  AutoRefreshReaches
