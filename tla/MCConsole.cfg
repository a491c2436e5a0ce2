CONSTANTS
  t1 = t1
  t2 = t2
  t3 = t3
  c1 = c1
  c2 = c2
  h1 = h1
  h2 = h2
  m1 = m1
  m2 = m2
  na = na
  nb = nb
  Cluster = {c1, c2}
  Host = {h1, h2}
  Name = {na, nb}
  All = All
  None = None
  Token = {t1, t2, t3}
  Fleets <- MCFleets
  ClusterList <- MCClusterList
  MaxAsked = 2
  Password = {m1, m2}
  Spelling <- MCSpelling
  MaxClusters = 3
  Watched = {na}
  Grace = 1
  MaxDay = 1
  MaxRaced = 0
  Elected = {"n1", "n2"}
  MasterWindow = 1
  Muted = {"health"}
  Acked = {"slm-fail"}
  DataNode = {na, nb, h1}
  Path = 2
  CapacityWindow = 2
  DiskSizes = {0, 2, 40}
  Rests = {0, 2, 3}
  MaxGrown = 2
  Lists <- MCLists
  FanOutLimit = 2
  DelayLimit = 1
  ArchiveDays = 2
  MaxSnapshots = 3
  SnapshotWindow = 2
  Rules <- MCRules
  RuleDays = 2
  RuleMoves = 1
  Pct = {70, 75, 86, 92, 96}
  Lows = {None, 94}
  Replica = {na}
  ShardMoves = 1
  MaxSent = 2
  HistoryLimit = 1
  DailyIndex = {1, 2}
  MaxTaken = 1
  Kinds <- MCKinds
  Addresses = {nb}
  Limits <- MCLimits
  EventTime <- MCEventTime
  MaxDocs = 4
  MaxIndices = 2
  MaxAged = 2
  MaxNewest = 4
  Keep = 1
  MaxSecond = 2
  ConfigSaves = 3
  VolumeDays = 4
  DaySizes = {None, 6, 24}
  Windows <- MCWindows
  Policies <- MCPolicies
  BackupCapacity <- MCBackupCapacity
  DiskTotal = 60
  MeasuredAtMost = 1
  RuleEdits = 2
  RuleSaves = 2
  LastIndex = 3
  PerPage = 1
  Texts = {{1, 2, 3}, {1, 3}}
  MaxFound = 2
  IndexMoves = 1
  MaxFilters = 1
SPECIFICATION MCSpec
INVARIANTS
  IdentityIsKept
  SavedMeansSaved
  WritesAreDeliberate
  AlertsHaveACause
  NoDataIsLostUnasked
  RulesAreAsTold
  ShownIsWhatWasChosen
  NothingIsLeftOut
  FiguresAreSafe
  DelaysAreHonest
PROPERTIES
  LosesNoSession
  AnnouncesOnce
