SPECIFICATION Spec
CONSTANTS
  CalClasses <- CalibratedClasses
  CalEdits = {1, 9, 30}
  MaxFeedback = 2
  CacheKeys = {k1, k2, k3}
  CacheVerdicts = {approve}
  CacheCapacity = 2
  CacheTTL = 1
  MaxCacheTime = 2
  Domains <- PreloadDomains
  ActionKeys = {act}
  MaxAcceptance = 3
  AssessAgents = {planner}
  Observations <- ObservedActions
  WindowSize = 5
  RecentSize = 2
  Risks <- BandRisks
  Confidences <- BandConfidences
  ScoredActions <- EveryScoredAction
  TrustAgents = {a1, a2}
  TrustDeltas <- Reinforcements
  MaxTrustTime = 2
  MaxReinforced = 2
  StreamLimit = 2
  WatchedAgents = {a1, a2}
  WindowTicks = 2
  MaxActivity = 2
  MaxWatchTime = 2
  Agents = {a1, a2}
  MaxPerPeriod = 2
  MaxCallers = 2
  MaxDepth = 2
  RateWindow = 2
  WindowMaxEntries = 2
  MaxEnters = 3
  MaxPrivTime = 3
  PolicyIds = {p1, p2, p3}
  PolicyPriorities <- PriorityBands
  PolicyEffects <- InstalledEffects
  GovernedAgents = {a1, a2}
  GovernedActions = {x}
  GovernedRisks = {0, 7}
  Proposals = {c1, c2}
  ApprovalDelay = 2
  MaxMetaTime = 4
  Writers = {w1, w2}
  MaxSnapshots = 3
  MaxPoints = 2
  MaxCheckpoints = 4
  OwnFiles = {f1, f2}
  ChainAgents = {a1, a2}
  MaxEntries = 3
  MaxStamp = 3
  LookBack = 1
  Roots = {r1, r2}
  MaxForks = 4
  WatchedPaths = {hal}
  OtherPaths = {home, tmp}
  MaxRewrites = 3
  CustomPaths <- ProtectedAbove
  MaxAnswers = 4
INVARIANTS
  HalTypeOK
  AssessmentsSound
  TrustSound
  PrivilegesHeld
  RulesSound
  RecordsSound
PROPERTIES
  CacheServesFresh
CHECK_DEADLOCK FALSE
