SPECIFICATION FairSpec
CONSTANTS
  Samples <- SampledMetrics
  Hysteresis = 3
  OverrideTimes = {0, 2}
  WriteFailures <- FailingKnobs
  Weights = {9, 10, 400, 401}
  MinHistory = 2
  Requests = {"r1", "r2", "r3", "r4"}
  Inputs = {"find", "send"}
  BlankInput = ""
  InputOf <- FirstInput
  Outputs <- ModelOutputs
  MaxEntries = 1
  MaxAge = 1
  MaxIntentTime = 2
  Contexts = {"c1", "c2"}
  CandidateLists <- AskedLists
  GraphNodes = {1, 2, 3}
  Paths = {"notes", "plan"}
  DomainOf <- DomainOfPath
  Indexable = {"notes", "plan"}
  MaxQueued = 2
  PoolTotal = 8
  PoolSizes = {2, 3, 4}
  MaxReleases = 3
  PageUnits = 2
  MaxLocked = 4
  LockSizes = {0, 1, 3}
  MaxBuffers = 3
  FabricAgents = {"f1", "f2"}
  GuardSize = 1
  RegionSizes = {2, 3}
  Invocations = {"i1", "i2"}
  EditPaths = {"p1", "p2"}
  MaxRuns = 3
  MaxAgents = 2
  DecisionCap = 2
INVARIANTS
  ServicesTypeOK
  IntentSound
  ServicesSound
PROPERTIES
  ServicesProgress
CHECK_DEADLOCK FALSE
