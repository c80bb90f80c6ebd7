SPECIFICATION Spec
CONSTANTS
  ClusterNodes = {"n1", "n2", "n3", "n4"}
  Percents = {50, 51, 67}
  MaxEpochs = 1
  MaxAnswers = 2
  MaxIndex = 3
  MeshNodes = {"n1", "n2", "n3", "n4"}
  LocalNode = "n1"
  AuditCapacity = 2
  DataCapacity = 2
  MetaCapacity = 1
  CachePaths = {"p1", "p2", "p3"}
  Lengths = {1, 3}
  MaxChecks = 4
  MaxInserts = 4
  FileNames = {"f1", "f2"}
  LastSecond = 2
  MaxVersions = 2
  MaxReads = 3
  MaxCoOpens = 3
  ModelSizes <- SampleSizes
  CapacityBytes = 6
  Clients = {"c1", "c2"}
  Targets = {3, 6}
  Completions = {"r1", "r2"}
  ContextTokens = 3
  MaxTokens = 6
  Vms = {"v1", "v2", "v3"}
  MaxTurns = 4
  Packages = {"p1", "p2"}
  SandboxIds = {"s1", "s2"}
  MaxRestarts = 5
  MaxDropped = 2
INVARIANTS
  PlatformTypeOK
  ClusterSound
  FilesSound
  RuntimeSound
CHECK_DEADLOCK FALSE
