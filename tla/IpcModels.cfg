SPECIFICATION FairSpec
CONSTANTS
  IpcAgents <- NamedAgents
  IpcCaps = {"memory.read"}
  Calls = {c1, c2}
  Envelopes <- CirculatedEnvelopes
  Skew = 1
  Retention = 2
  MaxPerWindow = 2
  StaleAfter = 1
  MaxIpcEvents = 3
  MaxIpcTime = 2
  Subscribers = {s1, s2}
  RpcCalls = {r1, r2}
  BusCapacity = 2
  MaxSubscribed = 3
  MaxFailures = 3
  BackoffCap = 3
  MaxOutages = 2
  RtAgents = {a1, a2}
  Operators = {o1, o2}
  MaxRegistered = 3
  MaxRounds = 2
INVARIANTS
  IpcTypeOK
  DispatchSound
  StreamsSound
  ConnectionsSound
PROPERTIES
  IpcProgress
CHECK_DEADLOCK FALSE
