SPECIFICATION FairSpec
CONSTANTS
  Req = {r1, r2}
  Task = {t1, t2}
  NoReq = NoReq
  NoTask = NoTask
  HalGate = {"Some", "None"}
  MaxOrphans = 1
PROPERTIES
  Answered
