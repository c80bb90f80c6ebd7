SPECIFICATION Spec
CONSTANTS
  Req = {r1, r2}
  Task = {t1, t2, t3}
  NoReq = NoReq
  NoTask = NoTask
  HalGate = {"Some", "None"}
  MaxOrphans = 1
SYMMETRY Symmetry
INVARIANTS
  TypeOK
  GateBeforeRun
  ExecAfterPreds
  AtMostOnce
  OneActive
  PlanInstalls
PROPERTIES
  ReportsTruthful
