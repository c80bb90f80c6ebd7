SPECIFICATION FairSpec
CONSTANTS
  Gate = {g1, g2}
  NoGate = NoGate
  HomeDangerous = FALSE
  Terminal = FALSE
  LogWritable = FALSE
  MaxTypeAhead = 1
INVARIANTS
  TypeOK
  ExplicitApproval
  DialogHeld
PROPERTIES
  VerdictFinal
  DaemonAnswers
