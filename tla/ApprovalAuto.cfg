SPECIFICATION Spec
CONSTANTS
  Gate = {g1}
  NoGate = NoGate
  HomeDangerous = TRUE
  Terminal = FALSE
  LogWritable = TRUE
  MaxTypeAhead = 1
INVARIANTS
  ExplicitApproval
