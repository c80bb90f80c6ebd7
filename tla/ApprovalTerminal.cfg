SPECIFICATION Spec
CONSTANTS
  Gate = {g1, g2}
  NoGate = NoGate
  HomeDangerous = TRUE
  Terminal = TRUE
  LogWritable = TRUE
  MaxTypeAhead = 1
SYMMETRY Symmetry
INVARIANTS
  AuditedFirst
