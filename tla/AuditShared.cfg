SPECIFICATION Spec
CONSTANTS
  Thread = {t1, t2}
  MaxEntries = 4
  FlushCount = 2
  MaxLogLen = 0
  MaxRotated = 2
  Ops = {"rotate", "daemon"}
SYMMETRY Symmetry
INVARIANTS
  TypeOK
  Accounted
  NoFork
