SPECIFICATION Spec
CONSTANTS
  Thread = {t1, t2}
  MaxEntries = 2
  FlushCount = 2
  MaxLogLen = 9
  MaxRotated = 5
  Ops = {}
INVARIANTS
  QuiescentVerifies
