SPECIFICATION Spec
CONSTANTS
  Thread = {t1}
  MaxEntries = 4
  FlushCount = 2
  MaxLogLen = 9
  MaxRotated = 5
  Ops = {"wipe", "crash", "edit"}
INVARIANTS
  QuiescentVerifies
  VerdictExact
  TipOnDisk
