SPECIFICATION Spec
CONSTANTS
  d1 = d1
  d2 = d2
  d3 = d3
  Threads = {t1, t2}
  Digests = {d1, d2, d3}
  RawIds = {i1, i2}
  NoThread = noThread
  NoJob = noJob
  NoRecord = noRecord
  Kind <- MCKind
  Bound <- MCBound
CHECK_DEADLOCK FALSE
INVARIANTS
  TypeOK
  RecordHasContent
  GateFailsClosed
PROPERTIES
  VerdictsStand
  EveryFileDecided
  EveryCallReturns
