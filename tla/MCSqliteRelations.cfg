CONSTANTS
  a = a
  b = b
  t1 = t1
  t2 = t2
  c1 = c1
  c2 = c2
  rd = rd
  Tenant = {t1, t2}
  Tuple = {a, b}
  Conn = {c1, c2}
  Reader = {rd}
  Watcher = {}
  Batches <- MCBatches
  MaxWrites = 3
  MaxFaults = 1
SPECIFICATION Spec
INVARIANTS
  TypeOK
  WriteHolds
  ReadIsSnapshot
  CallReadsOneSnapshot
PROPERTY ImplementsStore
SYMMETRY Interchangeable
CHECK_DEADLOCK FALSE
