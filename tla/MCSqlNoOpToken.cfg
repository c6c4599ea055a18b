CONSTANTS
  a = a
  b = b
  t1 = t1
  t2 = t2
  c1 = c1
  c2 = c2
  c3 = c3
  rd = rd
  w = w
  Tenant = {t1}
  Tuple = {a, b}
  Call = {c1, c2, c3}
  Reader = {}
  Watcher = {}
  Batches <- MCBatches
  MaxFaults = 0
SPECIFICATION Spec
INVARIANT WriteVisibleAtToken
CHECK_DEADLOCK FALSE
