CONSTANTS
  a = a
  b = b
  t1 = t1
  t2 = t2
  c1 = c1
  c2 = c2
  rd = rd
  Tenant = {t1}
  Tuple = {a, b}
  Conn = {c1, c2}
  Reader = {}
  Watcher = {}
  Batches <- MCBatches
  MaxWrites = 2
  MaxFaults = 1
SPECIFICATION Spec
INVARIANT HeadIsCommitted
CHECK_DEADLOCK FALSE
