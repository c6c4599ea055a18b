CONSTANTS
  a = a
  b = b
  t1 = t1
  t2 = t2
  w1 = w1
  w2 = w2
  Tenant = {t1, t2}
  Tuple = {a, b}
  Watcher = {w1}
  Batches <- MCBatches
  MaxRevisions = 3
SPECIFICATION Spec
INVARIANTS
  TypeOK
  LiveIsHead
  WriteVisibleAtToken
  WatchReplaysToEnd
PROPERTY ImplementsStore
CHECK_DEADLOCK FALSE
