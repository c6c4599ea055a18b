CONSTANTS
  a = a
  b = b
  t1 = t1
  c1 = c1
  c2 = c2
  c3 = c3
  Tenant = {t1}
  Tuple = {a, b}
  Call = {c1, c2, c3}
  Reader = {}
  Watcher = {}
  Batches <- MCBatches
  MaxFaults = 1
SPECIFICATION FairSpec
INVARIANTS
  TypeOK
  RevisionsDense
  ClaimExclusive
  WindowsDisjoint
  OneRevisionPerCommit
  TokenNotStale
  MutationsHeldDuringCall
PROPERTY WriteTerminates
CHECK_DEADLOCK FALSE
