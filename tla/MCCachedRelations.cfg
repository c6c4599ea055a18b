CONSTANTS
  None = None
  Direct = "direct"
  Forever = Forever
  Corrupt = Corrupt
  t1 = t1
  t2 = t2
  r1 = r1
  r2 = r2
  Tenant = {t1, t2}
  Tuple <- MCTuples
  Contents <- MCContents
  Requests <- MCRequests
  Reader = {r1, r2}
  MaxEntries = 1
  Ttl = 1
  MaxHead = 1
  MaxClock = 1
SYMMETRY Interchangeable
SPECIFICATION Spec
INVARIANTS
  TypeOK
  ReadsExact
  CacheCoherent
PROPERTIES
  NoExpiredHit
  FillSticks
CHECK_DEADLOCK FALSE
