CONSTANTS
  Conns = {c1, c2}
  Targets = {t1}
  Users = {u1, u2}
  Janitors = {j1, j2}
  Closers = {k1, k2}
  NoConn = NoConn
  NoTarget = NoTarget
SPECIFICATION FairSpec
CHECK_DEADLOCK FALSE
INVARIANTS
  TypeOK
  CacheSound
  OneJanitor
PROPERTIES
  JanitorSparesInUse
  CloseTerminates
