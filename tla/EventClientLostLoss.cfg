\* The loss of a connection is reported while connect() has not finished.
SPECIFICATION Spec
CONSTANTS
  Nobody = Nobody  NoConn = NoConn  Newest = Newest  NoBlock = NoBlock
  Conns = {c1, c2}
  Threads = {t1, t2, t3}
  Calls = {"connect"}
  Reconn = TRUE  Forever = TRUE  PeerMonitor = FALSE  UserChan = FALSE
  SeekFrom = Newest  LastBlock = NoBlock  SkipFirst = TRUE
  QueueCap = 3  MaxHeight = 0  MaxFaults = 1
INVARIANT LossIsNoticed
CHECK_DEADLOCK FALSE
