\* A client that resumes after block 1 reconnects while the channel grows.
SPECIFICATION Spec
CONSTANTS
  Conns = {c1, c2, c3}
  Threads = {t1, t2, t3}
  Nobody = Nobody  NoConn = NoConn  Newest = Newest  NoBlock = NoBlock
  Calls = {"connect"}
  Reconn = TRUE  Forever = FALSE  PeerMonitor = FALSE  UserChan = FALSE
  SeekFrom = 1  LastBlock = 1  SkipFirst = FALSE
  QueueCap = 3  MaxHeight = 3  MaxFaults = 2
INVARIANT BlocksInOrder
PROPERTIES ResumesStream
CHECK_DEADLOCK FALSE
