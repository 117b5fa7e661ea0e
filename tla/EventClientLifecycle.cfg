\* Connect and Close race a connection that fails and reconnects.
SPECIFICATION FairSpec
CONSTANTS
  Conns = {c1, c2}
  Threads = {t1, t2, t3, t4}
  Nobody = Nobody  NoConn = NoConn  Newest = Newest  NoBlock = NoBlock
  Calls = {"connect", "close"}
  Reconn = TRUE  Forever = FALSE  PeerMonitor = FALSE  UserChan = FALSE
  SeekFrom = Newest  LastBlock = NoBlock  SkipFirst = TRUE
  QueueCap = 3  MaxHeight = 0  MaxFaults = 1
INVARIANTS TypeOK OneOpenConnection AttemptsSound
PROPERTIES AllReturn
CHECK_DEADLOCK FALSE
