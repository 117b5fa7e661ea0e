\* Without reconnecting, with a peer monitor: the application's event channel and
\* TransferRegistrations when the connection is lost; CloseIfIdle when it is not.
SPECIFICATION MCSpec
CONSTANTS
  Conns = {c1}
  Threads = {t1, t2, t3, t4}
  Nobody = Nobody  NoConn = NoConn  Newest = Newest  NoBlock = NoBlock
  Calls = {"connect", "transfer", "register", "unregister", "closeIfIdle"}
  Reconn = FALSE  Forever = FALSE  PeerMonitor = TRUE  UserChan = TRUE
  SeekFrom = Newest  LastBlock = NoBlock  SkipFirst = TRUE
  QueueCap = 2  MaxHeight = 0  MaxFaults = 1
PROPERTIES LossClosesClient CallsEnd
CHECK_DEADLOCK FALSE
