\* Two of whatever uses the shared state, and a third event client and value. Users, readers,
\* applications, members and those of the event service have the same names, so that one
\* symmetry is that of every part.
SPECIFICATION MCSpec
CONSTANTS
  Clients = {1, 2, 3}  NoClient = NoClient
  Values = {1, 2, 3, 4}  NoValue = NoValue
  Getters = {g1, g2}  Closers = {k1}  Timers = {t1, t2}
  Users = {g1, g2}  Handles = {1, 2, 3}  PoolSize = 2  MaxBroken = 2
  Adders = {a1, a2}  a1 = a1  Readers = {g1, g2}  Brings <- BringsMC
  MaxGets = 2  MaxFailures = 1
  Apps = {g1, g2}  Labels = {"l"}  Ids = {1, 2}  MaxConnects = 4  MaxSubmits = 2
  Loggers = {l1, l2}  ModLog = ModLog  Custom = Custom  Levels = {0, 4}  Info = 3
  MaxLines = 3  Nobody = Nobody  Done = Done
  Materials = {m1, m2}  Kinds = {"file", "memory", "dummy"}  BlockSize = 4  MaxLength = 5
  MaxCalls = 2  Torn = Torn
  Members = {g1, g2}  UserNames = {"reg", "u"}  Registrar = "reg"  RegistrarSecret = TRUE
  Embedded <- EmbeddedMC  Files <- FilesMC  MaxKeys = 2  MaxEnrollments = 1
  MaxFaults = 1  None = None
INVARIANTS TypesOK EventServiceSound StoresSound ProcessWideSound
PROPERTIES NothingReplaced
SYMMETRY Symmetry
CHECK_DEADLOCK FALSE
