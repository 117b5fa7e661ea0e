\* One user and one Close of the context; two orderers; two targets of discovery.
SPECIFICATION MCSpec
CONSTANTS
  Users = {u1}  Closers = {k1}  MaxGets = 1  MaxVersion = 3  MaxFaults = 2
  KeptVersion = 2  KeptFaults = 1
  Peers = {"a1", "a2", "b1"}  EventSources = {"a1", "a2", "b1"}  OwnOrg = "A"
  Organization <- OrganizationMC  Configs <- ConfigsMC  MaxHeight = 3  MaxLosses = 1
  Orderers = {o1, o2}  o1 = o1  o2 = o2  MaxSent = 2  MaxCalls = 1
  Targets = {t1, t2}  Queries <- QueriesMC  MaxQueries = 2  MaxErrors = 2
  None = None
INVARIANTS TypesOK AnswersSound
PROPERTIES GoesBackOnlyAfterFailure NothingHangs ChannelIsFollowed
CHECK_DEADLOCK FALSE
