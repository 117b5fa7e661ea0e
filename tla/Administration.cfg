\* Two administrators, two organizations, three peers and two orderers at most; two losses
\* of messages for the management of resources and for the selection, one elsewhere.
SPECIFICATION MCSpec
CONSTANTS
  None = None  NoFilter = NoFilter  Attempts = 1  MaxCalls = 1  MaxFaults = 1
  p1 = p1  p2 = p2  p3 = p3  o1 = o1  o2 = o2
  Peers = {p1, p2, p3}  Local = {p1, p2}  Channel = {p1, p3}  DefaultFilter = {p2, p3}
  Filters <- FiltersMC  MaxRequests = 3  MaxLosses = 2
  Known = {p1, p2, p3}  Own = {p1, p2}  Given <- GivenMC  OwnFilters <- OwnFiltersMC
  Mins = {0, 2}  Maxs = {0, 3}
  Forgers = {p3}  MaxHeight = 3
  Orgs = {o1, o2}  OrgPeers = {p1, p3}  OrgOf <- OrgOfMC  Definitions <- DefinitionsMC
  History <- HistoryMC  Reference = "d"  EnoughOrgs = 1  MaxTransactions = 4
  LedgerPeers = {p1, p2}  Users = {"u"}  WithUnit = {"u"}  System = {"_lifecycle"}
  Inputs <- InputsMC  MaxOrdered = 1  MaxBlocks = 3  MaxCounts = 2  MaxBrowses = 2
  EndorserPeers = {"a1", "a2", "b1"}  Organization <- OrganizationMC  Heights <- HeightsMC
  Chaincodes = {"c1", "c2"}  Policies <- PoliciesMC  Rules <- RulesMC
  Descriptors <- DescriptorsMC  PeerFilters <- PeerFiltersMC  QueriedPeers = {p1, p2}
  LagThreshold = 1  MaxChanges = 1
  Admins = {a1, a2}  Contents = {1, 2}  Groups = {"root", "app", "A"}
  Leaves = {"cap", "anc"}  Root = "root"  Application = "app"  Parent <- ParentMC
  Above <- AboveMC  Anchors <- AnchorsMC  Profile <- ProfileMC  Needed = 1
  Files <- FilesMC
  LookedUp = {"p1", "p2", "p3", "o1", "o2", "ch1", "ch2", "c1", "c2", "s://p1", "x", "s://zz"}
  URLs = {"u1", "s://p1", "s://p3", "s://o1", "x", "d", "s://zz"}
  Secure = {"s://p1", "s://p3", "s://o1", "s://zz"}  Schemeless = {"x", "d", "u1"}
  Listen <- ListenMC  Default = "_default"  Override = "ssl"
  Path <- PathMC  Identities <- IdentitiesMC  MspFiles <- MspFilesMC
  Principals <- PrincipalsMC
INVARIANTS TypesOK AnswersSound ConfigurationSound
PROPERTIES EditsSound
SYMMETRY Symmetry
CHECK_DEADLOCK FALSE
