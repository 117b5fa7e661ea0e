\* Queries and executions with two retries and three faults.
SPECIFICATION FairSpec
CONSTANTS
  p1 = p1  p2 = p2  p3 = p3  o1 = o1  o2 = o2  cc1 = cc1  cc2 = cc2  cc3 = cc3
  own = own  both = both  NoPayload = NoPayload
  Peers = {p1, p2, p3}  Orgs = {o1, o2}  Chaincodes = {cc1, cc2, cc3}
  Payloads = {own, both}  Orderers = {"orderer1", "orderer2"}
  OrgOf <- OrgOfMC  Policies <- PoliciesMC  Touches <- TouchesMC
  Requests <- RequestsMC
  Attempts = 2  MaxFaults = 3
INVARIANTS TypeOK CommitSound EndorsedWhereNeeded
PROPERTIES UnreachableIsAvoided InvocationEnds
CHECK_DEADLOCK FALSE
