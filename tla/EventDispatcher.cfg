\* Registrations, publications and transfers, with and without a consumer timeout.
SPECIFICATION FairSpec
CONSTANTS
  r1 = r1  r2 = r2  r3 = r3  tx1 = tx1  ev1 = ev1  ev2 = ev2
  NoBlock = NoBlock  NoKey = NoKey  NoReg = NoReg
  Regs = {r1, r2, r3}  Keys = {tx1, ev1, ev2}
  Setups <- SetupsMC  Txs <- TxsMC
  MinBlock = 1  MaxBlock = 2  SkipFirst = FALSE
  ChanCap = 1  QueueCap = 1  MaxStarts = 2
INVARIANTS TypeOK DeliverySound
PROPERTIES UnregisterSparesOthers RegisterAnswered
CHECK_DEADLOCK FALSE
