SPECIFICATION FairSpec
CONSTANTS
  r1 = r1  r2 = r2  p1 = p1  p2 = p2  t1 = t1  t2 = t2
  Requests = {r1}
  Editors = {r1}
  Preps = {p1}
  TxIds = {t1, t2}
  NoRequest = NoRequest  NoPrep = NoPrep  NoTx = NoTx
  WaitForReceipt = TRUE
  PrepareTtl = 2
  TxTimeout = 1
  MaxClock = 2
  MaxFaults = 1
PROPERTIES SelfHeals
