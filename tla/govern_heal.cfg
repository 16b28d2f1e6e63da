SPECIFICATION FairSpec
CONSTANTS
  r1 = r1  r2 = r2  t1 = t1  t2 = t2
  Requests = {r1}
  Operations = {"register", "revoke"}
  ReviewInputs = {}
  TxIds = {t1, t2}
  NoTx = NoTx  SimulatedTx = SimulatedTx
  WaitForReceipt = TRUE
  TxTimeout = 1
  MaxClock = 1
  MaxLogs = 2
  MaxFaults = 1
PROPERTIES LogHeals
