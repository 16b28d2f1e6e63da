SPECIFICATION Spec
CONSTANTS
  r1 = r1  r2 = r2  t1 = t1  t2 = t2
  Requests = {r1, r2}
  Operations = {"save", "register", "revoke"}
  ReviewInputs = {"restricted", "revoked"}
  TxIds = {t1, t2}
  NoTx = NoTx  SimulatedTx = SimulatedTx
  WaitForReceipt = FALSE
  TxTimeout = 1
  MaxClock = 1
  MaxLogs = 1
  MaxFaults = 1
SYMMETRY SafetySymmetry
INVARIANTS GovernanceTruth RequestsHonoured
