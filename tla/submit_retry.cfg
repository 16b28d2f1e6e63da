\* One prepare, two requests: time, stale takeovers, retries, crashes.
SPECIFICATION Spec
CONSTANTS
  Prepares = {p1}
  Requests = {r1, r2}
  TxIds = {t1, t2}
  theOrder = o1
  theSubmitter = s1
  Orders <- MCOrders
  Submitters <- MCSubmitters
  NoPrepare = NoPrepare
  NoTx = NoTx
  OrderOf <- MCOrderOf
  SubmitterOf <- MCSubmitterOf
  MaxRetry = 1
  MaxInFlightPerOrder = 1
  MaxInFlightPerSubmitter = 1
  ConfirmOnReceipt = TRUE
  Ttl = 1
  TicksPerSecond = 2
  MaxSubmitTicks = 1
  MaxClock = 4
  MaxLedger = 1
SYMMETRY Symmetry
INVARIANTS TypeOK SubmitExclusion RecordsTruthful
PROPERTIES NoResend
