\* Two prepares of one order: transaction hashes, in-flight units, crashes.
SPECIFICATION Spec
CONSTANTS
  Prepares = {p1, p2}
  Requests = {r1, r2}
  TxIds = {t1}
  theOrder = o1
  theSubmitter = s1
  Orders <- MCOrders
  Submitters <- MCSubmitters
  NoPrepare = NoPrepare
  NoTx = NoTx
  OrderOf <- MCOrderOf
  SubmitterOf <- MCSubmitterOf
  MaxRetry = 0
  MaxInFlightPerOrder = 1
  MaxInFlightPerSubmitter = 1
  ConfirmOnReceipt = FALSE
  Ttl = 1
  TicksPerSecond = 1
  MaxSubmitTicks = 0
  MaxClock = 0
  MaxLedger = 2
SYMMETRY Symmetry
INVARIANTS TxHashOwnedByOnePrepare InFlightLimits
