\* Two callers of runOnce over two submissions, one record per page; two
\* requests that trigger the order of one draft.
SPECIFICATION LanesSpec
CONSTANTS
  Callers = {r1, r2}
  MaxKey = 2
  PageSize = 1
  Evidence = {TRUE}
  TxTimeout = 1
  MaxClock = 1
  MaxFaults = 1
  Requests = {r1, r2}
  Editors = {}
  Preps = {p1, p2}
  TxIds = {t1, t2}
  NoRequest = NoRequest  NoPrep = NoPrep  NoTx = NoTx
  WaitForReceipt = FALSE
  PrepareTtl = 1
  MaxTriggerFaults = 0
SYMMETRY LanesSymmetry
INVARIANTS VerdictIsChainFact RegistrationTruthful
PROPERTIES PassCoversBacklog ConfirmedIsFinal TriggersOnce
