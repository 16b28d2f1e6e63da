SPECIFICATION Spec
CONSTANTS
  Txs = {t1}
  NoTx = NoTx
  Confirmations = 1
  MaxSweepAttempts = 2
  CasLimit = 2
  FirstBlockHasEvent = FALSE
  ReorgInRound = FALSE
  OtherProcess = TRUE
  MaxHeight = 3
  MaxForks = 1
  MaxFaults = 1
  MaxRebuilds = 2
  DockRoutes = 2
  ExistingRoutes = {2}
  Twins = {}
  RedeliveryWindow = 1
  MaxPerRun = 1
  MaxDockTrouble = 1
CHECK_DEADLOCK FALSE
PROPERTIES Recovers DockDelivers
