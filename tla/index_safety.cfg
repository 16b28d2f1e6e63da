CONSTANTS
  Hooks = {h1}
  h1 = h1
  stageA = stageA
  Stages = {stageA, stageB}
  s1 = s1
  s3 = s3
  Signals = {s1, s3}
  w1 = w1
  w2 = w2
  Wallets = {w1, w2}
  StageOf <- MCStageOf
  NamedHook <- MCNamedHook
  ExecutorAt <- MCExecutorAt
  NoHook = NoHook
  NoWallet = NoWallet
  MaxNonce = 2
  MaxEvents = 4
  Machines = {m1, m2}
  Modules = {x1}
  ModuleIds = {k1}
  Plans = {p1, p2}
  NoPlan = NoPlan
  Orders = {o1, o2}
  Docks = {d1}
  Bindings = {b1}
  Absent = Absent
  MaxReplay = 4
  Deployments = {i1, i2}
  IdentityIds = {b1}
  MaxRegistryEvents = 6
  Txs = {t1}
  NoTx = NoTx
  Confirmations = 1
  MaxSweepAttempts = 2
  CasLimit = 2
  FirstBlockHasEvent = TRUE
  ReorgInRound = FALSE
  OtherProcess = FALSE
  MaxHeight = 3
  MaxForks = 1
  MaxFaults = 2
  MaxRebuilds = 2
SPECIFICATION Spec
SYMMETRY Symmetric
CHECK_DEADLOCK FALSE
INVARIANTS IndexSound NotificationsTrue BoardTruthful BucketsSound OneActiveDeployment
PROPERTIES ImplementsChainView
