SPECIFICATION Spec
CONSTANTS
  \* notifications
  Events = {e1}
  Suppliers = {a1, a2}
  NoReceiver = NoReceiver
  Unresolved = Unresolved
  Profiles <- MCProfiles
  NoProfile = NoProfile
  Operators = {op1}
  Nil = Nil
  MaxAutomatic = 1
  MaxRounds = 2
  MaxManual = 2
  MaxEdits = 1
  MaxCrashes = 1
  MaxReorgs = 1
  \* webhooks
  Messages = {m1, m2}
  Tolerance = 2
  MaxNonces = 2
  MaxClock = 7
  MaxSkew = 3
  \* stage patches
  Prepares = {a1, a2}
  Submits = {b1, b2}
  Executors = {c1, c2}
  Nobody = nobody
  Ttl = 0
  Modes = {"assign", "handoff"}
  MaxTime = 1
  MaxAttempts = 2
  MaxSignals = 2
  MaxLateSignals = 1
  MaxStoreFailures = 1
  MaxKills = 1
  \* invites
  r1 = r1
  r2 = r2
  Roles = {r1, r2}
  RequiredRoles = {r1}
  TriggerSchema <- MCTrigger
  PermissionTable <- MCTable
  PatchRows <- MCPatch
  InviteIds = {c1, c2}
  InviteWallets = {a1, a2}
  NoOne = NoOne
  InviteRequests = {b1, b2}
  Lifetimes = {1, 2}
  MaxInviteTime = 2
  \* evidence
  EvidenceIds = {1, 2}
  Participants = {a1, a2}
  Admin = admin
  Payloads = {y1}
  Damaged = damaged
  Uploads = {b1, b2}
  MaxRot = 2
  MaxPutFailures = 1
SYMMETRY Symmetric
CHECK_DEADLOCK FALSE
INVARIANTS DeliveriesSound AcceptedOnce  PreviousExecutorUnique InvitesSound AuthoritySound EvidenceKept
