SPECIFICATION Spec
CONSTANTS
  \* configuration
  Entries = {"server", "object", "indexer"}
  Setups <- MCSetups
  \* sessions
  Addresses = {a1, a2}
  Requesters = {q1}
  Nonces = {1, 2, 3}
  SessionIds = {1, 2, 3}
  Accounts = {1, 2}
  NoAccount = NoAccount
  Logins = {b1, b2}
  MaxPerAddress = 2
  MaxPerRequester = 2
  ChallengeTtl = 0
  SessionTtl = 0
  MaxSessionTime = 1
  \* access
  JwtRoleSets <- MCRoles
  RouteNames <- MCRoutes
  MaxAuditFailures = 2
  \* listings
  ListingIds = {1, 2}
  Editors = {b1, b2}
  \* decoration
  Publisher = publisher
  Others = {a1, a2}
  Delegations = {1, 2}
  Authors = {b1, b2}
  MaxVersions = 3
  \* join
  ApplicationIds = {1, 2}
  JoinWallets = {a1, a2}
  Subjects = {s1}
  NoWallet = NoWallet
  JoinRequests = {b1, b2}
  MaxCalls = 4
  MaxTrouble = 1
  \* drafts
  DraftIds = {d1}
  Plans = {p1}
  Broken = Broken
  DraftCalls = {b1, b2}
  \* versions
  VersionIds = {v1, v2}
  DefaultVersion = v1
  VersionPlans = {p1, p2}
  DefaultPlan = p1
  NoPlan = NoPlan
  VersionCalls = {b1, b2}
  MaxVersionRequests = 3
  \* schemas
  StageNames = {g1, g2}
  SlotNames = {k1, k2}
  SlotPlugins = 2
  \* dock keeper
  DockRoutes = 2
  ExistingRoutes = {}
  Twins = {1, 2}
  RedeliveryWindow = 2
  MaxPerRun = 1
  MaxDockTrouble = 1
SYMMETRY Symmetric
CHECK_DEADLOCK FALSE
INVARIANTS  SessionsSound AccessSound  DecorationSound JoinSound   
