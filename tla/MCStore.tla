---------------------------- MODULE MCStore ----------------------------
(* The Store and what stands around it: configuration and preflight, wallet *)
(* sessions, access to the console, listings, decorations, join            *)
(* applications, drafts, their schemas and versions, and the dock keeper.  *)
(* The components share no state; a behaviour is about the one in focus,   *)
(* whose variables are x1, x2, ... in the order of its own list, so that   *)
(* one run checks each of them on its own.                                 *)
EXTENDS Integers, Sequences, FiniteSets, TLC

CONSTANTS
  Entries, Setups,
  Addresses, Requesters, Nonces, SessionIds, Accounts, NoAccount, Logins,
  MaxPerAddress, MaxPerRequester, ChallengeTtl, SessionTtl, MaxSessionTime,
  JwtRoleSets, RouteNames, MaxAuditFailures,
  ListingIds, Editors,
  Publisher, Others, Delegations, Authors, MaxVersions,
  ApplicationIds, JoinWallets, Subjects, NoWallet, JoinRequests, MaxCalls, MaxTrouble,
  DraftIds, Plans, Broken, DraftCalls,
  VersionIds, DefaultVersion, VersionPlans, DefaultPlan, NoPlan, VersionCalls, MaxVersionRequests,
  StageNames, SlotNames, SlotPlugins,
  DockRoutes, ExistingRoutes, Twins, RedeliveryWindow, MaxPerRun, MaxDockTrouble

ASSUME StoreConstants ==
  /\ NoAccount \notin Accounts
  /\ IsFiniteSet(Nonces)
  /\ MaxPerAddress \in Nat /\ MaxPerRequester \in Nat
  /\ ChallengeTtl \in Nat /\ SessionTtl \in Nat
  /\ Broken \notin Plans
  /\ DefaultVersion \in VersionIds /\ DefaultPlan \in VersionPlans /\ NoPlan \notin VersionPlans
  /\ IsFiniteSet(StageNames) /\ IsFiniteSet(SlotNames) /\ SlotNames # {}
  /\ RedeliveryWindow \in Nat /\ MaxPerRun \in Nat /\ MaxDockTrouble \in Nat

VARIABLES focus, x1, x2, x3, x4, x5, x6, x7, x8, x9, x10, x11

C == INSTANCE Config WITH
      entry <- x1, setup <- x2, startup <- x3
S == INSTANCE StoreSessions WITH
      sessionTime <- x1, challenges <- x2, sessions <- x3, anchors <-
      x4, verifies <- x5, refresh <- x6, severed <- x7
A == INSTANCE StoreAccess WITH
      deployment <- x1, caller <- x2, walletSession <- x3, call <- x4,
      trail <- x5, auditFailures <- x6
L == INSTANCE StoreListings WITH
      projectedPlan <- x1, chainPlan <- x2, chainViewOn <- x3, listings
      <- x4, edits <- x5
D == INSTANCE StoreDecoration WITH
      planProjected <- x1, delegations <- x2, versions <- x3, saves <-
      x4, saved <- x5
J == INSTANCE StoreJoin WITH
      entryOpen <- x1, applications <- x2, activated <- x3, suppliers <-
      x4, govReviews <- x5, govReview <- x6, bindings <- x7, unindexed
      <- x8, grants <- x9, work <- x10, joinBudget <- x11
Z == INSTANCE ZhixuDrafts WITH
      drafts <- x1, published <- x2, draftCalls <- x3, settled <- x4
R == INSTANCE StoreVersions WITH
      buckets <- x1, records <- x2, versionCalls <- x3, requested <- x4,
      anchors <- x5, overlaps <- x6
V == INSTANCE SchemaValidation WITH
      schema <- x1, verdict <- x2
K == INSTANCE DockKeeper WITH
      dockChain <- x1, dockProjection <- x2, dockPool <- x3, routeSource
      <- x4, running <- x5, run <- x6, lastBroadcastAt <- x7, attempts
      <- x8, rebirths <- x9, misdirected <- x10, dockTrouble <- x11

ASSUME RoutesExist == RouteNames \subseteq A!KnownRoutes
ASSUME SetupsKnown == Setups \subseteq C!AnySetup

(* A variable the component in focus does not use stays 0.                 *)
Init ==
  \/ focus = "config" /\ C!Init /\ x4 = 0 /\ x5 = 0 /\ x6 = 0 /\ x7 = 0 /\ x8 = 0 /\ x9 = 0 /\ x10 = 0 /\ x11 = 0
  \/ focus = "sessions" /\ S!Init /\ x8 = 0 /\ x9 = 0 /\ x10 = 0 /\ x11 = 0
  \/ focus = "access" /\ A!Init /\ x7 = 0 /\ x8 = 0 /\ x9 = 0 /\ x10 = 0 /\ x11 = 0
  \/ focus = "listings" /\ L!Init /\ x6 = 0 /\ x7 = 0 /\ x8 = 0 /\ x9 = 0 /\ x10 = 0 /\ x11 = 0
  \/ focus = "decoration" /\ D!Init /\ x6 = 0 /\ x7 = 0 /\ x8 = 0 /\ x9 = 0 /\ x10 = 0 /\ x11 = 0
  \/ focus = "join" /\ J!Init
  \/ focus = "drafts" /\ Z!Init /\ x5 = 0 /\ x6 = 0 /\ x7 = 0 /\ x8 = 0 /\ x9 = 0 /\ x10 = 0 /\ x11 = 0
  \/ focus = "versions" /\ R!Init /\ x7 = 0 /\ x8 = 0 /\ x9 = 0 /\ x10 = 0 /\ x11 = 0
  \/ focus = "schemas" /\ V!Init /\ x3 = 0 /\ x4 = 0 /\ x5 = 0 /\ x6 = 0 /\ x7 = 0 /\ x8 = 0 /\ x9 = 0 /\ x10 = 0 /\ x11 = 0
  \/ focus = "docks" /\ K!Init

Next ==
  \/ focus = "config" /\ C!Next /\ UNCHANGED << focus, x4, x5, x6, x7, x8, x9, x10, x11 >>
  \/ focus = "sessions" /\ S!Next /\ UNCHANGED << focus, x8, x9, x10, x11 >>
  \/ focus = "access" /\ A!Next /\ UNCHANGED << focus, x7, x8, x9, x10, x11 >>
  \/ focus = "listings" /\ L!Next /\ UNCHANGED << focus, x6, x7, x8, x9, x10, x11 >>
  \/ focus = "decoration" /\ D!Next /\ UNCHANGED << focus, x6, x7, x8, x9, x10, x11 >>
  \/ focus = "join" /\ J!Next /\ UNCHANGED << focus >>
  \/ focus = "drafts" /\ Z!Next /\ UNCHANGED << focus, x5, x6, x7, x8, x9, x10, x11 >>
  \/ focus = "versions" /\ R!Next /\ UNCHANGED << focus, x7, x8, x9, x10, x11 >>
  \/ focus = "schemas" /\ V!Next /\ UNCHANGED << focus, x3, x4, x5, x6, x7, x8, x9, x10, x11 >>
  \/ focus = "docks" /\ K!Next /\ UNCHANGED << focus >>

Spec == Init /\ [][Next]_<< focus, x1, x2, x3, x4, x5, x6, x7, x8, x9, x10, x11 >>

(* A single fault with any choices and any answer of the chain; two faults *)
(* above local; any manifest of at most two deployments without a fault.   *)
(* Options is the vocabulary of Config, apart from the choice of setups.   *)
Options == INSTANCE Config WITH Setups <- {}, entry <- x1, setup <- x2, startup <- x3
MCSetups ==
  [ environment: Options!Tiers, governanceBroadcast: BOOLEAN, evidence: Options!Adapters, managed: BOOLEAN,
    manifest: { Options!StandardManifest }, chain: Options!ChainAnswers, faults: { { f } : f \in Options!Faults } ]
  \cup [ environment: Options!Tiers \ { "local" }, governanceBroadcast: BOOLEAN, evidence: Options!Adapters \ { "local" },
         managed: { TRUE }, manifest: { Options!StandardManifest }, chain: { "right" },
         faults: { { f, g } : f, g \in Options!Faults } ]
  \cup [ environment: Options!Tiers, governanceBroadcast: { FALSE }, evidence: Options!Adapters \ { "local" },
         managed: { TRUE },
         manifest: [ deployments: UNION { [ 1..n -> Options!Deployment ] : n \in 0..2 },
                     activeId: Options!DeploymentIds \cup { "unset", "unknown" } ],
         chain: { "right", "otherModules" }, faults: { {} } ]

MCRoles == { {}, {"store_reader"}, {"store_operator"}, {"store_admin"}, {"governance_admin"},
             {"store_operator", "governance_admin"} }
MCRoutes == { "auditLog", "activate", "submitReview", "listSuppliers", "createSupplier",
              "saveProfile", "reviewSupplier", "registerIdentity", "getDocking",
              "importListing", "importOwnListing", "reviewZhixu", "runReconcile",
              "readActivity", "uploadEvidence" }

(* The sets of the components that are symmetric are given the same values *)
(* in the configuration: one component is active at a time.                *)
Symmetric == Permutations(Addresses) \cup Permutations(Logins)

(* A published schema is frozen and drafts keep a status their type allows *)
(* (zhixu-drafts.ts); orders go to one registered plan of a series, whose  *)
(* versions keep their anchors (version.ts).                               *)
ConsoleSound ==
  /\ focus = "drafts" => Z!DraftsSound
  /\ focus = "versions" => R!VersionsSound

-----------------------------------------------------------------------------
(* A process that runs outside local was refused nothing it should have    *)
(* been: its critical settings are right through every entry, the tiers    *)
(* agree, and it serves the deployment and the chain that were meant.      *)
StartsSafely == focus = "config" => C!StartsSafely
(* Logging in, anchoring and revoking keep their promises against          *)
(* concurrent requests.                                                    *)
SessionsSound == focus = "sessions" => S!SessionsSound
(* Who may act, for whom, and what is recorded of it.                      *)
AccessSound == focus = "access" => A!AccessSound
(* A plan has one listing, and a listing is public only when its claims    *)
(* agree with the registered plan and with every configured source: the    *)
(* index, and the contract itself when a node is configured, whatever      *)
(* stale copies concurrent reviews and relistings write.                   *)
PublicIsVerified == focus = "listings" => L!PublicIsVerified
(* The plan's page has the history its publisher and the publisher's       *)
(* delegates wrote.                                                        *)
DecorationSound == focus = "decoration" => D!DecorationSound
(* Applications, suppliers, reviews and bindings are separate writes of    *)
(* concurrent requests and still agree.                                    *)
JoinSound == focus = "join" => J!JoinSound
(* The validator accepts exactly the serviceable schemas: one responsible  *)
(* plugin per stage, one appointing slot per selected stage, no reference  *)
(* to what the schema does not declare (validateProductSchemaBundle).      *)
AcceptsServiceable == focus = "schemas" => V!AcceptsServiceable
(* A round keeps to its window and its limits, and broadcasts nothing      *)
(* that the chain does not support.                                        *)
DockSound == focus = "docks" => K!DockSound
=============================================================================
