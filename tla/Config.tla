------------------------------- MODULE Config -------------------------------
(* Starting a process of the service: the environment is parsed and        *)
(* validated by loadConfigFromEnv, the API server then runs the preflight  *)
(* (static checks, and reads of the chain when preflightStrict), and only  *)
(* then serves. A caller may hand startApiServer a configuration object,   *)
(* which no load ever saw, and the indexer's own entry point only loads:   *)
(* so each layer is alone on one path.                                     *)
(*                                                                         *)
(* A setup is a tier, three choices that no tier gets wrong by themselves  *)
(* (governance broadcast, evidence adapter, a managed database), an        *)
(* address manifest, what the chain answers, and the settings that are     *)
(* faulty. A check is the set of faults it refuses.                        *)
EXTENDS Integers, FiniteSets, Sequences

CONSTANTS
  Entries,    \* the ways a process is started
  Setups      \* the configurations it is started with

VARIABLES
  entry,      \* "server": load and preflight; "object": preflight only; "indexer": load only
  setup,      \* what the operator configured
  startup     \* "begin" | "loaded" | "static" | "started" | "refused"

configVars == << entry, setup, startup >>

Tiers == { "local", "testnet", "staging", "production" }
Strict(s) == s.environment # "local"
Has(s, f) == f \in s.faults

-----------------------------------------------------------------------------
(* What can be wrong with the settings, by the layer of the load that      *)
(* reads them.                                                             *)

MalformedFaults == { "runtimeEnvUnknown", "driverUnknown", "databaseUrlMissing", "adapterUnknown",
                     "numberMalformed", "tokenHashMalformed", "signerKeyMalformed", "contractsMalformed",
                     "manifestSchema", "evidenceModeUnknown" }
StoreAuthFaults == { "storeAuthUnset", "storeAuthDevHeaders", "issuerMissing", "audienceMissing",
                     "issuerNotPublic", "devAnchoredHeader" }
KeyFaults == { "relayerKeyMissing", "registrarKeyMissing", "deployerKeyMissing", "signerKeyMissing",
               "relayerKeyAnvil", "registrarKeyAnvil", "deployerKeyAnvil", "signerKeyAnvil",
               "relayerKeyOfOther", "registrarKeyOfOther", "signerKeyOfOther", "deployerKeyOfOther" }
AddressFaults == { "stateMachineMissing", "registryMissing", "registrarAddressMissing", "gasPayerMissing",
                   "deployerAddressMissing", "ownerMissing", "publisherMissing", "registryOwnerMissing",
                   "signerAddressMissing", "participantsMissing", "participantAnvil", "flatModuleDrift" }
RuntimeFaults == { "notStrict", "noRedaction", "notPostgres", "urlNotPostgres", "autoMigrations", "rpcUnset", "rpcLocal",
                   "chainIdOther", "finalityUnset", "finalityZero", "finalityOne", "permissive",
                   "memoryTrigger", "noReceiptWait", "relayerOff", "relayerForced", "reconcileOff",
                   "noReviewers", "noOpsAdmins", "noTokenHashes", "governanceChainOther",
                   "pollUnset", "pollZero", "reconcileTooFast", "manifestExample",
                   "strictAsked" }   \* no fault: local asks for the strict preflight
StorageFaults == { "bucketMissing", "regionMissing", "accessKeyNameMissing", "secretKeyNameMissing",
                   "accessKeyValueMissing", "secretKeyValueMissing", "objectNamespaceMissing" }
Faults == MalformedFaults \cup StoreAuthFaults \cup KeyFaults \cup AddressFaults
            \cup RuntimeFaults \cup StorageFaults

AnvilKeys == { "relayerKeyAnvil", "registrarKeyAnvil", "deployerKeyAnvil", "signerKeyAnvil" }

-----------------------------------------------------------------------------
(* The address manifest: the deployments it lists and the one it names.    *)

DeploymentIds == { "d1", "d2" }
Deployment == [ id: DeploymentIds, active: BOOLEAN,
                modules: { "complete", "partial", "none" }, machine: { "flat", "other" } ]
Manifests == [ deployments: Seq(Deployment),
               activeId: DeploymentIds \cup { "unset", "unknown" } ]
StandardManifest ==
  [ deployments |-> << [ id |-> "d1", active |-> TRUE, modules |-> "complete", machine |-> "flat" ] >>,
    activeId |-> "unset" ]

Deployments(s) == { s.manifest.deployments[i] : i \in DOMAIN s.manifest.deployments }

(* The named deployment, else the first active one, else the first.        *)
First(is) == CHOOSE i \in is : \A j \in is : i <= j

selectActiveStateMachineDeployment(s) ==
  LET all == s.manifest.deployments
      named == { i \in DOMAIN all : all[i].id = s.manifest.activeId }
      active == { i \in DOMAIN all : all[i].active }
  IN  CASE named # {} -> all[First(named)]
        [] named = {} /\ active # {} -> all[First(active)]
        [] OTHER -> all[First(DOMAIN all)]

-----------------------------------------------------------------------------
(* loadConfigFromEnv: parsing.                                             *)

(* Numbers, booleans and enumerations that do not parse.                   *)
parseScalars(s) == { "numberMalformed" }
parseRuntimeEnv(s) == { "runtimeEnvUnknown" }
parseStorageDriver(s) == { "driverUnknown", "databaseUrlMissing" }
parseProductRegistrationAdapter(s) == { "adapterUnknown" }
parseEvidenceStorageConfig(s) == { "evidenceModeUnknown" }
parseAdminTokenHashes(s) == { "tokenHashMalformed" }
parseContracts(s) == { "contractsMalformed" }
parseAddressManifest(s) == { "manifestSchema" }

(* A broadcasting governance needs its key; any key must be well formed.   *)
parseGovernanceConfig(s) ==
  { "signerKeyMalformed" } \cup (IF s.governanceBroadcast THEN { "signerKeyMissing" } ELSE {})

(* Only local falls back to the self-declared headers, or may ask for them. *)
parseStoreAuthMode(s) ==
  IF Strict(s) THEN { "storeAuthUnset", "storeAuthDevHeaders" } ELSE {}

(* jwt needs an issuer and an audience, and public https ones outside      *)
(* local.                                                                  *)
UsesJwt(s) == ~Has(s, "storeAuthUnset") /\ ~Has(s, "storeAuthDevHeaders")
parseStoreAuthConfig(s) ==
  parseStoreAuthMode(s)
    \cup (IF UsesJwt(s) THEN { "issuerMissing", "audienceMissing" } ELSE {})
    \cup (IF UsesJwt(s) /\ Strict(s) THEN { "issuerNotPublic" } ELSE {})

parseStoreWalletSessionConfig(s) == IF Strict(s) THEN { "devAnchoredHeader" } ELSE {}

Parse(s) ==
  UNION { parseScalars(s), parseRuntimeEnv(s), parseStorageDriver(s), parseProductRegistrationAdapter(s),
          parseEvidenceStorageConfig(s), parseAdminTokenHashes(s), parseContracts(s), parseAddressManifest(s),
          parseGovernanceConfig(s), parseStoreAuthConfig(s), parseStoreWalletSessionConfig(s) }

(* The relayer broadcasts when told to, and by default when it has a key.  *)
RelayerBroadcasts(s) ==
  ~Has(s, "relayerOff") /\ (~Has(s, "relayerKeyMissing") \/ Has(s, "relayerForced"))
(* UVP_RPC_URL unset falls back to the local node.                         *)
resolveRpcUrl(s) == IF Has(s, "rpcUnset") \/ Has(s, "rpcLocal") THEN "local" ELSE "remote"

-----------------------------------------------------------------------------
(* loadConfigFromEnv: the tier's validation.                               *)

(* A managed database must be polled explicitly, and not too often.        *)
validateManagedDatabaseCostSafety(s) ==
  IF ~s.managed \/ Has(s, "notPostgres") THEN {}
  ELSE { "pollUnset", "pollZero" } \cup (IF Has(s, "reconcileOff") THEN {} ELSE { "reconcileTooFast" })

(* What the three tiers above local ask alike.                             *)
TierBaseline ==
  { "notStrict", "noRedaction", "notPostgres", "autoMigrations", "rpcUnset", "rpcLocal",
    "finalityUnset", "finalityZero", "permissive", "memoryTrigger", "stateMachineMissing",
    "registryMissing", "relayerKeyMissing", "registrarKeyMissing",
    "noReviewers", "noOpsAdmins", "noTokenHashes" } \cup AnvilKeys

S3Named == { "bucketMissing", "regionMissing", "accessKeyNameMissing", "secretKeyNameMissing" }
S3Values == { "accessKeyValueMissing", "secretKeyValueMissing", "objectNamespaceMissing" }

(* Production: no env-key governance, evidence in S3.                      *)
validateProductionSafety(s) ==
  [ refused |-> TierBaseline \cup validateManagedDatabaseCostSafety(s) \cup S3Named
                  \cup { "noReceiptWait", "reconcileOff" },
    wrongChoice |-> s.governanceBroadcast \/ s.evidence # "s3" ]

(* Staging: every role declared, governance broadcasting, evidence in S3   *)
(* with the values of its keys at hand.                                    *)
validateStagingSafety(s) ==
  [ refused |-> TierBaseline \cup validateManagedDatabaseCostSafety(s) \cup S3Named \cup S3Values
                  \cup { "noReceiptWait", "reconcileOff", "relayerOff", "chainIdOther", "manifestExample",
                         "registrarAddressMissing", "gasPayerMissing", "deployerKeyMissing",
                         "deployerAddressMissing", "ownerMissing", "publisherMissing",
                         "participantsMissing", "participantAnvil", "registryOwnerMissing",
                         "signerAddressMissing", "signerKeyMissing" },
    wrongChoice |-> ~s.governanceBroadcast \/ s.evidence # "s3" ]

validateTestnetSafety(s) ==
  [ refused |-> TierBaseline \cup validateManagedDatabaseCostSafety(s)
                  \cup { "urlNotPostgres", "relayerOff", "chainIdOther" }
                  \cup (IF s.governanceBroadcast THEN { "governanceChainOther" } ELSE {}),
    wrongChoice |-> s.evidence # "rehearsal-object" ]

Validate(s) ==
  CASE s.environment = "production" -> validateProductionSafety(s)
    [] s.environment = "staging" -> validateStagingSafety(s)
    [] s.environment = "testnet" -> validateTestnetSafety(s)
    [] s.environment = "local" -> [ refused |-> {}, wrongChoice |-> FALSE ]

(* loadConfigFromEnv throws at the first check that fails.                 *)
loadConfigFromEnv(s) ==
  s.faults \cap (Parse(s) \cup Validate(s).refused) = {} /\ ~Validate(s).wrongChoice

-----------------------------------------------------------------------------
(* runStaticPreflight: the same settings again, from the configuration     *)
(* object and the environment.                                             *)

runStoreAuthPreflight(s) ==
  (IF Strict(s) THEN { "storeAuthUnset", "storeAuthDevHeaders", "devAnchoredHeader" } ELSE {})
    \cup (IF UsesJwt(s) THEN { "issuerMissing", "audienceMissing" } ELSE {})
    \cup (IF UsesJwt(s) /\ Strict(s) THEN { "issuerNotPublic" } ELSE {})

(* What the three static preflights ask alike.                             *)
PreflightBaseline ==
  { "notStrict", "noRedaction", "notPostgres", "autoMigrations", "rpcUnset", "rpcLocal",
    "noReviewers", "noOpsAdmins", "noTokenHashes", "permissive", "memoryTrigger",
    "stateMachineMissing", "registryMissing" }

runProductionSafetyPreflight(s) ==
  PreflightBaseline \cup AnvilKeys
    \cup { "finalityUnset", "finalityZero", "finalityOne", "noReceiptWait", "reconcileOff" }

runTestnetSafetyPreflight(s) ==
  PreflightBaseline \cup AnvilKeys \cup { "chainIdOther", "relayerOff" }
    \cup (IF s.governanceBroadcast THEN { "governanceChainOther" } ELSE {})

(* The keys of the deployer and of the governance signer, and the declared *)
(* role addresses.                                                         *)
runStagingRolePreflight(s) ==
  { "deployerKeyMissing", "deployerKeyAnvil", "deployerAddressMissing", "deployerKeyOfOther",
    "signerKeyMissing", "signerKeyAnvil", "signerAddressMissing", "signerKeyOfOther",
    "ownerMissing", "publisherMissing", "registrarAddressMissing", "gasPayerMissing",
    "participantsMissing", "participantAnvil", "registryOwnerMissing" }

runStagingSafetyPreflight(s) ==
  PreflightBaseline \cup runStagingRolePreflight(s) \cup S3Named \cup S3Values
    \cup { "chainIdOther", "finalityZero", "noReceiptWait", "relayerOff" }

(* Evidence: staging and testnet look at the adapter again, production     *)
(* does not.                                                               *)
PreflightChoice(s) ==
  \/ s.environment = "staging" /\ s.evidence # "s3"
  \/ s.environment = "testnet" /\ s.evidence # "rehearsal-object"

(* Fault: an id no deployment carries falls back silently.                 *)
ManifestUnmatched(s) ==
  \/ ~Strict(s)
  \/ /\ Deployments(s) # {}
     /\ s.manifest.activeId = "unset" => Cardinality({ i \in DOMAIN s.manifest.deployments :
                                                         s.manifest.deployments[i].active }) = 1
     /\ selectActiveStateMachineDeployment(s).modules = "complete"
(* Outside local: deployments are listed, the named one exists or exactly  *)
(* one is active, and it lists every module.                               *)
runStateMachineModulesManifestPreflight(s) ==
  \/ ~Strict(s)
  \/ /\ Deployments(s) # {}
     /\ s.manifest.activeId # "unset" => \E d \in Deployments(s) : d.id = s.manifest.activeId
     /\ s.manifest.activeId = "unset" => Cardinality({ i \in DOMAIN s.manifest.deployments :
                                                         s.manifest.deployments[i].active }) = 1
     /\ selectActiveStateMachineDeployment(s).modules = "complete"

(* A flat module address that differs from a deployment's own, and the     *)
(* flat state machine that is not the active deployment's, in any tier.    *)
runModuleAddressDriftPreflight(s) ==
  \/ Deployments(s) = {}
  \/ ~Has(s, "flatModuleDrift")
  \/ \A d \in Deployments(s) : d.modules = "none"
runStateMachineAddressDriftPreflight(s) ==
  \/ Deployments(s) = {} \/ Has(s, "stateMachineMissing")
  \/ selectActiveStateMachineDeployment(s).machine = "flat"

(* A broadcasting relayer has a contract and a key of the declared payer;  *)
(* production and testnet must broadcast.                                  *)
RelayerPreflight(s) ==
  IF RelayerBroadcasts(s)
  THEN { "stateMachineMissing", "relayerKeyMissing" }
         \cup (IF Has(s, "gasPayerMissing") THEN {} ELSE { "relayerKeyOfOther" })
  ELSE IF s.environment \in { "production", "testnet" } THEN { "relayerOff", "relayerKeyMissing" } ELSE {}

runProductRegistrationPreflight(s) ==
  IF Has(s, "memoryTrigger") THEN {}
  ELSE { "stateMachineMissing", "registrarKeyMissing" }
         \cup (IF Has(s, "registrarAddressMissing") THEN {} ELSE { "registrarKeyOfOther" })

GovernancePreflight(s) ==
  IF ~s.governanceBroadcast THEN {}
  ELSE { "registryMissing", "signerKeyMissing" }
         \cup (IF Has(s, "signerAddressMissing") THEN {} ELSE { "signerKeyOfOther" })

TierPreflight(s) ==
  CASE s.environment = "production" -> runProductionSafetyPreflight(s)
    [] s.environment = "testnet" -> runTestnetSafetyPreflight(s)
    [] s.environment = "staging" -> runStagingSafetyPreflight(s)
    [] s.environment = "local" -> {}

runStaticPreflight(s) ==
  /\ s.faults \cap UNION { TierPreflight(s), runStoreAuthPreflight(s), RelayerPreflight(s),
                           runProductRegistrationPreflight(s), GovernancePreflight(s) } = {}
  /\ ~PreflightChoice(s)
  /\ runStateMachineModulesManifestPreflight(s)
  /\ runModuleAddressDriftPreflight(s)
  /\ runStateMachineAddressDriftPreflight(s)

-----------------------------------------------------------------------------
(* runRpcPreflight: what the node answers.                                 *)

Adapters == { "local", "rehearsal-object", "s3" }
ChainAnswers == { "right", "down", "otherChain", "noCode", "otherModules", "otherOwner" }

checkChainId(s) == s.chain \notin { "down", "otherChain" }
(* An address that is not configured is not looked up.                     *)
checkContractCode(s) ==
  {"stateMachineMissing", "registryMissing"} \subseteq s.faults \/ s.chain \notin { "down", "noCode" }
(* The active deployment's modules, read from its state machine.           *)
checkStateMachineModules(s) ==
  \/ Deployments(s) = {}
  \/ selectActiveStateMachineDeployment(s).modules = "none"
  \/ /\ selectActiveStateMachineDeployment(s).modules = "complete"
     /\ s.chain \notin { "down", "noCode", "otherModules" }
(* The registry's owner is the declared one and the signer may act.        *)
CheckGovernanceOwner(s) ==
  \/ ~s.governanceBroadcast /\ s.environment # "staging"
  \/ Has(s, "registryMissing") \/ Has(s, "signerKeyMissing")
  \/ s.chain \notin { "down", "otherOwner", "noCode" } /\ ~Has(s, "governanceChainOther")

runRpcPreflight(s) ==
  /\ checkChainId(s)
  /\ checkContractCode(s)
  /\ checkStateMachineModules(s)
  /\ CheckGovernanceOwner(s)

(* What an operator may configure, with any number of mistakes.            *)
AnySetup == [ environment: Tiers, governanceBroadcast: BOOLEAN, evidence: Adapters, managed: BOOLEAN,
              manifest: Manifests, chain: ChainAnswers, faults: SUBSET Faults ]

-----------------------------------------------------------------------------
(* A process starting.                                                     *)

Init == entry \in Entries /\ setup \in Setups /\ startup = "begin"

Load ==
  /\ startup = "begin" /\ entry # "object"
  /\ startup' = IF ~loadConfigFromEnv(setup) THEN "refused"
                ELSE IF entry = "indexer" THEN "started" ELSE "loaded"
  /\ UNCHANGED << entry, setup >>

StaticPreflight ==
  /\ startup = IF entry = "object" THEN "begin" ELSE "loaded"
  /\ entry # "indexer"
  /\ startup' = IF runStaticPreflight(setup) THEN "static" ELSE "refused"
  /\ UNCHANGED << entry, setup >>

(* preflightStrict is the default outside local, and local's choice.       *)
PreflightStrict(s) == IF Strict(s) THEN ~Has(s, "notStrict") ELSE Has(s, "strictAsked")

(* Only a strict process asks the node.                                    *)
RpcPreflight ==
  /\ startup = "static"
  /\ startup' = IF ~PreflightStrict(setup) \/ runRpcPreflight(setup)
                THEN "started" ELSE "refused"
  /\ UNCHANGED << entry, setup >>

(* Started or refused.                                                     *)
Settled == startup \in { "started", "refused" } /\ UNCHANGED configVars

Next == Load \/ StaticPreflight \/ RpcPreflight \/ Settled
Spec == Init /\ [][Next]_configVars

-----------------------------------------------------------------------------
(* Safety.                                                                 *)

(* What no process outside local may run with, whatever path started it.   *)
Critical ==
  { "notStrict", "noRedaction", "notPostgres", "autoMigrations", "rpcUnset", "rpcLocal", "noReviewers",
    "noOpsAdmins", "noTokenHashes", "permissive", "memoryTrigger", "stateMachineMissing", "registryMissing",
    "storeAuthUnset", "storeAuthDevHeaders", "devAnchoredHeader", "issuerNotPublic",
    "deployerKeyAnvil", "signerKeyAnvil" }

(* Each layer alone keeps the critical settings right: a process that runs *)
(* outside local has none of them wrong, whether it was loaded and         *)
(* preflighted, handed a configuration object that no load saw (server.ts  *)
(* startApiServer), or only loaded (the indexer's entry point).            *)
EachLayerRefuses ==
  startup = "started" /\ Strict(setup) => setup.faults \cap Critical = {}

(* The tiers are not inverted ("档位倒挂收口"): what production loads,       *)
(* staging would load too once the roles that only staging declares, its   *)
(* chain id, its governance broadcast and the values of the S3 keys are in *)
(* order.                                                                  *)
StagingOnly ==
  { "relayerOff", "chainIdOther", "manifestExample", "registrarAddressMissing", "gasPayerMissing",
    "deployerKeyMissing", "deployerAddressMissing", "ownerMissing", "publisherMissing",
    "participantsMissing", "participantAnvil", "registryOwnerMissing", "signerAddressMissing",
    "signerKeyMissing" } \cup S3Values
NoTierInversion ==
  startup \in { "loaded", "started" } /\ entry # "object" /\ setup.environment = "production"
    => loadConfigFromEnv([ setup EXCEPT !.environment = "staging", !.governanceBroadcast = TRUE,
                                        !.faults = @ \ StagingOnly ])

(* A served process outside local runs the deployment the operator meant:  *)
(* the named one, or the only active one, never the first of the list by   *)
(* accident; with all its modules, which the chain confirms.               *)
MeantDeployment ==
  startup = "started" /\ entry # "indexer" /\ Strict(setup) =>
    LET d == selectActiveStateMachineDeployment(setup)
    IN /\ d.id = setup.manifest.activeId
            \/ (setup.manifest.activeId = "unset" /\ d.active
                 /\ \A i, j \in DOMAIN setup.manifest.deployments :
                      setup.manifest.deployments[i].active /\ setup.manifest.deployments[j].active => i = j)
       /\ d.modules = "complete" /\ d.machine = "flat"

(* A served process outside local is on the chain it was configured for.   *)
OnTheConfiguredChain ==
  startup = "started" /\ entry # "indexer" /\ Strict(setup)
    => setup.chain \notin { "down", "otherChain", "noCode", "otherModules" }

(* A process that runs outside local was refused nothing it should have    *)
(* been: its critical settings are right through every entry, the tiers    *)
(* agree, and it serves the deployment and the chain that were meant.      *)
StartsSafely == EachLayerRefuses /\ NoTierInversion /\ MeantDeployment /\ OnTheConfiguredChain

(* The invariant behind it: what a process got through on its path.        *)
PassedLoad == startup \in { "loaded", "static", "started" } /\ entry # "object" => loadConfigFromEnv(setup)
PassedPreflight ==
  /\ startup \in { "static", "started" } /\ entry # "indexer" => runStaticPreflight(setup)
  /\ startup = "started" /\ entry # "indexer" => ~PreflightStrict(setup) \/ runRpcPreflight(setup)
  /\ startup = "loaded" => entry \notin { "object", "indexer" }
  /\ startup = "static" => entry # "indexer"
IndInv == setup \in AnySetup /\ PassedLoad /\ PassedPreflight
=============================================================================
