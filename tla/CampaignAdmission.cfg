\* Packs, review, loading, planning and the decisions of a run.
SPECIFICATION Spec
CONSTANTS
    None = None
    FindingLimit = 9
    BuiltinKeys <- MCBuiltinKeys
    BuiltinAbilities <- MCBuiltinAbilities
    OwnCampaigns <- MCOwnCampaigns
    Contents <- MCContents
    Provenances <- MCProvenances
    Signers <- MCSigners
    TrustStores <- MCTrustStores
    Manifests <- MCManifests
    Targets <- MCTargets
    Catalog = {"b2"}
    MaxEdits = 2
    MaxTime = 3
INVARIANTS
    ApprovalIsEarned
    RegistryUnambiguous
    PlanPredictsRun
    DependenciesRespected
    FlowRoundTrip
CHECK_DEADLOCK FALSE
