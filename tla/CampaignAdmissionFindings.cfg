\* The review keeps a bounded number of findings: 200 in the code, three here.
SPECIFICATION Spec
CONSTANTS
    None = None
    FindingLimit = 3
    BuiltinKeys <- MCBuiltinKeys
    BuiltinAbilities <- MCBuiltinAbilities
    OwnCampaigns <- MCOwnCampaigns
    Contents <- MCContents
    Provenances <- MCProvenances
    Signers <- MCSigners
    TrustStores <- MCTrustStores
    Manifests <- MCManifests
    Targets <- MCTargets
    Catalog = {"b2"}
    MaxEdits = 2
    MaxTime = 3
INVARIANT
    ProhibitedIsBlocked
CHECK_DEADLOCK FALSE
