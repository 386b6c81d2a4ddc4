CONSTANTS
    Rules <- MCRules
    Pack <- MCPack
    Records <- MCRecords
    Alias <- MCAlias
    Iterated <- MCIterated
    Baselines <- MCBaselines
    MaxEvents = 4
    MaxNesting = 3
    Scores = {100, 90}
    Assessments = {"clean", "review"}
    MaxAssuranceDrop = 5
    MinRetention = 80

SPECIFICATION Spec

INVARIANTS
    EngineExact
    GateIsFair
    GapsExplainVerdict

PROPERTIES
    EvidenceOnlyAdds
