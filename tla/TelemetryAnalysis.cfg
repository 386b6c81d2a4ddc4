\* Windows of evidence, correlation, and drift.
SPECIFICATION Spec
CONSTANTS
    None = None
    Anyone = Anyone
    Untimed = Untimed
    MaxPath = 4
    Millisecond = 10
    Tolerance = 2
    MaxDrop = 5
    MaxLatency = 1
    Corpora <- MCCorpora
    Lifecycles <- MCLifecycles
    Evidence <- MCEvidence
    Baselines <- MCBaselines
    Specifications <- MCSpecifications
    Answers <- MCAnswers
    Second = 4
    MaxWindow = 8
    MaxRecords = 2
    MaxPolls = 3
    MaxPlanEdits = 2
    MaxDuplicates = 1
    MaxConversions = 2
INVARIANTS
    GraphIsSound
    DeliveryIsHarmless
    CleanFeedbackIsEarned
    ConversionKeepsFindings
    EvidenceIsCorrelated
    GainHidesNoLoss
CHECK_DEADLOCK FALSE
