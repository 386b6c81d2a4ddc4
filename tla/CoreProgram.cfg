\* Suites of up to four traces, and simulations of four cycles, two of each.
SPECIFICATION Spec
CONSTANTS
    None = None
    Selections <- MCSelections
    MutationCounts = {0, 1}
    Requests = {{"junit", "bundle"}, {"coverage", "bundle"}}
    MaxSuites = 2
    MaxWriteFailures = 1
    Phases <- MCPhases
    Baseline = "t0"
    Iterations = {4}
    MaxSimulations = 2
    MaxLayerFailures = 1
\* The program ends.
CHECK_DEADLOCK FALSE
INVARIANTS
    ExitTells
    StopIsPrompt
    OutputsTellRuns
