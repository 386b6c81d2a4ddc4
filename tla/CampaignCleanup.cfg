CONSTANTS
    Steps <- MCSteps
    Modes <- MCModes
    Permitted <- MCPermitted
    Argv <- MCArgv
    CleanupArgv <- MCCleanupArgv
    Detections <- MCDetections
    PriorUse <- MCPriorUse
    MaxActions = 2
    MaxProcesses = 2
    MaxFaults = 1

SPECIFICATION Spec

INVARIANT CleanupAttempted
