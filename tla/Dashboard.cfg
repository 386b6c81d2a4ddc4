CONSTANTS
    MaxRuns = 2
    Mode <- ScenarioThenBehavior
    MaxWork = 1
    MaxStops = 1
    MAX_EVENTS = 2

SPECIFICATION Spec

INVARIANTS
    OneRunShown

PROPERTIES
    StopEndsRun
    CaughtUp

\* Every run may be over and no request need come.
CHECK_DEADLOCK FALSE
