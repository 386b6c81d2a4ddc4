CONSTANTS
    a1 = a1
    a2 = a2
    extra = extra
    q1 = q1
    q2 = q2
    Planned <- MCPlanned
    Queries <- MCQueries
    Selected <- MCSelected
    Registry <- MCRegistry
    Verdict <- MCVerdict
    MaxFaults = 1

SPECIFICATION Spec

INVARIANT
    OnlyCounters
