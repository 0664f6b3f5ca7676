CONSTANTS
    Msg = {m1, m2}
    MaxTentatives = 2
    MaxIncidents = 0
    MaxArrets = 0
SPECIFICATION SpecJobs
INVARIANTS
    EchecVisible
CHECK_DEADLOCK FALSE
