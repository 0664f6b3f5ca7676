CONSTANTS
    Msg = {m1, m2}
    MaxTentatives = 2
    MaxIncidents = 1
    MaxArrets = 1
SPECIFICATION SpecJobs
INVARIANTS
    TermineSansPerte
    DoublonParIncident
PROPERTIES
    JobAboutit
CHECK_DEADLOCK FALSE
