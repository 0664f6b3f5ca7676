CONSTANTS
    r1 = r1
    r2 = r2
    Requete <- DeuxRequetes
    MaxAppels = 4
    MaxIncidents = 1
SPECIFICATION Spec
CHECK_DEADLOCK FALSE
INVARIANTS
    UnSeulEnvoi
    Accord
PROPERTIES
    AlerteFinit
