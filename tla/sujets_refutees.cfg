\* Statements the code does not keep: check them one at a time, TLC stops at the first.
CONSTANTS
    r1 = r1
    r2 = r2
    Requete <- DeuxRequetes
    Depart <- Departs
    MaxSujets = 3
    MaxTaches = 2
SPECIFICATION Spec
CHECK_DEADLOCK FALSE
INVARIANTS
    UnSujetActif
    CopieDesActives
PROPERTIES
    AnnonceComplete
    ArchiveMasque
