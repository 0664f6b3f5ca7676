\* Statements the code does not keep: check them one at a time, TLC stops at the first.
CONSTANTS
    p = p
    c = c
    a = a
    b = b
    User <- Deux
    Admins <- Autorite
    Createur = c
    Nul = Nul
    Place <- DeuxPlaces
    MaxTextes = 2
    MaxDemandes = 3
    MaxIncidents = 1
SPECIFICATION Spec
CHECK_DEADLOCK FALSE
PROPERTIES
    PriveIntrouvable
    BrouillonGarde
