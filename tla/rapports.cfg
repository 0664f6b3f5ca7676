CONSTANTS
    p = p
    c = c
    a = a
    b = b
    User <- Deux
    Admins <- Autorite
    Createur = c
    Nul = Nul
    Place <- DeuxPlaces
    MaxTextes = 1
    MaxDemandes = 3
    MaxIncidents = 1
SYMMETRY Symetrie
SPECIFICATION Spec
INVARIANTS
    UnSeulEnregistrement
    ConfirmeEcrit
    MentionAnnoncee
CHECK_DEADLOCK FALSE
