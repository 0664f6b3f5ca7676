\* Two changes of mentions and no text, up to symmetry.
CONSTANTS
    p = p
    c = c
    a = a
    b = b
    User <- Deux
    Admins <- Autorite
    Createur = c
    Nul = Nul
    Place <- DeuxPlaces
    MaxTextes = 2
    MaxDemandes = 3
    MaxIncidents = 0
SYMMETRY Symetrie
SPECIFICATION Spec
INVARIANTS
    MentionAnnoncee
CONSTRAINT SansTexte
CHECK_DEADLOCK FALSE
