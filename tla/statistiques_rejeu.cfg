CONSTANTS
    p = p
    c = c
    User <- Membres
    Proprietaire = p
    Nul = Nul
    RoleInitial <- Roles
    MembresInitiaux <- Membres
    MaxHorloge = 3
    MaxMouvements = 0
    JourLong = 2
    MaxSessions = 2
VIEW Vue
SPECIFICATION SpecStats
INVARIANTS
    RapportToujoursRejouable
