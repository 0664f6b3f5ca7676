CONSTANTS
    p = p
    c = c
    r1 = r1
    r2 = r2
    User <- Deux
    Proprietaire = p
    Nul = Nul
    RoleInitial <- DeuxRoles
    MembresInitiaux <- Deux
    MaxHorloge = 1
    MaxMouvements = 0
    Requete <- DeuxRequetes
SYMMETRY Symetrie
VIEW Vue
SPECIFICATION SpecRequetes
INVARIANTS
    SessionsBornees
    PersonnelleProtegee
PROPERTIES
    ImplementeLeCycle
