CONSTANTS
    p = p
    m = m
    c = c
    User <- TroisMembres
    Proprietaire = p
    Nul = Nul
    RoleInitial <- TroisRoles
    MembresInitiaux <- TroisMembres
    MaxHorloge = 1
    MaxMouvements = 3
VIEW Vue
SPECIFICATION Spec
INVARIANTS
    SessionUnique
    ChronoEteintAvantDemarrage
    PersonnelleResteAuProprietaire
    RefusExacts
    PasDImpasse
PROPERTIES
    EngageeJusquAuDepart
