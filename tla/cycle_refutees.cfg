\* Statements the code does not keep: check them one at a time, TLC stops at the first.
CONSTANTS
    p = p
    m = m
    c = c
    User <- TroisMembres
    Proprietaire = p
    Nul = Nul
    RoleInitial <- TroisRoles
    MembresInitiaux <- TroisMembres
    MaxHorloge = 0
    MaxMouvements = 1
SPECIFICATION Spec
INVARIANTS
    ChronoSuitLeCycle
    PersonnelleCochable
    SignalerOffert
    AccepterSelonLeStatut
    DemarrerSelonLeLecteur
    PauserSaSession
PROPERTIES
    ValideeEstFinal
    SeulUnManagerValide
    ReassignerDonneLaTache
