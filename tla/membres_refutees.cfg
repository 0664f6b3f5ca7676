\* Statements the code does not keep: check them one at a time, TLC stops at the first.
CONSTANTS
    p = p
    c = c
    r1 = r1
    r2 = r2
    User <- Deux
    MaxIdentite = 3
    Fondateur = p
    Depart <- Departs
    Requete <- DeuxRequetes
    MaxBureaux = 1
    Nul = Nul
SYMMETRY Symetrie
SPECIFICATION Spec
INVARIANTS
    MembresPourTous
    StatistiquesOffertes
    JournalDuManager
    CalendrierSupprime
    PersonnelPrive
