CONSTANTS
    m1 = m1
    m2 = m2
    n1 = n1
    o1 = o1
    o2 = o2
    o3 = o3
    a1 = a1
    a2 = a2
    a3 = a3
    a4 = a4
    Membre <- Membres
    Navigateur <- UnNavigateur
    Onglet <- TroisOnglets
    Appel <- Appels
    NavigateurDe <- OngletsDuNavigateur
    OngletDe <- AppelsDesOnglets
    Depart <- DepartsSession
    Nul = Nul
    MaxLignes = 2
SPECIFICATION Spec
INVARIANT
    EcranSuitLaConnexion
PROPERTY
    JeteSeulementSiFinie
