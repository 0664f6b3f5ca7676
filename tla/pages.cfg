CONSTANTS
    k1 = k1
    k2 = k2
    r1 = r1
    r2 = r2
    Cle <- DeuxCles
    Premiere = k1
    Requete <- DeuxRequetes
    Ecran <- Ecrans
    MaxChangements = 3
    MaxMontages = 2
    MaxEchecs = 1
    Nul = Nul
SPECIFICATION Spec
CHECK_DEADLOCK FALSE
INVARIANTS
    AfficheDuChoix
    RienDInvente
    PropreVisible
PROPERTIES
    Rafraichi
