CONSTANTS
    c = c
    m = m
    Appel = {r1, r2, r3}
    Blocage = {b1, b2, b3}
    Assigne <- LesUsers
    Manager <- LesManagers
SPECIFICATION SpecSante
INVARIANTS
    NormaleSansBlocage
PROPERTIES
    SanteRetrouvee
