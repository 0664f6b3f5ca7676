CONSTANTS
    c = c
    m = m
    Appel = {r1, r2}
    Blocage = {b1, b2}
    Assigne <- LesUsers
    Manager <- LesManagers
SPECIFICATION SpecSante
INVARIANTS
    BloqueeTantQueBlocage
