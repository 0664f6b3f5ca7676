CONSTANTS
    x = x
    y = y
    f1 = f1
    f2 = f2
    q1 = q1
    q2 = q2
    Conv <- DeuxConv
    Depart <- DepartCoupe
    Fil <- DeuxFils
    Requete <- DeuxRequetes
    Page = 1
    Nul = Nul
SYMMETRY Symetrie
SPECIFICATION Spec
CHECK_DEADLOCK FALSE
INVARIANT Resynchronise
