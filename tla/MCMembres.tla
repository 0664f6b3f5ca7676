------------------------------- MODULE MCMembres -------------------------------
(* Instances of Membres for TLC. *)
EXTENDS Droits, TLC

CONSTANTS p, c, r1, r2

Deux == {p, c}
DeuxRequetes == {r1, r2}

(* The limit of offices; offices and roles; the owner; members of two organisations. *)
Departs ==
    {[membres |-> {}, ailleurs |-> {}, bureaux |-> 3, adresses |-> {},
      conviables |-> {}, operations |-> {"creerBureau"}],
     [membres |-> {c}, ailleurs |-> {}, bureaux |-> 2, adresses |-> {}, conviables |-> {},
      operations |-> {"creerBureau", "promouvoir", "changerRole", "retirer"}],
     [membres |-> {c}, ailleurs |-> {}, bureaux |-> 1, adresses |-> {}, conviables |-> {c},
      operations |-> {"creerBureau", "transferer", "transfererPromu", "promouvoir",
                      "changerRole", "retirer"}],
     [membres |-> {c}, ailleurs |-> {c}, bureaux |-> 0, adresses |-> {c}, conviables |-> {},
      operations |-> {"retirer", "retirerAilleurs", "ajouter", "accepter"}]}
Symetrie == Permutations(DeuxRequetes)

================================================================================
