---------------------------- MODULE MCTacheRequetes ----------------------------
(* Instances of TacheRequetes for TLC. *)
EXTENDS TacheRequetes, TLC

CONSTANTS p, c, r1, r2

DeuxRoles == p :> "ADMIN" @@ c :> "MEMBRE"
Deux == {p, c}
DeuxRequetes == {r1, r2}
Symetrie == Permutations(DeuxRequetes)

(* Four columns are written and never read by a request or a property: two  *)
(* states that differ only there have the same futures.                      *)
Vue == <<equipe, existe,
         [tache EXCEPT !.dateDeclaration = Nul, !.dateRenvoiRework = Nul,
                       !.dateValidation = Nul, !.validePar = Nul],
         coAssignes, ouvertes, horloge, requetes, isole>>

=============================================================================
