---------------------------- MODULE MCTacheCycle ----------------------------
(* Instances of TacheCycle for TLC.  p owns the organisation (an Authority), *)
(* m is a manager and c a collaborator of the office.                        *)
EXTENDS TacheEcran, TLC

CONSTANTS p, m, c

TroisRoles == p :> "ADMIN" @@ m :> "MANAGER" @@ c :> "MEMBRE"
TroisMembres == {p, m, c}

(* No guard and none of the properties of this run reads a date or who      *)
(* validated: states that differ only there have the same futures.          *)
Vue == <<equipe, existe, coAssignes, ouvertes,
         [tache EXCEPT !.dateDebut = Nul, !.dateDeclaration = Nul, !.dateRenvoiRework = Nul,
                       !.dateValidation = Nul, !.validePar = Nul]>>

=============================================================================
