---------------------------- MODULE MCStatistiques ----------------------------
(* Instances of Statistiques for TLC: p owns the organisation, c is a        *)
(* collaborator of the office.                                               *)
EXTENDS Statistiques, TLC

CONSTANTS p, c

Membres == {p, c}
(* validePar is read by no guard and by no property here. *)
Vue == <<equipe, existe, coAssignes, ouvertes, horloge, sessions, creee,
         [tache EXCEPT !.validePar = Nul]>>

Roles == p :> "ADMIN" @@ c :> "MEMBRE"

=============================================================================
