-------------------------------- MODULE MCPages --------------------------------
(* Instances of Pages for TLC: every page of the application. *)
EXTENDS Pages

CONSTANTS k1, k2, r1, r2

DeuxCles == {k1, k2}
DeuxRequetes == {r1, r2}
Ecrans ==
    {TachesBureau, Bureau, CheckIn, OrganizerBureau, ParametresBureau, Rapport, Sujets,
     DetailTache, StatsMembre, Bureaux, Membres, ConversationDirecte, Administration,
     TableauDeBord, ParametresOrganisation, Notifications, Conversations, Rapports, AValider,
     ValidationsDuJour, Cloche, BarreLaterale, MesTaches, MonOrganizer, Performance, Calendrier}

================================================================================
