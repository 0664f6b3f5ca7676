------------------------------ MODULE MCRapports ------------------------------
(* Instances of Rapports for TLC: p is an Authority, c creates the report. *)
EXTENDS Rapports, TLC

CONSTANTS p, c, a, b

Deux == {p, c}
Autorite == {p}
DeuxPlaces == {a, b}
Symetrie == Permutations(DeuxPlaces)

(* Two people change the mentions, and nobody the texts. *)
SansTexte == \A u \in User : pages[u].brouillon = Fermee.brouillon

================================================================================
