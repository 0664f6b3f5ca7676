------------------------------- MODULE MCComptes -------------------------------
(* Instances of Comptes for TLC. *)
EXTENDS Comptes, TLC

CONSTANTS m1, m2, n1, o1, o2, o3, a1, a2, a3, a4

Membres == {m1, m2}
UnNavigateur == {n1}
TroisOnglets == {o1, o2, o3}
Appels == {a1, a2, a3, a4}
OngletsDuNavigateur == o1 :> n1 @@ o2 :> n1 @@ o3 :> n1
AppelsDesOnglets == a1 :> o1 @@ a2 :> o2 @@ a3 :> o3 @@ a4 :> o3

(* Two tabs that race; one tab with several calls in hand, with two         *)
(* organisations, or with revocations and failures.                         *)
DeuxOnglets == {[membres |-> {m1}, onglets |-> {o1, o2}, revocations |-> 0, pannes |-> 0]}
UnOnglet == {[membres |-> {m1, m2}, onglets |-> {o3}, revocations |-> 0, pannes |-> 0]}
Departs == DeuxOnglets \cup UnOnglet \cup
    {[membres |-> {m1}, onglets |-> {o3}, revocations |-> 1, pannes |-> 1]}
DepartsSession == DeuxOnglets \cup UnOnglet
DeuxOrganisations == UnOnglet \cup
    {[membres |-> {m1, m2}, onglets |-> {o1, o2}, revocations |-> 0, pannes |-> 0]}

(* The two User rows are alike, and so are the two tabs with one call. *)
Echange(x, y) == x :> y @@ y :> x
Symetrie == {Echange(m1, m2), Echange(o1, o2) @@ Echange(a1, a2),
             Echange(m1, m2) @@ Echange(o1, o2) @@ Echange(a1, a2)}

(* EcranSuitLesJetons says nothing more of a browser once substitue is set. *)
NonSubstitue == \A n \in Navigateur : ~substitue[n]

================================================================================
