----------------------------- MODULE ComptesProofs -----------------------------
(* Proofs about the sessions of an account, for any number of browsers,    *)
(* tabs, calls, User rows and refresh tokens.  They use the safety part of *)
(* SpecEquitable only, which is Spec.                                      *)
EXTENDS Comptes, WellFoundedInduction, TLAPS

USE ComptesAssumption

(* The points a call and a renewal go through, with the pairs that they    *)
(* are made with.                                                          *)
PointAppel ==
    {q \in [quoi : Quoi, phase : Phase, paire : Paire \cup {Nul}, ligne : Ligne \cup {Nul}] :
        q.phase \in {"envoye", "renvoye", "recu", "chercher", "revoquer"} => q.paire \in Paire}
PointRenouvellement ==
    {q \in [etape : Etape, paire : Paire \cup {Nul}, ligne : Ligne \cup {Nul}] :
        q.etape # "aucune" => q.paire \in Paire}

(* TypeOK, and the pairs of the calls and renewals under way.              *)
Types ==
    /\ TypeOK
    /\ appels \in [Appel -> PointAppel]
    /\ renouvellement \in [Onglet -> PointRenouvellement]

(* As long as no session was ended on purpose, no call revokes anything.   *)
SansRevocation ==
    ~rompu => \A a \in Appel : /\ appels[a].ligne = Nul
                               /\ appels[a].phase \notin {"chercher", "revoquer", "effacer"}

(* The users whose pairs are in use: in a browser, on their way to one, or *)
(* being renewed.                                                          *)
Porte(m) ==
    \/ \E n \in Navigateur : stockage[n] # Nul /\ stockage[n].m = m
    \/ \E a \in Appel : appels[a].phase \in {"envoye", "renvoye", "recu"} /\ appels[a].paire.m = m
    \/ \E o \in Onglet : Renouvelle(o) /\ renouvellement[o].paire.m = m

(* A renewal that has a row of m to replace, or has just revoked it.       *)
Remplace(m) == \E o \in Onglet : /\ renouvellement[o].etape \in {"revoquer", "creer"}
                                 /\ renouvellement[o].paire.m = m

(* PaireUtilisable, for all the users in use and at every step of a        *)
(* renewal: their User row is there, and a refresh token of theirs is      *)
(* live, or about to be created in the place of one.                       *)
Renouvelables ==
    ~rompu => \A m \in Membre : Porte(m) =>
                 /\ m \in membres
                 /\ LignesDe(m) # {} \/ Remplace(m)

(* A renewal revokes a row of its own user. *)
LignesPropres ==
    \A o \in Onglet : renouvellement[o].ligne # Nul =>
        /\ renouvellement[o].etape = "revoquer"
        /\ renouvellement[o].ligne[1] = renouvellement[o].paire.m

(* EcranSuitLesJetons, for all that goes by a browser's pair: the pair     *)
(* itself and, in each tab that is not being left, the calls and the       *)
(* renewal under way are of one user; so is what the tab shows, or it has  *)
(* asked who that is.                                                      *)
Suit(o, m) == VaAvec(o, m) /\ (SeDemande(o) \/ ecran[o] \in {Nul, m})
Tient(n, m) == stockage[n] # Nul => stockage[n].m = m
Unanime(n, m) == /\ Tient(n, m)
                 /\ \A o \in Onglet : NavigateurDe[o] = n => Quittee(o) \/ Suit(o, m)
Unanimes == \A n \in Navigateur : ~substitue[n] => \E m \in Membre \cup {Nul} : Unanime(n, m)

-----------------------------------------------------------------------------
(* A set of numbers that is not empty has a least element. *)
LEMMA PlusPetit ==
    ASSUME NEW S, S \subseteq Nat, S # {}
    PROVE  \E k \in S : \A j \in S : k <= j
<1>1. PICK k \in S : \A j \in S : ~(<<j, k>> \in OpToRel(<, Nat))
  BY NatLessThanWellFounded, WFMin
<1>2. \A j \in S : ~(j < k)
  BY <1>1 DEF OpToRel
<1> QED BY <1>2

(* issueTokens() adds a row of the user it is for, unless all the rows     *)
(* told apart are live or about to be revoked.                             *)
LEMMA LignesAvecEffet ==
    ASSUME NEW m \in Membre
    PROVE  \/ /\ LignesAvec(m) = lignes
              /\ \A k \in 1..MaxLignes : <<m, k>> \in lignes \cup Designees
           \/ \E k \in 1..MaxLignes : LignesAvec(m) = lignes \cup {<<m, k>>}
<1> DEFINE libres == {k \in 1..MaxLignes : <<m, k>> \notin lignes \cup Designees}
<1>1. CASE libres = {}
  BY <1>1 DEF LignesAvec
<1>2. CASE libres # {}
  <2>1. libres \subseteq Nat
    OBVIOUS
  <2> HIDE DEF libres
  <2>2. \E k \in libres : \A j \in libres : k <= j
    BY <1>2, <2>1, PlusPetit
  <2>3. (CHOOSE k \in libres : \A j \in libres : k <= j) \in libres
    BY <2>2
  <2>4. LignesAvec(m) = lignes \cup {<<m, CHOOSE k \in libres : \A j \in libres : k <= j>>}
    BY <1>2 DEF libres, LignesAvec
  <2> QED BY <2>3, <2>4 DEF libres
<1> QED BY <1>1, <1>2

-----------------------------------------------------------------------------
(* Types *)

(* The same rows, with the type of each.                                     *)
LEMMA LignesAvecType ==
    ASSUME Types, NEW m \in Membre
    PROVE  LignesAvec(m) \subseteq Ligne
BY LignesAvecEffet DEF Types, TypeOK, Ligne

(* What the parts of Types mean, one by one.                               *)
LEMMA TypesParts ==
    ASSUME Types
    PROVE  /\ lignes \subseteq Ligne /\ membres \subseteq Membre /\ ouverts \subseteq Onglet
           /\ stockage \in [Navigateur -> Paire \cup {Nul}]
           /\ ecran \in [Onglet -> Membre \cup {Nul}]
           /\ revocations \in Nat /\ pannes \in Nat
           /\ banni \in BOOLEAN /\ rompu \in BOOLEAN
           /\ substitue \in [Navigateur -> BOOLEAN]
           /\ \A o \in Onglet : NavigateurDe[o] \in Navigateur
           /\ \A a \in Appel : OngletDe[a] \in Onglet /\ Nav(a) \in Navigateur
BY DEF Types, TypeOK, Nav

(* The other way round, after a step.                                      *)
LEMMA TypesApres ==
    ASSUME lignes' \subseteq Ligne, membres' \subseteq Membre, ouverts' \subseteq Onglet,
           stockage' \in [Navigateur -> Paire \cup {Nul}],
           ecran' \in [Onglet -> Membre \cup {Nul}],
           appels' \in [Appel -> PointAppel],
           renouvellement' \in [Onglet -> PointRenouvellement],
           revocations' \in Nat, pannes' \in Nat, banni' \in BOOLEAN, rompu' \in BOOLEAN,
           substitue' \in [Navigateur -> BOOLEAN]
    PROVE  Types'
<1>1. /\ PointAppel \subseteq [quoi : Quoi, phase : Phase, paire : Paire \cup {Nul},
                               ligne : Ligne \cup {Nul}]
      /\ PointRenouvellement \subseteq [etape : Etape, paire : Paire \cup {Nul},
                                        ligne : Ligne \cup {Nul}]
  BY DEF PointAppel, PointRenouvellement
<1> QED BY <1>1 DEF Types, TypeOK

(* What a call may be turned into.                                         *)
LEMMA AppelsType ==
    ASSUME appels \in [Appel -> PointAppel], NEW a \in Appel
    PROVE  /\ \A quoi \in Quoi, phase \in Phase, p \in Paire \cup {Nul} :
                 (phase \in {"envoye", "renvoye", "recu", "chercher", "revoquer"} => p \in Paire)
                 /\ En(a, quoi, phase, p) => appels' \in [Appel -> PointAppel]
           /\ Finir(a) => appels' \in [Appel -> PointAppel]
           /\ \A quoi \in Quoi, p \in Paire \cup {Nul} :
                 Seul(a, quoi, "envoye", p) => appels' \in [Appel -> PointAppel]
<1>1. Libre \in PointAppel
  BY DEF Libre, PointAppel, Quoi, Phase
<1>2. ASSUME NEW quoi \in Quoi, NEW phase \in Phase, NEW p \in Paire \cup {Nul},
             phase \in {"envoye", "renvoye", "recu", "chercher", "revoquer"} => p \in Paire
      PROVE  [quoi |-> quoi, phase |-> phase, paire |-> p, ligne |-> Nul] \in PointAppel
  BY <1>2 DEF PointAppel
<1>3. ASSUME NEW quoi \in Quoi, NEW phase \in Phase, NEW p \in Paire \cup {Nul},
             phase \in {"envoye", "renvoye", "recu", "chercher", "revoquer"} => p \in Paire,
             En(a, quoi, phase, p)
      PROVE  appels' \in [Appel -> PointAppel]
  BY <1>2, <1>3, Zenon DEF En
<1>4. Finir(a) => appels' \in [Appel -> PointAppel]
  BY <1>1 DEF Finir
<1>5. ASSUME NEW quoi \in Quoi, NEW p \in Paire \cup {Nul}, Seul(a, quoi, "envoye", p)
      PROVE  appels' \in [Appel -> PointAppel]
  <2>1. p # Nul => [quoi |-> quoi, phase |-> "envoye", paire |-> p, ligne |-> Nul] \in PointAppel
    BY <1>2 DEF Phase
  <2> QED BY <2>1, <1>1, <1>5 DEF Seul
<1> QED BY <1>3, <1>4, <1>5

(* What is remembered of a pair that was replaced. *)
LEMMA RemplacementType ==
    ASSUME substitue \in [Navigateur -> BOOLEAN], NEW o \in Onglet, NEW constat,
           NavigateurDe[o] \in Navigateur, Remplacement(o, constat), constat \in BOOLEAN
    PROVE  substitue' \in [Navigateur -> BOOLEAN]
<1>1. (substitue[NavigateurDe[o]] \/ constat) \in BOOLEAN
  OBVIOUS
<1>2. substitue' = [substitue EXCEPT ![NavigateurDe[o]] = substitue[NavigateurDe[o]] \/ constat]
  BY DEF Remplacement
<1> QED BY <1>1, <1>2, Zenon

(* Every step keeps the types. *)
LEMMA ComptesTypeStep == ASSUME Types, [Next]_vars PROVE Types'
<1>t. /\ appels \in [Appel -> PointAppel]
      /\ renouvellement \in [Onglet -> PointRenouvellement]
      /\ Repos \in PointRenouvellement /\ Libre \in PointAppel
  BY DEF Types, Repos, PointRenouvellement, Etape, Libre, PointAppel, Quoi, Phase
<1>n. \A m \in Membre : Neuve(m) \in Paire
  BY DEF Neuve, Paire, Age
<1> USE TypesParts, <1>t DEF serveur, bornes
<1>1. ASSUME NEW a \in Appel, Appeler(a) PROVE Types'
  <2>1. appels' \in [Appel -> PointAppel]
    BY <1>1, AppelsType DEF Appeler, Quoi, Phase
  <2> QED BY <1>1, <2>1, TypesApres DEF Appeler
<1>2. ASSUME NEW a \in Appel, Recharger(a) PROVE Types'
  <2>1. appels' \in [Appel -> PointAppel]
    BY <1>2, AppelsType DEF Recharger, Quoi
  <2> QED BY <1>2, <2>1, TypesApres DEF Recharger
<1>3. ASSUME NEW a \in Appel, NEW m \in Membre, Connecter(a, m) PROVE Types'
  <2>1. appels' \in [Appel -> PointAppel]
    BY <1>3, <1>n, AppelsType DEF Connecter, Quoi, Phase
  <2>2. lignes' \subseteq Ligne
    BY <1>3, LignesAvecType DEF Connecter
  <2> QED BY <1>3, <2>1, <2>2, TypesApres DEF Connecter
<1>4. ASSUME NEW a \in Appel, Basculer(a) PROVE Types'
  <2>1. appels' \in [Appel -> PointAppel]
    BY <1>4, AppelsType DEF Basculer, Quoi, Phase
  <2> QED BY <1>4, <2>1, TypesApres DEF Basculer
<1>5. ASSUME NEW a \in Appel, Deconnecter(a) PROVE Types'
  <2>1. appels' \in [Appel -> PointAppel]
    BY <1>5, AppelsType DEF Deconnecter, Quoi, Phase
  <2> QED BY <1>5, <2>1, TypesApres DEF Deconnecter
<1>m. ASSUME NEW a \in Appel, MoiEchoue(a)
      PROVE  stockage' \in [Navigateur -> Paire \cup {Nul}] /\ ecran' \in [Onglet -> Membre \cup {Nul}]
  BY <1>m DEF MoiEchoue, Vide
<1>6. ASSUME NEW a \in Appel, Accepte(a) PROVE Types'
  <2>0. appels[a].paire \in Paire /\ appels[a].paire.m \in Membre
    BY <1>6 DEF Accepte, PointAppel, Paire
  <2>u. UNCHANGED <<membres, banni, ouverts, renouvellement, bornes, rompu, substitue>>
    BY <1>6 DEF Accepte
  <2>1. CASE Finir(a) /\ UNCHANGED <<lignes, stockage, ecran>>
    BY <2>1, <2>u, AppelsType, TypesApres
  <2>2. CASE Finir(a) /\ UNCHANGED <<lignes, stockage>>
             /\ ecran' = [ecran EXCEPT ![OngletDe[a]] = appels[a].paire.m]
    BY <2>0, <2>2, <2>u, AppelsType, TypesApres
  <2>3. CASE Finir(a) /\ UNCHANGED lignes /\ MoiEchoue(a)
    BY <2>3, <2>u, <1>m, AppelsType, TypesApres
  <2>4. ASSUME NEW m \in membres, lignes' = LignesAvec(m), En(a, "bascule", "recu", Neuve(m)),
               UNCHANGED <<stockage, ecran>>
        PROVE  Types'
    <3>1. appels' \in [Appel -> PointAppel]
      BY <2>4, <1>n, AppelsType DEF Quoi, Phase
    <3>2. lignes' \subseteq Ligne
      BY <2>4, LignesAvecType
    <3> QED BY <2>4, <2>u, <3>1, <3>2, TypesApres
  <2> QED BY <1>6, <2>1, <2>2, <2>3, <2>4 DEF Accepte
<1>7. ASSUME NEW a \in Appel, Refuse401(a) PROVE Types'
  <2>1. appels' \in [Appel -> PointAppel]
    BY ZenonT(40), <1>7 DEF Refuse401, PointAppel, Phase
  <2>2. renouvellement' \in [Onglet -> PointRenouvellement]
    BY <1>7 DEF Refuse401, PointAppel, PointRenouvellement, Etape
  <2> QED BY <1>7, <2>1, <2>2, TypesApres DEF Refuse401
<1>8. ASSUME NEW a \in Appel, Refuse401Encore(a) PROVE Types'
  <2>1. appels' \in [Appel -> PointAppel]
    BY <1>8, AppelsType DEF Refuse401Encore
  <2> QED BY <1>8, <2>1, <1>m, TypesApres DEF Refuse401Encore
<1>9. ASSUME NEW a \in Appel, CoupureAppel(a) PROVE Types'
  <2>1. appels' \in [Appel -> PointAppel] /\ pannes' \in Nat
    BY <1>9, AppelsType DEF CoupureAppel
  <2>2. stockage' \in [Navigateur -> Paire \cup {Nul}] /\ ecran' \in [Onglet -> Membre \cup {Nul}]
    BY <1>9, <1>m DEF CoupureAppel, Vide
  <2> QED BY <1>9, <2>1, <2>2, TypesApres DEF CoupureAppel
<1>10. ASSUME NEW a \in Appel, Installer(a) PROVE Types'
  <2>0. appels[a].paire \in Paire /\ appels[a].paire.m \in Membre
    BY <1>10 DEF Installer, PointAppel, Paire
  <2>1. stockage' \in [Navigateur -> Paire \cup {Nul}]
    BY <1>10, <2>0, <1>n DEF Installer, Depose
  <2>2. substitue' \in [Navigateur -> BOOLEAN]
    <3>1. /\ AilleursUnAutre(OngletDe[a], appels[a].paire.m) \in BOOLEAN
          /\ VaAvec(OngletDe[a], appels[a].paire.m) \in BOOLEAN
      BY DEF AilleursUnAutre, VaAvec
    <3>2. \E constat \in BOOLEAN : Remplacement(OngletDe[a], constat)
      BY <1>10, <3>1 DEF Installer
    <3> QED BY <3>2, RemplacementType, TypesParts
  <2>3. appels' \in [Appel -> PointAppel]
    <3>1. CASE ApresBascule(a)
      BY <3>1, AppelsType DEF ApresBascule, Quoi, Phase
    <3>2. CASE ApresConnexion(a)
      BY <2>0, <3>2, AppelsType DEF ApresConnexion, Quoi, Phase
    <3> QED BY <1>10, <3>1, <3>2 DEF Installer
  <2> QED BY <1>10, <2>1, <2>2, <2>3, TypesApres DEF Installer
<1>29. ASSUME NEW a \in Appel, Partir(a) PROVE Types'
  <2>1. appels' \in [Appel -> PointAppel]
    BY <1>29, AppelsType DEF Partir, Quoi
  <2> QED BY <1>29, <2>1, TypesApres DEF Partir
<1>11. ASSUME NEW a \in Appel, CoupureReponse(a) PROVE Types'
  <2>1. appels' \in [Appel -> PointAppel] /\ pannes' \in Nat
    BY <1>11, AppelsType DEF CoupureReponse
  <2> QED BY <1>11, <2>1, TypesApres DEF CoupureReponse
<1>12. ASSUME NEW a \in Appel, ChercherDeconnexion(a) PROVE Types'
  <2>1. appels' \in [Appel -> PointAppel]
    BY <1>12 DEF ChercherDeconnexion, PointAppel, Phase, LignesDe
  <2> QED BY <1>12, <2>1, TypesApres DEF ChercherDeconnexion
<1>13. ASSUME NEW a \in Appel, RevoquerDeconnexion(a) PROVE Types'
  <2>1. appels' \in [Appel -> PointAppel]
    <3>1. [appels[a] EXCEPT !.phase = "effacer", !.paire = Nul, !.ligne = Nul] \in PointAppel
      BY DEF PointAppel, Phase
    <3> QED BY <1>13, <3>1 DEF RevoquerDeconnexion
  <2> QED BY <1>13, <2>1, TypesApres DEF RevoquerDeconnexion
<1>14. ASSUME NEW a \in Appel, Effacer(a) PROVE Types'
  <2>1. appels' \in [Appel -> PointAppel]
    BY <1>14, AppelsType DEF Effacer
  <2>2. stockage' \in [Navigateur -> Paire \cup {Nul}] /\ ecran' \in [Onglet -> Membre \cup {Nul}]
    BY <1>14 DEF Effacer, Vide
  <2> QED BY <1>14, <2>1, <2>2, TypesApres DEF Effacer
<1>15. ASSUME NEW o \in Onglet, RenouvelerPourSocket(o) PROVE Types'
  <2>1. renouvellement' \in [Onglet -> PointRenouvellement]
    BY <1>15 DEF RenouvelerPourSocket, PointRenouvellement, Etape
  <2> QED BY <1>15, <2>1, TypesApres DEF RenouvelerPourSocket
<1>16. ASSUME NEW o \in Onglet, Chercher(o) PROVE Types'
  <2>1. renouvellement' \in [Onglet -> PointRenouvellement]
    BY <1>16 DEF Chercher, A, PointRenouvellement, Etape, LignesDe
  <2> QED BY <1>16, <2>1, TypesApres DEF Chercher
<1>17. ASSUME NEW o \in Onglet, Revoquer(o) PROVE Types'
  <2>1. renouvellement' \in [Onglet -> PointRenouvellement]
    BY <1>17 DEF Revoquer, PointRenouvellement, Etape
  <2> QED BY <1>17, <2>1, TypesApres DEF Revoquer
<1>18. ASSUME NEW o \in Onglet, Creer(o) PROVE Types'
  <2>1. renouvellement' \in [Onglet -> PointRenouvellement]
    BY <1>18 DEF Creer, A, PointRenouvellement, Etape
  <2>2. renouvellement[o].paire.m \in Membre
    BY <1>18 DEF Creer, PointRenouvellement, Paire
  <2>3. lignes' \subseteq Ligne
    BY <1>18, <2>2, LignesAvecType DEF Creer, LignesRenouvelees
  <2> QED BY <1>18, <2>1, <2>3, TypesApres DEF Creer
<1>19. ASSUME NEW o \in Onglet, Resoudre(o) PROVE Types'
  <2>1. renouvellement' \in [Onglet -> PointRenouvellement]
    BY <1>19 DEF Resoudre
  <2>2. Neuve(renouvellement[o].paire.m) \in Paire
    BY <1>19, <1>n DEF Resoudre, PointRenouvellement, Paire
  <2>3. stockage' \in [Navigateur -> Paire \cup {Nul}]
    <3>1. Neuve(Neuve(renouvellement[o].paire.m).m) = Neuve(renouvellement[o].paire.m)
      BY DEF Neuve
    <3>2. stockage' = [stockage EXCEPT ![NavigateurDe[o]] = Neuve(renouvellement[o].paire.m)]
      BY <1>19, <3>1 DEF Resoudre, Depose
    <3> QED BY <3>2, <2>2
  <2>4. \A a \in Appel : [appels[a] EXCEPT !.phase = "renvoye",
                                          !.paire = Neuve(renouvellement[o].paire.m)] \in PointAppel
    BY <2>2 DEF PointAppel, Phase
  <2>5. appels' \in [Appel -> PointAppel]
    BY <1>19, <2>4 DEF Resoudre
  <2>6. substitue' \in [Navigateur -> BOOLEAN]
    <3>1. Remplacement(o, AilleursUnAutre(o, Neuve(renouvellement[o].paire.m).m))
      BY <1>19 DEF Resoudre
    <3> QED BY <3>1, RemplacementType, TypesParts DEF AilleursUnAutre
  <2> QED BY <1>19, <2>1, <2>3, <2>5, <2>6, TypesApres DEF Resoudre
<1>20. ASSUME NEW o \in Onglet, Rejeter(o) PROVE Types'
  <2>1. renouvellement' \in [Onglet -> PointRenouvellement] /\ appels' \in [Appel -> PointAppel]
    BY <1>20 DEF Rejeter
  <2>2. stockage' \in [Navigateur -> Paire \cup {Nul}]
    BY <1>20 DEF Rejeter, Vide
  <2>3. ecran' \in [Onglet -> Membre \cup {Nul}]
    BY <1>20 DEF Rejeter
  <2> QED BY <1>20, <2>1, <2>2, <2>3, TypesApres DEF Rejeter
<1>21. ASSUME NEW o \in Onglet, CoupureRenouvellement(o) PROVE Types'
  <2>1. renouvellement' = [renouvellement EXCEPT ![o].etape = "echec"]
        /\ renouvellement[o].etape # "aucune" /\ pannes > 0 /\ pannes' = pannes - 1
    BY <1>21 DEF CoupureRenouvellement, A
  <2>2. [renouvellement[o] EXCEPT !.etape = "echec"] \in PointRenouvellement
    BY <2>1 DEF PointRenouvellement, Etape
  <2>3. renouvellement' \in [Onglet -> PointRenouvellement]
    BY <2>1, <2>2
  <2>4. pannes' \in Nat
    BY <2>1
  <2> QED BY <1>21, <2>3, <2>4, TypesApres DEF CoupureRenouvellement
<1>22. ASSUME NEW n \in Navigateur, AccesExpire(n) PROVE Types'
  <2>1. stockage' \in [Navigateur -> Paire \cup {Nul}]
    BY <1>22 DEF AccesExpire, Paire, Age
  <2> QED BY <1>22, <2>1, TypesApres DEF AccesExpire
<1>r. ASSUME Revocation PROVE /\ revocations' \in Nat /\ rompu' \in BOOLEAN
                              /\ UNCHANGED <<ouverts, ecran, pannes, substitue>>
  BY <1>r DEF Revocation
<1>23. ASSUME NEW n \in Navigateur, NEW l \in Ligne, SessionExpire(n, l) PROVE Types'
  <2>1. stockage' \in [Navigateur -> Paire \cup {Nul}]
    BY <1>23 DEF SessionExpire, Paire, Age
  <2> QED BY <1>23, <2>1, <1>r, TypesApres DEF SessionExpire
<1>24. CASE ReinitialiserMotDePasse
  BY <1>24, <1>r, TypesApres DEF ReinitialiserMotDePasse
<1>25. CASE Bannir
  BY <1>25, <1>r, TypesApres DEF Bannir
<1>26. ASSUME NEW m \in Membre, Retirer(m) PROVE Types'
  BY <1>26, <1>r, TypesApres DEF Retirer
<1>27. CASE Arret
  <2>1. renouvellement' \in [Onglet -> PointRenouvellement]
    BY <1>27 DEF Arret, PointRenouvellement, Etape
  <2>2. appels' \in [Appel -> PointAppel]
    BY <1>27 DEF Arret, PointAppel, Phase
  <2> QED BY <1>27, <2>1, <2>2, <1>r, TypesApres DEF Arret
<1>28. CASE UNCHANGED vars
  BY <1>28, TypesApres DEF vars
<1> QED BY <1>1, <1>2, <1>3, <1>4, <1>5, <1>6, <1>7, <1>8, <1>9, <1>10, <1>11, <1>12, <1>13,
           <1>14, <1>15, <1>16, <1>17, <1>18, <1>19, <1>20, <1>21, <1>22, <1>23, <1>24, <1>25,
           <1>26, <1>27, <1>28, <1>29
           DEF Next, Demande, Suite, SuiteRenouvellement, Autour

(* Every variable keeps its type, and a call or a renewal under way has a  *)
(* pair to go with.                                                        *)
THEOREM ComptesTypeCorrect == Spec => []Types
<1>1. Init => Types
  <2> SUFFICES ASSUME Init PROVE Types
    OBVIOUS
  <2>1. PICK d \in Depart : /\ membres = d.membres /\ ouverts = d.onglets
                            /\ revocations = d.revocations /\ pannes = d.pannes
    BY DEF Init
  <2>2. appels \in [Appel -> PointAppel] /\ renouvellement \in [Onglet -> PointRenouvellement]
    BY DEF Init, Libre, Repos, PointAppel, PointRenouvellement, Quoi, Phase, Etape
  <2>3. PointAppel \subseteq [quoi : Quoi, phase : Phase, paire : Paire \cup {Nul}, ligne : Ligne \cup {Nul}]
        /\ PointRenouvellement \subseteq [etape : Etape, paire : Paire \cup {Nul}, ligne : Ligne \cup {Nul}]
    BY DEF PointAppel, PointRenouvellement
  <2>4. /\ membres \subseteq Membre /\ ouverts \subseteq Onglet
        /\ revocations \in Nat /\ pannes \in Nat
    BY <2>1
  <2>5. lignes \subseteq Ligne /\ stockage \in [Navigateur -> Paire \cup {Nul}]
        /\ ecran \in [Onglet -> Membre \cup {Nul}] /\ substitue \in [Navigateur -> BOOLEAN]
        /\ banni \in BOOLEAN /\ rompu \in BOOLEAN
    BY DEF Init
  <2> QED BY <2>2, <2>3, <2>4, <2>5 DEF Types, TypeOK
<1>2. Types /\ [Next]_vars => Types'
  BY ComptesTypeStep
<1> QED BY <1>1, <1>2, PTL DEF Spec

-----------------------------------------------------------------------------
(* The pair a browser keeps can be renewed *)

(* What is remembered of a session that was ended is not forgotten.        *)
LEMMA RompuReste == ASSUME [Next]_vars PROVE rompu => rompu'
BY DEF Next, Demande, Suite, SuiteRenouvellement, Autour, serveur, bornes, vars,
       Appeler, Recharger, Connecter, Basculer, Deconnecter, Accepte, Refuse401,
       Refuse401Encore, Installer, Partir, ChercherDeconnexion, RevoquerDeconnexion, Effacer,
       Chercher, Revoquer, Creer, Resoudre, Rejeter, CoupureAppel, CoupureReponse,
       CoupureRenouvellement, RenouvelerPourSocket, AccesExpire, SessionExpire,
       ReinitialiserMotDePasse, Bannir, Retirer, Arret, Revocation

(* No action leaves a pair behind a revocation it has not seen.              *)
LEMMA SansRevocationStep == ASSUME Types, SansRevocation, [Next]_vars PROVE SansRevocation'
<1>t. appels \in [Appel -> PointAppel]
  BY DEF Types
<1> SUFFICES ASSUME ~rompu, ~rompu'
             PROVE  \A b \in Appel : /\ appels'[b].ligne = Nul
                                     /\ appels'[b].phase \notin {"chercher", "revoquer", "effacer"}
  BY RompuReste DEF SansRevocation
<1>h. \A b \in Appel : /\ appels[b].ligne = Nul
                       /\ appels[b].phase \notin {"chercher", "revoquer", "effacer"}
  BY DEF SansRevocation
<1> DEFINE But == \A b \in Appel : /\ appels'[b].ligne = Nul
                                  /\ appels'[b].phase \notin {"chercher", "revoquer", "effacer"}
<1>e. ASSUME NEW a \in Appel, NEW quoi, NEW phase, NEW p, En(a, quoi, phase, p),
             phase \notin {"chercher", "revoquer", "effacer"}
      PROVE  But
  BY <1>t, <1>h, <1>e DEF En
<1>f. ASSUME NEW a \in Appel, Finir(a) PROVE But
  BY <1>t, <1>h, <1>f DEF Finir, Libre
<1>s. ASSUME NEW a \in Appel, NEW quoi, NEW p, Seul(a, quoi, "envoye", p) PROVE But
  BY <1>t, <1>h, <1>s DEF Seul, Libre
<1>u. ASSUME UNCHANGED appels PROVE But
  BY <1>h, <1>u
<1> HIDE DEF But
<1>1. ASSUME NEW a \in Appel, Appeler(a) PROVE But
  BY <1>1, <1>e DEF Appeler
<1>2. ASSUME NEW a \in Appel, Recharger(a) PROVE But
  BY <1>2, <1>s DEF Recharger
<1>3. ASSUME NEW a \in Appel, NEW m \in Membre, Connecter(a, m) PROVE But
  BY <1>3, <1>e DEF Connecter
<1>4. ASSUME NEW a \in Appel, Basculer(a) PROVE But
  BY <1>4, <1>e DEF Basculer
<1>5. ASSUME NEW a \in Appel, Deconnecter(a) PROVE FALSE
  BY <1>5 DEF Deconnecter
<1>6. ASSUME NEW a \in Appel, Accepte(a) PROVE But
  BY <1>6, <1>e, <1>f DEF Accepte
<1>7. ASSUME NEW a \in Appel, Refuse401(a) PROVE But
  BY <1>7, <1>t, <1>h DEF Refuse401, But
<1>8. ASSUME NEW a \in Appel, Refuse401Encore(a) \/ CoupureAppel(a) \/ CoupureReponse(a) PROVE But
  BY <1>8, <1>f DEF Refuse401Encore, CoupureAppel, CoupureReponse
<1>9. ASSUME NEW a \in Appel, Installer(a) PROVE But
  BY <1>9, <1>e DEF Installer, ApresBascule, ApresConnexion
<1>17. ASSUME NEW a \in Appel, Partir(a) PROVE But
  BY <1>17, <1>s DEF Partir
<1>10. ASSUME NEW a \in Appel, ChercherDeconnexion(a) \/ RevoquerDeconnexion(a) \/ Effacer(a) PROVE FALSE
  BY <1>10, <1>h DEF ChercherDeconnexion, RevoquerDeconnexion, Effacer
<1>11. ASSUME NEW o \in Onglet, Chercher(o) \/ Revoquer(o) \/ Creer(o) \/ CoupureRenouvellement(o)
                                \/ RenouvelerPourSocket(o)
       PROVE  But
  BY <1>11, <1>u DEF Chercher, Revoquer, Creer, CoupureRenouvellement, RenouvelerPourSocket
<1>12. ASSUME NEW o \in Onglet, Resoudre(o) PROVE But
  <2>1. ASSUME NEW b \in Appel
        PROVE  /\ appels'[b].ligne = appels[b].ligne
               /\ appels'[b].phase = appels[b].phase \/ appels'[b].phase = "renvoye"
    <3>1. appels[b] \in PointAppel
      BY <1>t
    <3>2. appels'[b] = IF b \in Attendants(o)
                       THEN [appels[b] EXCEPT !.phase = "renvoye", !.paire = Neuve(renouvellement[o].paire.m)]
                       ELSE appels[b]
      BY <1>12 DEF Resoudre
    <3> QED BY <3>1, <3>2 DEF PointAppel
  <2> QED BY <2>1, <1>h DEF But
<1>13. ASSUME NEW o \in Onglet, Rejeter(o) PROVE But
  BY <1>13, <1>t, <1>h DEF Rejeter, But, Libre
<1>14. ASSUME NEW n \in Navigateur, AccesExpire(n) PROVE But
  BY <1>14, <1>u DEF AccesExpire
<1>15. ASSUME \/ \E n \in Navigateur, l \in Ligne : SessionExpire(n, l)
              \/ ReinitialiserMotDePasse \/ Bannir \/ Arret
              \/ \E m \in Membre : Retirer(m)
       PROVE  FALSE
  BY <1>15 DEF SessionExpire, ReinitialiserMotDePasse, Bannir, Retirer, Arret, Revocation
<1>16. CASE UNCHANGED vars
  <2>1. appels' = appels
    BY <1>16 DEF vars
  <2> QED BY <2>1, <1>h DEF But
<1> QED BY <1>1, <1>2, <1>3, <1>4, <1>5, <1>6, <1>7, <1>8, <1>9, <1>10, <1>11, <1>12, <1>13,
           <1>14, <1>15, <1>16, <1>17
           DEF Next, Demande, Suite, SuiteRenouvellement, Autour, But

(* Every action keeps the rows to the person they were issued to.            *)
LEMMA LignesPropresStep == ASSUME Types, LignesPropres, [Next]_vars PROVE LignesPropres'
<1>t. renouvellement \in [Onglet -> PointRenouvellement]
  BY DEF Types
<1> USE DEF LignesPropres
<1>u. ASSUME UNCHANGED renouvellement PROVE LignesPropres'
  BY <1>u
<1>c. ASSUME NEW o \in Onglet,
             \A q \in Onglet \ {o} : renouvellement'[q] = renouvellement[q],
             renouvellement'[o].ligne = Nul
      PROVE  LignesPropres'
  BY <1>c
<1>1. ASSUME NEW a \in Appel, Demande(a), ~Recharger(a) PROVE LignesPropres'
  BY <1>1, <1>u DEF Demande, Appeler, Connecter, Basculer, Deconnecter
<1>r. ASSUME NEW o \in Onglet, renouvellement' = [renouvellement EXCEPT ![o] = Repos]
      PROVE  LignesPropres'
  BY <1>r, <1>c, <1>t DEF Repos
<1>2. ASSUME NEW a \in Appel, Recharger(a) \/ Partir(a) PROVE LignesPropres'
  BY <1>2, <1>r, TypesParts DEF Recharger, Partir
<1>3. ASSUME NEW a \in Appel, Refuse401(a) PROVE LignesPropres'
  BY <1>3, <1>t, <1>u, <1>c, TypesParts DEF Refuse401
<1>4. ASSUME NEW a \in Appel, \/ Accepte(a) \/ Refuse401Encore(a) \/ ChercherDeconnexion(a)
                              \/ RevoquerDeconnexion(a) \/ Effacer(a) \/ CoupureAppel(a)
                              \/ CoupureReponse(a) \/ Installer(a)
      PROVE  LignesPropres'
  BY <1>4, <1>u DEF Installer, Accepte, Refuse401Encore, ChercherDeconnexion, RevoquerDeconnexion,
       Effacer,
                    CoupureAppel, CoupureReponse
<1>5. ASSUME NEW o \in Onglet, Chercher(o) PROVE LignesPropres'
  <2>1. ASSUME NEW l \in LignesDe(renouvellement[o].paire.m),
               renouvellement' = [renouvellement EXCEPT ![o].etape = "revoquer", ![o].ligne = l]
        PROVE  LignesPropres'
    BY <2>1, <1>t DEF LignesDe, PointRenouvellement
  <2>2. CASE A(o, "echec")
    <3>1. renouvellement[o].ligne = Nul
      BY <1>5 DEF Chercher
    <3>2. /\ \A q \in Onglet \ {o} : renouvellement'[q] = renouvellement[q]
          /\ renouvellement'[o].ligne = Nul
      BY <2>2, <3>1, <1>t DEF A, PointRenouvellement
    <3> QED BY <3>2, <1>c
  <2> QED BY <1>5, <2>1, <2>2 DEF Chercher
<1>6. ASSUME NEW o \in Onglet, Revoquer(o) PROVE LignesPropres'
  BY <1>6, <1>t, <1>c DEF Revoquer, PointRenouvellement
<1>7. ASSUME NEW o \in Onglet, A(o, "echec") \/ A(o, "reponse"), renouvellement[o].etape # "revoquer"
      PROVE  LignesPropres'
  BY <1>7, <1>t, <1>c DEF A, PointRenouvellement
<1>8. ASSUME NEW o \in Onglet, Creer(o) PROVE LignesPropres'
  <2>1. A(o, "echec") \/ A(o, "reponse")
    BY <1>8 DEF Creer
  <2>2. renouvellement[o].etape # "revoquer"
    BY <1>8 DEF Creer
  <2> QED BY <2>1, <2>2, <1>7
<1>9. ASSUME NEW o \in Onglet, CoupureRenouvellement(o) PROVE LignesPropres'
  BY <1>9, <1>7 DEF CoupureRenouvellement
<1>10. ASSUME NEW o \in Onglet, Resoudre(o) \/ Rejeter(o) PROVE LignesPropres'
  BY <1>10, <1>r DEF Resoudre, Rejeter
<1>11. ASSUME NEW o \in Onglet, RenouvelerPourSocket(o) PROVE LignesPropres'
  BY <1>11, <1>t, <1>c DEF RenouvelerPourSocket
<1>12. CASE Arret
  <2>1. ASSUME NEW o \in Onglet
        PROVE  renouvellement'[o].ligne = Nul \/ renouvellement'[o] = renouvellement[o]
    <3>1. renouvellement[o] \in PointRenouvellement
      BY <1>t
    <3>2. renouvellement'[o] = IF renouvellement[o].etape \in {"revoquer", "creer"}
                               THEN [renouvellement[o] EXCEPT !.etape = "echec", !.ligne = Nul]
                               ELSE renouvellement[o]
      BY <1>12 DEF Arret
    <3> QED BY <3>1, <3>2 DEF PointRenouvellement
  <2> QED BY <2>1
<1>13. ASSUME \/ \E n \in Navigateur : AccesExpire(n)
              \/ \E n \in Navigateur, l \in Ligne : SessionExpire(n, l)
              \/ ReinitialiserMotDePasse \/ Bannir
              \/ \E m \in Membre : Retirer(m)
              \/ UNCHANGED vars
       PROVE  LignesPropres'
  BY <1>13, <1>u DEF AccesExpire, SessionExpire, ReinitialiserMotDePasse, Bannir, Retirer,
       vars
<1> QED BY <1>1, <1>2, <1>3, <1>4, <1>5, <1>6, <1>8, <1>9, <1>10, <1>11, <1>12, <1>13
           DEF Next, Demande, Suite, SuiteRenouvellement, Autour

(* Whoever is given a pair can renew it: either the row is live, or all    *)
(* the rows told apart are taken, one of them by a renewal.                *)
LEMMA LigneDonnee ==
    ASSUME Types, SansRevocation, LignesPropres, ~rompu, NEW m \in Membre
    PROVE  /\ lignes \subseteq LignesAvec(m)
           /\ \/ \E l \in LignesAvec(m) : l[1] = m
              \/ \E o \in Onglet : /\ renouvellement[o].etape = "revoquer"
                                   /\ renouvellement[o].paire.m = m
<1>1. lignes \subseteq LignesAvec(m)
  BY LignesAvecEffet
<1>2. ASSUME NEW k \in 1..MaxLignes, LignesAvec(m) = lignes \cup {<<m, k>>}
      PROVE  \E l \in LignesAvec(m) : l[1] = m
  <2>1. <<m, k>>[1] = m
    OBVIOUS
  <2> QED BY <1>2, <2>1, Zenon
<1>3. CASE LignesAvec(m) = lignes /\ \A k \in 1..MaxLignes : <<m, k>> \in lignes \cup Designees
  <2>1. 1 \in 1..MaxLignes
    OBVIOUS
  <2>2. <<m, 1>> \in lignes \/ <<m, 1>> \in Designees
    BY <1>3, <2>1
  <2>3. CASE <<m, 1>> \in lignes
    BY <1>3, <2>3
  <2>4. CASE <<m, 1>> \in Designees
    <3>1. <<m, 1>> # Nul
      BY <2>1
    <3>2. \A a \in Appel : appels[a].ligne = Nul
      BY DEF SansRevocation
    <3>3. PICK o \in Onglet : renouvellement[o].ligne = <<m, 1>>
      BY <2>4, <3>1, <3>2 DEF Designees
    <3>4. /\ renouvellement[o].etape = "revoquer"
          /\ renouvellement[o].ligne[1] = renouvellement[o].paire.m
      BY <3>1, <3>3 DEF LignesPropres
    <3>5. renouvellement[o].ligne[1] = m
      <4>1. <<m, 1>>[1] = m
        OBVIOUS
      <4> QED BY <4>1, <3>3, Zenon
    <3>6. renouvellement[o].etape = "revoquer" /\ renouvellement[o].paire.m = m
      BY <3>4, <3>5
    <3> QED BY <1>1, <3>6, Zenon
  <2> QED BY <2>2, <2>3, <2>4
<1> QED BY <1>1, <1>2, <1>3, LignesAvecEffet

(* Every action leaves a tab a row it can renew with, or nothing.            *)
LEMMA RenouvelablesStep ==
    ASSUME Types, SansRevocation, LignesPropres, Renouvelables, [Next]_vars
    PROVE  Renouvelables'
<1>t. appels \in [Appel -> PointAppel] /\ renouvellement \in [Onglet -> PointRenouvellement]
  BY DEF Types
<1> DEFINE Sauf(m) == LignesDe(m) # {} \/ Remplace(m)
<1> DEFINE But == \A m \in Membre : Porte(m)' => m \in membres' /\ Sauf(m)'
<1> SUFFICES ASSUME ~rompu, ~rompu' PROVE But
  BY RompuReste DEF Renouvelables
<1>h. \A m \in Membre : Porte(m) => m \in membres /\ Sauf(m)
  BY DEF Renouvelables
(* Nothing is revoked: only what is newly in use has to be looked at. *)
<1>c. ASSUME membres' = membres, lignes \subseteq lignes', \A m \in Membre : Remplace(m) => Sauf(m)',
             \A m \in Membre : Porte(m)' => Porte(m) \/ (m \in membres /\ Sauf(m)')
      PROVE  But
  <2>1. \A m \in Membre : LignesDe(m) # {} => LignesDe(m)' # {}
    BY <1>c DEF LignesDe
  <2> QED BY <1>c, <1>h, <2>1
<1>d. ASSUME UNCHANGED <<lignes, membres, renouvellement>>,
             \A m \in Membre : Porte(m)' => Porte(m)
      PROVE  But
  <2>1. \A m \in Membre : Remplace(m) => Remplace(m)'
    BY <1>d DEF Remplace
  <2> QED BY <1>d, <2>1, <1>c
<1> HIDE DEF But, Sauf
(* A call that takes the browser's pair, or ends. *)
<1>e. ASSUME NEW a \in Appel, NEW quoi, NEW phase, En(a, quoi, phase, stockage[Nav(a)]),
             stockage[Nav(a)] # Nul, UNCHANGED <<stockage, renouvellement>>
      PROVE  \A m \in Membre : Porte(m)' => Porte(m)
  BY <1>e, <1>t, TypesParts DEF En, Porte, Renouvelle
<1>f. ASSUME NEW a \in Appel, Finir(a), UNCHANGED renouvellement,
             \A n \in Navigateur : stockage'[n] = stockage[n] \/ stockage'[n] = Nul
      PROVE  \A m \in Membre : Porte(m)' => Porte(m)
  <2>1. \A b \in Appel : appels'[b].phase # "libre" => appels'[b] = appels[b]
    BY <1>f, <1>t DEF Finir, Libre
  <2> QED BY <2>1, <1>f DEF Porte, Renouvelle
<1>1. ASSUME NEW a \in Appel, Appeler(a) \/ Basculer(a) PROVE But
  BY <1>1, <1>d, <1>e DEF Appeler, Basculer, serveur
<1>2. ASSUME NEW o \in Onglet, renouvellement[o].etape \notin {"revoquer", "creer"},
             renouvellement' = [renouvellement EXCEPT ![o] = Repos]
      PROVE  \A m \in Membre : /\ Remplace(m) => Remplace(m)'
                               /\ (\E q \in Onglet : Renouvelle(q)' /\ renouvellement'[q].paire.m = m)
                                     => \E q \in Onglet : Renouvelle(q) /\ renouvellement[q].paire.m = m
  <2>1. \A q \in Onglet : Renouvelle(q)' => renouvellement'[q] = renouvellement[q]
    BY <1>2, <1>t DEF Renouvelle, Repos
  <2>2. \A q \in Onglet : renouvellement[q].etape \in {"revoquer", "creer"}
                             => renouvellement'[q] = renouvellement[q]
    BY <1>2, <1>t
  <2> QED BY <2>1, <2>2 DEF Remplace, Renouvelle
<1>s. ASSUME NEW a \in Appel, NEW quoi, NEW p, Seul(a, quoi, "envoye", p)
      PROVE  \A b \in Appel : appels'[b].phase # "libre" =>
                appels'[b] = appels[b] \/ (p # Nul /\ appels'[b].paire = p)
  BY <1>s, <1>t DEF Seul, Libre
<1>3. ASSUME NEW a \in Appel, Recharger(a) \/ Partir(a) PROVE But
  <2>1. \A b \in Appel : appels'[b].phase # "libre" =>
            appels'[b] = appels[b] \/ (stockage[Nav(a)] # Nul /\ appels'[b].paire = stockage[Nav(a)])
    BY <1>3, <1>s DEF Recharger, Partir
  <2>2. /\ renouvellement[OngletDe[a]].etape \notin {"revoquer", "creer"}
        /\ renouvellement' = [renouvellement EXCEPT ![OngletDe[a]] = Repos]
        /\ UNCHANGED <<lignes, membres, stockage>>
    BY <1>3 DEF Recharger, Partir, SansServeur, serveur
  <2>3. \A m \in Membre : Porte(m)' => Porte(m)
    BY <2>1, <2>2, <1>2, TypesParts DEF Porte
  <2>4. \A m \in Membre : Remplace(m) => Sauf(m)'
    BY <2>2, <1>2, TypesParts DEF Sauf
  <2> QED BY <2>2, <2>3, <2>4, <1>c
<1>4. ASSUME NEW a \in Appel, NEW m \in membres, NEW quoi,
             lignes' = LignesAvec(m), En(a, quoi, "recu", Neuve(m)),
             UNCHANGED <<membres, stockage, renouvellement>>
      PROVE  But
  <2>1. m \in Membre
    BY TypesParts
  <2>2. Sauf(m)'
    BY <1>4, <2>1, LigneDonnee DEF Sauf, LignesDe, Remplace
  <2>3. \A b \in Appel : appels'[b] = appels[b] \/ appels'[b].paire = Neuve(m)
    BY <1>4, <1>t DEF En
  <2>4. \A k \in Membre : Porte(k)' => Porte(k) \/ k = m
    BY <1>4, <2>3 DEF Porte, Renouvelle, Neuve
  <2>5. \A k \in Membre : Remplace(k) => Sauf(k)'
    BY <1>4 DEF Remplace, Sauf
  <2> QED BY <1>4, <2>1, <2>2, <2>4, <2>5, <1>c, LigneDonnee
<1>5. ASSUME NEW a \in Appel, NEW m \in Membre, Connecter(a, m) PROVE But
  BY <1>5, <1>4 DEF Connecter
<1>6. ASSUME NEW a \in Appel, Deconnecter(a) PROVE FALSE
  BY <1>6 DEF Deconnecter
<1>m. ASSUME NEW a \in Appel, MoiEchoue(a)
      PROVE  \A n \in Navigateur : stockage'[n] = stockage[n] \/ stockage'[n] = Nul
  BY <1>m, TypesParts DEF MoiEchoue, Vide
<1>7. ASSUME NEW a \in Appel, Accepte(a) PROVE But
  <2>u. UNCHANGED <<membres, renouvellement>>
    BY <1>7 DEF Accepte
  <2>1. CASE Finir(a) /\ UNCHANGED <<lignes, stockage>>
    BY <2>1, <2>u, <1>f, <1>d
  <2>2. CASE Finir(a) /\ UNCHANGED lignes /\ MoiEchoue(a)
    BY <2>2, <2>u, <1>f, <1>d, <1>m
  <2>3. ASSUME NEW m \in membres, lignes' = LignesAvec(m), En(a, "bascule", "recu", Neuve(m)),
               UNCHANGED stockage
        PROVE  But
    BY <2>3, <2>u, <1>4
  <2> QED BY <1>7, <2>1, <2>2, <2>3 DEF Accepte
<1>8. ASSUME NEW a \in Appel, Refuse401(a) PROVE But
  <2>1. \A b \in Appel : appels'[b].phase \in {"envoye", "renvoye", "recu"} => appels'[b] = appels[b]
    BY <1>8, <1>t DEF Refuse401, PointAppel
  <2>2. /\ UNCHANGED <<lignes, membres, stockage>> /\ appels[a].phase = "envoye"
    BY <1>8 DEF Refuse401, serveur
  <2>3. \A q \in Onglet : renouvellement'[q] = renouvellement[q] \/ q = OngletDe[a]
    BY <1>8, <1>t DEF Refuse401
  <2>4. CASE Renouvelle(OngletDe[a])
    <3>1. renouvellement' = renouvellement
      BY <1>8, <2>4 DEF Refuse401
    <3>2. \A m \in Membre : Porte(m)' => Porte(m)
      BY <2>1, <2>2, <3>1 DEF Porte, Renouvelle
    <3> QED BY <2>2, <3>1, <3>2, <1>d
  <2>5. CASE ~Renouvelle(OngletDe[a])
    <3>1. renouvellement' = [renouvellement EXCEPT ![OngletDe[a]] =
              [etape |-> "chercher", paire |-> appels[a].paire, ligne |-> Nul]]
      BY <1>8, <2>5 DEF Refuse401
    <3>2. renouvellement'[OngletDe[a]].paire = appels[a].paire
      BY <3>1, <1>t, TypesParts
    <3>3. \A m \in Membre : Porte(m)' => Porte(m)
      BY <2>1, <2>2, <2>3, <3>2 DEF Porte, Renouvelle
    <3>4. \A m \in Membre : Remplace(m) => Sauf(m)'
      BY <2>3, <2>5 DEF Remplace, Renouvelle, Sauf
    <3> QED BY <2>2, <3>3, <3>4, <1>c
  <2> QED BY <2>4, <2>5
<1>9. ASSUME NEW a \in Appel, Refuse401Encore(a) \/ CoupureAppel(a) \/ CoupureReponse(a) PROVE But
  <2>1. /\ Finir(a) /\ UNCHANGED <<lignes, membres, renouvellement>>
        /\ UNCHANGED stockage \/ MoiEchoue(a) \/ Vide(Nav(a))
    BY <1>9 DEF Refuse401Encore, CoupureAppel, CoupureReponse, serveur
  <2>2. \A n \in Navigateur : stockage'[n] = stockage[n] \/ stockage'[n] = Nul
    BY <2>1, <1>m, TypesParts DEF Vide
  <2> QED BY <2>1, <2>2, <1>f, <1>d
<1>10. ASSUME NEW a \in Appel, Installer(a) PROVE But
  <2>1. /\ appels[a].phase = "recu" /\ UNCHANGED <<lignes, membres>>
        /\ stockage' = [stockage EXCEPT ![Nav(a)] = Neuve(appels[a].paire.m)]
    BY <1>10 DEF Installer, Depose, serveur
  <2>2. \A n \in Navigateur : stockage'[n] = stockage[n] \/ stockage'[n].m = appels[a].paire.m
    BY <2>1, TypesParts DEF Neuve
  <2>3. \A b \in Appel : \/ appels'[b] = appels[b] \/ appels'[b].phase = "quitte"
                         \/ appels'[b].paire = appels[a].paire
    BY <1>10, <1>t DEF Installer, ApresBascule, ApresConnexion, En
  <2>4. UNCHANGED renouvellement
    BY <1>10 DEF Installer
  <2>5. \A m \in Membre : Porte(m)' => Porte(m)
    BY <2>1, <2>2, <2>3, <2>4 DEF Porte, Renouvelle
  <2> QED BY <2>1, <2>4, <2>5, <1>d
<1>11. ASSUME NEW a \in Appel, ChercherDeconnexion(a) \/ RevoquerDeconnexion(a) \/ Effacer(a) PROVE FALSE
  BY <1>11 DEF ChercherDeconnexion, RevoquerDeconnexion, Effacer, SansRevocation
(* A renewal that goes on, by the same pair. *)
<1>g. ASSUME NEW o \in Onglet, Renouvelle(o),
             \A q \in Onglet \ {o} : renouvellement'[q] = renouvellement[q],
             renouvellement'[o].paire = renouvellement[o].paire, UNCHANGED <<stockage, appels>>
      PROVE  \A m \in Membre : Porte(m)' => Porte(m)
  BY <1>g DEF Porte, Renouvelle
<1>12. ASSUME NEW o \in Onglet, Chercher(o) \/ CoupureRenouvellement(o) PROVE But
  <2>1. /\ UNCHANGED <<lignes, membres, stockage, appels>>
        /\ renouvellement[o].etape \in {"chercher", "reponse"}
    BY <1>12 DEF Chercher, CoupureRenouvellement, serveur
  <2>2. /\ \A q \in Onglet \ {o} : renouvellement'[q] = renouvellement[q]
        /\ renouvellement'[o].paire = renouvellement[o].paire
    BY <1>12, <1>t DEF Chercher, CoupureRenouvellement, A, PointRenouvellement
  <2>3. \A m \in Membre : Remplace(m) => Sauf(m)'
    BY <2>1, <2>2 DEF Remplace, Sauf
  <2> QED BY <2>1, <2>2, <2>3, <1>c, <1>g DEF Renouvelle
<1>13. ASSUME NEW o \in Onglet, Revoquer(o) PROVE But
  <2>1. /\ UNCHANGED <<membres, stockage, appels>> /\ renouvellement[o].etape = "revoquer"
        /\ lignes' = lignes \ {renouvellement[o].ligne}
    BY <1>13 DEF Revoquer
  <2>2. /\ \A q \in Onglet \ {o} : renouvellement'[q] = renouvellement[q]
        /\ renouvellement'[o].paire = renouvellement[o].paire
        /\ renouvellement'[o].etape = "creer"
    BY <1>13, <1>t DEF Revoquer, PointRenouvellement
  <2>3. \A m \in Membre : Porte(m)' => Porte(m)
    BY <2>1, <2>2, <1>g DEF Renouvelle
  <2>4. \A m \in Membre : Remplace(m) => Remplace(m)'
    BY <2>1, <2>2 DEF Remplace
  <2>5. ASSUME NEW m \in Membre, LignesDe(m) # {} PROVE Sauf(m)'
    <3>1. CASE renouvellement[o].paire.m = m
      BY <2>2, <3>1 DEF Sauf, Remplace
    <3>2. CASE renouvellement[o].paire.m # m
      <4>1. PICK l \in lignes : l[1] = m
        BY <2>5 DEF LignesDe
      <4>2. l # Nul
        BY <4>1, TypesParts DEF Ligne
      <4>3. l # renouvellement[o].ligne
        BY <4>1, <4>2, <3>2 DEF LignesPropres
      <4> QED BY <4>1, <4>3, <2>1 DEF Sauf, LignesDe
    <3> QED BY <3>1, <3>2
  <2> QED BY <2>1, <2>3, <2>4, <2>5, <1>h DEF But, Sauf
<1>14. ASSUME NEW o \in Onglet, Creer(o) PROVE But
  <2>k. PICK k : k = renouvellement[o].paire.m
    OBVIOUS
  <2>1. /\ UNCHANGED <<membres, stockage, appels>> /\ renouvellement[o].etape = "creer"
        /\ lignes' = IF k \in membres THEN LignesAvec(k) ELSE lignes
    BY <1>14, <2>k DEF Creer, LignesRenouvelees
  <2>2. /\ \A q \in Onglet \ {o} : renouvellement'[q] = renouvellement[q]
        /\ renouvellement'[o].paire = renouvellement[o].paire
    BY <1>14, <1>t DEF Creer, A, PointRenouvellement
  <2>3. k \in Membre /\ Porte(k)
    BY <2>k, <2>1, <1>t DEF PointRenouvellement, Paire, Porte, Renouvelle
  <2>4. lignes' = LignesAvec(k)
    BY <2>1, <2>3, <1>h
  <2>5. \A m \in Membre : Porte(m)' => Porte(m)
    BY <2>1, <2>2, <1>g DEF Renouvelle
  <2>6. Sauf(k)'
    <3>1. CASE \E l \in LignesAvec(k) : l[1] = k
      BY <3>1, <2>4 DEF Sauf, LignesDe
    <3>2. CASE \E q \in Onglet : renouvellement[q].etape = "revoquer" /\ renouvellement[q].paire.m = k
      BY <3>2, <2>1, <2>2 DEF Sauf, Remplace
    <3> QED BY <3>1, <3>2, <2>3, LigneDonnee
  <2>7. \A m \in Membre : Remplace(m) => Sauf(m)'
    <3>1. \A m \in Membre : m # k /\ Remplace(m) => Remplace(m)'
      BY <2>k, <2>2 DEF Remplace
    <3> QED BY <3>1, <2>6 DEF Sauf
  <2> QED BY <2>1, <2>3, <2>4, <2>5, <2>7, <1>c, LigneDonnee
<1>15. ASSUME NEW o \in Onglet, Resoudre(o) PROVE But
  <2> DEFINE k == renouvellement[o].paire.m
  <2>1. /\ renouvellement[o].etape = "reponse" /\ UNCHANGED <<lignes, membres>>
        /\ renouvellement' = [renouvellement EXCEPT ![o] = Repos]
    BY <1>15 DEF Resoudre, serveur
  <2>2. \A n \in Navigateur : stockage'[n] = stockage[n] \/ stockage'[n].m = k
    BY <1>15, TypesParts DEF Resoudre, Depose, Neuve
  <2>3. \A b \in Appel : appels'[b] = appels[b] \/ appels'[b].paire.m = k
    <3>1. \A b \in Appel : appels'[b] = IF b \in Attendants(o)
                         THEN [appels[b] EXCEPT !.phase = "renvoye", !.paire = Neuve(k)]
                         ELSE appels[b]
      BY <1>15 DEF Resoudre
    <3>2. \A b \in Appel : [appels[b] EXCEPT !.phase = "renvoye", !.paire = Neuve(k)].paire.m = k
      BY <1>t DEF PointAppel, Neuve
    <3> QED BY <3>1, <3>2
  <2>4. renouvellement[o].etape \notin {"revoquer", "creer"} /\ Renouvelle(o)
    BY <2>1 DEF Renouvelle
  <2>5. \A m \in Membre : Porte(m)' => Porte(m)
    BY <2>1, <2>2, <2>3, <2>4, <1>2 DEF Porte
  <2>6. \A m \in Membre : Remplace(m) => Sauf(m)'
    BY <2>1, <2>4, <1>2 DEF Sauf
  <2> QED BY <2>1, <2>5, <2>6, <1>c
<1>16. ASSUME NEW o \in Onglet, Rejeter(o) PROVE But
  <2>1. /\ renouvellement[o].etape = "echec" /\ UNCHANGED <<lignes, membres>>
        /\ renouvellement' = [renouvellement EXCEPT ![o] = Repos]
    BY <1>16 DEF Rejeter, serveur
  <2>2. \A n \in Navigateur : stockage'[n] = stockage[n] \/ stockage'[n] = Nul
    BY <1>16, TypesParts DEF Rejeter, Vide
  <2>3. \A b \in Appel : appels'[b].phase # "libre" => appels'[b] = appels[b]
    BY <1>16 DEF Rejeter, Libre
  <2>4. renouvellement[o].etape \notin {"revoquer", "creer"}
    BY <2>1
  <2>5. \A m \in Membre : Porte(m)' => Porte(m)
    BY <2>1, <2>2, <2>3, <2>4, <1>2 DEF Porte
  <2>6. \A m \in Membre : Remplace(m) => Sauf(m)'
    BY <2>1, <2>4, <1>2 DEF Sauf
  <2> QED BY <2>1, <2>5, <2>6, <1>c
<1>17. ASSUME NEW o \in Onglet, RenouvelerPourSocket(o) PROVE But
  <2>1. /\ UNCHANGED <<lignes, membres, stockage, appels>> /\ ~Renouvelle(o)
        /\ stockage[NavigateurDe[o]] # Nul
        /\ \A q \in Onglet \ {o} : renouvellement'[q] = renouvellement[q]
        /\ renouvellement'[o].paire = stockage[NavigateurDe[o]]
    BY <1>17, <1>t DEF RenouvelerPourSocket, serveur
  <2>2. \A m \in Membre : Porte(m)' => Porte(m)
    BY <2>1, TypesParts DEF Porte, Renouvelle
  <2>3. \A m \in Membre : Remplace(m) => Sauf(m)'
    BY <2>1 DEF Remplace, Sauf, Renouvelle
  <2> QED BY <2>1, <2>2, <2>3, <1>c
<1>18. ASSUME NEW n \in Navigateur, AccesExpire(n) PROVE But
  <2>1. UNCHANGED <<lignes, membres, appels, renouvellement>>
    BY <1>18 DEF AccesExpire, serveur
  <2>2. \A q \in Navigateur : stockage'[q] # Nul => stockage[q] # Nul /\ stockage'[q].m = stockage[q].m
    BY <1>18, TypesParts DEF AccesExpire, Paire
  <2>3. \A m \in Membre : Porte(m)' => Porte(m)
    BY <2>1, <2>2 DEF Porte, Renouvelle
  <2> QED BY <2>1, <2>3, <1>d
<1>19. ASSUME \/ \E n \in Navigateur, l \in Ligne : SessionExpire(n, l)
              \/ ReinitialiserMotDePasse \/ Bannir \/ Arret
              \/ \E m \in Membre : Retirer(m)
       PROVE  FALSE
  BY <1>19 DEF SessionExpire, ReinitialiserMotDePasse, Bannir, Retirer, Arret, Revocation
<1>20. CASE UNCHANGED vars
  <2>1. UNCHANGED <<lignes, membres, appels, renouvellement, stockage>>
    BY <1>20 DEF vars
  <2>2. \A m \in Membre : Porte(m)' => Porte(m)
    BY <2>1 DEF Porte, Renouvelle
  <2> QED BY <2>1, <2>2, <1>d
<1> QED BY <1>1, <1>3, <1>5, <1>6, <1>7, <1>8, <1>9, <1>10, <1>11, <1>12, <1>13, <1>14,
     <1>15,
           <1>16, <1>17, <1>18, <1>19, <1>20
           DEF Next, Demande, Suite, SuiteRenouvellement, Autour

(* As long as no session was ended on purpose, the pair a browser keeps    *)
(* can be renewed, however its tabs, other devices and lost answers revoke *)
(* each other's rows.                                                      *)
THEOREM PaireUtilisableCorrect == Spec => []PaireUtilisable
<1>1. Init => SansRevocation /\ LignesPropres /\ Renouvelables
  BY DEF Init, SansRevocation, LignesPropres, Renouvelables, Porte, Libre, Repos, Renouvelle
<1>2. Types /\ SansRevocation /\ LignesPropres /\ Renouvelables /\ [Next]_vars
        => SansRevocation' /\ LignesPropres' /\ Renouvelables'
  BY SansRevocationStep, LignesPropresStep, RenouvelablesStep
<1>3. Types /\ Renouvelables => PaireUtilisable
  <2> SUFFICES ASSUME Types, Renouvelables, NEW n \in Navigateur, stockage[n] # Nul, ~rompu,
                      ~EnRenouvellement(stockage[n].m)
               PROVE  LignesDe(stockage[n].m) # {}
    BY DEF PaireUtilisable
  <2>1. stockage[n].m \in Membre /\ Porte(stockage[n].m)
    BY TypesParts DEF Paire, Porte
  <2>2. ~Remplace(stockage[n].m)
    BY DEF Remplace, EnRenouvellement, Renouvelle
  <2> QED BY <2>1, <2>2 DEF Renouvelables
<1> QED BY <1>1, <1>2, <1>3, ComptesTypeCorrect, PTL DEF Spec

-----------------------------------------------------------------------------
(* A tab acts in the organisation it shows *)

(* A step that leaves alone what a tab has in hand and shows.              *)
LEMMA OngletInchange ==
    ASSUME NEW o \in Onglet, NEW m,
           \A b \in AppelsDe(o) : appels'[b] = appels[b],
           ecran'[o] = ecran[o], renouvellement'[o] = renouvellement[o]
    PROVE  /\ Quittee(o) => Quittee(o)'
           /\ Suit(o, m) => Suit(o, m)'
<1>1. AppelsDe(o)' = AppelsDe(o)
  BY DEF AppelsDe
<1> QED BY <1>1 DEF Quittee, Suit, VaAvec, SeDemande, Renouvelle

(* A call does nothing to the other tabs, except through what is stored.   *)
LEMMA AutreOnglet ==
    ASSUME Types, NEW a \in Appel, NEW o \in Onglet, OngletDe[a] # o,
           \/ Demande(a) \/ Suite(a) \/ Partir(a) \/ CoupureAppel(a) \/ CoupureReponse(a)
    PROVE  /\ \A b \in AppelsDe(o) : appels'[b] = appels[b]
           /\ ecran'[o] = ecran[o] /\ renouvellement'[o] = renouvellement[o]
<1>t. /\ appels \in [Appel -> PointAppel] /\ renouvellement \in [Onglet -> PointRenouvellement]
      /\ ecran \in [Onglet -> Membre \cup {Nul}] /\ OngletDe[a] \in Onglet
  BY TypesParts DEF Types
<1>n. \A b \in AppelsDe(o) : b \in Appel /\ b # a /\ OngletDe[b] # OngletDe[a]
  BY DEF AppelsDe
<1>e. ASSUME NEW quoi, NEW phase, NEW p, En(a, quoi, phase, p)
      PROVE  \A b \in AppelsDe(o) : appels'[b] = appels[b]
  BY <1>e, <1>n, <1>t DEF En
<1>f. Finir(a) => \A b \in AppelsDe(o) : appels'[b] = appels[b]
  BY <1>n, <1>t DEF Finir
<1>s. ASSUME NEW quoi, NEW phase, NEW p, Seul(a, quoi, phase, p)
      PROVE  \A b \in AppelsDe(o) : appels'[b] = appels[b]
  BY <1>s, <1>n DEF Seul, AppelsDe
<1>m. MoiEchoue(a) => ecran'[o] = ecran[o]
  BY <1>t DEF MoiEchoue
<1>1. CASE Appeler(a) \/ Basculer(a) \/ Deconnecter(a) \/ \E m \in Membre : Connecter(a, m)
  BY <1>1, <1>e DEF Appeler, Basculer, Deconnecter, Connecter
<1>2. CASE Recharger(a) \/ Partir(a)
  BY <1>2, <1>s, <1>t DEF Recharger, Partir
<1>3. CASE Accepte(a)
  <2>1. \/ Finir(a) /\ (ecran' = ecran \/ MoiEchoue(a) \/ ecran' = [ecran EXCEPT ![OngletDe[a]] = appels[a].paire.m])
        \/ \E m \in membres : En(a, "bascule", "recu", Neuve(m)) /\ ecran' = ecran
    BY <1>3 DEF Accepte
  <2>2. renouvellement' = renouvellement
    BY <1>3 DEF Accepte
  <2>3. \A b \in AppelsDe(o) : appels'[b] = appels[b]
    BY <2>1, <1>f, <1>e
  <2>4. ecran'[o] = ecran[o]
    BY <2>1, <1>m, <1>t
  <2> QED BY <2>2, <2>3, <2>4
<1>4. CASE Refuse401(a)
  BY <1>4, <1>n, <1>t DEF Refuse401
<1>5. CASE Refuse401Encore(a) \/ CoupureAppel(a) \/ CoupureReponse(a)
  BY <1>5, <1>f, <1>m DEF Refuse401Encore, CoupureAppel, CoupureReponse
<1>6. CASE Installer(a)
  BY <1>6, <1>e DEF Installer, ApresBascule, ApresConnexion
<1>7. CASE ChercherDeconnexion(a) \/ RevoquerDeconnexion(a)
  BY <1>7, <1>n, <1>t DEF ChercherDeconnexion, RevoquerDeconnexion
<1>8. CASE Effacer(a)
  BY <1>8, <1>f, <1>t DEF Effacer
<1> QED BY <1>1, <1>2, <1>3, <1>4, <1>5, <1>6, <1>7, <1>8 DEF Demande, Suite

(* Nor does the renewal of another tab. *)
LEMMA AutreRenouvellement ==
    ASSUME Types, NEW q \in Onglet, NEW o \in Onglet, q # o,
           SuiteRenouvellement(q) \/ CoupureRenouvellement(q) \/ RenouvelerPourSocket(q)
    PROVE  /\ \A b \in AppelsDe(o) : appels'[b] = appels[b]
           /\ ecran'[o] = ecran[o] /\ renouvellement'[o] = renouvellement[o]
<1>t. /\ appels \in [Appel -> PointAppel] /\ renouvellement \in [Onglet -> PointRenouvellement]
      /\ ecran \in [Onglet -> Membre \cup {Nul}]
  BY TypesParts DEF Types
<1>n. \A b \in AppelsDe(o) : b \in Appel /\ b \notin Attendants(q)
  BY DEF AppelsDe, Attendants
<1>1. CASE Chercher(q) \/ Revoquer(q) \/ Creer(q) \/ CoupureRenouvellement(q) \/ RenouvelerPourSocket(q)
  BY <1>1, <1>t DEF Chercher, Revoquer, Creer, CoupureRenouvellement, RenouvelerPourSocket, A
<1>2. CASE Resoudre(q)
  BY <1>2, <1>t, <1>n DEF Resoudre
<1>3. CASE Rejeter(q)
  BY <1>3, <1>t, <1>n DEF Rejeter
<1> QED BY <1>1, <1>2, <1>3 DEF SuiteRenouvellement

(* A page loaded anew starts from the pair that is stored. *)
LEMMA PageNeuve ==
    ASSUME Types, NEW a \in Appel, NEW m, Recharger(a) \/ Partir(a), Tient(Nav(a), m)
    PROVE  Suit(OngletDe[a], m)'
<1> DEFINE o == OngletDe[a]
<1>t. /\ appels \in [Appel -> PointAppel] /\ renouvellement \in [Onglet -> PointRenouvellement]
      /\ ecran \in [Onglet -> Membre \cup {Nul}] /\ o \in Onglet
  BY TypesParts DEF Types
<1>1. /\ Seul(a, "moi", "envoye", stockage[Nav(a)])
      /\ renouvellement' = [renouvellement EXCEPT ![o] = Repos]
      /\ ecran' = [ecran EXCEPT ![o] = Nul]
  BY DEF Recharger, Partir
<1>2. ecran'[o] = Nul /\ ~Renouvelle(o)'
  BY <1>1, <1>t DEF Renouvelle, Repos
<1>3. \A b \in AppelsDe(o) : appels'[b].phase # "libre" =>
          stockage[Nav(a)] # Nul /\ appels'[b].paire = stockage[Nav(a)]
  BY <1>1 DEF Seul, AppelsDe, Libre
<1>4. AppelsDe(o)' = AppelsDe(o)
  BY DEF AppelsDe
<1> QED BY <1>2, <1>3, <1>4 DEF Suit, VaAvec, Tient

(* A tab that is being left is left, or still is. *)
LEMMA QuitteeReste ==
    ASSUME Types, [Next]_vars, NEW o \in Onglet, Quittee(o),
           ~ \E a \in AppelsDe(o) : Recharger(a) \/ Partir(a)
    PROVE  Quittee(o)'
<1>t. appels \in [Appel -> PointAppel]
  BY DEF Types
<1>a. PICK b \in AppelsDe(o) : appels[b].phase = "quitte"
  BY DEF Quittee
<1>b. b \in Appel /\ appels[b] \in PointAppel /\ AppelsDe(o)' = AppelsDe(o) /\ OngletDe[b] = o
  BY <1>a, <1>t DEF AppelsDe
<1> SUFFICES appels'[b] = appels[b]
  BY <1>a, <1>b DEF Quittee
<1>1. ASSUME NEW a \in Appel, OngletDe[a] # o,
             \/ Demande(a) \/ Suite(a) \/ Partir(a) \/ CoupureAppel(a) \/ CoupureReponse(a)
      PROVE  appels'[b] = appels[b]
  BY <1>1, <1>a, AutreOnglet
<1>2. ASSUME NEW a \in Appel, OngletDe[a] = o,
             \/ Demande(a) \/ Suite(a) \/ Partir(a) \/ CoupureAppel(a) \/ CoupureReponse(a)
      PROVE  appels'[b] = appels[b]
  <2>1. ~Recharger(a) /\ ~Partir(a)
    BY <1>2 DEF AppelsDe
  <2>e. ASSUME NEW quoi, NEW phase, NEW p, En(a, quoi, phase, p), a # b PROVE appels'[b] = appels[b]
    BY <2>e, <1>b, <1>t DEF En
  <2>f. Finir(a) /\ a # b => appels'[b] = appels[b]
    BY <1>b, <1>t DEF Finir
  <2>2. CASE Demande(a)
    <3>1. a # b
      BY <2>2, <1>a, <2>1 DEF Demande, Appeler, Connecter, Basculer, Deconnecter, Occupe
    <3> QED BY <2>1, <2>2, <2>e, <3>1 DEF Demande, Appeler, Connecter, Basculer, Deconnecter
  <2>3. CASE Suite(a)
    <3>1. a # b
      BY <2>3, <1>a DEF Suite, Accepte, Refuse401, Refuse401Encore, Installer,
           ChercherDeconnexion, RevoquerDeconnexion, Effacer
    <3>2. CASE Accepte(a)
      BY <3>1, <3>2, <2>e, <2>f DEF Accepte
    <3>3. CASE Refuse401(a)
      BY <3>1, <3>3, <1>b, <1>t DEF Refuse401
    <3>4. CASE Refuse401Encore(a) \/ Effacer(a)
      BY <3>1, <3>4, <2>f DEF Refuse401Encore, Effacer
    <3>5. CASE Installer(a)
      BY <3>1, <3>5, <2>e DEF Installer, ApresBascule, ApresConnexion
    <3>6. CASE ChercherDeconnexion(a) \/ RevoquerDeconnexion(a)
      BY <3>1, <3>6, <1>b, <1>t DEF ChercherDeconnexion, RevoquerDeconnexion
    <3> QED BY <2>3, <3>2, <3>3, <3>4, <3>5, <3>6 DEF Suite
  <2>4. CASE CoupureAppel(a) \/ CoupureReponse(a)
    <3>1. a # b
      BY <2>4, <1>a DEF CoupureAppel, CoupureReponse
    <3> QED BY <2>4, <2>f, <3>1 DEF CoupureAppel, CoupureReponse
  <2> QED BY <1>2, <2>1, <2>2, <2>3, <2>4
<1>3. ASSUME NEW q \in Onglet,
             SuiteRenouvellement(q) \/ CoupureRenouvellement(q) \/ RenouvelerPourSocket(q)
      PROVE  appels'[b] = appels[b]
  <2>1. b \notin Attendants(q)
    BY <1>a DEF Attendants
  <2> QED BY <1>3, <2>1, <1>b DEF SuiteRenouvellement, CoupureRenouvellement, RenouvelerPourSocket,
              Chercher, Revoquer, Creer, Resoudre, Rejeter
<1>4. CASE Arret
  BY <1>4, <1>a, <1>b DEF Arret
<1>5. ASSUME \/ \E n \in Navigateur : AccesExpire(n)
             \/ \E n \in Navigateur, l \in Ligne : SessionExpire(n, l)
             \/ ReinitialiserMotDePasse \/ Bannir \/ (\E m \in Membre : Retirer(m))
             \/ UNCHANGED vars
      PROVE  appels'[b] = appels[b]
  BY <1>5 DEF AccesExpire, SessionExpire, ReinitialiserMotDePasse, Bannir, Retirer, vars
<1> QED BY <1>1, <1>2, <1>3, <1>4, <1>5 DEF Next, Autour

(* What a tab does itself, but for the arrival of a form's pair, keeps     *)
(* what it has in hand and shows to the user whose pair is stored.         *)
LEMMA SuitAppel ==
    ASSUME Types, NEW a \in Appel, NEW m, Suit(OngletDe[a], m), Tient(Nav(a), m),
           \/ Demande(a) \/ Suite(a) \/ CoupureAppel(a) \/ CoupureReponse(a),
           ~Recharger(a), ~Installer(a)
    PROVE  Suit(OngletDe[a], m)'
<1> DEFINE o == OngletDe[a]
<1>t. /\ appels \in [Appel -> PointAppel] /\ renouvellement \in [Onglet -> PointRenouvellement]
      /\ ecran \in [Onglet -> Membre \cup {Nul}] /\ o \in Onglet /\ a \in AppelsDe(o)
  BY TypesParts DEF Types, AppelsDe
<1>k. AppelsDe(o)' = AppelsDe(o) /\ AppelsDe(o) \subseteq Appel
  BY DEF AppelsDe
<1>h. /\ Renouvelle(o) => renouvellement[o].paire.m = m
      /\ \A b \in AppelsDe(o) : appels[b].phase \in {"envoye", "renvoye"} => appels[b].paire.m = m
      /\ SeDemande(o) \/ ecran[o] \in {Nul, m}
  BY DEF Suit, VaAvec
<1> DEFINE R == Renouvelle(o)' => renouvellement'[o].paire.m = m
           P == \A b \in AppelsDe(o) : appels'[b].phase \in {"envoye", "renvoye"} => appels'[b].paire.m = m
           D == SeDemande(o) => SeDemande(o)'
           E == SeDemande(o)' \/ ecran'[o] \in {Nul, m}
<1>q. R /\ P /\ E => Suit(o, m)'
  BY <1>k DEF Suit, VaAvec
<1>RU. UNCHANGED renouvellement => R
  BY <1>h DEF Renouvelle
<1>D. D /\ ecran'[o] = ecran[o] => E
  BY <1>h
<1>N. ecran'[o] = Nul => E
  OBVIOUS
(* The other calls of the tab are what they were. *)
<1>p. ASSUME \A b \in AppelsDe(o) \ {a} : appels'[b] = appels[b],
             appels'[a].phase \in {"envoye", "renvoye"} => appels'[a].paire.m = m
      PROVE  P
  BY <1>p, <1>h
<1>d. ASSUME \A b \in AppelsDe(o) \ {a} : appels'[b] = appels[b],
             \/ appels[a].quoi # "moi" \/ appels[a].phase \notin {"envoye", "attend", "renvoye"}
             \/ /\ appels'[a].quoi = "moi" /\ appels'[a].phase \in {"envoye", "attend", "renvoye"}
      PROVE  D
  BY <1>d, <1>k, <1>t DEF SeDemande
<1>e. ASSUME NEW quoi, NEW phase, NEW p, En(a, quoi, phase, p)
      PROVE  /\ \A b \in AppelsDe(o) \ {a} : appels'[b] = appels[b]
             /\ appels'[a].quoi = quoi /\ appels'[a].phase = phase /\ appels'[a].paire = p
  BY <1>e, <1>k, <1>t DEF En
<1>f. Finir(a) => /\ \A b \in AppelsDe(o) \ {a} : appels'[b] = appels[b]
                  /\ appels'[a].phase = "libre"
  BY <1>k, <1>t DEF Finir, Libre
<1>m. MoiEchoue(a) => ecran'[o] = Nul
  BY <1>t DEF MoiEchoue
<1> HIDE DEF R, P, D, E
<1>1. CASE Appeler(a) \/ Basculer(a)
  <2>1. /\ UNCHANGED <<renouvellement, ecran>> /\ appels[a].phase = "libre" /\ stockage[Nav(a)] # Nul
        /\ \E quoi : En(a, quoi, "envoye", stockage[Nav(a)])
    BY <1>1 DEF Appeler, Basculer, Occupe
  <2>2. stockage[Nav(a)].m = m
    BY <2>1 DEF Tient
  <2> QED BY <2>1, <2>2, <1>e, <1>p, <1>d, <1>D, <1>RU, <1>q
<1>2. CASE Deconnecter(a) \/ \E u \in Membre : Connecter(a, u)
  <2>1. /\ UNCHANGED <<renouvellement, ecran>> /\ appels[a].phase = "libre"
        /\ \E quoi, p : \E phase \in {"effacer", "chercher", "recu"} : En(a, quoi, phase, p)
    BY <1>2 DEF Deconnecter, Connecter, Occupe
  <2> QED BY <2>1, <1>e, <1>p, <1>d, <1>D, <1>RU, <1>q
<1>3. CASE Accepte(a)
  <2>u. UNCHANGED renouvellement /\ appels[a].paire.m = m
    BY <1>3, <1>h, <1>t DEF Accepte
  <2>1. CASE Finir(a) /\ UNCHANGED ecran /\ appels[a].quoi # "moi"
    BY <2>1, <2>u, <1>f, <1>p, <1>d, <1>D, <1>RU, <1>q
  <2>2. CASE Finir(a) /\ MoiEchoue(a)
    BY <2>2, <2>u, <1>f, <1>p, <1>m, <1>N, <1>RU, <1>q
  <2>3. CASE Finir(a) /\ ecran' = [ecran EXCEPT ![o] = appels[a].paire.m]
    <3>1. E
      BY <2>3, <2>u, <1>t DEF E
    <3> QED BY <2>3, <2>u, <3>1, <1>f, <1>p, <1>RU, <1>q
  <2>4. ASSUME NEW u \in membres, En(a, "bascule", "recu", Neuve(u)), UNCHANGED ecran,
               appels[a].quoi = "bascule"
        PROVE  Suit(o, m)'
    BY <2>4, <2>u, <1>e, <1>p, <1>d, <1>D, <1>RU, <1>q
  <2>5. \/ Finir(a) /\ UNCHANGED ecran /\ appels[a].quoi # "moi"
        \/ Finir(a) /\ MoiEchoue(a)
        \/ Finir(a) /\ ecran' = [ecran EXCEPT ![o] = appels[a].paire.m]
        \/ \E u \in membres : /\ En(a, "bascule", "recu", Neuve(u)) /\ UNCHANGED ecran
                              /\ appels[a].quoi = "bascule"
    BY <1>3 DEF Accepte
  <2> QED BY <2>1, <2>2, <2>3, <2>4, <2>5
<1>4. CASE Refuse401(a)
  <2>1. /\ UNCHANGED ecran /\ appels[a].phase = "envoye"
        /\ \A b \in AppelsDe(o) \ {a} : appels'[b] = appels[b]
    BY <1>4, <1>k, <1>t DEF Refuse401
  <2>2. appels'[a].quoi = appels[a].quoi /\ appels'[a].phase = "attend"
    BY <1>4, <1>t DEF Refuse401, PointAppel
  <2>3. R
    BY <1>4, <2>1, <1>h, <1>t DEF Refuse401, R, Renouvelle
  <2>4. P
    BY <2>1, <2>2, <1>p
  <2>5. D
    BY <2>1, <2>2, <1>d
  <2> QED BY <2>1, <2>3, <2>4, <2>5, <1>D, <1>q
<1>5. CASE Refuse401Encore(a) \/ CoupureAppel(a)
  <2>1. /\ Finir(a) /\ UNCHANGED renouvellement
        /\ MoiEchoue(a) \/ (UNCHANGED ecran /\ appels[a].quoi # "moi")
    BY <1>5 DEF Refuse401Encore, CoupureAppel
  <2> QED BY <2>1, <1>f, <1>p, <1>d, <1>m, <1>N, <1>D, <1>RU, <1>q
<1>6. CASE CoupureReponse(a)
  <2>1. Finir(a) /\ UNCHANGED <<renouvellement, ecran>> /\ appels[a].phase = "recu"
    BY <1>6 DEF CoupureReponse
  <2> QED BY <2>1, <1>f, <1>p, <1>d, <1>D, <1>RU, <1>q
<1>7. CASE ChercherDeconnexion(a) \/ RevoquerDeconnexion(a)
  <2>1. /\ UNCHANGED <<renouvellement, ecran>> /\ appels[a].phase \in {"chercher", "revoquer"}
        /\ \A b \in AppelsDe(o) \ {a} : appels'[b] = appels[b]
    BY <1>7, <1>k, <1>t DEF ChercherDeconnexion, RevoquerDeconnexion
  <2>2. appels'[a].phase \in {"revoquer", "effacer"}
    BY <1>7, <1>t DEF ChercherDeconnexion, RevoquerDeconnexion, PointAppel
  <2> QED BY <2>1, <2>2, <1>p, <1>d, <1>D, <1>RU, <1>q
<1>8. CASE Effacer(a)
  <2>1. Finir(a) /\ UNCHANGED renouvellement /\ ecran'[o] = Nul
    BY <1>8, <1>t DEF Effacer
  <2> QED BY <2>1, <1>f, <1>p, <1>N, <1>RU, <1>q
<1> QED BY <1>1, <1>2, <1>3, <1>4, <1>5, <1>6, <1>7, <1>8 DEF Demande, Suite

(* So does its renewal. *)
LEMMA SuitRenouvellement ==
    ASSUME Types, NEW o \in Onglet, NEW m, Suit(o, m), Tient(NavigateurDe[o], m),
           SuiteRenouvellement(o) \/ CoupureRenouvellement(o) \/ RenouvelerPourSocket(o)
    PROVE  Suit(o, m)'
<1>t. /\ appels \in [Appel -> PointAppel] /\ renouvellement \in [Onglet -> PointRenouvellement]
      /\ ecran \in [Onglet -> Membre \cup {Nul}] /\ AppelsDe(o) \subseteq Appel
      /\ AppelsDe(o)' = AppelsDe(o)
  BY TypesParts DEF Types, AppelsDe
<1>h. /\ Renouvelle(o) => renouvellement[o].paire.m = m
      /\ \A b \in AppelsDe(o) : appels[b].phase \in {"envoye", "renvoye"} => appels[b].paire.m = m
      /\ SeDemande(o) \/ ecran[o] \in {Nul, m}
  BY DEF Suit, VaAvec
<1>1. CASE Chercher(o) \/ Revoquer(o) \/ Creer(o) \/ CoupureRenouvellement(o)
  <2>1. UNCHANGED <<ecran, appels>> /\ Renouvelle(o)
    BY <1>1 DEF Chercher, Revoquer, Creer, CoupureRenouvellement, Renouvelle
  <2>2. renouvellement'[o].paire = renouvellement[o].paire
    BY <1>1, <1>t DEF Chercher, Revoquer, Creer, CoupureRenouvellement, A, PointRenouvellement
  <2> QED BY <2>1, <2>2, <1>h, <1>t DEF Suit, VaAvec, SeDemande
<1>2. CASE RenouvelerPourSocket(o)
  <2>1. UNCHANGED <<ecran, appels>> /\ renouvellement'[o].paire.m = m
    BY <1>2, <1>t DEF RenouvelerPourSocket, Tient
  <2> QED BY <2>1, <1>h, <1>t DEF Suit, VaAvec, SeDemande
<1>3. CASE Resoudre(o)
  <2>k. PICK p : p = Neuve(renouvellement[o].paire.m)
    OBVIOUS
  <2>1. /\ UNCHANGED ecran /\ ~Renouvelle(o)' /\ p.m = m
    BY <1>3, <2>k, <1>h, <1>t DEF Resoudre, Renouvelle, Repos, Neuve
  <2>2. ASSUME NEW b \in AppelsDe(o)
        PROVE  \/ appels'[b] = appels[b]
               \/ /\ appels'[b].quoi = appels[b].quoi /\ appels'[b].phase = "renvoye"
                  /\ appels'[b].paire = p
    <3>1. appels[b] \in PointAppel
      BY <1>t
    <3>2. appels'[b] = IF b \in Attendants(o)
                       THEN [appels[b] EXCEPT !.phase = "renvoye", !.paire = p]
                       ELSE appels[b]
      BY <1>3, <2>k, <1>t DEF Resoudre
    <3> QED BY <3>1, <3>2 DEF PointAppel
  <2>3. SeDemande(o) => SeDemande(o)'
    BY <2>2, <1>t DEF SeDemande
  <2> QED BY <2>1, <2>2, <2>3, <1>h, <1>t DEF Suit, VaAvec
<1>4. CASE Rejeter(o)
  <2>1. ~Renouvelle(o)'
    BY <1>4, <1>t DEF Rejeter, Renouvelle, Repos
  <2>2. \A b \in AppelsDe(o) : IF b \in Attendants(o) THEN appels'[b] = Libre ELSE appels'[b] = appels[b]
    BY <1>4, <1>t DEF Rejeter
  <2>3. SeDemande(o)' \/ ecran'[o] \in {Nul, m}
    <3>1. CASE \E b \in Attendants(o) : appels[b].quoi = "moi"
      BY <1>4, <3>1, <1>t DEF Rejeter
    <3>2. CASE ~ \E b \in Attendants(o) : appels[b].quoi = "moi"
      <4>1. ecran'[o] = ecran[o]
        BY <1>4, <3>2, <1>t DEF Rejeter
      <4>2. SeDemande(o) => SeDemande(o)'
        BY <2>2, <3>2, <1>t DEF SeDemande
      <4> QED BY <4>1, <4>2, <1>h
    <3> QED BY <3>1, <3>2
  <2> QED BY <2>1, <2>2, <2>3, <1>h, <1>t DEF Suit, VaAvec, Libre
<1> QED BY <1>1, <1>2, <1>3, <1>4 DEF SuiteRenouvellement

(* And so does whatever else happens. *)
LEMMA SuitAutour ==
    ASSUME Types, NEW o \in Onglet, NEW m, Suit(o, m),
           \/ \E n \in Navigateur : AccesExpire(n)
           \/ \E n \in Navigateur, l \in Ligne : SessionExpire(n, l)
           \/ ReinitialiserMotDePasse \/ Bannir \/ (\E u \in Membre : Retirer(u)) \/ Arret
           \/ UNCHANGED vars
    PROVE  Suit(o, m)'
<1>t. /\ appels \in [Appel -> PointAppel] /\ renouvellement \in [Onglet -> PointRenouvellement]
      /\ AppelsDe(o) \subseteq Appel /\ AppelsDe(o)' = AppelsDe(o)
  BY TypesParts DEF Types, AppelsDe
<1>1. CASE Arret
  <2>1. UNCHANGED ecran
    BY <1>1 DEF Arret, Revocation
  <2>2. Renouvelle(o)' => Renouvelle(o) /\ renouvellement'[o].paire = renouvellement[o].paire
    <3>1. renouvellement[o] \in PointRenouvellement
      BY <1>t
    <3>2. renouvellement'[o] = IF renouvellement[o].etape \in {"revoquer", "creer"}
                               THEN [renouvellement[o] EXCEPT !.etape = "echec", !.ligne = Nul]
                               ELSE renouvellement[o]
      BY <1>1 DEF Arret
    <3> QED BY <3>1, <3>2 DEF PointRenouvellement, Renouvelle
  <2>3. ASSUME NEW b \in AppelsDe(o)
        PROVE  \/ appels'[b] = appels[b]
               \/ appels[b].phase = "revoquer" /\ appels'[b].phase = "effacer"
    <3>1. appels[b] \in PointAppel
      BY <1>t
    <3>2. appels'[b] = IF appels[b].phase = "revoquer"
                       THEN [appels[b] EXCEPT !.phase = "effacer", !.paire = Nul, !.ligne = Nul]
                       ELSE appels[b]
      BY <1>1, <1>t DEF Arret
    <3> QED BY <3>1, <3>2 DEF PointAppel
  <2>4. SeDemande(o) => SeDemande(o)'
    BY <2>3, <1>t DEF SeDemande
  <2> QED BY <2>1, <2>2, <2>3, <2>4, <1>t DEF Suit, VaAvec
<1>2. CASE ~Arret
  <2>1. UNCHANGED <<ecran, appels, renouvellement>>
    BY <1>2 DEF AccesExpire, SessionExpire, ReinitialiserMotDePasse, Bannir, Retirer, Revocation, vars
  <2> QED BY <2>1, OngletInchange
<1> QED BY <1>1, <1>2

(* Every tab that is not being left goes on by the user whose pair its     *)
(* browser keeps, unless a form's pair arrives in it.                      *)
LEMMA OngletReste ==
    ASSUME Types, [Next]_vars, NEW o \in Onglet, NEW m, Quittee(o) \/ Suit(o, m),
           Tient(NavigateurDe[o], m), ~ \E a \in AppelsDe(o) : Installer(a)
    PROVE  (Quittee(o) \/ Suit(o, m))'
<1>n. \A a \in Appel : OngletDe[a] = o => Nav(a) = NavigateurDe[o] /\ a \in AppelsDe(o)
  BY DEF Nav, AppelsDe
<1>0. CASE \E a \in AppelsDe(o) : Recharger(a) \/ Partir(a)
  BY <1>0, <1>n, PageNeuve DEF AppelsDe
<1>q. CASE Quittee(o) /\ ~ \E a \in AppelsDe(o) : Recharger(a) \/ Partir(a)
  BY <1>q, QuitteeReste
<1>s. CASE Suit(o, m) /\ ~ \E a \in AppelsDe(o) : Recharger(a) \/ Partir(a)
  <2>1. ASSUME NEW a \in Appel, OngletDe[a] # o,
               \/ Demande(a) \/ Suite(a) \/ Partir(a) \/ CoupureAppel(a) \/ CoupureReponse(a)
        PROVE  Suit(o, m)'
    BY <2>1, <1>s, AutreOnglet, OngletInchange
  <2>2. ASSUME NEW a \in Appel, OngletDe[a] = o,
               \/ Demande(a) \/ Suite(a) \/ CoupureAppel(a) \/ CoupureReponse(a)
        PROVE  Suit(o, m)'
    <3>1. ~Recharger(a) /\ ~Installer(a) /\ Tient(Nav(a), m) /\ Suit(OngletDe[a], m)
      BY <1>n, <1>s, <2>2
    <3>2. Suit(OngletDe[a], m)'
      BY <3>1, <2>2, SuitAppel
    <3> QED BY <3>2, <2>2
  <2>3. ASSUME NEW q \in Onglet,
               SuiteRenouvellement(q) \/ CoupureRenouvellement(q) \/ RenouvelerPourSocket(q)
        PROVE  Suit(o, m)'
    BY <2>3, <1>s, AutreRenouvellement, OngletInchange, SuitRenouvellement
  <2>4. ASSUME \/ \E n \in Navigateur : AccesExpire(n)
               \/ \E n \in Navigateur, l \in Ligne : SessionExpire(n, l)
               \/ ReinitialiserMotDePasse \/ Bannir \/ (\E u \in Membre : Retirer(u)) \/ Arret
               \/ UNCHANGED vars
        PROVE  Suit(o, m)'
    BY <2>4, <1>s, SuitAutour
  <2>5. ~ \E a \in Appel : OngletDe[a] = o /\ Partir(a)
    BY <1>s, <1>n
  <2> QED BY <2>1, <2>2, <2>3, <2>4, <2>5 DEF Next, Autour
<1> QED BY <1>0, <1>q, <1>s

(* What is stored stays of the user it is of, unless another pair is put   *)
(* in its place.                                                           *)
LEMMA StockageReste ==
    ASSUME Types, [Next]_vars, NEW n \in Navigateur, NEW m, Tient(n, m),
           ~ \E a \in Appel : Installer(a) /\ Nav(a) = n,
           ~ \E o \in Onglet : Resoudre(o) /\ NavigateurDe[o] = n
    PROVE  Tient(n, m)'
<1> USE TypesParts
<1> SUFFICES stockage'[n] # Nul => stockage[n] # Nul /\ stockage'[n].m = stockage[n].m
  BY DEF Tient
<1>V. \A q \in Navigateur : Vide(q) => stockage'[n] = stockage[n] \/ stockage'[n] = Nul
  BY DEF Vide
<1>1. ASSUME NEW a \in Appel, Demande(a) PROVE stockage' = stockage
  BY <1>1 DEF Demande, Appeler, Recharger, Connecter, Basculer, Deconnecter
<1>2. ASSUME NEW a \in Appel,
             \/ Accepte(a) \/ Refuse401(a) \/ Refuse401Encore(a) \/ CoupureAppel(a)
             \/ CoupureReponse(a) \/ Partir(a) \/ ChercherDeconnexion(a)
             \/ RevoquerDeconnexion(a) \/ Effacer(a)
      PROVE  stockage'[n] = stockage[n] \/ stockage'[n] = Nul
  <2>1. UNCHANGED stockage \/ Vide(Nav(a))
    BY <1>2 DEF Accepte, Refuse401, Refuse401Encore, CoupureAppel, CoupureReponse, Partir,
         ChercherDeconnexion, RevoquerDeconnexion, Effacer, MoiEchoue
  <2> QED BY <2>1, <1>V
<1>3. ASSUME NEW a \in Appel, Installer(a) PROVE stockage'[n] = stockage[n]
  BY <1>3 DEF Installer, Depose
<1>4. ASSUME NEW o \in Onglet,
             \/ Chercher(o) \/ Revoquer(o) \/ Creer(o) \/ Rejeter(o)
             \/ CoupureRenouvellement(o) \/ RenouvelerPourSocket(o)
      PROVE  stockage'[n] = stockage[n] \/ stockage'[n] = Nul
  <2>1. UNCHANGED stockage \/ Vide(NavigateurDe[o])
    BY <1>4 DEF Chercher, Revoquer, Creer, Rejeter, CoupureRenouvellement, RenouvelerPourSocket
  <2> QED BY <2>1, <1>V
<1>5. ASSUME NEW o \in Onglet, Resoudre(o) PROVE stockage'[n] = stockage[n]
  BY <1>5 DEF Resoudre, Depose
<1>6. ASSUME NEW q \in Navigateur, AccesExpire(q) \/ \E l \in Ligne : SessionExpire(q, l)
      PROVE  stockage'[n] # Nul => stockage[n] # Nul /\ stockage'[n].m = stockage[n].m
  BY <1>6 DEF AccesExpire, SessionExpire, Paire
<1>7. ASSUME \/ ReinitialiserMotDePasse \/ Bannir \/ (\E u \in Membre : Retirer(u)) \/ Arret
             \/ UNCHANGED vars
      PROVE  stockage' = stockage
  BY <1>7 DEF ReinitialiserMotDePasse, Bannir, Retirer, Arret, vars
<1> QED BY <1>1, <1>2, <1>3, <1>4, <1>5, <1>6, <1>7
           DEF Next, Demande, Suite, SuiteRenouvellement, Autour

(* A pair takes the place of another: unless that is remembered, the other *)
(* tabs that are not being left go by its user already.                    *)
LEMMA AilleursLeMeme ==
    ASSUME Types, NEW o \in Onglet, NEW m, ~AilleursUnAutre(o, m), NEW q \in Onglet \ {o},
           NavigateurDe[q] = NavigateurDe[o],
           \A b \in AppelsDe(q) : appels'[b] = appels[b],
           ecran'[q] = ecran[q], renouvellement'[q] = renouvellement[q]
    PROVE  (Quittee(q) \/ Suit(q, m))'
<1>1. Quittee(q) \/ Suit(q, m)
  BY DEF AilleursUnAutre, Suit
<1> QED BY <1>1, OngletInchange

(* The pair of a form. *)
LEMMA UnanimeForme ==
    ASSUME Types, NEW a \in Appel, Installer(a), ~substitue'[Nav(a)]
    PROVE  \E m \in Membre : Unanime(Nav(a), m)'
<1>t. /\ appels \in [Appel -> PointAppel] /\ renouvellement \in [Onglet -> PointRenouvellement]
      /\ OngletDe[a] \in Onglet /\ Nav(a) \in Navigateur /\ Nav(a) = NavigateurDe[OngletDe[a]]
  BY TypesParts DEF Types, Nav
<1>k. PICK m \in Membre : m = appels[a].paire.m
  BY <1>t DEF Installer, PointAppel, Paire
<1>o. PICK o \in Onglet : o = OngletDe[a]
  BY <1>t
<1>a. AppelsDe(o)' = AppelsDe(o) /\ a \in AppelsDe(o) /\ AppelsDe(o) \subseteq Appel
  BY <1>o DEF AppelsDe
<1>c. \A constat : Remplacement(o, constat) => ~constat
  BY <1>t, <1>o, TypesParts DEF Remplacement
<1>1. stockage'[Nav(a)].m = m
  BY <1>t, <1>k, TypesParts DEF Installer, Depose, Neuve
<1>2. ~AilleursUnAutre(o, m)
  BY <1>c, <1>k, <1>o DEF Installer
<1>3. ASSUME NEW q \in Onglet \ {o}, NavigateurDe[q] = Nav(a) PROVE (Quittee(q) \/ Suit(q, m))'
  <2>1. OngletDe[a] # q /\ Suite(a)
    BY <1>o, <1>3 DEF Suite
  <2> QED BY <2>1, <1>2, <1>3, <1>o, <1>t, AutreOnglet, AilleursLeMeme
<1>4. (Quittee(o) \/ Suit(o, m))'
  <2>1. CASE appels[a].quoi = "bascule"
    <3>1. appels'[a].phase = "quitte"
      BY <2>1, <1>t DEF Installer, ApresBascule, En
    <3> QED BY <3>1, <1>a DEF Quittee
  <2>2. CASE appels[a].quoi # "bascule"
    <3>1. VaAvec(o, m) /\ UNCHANGED renouvellement
      BY <2>2, <1>c, <1>k, <1>o DEF Installer
    <3>2. /\ appels'[a].quoi = "moi" /\ appels'[a].phase = "envoye" /\ appels'[a].paire.m = m
          /\ \A b \in AppelsDe(o) \ {a} : appels'[b] = appels[b]
      BY <2>2, <1>t, <1>k, <1>a DEF Installer, ApresConnexion, En
    <3>3. SeDemande(o)'
      BY <3>2, <1>a DEF SeDemande
    <3>4. VaAvec(o, m)'
      BY <3>1, <3>2, <1>a DEF VaAvec, Renouvelle
    <3> QED BY <3>3, <3>4 DEF Suit
  <2> QED BY <2>1, <2>2
<1>5. Nav(a)' = Nav(a)
  BY DEF Nav
<1>6. Unanime(Nav(a), m)'
  BY <1>1, <1>3, <1>4, <1>o, <1>t, <1>5 DEF Unanime, Tient
<1> QED BY <1>6

(* The pair a renewal brings: in its own tab all goes by its user, or the  *)
(* tab is being left.                                                      *)
LEMMA UnanimeRenouvele ==
    ASSUME Types, NEW o \in Onglet, Resoudre(o), ~substitue'[NavigateurDe[o]],
           NEW m, Unanime(NavigateurDe[o], m)
    PROVE  \E k \in Membre : Unanime(NavigateurDe[o], k)'
<1>t. /\ renouvellement \in [Onglet -> PointRenouvellement] /\ NavigateurDe[o] \in Navigateur
  BY TypesParts DEF Types
<1>k. PICK k \in Membre : k = renouvellement[o].paire.m
  BY <1>t DEF Resoudre, PointRenouvellement, Paire
<1>1. stockage'[NavigateurDe[o]].m = k
  BY <1>t, <1>k, TypesParts DEF Resoudre, Depose, Neuve
<1>2. ~AilleursUnAutre(o, k)
  <2>1. Remplacement(o, AilleursUnAutre(o, Neuve(k).m))
    BY <1>k DEF Resoudre
  <2>2. Neuve(k).m = k
    BY DEF Neuve
  <2> QED BY <2>1, <2>2, <1>t, TypesParts DEF Remplacement
<1>3. ASSUME NEW q \in Onglet \ {o}, NavigateurDe[q] = NavigateurDe[o] PROVE (Quittee(q) \/ Suit(q, k))'
  BY <1>2, <1>3, AutreRenouvellement, AilleursLeMeme DEF SuiteRenouvellement
<1>4. (Quittee(o) \/ Suit(o, k))'
  <2>1. CASE Quittee(o)
    <3>1. PICK b \in AppelsDe(o) : appels[b].phase = "quitte"
      BY <2>1 DEF Quittee
    <3>2. b \in AppelsDe(o)' /\ appels'[b] = appels[b]
      BY <3>1 DEF Resoudre, Attendants, AppelsDe
    <3> QED BY <3>1, <3>2 DEF Quittee
  <2>2. CASE ~Quittee(o)
    <3>1. Suit(o, m) /\ Tient(NavigateurDe[o], m)
      BY <2>2 DEF Unanime
    <3>2. k = m
      BY <3>1, <1>k DEF Suit, VaAvec, Resoudre, Renouvelle
    <3> QED BY <3>1, <3>2, SuitRenouvellement DEF SuiteRenouvellement
  <2> QED BY <2>1, <2>2
<1>5. Unanime(NavigateurDe[o], k)'
  BY <1>1, <1>3, <1>4 DEF Unanime, Tient
<1> QED BY <1>5

(* Every action keeps what the tabs of a browser go by of one user.        *)
LEMMA UnanimesStep == ASSUME Types, Unanimes, [Next]_vars PROVE Unanimes'
<1>1. ASSUME NEW n \in Navigateur PROVE substitue[n] => substitue'[n]
  <2>1. ASSUME NEW o \in Onglet, NEW constat, Remplacement(o, constat) PROVE substitue[n] => substitue'[n]
    BY <2>1, TypesParts DEF Remplacement
  <2>2. ASSUME NEW a \in Appel, Installer(a) PROVE substitue[n] => substitue'[n]
    BY <2>1, <2>2, TypesParts DEF Installer
  <2>3. ASSUME NEW o \in Onglet, Resoudre(o) PROVE substitue[n] => substitue'[n]
    BY <2>1, <2>3 DEF Resoudre
  <2>4. (\E a \in Appel : Installer(a)) \/ (\E o \in Onglet : Resoudre(o)) \/ UNCHANGED substitue
    BY DEF Next, Demande, Suite, SuiteRenouvellement, Autour, vars,
       Appeler, Recharger, Connecter, Basculer, Deconnecter, Accepte, Refuse401,
       Refuse401Encore, Partir, ChercherDeconnexion, RevoquerDeconnexion, Effacer,
       Chercher, Revoquer, Creer, Rejeter, CoupureAppel, CoupureReponse,
       CoupureRenouvellement, RenouvelerPourSocket, AccesExpire, SessionExpire,
       ReinitialiserMotDePasse, Bannir, Retirer, Arret, Revocation
  <2> QED BY <2>2, <2>3, <2>4
<1>2. ASSUME NEW n \in Navigateur, ~substitue'[n] PROVE \E m \in Membre \cup {Nul} : Unanime(n, m)'
  <2>1. PICK m \in Membre \cup {Nul} : Unanime(n, m)
    BY <1>1, <1>2 DEF Unanimes
  <2>2. ASSUME NEW a \in Appel, Installer(a), Nav(a) = n PROVE \E k \in Membre \cup {Nul} : Unanime(n, k)'
    <3>1. PICK k \in Membre : Unanime(Nav(a), k)'
      BY <2>2, <1>2, UnanimeForme
    <3>2. Unanime(n, k)'
      BY <3>1, <2>2 DEF Nav
    <3> QED BY <3>2
  <2>3. ASSUME NEW o \in Onglet, Resoudre(o), NavigateurDe[o] = n
        PROVE  \E k \in Membre \cup {Nul} : Unanime(n, k)'
    BY <2>1, <2>3, <1>2, UnanimeRenouvele
  <2>4. CASE /\ ~ \E a \in Appel : Installer(a) /\ Nav(a) = n
             /\ ~ \E o \in Onglet : Resoudre(o) /\ NavigateurDe[o] = n
    <3>1. Tient(n, m) /\ \A o \in Onglet : NavigateurDe[o] = n => Quittee(o) \/ Suit(o, m)
      BY <2>1 DEF Unanime
    <3>2. Tient(n, m)'
      BY <2>4, <3>1, StockageReste
    <3>3. ASSUME NEW o \in Onglet, NavigateurDe[o] = n PROVE (Quittee(o) \/ Suit(o, m))'
      <4>1. ~ \E a \in AppelsDe(o) : Installer(a)
        BY <2>4, <3>3 DEF AppelsDe, Nav
      <4> QED BY <3>1, <3>3, <4>1, OngletReste
    <3> QED BY <3>2, <3>3, <2>1 DEF Unanime
  <2> QED BY <2>2, <2>3, <2>4
<1> QED BY <1>2 DEF Unanimes

(* A tab that is not asking who it is, nor being left, shows the user its  *)
(* tokens name, unless a pair was stored while another tab of the browser  *)
(* went by another user, or by a login while calls of the tab itself did.  *)
THEOREM EcranSuitLesJetonsCorrect == Spec => []EcranSuitLesJetons
<1>1. Init => Unanimes
  <2> SUFFICES ASSUME Init PROVE \A n \in Navigateur : Unanime(n, Nul)
    BY DEF Unanimes
  <2> QED BY DEF Init, Unanime, Tient, Suit, VaAvec, AppelsDe, Renouvelle, Libre, Repos
<1>2. Types /\ Unanimes /\ [Next]_vars => Unanimes'
  BY UnanimesStep
<1>3. Types /\ Unanimes => EcranSuitLesJetons
  <2> SUFFICES ASSUME Types, Unanimes, NEW o \in Onglet, ecran[o] # Nul,
                      stockage[NavigateurDe[o]] # Nul, ~substitue[NavigateurDe[o]],
                      ~Quittee(o), ~SeDemande(o)
               PROVE  stockage[NavigateurDe[o]].m = ecran[o]
    BY DEF EcranSuitLesJetons
  <2>1. PICK m \in Membre \cup {Nul} : Unanime(NavigateurDe[o], m)
    BY TypesParts DEF Unanimes
  <2> QED BY <2>1 DEF Unanime, Suit, Tient
<1> QED BY <1>1, <1>2, <1>3, ComptesTypeCorrect, PTL DEF Spec

=============================================================================
