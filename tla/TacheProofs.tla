------------------------------ MODULE TacheProofs ------------------------------
(* Proofs about a task.  First TacheCycle and the buttons of TacheEcran,     *)
(* for every set of users, every role and every bound; then TacheRequetes:   *)
(* what holds of a task whatever requests interleave on it, for every number *)
(* of them, and that requests which do not overlap are steps of TacheCycle;  *)
(* last, its blockers and its health (Blocages).                             *)
EXTENDS TacheEcran, TacheRequetes, Blocages, FiniteSetTheorems, TLAPS

USE ProprietaireAssumption, NulAssumption, DepartAssumption, BorneAssumption

(* Without a row there is nothing hanging from it. *)
SansLigne == ~existe => /\ tache = NouvelleTache(Nul, Nul, Nul)
                        /\ coAssignes = {}
                        /\ ouvertes = AucuneSession

-----------------------------------------------------------------------------
(* The rows the handlers write are rows. *)
LEMMA NouvelleTacheType ==
    ASSUME NEW o \in UserOuNul, NEW a \in UserOuNul, NEW b \in UserOuNul
    PROVE  NouvelleTache(o, a, b) \in Tache
BY DEF NouvelleTache, Tache, UserOuNul, DateOuNul, StatutTache

(* A deletion leaves the types.                                              *)
LEMMA LigneSupprimeeType ==
    ASSUME LigneSupprimee
    PROVE  /\ existe' \in BOOLEAN
           /\ tache' \in Tache
           /\ coAssignes' \subseteq User
           /\ ouvertes' \in [User -> Nat]
<1>1. tache' \in Tache
  BY NouvelleTacheType DEF LigneSupprimee, UserOuNul
<1>2. ouvertes' \in [User -> Nat]
  BY DEF LigneSupprimee, AucuneSession
<1> QED BY <1>1, <1>2 DEF LigneSupprimee

(* A request, a change of staff or time keep every variable in its type.    *)
LEMMA TypeStep ==
    ASSUME TypeOK, [Next]_vars
    PROVE  TypeOK'
<1> USE DEF TypeOK, equipe, Instant, UserOuNul, DateOuNul
<1>1. CASE UNCHANGED vars
  BY <1>1 DEF vars
<1>2. CASE Creation
  <2>1. PICK o \in UserOuNul, a \in UserOuNul, b \in UserOuNul : Creer(o, a, b)
    BY <1>2 DEF Creation, CreerPersonnelle, CreerDansBureau, CreerParIA,
                CreerDansProjet, CreerSansAssigne
  <2> QED BY <2>1, NouvelleTacheType DEF Creer
<1>3. CASE Assignation
  <2>1. ASSUME NEW u \in User, NEW a \in User, NEW r \in BOOLEAN,
               AssignerPrincipal(u, a, r)
        PROVE  TypeOK'
    BY <2>1 DEF AssignerPrincipal, Tache
  <2>2. ASSUME NEW u \in User, NEW a \in User, AssignerCoAssigne(u, a)
        PROVE  TypeOK'
    BY <2>2 DEF AssignerCoAssigne
  <2>3. ASSUME NEW u \in User, NEW a \in User, RetirerAssigne(u, a)
        PROVE  TypeOK'
    BY <2>3 DEF RetirerAssigne, PeutRetirer
  <2>4. ASSUME NEW u \in User, Accepter(u) PROVE TypeOK'
    <3>1. tache' \in Tache
      <4>1. CASE tache.assigneA = u
        BY <2>4, <4>1 DEF Accepter, Tache, StatutTache, PeutAccepter
      <4>2. CASE tache.assigneA # u
        BY <2>4, <4>2 DEF Accepter, Tache, StatutTache, PeutAccepter
      <4> QED BY <4>1, <4>2
    <3> QED BY <2>4, <3>1 DEF Accepter, PeutAccepter
  <2>5. ASSUME NEW u \in User, Retourner(u) PROVE TypeOK'
    BY <2>5 DEF Retourner, TacheRendue, ToutesSessionsFermees, AucuneSession,
                Tache, StatutTache, PeutRetourner
  <2> QED BY <1>3, <2>1, <2>2, <2>3, <2>4, <2>5 DEF Assignation
<1>4. CASE Travail
  <2> USE DEF SessionAssuree, SessionsSiennesFermees
  <2>1. ASSUME NEW u \in User, Demarrer(u) PROVE TypeOK'
    BY <2>1 DEF Demarrer, PremierDebut, Tache, StatutTache, PeutDemarrer
  <2>2. ASSUME NEW u \in User, Pauser(u) \/ Reprendre(u) PROVE TypeOK'
    BY <2>2 DEF Pauser, Reprendre, PeutChronometrer
  <2>3. ASSUME NEW u \in User, Declarer(u) PROVE TypeOK'
    BY <2>3 DEF Declarer, Tache, StatutTache, PeutDeclarer
  <2>4. ASSUME NEW u \in User, AnnulerDeclaration(u) PROVE TypeOK'
    BY <2>4 DEF AnnulerDeclaration, Tache, StatutTache, PeutAnnulerDeclaration
  <2> QED BY <1>4, <2>1, <2>2, <2>3, <2>4 DEF Travail
<1>5. CASE Decision
  <2>1. ASSUME NEW u \in User, ValiderOk(u) PROVE TypeOK'
    BY <2>1 DEF ValiderOk, Tache, StatutTache, PeutValider
  <2>2. ASSUME NEW u \in User, ValiderLitige(u) PROVE TypeOK'
    BY <2>2 DEF ValiderLitige, Tache, StatutTache, PeutValider
  <2>3. ASSUME NEW u \in User, Reouvrir(u) PROVE TypeOK'
    BY <2>3 DEF Reouvrir, Tache, StatutTache, PeutReouvrir
  <2>4. ASSUME LigneSupprimee, UNCHANGED <<equipe, horloge>> PROVE TypeOK'
    BY <2>4, LigneSupprimeeType
  <2> QED BY <1>5, <2>1, <2>2, <2>3, <2>4 DEF Decision, Supprimer, SupprimerParCascade,
       PeutSupprimer
<1>6. CASE Equipe
  <2> USE DEF Mouvement
  <2>1. ASSUME NEW u \in User, NEW r \in RoleGlobal, NouveauJeton(u, r) PROVE TypeOK'
    BY <2>1 DEF NouveauJeton
  <2>2. ASSUME NEW u \in User, RejoindreBureau(u) \/ QuitterBureau(u) PROVE TypeOK'
    BY <2>2 DEF RejoindreBureau, QuitterBureau
  <2>3. ASSUME NEW u \in User, SupprimerMembre(u) PROVE TypeOK'
    <3>1. CASE existe /\ tache.proprio = u
      BY <2>3, <3>1, LigneSupprimeeType DEF SupprimerMembre
    <3>2. CASE ~(existe /\ tache.proprio = u)
      <4>1. tache' \in Tache
        <5> DEFINE f(v) == OublierUser(u, v)
        <5>1. \A v \in UserOuNul : f(v) \in UserOuNul
          BY DEF OublierUser
        <5>2. tache' = [tache EXCEPT !.assigneA = f(tache.assigneA),
                                     !.assignePar = f(tache.assignePar),
                                     !.validePar = f(tache.validePar)]
          BY <2>3, <3>2 DEF SupprimerMembre
        <5> HIDE DEF f
        <5> QED BY <5>1, <5>2 DEF Tache
      <4>2. ouvertes' \in [User -> Nat]
        BY <2>3, <3>2 DEF SupprimerMembre, SessionsSiennesFermees
      <4> QED BY <2>3, <3>2, <4>1, <4>2 DEF SupprimerMembre
    <3> QED BY <3>1, <3>2
  <2> QED BY <1>6, <2>1, <2>2, <2>3 DEF Equipe
<1>7. CASE PasserLeTemps
  BY <1>7 DEF PasserLeTemps
<1> QED BY <1>1, <1>2, <1>3, <1>4, <1>5, <1>6, <1>7 DEF Next

(* The task starts without a row.                                            *)
LEMMA TypeInit ==
    ASSUME Init
    PROVE  TypeOK
<1>1. tache \in Tache
  BY NouvelleTacheType DEF Init, UserOuNul
<1>2. ouvertes \in [User -> Nat]
  BY DEF Init, AucuneSession
<1>3. horloge \in Instant /\ mouvements \in Nat
  BY DEF Init, Instant
<1>4. role \in [User -> RoleGlobal] /\ existe \in BOOLEAN
  BY DEF Init
<1>5. comptes \subseteq User /\ membres \subseteq User /\ coAssignes \subseteq User
  BY DEF Init
<1> QED BY <1>1, <1>2, <1>3, <1>4, <1>5 DEF TypeOK

(* Every variable keeps its type. *)
LEMMA TypeCorrect == Spec => []TypeOK
<1>1. Init => TypeOK
  BY TypeInit
<1>2. TypeOK /\ [Next]_vars => TypeOK'
  BY TypeStep
<1> QED BY <1>1, <1>2, PTL DEF Spec

(* No step hangs anything from a row that is not there.                     *)
LEMMA SansLigneStep ==
    ASSUME TypeOK, SansLigne, [Next]_vars
    PROVE  SansLigne'
<1> SUFFICES ASSUME ~existe' PROVE SansLigne'
  BY DEF SansLigne
<1>1. CASE existe
  <2>1. LigneSupprimee
    BY <1>1, Zenon
       DEF Next, Creation, Assignation, Travail, Decision, Equipe,
           CreerPersonnelle, CreerDansBureau, CreerParIA, CreerDansProjet,
           CreerSansAssigne, Creer, AssignerPrincipal, AssignerCoAssigne,
           RetirerAssigne, Accepter, Retourner, Demarrer, Pauser, Reprendre,
           Declarer, AnnulerDeclaration, ValiderOk, ValiderLitige, Reouvrir,
           Supprimer, SupprimerParCascade, NouveauJeton, RejoindreBureau,
           QuitterBureau, SupprimerMembre, PasserLeTemps, vars, PeutSupprimer,
           PeutRetirer, PeutAccepter, PeutRetourner, PeutDemarrer,
           PeutChronometrer, PeutDeclarer, PeutAnnulerDeclaration, PeutReouvrir,
           PeutValider
  <2> QED BY <2>1 DEF LigneSupprimee, SansLigne, NouvelleTache, AucuneSession
<1>2. CASE ~existe
  <2>1. /\ tache = NouvelleTache(Nul, Nul, Nul)
        /\ coAssignes = {}
        /\ ouvertes = AucuneSession
    BY <1>2 DEF SansLigne
  <2>3. CASE UNCHANGED vars
    BY <2>1, <2>3 DEF vars, SansLigne, NouvelleTache, AucuneSession
  <2>4. CASE Equipe
    <3>1. ASSUME NEW u \in User, SupprimerMembre(u) PROVE SansLigne'
      <4>1. tache' = NouvelleTache(Nul, Nul, Nul)
        BY <1>2, <2>1, <3>1 DEF SupprimerMembre, OublierUser, NouvelleTache
      <4>2. coAssignes' = {}
        BY <1>2, <2>1, <3>1 DEF SupprimerMembre
      <4>3. ouvertes' = AucuneSession
        BY <1>2, <2>1, <3>1 DEF SupprimerMembre, SessionsSiennesFermees, AucuneSession
      <4> QED BY <4>1, <4>2, <4>3 DEF SansLigne, NouvelleTache, AucuneSession
    <3>2. CASE UNCHANGED <<tache, coAssignes, ouvertes>>
      BY <2>1, <3>2 DEF SansLigne, NouvelleTache, AucuneSession
    <3> QED
      BY <2>4, <3>1, <3>2 DEF Equipe, NouveauJeton, RejoindreBureau, QuitterBureau
  <2>5. CASE PasserLeTemps
    BY <2>1, <2>5 DEF PasserLeTemps, SansLigne, NouvelleTache, AucuneSession
  <2>6. ~Creation
    BY DEF Creation, CreerPersonnelle, CreerDansBureau, CreerParIA,
           CreerDansProjet, CreerSansAssigne, Creer
  <2>7. ~Assignation
    BY <1>2 DEF Assignation, AssignationPermise, AssignerPrincipal,
                AssignerCoAssigne, RetirerAssigne, Accepter, Retourner,
                PeutCharger, PeutRetirer, PeutAccepter, PeutRetourner
  <2>8. ~Travail
    BY <1>2 DEF Travail, Demarrer, Pauser, Reprendre, Declarer, AnnulerDeclaration,
                PeutCharger, PeutDemarrer, PeutChronometrer, PeutDeclarer,
                PeutAnnulerDeclaration
  <2>9. ~Decision
    BY <1>2 DEF Decision, PeutValider, ValiderOk, ValiderLitige, Reouvrir, Supprimer,
                SupprimerParCascade, PeutCharger, PeutSupprimer, PeutReouvrir
  <2> QED BY <2>3, <2>4, <2>5, <2>6, <2>7, <2>8, <2>9 DEF Next
<1> QED BY <1>1, <1>2

(* The cascade of a deletion leaves no co-assignee and no session behind. *)
LEMMA SansLigneCorrect == Spec => []SansLigne
<1>1. Init => SansLigne
  BY DEF Init, SansLigne
<1>2. TypeOK /\ SansLigne /\ [Next]_vars => SansLigne'
  BY SansLigneStep
<1> QED BY <1>1, <1>2, TypeCorrect, PTL DEF Spec

-----------------------------------------------------------------------------
(* What each step may do to the sessions: leave them, close all of them,   *)
(* close or open those of one person; opening leaves exactly one open.     *)
LEMMA PasDesSessions ==
    ASSUME TypeOK, [Next]_vars
    PROVE  \/ UNCHANGED ouvertes
           \/ ouvertes' = AucuneSession
           \/ \E u \in User : ouvertes' = SessionsSiennesFermees(u)
           \/ \E u \in User : ouvertes' = SessionAssuree(u)
<1>1. CASE UNCHANGED vars
  BY <1>1 DEF vars
<1>2. CASE Creation
  BY <1>2 DEF Creation, CreerPersonnelle, CreerDansBureau, CreerParIA,
              CreerDansProjet, CreerSansAssigne, Creer
<1>3. CASE Assignation
  BY <1>3 DEF Assignation, AssignerPrincipal, AssignerCoAssigne, RetirerAssigne,
              Accepter, Retourner, ToutesSessionsFermees, PeutRetirer,
              PeutAccepter, PeutRetourner
<1>4. CASE Travail
  BY <1>4 DEF Travail, Demarrer, Pauser, Reprendre, Declarer, AnnulerDeclaration,
       PeutDemarrer, PeutChronometrer, PeutDeclarer, PeutAnnulerDeclaration
<1>5. CASE Decision
  BY <1>5 DEF Decision, ValiderOk, ValiderLitige, Reouvrir, Supprimer,
              SupprimerParCascade, LigneSupprimee, PeutSupprimer, PeutReouvrir, PeutValider
<1>6. CASE Equipe
  BY <1>6 DEF Equipe, NouveauJeton, RejoindreBureau, QuitterBureau, SupprimerMembre,
              LigneSupprimee
<1>7. CASE PasserLeTemps
  BY <1>7 DEF PasserLeTemps
<1> QED BY <1>1, <1>2, <1>3, <1>4, <1>5, <1>6, <1>7 DEF Next

(* No person ever has two open sessions on the task. *)
THEOREM SessionUniqueCorrect == Spec => []SessionUnique
<1>1. Init => SessionUnique
  <2> SUFFICES ASSUME Init, NEW u \in User PROVE ouvertes[u] <= 1
    BY DEF SessionUnique
  <2>1. ouvertes[u] = 0
    BY DEF Init, AucuneSession
  <2> QED BY ONLY <2>1, SMT
<1>2. TypeOK /\ SessionUnique /\ [Next]_vars => SessionUnique'
  <2> SUFFICES ASSUME TypeOK, SessionUnique, [Next]_vars PROVE SessionUnique'
    OBVIOUS
  <2> USE DEF TypeOK, SessionUnique
  <2>1. CASE UNCHANGED ouvertes
    BY <2>1
  <2>2. CASE ouvertes' = AucuneSession
    BY <2>2 DEF AucuneSession
  <2>3. ASSUME NEW u \in User, ouvertes' = SessionsSiennesFermees(u)
        PROVE  SessionUnique'
    BY <2>3 DEF SessionsSiennesFermees
  <2>4. ASSUME NEW u \in User, ouvertes' = SessionAssuree(u)
        PROVE  SessionUnique'
    BY <2>4 DEF SessionAssuree
  <2> QED BY PasDesSessions, <2>1, <2>2, <2>3, <2>4
<1> QED BY <1>1, <1>2, TypeCorrect, PTL DEF Spec

-----------------------------------------------------------------------------
(* No step gives a personal task to anybody else.                            *)
LEMMA PersonnelleStep ==
    ASSUME TypeOK, SansLigne, PersonnelleResteAuProprietaire, [Next]_vars
    PROVE  PersonnelleResteAuProprietaire'
<1> USE DEF PersonnelleResteAuProprietaire, Personnelle
<1> SUFFICES ASSUME Personnelle'
             PROVE  PersonnelleResteAuProprietaire'
  OBVIOUS
<1> DEFINE o == tache.proprio
<1>1. CASE UNCHANGED <<tache, coAssignes, ouvertes>>
  BY <1>1
<1>2. CASE Creation
  <2>1. coAssignes' = {} /\ ouvertes' = AucuneSession
    BY <1>2 DEF Creation, CreerPersonnelle, CreerDansBureau, CreerParIA,
                CreerDansProjet, CreerSansAssigne, Creer, SansLigne
  <2>2. PICK u \in User : tache' \in {NouvelleTache(u, u, u), NouvelleTache(u, Nul, Nul)}
    BY <1>2 DEF Creation, CreerPersonnelle, CreerDansBureau, CreerParIA,
                CreerDansProjet, CreerSansAssigne, Creer, NouvelleTache
  <2> QED BY <2>1, <2>2 DEF NouvelleTache, AucuneSession
<1>3. CASE LigneSupprimee
  BY <1>3 DEF LigneSupprimee, NouvelleTache
<1>4. CASE ~Creation /\ ~LigneSupprimee /\ ~UNCHANGED <<tache, coAssignes, ouvertes>>
  <2>1. Personnelle /\ tache'.proprio = o
    BY <1>4 DEF TypeOK, Tache, Next, vars, Assignation, Travail, Decision, Equipe,
         AssignerPrincipal,
                AssignerCoAssigne, RetirerAssigne, Accepter, Retourner, TacheRendue,
                Demarrer, Pauser, Reprendre, Declarer, AnnulerDeclaration, ValiderOk,
                ValiderLitige, Reouvrir, Supprimer, SupprimerParCascade, NouveauJeton,
                RejoindreBureau, QuitterBureau, SupprimerMembre,
                PasserLeTemps, PeutSupprimer, PeutRetirer, PeutAccepter,
                PeutRetourner, PeutDemarrer, PeutChronometrer, PeutDeclarer,
                PeutAnnulerDeclaration, PeutReouvrir, PeutValider
  <2>2. /\ {tache.assigneA, tache.assignePar} \subseteq {o, Nul} /\ coAssignes = {}
        /\ \A u \in User \ {o} : ouvertes[u] = 0
    BY <2>1
  <2>3. ASSUME NEW u \in User, PeutCharger(u) PROVE u = o
    BY <2>1, <2>3 DEF PeutCharger
  <2>4. CASE Assignation
    <3>1. ASSUME NEW u \in User, Accepter(u) PROVE PersonnelleResteAuProprietaire'
      BY <2>1, <2>2, <2>3, <3>1 DEF Accepter, TypeOK, Tache, PeutAccepter
    <3>2. ASSUME NEW u \in User, Retourner(u) PROVE PersonnelleResteAuProprietaire'
      BY <2>1, <2>2, <2>3, <3>2
         DEF Retourner, TacheRendue, ToutesSessionsFermees, AucuneSession, TypeOK,
             Tache, PeutRetourner
    <3>3. ASSUME NEW u \in User, NEW a \in User, RetirerAssigne(u, a)
          PROVE  PersonnelleResteAuProprietaire'
      BY <2>1, <2>2, <3>3 DEF RetirerAssigne, PeutRetirer
    <3> QED
      BY <2>1, <2>4, <3>1, <3>2, <3>3
         DEF Assignation, AssignerPrincipal, AssignerCoAssigne, AssignationPermise
  <2>5. CASE Travail
    <3>1. ASSUME NEW u \in User, u = o,
                 \/ ouvertes' = SessionAssuree(u)
                 \/ ouvertes' = SessionsSiennesFermees(u)
          PROVE  \A v \in User \ {o} : ouvertes'[v] = 0
      BY <2>2, <3>1 DEF SessionAssuree, SessionsSiennesFermees, TypeOK
    <3>2. /\ {tache'.assigneA, tache'.assignePar} \subseteq {o, Nul} /\ coAssignes' = {}
      BY <2>2, <2>5
         DEF Travail, Demarrer, Pauser, Reprendre, Declarer, AnnulerDeclaration,
             TypeOK, Tache, PeutDemarrer, PeutChronometrer, PeutDeclarer,
             PeutAnnulerDeclaration
    <3> QED
      BY <2>1, <2>3, <2>5, <3>1, <3>2
         DEF Travail, Demarrer, Pauser, Reprendre, Declarer, AnnulerDeclaration,
             PeutDemarrer, PeutChronometrer, PeutDeclarer, PeutAnnulerDeclaration
  <2>6. CASE Decision
    BY <1>4, <2>1, <2>2, <2>6
       DEF Decision, ValiderOk, ValiderLitige, Reouvrir, Supprimer,
           SupprimerParCascade, TypeOK, Tache, PeutSupprimer, PeutReouvrir, PeutValider
  <2>7. ASSUME NEW u \in User, SupprimerMembre(u)
        PROVE  PersonnelleResteAuProprietaire'
    <3>1. existe /\ u # o
      BY <1>4, <2>1, <2>7 DEF SupprimerMembre, SansLigne, NouvelleTache
    <3>2. coAssignes' = {} /\ ouvertes' = SessionsSiennesFermees(u)
      BY <2>2, <2>7, <3>1 DEF SupprimerMembre
    <3>3. {tache'.assigneA, tache'.assignePar} \subseteq {o, Nul}
      BY <2>2, <2>7, <3>1 DEF SupprimerMembre, OublierUser, TypeOK, Tache
    <3> QED BY <2>1, <2>2, <3>2, <3>3 DEF SessionsSiennesFermees, TypeOK
  <2> QED
    BY <1>4, <2>4, <2>5, <2>6, <2>7
       DEF Next, vars, Equipe, NouveauJeton, RejoindreBureau, QuitterBureau, PasserLeTemps
<1> QED BY <1>1, <1>2, <1>3, <1>4

(* A personal task never leaves its owner's hands. *)
THEOREM PersonnelleCorrect == Spec => []PersonnelleResteAuProprietaire
<1> USE DEF PersonnelleResteAuProprietaire, Personnelle
<1>1. Init => PersonnelleResteAuProprietaire
  BY DEF Init, NouvelleTache
<1>2. TypeOK /\ SansLigne /\ PersonnelleResteAuProprietaire /\ [Next]_vars
        => PersonnelleResteAuProprietaire'
  BY PersonnelleStep
<1> QED BY <1>1, <1>2, TypeCorrect, SansLigneCorrect, PTL DEF Spec

-----------------------------------------------------------------------------
(* An office task "to do" or "accepted" has no running stopwatch.          *)
THEOREM ChronoEteintCorrect == Spec => []ChronoEteintAvantDemarrage
<1> USE DEF ChronoEteintAvantDemarrage, Personnelle
<1>1. Init => ChronoEteintAvantDemarrage
  BY DEF Init
<1>2. TypeOK /\ SansLigne /\ ChronoEteintAvantDemarrage /\ [Next]_vars
        => ChronoEteintAvantDemarrage'
  <2> SUFFICES ASSUME TypeOK, SansLigne, ChronoEteintAvantDemarrage, [Next]_vars,
                      tache'.proprio = Nul, tache'.statut \in {"A_FAIRE", "ACCEPTEE"}
               PROVE  ouvertes' = AucuneSession
    BY DEF AucuneSession
  <2>1. CASE UNCHANGED <<tache, ouvertes>>
    BY <2>1
  <2>2. CASE Creation
    BY <2>2 DEF Creation, CreerPersonnelle, CreerDansBureau, CreerParIA,
                CreerDansProjet, CreerSansAssigne, Creer, SansLigne
  <2>3. CASE LigneSupprimee
    BY <2>3 DEF LigneSupprimee
  <2>4. CASE Assignation
    <3>1. ASSUME NEW u \in User, Retourner(u) PROVE ouvertes' = AucuneSession
      BY <3>1 DEF Retourner, ToutesSessionsFermees, PeutRetourner
    <3>2. CASE \A u \in User : ~Retourner(u)
      BY <2>4, <3>2 DEF Assignation, AssignerPrincipal, AssignerCoAssigne,
                        RetirerAssigne, Accepter, TypeOK, Tache, PeutRetirer, PeutAccepter
    <3> QED BY <3>1, <3>2
  <2>5. CASE Travail
    BY <2>5 DEF Travail, Demarrer, Pauser, Reprendre, Declarer, AnnulerDeclaration,
                TypeOK, Tache, PeutDemarrer, PeutChronometrer, PeutDeclarer,
                PeutAnnulerDeclaration
  <2>6. CASE Decision
    BY <2>3, <2>6 DEF Decision, ValiderOk, ValiderLitige, Reouvrir, Supprimer,
                      SupprimerParCascade, TypeOK, Tache,
                      PeutSupprimer, PeutReouvrir, PeutValider
  <2>7. ASSUME NEW u \in User, SupprimerMembre(u) PROVE ouvertes' = AucuneSession
    <3>1. CASE LigneSupprimee
      BY <2>3, <3>1
    <3>2. CASE ~LigneSupprimee
      <4>1. tache'.proprio = tache.proprio /\ tache'.statut = tache.statut
        BY <2>7, <3>2 DEF SupprimerMembre, TypeOK, Tache
      <4>2. ouvertes = AucuneSession /\ ouvertes' = SessionsSiennesFermees(u)
        BY <2>7, <3>2, <4>1 DEF SupprimerMembre
      <4> QED BY <4>2 DEF SessionsSiennesFermees, AucuneSession
    <3> QED BY <3>1, <3>2
  <2> QED
    BY <2>1, <2>2, <2>4, <2>5, <2>6, <2>7
       DEF Next, vars, Equipe, NouveauJeton, RejoindreBureau, QuitterBureau, PasserLeTemps
<1> QED BY <1>1, <1>2, TypeCorrect, SansLigneCorrect, PTL DEF Spec

-----------------------------------------------------------------------------
(* No date of the row lies in the future. *)
DatesBornees == \A d \in {tache.dateDebut, tache.dateDeclaration} : d # Nul => d <= horloge

(* A handler writes no date but the present instant.                         *)
LEMMA DatesBorneesCorrect == Spec => []DatesBornees
<1>1. Init => DatesBornees
  BY DEF Init, NouvelleTache, DatesBornees
<1>2. TypeOK /\ DatesBornees /\ [Next]_vars => DatesBornees'
  <2> SUFFICES ASSUME TypeOK, DatesBornees, [Next]_vars PROVE DatesBornees'
    OBVIOUS
  <2> USE DEF TypeOK, Tache, DateOuNul, Instant
  <2>1. CASE UNCHANGED <<tache, horloge>>
    BY <2>1 DEF DatesBornees
  <2>2. CASE PasserLeTemps
    BY <2>2 DEF PasserLeTemps, DatesBornees
  <2>3. CASE horloge' = horloge /\ tache'.dateDebut = Nul /\ tache'.dateDeclaration = Nul
    BY <2>3 DEF DatesBornees
  <2>4. ASSUME Creation \/ (LigneSupprimee /\ UNCHANGED horloge) PROVE DatesBornees'
    BY <2>3, <2>4
       DEF Creation, CreerPersonnelle, CreerDansBureau, CreerParIA, CreerDansProjet,
           CreerSansAssigne, Creer, LigneSupprimee, NouvelleTache
  <2>5. CASE horloge' = horloge /\ tache'.dateDebut = tache.dateDebut
                               /\ tache'.dateDeclaration = tache.dateDeclaration
    BY <2>5 DEF DatesBornees
  <2>6. CASE Assignation
    BY <2>3, <2>5, <2>6
       DEF Assignation, AssignerPrincipal, AssignerCoAssigne, RetirerAssigne, Accepter,
           Retourner, TacheRendue, PeutRetirer, PeutAccepter, PeutRetourner
  <2>7. CASE Travail
    <3>1. ASSUME NEW u \in User, Demarrer(u) PROVE DatesBornees'
      BY <3>1 DEF Demarrer, PremierDebut, DatesBornees, PeutDemarrer
    <3>2. ASSUME NEW u \in User, Declarer(u) PROVE DatesBornees'
      BY <3>2 DEF Declarer, DatesBornees, PeutDeclarer
    <3>3. ASSUME NEW u \in User, AnnulerDeclaration(u) PROVE DatesBornees'
      BY <3>3 DEF AnnulerDeclaration, DatesBornees, PeutAnnulerDeclaration
    <3> QED BY <2>1, <2>7, <3>1, <3>2, <3>3 DEF Travail, Pauser, Reprendre, PeutChronometrer
  <2>8. CASE Decision
    BY <2>3, <2>4, <2>5, <2>8
       DEF Decision, ValiderOk, ValiderLitige, Reouvrir, Supprimer,
           SupprimerParCascade, PeutSupprimer, PeutReouvrir, PeutValider
  <2>9. CASE Equipe
    BY <2>4, <2>5, <2>9
       DEF Equipe, NouveauJeton, RejoindreBureau, QuitterBureau, SupprimerMembre
  <2> QED BY <2>1, <2>2, <2>4, <2>6, <2>7, <2>8, <2>9 DEF Next, vars
<1> QED BY <1>1, <1>2, TypeCorrect, PTL DEF Spec

(* The dates of the row follow the life cycle.                             *)
THEOREM DatesCorrect == Spec => []DatesOrdonnees
<1> USE DEF DatesOrdonnees, Ordonnees
<1>1. Init => DatesOrdonnees
  BY DEF Init, NouvelleTache
<1>2. TypeOK /\ DatesBornees /\ DatesOrdonnees /\ [Next]_vars => DatesOrdonnees'
  <2> SUFFICES ASSUME TypeOK, DatesBornees, DatesOrdonnees, [Next]_vars
               PROVE  DatesOrdonnees'
    OBVIOUS
  <2> USE DEF TypeOK, DateOuNul, Instant, DatesBornees
  <2>1. CASE UNCHANGED tache
    BY <2>1
  <2>2. CASE /\ tache'.statut = "A_FAIRE"
             /\ tache'.dateDebut = Nul /\ tache'.dateDeclaration = Nul
    BY <2>2
  <2>3. CASE /\ tache'.statut = tache.statut
             /\ tache'.dateDebut = tache.dateDebut
             /\ tache'.dateDeclaration = tache.dateDeclaration
             /\ tache'.dateRenvoiRework = tache.dateRenvoiRework
             /\ tache'.dateValidation = tache.dateValidation
    BY <2>3
  <2>4. CASE Creation \/ LigneSupprimee
    BY <2>2, <2>4
       DEF Creation, CreerPersonnelle, CreerDansBureau, CreerParIA, CreerDansProjet,
           CreerSansAssigne, Creer, NouvelleTache, LigneSupprimee
  <2>5. CASE Assignation
    <3>1. ASSUME NEW u \in User, Accepter(u) PROVE DatesOrdonnees'
      <4>1. /\ tache.statut = "A_FAIRE" /\ tache'.statut = "ACCEPTEE"
            /\ tache'.dateDebut = tache.dateDebut
            /\ tache'.dateDeclaration = tache.dateDeclaration
        BY <3>1 DEF Accepter, Tache, PeutAccepter
      <4> QED BY <4>1
    <3>2. ASSUME NEW u \in User, NEW a \in User, NEW r \in BOOLEAN,
                 AssignerPrincipal(u, a, r)
          PROVE  DatesOrdonnees'
      BY <2>3, <3>2 DEF AssignerPrincipal, Tache
    <3>3. ASSUME NEW u \in User, Retourner(u) PROVE DatesOrdonnees'
      BY <2>2, <3>3 DEF Retourner, TacheRendue, Tache, PeutRetourner
    <3> QED
      BY <2>1, <2>5, <3>1, <3>2, <3>3 DEF Assignation, AssignerCoAssigne, RetirerAssigne,
           PeutRetirer
  <2>6. CASE Travail
    <3>1. ASSUME NEW u \in User, Demarrer(u) PROVE DatesOrdonnees'
      <4>1. /\ tache.statut \in {"ACCEPTEE", "A_REVOIR"}
            /\ tache'.statut = "EN_COURS"
            /\ tache'.dateDebut = PremierDebut
            /\ tache'.dateDeclaration = tache.dateDeclaration
        BY <3>1 DEF Demarrer, Tache, PeutDemarrer
      <4>2. CASE tache.statut = "ACCEPTEE"
        BY <4>1, <4>2 DEF PremierDebut
      <4>3. CASE tache.statut = "A_REVOIR"
        BY <4>1, <4>3 DEF PremierDebut
      <4> QED BY <4>1, <4>2, <4>3
    <3>2. ASSUME NEW u \in User, Declarer(u) PROVE DatesOrdonnees'
      <4>1. /\ tache.statut = "EN_COURS" /\ tache'.statut = "DECLARE"
            /\ tache'.dateDebut = tache.dateDebut
            /\ tache'.dateDeclaration = horloge
        BY <3>2 DEF Declarer, Tache, PeutDeclarer
      <4>2. tache.dateDebut # Nul /\ tache.dateDebut <= horloge /\ horloge # Nul
        BY <4>1
      <4> QED BY <4>1, <4>2
    <3>3. ASSUME NEW u \in User, AnnulerDeclaration(u) PROVE DatesOrdonnees'
      <4>1. /\ tache.statut = "DECLARE" /\ tache'.statut = "EN_COURS"
            /\ tache'.dateDebut = tache.dateDebut
            /\ tache'.dateDeclaration = Nul
        BY <3>3 DEF AnnulerDeclaration, Tache, PeutAnnulerDeclaration
      <4> QED BY <4>1
    <3> QED BY <2>1, <2>6, <3>1, <3>2, <3>3 DEF Travail, Pauser, Reprendre, PeutChronometrer
  <2>7. CASE Decision
    <3>1. ASSUME tache.statut = "DECLARE",
                 tache'.dateDebut = tache.dateDebut,
                 tache'.dateDeclaration = tache.dateDeclaration,
                 \/ tache'.statut = "VALIDE" /\ tache'.dateValidation = horloge
                 \/ tache'.statut = "A_REVOIR" /\ tache'.dateRenvoiRework = horloge
          PROVE  DatesOrdonnees'
      <4>1. /\ Ordonnees(tache.dateDebut, tache.dateDeclaration)
            /\ Ordonnees(tache.dateDeclaration, horloge)
        BY <3>1
      <4> QED BY <3>1, <4>1
    <3>2. ASSUME NEW u \in User, ValiderOk(u) \/ ValiderLitige(u) PROVE DatesOrdonnees'
      BY <3>1, <3>2 DEF ValiderOk, ValiderLitige, Tache, PeutValider
    <3>3. ASSUME NEW u \in User, Reouvrir(u) PROVE DatesOrdonnees'
      BY <2>2, <3>3 DEF Reouvrir, Tache, PeutReouvrir
    <3> QED BY <2>4, <2>7, <3>2, <3>3 DEF Decision, Supprimer, SupprimerParCascade,
         PeutSupprimer
  <2>8. CASE Equipe
    <3>1. ASSUME NEW u \in User, SupprimerMembre(u) PROVE DatesOrdonnees'
      BY <2>3, <2>4, <3>1 DEF SupprimerMembre, Tache
    <3> QED BY <2>1, <2>8, <3>1 DEF Equipe, NouveauJeton, RejoindreBureau, QuitterBureau
  <2> QED
    BY <2>1, <2>4, <2>5, <2>6, <2>7, <2>8 DEF Next, vars, PasserLeTemps
<1> QED BY <1>1, <1>2, TypeCorrect, DatesBorneesCorrect, PTL DEF Spec

-----------------------------------------------------------------------------
(* An assignee is lost only by handing the task back or leaving.           *)
THEOREM EngageeCorrect == Spec => EngageeJusquAuDepart
<1> DEFINE Permis == (existe' /\ tache.assigneA # Nul /\ tache'.assigneA = Nul)
                       => \/ tache'.statut = "A_FAIRE"
                          \/ tache.assigneA \notin comptes'
<1>1. TypeOK /\ [Next]_vars => Permis \/ UNCHANGED vars
  <2> SUFFICES ASSUME TypeOK, Next, existe', tache.assigneA # Nul, tache'.assigneA = Nul,
                      tache'.statut # "A_FAIRE"
               PROVE  tache.assigneA \notin comptes'
    BY DEF Permis
  <2> USE DEF TypeOK, Tache
  <2>1. ASSUME NEW u \in User, SupprimerMembre(u) PROVE tache.assigneA \notin comptes'
    BY <2>1 DEF SupprimerMembre, OublierUser, LigneSupprimee
  <2>2. ~Creation
    BY DEF Creation, CreerPersonnelle, CreerDansBureau, CreerParIA, CreerDansProjet,
           CreerSansAssigne, Creer, NouvelleTache
  <2>3. ~Assignation
    BY DEF Assignation, AssignerPrincipal, AssignerCoAssigne, RetirerAssigne, Accepter,
           Retourner, TacheRendue, PeutRetirer, PeutAccepter, PeutRetourner
  <2>4. ~Travail
    BY DEF Travail, Demarrer, Pauser, Reprendre, Declarer, AnnulerDeclaration, PeutDemarrer,
         PeutChronometrer, PeutDeclarer, PeutAnnulerDeclaration
  <2>5. ~Decision
    BY DEF Decision, ValiderOk, ValiderLitige, Reouvrir, Supprimer, SupprimerParCascade,
           LigneSupprimee, PeutSupprimer, PeutReouvrir, PeutValider
  <2> QED
    BY <2>1, <2>2, <2>3, <2>4, <2>5
       DEF Next, Equipe, NouveauJeton, RejoindreBureau, QuitterBureau, PasserLeTemps
<1> QED BY <1>1, TypeCorrect, PTL DEF Spec, EngageeJusquAuDepart

-----------------------------------------------------------------------------
(* What the web application offers (TacheEcran).                           *)

(* A personal task that is no longer to do is assigned: it was accepted,   *)
(* and only what puts it back to do takes its assignee away.               *)
PersonnelleEntamee ==
    (Personnelle /\ tache.statut # "A_FAIRE") => tache.assigneA = tache.proprio

LEMMA PersonnelleEntameeStep ==
    ASSUME TypeOK, SansLigne, PersonnelleResteAuProprietaire, PersonnelleEntamee, [Next]_vars
    PROVE  PersonnelleEntamee'
<1> USE DEF PersonnelleEntamee, Personnelle
<1>1. CASE UNCHANGED tache
  BY <1>1
<1>2. CASE Creation \/ LigneSupprimee
  BY <1>2 DEF Creation, CreerPersonnelle, CreerDansBureau, CreerParIA, CreerDansProjet,
              CreerSansAssigne, Creer, LigneSupprimee, NouvelleTache
<1>3. CASE Assignation
  <2>1. ASSUME NEW u \in User, NEW a \in User, NEW replace \in BOOLEAN,
               AssignerPrincipal(u, a, replace)
        PROVE  tache'.proprio = Nul
    BY <2>1 DEF AssignerPrincipal, AssignationPermise, TypeOK, Tache
  <2>2. ASSUME NEW u \in User, Accepter(u)
        PROVE  PersonnelleEntamee'
    BY <2>2 DEF Accepter, PeutAccepter, PeutCharger, TypeOK, Tache
  <2>3. ASSUME NEW u \in User, Retourner(u)
        PROVE  tache'.statut = "A_FAIRE"
    BY <2>3 DEF Retourner, TacheRendue, TypeOK, Tache
  <2> QED BY <1>1, <1>3, <2>1, <2>2, <2>3 DEF Assignation, AssignerCoAssigne, RetirerAssigne
<1>4. CASE Travail
  <2>1. ASSUME NEW u \in User, Demarrer(u) \/ Declarer(u) \/ AnnulerDeclaration(u)
        PROVE  PersonnelleEntamee'
    BY <2>1 DEF Demarrer, Declarer, AnnulerDeclaration, PeutDemarrer, PeutDeclarer,
                PeutAnnulerDeclaration, PeutCharger, TypeOK, Tache
  <2> QED BY <1>1, <1>4, <2>1 DEF Travail, Pauser, Reprendre
<1>5. CASE Decision
  <2>1. ASSUME NEW u \in User, ValiderOk(u) \/ ValiderLitige(u)
        PROVE  PersonnelleEntamee'
    BY <2>1 DEF ValiderOk, ValiderLitige, PeutValider, TypeOK, Tache
  <2>2. ASSUME NEW u \in User, Reouvrir(u)
        PROVE  tache'.statut = "A_FAIRE"
    BY <2>2 DEF Reouvrir, TypeOK, Tache
  <2> QED BY <1>2, <1>5, <2>1, <2>2 DEF Decision, Supprimer, SupprimerParCascade
<1>6. ASSUME NEW u \in User, SupprimerMembre(u)
      PROVE  PersonnelleEntamee'
  <2>1. CASE LigneSupprimee
    BY <1>2, <2>1
  <2>2. CASE ~LigneSupprimee
    <3>1. /\ ~(existe /\ tache.proprio = u)
          /\ tache' = [tache EXCEPT !.assigneA = OublierUser(u, tache.assigneA),
                                    !.assignePar = OublierUser(u, tache.assignePar),
                                    !.validePar = OublierUser(u, tache.validePar)]
      BY <1>6, <2>2 DEF SupprimerMembre
    <3>2. existe \/ tache.proprio = Nul
      BY DEF SansLigne, NouvelleTache
    <3>3. /\ tache'.proprio = tache.proprio /\ tache'.statut = tache.statut
          /\ tache'.assigneA = OublierUser(u, tache.assigneA)
      BY <3>1 DEF TypeOK, Tache
    <3> QED BY <3>1, <3>2, <3>3 DEF OublierUser
  <2> QED BY <2>1, <2>2
<1> QED
  BY <1>1, <1>2, <1>3, <1>4, <1>5, <1>6
     DEF Next, vars, Equipe, NouveauJeton, RejoindreBureau, QuitterBureau, PasserLeTemps

LEMMA PersonnelleEntameeCorrect == Spec => []PersonnelleEntamee
<1>1. Init => PersonnelleEntamee
  BY DEF Init, NouvelleTache, PersonnelleEntamee, Personnelle
<1>2. TypeOK /\ SansLigne /\ PersonnelleResteAuProprietaire /\ PersonnelleEntamee
        /\ [Next]_vars => PersonnelleEntamee'
  BY PersonnelleEntameeStep
<1> QED BY <1>1, <1>2, TypeCorrect, SansLigneCorrect, PersonnelleCorrect, PTL DEF Spec

(* A button of an up-to-date card is refused in the cases of CasDeRefus    *)
(* and in no other: elsewhere the conditions of the browser imply those of *)
(* the API, on an office task by themselves, on a personal one because     *)
(* only its owner can be its assignee, and is once it is no longer to do.  *)
THEOREM RefusExactsCorrect == Spec => []RefusExacts
<1>1. TypeOK /\ PersonnelleResteAuProprietaire /\ PersonnelleEntamee => RefusExacts
  <2> SUFFICES ASSUME TypeOK, PersonnelleResteAuProprietaire, PersonnelleEntamee,
                      NEW u \in User
               PROVE  /\ OffreReassigner(u) => PeutReassigner(u)
                      /\ \A lieu \in Lieux : Voit(u, lieu) => \A b \in DOMAIN Carte(u, lieu) :
                            Carte(u, lieu)[b] => (Reponse(u, lieu)[b] <=> ~CasDeRefus(u, b))
    BY DEF RefusExacts
  <2>1. OffreReassigner(u) => PeutReassigner(u)
    BY DEF OffreReassigner, VoitEnAlerte, BureauGere, PeutReassigner, AssignationPermise,
           PeutCharger, EstMembre, EstManager, Personnelle
  <2>2. ASSUME NEW lieu \in Lieux, Voit(u, lieu), NEW b, b \in DOMAIN Carte(u, lieu),
               Carte(u, lieu)[b], ~Reponse(u, lieu)[b]
        PROVE  CasDeRefus(u, b)
    <3>1. /\ existe /\ u \in comptes
          /\ lieu = "bureau" => ~Personnelle /\ EstMembre(u)
          /\ lieu # "bureau" => u \in {tache.assigneA, tache.proprio}
      BY <2>2 DEF Voit, VoitAuBureau, VoitDansLesSiennes
    <3>2. PeutCharger(u)
      BY <3>1 DEF PeutCharger, Personnelle, PersonnelleResteAuProprietaire
    <3>3. Chef(u, lieu) => EstManager(u)
      BY DEF Chef, EstManager
    <3>4. b \in {"accepter", "demarrer", "pauser", "reprendre", "declarer", "rendre", "cocher",
                 "decocher", "attribuer", "retirer", "dupliquer", "supprimer", "decider"}
      BY <2>2 DEF Carte
    <3>5. CASE b = "accepter"
      <4>1. OffreAccepter(u)
        BY <2>2, <3>5 DEF Carte
      <4>2. ~PeutAccepter(u)
        BY <2>2, <3>5 DEF Reponse
      <4> QED BY <3>2, <3>5, <4>1, <4>2 DEF OffreAccepter, PeutAccepter, CasDeRefus,
           Principal
    <3>6. CASE b = "demarrer"
      BY <2>2, <3>2, <3>6 DEF Carte, Reponse, PeutDemarrer, CasDeRefus, Principal
    <3>7. CASE b = "declarer"
      BY <2>2, <3>2, <3>7 DEF Carte, Reponse, PeutDeclarer, CasDeRefus, Principal
    <3>8. CASE b \in {"pauser", "reprendre"}
      <4>1. ouvertes[u] # 0 => Courante
        BY DEF Courante, TypeOK
      <4>2. CASE b = "pauser"
        <5>1. Principal(u) /\ tache.statut = "EN_COURS" /\ ~(PeutChronometrer(u) /\ ouvertes[u] # 0)
          BY <2>2, <4>2 DEF Carte, Reponse
        <5> QED BY <3>2, <4>2, <5>1 DEF PeutChronometrer, CasDeRefus, Principal
      <4>3. CASE b = "reprendre"
        <5>1. /\ Principal(u) /\ tache.statut = "EN_COURS" /\ ~Courante
              /\ ~(PeutChronometrer(u) /\ ouvertes[u] = 0)
          BY <2>2, <4>3 DEF Carte, Reponse
        <5> QED BY <3>2, <4>1, <5>1 DEF PeutChronometrer, Principal
      <4> QED BY <3>8, <4>2, <4>3
    <3>9. CASE b = "rendre"
      BY <2>2, <3>2, <3>9 DEF Carte, Reponse, OffreRendre, PeutRetourner
    <3>10. CASE b = "cocher"
      BY <2>2, <3>2, <3>10 DEF Carte, Reponse, OffreCocher, PeutCocher, Principal
    <3>11. CASE b = "decocher"
      BY <2>2, <3>1, <3>2, <3>11
         DEF Carte, Reponse, OffreDecocher, PeutReouvrir, Personnelle,
             PersonnelleEntamee, PeutCharger
    <3>12. CASE b = "attribuer"
      <4>1. ~Personnelle /\ EstManager(u) /\ Proposables(lieu) \subseteq membres
        BY <2>2, <3>3, <3>12 DEF Carte, OffreAttribuer, Proposables
      <4>2. EstMembre(u) \/ u \notin membres
        BY DEF EstMembre
      <4> QED BY <2>2, <3>2, <3>12, <4>1, <4>2 DEF Reponse, PeutAttribuer,
           AssignationPermise
    <3>13. CASE b = "retirer"
      BY <2>2, <3>2, <3>3, <3>13 DEF Carte, Reponse, PeutRetirer
    <3>14. CASE b = "dupliquer"
      BY <2>2, <3>2, <3>3, <3>14 DEF Carte, Reponse, PeutSupprimer
    <3>15. CASE b = "supprimer"
      <4>1. ~PeutSupprimer(u)
        BY <2>2, <3>15 DEF Reponse
      <4>2. role[u] = "ADMIN" \/ Chef(u, lieu) \/ Personnelle
        BY <2>2, <3>15 DEF Carte
      <4> QED BY <3>2, <3>3, <4>1, <4>2 DEF PeutSupprimer, EstManager
    <3>16. CASE b = "decider"
      BY <2>2, <3>2, <3>16 DEF Carte, Reponse, PeutValider, VoitAuCheckIn
    <3> QED BY <3>4, <3>5, <3>6, <3>8, <3>9, <3>10, <3>11, <3>12, <3>13, <3>14, <3>16,
              <3>7, <3>15
  <2>3. ASSUME NEW lieu \in Lieux, NEW b, CasDeRefus(u, b), Carte(u, lieu)[b]
        PROVE  ~Reponse(u, lieu)[b]
    <3>1. CASE b = "accepter"
      <4>1. (tache.assigneA = Nul /\ tache.statut # "A_FAIRE") \/ ~EstMembre(u)
        BY <2>3, <3>1 DEF CasDeRefus
      <4> QED BY <3>1, <4>1 DEF Reponse, PeutAccepter
    <3>2. CASE b \in {"demarrer", "declarer"}
      BY <2>3, <3>2 DEF CasDeRefus, Reponse, PeutDemarrer, PeutDeclarer
    <3>3. CASE b = "pauser"
      BY <2>3, <3>3 DEF CasDeRefus, Reponse
    <3>4. b \in {"accepter", "demarrer", "declarer", "pauser"}
      BY <2>3 DEF CasDeRefus
    <3> QED BY <3>1, <3>2, <3>3, <3>4
  <2> QED BY <2>1, <2>2, <2>3
<1> QED BY <1>1, TypeCorrect, PersonnelleCorrect, PersonnelleEntameeCorrect, PTL

(* Whom the row and the office name has an account, so has the owner of    *)
(* the organisation, whose role no request changes.                        *)
Presents ==
    /\ membres \subseteq comptes
    /\ Proprietaire \in comptes
    /\ role[Proprietaire] = RoleInitial[Proprietaire]
    /\ {tache.proprio, tache.assigneA, tache.assignePar} \subseteq comptes \cup {Nul}

(* Every request checks that who it names is there; a removal clears names.  *)
LEMMA PresentsStep ==
    ASSUME TypeOK, SansLigne, Presents, [Next]_vars
    PROVE  Presents'
<1> USE DEF TypeOK, Presents, equipe
<1>1. CASE UNCHANGED vars
  BY <1>1 DEF vars
<1>2. CASE UNCHANGED <<comptes, role, membres>> /\ tache' = NouvelleTache(Nul, Nul, Nul)
  BY <1>2 DEF NouvelleTache
<1>3. CASE Creation
  BY <1>3 DEF Creation, CreerPersonnelle, CreerDansBureau, CreerParIA, CreerDansProjet,
              CreerSansAssigne, Creer, NouvelleTache
<1>4. CASE Assignation
  <2> USE DEF Tache
  <2>1. ASSUME NEW u \in User, NEW a \in User, NEW r \in BOOLEAN, AssignerPrincipal(u, a, r)
        PROVE  Presents'
    BY <2>1 DEF AssignerPrincipal, AssignationPermise, PeutCharger
  <2>2. ASSUME NEW u \in User, Accepter(u) PROVE Presents'
    BY <2>2 DEF Accepter, PeutAccepter, PeutCharger
  <2>3. ASSUME NEW u \in User, Retourner(u) PROVE Presents'
    BY <2>3 DEF Retourner, TacheRendue
  <2> QED BY <1>4, <2>1, <2>2, <2>3 DEF Assignation, AssignerCoAssigne, RetirerAssigne
<1>5. ASSUME UNCHANGED <<comptes, role, membres>>, tache'.proprio = tache.proprio,
             tache'.assigneA = tache.assigneA, tache'.assignePar = tache.assignePar
      PROVE  Presents'
  BY <1>5
<1>6. CASE Travail \/ Decision
  <2> USE DEF Tache
  <2>1. ASSUME NEW u \in User, Demarrer(u) PROVE Presents'
    BY <1>5, <2>1 DEF Demarrer
  <2>2. ASSUME NEW u \in User, Pauser(u) \/ Reprendre(u) PROVE Presents'
    BY <2>2 DEF Pauser, Reprendre
  <2>3. ASSUME NEW u \in User, Declarer(u) \/ AnnulerDeclaration(u) PROVE Presents'
    BY <1>5, <2>3 DEF Declarer, AnnulerDeclaration
  <2>4. ASSUME NEW u \in User, ValiderOk(u) \/ ValiderLitige(u) \/ Reouvrir(u) PROVE Presents'
    BY <1>5, <2>4 DEF ValiderOk, ValiderLitige, Reouvrir
  <2>5. CASE LigneSupprimee /\ UNCHANGED equipe
    BY <1>2, <2>5 DEF LigneSupprimee
  <2> QED BY <1>6, <2>1, <2>2, <2>3, <2>4, <2>5 DEF Travail, Decision, Supprimer,
       SupprimerParCascade
<1>7. CASE Equipe
  <2>1. ASSUME NEW u \in User, NEW r \in RoleGlobal, NouveauJeton(u, r) PROVE Presents'
    BY <2>1 DEF NouveauJeton
  <2>2. ASSUME NEW u \in User, RejoindreBureau(u) \/ QuitterBureau(u) PROVE Presents'
    BY <2>2 DEF RejoindreBureau, QuitterBureau
  <2>3. ASSUME NEW u \in User, SupprimerMembre(u) PROVE Presents'
    <3>1. /\ comptes' = comptes \ {u} /\ membres' = membres \ {u} /\ role' = role
          /\ u # Proprietaire
      BY <2>3 DEF SupprimerMembre
    <3>2. CASE LigneSupprimee
      BY <3>1, <3>2 DEF LigneSupprimee, NouvelleTache
    <3>3. CASE ~LigneSupprimee
      <4>1. ~(existe /\ tache.proprio = u)
        BY <2>3, <3>3 DEF SupprimerMembre
      <4>2. tache.proprio # u
        BY <4>1 DEF SansLigne, NouvelleTache
      <4>3. /\ tache'.proprio = tache.proprio
            /\ tache'.assigneA = OublierUser(u, tache.assigneA)
            /\ tache'.assignePar = OublierUser(u, tache.assignePar)
        BY <2>3, <4>1 DEF SupprimerMembre, Tache
      <4> QED BY <3>1, <4>2, <4>3 DEF OublierUser
    <3> QED BY <3>2, <3>3
  <2> QED BY <1>7, <2>1, <2>2, <2>3 DEF Equipe
<1>8. CASE PasserLeTemps
  BY <1>8 DEF PasserLeTemps
<1> QED BY <1>1, <1>3, <1>4, <1>6, <1>7, <1>8 DEF Next

(* Whoever a task names has an account.                                      *)
LEMMA PresentsCorrect == Spec => []Presents
<1>1. Init => Presents
  BY DEF Init, Presents, NouvelleTache
<1>2. TypeOK /\ SansLigne /\ Presents /\ [Next]_vars => Presents'
  BY PresentsStep
<1> QED BY <1>1, <1>2, TypeCorrect, SansLigneCorrect, PTL DEF Spec

(* There is a way on from every task that is not validated, the two listed *)
(* dead ends apart, in every organisation whose owner started as an        *)
(* Authority: the owner of a personal task can check it, the owner of the  *)
(* organisation can give an office task to a member.                       *)
THEOREM PasDImpasseCorrect ==
    ASSUME RoleInitial[Proprietaire] = "ADMIN"
    PROVE  Spec => []PasDImpasse
<1>1. TypeOK /\ Presents /\ PersonnelleResteAuProprietaire => PasDImpasse
  <2> SUFFICES ASSUME TypeOK, Presents, PersonnelleResteAuProprietaire,
                      existe, tache.statut # "VALIDE",
                      Personnelle => tache.assigneA # Nul,
                      ~Personnelle => membres # {}
               PROVE  \E u \in User, lieu \in Lieux :
                         Voit(u, lieu) /\ \E b \in Avance : Carte(u, lieu)[b] /\ Reponse(u, lieu)[b]
    BY DEF PasDImpasse
  <2> USE DEF Lieux, Avance
  <2>1. CASE Personnelle
    <3> DEFINE u == tache.proprio
    <3>1. u \in User /\ u \in comptes /\ tache.assigneA = u
      BY <2>1 DEF Personnelle, Presents, PersonnelleResteAuProprietaire, TypeOK, Tache
    <3>2. Voit(u, "miennes")
      BY <3>1 DEF Voit, VoitDansLesSiennes
    <3>3. OffreCocher(u)
      BY <2>1, <3>1 DEF OffreCocher, Principal
    <3>4. PeutCocher(u)
      BY <3>1 DEF PeutCocher, PeutCharger
    <3>5. Carte(u, "miennes")["cocher"]
      BY <3>3 DEF Carte
    <3>6. Reponse(u, "miennes")["cocher"]
      BY <3>4 DEF Reponse
    <3> QED BY <3>1, <3>2, <3>5, <3>6
  <2>2. CASE ~Personnelle
    <3> DEFINE u == Proprietaire
    <3>1. u \in comptes /\ role[u] = "ADMIN" /\ EstMembre(u) /\ EstManager(u)
      BY DEF Presents, EstMembre, EstManager
    <3>2. Voit(u, "bureau")
      BY <2>2, <3>1 DEF Voit, VoitAuBureau
    <3>3. OffreAttribuer(u, "bureau")
      BY <2>2, <3>1 DEF OffreAttribuer, Chef, Proposables
    <3>4. PeutAttribuer(u, "bureau")
      BY <2>2, <3>1 DEF PeutAttribuer, Proposables, AssignationPermise, PeutCharger,
           Personnelle
    <3>5. Carte(u, "bureau")["attribuer"]
      BY <3>3 DEF Carte
    <3>6. Reponse(u, "bureau")["attribuer"]
      BY <3>4 DEF Reponse
    <3> QED BY <3>2, <3>5, <3>6
  <2> QED BY <2>1, <2>2
<1> QED BY <1>1, TypeCorrect, PresentsCorrect, PersonnelleCorrect, PTL

-----------------------------------------------------------------------------
(* Requests that interleave, statement by statement. *)

-----------------------------------------------------------------------------
(* Where a request may stand: what is left of its program. *)

RestesDe(op) ==
    {Programme[op]} \cup
      (CASE op \in {"demarrer", "annulerDeclaration"} ->
               {<<"chercherSession", "creerSession">>, <<"creerSession">>}
         [] op = "reprendre" -> {<<"creerSession">>}
         [] op = "assigner" -> {<<"mettreAJour">>}
         [] op = "retourner" -> {<<"fermerToutes", "mettreAJour">>, <<"mettreAJour">>}
         [] op = "declarer" -> {<<"fermerSiennes">>}
         [] OTHER -> {})

(* A request in hand, with a value of the right column in lu.                *)
Engagee(q) ==
    /\ q \in EnMain
    /\ q.reste \in RestesDe(q.op)
    /\ q.op = "demarrer" => q.lu \in DateOuNul
    /\ q.op \in {"accepter", "retourner"} => q.lu \in UserOuNul

EnRoute ==
    /\ TypeRequetes
    /\ \A r \in Requete : Occupee(r) => Engagee(requetes[r])

(* The programs, one by one.                                                 *)
LEMMA Operations ==
    Operation = {"assigner", "assignerCo", "retirerAssigne", "accepter", "retourner",
                 "demarrer", "pauser", "reprendre", "declarer", "annulerDeclaration",
                 "validerOk", "validerLitige", "reouvrir", "supprimer"}
BY DEF Operation, Programme

(* The statements of each request, written out.                              *)
LEMMA Programmes ==
    /\ Programme["assigner"] = <<"retirerCo", "mettreAJour">>
    /\ Programme["assignerCo"] = <<"ajouterCo">>
    /\ Programme["retirerAssigne"] = <<"retirerCo">>
    /\ Programme["retourner"] = <<"retirerCo", "fermerToutes", "mettreAJour">>
    /\ Programme["demarrer"] = <<"mettreAJour", "chercherSession", "creerSession">>
    /\ Programme["annulerDeclaration"] = <<"mettreAJour", "chercherSession", "creerSession">>
    /\ Programme["pauser"] = <<"fermerSiennes">>
    /\ Programme["reprendre"] = <<"chercherSession", "creerSession">>
    /\ Programme["declarer"] = <<"mettreAJour", "fermerSiennes">>
    /\ Programme["supprimer"] = <<"supprimer">>
    /\ \A op \in {"accepter", "validerOk", "validerLitige", "reouvrir"} :
          Programme[op] = <<"mettreAJour">>
BY DEF Programme, AvecChrono, AvecArret

(* Sequences of one, two and three statements.                               *)
LEMMA Une ==
    ASSUME NEW i \in Instruction
    PROVE  <<i>> \in Seq(Instruction) /\ Len(<<i>>) = 1 /\ Head(<<i>>) = i
OBVIOUS

(* Programs of two statements.                                               *)
LEMMA Deux ==
    ASSUME NEW i \in Instruction, NEW j \in Instruction
    PROVE  /\ <<i, j>> \in Seq(Instruction) /\ Len(<<i, j>>) = 2
           /\ Head(<<i, j>>) = i /\ Tail(<<i, j>>) = <<j>>
OBVIOUS

(* Of three.                                                                 *)
LEMMA Trois ==
    ASSUME NEW i \in Instruction, NEW j \in Instruction, NEW k \in Instruction
    PROVE  /\ <<i, j, k>> \in Seq(Instruction) /\ Len(<<i, j, k>>) = 3
           /\ Head(<<i, j, k>>) = i /\ Tail(<<i, j, k>>) = <<j, k>>
OBVIOUS

(* What may be left of each program.                                         *)
LEMMA Possibles ==
    /\ \A op \in {"demarrer", "annulerDeclaration"} :
          RestesDe(op) = {<<"mettreAJour", "chercherSession", "creerSession">>,
                          <<"chercherSession", "creerSession">>, <<"creerSession">>}
    /\ RestesDe("reprendre") = {<<"chercherSession", "creerSession">>, <<"creerSession">>}
    /\ RestesDe("assigner") = {<<"retirerCo", "mettreAJour">>, <<"mettreAJour">>}
    /\ RestesDe("retourner") = {<<"retirerCo", "fermerToutes", "mettreAJour">>,
                                <<"fermerToutes", "mettreAJour">>, <<"mettreAJour">>}
    /\ RestesDe("declarer") = {<<"mettreAJour", "fermerSiennes">>, <<"fermerSiennes">>}
    /\ RestesDe("assignerCo") = {<<"ajouterCo">>}
    /\ RestesDe("retirerAssigne") = {<<"retirerCo">>}
    /\ RestesDe("pauser") = {<<"fermerSiennes">>}
    /\ RestesDe("supprimer") = {<<"supprimer">>}
    /\ \A op \in {"accepter", "validerOk", "validerLitige", "reouvrir"} :
          RestesDe(op) = {<<"mettreAJour">>}
<1>1. \A op \in {"demarrer", "annulerDeclaration"} :
          RestesDe(op) = {<<"mettreAJour", "chercherSession", "creerSession">>,
                          <<"chercherSession", "creerSession">>, <<"creerSession">>}
  BY Programmes, Zenon DEF RestesDe
<1>2. RestesDe("reprendre") = {<<"chercherSession", "creerSession">>, <<"creerSession">>}
  BY Programmes DEF RestesDe
<1>3. RestesDe("assigner") = {<<"retirerCo", "mettreAJour">>, <<"mettreAJour">>}
  BY Programmes DEF RestesDe
<1>4. RestesDe("retourner") = {<<"retirerCo", "fermerToutes", "mettreAJour">>,
                                <<"fermerToutes", "mettreAJour">>, <<"mettreAJour">>}
  BY Programmes DEF RestesDe
<1>5. RestesDe("declarer") = {<<"mettreAJour", "fermerSiennes">>, <<"fermerSiennes">>}
  BY Programmes DEF RestesDe
<1>6. RestesDe("assignerCo") = {<<"ajouterCo">>}
  BY Programmes DEF RestesDe
<1>7. RestesDe("retirerAssigne") = {<<"retirerCo">>}
  BY Programmes DEF RestesDe
<1>8. RestesDe("pauser") = {<<"fermerSiennes">>}
  BY Programmes DEF RestesDe
<1>9. RestesDe("supprimer") = {<<"supprimer">>}
  BY Programmes DEF RestesDe
<1>10. \A op \in {"accepter", "validerOk", "validerLitige", "reouvrir"} :
          RestesDe(op) = {<<"mettreAJour">>}
  BY Programmes DEF RestesDe
<1> QED BY <1>1, <1>2, <1>3, <1>4, <1>5, <1>6, <1>7, <1>8, <1>9, <1>10

(* What is left is never nothing, its tail is left next, and the statement   *)
(* that creates a session is the last one and comes right after the one that *)
(* looks for it.                                                             *)
LEMMA Restes ==
    ASSUME NEW op \in Operation, NEW s \in RestesDe(op)
    PROVE  /\ s \in Seq(Instruction) /\ s # << >>
           /\ Len(s) # 1 => Tail(s) \in RestesDe(op)
           /\ Head(s) = "creerSession" => Len(s) = 1
           /\ Len(s) # 1 /\ Head(s) # "chercherSession" => Head(Tail(s)) # "creerSession"
           /\ Head(Programme[op]) # "creerSession"
<1> DEFINE Bien == /\ s \in Seq(Instruction) /\ s # << >>
                   /\ Len(s) # 1 => Tail(s) \in RestesDe(op)
                   /\ Head(s) = "creerSession" => Len(s) = 1
                   /\ Len(s) # 1 /\ Head(s) # "chercherSession" => Head(Tail(s)) # "creerSession"
                   /\ Head(Programme[op]) # "creerSession"
<1>0. {"mettreAJour", "chercherSession", "creerSession", "fermerSiennes", "fermerToutes",
       "retirerCo", "ajouterCo", "supprimer"} \subseteq Instruction
  BY DEF Instruction
<1>1. CASE op \in {"demarrer", "annulerDeclaration"}
  <2>1. RestesDe(op) = {<<"mettreAJour", "chercherSession", "creerSession">>,
                      <<"chercherSession", "creerSession">>,
                      <<"creerSession">>}
    BY <1>1, Possibles
  <2>2. ASSUME s = <<"mettreAJour", "chercherSession", "creerSession">> PROVE Bien
    BY <1>1, <2>1, <2>2, <1>0, Programmes, Une, Deux, Trois
  <2>3. ASSUME s = <<"chercherSession", "creerSession">> PROVE Bien
    BY <1>1, <2>1, <2>3, <1>0, Programmes, Une, Deux
  <2>4. ASSUME s = <<"creerSession">> PROVE Bien
    BY <1>1, <2>1, <2>4, <1>0, Programmes, Une
  <2> QED BY <2>1, <2>2, <2>3, <2>4
<1>2. CASE op = "reprendre"
  <2>1. RestesDe(op) = {<<"chercherSession", "creerSession">>,
                      <<"creerSession">>}
    BY <1>2, Possibles
  <2>2. ASSUME s = <<"chercherSession", "creerSession">> PROVE Bien
    BY <1>2, <2>1, <2>2, <1>0, Programmes, Une, Deux
  <2>3. ASSUME s = <<"creerSession">> PROVE Bien
    BY <1>2, <2>1, <2>3, <1>0, Programmes, Une
  <2> QED BY <2>1, <2>2, <2>3
<1>3. CASE op = "assigner"
  <2>1. RestesDe(op) = {<<"retirerCo", "mettreAJour">>,
                      <<"mettreAJour">>}
    BY <1>3, Possibles
  <2>2. ASSUME s = <<"retirerCo", "mettreAJour">> PROVE Bien
    BY <1>3, <2>1, <2>2, <1>0, Programmes, Une, Deux
  <2>3. ASSUME s = <<"mettreAJour">> PROVE Bien
    BY <1>3, <2>1, <2>3, <1>0, Programmes, Une
  <2> QED BY <2>1, <2>2, <2>3
<1>4. CASE op = "retourner"
  <2>1. RestesDe(op) = {<<"retirerCo", "fermerToutes", "mettreAJour">>,
                      <<"fermerToutes", "mettreAJour">>,
                      <<"mettreAJour">>}
    BY <1>4, Possibles
  <2>2. ASSUME s = <<"retirerCo", "fermerToutes", "mettreAJour">> PROVE Bien
    BY <1>4, <2>1, <2>2, <1>0, Programmes, Une, Deux, Trois
  <2>3. ASSUME s = <<"fermerToutes", "mettreAJour">> PROVE Bien
    BY <1>4, <2>1, <2>3, <1>0, Programmes, Une, Deux
  <2>4. ASSUME s = <<"mettreAJour">> PROVE Bien
    BY <1>4, <2>1, <2>4, <1>0, Programmes, Une
  <2> QED BY <2>1, <2>2, <2>3, <2>4
<1>5. CASE op = "declarer"
  <2>1. RestesDe(op) = {<<"mettreAJour", "fermerSiennes">>,
                      <<"fermerSiennes">>}
    BY <1>5, Possibles
  <2>2. ASSUME s = <<"mettreAJour", "fermerSiennes">> PROVE Bien
    BY <1>5, <2>1, <2>2, <1>0, Programmes, Une, Deux
  <2>3. ASSUME s = <<"fermerSiennes">> PROVE Bien
    BY <1>5, <2>1, <2>3, <1>0, Programmes, Une
  <2> QED BY <2>1, <2>2, <2>3
<1>6. CASE op \in {"assignerCo", "retirerAssigne", "accepter", "pauser", "validerOk",
                   "validerLitige", "reouvrir", "supprimer"}
  <2>1. PICK i \in Instruction \ {"creerSession"} : s = <<i>> /\ Programme[op] = <<i>>
    BY <1>6, <1>0, Possibles, Programmes
  <2> QED BY <2>1, Une
<1> QED BY <1>1, <1>2, <1>3, <1>4, <1>5, <1>6, Operations

(* What is left is the program or shorter than it.                           *)
LEMMA Longueurs ==
    ASSUME NEW op \in Operation, NEW s \in RestesDe(op)
    PROVE  /\ Len(s) \in 1..Len(Programme[op]) /\ Len(Programme[op]) \in Nat
           /\ s # Programme[op] => Len(s) < Len(Programme[op])
<1> DEFINE Bien == /\ Len(s) \in 1..Len(Programme[op]) /\ Len(Programme[op]) \in Nat
                   /\ s # Programme[op] => Len(s) < Len(Programme[op])
<1>1. CASE op \in {"demarrer", "annulerDeclaration"}
  <2>1. Programme[op] = <<"mettreAJour", "chercherSession", "creerSession">>
    BY <1>1, Programmes
  <2>2. Len(Programme[op]) = 3
    BY <2>1
  <2>3. s = Programme[op] \/ Len(s) = 1 \/ Len(s) = 2
    <3>1. s \in {<<"mettreAJour", "chercherSession", "creerSession">>,
              <<"chercherSession", "creerSession">>,
              <<"creerSession">>}
      BY <1>1, Possibles
    <3>2. Len(<<"chercherSession", "creerSession">>) = 2 /\ Len(<<"creerSession">>) = 1
      OBVIOUS
    <3> QED BY <2>1, <3>1, <3>2
  <2>4. CASE s = Programme[op]
    <3>1. Len(s) = Len(Programme[op])
      BY <2>4, Zenon
    <3> QED BY ONLY <2>2, <2>4, <3>1, SMT
  <2>5. CASE Len(s) = 1
    BY ONLY <2>2, <2>5, SMT
  <2>6. CASE Len(s) = 2
    BY ONLY <2>2, <2>6, SMT
  <2> QED BY <2>3, <2>4, <2>5, <2>6, Zenon
<1>2. CASE op = "reprendre"
  <2>1. Programme[op] = <<"chercherSession", "creerSession">>
    BY <1>2, Programmes
  <2>2. Len(Programme[op]) = 2
    BY <2>1
  <2>3. s = Programme[op] \/ Len(s) = 1
    <3>1. s \in {<<"chercherSession", "creerSession">>,
              <<"creerSession">>}
      BY <1>2, Possibles
    <3>2. Len(<<"creerSession">>) = 1
      OBVIOUS
    <3> QED BY <2>1, <3>1, <3>2
  <2>4. CASE s = Programme[op]
    <3>1. Len(s) = Len(Programme[op])
      BY <2>4, Zenon
    <3> QED BY ONLY <2>2, <2>4, <3>1, SMT
  <2>5. CASE Len(s) = 1
    BY ONLY <2>2, <2>5, SMT
  <2> QED BY <2>3, <2>4, <2>5, Zenon
<1>3. CASE op = "assigner"
  <2>1. Programme[op] = <<"retirerCo", "mettreAJour">>
    BY <1>3, Programmes
  <2>2. Len(Programme[op]) = 2
    BY <2>1
  <2>3. s = Programme[op] \/ Len(s) = 1
    <3>1. s \in {<<"retirerCo", "mettreAJour">>,
              <<"mettreAJour">>}
      BY <1>3, Possibles
    <3>2. Len(<<"mettreAJour">>) = 1
      OBVIOUS
    <3> QED BY <2>1, <3>1, <3>2
  <2>4. CASE s = Programme[op]
    <3>1. Len(s) = Len(Programme[op])
      BY <2>4, Zenon
    <3> QED BY ONLY <2>2, <2>4, <3>1, SMT
  <2>5. CASE Len(s) = 1
    BY ONLY <2>2, <2>5, SMT
  <2> QED BY <2>3, <2>4, <2>5, Zenon
<1>4. CASE op = "retourner"
  <2>1. Programme[op] = <<"retirerCo", "fermerToutes", "mettreAJour">>
    BY <1>4, Programmes
  <2>2. Len(Programme[op]) = 3
    BY <2>1
  <2>3. s = Programme[op] \/ Len(s) = 1 \/ Len(s) = 2
    <3>1. s \in {<<"retirerCo", "fermerToutes", "mettreAJour">>,
              <<"fermerToutes", "mettreAJour">>,
              <<"mettreAJour">>}
      BY <1>4, Possibles
    <3>2. Len(<<"fermerToutes", "mettreAJour">>) = 2 /\ Len(<<"mettreAJour">>) = 1
      OBVIOUS
    <3> QED BY <2>1, <3>1, <3>2
  <2>4. CASE s = Programme[op]
    <3>1. Len(s) = Len(Programme[op])
      BY <2>4, Zenon
    <3> QED BY ONLY <2>2, <2>4, <3>1, SMT
  <2>5. CASE Len(s) = 1
    BY ONLY <2>2, <2>5, SMT
  <2>6. CASE Len(s) = 2
    BY ONLY <2>2, <2>6, SMT
  <2> QED BY <2>3, <2>4, <2>5, <2>6, Zenon
<1>5. CASE op = "declarer"
  <2>1. Programme[op] = <<"mettreAJour", "fermerSiennes">>
    BY <1>5, Programmes
  <2>2. Len(Programme[op]) = 2
    BY <2>1
  <2>3. s = Programme[op] \/ Len(s) = 1
    <3>1. s \in {<<"mettreAJour", "fermerSiennes">>,
              <<"fermerSiennes">>}
      BY <1>5, Possibles
    <3>2. Len(<<"fermerSiennes">>) = 1
      OBVIOUS
    <3> QED BY <2>1, <3>1, <3>2
  <2>4. CASE s = Programme[op]
    <3>1. Len(s) = Len(Programme[op])
      BY <2>4, Zenon
    <3> QED BY ONLY <2>2, <2>4, <3>1, SMT
  <2>5. CASE Len(s) = 1
    BY ONLY <2>2, <2>5, SMT
  <2> QED BY <2>3, <2>4, <2>5, Zenon
<1>6. CASE op \in {"assignerCo", "retirerAssigne", "accepter", "pauser", "validerOk",
                   "validerLitige", "reouvrir", "supprimer"}
  <2>1. PICK i \in Instruction : s = <<i>> /\ Programme[op] = <<i>>
    BY <1>6, Possibles, Programmes DEF Instruction
  <2> QED BY <2>1
<1> QED BY <1>1, <1>2, <1>3, <1>4, <1>5, <1>6, Operations

-----------------------------------------------------------------------------
(* What one step does to the requests: each goes on, ends, or begins. *)

Commence(x) ==
    \E op \in Operation, u \in User, a \in User, replace \in BOOLEAN :
        /\ ~Occupee(x)
        /\ op \notin AvecCible => a = u /\ ~replace
        /\ Permise(op, u, a, replace)
        /\ UNCHANGED vars
        /\ requetes'[x] = [op |-> op, u |-> u, a |-> a, lu |-> LectureDe(op, tache),
                           reste |-> Programme[op]]

Continue(x) ==
    /\ Occupee(x) /\ Len(requetes[x].reste) # 1
    /\ requetes'[x] = [requetes[x] EXCEPT !.reste = Tail(@)]

(* A free request holds nothing.                                             *)
LEMMA LibrePasEnMain == Libre \notin EnMain
BY Operations DEF Libre, EnMain

(* One statement changes its own request only.                               *)
LEMMA PoursuivreUne ==
    ASSUME EnRoute, NEW r \in Requete, Occupee(r), Poursuivre(r) \/ Terminer(r),
           NEW x \in Requete
    PROVE  \/ requetes'[x] = requetes[x]
           \/ x = r /\ requetes'[x] = Libre
           \/ x = r /\ Continue(x)
BY DEF Poursuivre, Terminer, Continue, EnRoute, TypeRequetes, Engagee, EnMain

(* A statement: of an occupied request, which ends or goes on.               *)
LEMMA StatementUne ==
    ASSUME NEW r \in Requete, Statement(r)
    PROVE  Occupee(r) /\ (Poursuivre(r) \/ Terminer(r))
BY DEF Statement, MettreAJour, ChercherSession, CreerSession, FermerSiennes, FermerToutes,
       RetirerCo, AjouterCo, SupprimerLigne, Echouer, Attend

(* What a step does to any one request: nothing, its end, its next statement *)
(* or its beginning.                                                         *)
LEMMA Forme ==
    ASSUME EnRoute, [NextRequetes]_varsRequetes, NEW x \in Requete
    PROVE  \/ requetes'[x] = requetes[x]
           \/ requetes'[x] = Libre
           \/ Continue(x)
           \/ Commence(x)
<1>1. ASSUME NEW r \in Requete, Recevoir(r)
      PROVE  requetes'[x] = requetes[x] \/ Commence(x)
  <2>1. PICK op \in Operation, u \in User, a \in User, replace \in BOOLEAN :
           Charger(r, op, u, a, replace)
    BY <1>1 DEF Recevoir
  <2>2. CASE x # r
    BY <2>1, <2>2 DEF Charger, EnRoute, TypeRequetes
  <2>3. CASE x = r
    <3>1. requetes'[x] = [op |-> op, u |-> u, a |-> a, lu |-> LectureDe(op, tache),
                          reste |-> Programme[op]]
      BY <2>1, <2>3 DEF Charger, EnRoute, TypeRequetes
    <3> QED BY <2>1, <2>3, <3>1, Zenon DEF Charger, Commence
  <2> QED BY <2>2, <2>3
<1>2. ASSUME NEW r \in Requete, Statement(r)
      PROVE  \/ requetes'[x] = requetes[x]
             \/ requetes'[x] = Libre
             \/ Continue(x)
  BY <1>2, StatementUne, PoursuivreUne
<1>3. CASE Arret
  BY <1>3 DEF Arret
<1>4. CASE UNCHANGED requetes
  BY <1>4
<1> QED BY <1>1, <1>2, <1>3, <1>4 DEF NextRequetes, Ailleurs, Autour, Temps, varsRequetes

-----------------------------------------------------------------------------
(* Types. *)

(* The requests whose next statement is an update of the row.                *)
LEMMA MettentAJour ==
    ASSUME NEW q, Engagee(q), Head(q.reste) = "mettreAJour"
    PROVE  q.op \in {"assigner", "accepter", "retourner", "demarrer", "declarer",
                     "annulerDeclaration", "validerOk", "validerLitige", "reouvrir"}
<1>1. q.op \in Operation /\ q.reste \in RestesDe(q.op)
  BY DEF Engagee, EnMain
<1>2. CASE q.op \in {"assignerCo", "retirerAssigne", "pauser", "supprimer"}
  BY <1>1, <1>2, Possibles
<1>3. CASE q.op = "reprendre"
  BY <1>1, <1>3, Possibles
<1> QED BY <1>1, <1>2, <1>3, Operations

(* The row an update writes is a row.                                        *)
LEMMA LigneTypee ==
    ASSUME TypeOK, NEW q, Engagee(q), Head(q.reste) = "mettreAJour"
    PROVE  LigneMiseAJour(q) \in Tache
<1> USE DEF TypeOK, Tache, StatutTache, Instant, DateOuNul, UserOuNul
<1>1. q.u \in User /\ q.a \in User
  BY DEF Engagee, EnMain
<1>2. CASE q.op = "assigner"
  BY <1>1, <1>2 DEF LigneMiseAJour
<1>3. CASE q.op = "accepter"
  BY <1>1, <1>3 DEF LigneMiseAJour
<1>4. CASE q.op = "retourner"
  <2>1. q.lu \in UserOuNul
    BY <1>4 DEF Engagee
  <2> QED BY <1>1, <1>4, <2>1 DEF LigneMiseAJour
<1>5. CASE q.op = "demarrer"
  <2>1. DebutLu(q) \in DateOuNul
    BY <1>5 DEF Engagee, DebutLu
  <2> QED BY <1>5, <2>1 DEF LigneMiseAJour
<1>6. CASE q.op \in {"declarer", "annulerDeclaration"}
  BY <1>6 DEF LigneMiseAJour
<1>7. CASE q.op \in {"validerOk", "validerLitige"}
  BY ZenonT(40), <1>1, <1>7 DEF LigneMiseAJour
<1>8. CASE q.op = "reouvrir"
  BY <1>8 DEF LigneMiseAJour
<1> QED BY <1>2, <1>3, <1>4, <1>5, <1>6, <1>7, <1>8, MettentAJour

(* A request that begins has read the row.                                   *)
LEMMA LectureTypee ==
    ASSUME TypeOK, NEW op \in Operation
    PROVE  /\ LectureDe(op, tache) \in Lecture
           /\ op = "demarrer" => LectureDe(op, tache) \in DateOuNul
           /\ op \in {"accepter", "retourner"} => LectureDe(op, tache) \in UserOuNul
BY DEF TypeOK, Tache, LectureDe, Lecture, UserOuNul, DateOuNul

(* Every step keeps the types and leaves each request at a suffix of its     *)
(* program.                                                                  *)
LEMMA RequetesTypeStep ==
    ASSUME EnRoute, [NextRequetes]_varsRequetes
    PROVE  EnRoute'
<1> USE DEF EnRoute, TypeRequetes
<1>1. TypeOK'
  <2>1. CASE UNCHANGED vars
    BY <2>1, TypeStep
  <2>2. CASE Creation \/ Equipe \/ SupprimerParCascade \/ PasserLeTemps
    BY <2>2, TypeStep DEF Next, Decision
  <2>3. ASSUME NEW r \in Requete, MettreAJour(r) PROVE TypeOK'
    BY <2>3, LigneTypee DEF MettreAJour, Attend, TypeOK, equipe
  <2>4. ASSUME NEW r \in Requete, Occupee(r),
               CreerSession(r) \/ FermerSiennes(r) \/ FermerToutes(r)
        PROVE  TypeOK'
    <3>1. requetes[r].u \in User
      BY <2>4 DEF Engagee, EnMain
    <3>2. ouvertes' \in [User -> Nat]
      BY <2>4, <3>1 DEF CreerSession, FermerSiennes, FermerToutes, TypeOK,
           SessionsSiennesFermees,
                        ToutesSessionsFermees, AucuneSession
    <3> QED BY <2>4, <3>2 DEF CreerSession, FermerSiennes, FermerToutes, TypeOK, equipe
  <2>5. ASSUME NEW r \in Requete, Occupee(r), RetirerCo(r) \/ AjouterCo(r) PROVE TypeOK'
    <3>1. requetes[r].a \in User
      BY <2>5 DEF Engagee, EnMain
    <3> QED BY <2>5, <3>1 DEF RetirerCo, AjouterCo, TypeOK, equipe
  <2>6. ASSUME NEW r \in Requete, SupprimerLigne(r) PROVE TypeOK'
    BY <2>6, LigneSupprimeeType DEF SupprimerLigne, TypeOK, equipe
  <2>7. ASSUME NEW r \in Requete, Statement(r) PROVE TypeOK'
    BY <2>1, <2>3, <2>4, <2>5, <2>6, <2>7, StatementUne DEF Statement, ChercherSession,
         Echouer
  <2> QED
    BY <2>1, <2>2, <2>7
       DEF NextRequetes, Recevoir, Charger, Ailleurs, Autour, Temps, Arret, varsRequetes
<1>2. isole' \in BOOLEAN
  BY DEF NextRequetes, Recevoir, Charger, Statement, MettreAJour, ChercherSession,
       CreerSession,
         FermerSiennes, FermerToutes, RetirerCo, AjouterCo, SupprimerLigne,
         Echouer, Ailleurs,
         Autour, Temps, Arret, varsRequetes, AucuneEnMain
<1>3. ASSUME NEW x \in Requete
      PROVE  requetes'[x] = Libre \/ Engagee(requetes'[x])
  <2>1. CASE requetes'[x] = requetes[x]
    BY <2>1 DEF Occupee
  <2>2. CASE Continue(x)
    <3> DEFINE q == requetes[x]
    <3>1. Engagee(q) /\ Len(q.reste) # 1
      BY <2>2 DEF Continue
    <3>2. q \in EnMain /\ q.op \in Operation /\ q.reste \in RestesDe(q.op)
      BY <3>1 DEF Engagee, EnMain
    <3>3. Tail(q.reste) \in RestesDe(q.op)
      BY <3>1, <3>2, Restes
    <3>4. Tail(q.reste) \in Seq(Instruction)
      BY <3>2, <3>3, Restes
    <3>5. requetes'[x] = [q EXCEPT !.reste = Tail(q.reste)]
      BY <2>2 DEF Continue
    <3>6. /\ requetes'[x].op = q.op /\ requetes'[x].lu = q.lu
          /\ requetes'[x].reste = Tail(q.reste) /\ requetes'[x] \in EnMain
      BY <3>2, <3>4, <3>5 DEF EnMain
    <3> QED BY <3>1, <3>3, <3>6 DEF Engagee, DateOuNul, Instant, UserOuNul
  <2>3. CASE Commence(x)
    <3>1. PICK op \in Operation, u \in User, a \in User :
             requetes'[x] = [op |-> op, u |-> u, a |-> a, lu |-> LectureDe(op, tache),
                             reste |-> Programme[op]]
      BY <2>3 DEF Commence
    <3>2. Programme[op] \in RestesDe(op)
      BY DEF RestesDe
    <3>3. Programme[op] \in Seq(Instruction)
      BY <3>2, Restes
    <3> QED BY <3>1, <3>2, <3>3, LectureTypee DEF Engagee, EnMain
  <2> QED BY <2>1, <2>2, <2>3, Forme
<1>4. \E f : requetes' = [x \in Requete |-> f[x]]
  BY DEF NextRequetes, Recevoir, Charger, Statement, MettreAJour, ChercherSession,
       CreerSession,
         FermerSiennes, FermerToutes, RetirerCo, AjouterCo, SupprimerLigne,
         Echouer, Ailleurs,
         Autour, Temps, Arret, varsRequetes, Poursuivre, Terminer
<1>5. requetes' \in [Requete -> EnMain \cup {Libre}]
  BY <1>3, <1>4 DEF Engagee
<1> QED BY <1>1, <1>2, <1>3, <1>5, LibrePasEnMain DEF Occupee, Engagee

(* Every request in hand is a request of the program, with what is left of   *)
(* it, whatever the others do meanwhile.                                     *)
THEOREM RequetesTypeCorrect == SpecRequetes => []EnRoute
<1>1. InitRequetes => EnRoute
  BY TypeInit DEF InitRequetes, EnRoute, TypeRequetes, Occupee
<1>2. EnRoute /\ [NextRequetes]_varsRequetes => EnRoute'
  BY RequetesTypeStep
<1> QED BY <1>1, <1>2, PTL DEF SpecRequetes

-----------------------------------------------------------------------------
(* Open sessions. *)

(* Going on from the search of a session means that none was open.           *)
LEMMA ContinueSansSession ==
    ASSUME EnRoute, [NextRequetes]_varsRequetes, NEW x \in Requete, Continue(x),
           Head(requetes[x].reste) = "chercherSession"
    PROVE  ouvertes[requetes[x].u] = 0 /\ UNCHANGED ouvertes
<1> DEFINE q == requetes[x]
<1>1. q \in EnMain /\ q.op \in Operation /\ q.reste \in RestesDe(q.op)
  BY DEF EnRoute, Engagee, Continue, EnMain
<1>2. q.reste \in Seq(Instruction) /\ q.reste # << >>
  BY <1>1, Restes
<1>3. Len(Tail(q.reste)) # Len(q.reste)
  BY <1>2
<1>4. requetes'[x].reste = Tail(q.reste)
  BY <1>1 DEF Continue, EnMain
<1>5. requetes'[x] # q
  BY <1>3, <1>4
<1>6. requetes'[x] # Libre
  BY <1>1, LibrePasEnMain DEF Continue, EnMain, Libre, Operation, Programme
<1>7. ASSUME NEW r \in Requete, Recevoir(r) PROVE FALSE
  <2>1. PICK op \in Operation, u \in User, a \in User, replace \in BOOLEAN :
           Charger(r, op, u, a, replace)
    BY <1>7 DEF Recevoir
  <2>2. x # r
    BY <2>1 DEF Charger, Continue
  <2> QED BY <1>5, <2>1, <2>2 DEF Charger, EnRoute, TypeRequetes
<1>8. ASSUME NEW r \in Requete, Statement(r)
      PROVE  ouvertes[q.u] = 0 /\ UNCHANGED ouvertes
  <2>1. r = x
    BY <1>5, <1>8, StatementUne DEF Poursuivre, Terminer, EnRoute, TypeRequetes
  <2>2. ChercherSession(x)
    BY <1>8, <2>1 DEF Statement, MettreAJour, CreerSession, FermerSiennes, FermerToutes,
          RetirerCo, AjouterCo, SupprimerLigne, Echouer, Attend
  <2>3. ~SessionTrouvee(q.u)
    BY <1>6, <2>2 DEF ChercherSession, Terminer, EnRoute, TypeRequetes
  <2> QED BY <2>2, <2>3 DEF ChercherSession, SessionTrouvee, vars
<1>9. ~Arret
  BY <1>6 DEF Arret
<1> QED BY <1>5, <1>7, <1>8, <1>9 DEF NextRequetes, Ailleurs, Autour, Temps, varsRequetes

(* A step opens no session except by creating the one it was to create.      *)
LEMMA OuverturesParCreation ==
    ASSUME EnRoute, [NextRequetes]_varsRequetes, NEW u \in User,
           ~ \E r \in Requete : CreerSession(r) /\ requetes[r].u = u
    PROVE  ouvertes'[u] \in Nat /\ ouvertes'[u] <= ouvertes[u]
<1>0. ouvertes \in [User -> Nat]
  BY DEF EnRoute, TypeRequetes, TypeOK
<1>1. CASE UNCHANGED ouvertes
  BY <1>0, <1>1
<1>2. CASE ouvertes' = AucuneSession
  BY <1>0, <1>2 DEF AucuneSession
<1>3. ASSUME NEW v \in User, ouvertes' = SessionsSiennesFermees(v)
      PROVE  ouvertes'[u] \in Nat /\ ouvertes'[u] <= ouvertes[u]
  BY <1>0, <1>3 DEF SessionsSiennesFermees
<1>4. ASSUME NEW r \in Requete, Statement(r)
      PROVE  ouvertes'[u] \in Nat /\ ouvertes'[u] <= ouvertes[u]
  <2>1. requetes[r].u \in User
    BY <1>4, StatementUne DEF EnRoute, Engagee, EnMain
  <2>2. CASE CreerSession(r)
    <3>1. requetes[r].u # u
      BY <2>2
    <3>2. ouvertes' = [ouvertes EXCEPT ![requetes[r].u] = @ + 1]
      BY <2>2 DEF CreerSession
    <3> QED BY ONLY <1>0, <2>1, <3>1, <3>2
  <2>3. CASE ~CreerSession(r)
    BY <1>1, <1>2, <1>3, <1>4, <2>1, <2>3
       DEF Statement, MettreAJour, ChercherSession, FermerSiennes, FermerToutes, RetirerCo,
           AjouterCo, SupprimerLigne, LigneSupprimee, Echouer, ToutesSessionsFermees, vars
  <2> QED BY <2>2, <2>3
<1>5. CASE Ailleurs
  BY <1>1, <1>5 DEF Ailleurs, Creation, CreerPersonnelle, CreerDansBureau, CreerParIA,
                    CreerDansProjet, CreerSansAssigne, Creer
<1>6. CASE Autour
  BY <1>1, <1>2, <1>3, <1>6 DEF Autour, Equipe, NouveauJeton, RejoindreBureau,
       QuitterBureau,
                    SupprimerMembre, SupprimerParCascade, LigneSupprimee
<1> QED BY <1>1, <1>4, <1>5, <1>6
        DEF NextRequetes, Recevoir, Charger, Temps, PasserLeTemps, Arret, varsRequetes, vars

AttendLeur(u) == {r \in Requete : Attend(r, "creerSession") /\ requetes[r].u = u}

(* A request comes to the creation of a session from its search only.        *)
LEMMA AttenteApresRecherche ==
    ASSUME EnRoute, [NextRequetes]_varsRequetes, NEW u \in User, NEW x \in AttendLeur(u)',
           x \notin AttendLeur(u)
    PROVE  ouvertes[u] = 0 /\ UNCHANGED ouvertes
<1>1. x \in Requete /\ requetes'[x] # Libre /\ Head(requetes'[x].reste) = "creerSession"
      /\ requetes'[x].u = u
  BY DEF AttendLeur, Attend, Occupee
<1>2. requetes'[x] # requetes[x]
  BY <1>1 DEF AttendLeur, Attend, Occupee
<1>3. ~Commence(x)
  <2> SUFFICES ASSUME Commence(x) PROVE FALSE
    OBVIOUS
  <2>1. PICK op \in Operation : requetes'[x].reste = Programme[op]
    BY DEF Commence
  <2>2. Programme[op] \in RestesDe(op)
    BY DEF RestesDe
  <2> QED BY <1>1, <2>1, <2>2, Restes
<1>4. Continue(x)
  BY <1>1, <1>2, <1>3, Forme
<1> DEFINE q == requetes[x]
<1>5. q \in EnMain /\ q.op \in Operation /\ q.reste \in RestesDe(q.op)
  BY <1>1, <1>4 DEF EnRoute, Engagee, Continue, EnMain
<1>6. requetes'[x].reste = Tail(q.reste) /\ q.u = u
  BY <1>1, <1>4, <1>5 DEF Continue, EnMain
<1>7. Len(q.reste) # 1
  BY <1>4 DEF Continue
<1>8. Head(q.reste) = "chercherSession"
  BY <1>1, <1>5, <1>6, <1>7, Restes
<1> QED BY <1>1, <1>4, <1>6, <1>8, ContinueSansSession

(* The sessions one person gets by overlapping requests never exceed the     *)
(* requests in hand at a time, however many of them there may be.            *)
THEOREM SessionsBorneesCorrect == SpecRequetes => []SessionsBornees
<1> USE RequeteAssumption
<1> DEFINE Borne(u) == ouvertes[u] + Cardinality(AttendLeur(u)) <= Cardinality(Requete)
<1>1. SessionsBornees <=> \A u \in User : Borne(u)
  BY DEF SessionsBornees, AttendLeur
<1>2. InitRequetes => SessionsBornees
  <2> SUFFICES ASSUME InitRequetes, NEW u \in User PROVE Borne(u)
    BY <1>1
  <2>1. AttendLeur(u) = {} /\ ouvertes[u] = 0
    BY DEF InitRequetes, Init, AucuneSession, AttendLeur, Attend, Occupee
  <2>2. Cardinality({}) = 0 /\ Cardinality(Requete) \in Nat
    BY FS_EmptySet, FS_CardinalityType
  <2> QED BY <2>1, <2>2
<1>3. EnRoute /\ SessionsBornees /\ [NextRequetes]_varsRequetes => SessionsBornees'
  <2> SUFFICES ASSUME EnRoute, \A u \in User : Borne(u), [NextRequetes]_varsRequetes,
                      NEW u \in User
               PROVE  Borne(u)'
    BY <1>1 DEF SessionsBornees, AttendLeur
  <2> DEFINE S == AttendLeur(u)
             T == AttendLeur(u)'
  <2>1. /\ S \subseteq Requete /\ IsFiniteSet(S) /\ Cardinality(S) \in Nat
        /\ T \subseteq Requete /\ IsFiniteSet(T) /\ Cardinality(T) \in Nat
        /\ Cardinality(Requete) \in Nat /\ Cardinality(T) <= Cardinality(Requete)
    <3>1. S \subseteq Requete /\ T \subseteq Requete
      BY DEF AttendLeur
    <3> QED BY <3>1, FS_Subset, FS_CardinalityType
  <2>2. ouvertes[u] \in Nat /\ Borne(u)
    BY DEF EnRoute, TypeRequetes, TypeOK
  <2>3. CASE \E r \in Requete : CreerSession(r) /\ requetes[r].u = u
    <3>1. PICK r \in Requete : CreerSession(r) /\ requetes[r].u = u
      BY <2>3
    <3>2. r \in S
      BY <3>1 DEF CreerSession, AttendLeur
    <3>3. Terminer(r)
      <4>1. Head(requetes[r].reste) = "creerSession" /\ Engagee(requetes[r])
        BY <3>1 DEF CreerSession, Attend, EnRoute
      <4>2. Len(requetes[r].reste) = 1
        BY <4>1, Restes DEF Engagee, EnMain
      <4> QED BY <3>1, <4>2 DEF CreerSession, Poursuivre
    <3>4. T \subseteq S \ {r}
      BY <3>3 DEF Terminer, AttendLeur, Attend, Occupee, EnRoute, TypeRequetes
    <3>5. Cardinality(S \ {r}) = Cardinality(S) - 1 /\ IsFiniteSet(S \ {r})
      BY <2>1, <3>2, FS_RemoveElement
    <3>6. Cardinality(T) <= Cardinality(S) - 1
      BY <3>4, <3>5, FS_Subset
    <3>7. ouvertes'[u] = ouvertes[u] + 1
      BY <3>1 DEF CreerSession, EnRoute, TypeRequetes, TypeOK
    <3> QED BY <2>1, <2>2, <3>6, <3>7
  <2>4. CASE ~ \E r \in Requete : CreerSession(r) /\ requetes[r].u = u
    <3>1. ouvertes'[u] \in Nat /\ ouvertes'[u] <= ouvertes[u]
      BY <2>4, OuverturesParCreation
    <3>2. CASE T \subseteq S
      <4>1. Cardinality(T) <= Cardinality(S)
        BY <2>1, <3>2, FS_Subset
      <4> QED BY <2>1, <2>2, <3>1, <4>1
    <3>3. CASE ~(T \subseteq S)
      <4>1. ouvertes'[u] = 0
        BY <3>3, AttenteApresRecherche
      <4> QED BY <2>1, <4>1
    <3> QED BY <3>2, <3>3
  <2> QED BY <2>3, <2>4
<1> QED BY <1>2, <1>3, RequetesTypeCorrect, PTL DEF SpecRequetes

-----------------------------------------------------------------------------
(* Personal tasks. *)

(* The requests in hand on a personal task are its owner's, and write nobody *)
(* else into it.                                                             *)
EnMainDuProprietaire ==
    existe /\ Personnelle =>
      \A r \in Requete : Occupee(r) =>
          /\ requetes[r].u = tache.proprio
          /\ requetes[r].op \notin {"assigner", "assignerCo"}
          /\ requetes[r].op \in {"accepter", "retourner"} =>
                requetes[r].lu \in {tache.proprio, Nul}

PersonnelleInv == SansLigne /\ PersonnelleResteAuProprietaire /\ EnMainDuProprietaire

(* An update leaves the owner of the row alone and names, on a personal      *)
(* task, its owner only.                                                     *)
LEMMA LigneProprio ==
    ASSUME TypeOK, NEW q, Engagee(q), Head(q.reste) = "mettreAJour"
    PROVE  /\ LigneMiseAJour(q).proprio = tache.proprio
           /\ q.op \notin {"assigner", "accepter", "retourner"} =>
                 /\ LigneMiseAJour(q).assigneA = tache.assigneA
                 /\ LigneMiseAJour(q).assignePar = tache.assignePar
           /\ q.op = "accepter" =>
                 /\ LigneMiseAJour(q).assigneA \in {tache.assigneA, q.u}
                 /\ LigneMiseAJour(q).assignePar \in {tache.assignePar, q.u}
                 /\ q.lu # Nul => /\ LigneMiseAJour(q).assigneA = tache.assigneA
                                  /\ LigneMiseAJour(q).assignePar = tache.assignePar
           /\ q.op = "assigner" =>
                 /\ LigneMiseAJour(q).assigneA = q.a
                 /\ LigneMiseAJour(q).assignePar = q.u
           /\ q.op = "retourner" =>
                 /\ LigneMiseAJour(q).assigneA = q.lu
                 /\ LigneMiseAJour(q).assignePar = tache.assignePar
<1> USE DEF TypeOK, Tache
<1>1. CASE q.op = "assigner"
  BY <1>1 DEF LigneMiseAJour
<1>2. CASE q.op = "accepter"
  BY <1>2 DEF LigneMiseAJour
<1>3. CASE q.op = "retourner"
  BY <1>3 DEF LigneMiseAJour
<1>4. CASE q.op \in {"demarrer", "declarer", "annulerDeclaration"}
  BY <1>4 DEF LigneMiseAJour
<1>5. CASE q.op \in {"validerOk", "validerLitige", "reouvrir"}
  BY <1>5 DEF LigneMiseAJour
<1> QED BY <1>1, <1>2, <1>3, <1>4, <1>5, MettentAJour

(* No statement hangs anything from a row that is gone.                      *)
LEMMA SansLigneRequetesStep ==
    ASSUME EnRoute, SansLigne, [NextRequetes]_varsRequetes
    PROVE  SansLigne'
<1>0. TypeOK
  BY DEF EnRoute, TypeRequetes
<1>1. CASE UNCHANGED vars
  BY <1>0, <1>1, SansLigneStep
<1>2. CASE Creation \/ Equipe \/ SupprimerParCascade \/ PasserLeTemps
  BY <1>0, <1>2, SansLigneStep DEF Next, Decision
<1>3. ASSUME NEW r \in Requete, Statement(r), existe PROVE SansLigne'
  BY <1>3 DEF Statement, MettreAJour, ChercherSession, CreerSession, FermerSiennes,
       FermerToutes,
        RetirerCo, AjouterCo, SupprimerLigne, LigneSupprimee, Echouer, SansLigne, vars,
        NouvelleTache, AucuneSession
<1>4. ASSUME NEW r \in Requete, Statement(r), ~existe PROVE SansLigne'
  <2>1. /\ tache = NouvelleTache(Nul, Nul, Nul) /\ coAssignes = {} /\ ouvertes = AucuneSession
    BY <1>4 DEF SansLigne
  <2>2. CASE UNCHANGED vars
    BY <1>1, <2>2
  <2>3. CASE FermerSiennes(r)
    <3>1. ouvertes' = AucuneSession
      BY <2>1, <2>3 DEF FermerSiennes, SessionsSiennesFermees, AucuneSession
    <3> QED BY <2>1, <2>3, <3>1 DEF FermerSiennes, SansLigne, NouvelleTache, AucuneSession
  <2>4. CASE FermerToutes(r)
    BY <2>1, <2>4 DEF FermerToutes, ToutesSessionsFermees, SansLigne, NouvelleTache,
         AucuneSession
  <2>5. CASE RetirerCo(r)
    BY <2>1, <2>5 DEF RetirerCo, SansLigne, NouvelleTache, AucuneSession
  <2> QED BY <1>4, <2>2, <2>3, <2>4, <2>5
          DEF Statement, MettreAJour, ChercherSession, CreerSession, AjouterCo,
              SupprimerLigne,
              Echouer, Refusee
<1> QED BY <1>1, <1>2, <1>3, <1>4
        DEF NextRequetes, Recevoir, Charger, Ailleurs, Autour, Temps, Arret, varsRequetes

(* A row keeps its owner as long as it is there.                             *)
LEMMA ProprioFixe ==
    ASSUME EnRoute, SansLigne, [NextRequetes]_varsRequetes
    PROVE  \/ tache'.proprio = tache.proprio /\ (existe' => existe)
           \/ LigneSupprimee
           \/ Creation /\ AucuneEnMain /\ UNCHANGED requetes
<1> USE DEF EnRoute, TypeRequetes, TypeOK
<1>1. CASE UNCHANGED <<tache, existe>>
  BY <1>1
<1>2. ASSUME NEW r \in Requete, MettreAJour(r)
      PROVE  tache'.proprio = tache.proprio /\ (existe' => existe)
  BY <1>2, LigneProprio DEF MettreAJour, Attend
<1>3. ASSUME NEW r \in Requete, Statement(r), ~MettreAJour(r)
      PROVE  UNCHANGED <<tache, existe>> \/ LigneSupprimee
  BY <1>3 DEF Statement, ChercherSession, CreerSession, FermerSiennes, FermerToutes,
        RetirerCo, AjouterCo, SupprimerLigne, Echouer, vars
<1>4. ASSUME NEW u \in User, SupprimerMembre(u)
      PROVE  LigneSupprimee \/ (tache'.proprio = tache.proprio /\ (existe' => existe))
  BY <1>4 DEF SupprimerMembre, Tache
<1>5. CASE Autour
  BY <1>1, <1>4, <1>5 DEF Autour, Equipe, NouveauJeton, RejoindreBureau, QuitterBureau,
                    SupprimerParCascade
<1>6. CASE Temps
  BY <1>1, <1>6 DEF Temps, PasserLeTemps
<1> QED BY <1>1, <1>2, <1>3, <1>5, <1>6
        DEF NextRequetes, Recevoir, Charger, Ailleurs, Arret, varsRequetes, vars

(* Every step keeps personal tasks, and the requests under way on them, with *)
(* their owner.                                                              *)
LEMMA PersonnelleRequetesStep ==
    ASSUME EnRoute, PersonnelleInv, [NextRequetes]_varsRequetes
    PROVE  PersonnelleInv'
<1> USE DEF PersonnelleInv
<1>0. TypeOK
  BY DEF EnRoute, TypeRequetes
<1>1. SansLigne'
  BY SansLigneRequetesStep
<1>2. PersonnelleResteAuProprietaire'
  <2>1. CASE UNCHANGED vars
    BY <1>0, <2>1, PersonnelleStep
  <2>2. CASE Creation \/ Equipe \/ SupprimerParCascade \/ PasserLeTemps
    BY <1>0, <2>2, PersonnelleStep DEF Next, Decision
  <2>3. ASSUME NEW r \in Requete, Statement(r), tache'.proprio = tache.proprio, Personnelle
        PROVE  PersonnelleResteAuProprietaire'
    <3> DEFINE q == requetes[r]
               o == tache.proprio
    <3>1. existe
      BY <2>3 DEF SansLigne, NouvelleTache, Personnelle
    <3>2. /\ q.u = o /\ q.op \notin {"assigner", "assignerCo"}
          /\ q.op \in {"accepter", "retourner"} => q.lu \in {o, Nul}
          /\ Engagee(q) /\ q \in EnMain
      BY <2>3, <3>1, StatementUne DEF EnMainDuProprietaire, EnRoute, Engagee
    <3>3. /\ {tache.assigneA, tache.assignePar} \subseteq {o, Nul}
          /\ coAssignes = {}
          /\ \A u \in User \ {o} : ouvertes[u] = 0
      BY <2>3 DEF PersonnelleResteAuProprietaire
    <3>4. CASE MettreAJour(r)
      <4>1. {tache'.assigneA, tache'.assignePar} \subseteq {o, Nul}
        <5>1. Head(q.reste) = "mettreAJour" /\ tache' = LigneMiseAJour(q)
          BY <3>4 DEF MettreAJour, Attend
        <5>2. CASE q.op = "accepter"
          BY <1>0, <3>2, <3>3, <5>1, <5>2, LigneProprio
        <5>3. CASE q.op = "retourner"
          BY <1>0, <3>2, <3>3, <5>1, <5>3, LigneProprio
        <5>4. CASE q.op \notin {"assigner", "accepter", "retourner"}
          BY <1>0, <3>2, <3>3, <5>1, <5>4, LigneProprio
        <5> QED BY <3>2, <5>2, <5>3, <5>4
      <4> QED BY <2>3, <3>3, <3>4, <4>1 DEF MettreAJour, PersonnelleResteAuProprietaire
    <3>5. CASE UNCHANGED tache /\ coAssignes' \subseteq coAssignes
               /\ \A u \in User \ {o} : ouvertes'[u] = 0
      BY <2>3, <3>3, <3>5 DEF PersonnelleResteAuProprietaire
    <3>6. CASE CreerSession(r) \/ FermerSiennes(r) \/ FermerToutes(r)
      <4>1. \A u \in User \ {o} : ouvertes'[u] = 0
        BY <1>0, <3>2, <3>3, <3>6 DEF CreerSession, FermerSiennes, FermerToutes, TypeOK,
              SessionsSiennesFermees, ToutesSessionsFermees, AucuneSession
      <4> QED BY <3>5, <3>6, <4>1 DEF CreerSession, FermerSiennes, FermerToutes
    <3>7. CASE RetirerCo(r)
      BY <3>3, <3>5, <3>7 DEF RetirerCo
    <3>8. ~AjouterCo(r)
      <4>1. CASE q.op \in {"demarrer", "annulerDeclaration", "reprendre", "retourner", "declarer"}
        BY <3>2, <4>1, Possibles DEF AjouterCo, Attend, Engagee
      <4>2. CASE q.op \in {"retirerAssigne", "pauser", "supprimer", "accepter", "validerOk",
                           "validerLitige", "reouvrir"}
        BY <3>2, <4>2, Possibles DEF AjouterCo, Attend, Engagee
      <4> QED BY <3>2, <4>1, <4>2, Operations DEF EnMain
    <3>9. CASE UNCHANGED vars
      BY <2>1, <3>9
    <3>10. CASE SupprimerLigne(r)
      BY <2>3, <3>10 DEF SupprimerLigne, LigneSupprimee, NouvelleTache, Personnelle
    <3> QED BY <2>3, <3>4, <3>6, <3>7, <3>8, <3>9, <3>10
            DEF Statement, ChercherSession, Echouer
  <2>4. ASSUME NEW r \in Requete, Statement(r), ~Personnelle'
        PROVE  PersonnelleResteAuProprietaire'
    BY <2>4 DEF PersonnelleResteAuProprietaire
  <2>5. ASSUME NEW r \in Requete, Statement(r) PROVE PersonnelleResteAuProprietaire'
    <3>1. ~AucuneEnMain
      BY <2>5, StatementUne DEF AucuneEnMain
    <3>2. CASE LigneSupprimee
      BY <2>4, <2>5, <3>2 DEF LigneSupprimee, NouvelleTache, Personnelle
    <3> QED BY <2>3, <2>4, <2>5, <3>1, <3>2, ProprioFixe DEF Personnelle
  <2> QED BY <2>1, <2>2, <2>5
          DEF NextRequetes, Recevoir, Charger, Ailleurs, Autour, Temps, Arret, varsRequetes
<1>3. EnMainDuProprietaire'
  <2> SUFFICES ASSUME existe', Personnelle', NEW x \in Requete, Occupee(x)'
               PROVE  /\ requetes'[x].u = tache'.proprio
                      /\ requetes'[x].op \notin {"assigner", "assignerCo"}
                      /\ requetes'[x].op \in {"accepter", "retourner"} =>
                            requetes'[x].lu \in {tache'.proprio, Nul}
    BY DEF EnMainDuProprietaire
  <2>1. tache'.proprio = tache.proprio /\ existe /\ Personnelle
    BY ProprioFixe DEF LigneSupprimee, AucuneEnMain, Occupee, Personnelle
  <2>2. CASE requetes'[x] = requetes[x]
    BY <2>1, <2>2 DEF EnMainDuProprietaire, Occupee
  <2>3. CASE Continue(x)
    <3>1. /\ requetes'[x].u = requetes[x].u /\ requetes'[x].op = requetes[x].op
          /\ requetes'[x].lu = requetes[x].lu
      BY <2>3 DEF Continue, EnRoute, Engagee, EnMain
    <3> QED BY <2>1, <2>3, <3>1 DEF EnMainDuProprietaire, Continue
  <2>4. CASE Commence(x)
    <3>1. PICK op \in Operation, u \in User, a \in User, replace \in BOOLEAN :
             /\ Permise(op, u, a, replace)
             /\ requetes'[x] = [op |-> op, u |-> u, a |-> a, lu |-> LectureDe(op, tache),
                                reste |-> Programme[op]]
      BY <2>4 DEF Commence
    <3>2. op \notin {"assigner", "assignerCo"}
      BY <2>1, <3>1 DEF Permise, AssignationPermise
    <3>3. PeutCharger(u)
      BY <3>1, <3>2, Operations
         DEF Permise, PeutRetirer, PeutAccepter, PeutRetourner, PeutDemarrer,
             PeutChronometrer,
             PeutDeclarer, PeutAnnulerDeclaration, PeutValider, PeutReouvrir, PeutSupprimer
    <3>4. u = tache.proprio
      BY <2>1, <3>3 DEF PeutCharger, Personnelle
    <3>5. op \in {"accepter", "retourner"} => LectureDe(op, tache) \in {tache.proprio, Nul}
      BY <2>1 DEF LectureDe, PersonnelleResteAuProprietaire
    <3> QED BY <2>1, <3>1, <3>2, <3>4, <3>5
  <2> QED BY <2>2, <2>3, <2>4, Forme DEF Occupee
<1> QED BY <1>1, <1>2, <1>3

(* A personal task stays with its owner through every interleaving: no stale *)
(* update writes somebody else into it.                                      *)
THEOREM PersonnelleProtegeeCorrect == SpecRequetes => []PersonnelleProtegee
<1>1. InitRequetes => PersonnelleInv
  BY DEF InitRequetes, Init, PersonnelleInv, SansLigne, PersonnelleResteAuProprietaire,
         Personnelle, NouvelleTache, EnMainDuProprietaire
<1>2. EnRoute /\ PersonnelleInv /\ [NextRequetes]_varsRequetes => PersonnelleInv'
  BY PersonnelleRequetesStep
<1>3. PersonnelleInv => PersonnelleProtegee
  BY DEF PersonnelleInv, PersonnelleProtegee
<1> QED BY <1>1, <1>2, <1>3, RequetesTypeCorrect, PTL DEF SpecRequetes

-----------------------------------------------------------------------------
(* The refinement. *)

(* No update names an account that is gone: the foreign keys refuse it.      *)
LEMMA PresentsRequetesStep ==
    ASSUME EnRoute, SansLigne, Presents, [NextRequetes]_varsRequetes
    PROVE  Presents'
<1>0. TypeOK
  BY DEF EnRoute, TypeRequetes
<1>1. CASE UNCHANGED vars
  BY <1>0, <1>1, PresentsStep
<1>2. CASE Creation \/ Equipe \/ SupprimerParCascade \/ PasserLeTemps
  BY <1>0, <1>2, PresentsStep DEF Next, Decision
<1>3. CASE UNCHANGED <<equipe, tache>>
  BY <1>3 DEF equipe, Presents
<1>4. ASSUME NEW r \in Requete, MettreAJour(r) PROVE Presents'
  <2> DEFINE q == requetes[r]
  <2>1. /\ Engagee(q) /\ Head(q.reste) = "mettreAJour" /\ tache' = LigneMiseAJour(q)
        /\ ~Refusee(q) /\ UNCHANGED equipe
    BY <1>4 DEF MettreAJour, Attend, EnRoute
  <2>2. /\ q.op = "assigner" => q.u \in comptes /\ q.a \in comptes
        /\ q.op = "accepter" /\ q.lu = Nul => q.u \in comptes
        /\ q.op = "retourner" => q.lu \in comptes \cup {Nul}
    <3>1. Nommes(q) \subseteq comptes
      BY <2>1 DEF Refusee
    <3> QED BY <2>1, <3>1, Operations DEF Nommes
  <2>3. tache'.proprio = tache.proprio
    BY <1>0, <2>1, LigneProprio
  <2>4. {tache'.assigneA, tache'.assignePar} \subseteq comptes \cup {Nul}
    BY <1>0, <2>1, <2>2, LigneProprio DEF Presents
  <2> QED BY <2>1, <2>3, <2>4 DEF Presents, equipe
<1>5. ASSUME NEW r \in Requete, SupprimerLigne(r) PROVE Presents'
  BY <1>5 DEF SupprimerLigne, LigneSupprimee, NouvelleTache, Presents, equipe
<1>6. ASSUME NEW r \in Requete, Statement(r) PROVE Presents'
  BY <1>1, <1>3, <1>4, <1>5, <1>6
     DEF Statement, ChercherSession, CreerSession, FermerSiennes, FermerToutes, RetirerCo,
         AjouterCo, Echouer
<1> QED BY <1>1, <1>2, <1>6
        DEF NextRequetes, Recevoir, Charger, Ailleurs, Autour, Temps, Arret, varsRequetes

(* While no request has overlapped anything: the one request in hand, if     *)
(* there is one, may do what it does, and has read the row as it stands      *)
(* until its first write (the second one for reprendre, whose search writes  *)
(* nothing).                                                                 *)
Seule(r) == \A x \in Requete : Occupee(x) => x = r

EnRegle(q) ==
    /\ existe /\ q.u \in comptes
    /\ q.op # "retirerAssigne" => q.a \in comptes
    /\ q.op = "retourner" => q.lu \in comptes \cup {Nul}
    /\ q.reste = Programme[q.op] \/ q.op = "reprendre" =>
          /\ \E replace \in BOOLEAN :
                /\ q.op \notin AvecCible => q.a = q.u /\ ~replace
                /\ Permise(q.op, q.u, q.a, replace)
          /\ q.lu = LectureDe(q.op, tache)
    /\ q.op = "reprendre" /\ Head(q.reste) = "creerSession" => ouvertes[q.u] = 0

Isolement ==
    isole => \A r \in Requete : Occupee(r) => Seule(r) /\ EnRegle(requetes[r])

(* Checks depend on these columns only.                                      *)
LEMMA PermiseInchangee ==
    ASSUME UNCHANGED <<comptes, role, membres, existe, tache, coAssignes>>,
           NEW op, NEW u, NEW a, NEW replace, Permise(op, u, a, replace)
    PROVE  Permise(op, u, a, replace)'
BY DEF Permise, AssignationPermise, PeutRetirer, PeutAccepter, PeutRetourner, PeutDemarrer,
       PeutChronometrer, PeutDeclarer, PeutAnnulerDeclaration, PeutValider, PeutReouvrir,
       PeutSupprimer, PeutCharger, EstManager, EstMembre, EstAssigne, Personnelle

(* Checks passed on a row of present people concern present people.          *)
LEMMA PermisePresents ==
    ASSUME TypeOK, Presents, NEW op \in Operation, NEW u \in User, NEW a \in User,
           NEW replace \in BOOLEAN, op \notin AvecCible => a = u, Permise(op, u, a, replace)
    PROVE  /\ existe /\ u \in comptes
           /\ op # "retirerAssigne" => a \in comptes
           /\ op = "retourner" => LectureDe(op, tache) \in comptes \cup {Nul}
<1>1. CASE op \in {"assigner", "assignerCo"}
  BY <1>1 DEF Permise, AssignationPermise, PeutCharger, Presents
<1>2. CASE op \notin {"assigner", "assignerCo"}
  <2>1. PeutCharger(u)
    BY <1>2, Operations
       DEF Permise, PeutRetirer, PeutAccepter, PeutRetourner, PeutDemarrer,
           PeutChronometrer,
           PeutDeclarer, PeutAnnulerDeclaration, PeutValider, PeutReouvrir, PeutSupprimer
  <2>2. op # "retirerAssigne" => a = u
    BY <1>2 DEF AvecCible
  <2> QED BY <2>1, <2>2 DEF PeutCharger, LectureDe, Presents
<1> QED BY <1>1, <1>2

(* While nothing overlaps, the checks a request made on loading still hold.  *)
LEMMA IsolementStep ==
    ASSUME EnRoute, Presents, Isolement, [NextRequetes]_varsRequetes
    PROVE  Isolement'
<1> SUFFICES ASSUME isole', NEW x \in Requete, Occupee(x)'
             PROVE  Seule(x)' /\ EnRegle(requetes[x])'
  BY DEF Isolement
<1>0. TypeOK
  BY DEF EnRoute, TypeRequetes
<1>1. CASE /\ UNCHANGED <<comptes, role, membres, existe, tache, coAssignes, ouvertes>>
           /\ UNCHANGED <<requetes, isole>>
  <2>1. Occupee(x) /\ isole
    BY <1>1 DEF Occupee
  <2>2. Seule(x) /\ EnRegle(requetes[x])
    BY <2>1 DEF Isolement
  <2>3. Seule(x)'
    BY <1>1, <2>2 DEF Seule, Occupee
  <2> QED BY <1>1, <2>2, <2>3, PermiseInchangee DEF EnRegle
<1>2. ASSUME NEW r \in Requete, Recevoir(r)
      PROVE  Seule(x)' /\ EnRegle(requetes[x])'
  <2>1. PICK op \in Operation, u \in User, a \in User, replace \in BOOLEAN :
           Charger(r, op, u, a, replace)
    BY <1>2 DEF Recevoir
  <2>2. AucuneEnMain /\ UNCHANGED vars
    BY <2>1 DEF Charger
  <2>3. requetes' = [requetes EXCEPT ![r] =
                       [op |-> op, u |-> u, a |-> a, lu |-> LectureDe(op, tache),
                        reste |-> Programme[op]]]
    BY <2>1 DEF Charger
  <2>4. x = r /\ Seule(x)'
    BY <2>2, <2>3 DEF AucuneEnMain, Occupee, EnRoute, TypeRequetes, Seule
  <2>5. requetes'[x] = [op |-> op, u |-> u, a |-> a, lu |-> LectureDe(op, tache),
                        reste |-> Programme[op]]
    BY <2>3, <2>4 DEF EnRoute, TypeRequetes
  <2>6. Permise(op, u, a, replace) /\ (op \notin AvecCible => a = u /\ ~replace)
    BY <2>1 DEF Charger
  <2>7. UNCHANGED <<comptes, role, membres, existe, tache, coAssignes>>
    BY <2>2 DEF vars, equipe
  <2>8. Permise(op, u, a, replace)'
    BY <2>6, <2>7, PermiseInchangee
  <2>9. Head(Programme[op]) # "creerSession"
    <3>1. Programme[op] \in RestesDe(op)
      BY DEF RestesDe
    <3> QED BY <3>1, Restes
  <2>10. /\ existe' /\ u \in comptes'
         /\ op # "retirerAssigne" => a \in comptes'
         /\ op = "retourner" => LectureDe(op, tache) \in comptes' \cup {Nul}
    BY <1>0, <2>6, <2>7, PermisePresents
  <2> QED BY <2>4, <2>5, <2>6, <2>7, <2>8, <2>9, <2>10 DEF EnRegle
<1>3. ASSUME NEW r \in Requete, Statement(r)
      PROVE  Seule(x)' /\ EnRegle(requetes[x])'
  <2>1. Occupee(r) /\ UNCHANGED <<comptes, isole>>
    BY <1>3, StatementUne
       DEF Statement, MettreAJour, ChercherSession, CreerSession, FermerSiennes,
           FermerToutes,
           RetirerCo, AjouterCo, SupprimerLigne, Echouer, vars, equipe
  <2>2. Seule(r) /\ EnRegle(requetes[r])
    BY <2>1 DEF Isolement
  <2> DEFINE q == requetes[r]
  <2>3. /\ q \in EnMain /\ q.op \in Operation /\ q.reste \in RestesDe(q.op)
        /\ q.reste \in Seq(Instruction) /\ q.reste # << >>
    BY <2>1, Restes DEF EnRoute, Engagee, EnMain
  <2>4. \/ Terminer(r)
        \/ Len(q.reste) # 1 /\ requetes' = [requetes EXCEPT ![r].reste = Tail(@)]
    BY <1>3, StatementUne DEF Poursuivre
  <2>5. CASE Terminer(r)
    BY <2>2, <2>5 DEF Terminer, Occupee, Seule, EnRoute, TypeRequetes
  <2>6. CASE Len(q.reste) # 1 /\ requetes' = [requetes EXCEPT ![r].reste = Tail(@)]
    <3>1. x = r /\ Seule(x)'
      BY <2>2, <2>6 DEF Occupee, Seule, EnRoute, TypeRequetes
    <3>2. /\ requetes'[x] = [q EXCEPT !.reste = Tail(q.reste)] /\ Continue(x)
          /\ requetes'[x].op = q.op /\ requetes'[x].u = q.u /\ requetes'[x].a = q.a
          /\ requetes'[x].lu = q.lu /\ requetes'[x].reste = Tail(q.reste)
      BY <2>1, <2>3, <2>6, <3>1 DEF EnRoute, TypeRequetes, Continue, EnMain
    <3>3. UNCHANGED existe
      <4>1. CASE SupprimerLigne(r)
        <5>1. Head(q.reste) = "supprimer"
          BY <4>1 DEF SupprimerLigne, Attend
        <5>2. q.op = "supprimer"
          <6>1. CASE q.op \in {"demarrer", "annulerDeclaration", "reprendre", "retourner",
                               "declarer", "assigner", "assignerCo"}
            BY <2>3, <5>1, <6>1, Possibles
          <6>2. CASE q.op \in {"retirerAssigne", "pauser", "accepter", "validerOk",
                               "validerLitige", "reouvrir"}
            BY <2>3, <5>1, <6>2, Possibles
          <6> QED BY <2>3, <6>1, <6>2, Operations
        <5> QED BY <2>3, <2>6, <5>2, Possibles
      <4> QED BY <1>3, <4>1
              DEF Statement, MettreAJour, ChercherSession, CreerSession, FermerSiennes,
                  FermerToutes, RetirerCo, AjouterCo, Echouer, vars
    <3>4. Len(Tail(q.reste)) = Len(q.reste) - 1
      BY <2>3
    <3>5. Tail(q.reste) # Programme[q.op]
      <4>1. /\ Len(q.reste) \in 1..Len(Programme[q.op])
            /\ Len(Programme[q.op]) \in Nat
        BY <2>3, Longueurs
      <4>2. Len(Tail(q.reste)) # Len(Programme[q.op])
        BY ONLY <3>4, <4>1, SMT
      <4> QED BY <4>2, Zenon
    <3>6. CASE q.op # "reprendre"
      BY <2>1, <2>2, <3>1, <3>2, <3>3, <3>5, <3>6 DEF EnRegle
    <3>7. CASE q.op = "reprendre"
      <4>1. Head(q.reste) = "chercherSession"
        BY <2>3, <2>6, <3>7, Possibles
      <4>2. ouvertes[q.u] = 0 /\ UNCHANGED ouvertes
        BY <3>1, <3>2, <4>1, ContinueSansSession
      <4>3. UNCHANGED vars
        BY <1>3, <4>1 DEF Statement, MettreAJour, ChercherSession, CreerSession,
             FermerSiennes,
              FermerToutes, RetirerCo, AjouterCo, SupprimerLigne, Echouer, Attend
      <4>4. UNCHANGED <<comptes, role, membres, existe, tache, coAssignes>>
        BY <4>3 DEF vars, equipe
      <4> QED BY <2>2, <3>1, <3>2, <3>7, <4>2, <4>4, PermiseInchangee DEF EnRegle
    <3> QED BY <3>6, <3>7
  <2> QED BY <2>4, <2>5, <2>6
<1>4. CASE UNCHANGED requetes /\ AucuneEnMain
  BY <1>4 DEF AucuneEnMain, Occupee
<1>5. ~Arret
  BY DEF Arret
<1> QED BY <1>1, <1>2, <1>3, <1>4, <1>5
        DEF NextRequetes, Ailleurs, Autour, Temps, PasserLeTemps, varsRequetes, vars, equipe

(* The values the abstraction gives to the row and to the sessions, in one   *)
(* state and in the next: those of the tables when no request has begun to   *)
(* write, those its remaining statements will leave otherwise.               *)
LEMMA AucuneEntamee ==
    ASSUME ~UneEntamee
    PROVE  TacheAchevee = tache /\ OuvertesAchevees = ouvertes
BY DEF TacheAchevee, OuvertesAchevees, Reste

(* The row and the sessions as a request alone will leave them, by what is   *)
(* left of it.                                                               *)
LEMMA Achevement ==
    ASSUME NEW r \in Requete, Seule(r), Entamee(r)
    PROVE  /\ requetes[r].reste = <<"mettreAJour">> =>
                 TacheAchevee = LigneMiseAJour(requetes[r]) /\ OuvertesAchevees = ouvertes
           /\ requetes[r].reste = <<"fermerToutes", "mettreAJour">> =>
                 TacheAchevee = LigneMiseAJour(requetes[r]) /\ OuvertesAchevees = AucuneSession
           /\ requetes[r].reste = <<"fermerSiennes">> =>
                 TacheAchevee = tache /\ OuvertesAchevees = SessionsSiennesFermees(requetes[r].u)
           /\ requetes[r].reste = <<"chercherSession", "creerSession">> =>
                 TacheAchevee = tache /\ OuvertesAchevees = SessionAssuree(requetes[r].u)
           /\ requetes[r].reste = <<"creerSession">> =>
                 /\ TacheAchevee = tache
                 /\ OuvertesAchevees = [ouvertes EXCEPT ![requetes[r].u] = @ + 1]
<1> DEFINE s == requetes[r].reste
<1>1. UneEntamee
  BY DEF UneEntamee
<1>2. EnCours = r
  <2>1. EnCours \in Requete /\ Entamee(EnCours)
    BY <1>1 DEF UneEntamee, EnCours
  <2> QED BY <2>1 DEF Entamee, Seule
<1>3. ASSUME NEW i PROVE Reste(i) <=> \E k \in 1..Len(s) : s[k] = i
  BY <1>1, <1>2 DEF Reste
<1> HIDE DEF s
<1>4. CASE s = <<"mettreAJour">>
  <2>1. Reste("mettreAJour")
    BY <1>3, <1>4
  <2>2. /\ ~Reste("fermerToutes") /\ ~Reste("fermerSiennes")
        /\ ~Reste("chercherSession") /\ ~Reste("creerSession")
    BY <1>3, <1>4
  <2> QED BY <1>2, <1>4, <2>1, <2>2 DEF TacheAchevee, OuvertesAchevees, s
<1>5. CASE s = <<"fermerToutes", "mettreAJour">>
  <2>1. Reste("mettreAJour") /\ Reste("fermerToutes")
    BY <1>3, <1>5
  <2> QED BY <1>2, <1>5, <2>1 DEF TacheAchevee, OuvertesAchevees, ToutesSessionsFermees, s
<1>6. CASE s = <<"fermerSiennes">>
  <2>1. Reste("fermerSiennes")
    BY <1>3, <1>6
  <2>2. ~Reste("mettreAJour") /\ ~Reste("fermerToutes")
    BY <1>3, <1>6
  <2> QED BY <1>2, <1>6, <2>1, <2>2 DEF TacheAchevee, OuvertesAchevees, s
<1>7. CASE s = <<"chercherSession", "creerSession">>
  <2>1. Reste("chercherSession")
    BY <1>3, <1>7
  <2>2. /\ ~Reste("mettreAJour") /\ ~Reste("fermerToutes")
        /\ ~Reste("fermerSiennes")
    BY <1>3, <1>7
  <2> QED BY <1>2, <1>7, <2>1, <2>2 DEF TacheAchevee, OuvertesAchevees, s
<1>8. CASE s = <<"creerSession">>
  <2>1. Reste("creerSession")
    BY <1>3, <1>8
  <2>2. /\ ~Reste("mettreAJour") /\ ~Reste("fermerToutes")
        /\ ~Reste("fermerSiennes") /\ ~Reste("chercherSession")
    BY <1>3, <1>8
  <2> QED BY <1>2, <1>8, <2>1, <2>2 DEF TacheAchevee, OuvertesAchevees, s
<1> QED BY <1>4, <1>5, <1>6, <1>7, <1>8 DEF s

(* The same after a step: with no request begun, the row as it stands.       *)
LEMMA AucuneEntameeApres ==
    ASSUME ~UneEntamee'
    PROVE  TacheAchevee' = tache' /\ OuvertesAchevees' = ouvertes'
BY DEF TacheAchevee, OuvertesAchevees, Reste

(* With one begun, by what is left of it then.                               *)
LEMMA AchevementApres ==
    ASSUME NEW r \in Requete, Seule(r)', Entamee(r)'
    PROVE  /\ requetes'[r].reste = <<"mettreAJour">> =>
                 TacheAchevee' = LigneMiseAJour(requetes[r])' /\ OuvertesAchevees' = ouvertes'
           /\ requetes'[r].reste = <<"fermerToutes", "mettreAJour">> =>
                 TacheAchevee' = LigneMiseAJour(requetes[r])' /\ OuvertesAchevees' = AucuneSession
           /\ requetes'[r].reste = <<"fermerSiennes">> =>
                 TacheAchevee' = tache' /\ OuvertesAchevees' = SessionsSiennesFermees(requetes[r].u)'
           /\ requetes'[r].reste = <<"chercherSession", "creerSession">> =>
                 TacheAchevee' = tache' /\ OuvertesAchevees' = SessionAssuree(requetes[r].u)'
           /\ requetes'[r].reste = <<"creerSession">> =>
                 /\ TacheAchevee' = tache'
                 /\ OuvertesAchevees' = [ouvertes EXCEPT ![requetes[r].u] = @ + 1]'
<1> DEFINE s == requetes'[r].reste
<1>1. UneEntamee'
  BY DEF UneEntamee
<1>2. EnCours' = r
  <2>1. EnCours' \in Requete /\ Entamee(EnCours)'
    BY <1>1 DEF UneEntamee, EnCours
  <2> QED BY <2>1 DEF Entamee, Seule
<1>3. ASSUME NEW i PROVE Reste(i)' <=> \E k \in 1..Len(s) : s[k] = i
  BY <1>1, <1>2 DEF Reste
<1> HIDE DEF s
<1>4. CASE s = <<"mettreAJour">>
  <2>1. Reste("mettreAJour")'
    BY <1>3, <1>4
  <2>2. /\ ~Reste("fermerToutes")' /\ ~Reste("fermerSiennes")'
        /\ ~Reste("chercherSession")' /\ ~Reste("creerSession")'
    BY <1>3, <1>4
  <2> QED BY <1>2, <1>4, <2>1, <2>2 DEF TacheAchevee, OuvertesAchevees, s
<1>5. CASE s = <<"fermerToutes", "mettreAJour">>
  <2>1. Reste("mettreAJour")' /\ Reste("fermerToutes")'
    BY <1>3, <1>5
  <2> QED BY <1>2, <1>5, <2>1 DEF TacheAchevee, OuvertesAchevees, ToutesSessionsFermees, s
<1>6. CASE s = <<"fermerSiennes">>
  <2>1. Reste("fermerSiennes")'
    BY <1>3, <1>6
  <2>2. ~Reste("mettreAJour")' /\ ~Reste("fermerToutes")'
    BY <1>3, <1>6
  <2> QED BY <1>2, <1>6, <2>1, <2>2 DEF TacheAchevee, OuvertesAchevees, s
<1>7. CASE s = <<"chercherSession", "creerSession">>
  <2>1. Reste("chercherSession")'
    BY <1>3, <1>7
  <2>2. /\ ~Reste("mettreAJour")' /\ ~Reste("fermerToutes")'
        /\ ~Reste("fermerSiennes")'
    BY <1>3, <1>7
  <2> QED BY <1>2, <1>7, <2>1, <2>2 DEF TacheAchevee, OuvertesAchevees, s
<1>8. CASE s = <<"creerSession">>
  <2>1. Reste("creerSession")'
    BY <1>3, <1>8
  <2>2. /\ ~Reste("mettreAJour")' /\ ~Reste("fermerToutes")'
        /\ ~Reste("fermerSiennes")' /\ ~Reste("chercherSession")'
    BY <1>3, <1>8
  <2> QED BY <1>2, <1>8, <2>1, <2>2 DEF TacheAchevee, OuvertesAchevees, s
<1> QED BY <1>4, <1>5, <1>6, <1>7, <1>8 DEF s

(* Before anything is written, the abstraction checks what the code checks.  *)
LEMMA Gardes ==
    ASSUME TacheAchevee = tache, NEW u, NEW a
    PROVE  /\ Cycle!AssignationPermise(u, a) <=> AssignationPermise(u, a)
           /\ Cycle!PeutRetirer(u, a) <=> PeutRetirer(u, a)
           /\ Cycle!PeutAccepter(u) <=> PeutAccepter(u)
           /\ Cycle!PeutRetourner(u) <=> PeutRetourner(u)
           /\ Cycle!PeutDemarrer(u) <=> PeutDemarrer(u)
           /\ Cycle!PeutChronometrer(u) <=> PeutChronometrer(u)
           /\ Cycle!PeutDeclarer(u) <=> PeutDeclarer(u)
           /\ Cycle!PeutAnnulerDeclaration(u) <=> PeutAnnulerDeclaration(u)
           /\ Cycle!PeutValider(u) <=> PeutValider(u)
           /\ Cycle!PeutReouvrir(u) <=> PeutReouvrir(u)
           /\ Cycle!PeutSupprimer(u) <=> PeutSupprimer(u)
<1> USE DEF PeutCharger, EstManager, EstMembre, EstAssigne, Personnelle,
            Cycle!PeutCharger, Cycle!EstManager, Cycle!EstMembre, Cycle!EstAssigne,
            Cycle!Personnelle
<1>1. /\ Cycle!AssignationPermise(u, a) <=> AssignationPermise(u, a)
      /\ Cycle!PeutRetirer(u, a) <=> PeutRetirer(u, a)
  BY DEF AssignationPermise, PeutRetirer, Cycle!AssignationPermise, Cycle!PeutRetirer
<1>2. /\ Cycle!PeutAccepter(u) <=> PeutAccepter(u)
      /\ Cycle!PeutRetourner(u) <=> PeutRetourner(u)
      /\ Cycle!PeutDemarrer(u) <=> PeutDemarrer(u)
  BY DEF PeutAccepter, PeutRetourner, PeutDemarrer, Cycle!PeutAccepter, Cycle!PeutRetourner,
         Cycle!PeutDemarrer
<1>3. /\ Cycle!PeutChronometrer(u) <=> PeutChronometrer(u)
      /\ Cycle!PeutDeclarer(u) <=> PeutDeclarer(u)
      /\ Cycle!PeutAnnulerDeclaration(u) <=> PeutAnnulerDeclaration(u)
  BY DEF PeutChronometrer, PeutDeclarer, PeutAnnulerDeclaration, Cycle!PeutChronometrer,
         Cycle!PeutDeclarer, Cycle!PeutAnnulerDeclaration
<1>4. /\ Cycle!PeutValider(u) <=> PeutValider(u)
      /\ Cycle!PeutReouvrir(u) <=> PeutReouvrir(u)
      /\ Cycle!PeutSupprimer(u) <=> PeutSupprimer(u)
  BY DEF PeutValider, PeutReouvrir, PeutSupprimer, Cycle!PeutValider, Cycle!PeutReouvrir,
         Cycle!PeutSupprimer
<1> QED BY <1>1, <1>2, <1>3, <1>4

(* The one request in hand ends, or goes on: what the abstraction sees next. *)
LEMMA Fin ==
    ASSUME EnRoute, NEW r \in Requete, Seule(r), Terminer(r)
    PROVE  TacheAchevee' = tache' /\ OuvertesAchevees' = ouvertes'
<1>1. ~UneEntamee'
  BY DEF UneEntamee, Entamee, Occupee, Seule, Terminer, EnRoute, TypeRequetes
<1> QED BY <1>1, AucuneEntameeApres

(* A request that is not at its last statement goes on alone.                *)
LEMMA Suite ==
    ASSUME EnRoute, NEW r \in Requete, Occupee(r), Seule(r), requetes[r].op # "reprendre",
           Len(requetes[r].reste) # 1, Poursuivre(r)
    PROVE  /\ Seule(r)' /\ Entamee(r)'
           /\ requetes'[r].op = requetes[r].op /\ requetes'[r].u = requetes[r].u
           /\ requetes'[r].a = requetes[r].a /\ requetes'[r].lu = requetes[r].lu
           /\ requetes'[r].reste = Tail(requetes[r].reste)
<1> DEFINE q == requetes[r]
<1>1. /\ q \in EnMain /\ q.op \in Operation /\ q.reste \in RestesDe(q.op)
      /\ q.reste \in Seq(Instruction) /\ q.reste # << >>
  BY Restes DEF EnRoute, Engagee, EnMain
<1>2. requetes'[r] = [q EXCEPT !.reste = Tail(q.reste)]
  BY DEF Poursuivre, EnRoute, TypeRequetes
<1>3. /\ requetes'[r].op = q.op /\ requetes'[r].u = q.u /\ requetes'[r].a = q.a
      /\ requetes'[r].lu = q.lu /\ requetes'[r].reste = Tail(q.reste)
  BY <1>1, <1>2 DEF EnMain
<1>4. Seule(r)'
  BY DEF Poursuivre, Occupee, Seule, EnRoute, TypeRequetes
<1>5. requetes'[r] # Libre
  BY <1>1, <1>3, Operations DEF Libre
<1>6. Len(Tail(q.reste)) = Len(q.reste) - 1 /\ Len(q.reste) \in Nat
  BY <1>1
<1>7. Len(q.reste) \in 1..Len(Programme[q.op]) /\ Len(Programme[q.op]) \in Nat
  BY <1>1, Longueurs
<1>8. Len(Tail(q.reste)) < Len(Programme[q.op])
  BY ONLY <1>6, <1>7, SMT
<1>9. Entamee(r)'
  BY <1>3, <1>5, <1>8 DEF Entamee, Occupee
<1> QED BY <1>3, <1>4, <1>9

(* In isolation no statement is refused.                                     *)
LEMMA JamaisRefusee ==
    ASSUME NEW q, EnRegle(q), q.op # "retirerAssigne"
    PROVE  ~Refusee(q)
<1>1. /\ existe /\ q.u \in comptes /\ q.a \in comptes
      /\ q.op = "retourner" => q.lu \in comptes \cup {Nul}
  BY DEF EnRegle
<1> QED BY <1>1 DEF Nommes, Refusee

(* What a request that has begun to write still writes is already counted.   *)
LEMMA DeuxiemePhase ==
    ASSUME EnRoute, NEW r \in Requete, Seule(r), Entamee(r), EnRegle(requetes[r]), Statement(r)
    PROVE  UNCHANGED Cycle!vars
<1> DEFINE q == requetes[r]
<1> USE DEF Cycle!vars, Cycle!equipe, vars, equipe
<1>1. /\ q \in EnMain /\ q.op \in Operation /\ q.reste \in RestesDe(q.op)
      /\ Occupee(r) /\ q.op # "reprendre" /\ Len(q.reste) < Len(Programme[q.op])
      /\ ouvertes \in [User -> Nat] /\ q.u \in User
  BY DEF EnRoute, TypeRequetes, TypeOK, Engagee, EnMain, Entamee
<1>2. CASE q.reste = <<"mettreAJour">>
  <2>1. TacheAchevee = LigneMiseAJour(q) /\ OuvertesAchevees = ouvertes
    BY <1>2, Achevement
  <2>2. q.op # "retirerAssigne"
    BY <1>1, <1>2, Possibles
  <2>3. MettreAJour(r) /\ Terminer(r)
    BY <1>2, <2>2, JamaisRefusee
       DEF Statement, MettreAJour, ChercherSession, CreerSession, FermerSiennes,
           FermerToutes,
           RetirerCo, AjouterCo, SupprimerLigne, Echouer, Attend, Poursuivre
  <2>4. TacheAchevee' = tache' /\ OuvertesAchevees' = ouvertes'
    BY <2>3, Fin
  <2> QED BY <2>1, <2>3, <2>4 DEF MettreAJour
<1>3. CASE q.reste = <<"fermerToutes", "mettreAJour">>
  <2>1. TacheAchevee = LigneMiseAJour(q) /\ OuvertesAchevees = AucuneSession
    BY <1>3, Achevement
  <2>2. q.op = "retourner"
    <3>1. CASE q.op \in {"demarrer", "annulerDeclaration", "assigner", "declarer"}
      BY <1>1, <1>3, <3>1, Possibles
    <3>2. CASE q.op \in {"retirerAssigne", "pauser", "accepter", "validerOk", "assignerCo",
                         "validerLitige", "reouvrir", "supprimer"}
      BY <1>1, <1>3, <3>2, Possibles
    <3> QED BY <1>1, <3>1, <3>2, Operations
  <2>3. FermerToutes(r)
    BY <1>3 DEF Statement, MettreAJour, ChercherSession, CreerSession, FermerSiennes,
           RetirerCo, AjouterCo, SupprimerLigne, Echouer, Attend
  <2>4. requetes'[r].reste = <<"mettreAJour">> /\ Seule(r)' /\ Entamee(r)'
        /\ requetes'[r].op = q.op /\ requetes'[r].lu = q.lu
    <3>1. Len(q.reste) # 1 /\ Tail(q.reste) = <<"mettreAJour">>
      BY <1>3
    <3> QED BY <1>1, <2>3, <3>1, Suite DEF FermerToutes
  <2>5. TacheAchevee' = LigneMiseAJour(requetes[r])' /\ OuvertesAchevees' = ouvertes'
    BY <2>4, AchevementApres
  <2>6. LigneMiseAJour(requetes[r])' = LigneMiseAJour(q)
    BY <2>2, <2>3, <2>4 DEF LigneMiseAJour, FermerToutes
  <2> QED BY <2>1, <2>3, <2>5, <2>6 DEF FermerToutes, ToutesSessionsFermees
<1>4. CASE q.reste = <<"fermerSiennes">>
  <2>1. TacheAchevee = tache /\ OuvertesAchevees = SessionsSiennesFermees(q.u)
    BY <1>4, Achevement
  <2>2. FermerSiennes(r) /\ Terminer(r)
    BY <1>4 DEF Statement, MettreAJour, ChercherSession, CreerSession, FermerSiennes,
           FermerToutes, RetirerCo, AjouterCo, SupprimerLigne, Echouer, Attend, Poursuivre
  <2>3. TacheAchevee' = tache' /\ OuvertesAchevees' = ouvertes'
    BY <2>2, Fin
  <2> QED BY <2>1, <2>2, <2>3 DEF FermerSiennes
<1>5. CASE q.reste = <<"chercherSession", "creerSession">>
  <2>1. TacheAchevee = tache /\ OuvertesAchevees = SessionAssuree(q.u)
    BY <1>5, Achevement
  <2>2. ChercherSession(r)
    BY <1>5 DEF Statement, MettreAJour, CreerSession, FermerSiennes, FermerToutes,
           RetirerCo, AjouterCo, SupprimerLigne, Echouer, Attend
  <2>3. CASE SessionTrouvee(q.u)
    <3>1. TacheAchevee' = tache' /\ OuvertesAchevees' = ouvertes'
      BY <2>2, <2>3, Fin DEF ChercherSession
    <3> QED BY <2>1, <2>2, <2>3, <3>1 DEF ChercherSession, SessionTrouvee, SessionAssuree
  <2>4. CASE ~SessionTrouvee(q.u)
    <3>1. requetes'[r].reste = <<"creerSession">> /\ Seule(r)' /\ Entamee(r)'
          /\ requetes'[r].u = q.u
      <4>1. Len(q.reste) # 1 /\ Tail(q.reste) = <<"creerSession">>
        BY <1>5
      <4> QED BY <1>1, <2>2, <2>4, <4>1, Suite DEF ChercherSession
    <3>2. /\ TacheAchevee' = tache'
          /\ OuvertesAchevees' = [ouvertes EXCEPT ![requetes[r].u] = @ + 1]'
      BY <3>1, AchevementApres
    <3>3. OuvertesAchevees' = [ouvertes EXCEPT ![q.u] = @ + 1]
      BY <2>2, <3>1, <3>2 DEF ChercherSession
    <3>4. ouvertes[q.u] = 0
      BY <2>4 DEF SessionTrouvee
    <3>5. OuvertesAchevees' = OuvertesAchevees
      BY <1>1, <2>1, <3>3, <3>4 DEF SessionAssuree
    <3> QED BY <2>1, <2>2, <3>2, <3>5 DEF ChercherSession
  <2> QED BY <2>3, <2>4
<1>6. CASE q.reste = <<"creerSession">>
  <2>1. TacheAchevee = tache /\ OuvertesAchevees = [ouvertes EXCEPT ![q.u] = @ + 1]
    BY <1>6, Achevement
  <2>2. q.op # "retirerAssigne"
    BY <1>1, <1>6, Possibles
  <2>3. CreerSession(r) /\ Terminer(r)
    BY <1>6, <2>2, JamaisRefusee
       DEF Statement, MettreAJour, ChercherSession, CreerSession, FermerSiennes,
           FermerToutes, RetirerCo, AjouterCo, SupprimerLigne, Echouer, Attend, Poursuivre
  <2>4. TacheAchevee' = tache' /\ OuvertesAchevees' = ouvertes'
    BY <2>3, Fin
  <2> QED BY <2>1, <2>3, <2>4 DEF CreerSession
<1>7. q.reste \in {<<"mettreAJour">>, <<"fermerToutes", "mettreAJour">>, <<"fermerSiennes">>,
                   <<"chercherSession", "creerSession">>, <<"creerSession">>}
  <2>0. q.reste # Programme[q.op]
    <3>1. Len(q.reste) # Len(Programme[q.op])
      <4>1. Len(q.reste) \in Nat /\ Len(Programme[q.op]) \in Nat
        BY <1>1, Longueurs
      <4> QED BY ONLY <1>1, <4>1, SMT
    <3> QED BY <3>1, Zenon
  <2>1. CASE q.op \in {"demarrer", "annulerDeclaration"}
    BY <1>1, <2>0, <2>1, Possibles, Programmes
  <2>2. CASE q.op \in {"declarer", "assigner"}
    BY <1>1, <2>0, <2>2, Possibles, Programmes
  <2>3. CASE q.op = "retourner"
    BY <1>1, <2>0, <2>3, Possibles, Programmes
  <2>4. CASE q.op \in {"retirerAssigne", "pauser", "accepter", "validerOk", "assignerCo",
                       "validerLitige", "reouvrir", "supprimer"}
    BY <1>1, <2>0, <2>4, Possibles, Programmes
  <2> QED BY <1>1, <2>1, <2>2, <2>3, <2>4, Operations
<1> QED BY <1>2, <1>3, <1>4, <1>5, <1>6, <1>7

(* The first write of a request is the whole request of TacheCycle.          *)
LEMMA PremierePhase ==
    ASSUME EnRoute, NEW r \in Requete, Seule(r), Occupee(r), EnRegle(requetes[r]),
           requetes[r].op # "reprendre", requetes[r].reste = Programme[requetes[r].op],
           Statement(r)
    PROVE  Cycle!Next \/ UNCHANGED Cycle!vars
<1> DEFINE q == requetes[r]
<1> USE DEF Cycle!equipe, equipe
<1>0. ~UneEntamee
  <2>1. ASSUME NEW x \in Requete, Entamee(x) PROVE FALSE
    <3>1. x = r
      BY <2>1 DEF Entamee, Seule
    <3>2. Len(Programme[q.op]) < Len(Programme[q.op]) /\ q.op \in Operation
      BY <2>1, <3>1 DEF Entamee, EnRoute, Engagee, EnMain
    <3>3. Programme[q.op] \in RestesDe(q.op)
      BY DEF RestesDe
    <3>4. Len(Programme[q.op]) \in Nat
      BY <3>2, <3>3, Longueurs
    <3> QED BY ONLY <3>2, <3>4, SMT
  <2> QED BY <2>1 DEF UneEntamee
<1>1. TacheAchevee = tache /\ OuvertesAchevees = ouvertes
  BY <1>0, AucuneEntamee
<1>2. /\ q \in EnMain /\ q.op \in Operation /\ q.u \in User /\ q.a \in User /\ Engagee(q)
      /\ tache \in Tache /\ ouvertes \in [User -> Nat]
  BY DEF EnRoute, TypeRequetes, TypeOK, Engagee, EnMain
<1>3. PICK replace \in BOOLEAN :
         /\ q.op \notin AvecCible => q.a = q.u /\ ~replace
         /\ Permise(q.op, q.u, q.a, replace)
  BY DEF EnRegle
<1>4. Permise(q.op, q.u, q.a, replace) /\ (q.op \notin AvecCible => q.a = q.u)
  BY <1>3
<1>5. /\ q.reste = Programme[q.op] /\ Statement(r) /\ EnRegle(q)
      /\ q.lu = LectureDe(q.op, tache)
  BY DEF EnRegle
<1>6. CASE q.op = "assigner"
  <2>1. RetirerCo(r)
    BY <1>5, <1>6, Programmes
       DEF Statement, MettreAJour, ChercherSession, CreerSession, FermerSiennes,
           FermerToutes,
           AjouterCo, SupprimerLigne, Echouer, Attend
  <2>2. Len(q.reste) # 1 /\ Tail(q.reste) = <<"mettreAJour">>
    BY <1>5, <1>6, Programmes
  <2>3. /\ requetes'[r].reste = <<"mettreAJour">> /\ Seule(r)' /\ Entamee(r)'
        /\ requetes'[r].op = q.op /\ requetes'[r].u = q.u /\ requetes'[r].a = q.a
    BY <1>6, <2>1, <2>2, Suite DEF RetirerCo
  <2>4. TacheAchevee' = LigneMiseAJour(requetes[r])' /\ OuvertesAchevees' = ouvertes'
    BY <2>3, AchevementApres
  <2>5. TacheAchevee' = [tache EXCEPT !.assigneA = q.a, !.assignePar = q.u]
    BY <1>6, <2>1, <2>3, <2>4 DEF LigneMiseAJour, RetirerCo
  <2>6. AssignationPermise(q.u, q.a) /\ (replace \/ tache.assigneA \in {Nul, q.a})
    BY <1>4, <1>6 DEF Permise
  <2>7. Cycle!AssignerPrincipal(q.u, q.a, replace)
    BY <1>1, <2>1, <2>4, <2>5, <2>6, Gardes DEF RetirerCo, Cycle!AssignerPrincipal
  <2> QED BY <1>2, <2>7 DEF Cycle!Next, Cycle!Assignation
<1>7. CASE q.op = "assignerCo"
  <2>1. AjouterCo(r) /\ Terminer(r)
    BY <1>5, <1>7, Programmes, JamaisRefusee
       DEF Statement, MettreAJour, ChercherSession, CreerSession, FermerSiennes,
           FermerToutes,
           RetirerCo, AjouterCo, SupprimerLigne, Echouer, Attend, Poursuivre
  <2>2. TacheAchevee' = tache' /\ OuvertesAchevees' = ouvertes'
    BY <2>1, Fin
  <2>3. AssignationPermise(q.u, q.a) /\ tache.assigneA \notin {Nul, q.a}
    BY <1>4, <1>7 DEF Permise
  <2>4. Cycle!AssignerCoAssigne(q.u, q.a)
    BY <1>1, <2>1, <2>2, <2>3, Gardes DEF AjouterCo, Cycle!AssignerCoAssigne
  <2> QED BY <1>2, <2>4 DEF Cycle!Next, Cycle!Assignation
<1>8. CASE q.op = "retirerAssigne"
  <2>1. RetirerCo(r) /\ Terminer(r)
    BY <1>5, <1>8, Programmes
       DEF Statement, MettreAJour, ChercherSession, CreerSession, FermerSiennes,
           FermerToutes,
           RetirerCo, AjouterCo, SupprimerLigne, Echouer, Attend, Poursuivre
  <2>2. TacheAchevee' = tache' /\ OuvertesAchevees' = ouvertes'
    BY <2>1, Fin
  <2>3. PeutRetirer(q.u, q.a)
    BY <1>4, <1>8 DEF Permise
  <2>4. Cycle!RetirerAssigne(q.u, q.a)
    BY <1>1, <2>1, <2>2, <2>3, Gardes DEF RetirerCo, Cycle!RetirerAssigne
  <2> QED BY <1>2, <2>4 DEF Cycle!Next, Cycle!Assignation
<1>9. CASE q.op = "accepter"
  <2>0. q.reste = <<"mettreAJour">>
    <3>1. Programme[q.op] = <<"mettreAJour">>
      BY <1>9 DEF Programme
    <3> QED BY <1>5, <3>1
  <2>1. MettreAJour(r) /\ Terminer(r)
    <3>1. MettreAJour(r)
      BY <1>5, <1>9, <2>0, JamaisRefusee
         DEF Statement, ChercherSession, CreerSession, FermerSiennes, FermerToutes,
             RetirerCo,
             AjouterCo, SupprimerLigne, Echouer, Attend
    <3> QED BY <2>0, <3>1 DEF MettreAJour, Poursuivre
  <2>2. TacheAchevee' = tache' /\ OuvertesAchevees' = ouvertes'
    BY <2>1, Fin
  <2>3. PeutAccepter(q.u)
    BY <1>4, <1>9 DEF Permise
  <2>4. tache' = IF tache.assigneA = q.u
                 THEN [tache EXCEPT !.statut = "ACCEPTEE"]
                 ELSE [tache EXCEPT !.statut = "ACCEPTEE", !.assigneA = q.u, !.assignePar = q.u]
    <3>1. tache' = LigneMiseAJour(q) /\ q.lu = tache.assigneA /\ q.lu \in {Nul, q.u}
      BY <1>5, <1>9, <2>1, <2>3 DEF MettreAJour, LectureDe, PeutAccepter
    <3>2. CASE q.lu = Nul
      <4>1. tache' = [tache EXCEPT !.statut = "ACCEPTEE", !.assigneA = q.u, !.assignePar = q.u]
        BY <1>9, <3>1, <3>2 DEF LigneMiseAJour
      <4>2. tache.assigneA # q.u
        BY <1>2, <3>1, <3>2, NulAssumption
      <4> QED BY ONLY <4>1, <4>2, Zenon
    <3>3. CASE q.lu # Nul
      <4>1. tache' = [tache EXCEPT !.statut = "ACCEPTEE"]
        BY <1>9, <3>1, <3>3 DEF LigneMiseAJour
      <4> QED BY <3>1, <3>3, <4>1
    <3> QED BY <3>2, <3>3
  <2>5. Cycle!Accepter(q.u)
    BY <1>1, <2>1, <2>2, <2>3, <2>4, Gardes DEF MettreAJour, Cycle!Accepter
  <2> QED BY <1>2, <2>5 DEF Cycle!Next, Cycle!Assignation
<1>10. CASE q.op = "retourner"
  <2>1. RetirerCo(r)
    BY <1>5, <1>10, Programmes
       DEF Statement, MettreAJour, ChercherSession, CreerSession, FermerSiennes,
           FermerToutes,
           AjouterCo, SupprimerLigne, Echouer, Attend
  <2>2. Len(q.reste) # 1 /\ Tail(q.reste) = <<"fermerToutes", "mettreAJour">>
    BY <1>5, <1>10, Programmes
  <2>3. /\ requetes'[r].reste = <<"fermerToutes", "mettreAJour">> /\ Seule(r)' /\ Entamee(r)'
        /\ requetes'[r].op = q.op /\ requetes'[r].lu = q.lu
    BY <1>10, <2>1, <2>2, Suite DEF RetirerCo
  <2>4. TacheAchevee' = LigneMiseAJour(requetes[r])' /\ OuvertesAchevees' = AucuneSession
    BY <2>3, AchevementApres
  <2>5. TacheAchevee' = [tache EXCEPT !.statut = "A_FAIRE", !.assigneA = tache.assignePar,
                                      !.dateDebut = Nul, !.dateDeclaration = Nul]
    BY <1>5, <1>10, <2>1, <2>3, <2>4 DEF LigneMiseAJour, RetirerCo, LectureDe
  <2>6. PeutRetourner(q.u) /\ q.a = q.u
    BY <1>4, <1>10 DEF Permise, AvecCible
  <2>7. Cycle!Retourner(q.u)
    BY <1>1, <2>1, <2>4, <2>5, <2>6, Gardes
       DEF RetirerCo, Cycle!Retourner, Cycle!TacheRendue, Cycle!ToutesSessionsFermees,
           Cycle!AucuneSession, AucuneSession
  <2> QED BY <1>2, <2>7 DEF Cycle!Next, Cycle!Assignation
<1>11. CASE q.op = "demarrer"
  <2>1. MettreAJour(r)
    BY <1>5, <1>11, Programmes, JamaisRefusee
       DEF Statement, ChercherSession, CreerSession, FermerSiennes, FermerToutes, RetirerCo,
           AjouterCo, SupprimerLigne, Echouer, Attend
  <2>2. Len(q.reste) # 1 /\ Tail(q.reste) = <<"chercherSession", "creerSession">>
    BY <1>5, <1>11, Programmes
  <2>3. /\ requetes'[r].reste = <<"chercherSession", "creerSession">> /\ Seule(r)' /\ Entamee(r)'
        /\ requetes'[r].u = q.u
    BY <1>11, <2>1, <2>2, Suite DEF MettreAJour
  <2>4. TacheAchevee' = tache' /\ OuvertesAchevees' = SessionAssuree(requetes[r].u)'
    BY <2>3, AchevementApres
  <2>5. tache' = [tache EXCEPT !.statut = "EN_COURS", !.dateDebut = PremierDebut]
    BY <1>5, <1>11, <2>1 DEF MettreAJour, LigneMiseAJour, DebutLu, PremierDebut, LectureDe
  <2>6. OuvertesAchevees' = SessionAssuree(q.u)
    BY <2>1, <2>3, <2>4 DEF MettreAJour, SessionAssuree
  <2>7. PeutDemarrer(q.u)
    BY <1>4, <1>11 DEF Permise
  <2>8. Cycle!Demarrer(q.u)
    BY <1>1, <2>1, <2>4, <2>5, <2>6, <2>7, Gardes
       DEF MettreAJour, SessionAssuree, Cycle!SessionAssuree, Cycle!Demarrer,
           PremierDebut, Cycle!PremierDebut
  <2> QED BY <1>2, <2>8 DEF Cycle!Next, Cycle!Travail
<1>12. CASE q.op = "annulerDeclaration"
  <2>1. MettreAJour(r)
    BY <1>5, <1>12, Programmes, JamaisRefusee
       DEF Statement, ChercherSession, CreerSession, FermerSiennes, FermerToutes, RetirerCo,
           AjouterCo, SupprimerLigne, Echouer, Attend
  <2>2. Len(q.reste) # 1 /\ Tail(q.reste) = <<"chercherSession", "creerSession">>
    BY <1>5, <1>12, Programmes
  <2>3. /\ requetes'[r].reste = <<"chercherSession", "creerSession">> /\ Seule(r)' /\ Entamee(r)'
        /\ requetes'[r].u = q.u
    BY <1>12, <2>1, <2>2, Suite DEF MettreAJour
  <2>4. TacheAchevee' = tache' /\ OuvertesAchevees' = SessionAssuree(requetes[r].u)'
    BY <2>3, AchevementApres
  <2>5. tache' = [tache EXCEPT !.statut = "EN_COURS", !.dateDeclaration = Nul]
    BY <1>5, <1>12, <2>1 DEF MettreAJour, LigneMiseAJour
  <2>6. OuvertesAchevees' = SessionAssuree(q.u)
    BY <2>1, <2>3, <2>4 DEF MettreAJour, SessionAssuree
  <2>7. PeutAnnulerDeclaration(q.u)
    BY <1>4, <1>12 DEF Permise
  <2>8. Cycle!AnnulerDeclaration(q.u)
    BY <1>1, <2>1, <2>4, <2>5, <2>6, <2>7, Gardes
       DEF MettreAJour, SessionAssuree, Cycle!SessionAssuree, Cycle!AnnulerDeclaration
  <2> QED BY <1>2, <2>8 DEF Cycle!Next, Cycle!Travail
<1>13. CASE q.op = "declarer"
  <2>1. MettreAJour(r)
    BY <1>5, <1>13, Programmes, JamaisRefusee
       DEF Statement, ChercherSession, CreerSession, FermerSiennes, FermerToutes, RetirerCo,
           AjouterCo, SupprimerLigne, Echouer, Attend
  <2>2. Len(q.reste) # 1 /\ Tail(q.reste) = <<"fermerSiennes">>
    BY <1>5, <1>13, Programmes
  <2>3. /\ requetes'[r].reste = <<"fermerSiennes">> /\ Seule(r)' /\ Entamee(r)'
        /\ requetes'[r].u = q.u
    BY <1>13, <2>1, <2>2, Suite DEF MettreAJour
  <2>4. TacheAchevee' = tache' /\ OuvertesAchevees' = SessionsSiennesFermees(requetes[r].u)'
    BY <2>3, AchevementApres
  <2>5. tache' = [tache EXCEPT !.statut = "DECLARE", !.dateDeclaration = horloge]
    BY <1>5, <1>13, <2>1 DEF MettreAJour, LigneMiseAJour
  <2>6. OuvertesAchevees' = SessionsSiennesFermees(q.u)
    BY <2>1, <2>3, <2>4 DEF MettreAJour, SessionsSiennesFermees
  <2>7. PeutDeclarer(q.u)
    BY <1>4, <1>13 DEF Permise
  <2>8. Cycle!Declarer(q.u)
    BY <1>1, <2>1, <2>4, <2>5, <2>6, <2>7, Gardes
       DEF MettreAJour, SessionsSiennesFermees, Cycle!SessionsSiennesFermees, Cycle!Declarer
  <2> QED BY <1>2, <2>8 DEF Cycle!Next, Cycle!Travail
<1>14. CASE q.op = "validerOk"
  <2>0. q.reste = <<"mettreAJour">>
    <3>1. Programme[q.op] = <<"mettreAJour">>
      BY <1>14 DEF Programme
    <3> QED BY <1>5, <3>1
  <2>1. MettreAJour(r) /\ Terminer(r)
    <3>1. MettreAJour(r)
      BY <1>5, <1>14, <2>0, JamaisRefusee
         DEF Statement, ChercherSession, CreerSession, FermerSiennes, FermerToutes,
             RetirerCo,
             AjouterCo, SupprimerLigne, Echouer, Attend
    <3> QED BY <2>0, <3>1 DEF MettreAJour, Poursuivre
  <2>2. TacheAchevee' = tache' /\ OuvertesAchevees' = ouvertes'
    BY <2>1, Fin
  <2>3. PeutValider(q.u)
    BY <1>4, <1>14 DEF Permise
  <2>4. tache' = [tache EXCEPT !.statut = "VALIDE", !.dateValidation = horloge, !.validePar = q.u]
    BY <1>14, <2>1 DEF MettreAJour, LigneMiseAJour
  <2>5. Cycle!ValiderOk(q.u)
    BY <1>1, <2>1, <2>2, <2>3, <2>4, Gardes DEF MettreAJour, Cycle!ValiderOk
  <2> QED BY <1>2, <2>5 DEF Cycle!Next, Cycle!Decision
<1>15. CASE q.op = "validerLitige"
  <2>0. q.reste = <<"mettreAJour">>
    <3>1. Programme[q.op] = <<"mettreAJour">>
      BY <1>15 DEF Programme
    <3> QED BY <1>5, <3>1
  <2>1. MettreAJour(r) /\ Terminer(r)
    <3>1. MettreAJour(r)
      BY <1>5, <1>15, <2>0, JamaisRefusee
         DEF Statement, ChercherSession, CreerSession, FermerSiennes, FermerToutes,
             RetirerCo,
             AjouterCo, SupprimerLigne, Echouer, Attend
    <3> QED BY <2>0, <3>1 DEF MettreAJour, Poursuivre
  <2>2. TacheAchevee' = tache' /\ OuvertesAchevees' = ouvertes'
    BY <2>1, Fin
  <2>3. PeutValider(q.u)
    BY <1>4, <1>15 DEF Permise
  <2>4. tache' = [tache EXCEPT !.statut = "A_REVOIR", !.dateRenvoiRework = horloge]
    BY <1>15, <2>1 DEF MettreAJour, LigneMiseAJour
  <2>5. Cycle!ValiderLitige(q.u)
    BY <1>1, <2>1, <2>2, <2>3, <2>4, Gardes DEF MettreAJour, Cycle!ValiderLitige
  <2> QED BY <1>2, <2>5 DEF Cycle!Next, Cycle!Decision
<1>16. CASE q.op = "reouvrir"
  <2>0. q.reste = <<"mettreAJour">>
    <3>1. Programme[q.op] = <<"mettreAJour">>
      BY <1>16 DEF Programme
    <3> QED BY <1>5, <3>1
  <2>1. MettreAJour(r) /\ Terminer(r)
    <3>1. MettreAJour(r)
      BY <1>5, <1>16, <2>0, JamaisRefusee
         DEF Statement, ChercherSession, CreerSession, FermerSiennes, FermerToutes,
             RetirerCo,
             AjouterCo, SupprimerLigne, Echouer, Attend
    <3> QED BY <2>0, <3>1 DEF MettreAJour, Poursuivre
  <2>2. TacheAchevee' = tache' /\ OuvertesAchevees' = ouvertes'
    BY <2>1, Fin
  <2>3. PeutReouvrir(q.u)
    BY <1>4, <1>16 DEF Permise
  <2>4. tache' = [tache EXCEPT !.statut = "A_FAIRE", !.dateDebut = Nul,
                              !.dateDeclaration = Nul, !.dateValidation = Nul,
                              !.validePar = Nul]
    BY <1>16, <2>1 DEF MettreAJour, LigneMiseAJour
  <2>5. Cycle!Reouvrir(q.u)
    BY <1>1, <2>1, <2>2, <2>3, <2>4, Gardes DEF MettreAJour, Cycle!Reouvrir
  <2> QED BY <1>2, <2>5 DEF Cycle!Next, Cycle!Decision
<1>17. CASE q.op = "supprimer"
  <2>1. SupprimerLigne(r) /\ Terminer(r)
    BY <1>5, <1>17, Programmes, JamaisRefusee
       DEF Statement, MettreAJour, ChercherSession, CreerSession, FermerSiennes,
           FermerToutes,
           RetirerCo, AjouterCo, SupprimerLigne, Echouer, Attend, Poursuivre
  <2>2. TacheAchevee' = tache' /\ OuvertesAchevees' = ouvertes'
    BY <2>1, Fin
  <2>3. PeutSupprimer(q.u)
    BY <1>4, <1>17 DEF Permise
  <2>4. Cycle!Supprimer(q.u)
    BY <1>1, <2>1, <2>2, <2>3, Gardes
       DEF SupprimerLigne, LigneSupprimee, NouvelleTache, AucuneSession, Cycle!Supprimer,
           Cycle!LigneSupprimee, Cycle!NouvelleTache, Cycle!AucuneSession
  <2> QED BY <1>2, <2>4 DEF Cycle!Next, Cycle!Decision
<1>18. CASE q.op = "pauser"
  <2>1. FermerSiennes(r) /\ Terminer(r)
    BY <1>5, <1>18, Programmes, JamaisRefusee
       DEF Statement, MettreAJour, ChercherSession, CreerSession, FermerSiennes,
           FermerToutes,
           RetirerCo, AjouterCo, SupprimerLigne, Echouer, Attend, Poursuivre
  <2>2. TacheAchevee' = tache' /\ OuvertesAchevees' = ouvertes'
    BY <2>1, Fin
  <2>3. PeutChronometrer(q.u)
    BY <1>4, <1>18 DEF Permise
  <2>4. CASE ouvertes[q.u] # 0
    <3>1. Cycle!Pauser(q.u)
      BY <1>1, <2>1, <2>2, <2>3, <2>4, Gardes
         DEF FermerSiennes, SessionsSiennesFermees, Cycle!Pauser,
             Cycle!SessionsSiennesFermees
    <3> QED BY <1>2, <3>1 DEF Cycle!Next, Cycle!Travail
  <2>5. CASE ouvertes[q.u] = 0
    <3>1. ouvertes' = ouvertes
      BY <1>2, <2>1, <2>5 DEF FermerSiennes, SessionsSiennesFermees
    <3> QED BY <1>1, <2>1, <2>2, <3>1 DEF FermerSiennes, Cycle!vars
  <2> QED BY <2>4, <2>5
<1> QED BY <1>2, <1>6, <1>7, <1>8, <1>9, <1>10, <1>11, <1>12, <1>13, <1>14, <1>15, <1>16,
     <1>17,
           <1>18, Operations

(* reprendre() writes last: it happens when it creates the session.          *)
LEMMA Reprise ==
    ASSUME EnRoute, NEW r \in Requete, Seule(r), Occupee(r), EnRegle(requetes[r]),
           requetes[r].op = "reprendre", Statement(r)
    PROVE  Cycle!Next \/ UNCHANGED Cycle!vars
<1> DEFINE q == requetes[r]
<1>1. /\ q \in EnMain /\ q.reste \in RestesDe(q.op) /\ q.u \in User
      /\ ouvertes \in [User -> Nat]
  BY DEF EnRoute, TypeRequetes, TypeOK, Engagee, EnMain
<1>2. ~UneEntamee
  BY DEF UneEntamee, Entamee, Seule
<1>3. TacheAchevee = tache /\ OuvertesAchevees = ouvertes
  BY <1>2, AucuneEntamee
<1>4. requetes'[r] = Libre \/ requetes'[r] = [q EXCEPT !.reste = Tail(q.reste)]
  BY StatementUne DEF Poursuivre, Terminer, EnRoute, TypeRequetes
<1>5. requetes'[r] = Libre \/ requetes'[r].op = "reprendre"
  BY <1>1, <1>4 DEF EnMain
<1>6. \A x \in Requete : x # r => requetes'[x] = requetes[x]
  BY StatementUne DEF Poursuivre, Terminer, EnRoute, TypeRequetes
<1>7. ~UneEntamee'
  BY <1>5, <1>6 DEF UneEntamee, Entamee, Seule, Occupee
<1>8. TacheAchevee' = tache' /\ OuvertesAchevees' = ouvertes'
  BY <1>7, AucuneEntameeApres
<1>9. CASE Head(q.reste) = "creerSession"
  <2>1. CreerSession(r)
    BY <1>9, JamaisRefusee
       DEF Statement, MettreAJour, ChercherSession, FermerSiennes, FermerToutes, RetirerCo,
           AjouterCo, SupprimerLigne, Echouer, Attend
  <2>2. ouvertes[q.u] = 0
    BY <1>9 DEF EnRegle
  <2>3. ouvertes' = SessionAssuree(q.u)
    BY <1>1, <2>1, <2>2 DEF CreerSession, SessionAssuree
  <2>4. PeutChronometrer(q.u)
    BY DEF EnRegle, Permise
  <2>5. Cycle!Reprendre(q.u)
    BY <1>3, <1>8, <2>1, <2>2, <2>3, <2>4, Gardes
       DEF CreerSession, SessionAssuree, equipe, Cycle!equipe, Cycle!SessionAssuree,
           Cycle!Reprendre
  <2> QED BY <1>1, <2>5 DEF Cycle!Next, Cycle!Travail
<1>10. CASE Head(q.reste) = "chercherSession"
  <2>1. ChercherSession(r)
    BY <1>10 DEF Statement, MettreAJour, CreerSession, FermerSiennes, FermerToutes,
          RetirerCo, AjouterCo, SupprimerLigne, Echouer, Attend
  <2> QED BY <1>3, <1>8, <2>1 DEF ChercherSession, vars, equipe, Cycle!vars, Cycle!equipe
<1> QED BY <1>1, <1>9, <1>10, Possibles

(* What happens around the requests, when there is none.                     *)
LEMMA SansRequete ==
    ASSUME EnRoute, AucuneEnMain, UNCHANGED requetes, Creation \/ Equipe \/ SupprimerParCascade
    PROVE  Cycle!Next
<1>1. ~UneEntamee /\ ~UneEntamee'
  BY DEF AucuneEnMain, UneEntamee, Entamee, Occupee
<1>2. /\ TacheAchevee = tache /\ OuvertesAchevees = ouvertes
      /\ TacheAchevee' = tache' /\ OuvertesAchevees' = ouvertes'
  BY <1>1, AucuneEntamee, AucuneEntameeApres
<1> USE DEF equipe, Cycle!equipe
<1>3. ASSUME NEW o, NEW a, NEW b, Creer(o, a, b) PROVE Cycle!Creer(o, a, b)
  BY <1>2, <1>3 DEF Creer, NouvelleTache, Cycle!Creer, Cycle!NouvelleTache
<1>4. CASE Creation
  <2>1. ASSUME NEW u \in User, CreerPersonnelle(u) PROVE Cycle!CreerPersonnelle(u)
    BY <1>3, <2>1 DEF CreerPersonnelle, Cycle!CreerPersonnelle
  <2>2. ASSUME NEW u \in User, CreerDansBureau(u) PROVE Cycle!CreerDansBureau(u)
    BY <1>3, <2>2 DEF CreerDansBureau, Cycle!CreerDansBureau
  <2>3. ASSUME NEW u \in User, CreerParIA(u) PROVE Cycle!CreerParIA(u)
    BY <1>3, <2>3 DEF CreerParIA, Cycle!CreerParIA
  <2>4. ASSUME NEW u \in User, NEW a \in User, CreerDansProjet(u, a)
        PROVE  Cycle!CreerDansProjet(u, a)
    BY <1>3, <2>4 DEF CreerDansProjet, Cycle!CreerDansProjet
  <2>5. ASSUME NEW u \in User, NEW o \in UserOuNul, CreerSansAssigne(u, o)
        PROVE  Cycle!CreerSansAssigne(u, o)
    BY <1>3, <2>5 DEF CreerSansAssigne, Cycle!CreerSansAssigne
  <2>6. Cycle!UserOuNul = UserOuNul
    BY DEF UserOuNul, Cycle!UserOuNul
  <2> QED BY <1>4, <2>1, <2>2, <2>3, <2>4, <2>5, <2>6
          DEF Creation, Cycle!Creation, Cycle!Next
<1>5. LigneSupprimee => Cycle!LigneSupprimee
  BY <1>2 DEF LigneSupprimee, NouvelleTache, AucuneSession, Cycle!LigneSupprimee,
              Cycle!NouvelleTache, Cycle!AucuneSession
<1>6. CASE SupprimerParCascade
  BY <1>5, <1>6 DEF SupprimerParCascade, Cycle!SupprimerParCascade, Cycle!Decision,
       Cycle!Next
<1>7. CASE Equipe
  <2> USE DEF Mouvement, Cycle!Mouvement
  <2>1. ASSUME NEW u \in User, NEW g \in RoleGlobal, NouveauJeton(u, g)
        PROVE  Cycle!NouveauJeton(u, g)
    BY <1>2, <2>1 DEF NouveauJeton, Cycle!NouveauJeton
  <2>2. ASSUME NEW u \in User, RejoindreBureau(u) PROVE Cycle!RejoindreBureau(u)
    BY <1>2, <2>2 DEF RejoindreBureau, Cycle!RejoindreBureau
  <2>3. ASSUME NEW u \in User, QuitterBureau(u) PROVE Cycle!QuitterBureau(u)
    BY <1>2, <2>3 DEF QuitterBureau, Cycle!QuitterBureau
  <2>4. ASSUME NEW u \in User, SupprimerMembre(u) PROVE Cycle!SupprimerMembre(u)
    BY <1>2, <1>5, <2>4 DEF SupprimerMembre, OublierUser, SessionsSiennesFermees,
          Cycle!SupprimerMembre, Cycle!OublierUser, Cycle!SessionsSiennesFermees
  <2>5. Cycle!RoleGlobal = RoleGlobal
    BY DEF RoleGlobal, Cycle!RoleGlobal
  <2> QED BY <1>7, <2>1, <2>2, <2>3, <2>4, <2>5 DEF Equipe, Cycle!Equipe, Cycle!Next
<1> QED BY <1>4, <1>6, <1>7

(* Time passes between two statements: what is still to be written does not  *)
(* depend on it, for the updates that read the clock come first.             *)
LEMMA TempsIsole ==
    ASSUME EnRoute, Isolement, isole, Temps
    PROVE  Cycle!Next
<1>1. /\ UNCHANGED <<comptes, role, membres, mouvements, existe, tache, coAssignes, ouvertes>>
      /\ UNCHANGED requetes /\ horloge < MaxHorloge /\ horloge' = horloge + 1
  BY DEF Temps, PasserLeTemps, equipe
<1>2. TacheAchevee' = TacheAchevee /\ OuvertesAchevees' = OuvertesAchevees
  <2>1. CASE ~UneEntamee
    <3>1. ~UneEntamee'
      BY <1>1, <2>1 DEF UneEntamee, Entamee, Occupee
    <3> QED BY <1>1, <2>1, <3>1, AucuneEntamee, AucuneEntameeApres
  <2>2. ASSUME NEW r \in Requete, Entamee(r)
        PROVE  TacheAchevee' = TacheAchevee /\ OuvertesAchevees' = OuvertesAchevees
    <3> DEFINE q == requetes[r]
    <3>1. /\ Seule(r) /\ q.op \in Operation /\ q.reste \in RestesDe(q.op)
          /\ q.op # "reprendre" /\ Len(q.reste) < Len(Programme[q.op])
      BY <2>2 DEF Isolement, Entamee, EnRoute, Engagee, EnMain
    <3>2. Seule(r)' /\ Entamee(r)'
      BY <1>1, <2>2, <3>1 DEF Seule, Entamee, Occupee
    <3>3. /\ SessionAssuree(requetes[r].u)' = SessionAssuree(q.u)
          /\ SessionsSiennesFermees(requetes[r].u)' = SessionsSiennesFermees(q.u)
      BY <1>1 DEF SessionAssuree, SessionsSiennesFermees
    <3>4. q.op \in {"assigner", "retourner"} =>
            LigneMiseAJour(requetes[r])' = LigneMiseAJour(q)
      BY <1>1 DEF LigneMiseAJour
    <3>5. q.reste # Programme[q.op]
      <4>1. Len(q.reste) # Len(Programme[q.op])
        <5>1. Len(q.reste) \in Nat /\ Len(Programme[q.op]) \in Nat
          BY <3>1, Longueurs
        <5> QED BY ONLY <3>1, <5>1, SMT
      <4> QED BY <4>1, Zenon
    <3>6. CASE q.op \in {"demarrer", "annulerDeclaration"}
      <4>1. q.reste \in {<<"chercherSession", "creerSession">>, <<"creerSession">>}
        BY <3>1, <3>5, <3>6, Possibles, Programmes
      <4>2. CASE q.reste = <<"chercherSession", "creerSession">>
        BY <1>1, <2>2, <3>1, <3>2, <3>3, <4>2, Achevement, AchevementApres
      <4>3. CASE q.reste = <<"creerSession">>
        BY <1>1, <2>2, <3>1, <3>2, <4>3, Achevement, AchevementApres
      <4> QED BY <4>1, <4>2, <4>3
    <3>7. CASE q.op = "declarer"
      <4>1. q.reste = <<"fermerSiennes">>
        BY <3>1, <3>5, <3>7, Possibles, Programmes
      <4> QED BY <1>1, <2>2, <3>1, <3>2, <3>3, <4>1, Achevement, AchevementApres
    <3>8. CASE q.op = "assigner"
      <4>1. q.reste = <<"mettreAJour">>
        BY <3>1, <3>5, <3>8, Possibles, Programmes
      <4> QED BY <1>1, <2>2, <3>1, <3>2, <3>4, <3>8, <4>1, Achevement, AchevementApres
    <3>9. CASE q.op = "retourner"
      <4>1. q.reste \in {<<"fermerToutes", "mettreAJour">>, <<"mettreAJour">>}
        BY <3>1, <3>5, <3>9, Possibles, Programmes
      <4>2. CASE q.reste = <<"fermerToutes", "mettreAJour">>
        BY <1>1, <2>2, <3>1, <3>2, <3>4, <3>9, <4>2, Achevement, AchevementApres
      <4>3. CASE q.reste = <<"mettreAJour">>
        BY <1>1, <2>2, <3>1, <3>2, <3>4, <3>9, <4>3, Achevement, AchevementApres
      <4> QED BY <4>1, <4>2, <4>3
    <3>10. CASE q.op \in {"retirerAssigne", "pauser", "accepter", "validerOk", "assignerCo",
                          "validerLitige", "reouvrir", "supprimer"}
      BY <3>1, <3>5, <3>10, Possibles, Programmes
    <3> QED BY <3>1, <3>6, <3>7, <3>8, <3>9, <3>10, Operations
  <2> QED BY <2>1, <2>2 DEF UneEntamee
<1> QED BY <1>1, <1>2 DEF Cycle!PasserLeTemps, Cycle!Next, Cycle!equipe

(* Nothing happens.                                                          *)
LEMMA Begaiement ==
    ASSUME UNCHANGED varsRequetes
    PROVE  UNCHANGED Cycle!vars
<1>1. UNCHANGED <<comptes, role, membres, mouvements, existe, tache, coAssignes, ouvertes,
                  horloge, requetes>>
  BY DEF varsRequetes, vars, equipe
<1>2. TacheAchevee' = TacheAchevee /\ OuvertesAchevees' = OuvertesAchevees
  BY <1>1 DEF TacheAchevee, OuvertesAchevees, Reste, UneEntamee, EnCours, Entamee, Occupee,
        LigneMiseAJour, DebutLu, SessionAssuree, SessionsSiennesFermees,
        ToutesSessionsFermees
<1> QED BY <1>1, <1>2 DEF Cycle!vars, Cycle!equipe

(* As long as requests on the task have not overlapped one another, a staff  *)
(* change or a stop of the process, the statements of each handler add up to *)
(* the single step TacheCycle describes: each step of theirs is that step,   *)
(* or leaves what TacheCycle describes alone.                                *)
THEOREM RaffinementCorrect == SpecRequetes => ImplementeLeCycle
<1> DEFINE Inv == SansLigne /\ Presents /\ Isolement
           Pas == isole' => (Cycle!Next \/ UNCHANGED Cycle!vars)
<1>1. InitRequetes => Cycle!Init /\ Inv
  <2> SUFFICES ASSUME InitRequetes PROVE Cycle!Init /\ Inv
    OBVIOUS
  <2>1. AucuneEnMain
    BY DEF InitRequetes, AucuneEnMain, Occupee
  <2>2. ~UneEntamee
    BY <2>1 DEF AucuneEnMain, UneEntamee, Entamee
  <2>3. TacheAchevee = tache /\ OuvertesAchevees = ouvertes
    BY <2>2, AucuneEntamee
  <2>4. Cycle!Init
    BY <2>3 DEF InitRequetes, Init, NouvelleTache, AucuneSession, Cycle!Init,
          Cycle!NouvelleTache, Cycle!AucuneSession
  <2>5. SansLigne /\ Presents
    BY DepartAssumption, ProprietaireAssumption
       DEF InitRequetes, Init, SansLigne, Presents, NouvelleTache
  <2> QED BY <2>1, <2>4, <2>5 DEF Isolement, AucuneEnMain
<1>2. EnRoute /\ Inv /\ [NextRequetes]_varsRequetes => Inv'
  BY SansLigneRequetesStep, PresentsRequetesStep, IsolementStep
<1>3. EnRoute /\ Inv /\ [NextRequetes]_varsRequetes => [Pas]_varsRequetes
  <2> SUFFICES ASSUME EnRoute, Inv, NextRequetes, isole'
               PROVE  Cycle!Next \/ UNCHANGED Cycle!vars
    BY Begaiement
  <2>1. isole \/ Arret
    BY DEF NextRequetes, Recevoir, Charger, Statement, MettreAJour, ChercherSession,
         CreerSession,
           FermerSiennes, FermerToutes, RetirerCo, AjouterCo, SupprimerLigne,
           Echouer, Ailleurs,
           Autour, Temps
  <2>2. isole
    BY <2>1 DEF Arret
  <2>3. ASSUME NEW r \in Requete, Statement(r) PROVE Cycle!Next \/ UNCHANGED Cycle!vars
    <3> DEFINE q == requetes[r]
    <3>1. Occupee(r) /\ Seule(r) /\ EnRegle(q)
      BY <2>2, <2>3, StatementUne DEF Isolement
    <3>2. q.op \in Operation /\ q.reste \in RestesDe(q.op)
      BY <3>1 DEF EnRoute, Engagee, EnMain
    <3>3. CASE q.op = "reprendre"
      BY <2>3, <3>1, <3>3, Reprise
    <3>4. CASE q.op # "reprendre" /\ q.reste = Programme[q.op]
      BY <2>3, <3>1, <3>4, PremierePhase
    <3>5. CASE q.op # "reprendre" /\ q.reste # Programme[q.op]
      <4>1. Len(q.reste) < Len(Programme[q.op])
        BY <3>2, <3>5, Longueurs
      <4> QED BY <2>3, <3>1, <3>5, <4>1, DeuxiemePhase DEF Entamee
    <3> QED BY <3>3, <3>4, <3>5
  <2>4. ASSUME NEW r \in Requete, Recevoir(r) PROVE UNCHANGED Cycle!vars
    <3>1. PICK op \in Operation, u \in User, a \in User, replace \in BOOLEAN :
             Charger(r, op, u, a, replace)
      BY <2>4 DEF Recevoir
    <3>2. AucuneEnMain /\ UNCHANGED vars
      BY <3>1 DEF Charger
    <3>3. /\ requetes' = [requetes EXCEPT ![r] =
                            [op |-> op, u |-> u, a |-> a, lu |-> LectureDe(op, tache),
                             reste |-> Programme[op]]]
      BY <3>1 DEF Charger
    <3>4. Len(Programme[op]) \in Nat
      <4>1. Programme[op] \in RestesDe(op)
        BY DEF RestesDe
      <4> QED BY <4>1, Longueurs
    <3>5. ASSUME NEW x \in Requete PROVE ~Entamee(x)'
      <4>1. CASE x # r
        BY <3>2, <3>3, <4>1 DEF AucuneEnMain, Entamee, Occupee, EnRoute, TypeRequetes
      <4>2. CASE x = r
        <5>1. requetes'[x].op = op /\ requetes'[x].reste = Programme[op]
          BY <3>3, <4>2 DEF EnRoute, TypeRequetes
        <5> QED BY <3>4, <5>1 DEF Entamee
      <4> QED BY <4>1, <4>2
    <3>6. ~UneEntamee /\ ~UneEntamee'
      BY <3>2, <3>5 DEF UneEntamee, AucuneEnMain, Entamee
    <3> QED BY <3>2, <3>6, AucuneEntamee, AucuneEntameeApres
            DEF vars, equipe, Cycle!vars, Cycle!equipe
  <2>5. CASE Ailleurs \/ Autour
    BY <2>5, SansRequete DEF Ailleurs, Autour
  <2>6. CASE Temps
    BY <2>2, <2>6, TempsIsole
  <2> QED BY <2>3, <2>4, <2>5, <2>6 DEF NextRequetes, Arret
<1> QED BY <1>1, <1>2, <1>3, RequetesTypeCorrect, PTL DEF SpecRequetes, ImplementeLeCycle

-----------------------------------------------------------------------------
(* The blockers of a task and its health, for any number of requests,      *)
(* blockers and users.  Each theorem uses the safety part of SpecSante: its *)
(* fairness conjunct is not needed.                                        *)

(* The four places a request can stand at are different from each other. *)
LEMMA PhasesDistinctes ==
    /\ Repos # EnCompte /\ Repos # EnNormalisation /\ EnCompte # EnNormalisation
    /\ \A b \in Blocage : EnRetrait(b) \notin {Repos, EnCompte, EnNormalisation}
BY DEF Repos, EnCompte, EnNormalisation, EnRetrait

(* Rows, health and requests keep their types under every interleaving; in *)
(* particular every blocker that exists has an author.                     *)
THEOREM BlocagesTypeCorrect == SpecSante => []TypeSante
<1>1. InitSante => TypeSante
  BY DEF InitSante, TypeSante, Ligne, PhaseRequete
<1>2. TypeSante /\ [NextSante]_varsSante => TypeSante'
  <2> SUFFICES ASSUME TypeSante, [NextSante]_varsSante PROVE TypeSante'
    OBVIOUS
  <2> USE DEF TypeSante
  <2>1. ASSUME NEW r \in Appel, NEW u \in Assigne \cup Manager, NEW b \in Blocage,
               CreerBlocage(r, u, b)
        PROVE  TypeSante'
    BY <2>1 DEF CreerBlocage, LigneSignalee, Ligne
  <2>2. ASSUME NEW r \in Appel, NEW u \in Assigne \cup Manager, NEW b \in Blocage,
               Resoudre(r, u, b)
        PROVE  TypeSante'
    <3>1. [lignes[b] EXCEPT !.etat = "resolu"] \in Ligne
      BY <2>2 DEF Resoudre, Ligne, Absente
    <3>2. lignes' = [lignes EXCEPT ![b] = [lignes[b] EXCEPT !.etat = "resolu"]]
      BY <2>2 DEF Resoudre
    <3> QED BY <2>2, <3>1, <3>2 DEF Resoudre, PhaseRequete
  <2>3. ASSUME NEW r \in Appel, NEW u \in Assigne \cup Manager, NEW b \in Blocage,
               LireRetrait(r, u, b)
        PROVE  TypeSante'
    BY <2>3 DEF LireRetrait, PhaseRequete
  <2>4. ASSUME NEW r \in Appel, NEW b \in Blocage, Retirer(r, b)
        PROVE  TypeSante'
    BY <2>4 DEF Retirer, ApresRetrait, Ligne, PhaseRequete
  <2>5. ASSUME NEW r \in Appel, Compter(r)
        PROVE  TypeSante'
    BY <2>5 DEF Compter, PhaseRequete
  <2>6. ASSUME NEW r \in Appel, Normaliser(r)
        PROVE  TypeSante'
    BY <2>6 DEF Normaliser, PhaseRequete
  <2>7. CASE Panne
    BY <2>7 DEF Panne, PhaseRequete
  <2>8. CASE UNCHANGED varsSante
    BY <2>8 DEF varsSante
  <2> QED BY <2>1, <2>2, <2>3, <2>4, <2>5, <2>6, <2>7, <2>8
       DEF NextSante, Router, Avancer
<1> QED BY <1>1, <1>2, PTL DEF SpecSante

(* A task is never left "blocked" without an active blocker while the      *)
(* process runs: whoever ended the last blocker still owes a recalculation.*)
THEOREM NormaleSansBlocageCorrect == SpecSante => []NormaleSansBlocage
<1>1. InitSante => NormaleSansBlocage
  BY DEF InitSante, NormaleSansBlocage
<1>2. TypeSante /\ NormaleSansBlocage /\ [NextSante]_varsSante
         => NormaleSansBlocage'
  <2> SUFFICES ASSUME TypeSante, NormaleSansBlocage, [NextSante]_varsSante,
                      Actifs' = {}, sante' = "BLOQUEE"
               PROVE  RecalculsEnCours' # {} \/ recalculPerdu'
    BY DEF NormaleSansBlocage
  <2>1. ASSUME NEW r \in Appel, NEW u \in Assigne \cup Manager, NEW b \in Blocage,
               CreerBlocage(r, u, b)
        PROVE  FALSE
    <3>1. lignes'[b].etat = "actif"
      BY <2>1 DEF CreerBlocage, LigneSignalee, TypeSante
    <3> QED BY <3>1 DEF Actifs
  <2>2. ASSUME NEW r \in Appel, NEW u \in Assigne \cup Manager, NEW b \in Blocage,
               Resoudre(r, u, b)
        PROVE  RecalculsEnCours' # {}
    <3>1. requete'[r] = EnCompte
      BY <2>2 DEF Resoudre, TypeSante
    <3> QED BY <3>1 DEF RecalculsEnCours
  <2>3. ASSUME NEW r \in Appel, requete[r] \notin {EnCompte, EnNormalisation},
               \A q \in Appel \ {r} : requete'[q] = requete[q],
               UNCHANGED <<lignes, sante, recalculPerdu>>
        PROVE  RecalculsEnCours' # {} \/ recalculPerdu'
    <3>1. RecalculsEnCours # {} \/ recalculPerdu
      BY <2>3 DEF NormaleSansBlocage, Actifs
    <3> QED BY <2>3, <3>1 DEF RecalculsEnCours
  <2>4. ASSUME NEW r \in Appel, NEW u \in Assigne \cup Manager, NEW b \in Blocage,
               LireRetrait(r, u, b)
        PROVE  RecalculsEnCours' # {} \/ recalculPerdu'
    <3>1. \A q \in Appel \ {r} : requete'[q] = requete[q]
      BY <2>4 DEF LireRetrait, TypeSante
    <3> QED BY <2>3, <2>4, <3>1, PhasesDistinctes DEF LireRetrait
  <2>5. ASSUME NEW r \in Appel, NEW b \in Blocage, Retirer(r, b)
        PROVE  RecalculsEnCours' # {} \/ recalculPerdu'
    <3>1. CASE lignes[b] = Absente
      <4>1. lignes' = lignes
        BY <2>5, <3>1 DEF Retirer, TypeSante
      <4>2. \A q \in Appel \ {r} : requete'[q] = requete[q]
        BY <2>5 DEF Retirer, TypeSante
      <4> QED BY <2>3, <2>5, <4>1, <4>2, PhasesDistinctes DEF Retirer
    <3>2. CASE lignes[b] # Absente
      <4>1. requete'[r] = EnCompte
        BY <2>5, <3>2 DEF Retirer, ApresRetrait, TypeSante
      <4> QED BY <4>1 DEF RecalculsEnCours
    <3> QED BY <3>1, <3>2
  <2>6. ASSUME NEW r \in Appel, Compter(r)
        PROVE  RecalculsEnCours' # {}
    <3>1. Restants = {}
      BY <2>6 DEF Compter, Restants, Actifs
    <3>2. requete'[r] = EnNormalisation
      BY <2>6, <3>1 DEF Compter, TypeSante
    <3> QED BY <3>2 DEF RecalculsEnCours
  <2>7. ASSUME NEW r \in Appel, Normaliser(r)
        PROVE  FALSE
    BY <2>7 DEF Normaliser
  <2>8. CASE Panne
    <3>1. Actifs = {} /\ sante = "BLOQUEE"
      BY <2>8 DEF Panne, Actifs
    <3> QED BY <2>8, <3>1 DEF Panne, NormaleSansBlocage
  <2>9. CASE UNCHANGED varsSante
    BY <2>9 DEF varsSante, NormaleSansBlocage, Actifs, RecalculsEnCours
  <2> QED BY <2>1, <2>2, <2>4, <2>5, <2>6, <2>7, <2>8, <2>9
       DEF NextSante, Router, Avancer
<1> QED BY <1>1, <1>2, BlocagesTypeCorrect, PTL DEF SpecSante

=============================================================================
