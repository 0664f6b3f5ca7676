----------------------------- MODULE AlertesProofs -----------------------------
(* Proofs about the reminders of a task, for any number of calls, of       *)
(* settings and of incidents.  They use the safety part of Spec only.      *)
EXTENDS Alertes, FiniteSetTheorems, TLAPS

USE AlertesAssumption

(* The calls: where each one is, and the setting it has made.              *)
Appel == [op : {"libre", "regler", "annuler"}, par : {"manager", "assigne"},
          etape : {"fin", "charger", "ecrire", "retirer", "ajouter"}, n : 0..reglages]

(* TypeOK with the types of what TypeOK leaves to the actions.             *)
Types ==
    /\ TypeOK
    /\ requetes \in [Requete -> Appel]
    /\ travail \in [etape : {"repos", "lire", "notifier", "effacer"}, lu : 0..reglages]
    /\ travail.etape = "repos" => travail = Repos
    /\ reglages \in Nat /\ appels \in Nat /\ incidents \in Nat
    /\ croises \in BOOLEAN /\ manquee \in BOOLEAN

(* A call that is under way sets or cancels. *)
Nommees == \A r \in Requete : requetes[r].op = "libre" => requetes[r].etape = "fin"

(* The worker may still send setting n without a new incident: the row     *)
(* announces it, or the worker has just read it.                           *)
AEnvoyer(n) ==
    \/ alerteA = n /\ travail.etape # "effacer"
    \/ travail.etape = "notifier" /\ travail.lu = n

(* UnSeulEnvoi, one step earlier: a setting that can still be sent has one *)
(* notification to spare, and one that was not made yet has none.          *)
Envois ==
    \A n \in Reglage : /\ envois[n] <= 1 + incidents
                       /\ n > reglages => envois[n] = 0
                       /\ AEnvoyer(n) => envois[n] <= incidents

(* As long as nothing overlapped, a call is alone with an idle worker.     *)
SeulAvec(q, t) ==
    /\ \A r, s \in Requete : q[r] # Libre /\ q[s] # Libre => r = s
    /\ \A r \in Requete : q[r] # Libre => t = Repos
Seul == croises \/ SeulAvec(requetes, travail)

(* Accord, followed through the steps of the one call under way: before it *)
(* has written the row, after the row, and after the removal of the job.   *)
Annonce == /\ alerteA # 0 <=> job.etat = "differe"
           /\ alerteA # 0 => job.pour = alerteA
Suivi ==
    ~croises /\ incidents = 0 /\ ~manquee /\ existe =>
    /\ (/\ travail = Repos
        /\ \A r \in Requete : requetes[r].etape \notin {"retirer", "ajouter"}) => Annonce
    /\ \A r \in Requete : requetes[r].etape = "retirer" =>
          /\ requetes[r].op = "annuler" => alerteA = 0
          /\ requetes[r].op = "regler" => alerteA = requetes[r].n /\ alerteA # 0
          /\ requetes[r].op # "libre"
    /\ \A r \in Requete : requetes[r].etape = "ajouter" =>
          job.etat = "absent" /\ alerteA = requetes[r].n /\ alerteA # 0

-----------------------------------------------------------------------------
(* The count of those at work, in terms of who is: no more than one means  *)
(* a call alone or the worker alone, none means nobody.                    *)
LEMMA EnCoursUn ==
    ASSUME NEW q, NEW t, ~(EnCours(q, t) > 1)
    PROVE  SeulAvec(q, t)
<1> DEFINE O == {r \in Requete : q[r] # Libre}
<1>1. O \subseteq Requete
  OBVIOUS
<1>2. IsFiniteSet(O)
  BY <1>1, FS_Subset
<1>3. Cardinality(O) \in Nat
  BY <1>2, FS_CardinalityType
<1>4. Cardinality(O) + (IF t = Repos THEN 0 ELSE 1) <= 1
  BY <1>3 DEF EnCours
<1> HIDE DEF O
<1>5. Cardinality(O) <= 1
  BY <1>3, <1>4, SMT
<1>6. ASSUME NEW r \in O PROVE Cardinality(O) >= 1
  <2>1. Cardinality(O) # 0
    BY <1>2, <1>6, FS_EmptySet
  <2> QED BY <2>1, <1>3, SMT
<1>7. ASSUME NEW r \in O, NEW s \in O PROVE r = s
  <2>1. Cardinality(O) = 1
    BY <1>3, <1>5, <1>6, SMT
  <2>2. \E x : O = {x}
    BY <2>1, <1>2, FS_Singleton
  <2> QED BY <2>2, <1>7
<1>8. ASSUME NEW r \in O PROVE t = Repos
  BY <1>8, <1>6, <1>4, <1>3, SMT
<1> QED BY <1>7, <1>8 DEF O, SeulAvec

(* No setting is being stored when every request is over.                    *)
LEMMA EnCoursZero ==
    ASSUME NEW q, NEW t, EnCours(q, t) = 0
    PROVE  (\A r \in Requete : q[r] = Libre) /\ t = Repos
<1> DEFINE O == {r \in Requete : q[r] # Libre}
<1>1. O \subseteq Requete
  OBVIOUS
<1>2. IsFiniteSet(O)
  BY <1>1, FS_Subset
<1>3. Cardinality(O) \in Nat
  BY <1>2, FS_CardinalityType
<1>4. Cardinality(O) + (IF t = Repos THEN 0 ELSE 1) = 0
  BY DEF EnCours
<1> HIDE DEF O
<1>5. Cardinality(O) = 0 /\ t = Repos
  BY <1>3, <1>4, SMT
<1>6. O = {}
  BY <1>2, <1>5, FS_EmptySet
<1> QED BY <1>5, <1>6 DEF O

(* A step that follows the overlaps keeps the exclusion.                   *)
LEMMA SuivreSeul ==
    ASSUME NEW q, NEW t, Suivre(q, t)
    PROVE  Seul'
<1>1. croises' \/ ~(EnCours(q, t) > 1)
  BY DEF Suivre
<1>2. croises' \/ SeulAvec(q, t)
  BY <1>1, EnCoursUn
<1> QED BY <1>2 DEF Suivre, Seul, SeulAvec

-----------------------------------------------------------------------------
(* Types *)

(* A step that moves the call r to another type-correct point keeps the    *)
(* calls type-correct; the settings only grow.                             *)
LEMMA AppelsBornes ==
    ASSUME Types, reglages' \in Nat, reglages <= reglages'
    PROVE  /\ requetes \in [Requete -> Appel']
           /\ travail \in [etape : {"repos", "lire", "notifier", "effacer"}, lu : 0..reglages']
           /\ job \in [etat : {"absent", "differe", "actif", "fini"}, pour : 0..reglages',
                       reprises : {0, 1}]
           /\ alerteA \in 0..reglages'
<1>1. reglages \in Nat
  BY DEF Types
<1>2. 0..reglages \subseteq 0..reglages'
  BY <1>1
<1>3. Appel \subseteq Appel'
  BY <1>2 DEF Appel
<1> QED BY <1>2, <1>3 DEF Types, TypeOK

(* The worker's job as the end of its work leaves it. *)
LEMMA TerminerEffet ==
    ASSUME Types, Terminer
    PROVE  /\ job' \in [etat : {"fini"}, pour : 0..reglages, reprises : {0, 1}]
           /\ travail' = Repos /\ requetes' = requetes
BY DEF Terminer, Suivre, Types, TypeOK

(* Every action keeps the types.                                             *)
LEMMA AlertesTypeStep == ASSUME Types, [Next]_vars PROVE Types'
<1> USE DEF Types, TypeOK, ligne, compteurs, Libre, Repos
<1> DEFINE Etapes == {"fin", "charger", "ecrire", "retirer", "ajouter"}
<1>0. ASSUME NEW r \in Requete, Finir(r) PROVE requetes' \in [Requete -> Appel] /\ travail' = travail /\ croises' \in BOOLEAN
  BY <1>0 DEF Finir, Suivre, Appel, EnCours
<1>00. ASSUME NEW r \in Requete, NEW e \in Etapes, Passer(r, e)
       PROVE requetes' \in [Requete -> Appel] /\ travail' = travail /\ croises' \in BOOLEAN
  BY <1>00 DEF Passer, Suivre, Appel, EnCours
<1>01. ASSUME reglages' = reglages PROVE Appel' = Appel
  BY <1>01 DEF Appel
<1>02. ASSUME NEW q, NEW t, Suivre(q, t) PROVE croises' \in BOOLEAN
  BY <1>02 DEF Suivre, EnCours
<1>1. ASSUME NEW r \in Requete, NEW o \in {"regler", "annuler"},
             NEW p \in {"manager", "assigne"}, Appeler(r, o, p) PROVE Types'
  BY <1>1 DEF Appeler, Suivre, Appel, EnCours
<1>2. ASSUME NEW r \in Requete, Charger(r) PROVE Types'
  BY <1>2, <1>0, <1>00 DEF Charger, Appel
<1>3. ASSUME NEW r \in Requete, Ecrire(r) PROVE Types'
  <2>1. CASE ~LigneLa
    BY <2>1, <1>3, <1>0 DEF Ecrire, Appel
  <2>2. CASE LigneLa /\ requetes[r].op = "annuler"
    BY <2>2, <1>3, <1>00 DEF Ecrire, Appel, LigneLa
  <2>3. CASE LigneLa /\ requetes[r].op # "annuler"
    <3>1. /\ reglages' = reglages + 1 /\ alerteA' = reglages'
          /\ Suivre([requetes EXCEPT ![r].etape = "retirer", ![r].n = reglages'], travail)
          /\ UNCHANGED <<existe, assigne, job, appels, incidents, envois, manquee>>
      BY <2>3, <1>3 DEF Ecrire
    <3>2. reglages' \in Nat /\ reglages <= reglages'
      BY <3>1
    <3>3. requetes' \in [Requete -> Appel']
      BY <3>1, <3>2, AppelsBornes DEF Suivre, Appel
    <3>4. croises' \in BOOLEAN /\ travail' = travail
      BY <3>1 DEF Suivre, EnCours
    <3> QED BY <2>3, <3>1, <3>2, <3>3, <3>4, AppelsBornes DEF LigneLa
  <2> QED BY <2>1, <2>2, <2>3
<1>4. ASSUME NEW r \in Requete, Retirer(r) PROVE Types'
  BY <1>4, <1>0, <1>00 DEF Retirer, RetireDe, JobRetire, Absent, Appel
<1>5. ASSUME NEW r \in Requete, Ajouter(r) PROVE Types'
  BY <1>5, <1>0 DEF Ajouter, Absent, Appel
<1>6. ASSUME NEW r \in Requete, PanneRedis(r) PROVE Types'
  BY <1>6, <1>0 DEF PanneRedis, Incident, Appel
<1>7. CASE Prendre
  BY <1>7 DEF Prendre, Suivre, EnCours, Appel
<1>8. CASE LireTache
  <2>1. manquee' \in BOOLEAN /\ UNCHANGED <<ligne, compteurs, envois>>
    BY <1>8 DEF LireTache
  <2>2. CASE existe /\ alerteA # 0 /\ assigne
    <3>1. Suivre(requetes, [etape |-> "notifier", lu |-> alerteA]) /\ UNCHANGED job
      BY <2>2, <1>8 DEF LireTache
    <3>2. requetes' = requetes /\ travail' = [etape |-> "notifier", lu |-> alerteA]
      BY <3>1 DEF Suivre
    <3> QED BY <1>8, <3>1, <3>2, <2>1, <1>01, <1>02 DEF LireTache
  <2>3. CASE ~(existe /\ alerteA # 0 /\ assigne)
    <3>1. Terminer
      BY <2>3, <1>8 DEF LireTache
    <3>2. croises' \in BOOLEAN
      BY <3>1, <1>02 DEF Terminer
    <3> QED BY <3>1, <3>2, <2>1, <1>01, TerminerEffet
  <2> QED BY <2>2, <2>3
<1>9. CASE Notifier
  <2>1. envois' \in [Reglage -> Nat]
    <3>1. envois' = [envois EXCEPT ![travail.lu] = envois[travail.lu] + 1]
      BY <1>9 DEF Notifier
    <3>2. ASSUME NEW f \in [Reglage -> Nat], NEW k, NEW v, k \in Reglage => v \in Nat
          PROVE  [f EXCEPT ![k] = v] \in [Reglage -> Nat]
      BY ONLY <3>2, Zenon
    <3>3. travail.lu \in Reglage => envois[travail.lu] + 1 \in Nat
      OBVIOUS
    <3> QED BY <3>1, <3>2, <3>3
  <2>2. /\ requetes' = requetes /\ travail' = [travail EXCEPT !.etape = "effacer"]
        /\ croises' \in BOOLEAN
    BY <1>9, <1>02 DEF Notifier, Suivre
  <2> QED BY <2>1, <2>2, <1>9, <1>01 DEF Notifier
<1>10. CASE Effacer
  BY <1>10 DEF Effacer, DateEffacee, Terminer, Suivre, EnCours, Appel
<1>11. CASE EchouerJob
  BY <1>11 DEF EchouerJob, Incident, Terminer, Suivre, EnCours, Appel
<1>12. CASE Arret
  <2>1. requetes' \in [Requete -> Appel] /\ travail' = Repos /\ croises' \in BOOLEAN
    BY <1>12, <1>02 DEF Arret, Suivre, Appel
  <2>2. job' \in [etat : {"absent", "differe", "fini"}, pour : 0..reglages, reprises : {0, 1}]
    BY <1>12 DEF Arret
  <2>3. incidents' \in Nat /\ UNCHANGED <<ligne, reglages, appels, envois, manquee>>
    BY <1>12 DEF Arret, Incident
  <2> QED BY <2>1, <2>2, <2>3, <1>01
<1>13. CASE Supprimer
  <2>1. /\ existe' = FALSE /\ alerteA' = 0
        /\ UNCHANGED <<assigne, job, travail, requetes, compteurs, envois, croises, manquee>>
    BY <1>13 DEF Supprimer
  <2>2. alerteA' \in 0..reglages'
    BY <2>1
  <2> QED BY <2>1, <2>2, <1>01
<1>14. CASE Reassigner
  BY <1>14 DEF Reassigner, Appel
<1>15. CASE UNCHANGED vars
  BY <1>15 DEF vars, Appel
<1> QED BY <1>1, <1>2, <1>3, <1>4, <1>5, <1>6, <1>7, <1>8, <1>9, <1>10, <1>11, <1>12,
           <1>13, <1>14, <1>15 DEF Next

(* Every variable keeps its type; a task that is gone has no alert, and    *)
(* the worker has a job exactly when Redis holds one under way.            *)
THEOREM AlertesTypeCorrect == Spec => []Types
<1>1. Init => Types
  <2> SUFFICES ASSUME Init PROVE Types
    OBVIOUS
  <2>1. requetes \in [Requete -> Appel] /\ envois \in [Reglage -> Nat]
    BY DEF Init, Appel, Libre
  <2>2. job \in [etat : {"absent"}, pour : {0}, reprises : {0}]
    BY DEF Init, Absent
  <2>3. 0 \in 0..reglages /\ reglages \in Nat /\ appels \in Nat /\ incidents \in Nat
    BY DEF Init
  <2>4. travail = [etape |-> "repos", lu |-> 0] /\ travail = Repos
    BY DEF Init, Repos
  <2>5. existe = TRUE /\ assigne = TRUE /\ alerteA = 0 /\ croises = FALSE /\ manquee = FALSE
    BY DEF Init
  <2>6. travail \in [etape : {"repos", "lire", "notifier", "effacer"}, lu : 0..reglages]
    BY <2>3, <2>4
  <2>7. /\ job \in [etat : {"absent", "differe", "actif", "fini"}, pour : 0..reglages,
                    reprises : {0, 1}]
        /\ job.etat = "absent"
    BY <2>2, <2>3
  <2>8. TypeOK
    BY <2>1, <2>3, <2>4, <2>5, <2>7 DEF TypeOK
  <2> QED BY <2>1, <2>3, <2>4, <2>5, <2>6, <2>8 DEF Types
<1>2. Types /\ [Next]_vars => Types'
  BY AlertesTypeStep
<1> QED BY <1>1, <1>2, PTL DEF Spec

-----------------------------------------------------------------------------
(* One notification per setting *)

(* Only the worker's sending changes the history of the notifications; no  *)
(* other step makes a setting of the past to be sent, or takes an incident *)
(* back.                                                                   *)
LEMMA EnvoisAutres ==
    ASSUME Types, Envois, UNCHANGED envois, incidents' \in Nat, reglages' \in Nat,
           incidents <= incidents', reglages <= reglages',
           \A n \in Reglage : AEnvoyer(n)' =>
              AEnvoyer(n) \/ n > reglages \/ incidents < incidents'
    PROVE  Envois'
<1> SUFFICES ASSUME NEW n \in Reglage
             PROVE  /\ envois[n] <= 1 + incidents'
                    /\ n > reglages' => envois[n] = 0
                    /\ AEnvoyer(n)' => envois[n] <= incidents'
  BY DEF Envois
<1>1. /\ envois[n] \in Nat /\ n \in Nat /\ incidents \in Nat /\ reglages \in Nat
  BY AlertesAssumption DEF Types, TypeOK, Reglage
<1>2. /\ envois[n] <= 1 + incidents
      /\ n > reglages => envois[n] = 0
      /\ AEnvoyer(n) => envois[n] <= incidents
  BY DEF Envois
<1>3. AEnvoyer(n)' => envois[n] <= incidents'
  BY <1>1, <1>2
<1> QED BY <1>1, <1>2, <1>3

(* Every action keeps a notification to spare for a setting not yet sent.    *)
LEMMA EnvoisStep == ASSUME Types, Types', Envois, [Next]_vars PROVE Envois'
<1>t. /\ incidents \in Nat /\ reglages \in Nat /\ incidents' \in Nat /\ reglages' \in Nat
      /\ alerteA \in 0..reglages /\ travail.lu \in 0..reglages
  BY DEF Types, TypeOK
<1> USE DEF ligne, compteurs, AEnvoyer
<1>1. ASSUME NEW r \in Requete, NEW o \in {"regler", "annuler"},
             NEW p \in {"manager", "assigne"}, Appeler(r, o, p) PROVE Envois'
  BY <1>t, <1>1, EnvoisAutres DEF Appeler, Suivre
<1>2. ASSUME NEW r \in Requete, Charger(r) PROVE Envois'
  BY <1>t, <1>2, EnvoisAutres DEF Charger, Passer, Finir, Suivre
<1>3. ASSUME NEW r \in Requete, Ecrire(r) PROVE Envois'
  <2>1. UNCHANGED <<travail, incidents, envois>>
    BY <1>3 DEF Ecrire, Passer, Finir, Suivre
  <2>2. \/ alerteA' = alerteA /\ reglages' = reglages
        \/ alerteA' = 0 /\ reglages' = reglages
        \/ alerteA' = reglages + 1 /\ reglages' = reglages + 1
    BY <1>3 DEF Ecrire
  <2>3. \A n \in Reglage : n # 0
    BY DEF Reglage
  <2>4. \A n \in Reglage : AEnvoyer(n)' => AEnvoyer(n) \/ n > reglages
    BY <1>t, <2>1, <2>2, <2>3
  <2> QED BY <1>t, <2>1, <2>2, <2>4, EnvoisAutres
<1>4. ASSUME NEW r \in Requete, Retirer(r) PROVE Envois'
  BY <1>t, <1>4, EnvoisAutres DEF Retirer, Passer, Finir, Suivre
<1>5. ASSUME NEW r \in Requete, Ajouter(r) PROVE Envois'
  BY <1>t, <1>5, EnvoisAutres DEF Ajouter, Finir, Suivre
<1>6. ASSUME NEW r \in Requete, PanneRedis(r) PROVE Envois'
  BY <1>t, <1>6, EnvoisAutres DEF PanneRedis, Finir, Suivre, Incident
<1>7. CASE Prendre
  BY <1>t, <1>7, EnvoisAutres DEF Prendre, Suivre, Repos
<1>8. CASE LireTache
  <2>1. /\ UNCHANGED <<alerteA, incidents, reglages, envois>>
        /\ travail.etape = "lire"
        /\ travail' \in {Repos, [etape |-> "notifier", lu |-> alerteA]}
    BY <1>8 DEF LireTache, Terminer, Suivre
  <2>2. \A n \in Reglage : AEnvoyer(n)' => AEnvoyer(n)
    BY <2>1 DEF Repos
  <2> QED BY <1>t, <2>1, <2>2, EnvoisAutres
<1>9. CASE Notifier
  <2>1. /\ UNCHANGED <<alerteA, incidents, reglages>>
        /\ travail' = [travail EXCEPT !.etape = "effacer"]
        /\ envois' = [envois EXCEPT ![travail.lu] = envois[travail.lu] + 1]
        /\ travail.etape = "notifier"
    BY <1>9 DEF Notifier, Suivre
  <2>2. ASSUME NEW n \in Reglage
        PROVE  /\ envois'[n] <= 1 + incidents'
               /\ n > reglages' => envois'[n] = 0
               /\ AEnvoyer(n)' => envois'[n] <= incidents'
    <3>1. /\ envois[n] \in Nat /\ n \in Nat
      BY AlertesAssumption DEF Types, TypeOK, Reglage
    <3>2. /\ envois[n] <= 1 + incidents
          /\ n > reglages => envois[n] = 0
          /\ AEnvoyer(n) => envois[n] <= incidents
      BY DEF Envois
    <3>3. ~AEnvoyer(n)'
      BY <2>1 DEF Types, TypeOK
    <3>4. CASE n = travail.lu
      <4>1. envois'[n] = envois[n] + 1
        BY <2>1, <3>4 DEF Types, TypeOK
      <4>2. envois[n] <= incidents /\ ~(n > reglages)
        BY <3>4, <3>2, <2>1, <1>t
      <4> QED BY <4>1, <4>2, <3>1, <3>3, <2>1, <1>t
    <3>5. CASE n # travail.lu
      <4>1. envois'[n] = envois[n]
        BY <2>1, <3>5 DEF Types, TypeOK
      <4> QED BY <4>1, <3>1, <3>2, <3>3, <2>1
    <3> QED BY <3>4, <3>5
  <2> QED BY <2>2 DEF Envois
<1>10. CASE Effacer
  <2>1. /\ UNCHANGED <<incidents, reglages, envois>>
        /\ alerteA' = 0 /\ travail' = Repos
    BY <1>10 DEF Effacer, DateEffacee, Terminer, Suivre
  <2>2. \A n \in Reglage : ~AEnvoyer(n)'
    BY <2>1 DEF Repos, Reglage
  <2> QED BY <1>t, <2>1, <2>2, EnvoisAutres
<1>11. CASE EchouerJob
  BY <1>t, <1>11, EnvoisAutres DEF EchouerJob, Terminer, Suivre, Incident
<1>12. CASE Arret
  BY <1>t, <1>12, EnvoisAutres DEF Arret, Suivre, Incident
<1>13. CASE Supprimer
  <2>1. UNCHANGED <<incidents, reglages, envois, travail>> /\ alerteA' = 0
    BY <1>13 DEF Supprimer
  <2>2. \A n \in Reglage : AEnvoyer(n)' => AEnvoyer(n)
    BY <2>1 DEF Reglage
  <2> QED BY <1>t, <2>1, <2>2, EnvoisAutres
<1>14. CASE Reassigner
  BY <1>t, <1>14, EnvoisAutres DEF Reassigner
<1>15. CASE UNCHANGED vars
  BY <1>t, <1>15, EnvoisAutres DEF vars
<1> QED BY <1>1, <1>2, <1>3, <1>4, <1>5, <1>6, <1>7, <1>8, <1>9, <1>10, <1>11, <1>12,
           <1>13, <1>14, <1>15 DEF Next

(* An alert is notified once, and once more per incident at most, however  *)
(* many calls overlap with the worker.                                     *)
THEOREM UnSeulEnvoiCorrect == Spec => []UnSeulEnvoi
<1>1. Init => Envois
  BY DEF Init, Envois, AEnvoyer, Reglage, Repos
<1>2. Types /\ Types' /\ Envois /\ [Next]_vars => Envois'
  BY EnvoisStep
<1>3. Envois => UnSeulEnvoi
  BY DEF Envois, UnSeulEnvoi
<1> QED BY <1>1, <1>2, <1>3, AlertesTypeCorrect, PTL DEF Spec

-----------------------------------------------------------------------------
(* The row and the queue agree *)

(* A call that did not overlap is alone with an idle worker.               *)
LEMMA SeulStep == ASSUME Seul, [Next]_vars PROVE Seul'
<1> USE DEF ligne, compteurs, Passer, Finir, Terminer
<1>1. ASSUME NEW q, NEW t, Suivre(q, t) PROVE Seul'
  BY <1>1, SuivreSeul
<1>2. ASSUME UNCHANGED <<travail, requetes, croises>> PROVE Seul'
  BY <1>2 DEF Seul, SeulAvec
<1>3. ASSUME NEW r \in Requete, NEW o \in {"regler", "annuler"},
             NEW p \in {"manager", "assigne"}, Appeler(r, o, p) PROVE Seul'
  BY <1>3, <1>1 DEF Appeler
<1>4. ASSUME NEW r \in Requete, Charger(r) \/ Ecrire(r) \/ Retirer(r) \/ Ajouter(r) \/ PanneRedis(r)
      PROVE Seul'
  BY <1>4, <1>1 DEF Charger, Ecrire, Retirer, Ajouter, PanneRedis
<1>5. CASE Prendre \/ LireTache \/ Notifier \/ Effacer \/ EchouerJob \/ Arret
  BY <1>5, <1>1 DEF Prendre, LireTache, Notifier, Effacer, EchouerJob, Arret
<1>6. CASE Supprimer \/ Reassigner \/ UNCHANGED vars
  BY <1>6, <1>2 DEF Supprimer, Reassigner, vars
<1> QED BY <1>3, <1>4, <1>5, <1>6 DEF Next

(* Calls keep what they are for from one step to the next. *)
LEMMA NommeesStep == ASSUME Types, Nommees, [Next]_vars PROVE Nommees'
<1> USE DEF Nommees, ligne, compteurs
<1>1. ASSUME requetes' = requetes PROVE Nommees'
  BY <1>1
<1>2. ASSUME NEW r \in Requete, Finir(r) PROVE Nommees'
  BY <1>2 DEF Finir, Suivre, Types, Libre
<1>3. ASSUME NEW r \in Requete, NEW e, Passer(r, e), requetes[r].etape # "fin" PROVE Nommees'
  BY <1>3 DEF Passer, Suivre, Types, Appel
<1>4. ASSUME NEW r \in Requete, NEW o \in {"regler", "annuler"},
             NEW p \in {"manager", "assigne"}, Appeler(r, o, p) PROVE Nommees'
  BY <1>4 DEF Appeler, Suivre, Types
<1>5. ASSUME NEW r \in Requete, Charger(r) \/ Retirer(r) \/ Ajouter(r) \/ PanneRedis(r)
      PROVE Nommees'
  BY <1>5, <1>2, <1>3 DEF Charger, Retirer, Ajouter, PanneRedis
<1>6. ASSUME NEW r \in Requete, Ecrire(r) PROVE Nommees'
  <2>1. CASE Finir(r) \/ Passer(r, "retirer")
    BY <2>1, <1>2, <1>3, <1>6 DEF Ecrire
  <2>2. CASE Suivre([requetes EXCEPT ![r].etape = "retirer", ![r].n = reglages'], travail)
    BY <2>2, <1>6 DEF Ecrire, Suivre, Types, Appel
  <2> QED BY <2>1, <2>2, <1>6 DEF Ecrire
<1>7. CASE Prendre \/ LireTache \/ Notifier \/ Effacer \/ EchouerJob
  BY <1>7, <1>1 DEF Prendre, LireTache, Notifier, Effacer, EchouerJob, Terminer, Suivre
<1>8. CASE Arret
  BY <1>8 DEF Arret, Suivre, Libre
<1>9. CASE Supprimer \/ Reassigner \/ UNCHANGED vars
  BY <1>9, <1>1 DEF Supprimer, Reassigner, vars
<1> QED BY <1>4, <1>5, <1>6, <1>7, <1>8, <1>9 DEF Next

(* The part of Suivi about one call, for its point q.                      *)
SuiviDe(q) ==
    /\ q.etape = "retirer" => /\ q.op = "annuler" => alerteA = 0
                              /\ q.op = "regler" => alerteA = q.n /\ alerteA # 0
                              /\ q.op # "libre"
    /\ q.etape = "ajouter" => job.etat = "absent" /\ alerteA = q.n /\ alerteA # 0

(* A step of the call r alone: what is left to prove is about r's new      *)
(* point, all the others being idle.                                       *)
LEMMA SuiviAppel ==
    ASSUME Seul, Seul', croises => croises', NEW r \in Requete,
           requetes[r] # Libre \/ requetes'[r] # Libre,
           \A s \in Requete \ {r} : requetes'[s] = requetes[s],
           ~croises' /\ incidents' = 0 /\ ~manquee' /\ existe' =>
              /\ SuiviDe(requetes[r])'
              /\ travail' = Repos /\ requetes'[r].etape \notin {"retirer", "ajouter"} => Annonce'
    PROVE  Suivi'
<1> SUFFICES ASSUME ~croises', incidents' = 0, ~manquee', existe' PROVE Suivi'
  BY DEF Suivi
<1>1. \A s \in Requete \ {r} : requetes'[s] = Libre
  <2>1. CASE requetes[r] # Libre
    BY <2>1 DEF Seul, SeulAvec
  <2>2. CASE requetes'[r] # Libre
    BY <2>2 DEF Seul, SeulAvec
  <2> QED BY <2>1, <2>2
<1>2. \A s \in Requete \ {r} : requetes'[s].etape = "fin"
  BY <1>1 DEF Libre
<1> QED BY <1>2 DEF Suivi, SuiviDe

(* A step of the worker: the calls are idle as long as it has work, and    *)
(* what it leaves has to agree when it is done.                            *)
LEMMA SuiviTravail ==
    ASSUME Seul, Seul', travail # Repos \/ travail' # Repos, croises => croises',
           requetes' = requetes,
           ~croises' /\ incidents' = 0 /\ ~manquee' /\ existe' /\ travail' = Repos => Annonce'
    PROVE  Suivi'
<1> SUFFICES ASSUME ~croises', incidents' = 0, ~manquee', existe' PROVE Suivi'
  BY DEF Suivi
<1>1. \A s \in Requete : requetes'[s] = Libre
  BY DEF Seul, SeulAvec
<1>2. \A s \in Requete : requetes'[s].etape = "fin"
  BY <1>1 DEF Libre
<1> QED BY <1>2 DEF Suivi

(* Every action keeps the jobs and the rows in agreement.                    *)
LEMMA SuiviStep ==
    ASSUME Types, Nommees, Seul, Seul', Suivi, [Next]_vars
    PROVE  Suivi'
<1> USE DEF ligne, compteurs
<1>t. /\ job.etat = "actif" => travail # Repos
      /\ \A r \in Requete : requetes[r].op \in {"libre", "regler", "annuler"}
      /\ reglages \in Nat /\ incidents \in Nat
  BY DEF Types, TypeOK, Repos, Appel
(* An incident ends what the invariant says. *)
<1>i. ASSUME Incident PROVE Suivi'
  BY <1>t, <1>i DEF Incident, Suivi
(* A call that is busy is followed up to its next step. *)
<1>p. ASSUME NEW r \in Requete, requetes[r].etape # "fin"
      PROVE  /\ requetes[r] # Libre
             /\ ~croises => travail = Repos
             /\ ~croises => \A s \in Requete \ {r} : requetes[s].etape = "fin"
  <2>1. requetes[r] # Libre
    BY <1>p DEF Libre
  <2>2. ~croises => \A s \in Requete \ {r} : requetes[s] = Libre
    BY <2>1 DEF Seul, SeulAvec
  <2> QED BY <2>1, <2>2 DEF Seul, SeulAvec, Libre
<1>f. ASSUME NEW r \in Requete, Finir(r)
      PROVE  /\ requetes'[r] = Libre /\ requetes'[r].etape = "fin"
             /\ travail' = travail /\ (croises => croises')
             /\ \A s \in Requete \ {r} : requetes'[s] = requetes[s]
  BY <1>f DEF Finir, Suivre, Types, Libre
<1>e. ASSUME NEW r \in Requete, NEW e, Passer(r, e)
      PROVE  /\ requetes'[r].etape = e
             /\ requetes'[r].op = requetes[r].op /\ requetes'[r].n = requetes[r].n
             /\ travail' = travail /\ (croises => croises')
             /\ \A s \in Requete \ {r} : requetes'[s] = requetes[s]
  BY <1>e DEF Passer, Suivre, Types, Appel
<1>1. ASSUME NEW r \in Requete, NEW o \in {"regler", "annuler"},
             NEW p \in {"manager", "assigne"}, Appeler(r, o, p) PROVE Suivi'
  <2>1. /\ requetes[r] = Libre /\ requetes'[r].etape = "charger" /\ requetes'[r].op = o
        /\ \A s \in Requete \ {r} : requetes'[s] = requetes[s]
        /\ travail' = travail /\ (croises => croises')
        /\ UNCHANGED <<existe, assigne, alerteA, job, incidents, manquee>>
    BY <1>1 DEF Appeler, Suivre, Types
  <2>2. requetes'[r] # Libre
    BY <2>1 DEF Libre
  <2>3. ~croises' => \A s \in Requete : requetes[s] = Libre
    BY <2>1, <2>2 DEF Seul, SeulAvec
  <2>4. ~croises' => \A s \in Requete : requetes[s].etape \notin {"retirer", "ajouter"}
    BY <2>3 DEF Libre
  <2>5. SuiviDe(requetes[r])'
    BY <2>1 DEF SuiviDe
  <2>6. ~croises' /\ incidents' = 0 /\ ~manquee' /\ existe' /\ travail' = Repos => Annonce'
    BY <2>1, <2>4 DEF Suivi, Annonce
  <2> QED BY <2>1, <2>2, <2>5, <2>6, SuiviAppel
<1>2. ASSUME NEW r \in Requete, Charger(r) PROVE Suivi'
  <2>1. /\ requetes[r].etape = "charger"
        /\ UNCHANGED <<existe, assigne, alerteA, job, incidents, manquee>>
    BY <1>2 DEF Charger
  <2>2. /\ requetes'[r].etape \in {"ecrire", "fin"}
        /\ travail' = travail /\ (croises => croises')
        /\ \A s \in Requete \ {r} : requetes'[s] = requetes[s]
    BY <1>2, <1>e, <1>f DEF Charger
  <2>3. ~croises => travail = Repos /\ \A s \in Requete : requetes[s].etape \notin {"retirer", "ajouter"}
    BY <2>1, <1>p
  <2>4. SuiviDe(requetes[r])'
    BY <2>2 DEF SuiviDe
  <2>5. ~croises' /\ incidents' = 0 /\ ~manquee' /\ existe' => Annonce'
    BY <2>1, <2>2, <2>3 DEF Suivi, Annonce
  <2> QED BY <2>1, <2>2, <2>4, <2>5, <1>p, SuiviAppel
<1>3. ASSUME NEW r \in Requete, Ecrire(r) PROVE Suivi'
  <2>1. requetes[r].etape = "ecrire" /\ requetes[r] # Libre
    BY <1>3, <1>p DEF Ecrire
  <2>2. CASE ~LigneLa
    BY <2>2, <1>3 DEF LigneLa, Ecrire, Suivi
  <2>3. CASE LigneLa /\ requetes[r].op = "annuler"
    <3>1. Passer(r, "retirer") /\ alerteA' = 0
      BY <2>3, <1>3 DEF Ecrire
    <3>2. SuiviDe(requetes[r])' /\ requetes'[r].etape = "retirer"
      BY <3>1, <1>e, <2>3 DEF SuiviDe
    <3> QED BY <3>1, <3>2, <1>e, <2>1, SuiviAppel
  <2>4. CASE LigneLa /\ requetes[r].op # "annuler"
    <3>1. /\ reglages' = reglages + 1 /\ alerteA' = reglages'
          /\ Suivre([requetes EXCEPT ![r].etape = "retirer", ![r].n = reglages'], travail)
      BY <2>4, <1>3 DEF Ecrire
    <3>2. /\ requetes'[r].etape = "retirer" /\ requetes'[r].n = reglages'
          /\ requetes'[r].op = requetes[r].op
          /\ (croises => croises')
          /\ \A s \in Requete \ {r} : requetes'[s] = requetes[s]
      BY <3>1 DEF Suivre, Types, Appel
    <3>3. requetes[r].op # "libre"
      BY <2>1 DEF Nommees
    <3>4. SuiviDe(requetes[r])'
      BY <3>1, <3>2, <3>3, <2>4, <1>t DEF SuiviDe
    <3> QED BY <3>2, <3>4, <2>1, SuiviAppel
  <2> QED BY <2>2, <2>3, <2>4
<1>4. ASSUME NEW r \in Requete, Retirer(r) PROVE Suivi'
  <2>1. requetes[r].etape = "retirer" /\ job' = JobRetire /\ UNCHANGED <<existe, alerteA, incidents, manquee>>
    BY <1>4 DEF Retirer, RetireDe
  <2>2. /\ requetes[r] # Libre
        /\ ~croises => travail = Repos
    BY <2>1, <1>p
  <2>3. ~croises => job' = Absent
    BY <2>1, <2>2, <1>t DEF JobRetire
  <2>4. ~croises /\ incidents = 0 /\ ~manquee /\ existe => SuiviDe(requetes[r])
    BY <2>1 DEF Suivi, SuiviDe
  <2>5. CASE requetes[r].op = "regler"
    <3>1. Passer(r, "ajouter")
      BY <2>5, <1>4 DEF Retirer
    <3>2. ~croises' /\ incidents' = 0 /\ ~manquee' /\ existe' => SuiviDe(requetes[r])'
      BY <3>1, <1>e, <2>1, <2>3, <2>4, <2>5 DEF SuiviDe, Absent
    <3> QED BY <3>1, <3>2, <1>e, <2>2, SuiviAppel
  <2>6. CASE requetes[r].op # "regler"
    <3>1. Finir(r)
      BY <2>6, <1>4 DEF Retirer
    <3>2. ~croises' /\ incidents' = 0 /\ ~manquee' /\ existe' => alerteA' = 0 /\ job' = Absent
      BY <3>1, <1>f, <1>t, <2>1, <2>3, <2>4, <2>6 DEF SuiviDe
    <3>3. ~croises' /\ incidents' = 0 /\ ~manquee' /\ existe' => Annonce'
      BY <3>2 DEF Annonce, Absent
    <3>4. SuiviDe(requetes[r])'
      BY <3>1, <1>f DEF SuiviDe
    <3> QED BY <3>1, <3>3, <3>4, <1>f, <2>2, SuiviAppel
  <2> QED BY <2>5, <2>6
<1>5. ASSUME NEW r \in Requete, Ajouter(r) PROVE Suivi'
  <2>1. /\ requetes[r].etape = "ajouter" /\ UNCHANGED <<existe, alerteA, incidents, manquee>>
        /\ Finir(r)
        /\ job' = IF job.etat = "absent"
                  THEN [Absent EXCEPT !.etat = "differe", !.pour = requetes[r].n] ELSE job
    BY <1>5 DEF Ajouter
  <2>2. requetes[r] # Libre
    BY <2>1, <1>p
  <2>3. ~croises /\ incidents = 0 /\ ~manquee /\ existe => SuiviDe(requetes[r])
    BY <2>1 DEF Suivi, SuiviDe
  <2>4. ~croises' /\ incidents' = 0 /\ ~manquee' /\ existe' => Annonce'
    BY <2>1, <2>3, <1>f DEF SuiviDe, Annonce, Absent
  <2>5. SuiviDe(requetes[r])'
    BY <2>1, <1>f DEF SuiviDe
  <2> QED BY <2>1, <2>2, <2>4, <2>5, <1>f, SuiviAppel
<1>6. ASSUME NEW r \in Requete, PanneRedis(r) PROVE Suivi'
  BY <1>6, <1>i DEF PanneRedis
<1>7. CASE Prendre
  <2>1. travail' # Repos /\ requetes' = requetes /\ (croises => croises')
    BY <1>7 DEF Prendre, Suivre, Repos
  <2> QED BY <2>1, SuiviTravail
<1>8. CASE LireTache
  <2>1. travail # Repos /\ requetes' = requetes /\ (croises => croises')
    <3>1. travail # Repos
      BY <1>8 DEF LireTache, Repos
    <3>2. \/ Suivre(requetes, [etape |-> "notifier", lu |-> alerteA])
          \/ Suivre(requetes, Repos)
      BY <1>8 DEF LireTache, Terminer
    <3> QED BY <3>1, <3>2 DEF Suivre
  <2>2. ASSUME ~manquee', existe', travail' = Repos PROVE Annonce'
    <3>1. Terminer /\ ~(alerteA # 0 /\ assigne) /\ alerteA' = alerteA
      BY <1>8, <2>2 DEF LireTache, Suivre, Repos
    <3>2. alerteA = 0
      BY <1>8, <2>2, <3>1 DEF LireTache
    <3>3. job'.etat = "fini"
      BY <3>1, TerminerEffet
    <3> QED BY <3>1, <3>2, <3>3 DEF Annonce
  <2> QED BY <2>1, <2>2, SuiviTravail
<1>9. CASE Notifier
  <2>1. /\ travail # Repos /\ requetes' = requetes /\ (croises => croises')
        /\ travail' # Repos
    BY <1>9 DEF Notifier, Suivre, Repos, Types
  <2> QED BY <2>1, SuiviTravail
<1>10. CASE Effacer
  <2>1. travail # Repos /\ requetes' = requetes /\ (croises => croises')
    <3>1. travail # Repos
      BY <1>10 DEF Effacer, Repos
    <3> QED BY <3>1, <1>10 DEF Effacer, Terminer, Suivre
  <2>2. alerteA' = 0 /\ job'.etat = "fini"
    BY <1>10, TerminerEffet DEF Effacer, DateEffacee
  <2>3. Annonce'
    BY <2>2 DEF Annonce
  <2> QED BY <2>1, <2>3, SuiviTravail
<1>11. CASE EchouerJob
  BY <1>11, <1>i DEF EchouerJob
<1>12. CASE Arret
  BY <1>12, <1>i DEF Arret
<1>13. CASE Supprimer
  BY <1>13 DEF Supprimer, Suivi
<1>14. CASE Reassigner
  BY <1>14 DEF Reassigner, Suivi, Annonce
<1>15. CASE UNCHANGED vars
  BY <1>15 DEF vars, Suivi, Annonce
<1> QED BY <1>1, <1>2, <1>3, <1>4, <1>5, <1>6, <1>7, <1>8, <1>9, <1>10, <1>11, <1>12,
           <1>13, <1>14, <1>15 DEF Next

(* As long as nothing overlapped or failed and no alert came due on a task *)
(* nobody had, the row announces an alert exactly when a job is waiting,   *)
(* and that job was delayed for it.                                        *)
THEOREM AccordCorrect == Spec => []Accord
<1>1. Init => Nommees /\ Seul /\ Suivi
  BY DEF Init, Nommees, Seul, SeulAvec, Suivi, Annonce, Absent, Repos, Libre
<1>2. Types /\ Nommees /\ Seul /\ Suivi /\ [Next]_vars => Nommees' /\ Seul' /\ Suivi'
  BY NommeesStep, SeulStep, SuiviStep
<1>3. Suivi => Accord
  <2> SUFFICES ASSUME Suivi, Calme PROVE Annonce
    BY DEF Accord, Annonce
  <2>1. (\A r \in Requete : requetes[r] = Libre) /\ travail = Repos
    BY EnCoursZero DEF Calme
  <2>2. \A r \in Requete : requetes[r].etape \notin {"retirer", "ajouter"}
    BY <2>1 DEF Libre
  <2> QED BY <2>1, <2>2 DEF Suivi, Calme
<1> QED BY <1>1, <1>2, <1>3, AlertesTypeCorrect, PTL DEF Spec

=============================================================================
