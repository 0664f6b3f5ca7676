-------------------------------- MODULE Alertes --------------------------------
(***************************************************************************)
(* The reminder of a task: the date alerteA of its row, a delayed job of   *)
(* the queue "rituels", and the worker that sends the notification.  The   *)
(* row and Redis are written one after the other, the job has one id per   *)
(* task, and nothing ties the job to the date it was made for.             *)
(*                                                                         *)
(* Dates are replaced by the number of the setting they come from: a       *)
(* delayed job may become due at any time.  BullMQ is outside: a job under *)
(* way cannot be removed, an id that is still known (waiting, under way or *)
(* finished, since nothing removes the finished ones) is not added again,  *)
(* a job is tried once, and one whose process died is taken up again once. *)
(* An id with a colon is taken to be accepted by it.                       *)
(***************************************************************************)
EXTENDS Naturals, FiniteSets

CONSTANTS
    Requete,       \* calls of the API that may be under way
    MaxAppels, MaxIncidents

ASSUME AlertesAssumption ==
    /\ IsFiniteSet(Requete)
    /\ {MaxAppels, MaxIncidents} \subseteq Nat

VARIABLES
    existe, assigne,   \* the row is there; somebody is assigned
    alerteA,           \* the setting the row's date comes from, 0 for null
    job,               \* alerte:<id> in Redis: its state, setting, times taken up
    travail,           \* the worker: its next step, and the date it has read
    requetes,          \* calls under way
    reglages, appels, incidents,
    envois,            \* per setting, the notifications sent while it stood (history)
    croises,           \* calls or the worker have overlapped (history)
    manquee            \* a job became due with nobody assigned (history)

ligne == <<existe, assigne, alerteA>>
compteurs == <<reglages, appels, incidents>>
vars == <<ligne, job, travail, requetes, compteurs, envois, croises, manquee>>

-----------------------------------------------------------------------------
Reglage == 1..MaxAppels
Absent == [etat |-> "absent", pour |-> 0, reprises |-> 0]
Repos == [etape |-> "repos", lu |-> 0]
Libre == [op |-> "libre", par |-> "manager", etape |-> "fin", n |-> 0]

Init ==
    /\ existe = TRUE /\ assigne = TRUE /\ alerteA = 0
    /\ job = Absent /\ travail = Repos
    /\ requetes = [r \in Requete |-> Libre]
    /\ reglages = 0 /\ appels = 0 /\ incidents = 0
    /\ envois = [n \in Reglage |-> 0] /\ croises = FALSE /\ manquee = FALSE

(* The calls and the worker, with the history of their overlaps.           *)
EnCours(q, t) == Cardinality({r \in Requete : q[r] # Libre}) + (IF t = Repos THEN 0 ELSE 1)
Suivre(q, t) ==
    /\ requetes' = q /\ travail' = t
    /\ croises' = (croises \/ EnCours(q, t) > 1)
Passer(r, e) == Suivre([requetes EXCEPT ![r].etape = e], travail)
Finir(r) == Suivre([requetes EXCEPT ![r] = Libre], travail)

-----------------------------------------------------------------------------
(* setAlerte() and cancelAlerte(). *)
Appeler(r, o, p) ==
    /\ requetes[r] = Libre /\ appels < MaxAppels
    /\ appels' = appels + 1
    /\ Suivre([requetes EXCEPT ![r] = [op |-> o, par |-> p, etape |-> "charger", n |-> 0]], travail)
    /\ UNCHANGED <<ligne, job, reglages, incidents, envois, manquee>>

(* loadWithBureau(), then the assignee or a manager.                       *)
Permise(r) == existe /\ (requetes[r].par = "manager" \/ assigne)
Charger(r) ==
    /\ requetes[r].etape = "charger"
    /\ IF Permise(r) THEN Passer(r, "ecrire") ELSE Finir(r)
    /\ UNCHANGED <<ligne, job, compteurs, envois, manquee>>

(* The date of the row; update() fails when there is no row any more.      *)
LigneLa == existe
Ecrire(r) ==
    /\ requetes[r].etape = "ecrire"
    /\ IF ~LigneLa THEN Finir(r) /\ UNCHANGED <<alerteA, reglages>>
       ELSE IF requetes[r].op = "annuler"
       THEN alerteA' = 0 /\ Passer(r, "retirer") /\ UNCHANGED reglages
       ELSE /\ reglages' = reglages + 1 /\ alerteA' = reglages'
            /\ Suivre([requetes EXCEPT ![r].etape = "retirer", ![r].n = reglages'], travail)
    /\ UNCHANGED <<existe, assigne, job, appels, incidents, envois, manquee>>

(* queue.remove(): nothing happens to a job under way.                     *)
SansRetirer(r) == job                             \* mutant: the former job is left
JobRetire == IF job.etat = "actif" THEN job ELSE Absent
ReglageSeul(r) == IF requetes[r].op = "regler" THEN JobRetire ELSE job
                                                \* mutant: cancelAlerte() leaves the job
RetireDe(r) == JobRetire
Retirer(r) ==
    /\ requetes[r].etape = "retirer"
    /\ job' = RetireDe(r)
    /\ IF requetes[r].op = "regler" THEN Passer(r, "ajouter") ELSE Finir(r)
    /\ UNCHANGED <<ligne, compteurs, envois, manquee>>

(* queue.add() with the task's id.                                         *)
Ajouter(r) ==
    /\ requetes[r].etape = "ajouter"
    /\ job' = IF job.etat = "absent"
              THEN [Absent EXCEPT !.etat = "differe", !.pour = requetes[r].n] ELSE job
    /\ Finir(r)
    /\ UNCHANGED <<ligne, compteurs, envois, manquee>>

Incident == incidents < MaxIncidents /\ incidents' = incidents + 1

(* Redis fails: logged, and the caller is told that all went well.         *)
PanneRedis(r) ==
    /\ requetes[r].etape \in {"retirer", "ajouter"} /\ Incident
    /\ Finir(r)
    /\ UNCHANGED <<ligne, job, reglages, appels, envois, manquee>>

-----------------------------------------------------------------------------
(* The job is due and the worker takes it.                                 *)
Prendre ==
    /\ job.etat = "differe" /\ travail = Repos
    /\ job' = [job EXCEPT !.etat = "actif"]
    /\ Suivre(requetes, [etape |-> "lire", lu |-> 0])
    /\ UNCHANGED <<ligne, compteurs, envois, manquee>>

Terminer == job' = [job EXCEPT !.etat = "fini"] /\ Suivre(requetes, Repos)

(* The test is that there is a date, not that it is the job's.             *)
LireTache ==
    /\ travail.etape = "lire"
    /\ IF existe /\ alerteA # 0 /\ assigne
       THEN Suivre(requetes, [etape |-> "notifier", lu |-> alerteA]) /\ UNCHANGED job
       ELSE Terminer
    /\ manquee' = (manquee \/ (existe /\ alerteA # 0 /\ ~assigne))
    /\ UNCHANGED <<ligne, compteurs, envois>>

Notifier ==
    /\ travail.etape = "notifier"
    /\ envois' = [envois EXCEPT ![travail.lu] = @ + 1]
    /\ Suivre(requetes, [travail EXCEPT !.etape = "effacer"])
    /\ UNCHANGED <<ligne, job, compteurs, manquee>>

(* A row deleted since makes the job fail, which ends it as well.          *)
DateLaissee == alerteA                          \* mutant: alerteA not cleared
DateEffacee == 0
Effacer ==
    /\ travail.etape = "effacer"
    /\ alerteA' = DateEffacee
    /\ Terminer
    /\ UNCHANGED <<existe, assigne, compteurs, envois, manquee>>

(* The database fails under the worker: the job is not tried again.        *)
EchouerJob ==
    /\ travail # Repos /\ Incident
    /\ Terminer
    /\ UNCHANGED <<ligne, reglages, appels, envois, manquee>>

(* The API stops; a job under way is taken up again, once.                 *)
Arret ==
    /\ Incident
    /\ Suivre([r \in Requete |-> Libre], Repos)
    /\ job' = IF job.etat # "actif" THEN job
              ELSE IF job.reprises = 0 THEN [job EXCEPT !.etat = "differe", !.reprises = 1]
              ELSE [job EXCEPT !.etat = "fini"]
    /\ UNCHANGED <<ligne, reglages, appels, envois, manquee>>

-----------------------------------------------------------------------------
(* The rest of the application: supprimer() leaves the job; people leave   *)
(* the task and others take it.                                            *)
Supprimer ==
    /\ existe
    /\ existe' = FALSE /\ alerteA' = 0
    /\ UNCHANGED <<assigne, job, travail, requetes, compteurs, envois, croises, manquee>>

Reassigner ==
    /\ existe
    /\ assigne' = ~assigne
    /\ UNCHANGED <<existe, alerteA, job, travail, requetes, compteurs, envois, croises, manquee>>

Pas(r) == Charger(r) \/ Ecrire(r) \/ Retirer(r) \/ Ajouter(r)
Travailler == Prendre \/ LireTache \/ Notifier \/ Effacer

Next ==
    \/ \E r \in Requete, o \in {"regler", "annuler"}, p \in {"manager", "assigne"} : Appeler(r, o, p)
    \/ \E r \in Requete : Charger(r) \/ Ecrire(r) \/ Retirer(r) \/ Ajouter(r) \/ PanneRedis(r)
    \/ Prendre \/ LireTache \/ Notifier \/ Effacer \/ EchouerJob
    \/ Arret \/ Supprimer \/ Reassigner

(* Calls end, and the worker takes the jobs that are due.                  *)
Spec == Init /\ [][Next]_vars /\ WF_vars(Travailler) /\ \A r \in Requete : WF_vars(Pas(r))

-----------------------------------------------------------------------------
(* Properties *)

(* Types; a task that is gone has no alert; the worker has a job exactly   *)
(* when Redis holds one under way.                                         *)
TypeOK ==
    /\ existe \in BOOLEAN /\ assigne \in BOOLEAN /\ alerteA \in 0..reglages
    /\ job \in [etat : {"absent", "differe", "actif", "fini"}, pour : 0..reglages, reprises : {0, 1}]
    /\ travail.etape # "repos" <=> job.etat = "actif"
    /\ envois \in [Reglage -> Nat]
    /\ ~existe => alerteA = 0

(* An alert is notified once, however the calls and the worker overlap,    *)
(* except when the worker is stopped between the notification and the row. *)
UnSeulEnvoi == \A n \in Reglage : envois[n] <= 1 + incidents

(* As long as nothing overlapped or failed, and no alert came due on a     *)
(* task nobody had, the row announces an alert exactly when a job is       *)
(* waiting, and that job was delayed for it.                               *)
Calme == ~croises /\ incidents = 0 /\ ~manquee /\ existe /\ EnCours(requetes, travail) = 0
Accord ==
    Calme => /\ alerteA # 0 <=> job.etat = "differe"
             /\ alerteA # 0 => job.pour = alerteA

(* Under the same conditions every alert ends: sent, cancelled or gone     *)
(* with its task; a new one can always be made.                            *)
AlerteFinit == []<>(alerteA = 0 \/ croises \/ incidents > 0 \/ manquee)

================================================================================
