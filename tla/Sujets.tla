-------------------------------- MODULE Sujets --------------------------------
(***************************************************************************)
(* The Subjects of one office's Organizer and the tasks filed under them:  *)
(* organizer.service and chat.service on the server, the chat's list of    *)
(* Subjects (subjects-chat.tsx) of one manager, and the Tasks tab          *)
(* (tasks/page.tsx) of the others.                                         *)
(*                                                                         *)
(* A request that reads and then writes has one step for each, so that     *)
(* others come in between; where the database refuses what the check before*)
(* would have refused too, check and write are one step.  Names, messages  *)
(* and what AI does with them (see OrganizerJobs) are left out.            *)
(***************************************************************************)
EXTENDS Naturals, Sequences, FiniteSets

CONSTANTS
    Requete,       \* requests that may be in hand at the same time
    Depart,        \* bounds of a scene: Subjects and tasks created, requests
                   \* in hand, operations used, and whether the chat is open
    MaxSujets,     \* bound: Subjects ever created, the first one included
    MaxTaches      \* bound: tasks ever created

Sujet == 1..MaxSujets
AucunSujet == 0    \* the group "No subject"
Tache == 1..MaxTaches

(* The statements of a request after its first check.                      *)
Programme == [
    supprimer |-> <<"confirmer", "lister", "supprimer">>,
    archiver  |-> <<"confirmer", "lister", "archiver">>,
    dupliquer |-> <<"lireTaches", "copier">>,
    regrouper |-> <<"nommer", "deplacerTous">>]

Operation == DOMAIN Programme
Immediate == {"creer", "desarchiver", "ajouter", "deplacer", "terminer", "convertir"}

ASSUME SujetsAssumption ==
    /\ MaxSujets \in Nat \ {0} /\ MaxTaches \in Nat
    /\ \A d \in Depart : /\ d.sujets \in Sujet /\ d.taches \in 0..MaxTaches
                         /\ d.chat \in BOOLEAN /\ d.mains \in Nat
                         /\ d.operations \subseteq Operation \cup Immediate

VARIABLES
    etat,        \* per Subject: its Conversation row, and est_archive
    taches,      \* per task: its row
    requetes,    \* requests in hand
    affiches,    \* the chat: Subjects it lists,
    actif,       \* the one whose messages it shows,
    demandes,    \* loads asked for and not read,
    reponses,    \* answers read and not arrived
    bornes,      \* the scene
    chevauche,   \* a Subject counted on has been about to go (history)
    actifOte     \* the last active Subject was deleted (history)

lignes == <<etat, taches>>
chat == <<affiches, actif, demandes, reponses>>
histoire == <<chevauche, actifOte>>
vars == <<lignes, requetes, chat, bornes, histoire>>

EtatSujet == {"jamais", "actif", "archive", "supprime"}
Absente == [sujet |-> AucunSujet, faite |-> FALSE, plan |-> FALSE, la |-> FALSE]

Existants == {s \in Sujet : etat[s] \in {"actif", "archive"}}
Actifs == {s \in Sujet : etat[s] = "actif"}
Presentes == {t \in Tache : taches[t].la}
Contenu(s) == {t \in Presentes : taches[t].sujet = s}

Libre == [op |-> "aucune", s |-> AucunSujet, de |-> "taches", lu |-> {},
          annonce |-> {}, reste |-> << >>]
Occupee(x) == requetes[x] # Libre
Attend(x, i) == Occupee(x) /\ Head(requetes[x].reste) = i
Terminer(x) == requetes' = [requetes EXCEPT ![x] = Libre]
Avancer(x) == requetes' = [requetes EXCEPT ![x].reste = Tail(@)]
Lire(x, lu) == requetes' = [requetes EXCEPT ![x].reste = Tail(@), ![x].lu = lu]

(* createDefaultForBureau(): an Organizer starts with one Subject. *)
Init ==
    /\ bornes \in Depart
    /\ etat = [s \in Sujet |-> IF s = 1 THEN "actif" ELSE "jamais"]
    /\ taches = [t \in Tache |-> Absente]
    /\ requetes = [x \in Requete |-> Libre]
    /\ affiches = {} /\ actif = AucunSujet
    /\ demandes = {} /\ reponses = {}
    /\ chevauche = FALSE /\ actifOte = FALSE

Permise(op) == op \in bornes.operations
Recue(x) == ~Occupee(x) /\ Cardinality({y \in Requete : Occupee(y)}) < bornes.mains

SujetNeuf(s) == s \in 1..bornes.sujets /\ etat[s] = "jamais" /\ \A r \in 1..(s - 1) : etat[r] # "jamais"
TachesNeuves(n) ==
    {T \in SUBSET {t \in 1..bornes.taches : ~taches[t].la} :
        Cardinality(T) = n /\ \A t \in T : \A r \in 1..(t - 1) : taches[r].la \/ r \in T}

-----------------------------------------------------------------------------
(* The Tasks tab.  It groups what it shows by Subject; a filter hides tasks*)
(* and, with the last of its tasks, a whole group; an archived Subject     *)
(* comes without its tasks.                                                *)

AfficherTous(s) == Contenu(s)
Filtrer(s) == {t \in Contenu(s) : ~taches[t].faite}
Visible(s) == s = AucunSujet \/ etat[s] = "actif"
Groupe(s, filtre) ==
    IF ~Visible(s) THEN {} ELSE IF filtre THEN Filtrer(s) ELSE AfficherTous(s)

(* The buttons of a group open a dialog that says how many tasks it shows. *)
DepuisOnglet(x, op, s, filtre) ==
    /\ Recue(x) /\ Permise(op)
    /\ Groupe(s, filtre) # {}
    /\ (op = "regrouper") = (s = AucunSujet)
    /\ requetes' = [requetes EXCEPT ![x] =
           [Libre EXCEPT !.op = op, !.s = s, !.reste = Programme[op],
                         !.annonce = Groupe(s, filtre)]]
    /\ UNCHANGED <<lignes, chat, bornes, histoire>>

(* The cross beside a Subject of the chat, not on the last one listed.     *)
DepuisChat(x, s) ==
    /\ Recue(x) /\ Permise("supprimer")
    /\ s \in affiches /\ Cardinality(affiches) > 1
    /\ requetes' = [requetes EXCEPT ![x] =
           [Libre EXCEPT !.op = "supprimer", !.s = s, !.de = "chat",
                         !.reste = Programme["supprimer"]]]
    /\ UNCHANGED <<lignes, chat, bornes, histoire>>

(* The dialog is confirmed; assertSubjectBelongsToProjet().  The tab asks  *)
(* again, whatever the dialog waited for.                                  *)
Confirmer(x) ==
    /\ Attend(x, "confirmer")
    /\ IF requetes[x].s \in Existants THEN Avancer(x) ELSE Terminer(x)
    /\ UNCHANGED <<lignes, chat, bornes, histoire>>

Renoncer(x) ==
    /\ Attend(x, "confirmer")
    /\ Terminer(x)
    /\ UNCHANGED <<lignes, chat, bornes, histoire>>

-----------------------------------------------------------------------------
(* deleteSubject(), setSubjectArchived(true): the Subjects are listed, then*)
(* one of them goes, without a transaction around both.                    *)

ResteUnDeMoins(s) == Existants # {}                  \* mutant: off by one
ResteUn(s) == Cardinality(Existants) > 1
ResteActif(s) == Actifs \ {s} # {}

AuPoint(x) == Attend(x, "supprimer") \/ Attend(x, "archiver")

Lister(x) ==
    LET q == requetes[x]
        passe == IF q.op = "supprimer" THEN ResteUn(q.s) ELSE ResteActif(q.s)
    IN  /\ Attend(x, "lister")
        /\ IF passe THEN Avancer(x) ELSE Terminer(x)
        /\ chevauche' = (chevauche \/ \E y \in Requete : AuPoint(y))
        /\ UNCHANGED <<lignes, chat, bornes, actifOte>>

(* load(false) after a deletion of the chat: its first Subject is shown.   *)
Recharge(q) == IF q.de = "chat" THEN demandes \cup {[garde |-> FALSE, puis |-> AucunSujet]}
               ELSE demandes

(* The row goes with its messages and its tasks.  It fails if it is gone.  *)
Supprimer(x) ==
    LET q == requetes[x]
        la == q.s \in Existants
    IN  /\ Attend(x, "supprimer")
        /\ etat' = IF la THEN [etat EXCEPT ![q.s] = "supprime"] ELSE etat
        /\ taches' = [t \in Tache |-> IF la /\ t \in Contenu(q.s) THEN Absente ELSE taches[t]]
        /\ demandes' = IF la THEN Recharge(q) ELSE demandes
        /\ actifOte' = (actifOte \/ Actifs = {q.s})
        /\ Terminer(x)
        /\ UNCHANGED <<affiches, actif, reponses, bornes, chevauche>>

Archiver(x) ==
    LET s == requetes[x].s
    IN  /\ Attend(x, "archiver")
        /\ etat' = IF s \in Existants THEN [etat EXCEPT ![s] = "archive"] ELSE etat
        /\ Terminer(x)
        /\ UNCHANGED <<taches, chat, bornes, histoire>>

Desarchiver(s) ==
    /\ Permise("desarchiver") /\ s \in Existants
    /\ etat' = [etat EXCEPT ![s] = "actif"]
    /\ UNCHANGED <<taches, requetes, chat, bornes, histoire>>

-----------------------------------------------------------------------------
(* dupliquerSubject(): the tasks are read, whatever their status; the new  *)
(* Subject and the copies, all to do, are written in one transaction.      *)

LireTaches(x) ==
    LET s == requetes[x].s
    IN  /\ Attend(x, "lireTaches")
        /\ IF s \in Existants THEN Lire(x, {<<t, taches[t]>> : t \in Contenu(s)}) ELSE Terminer(x)
        /\ UNCHANGED <<lignes, chat, bornes, histoire>>

Copier(x) ==
    LET lu == requetes[x].lu
    IN  /\ Attend(x, "copier")
        /\ \E s \in Sujet, T \in TachesNeuves(Cardinality(lu)) :
              /\ SujetNeuf(s)
              /\ etat' = [etat EXCEPT ![s] = "actif"]
              /\ taches' = [t \in Tache |->
                    IF t \in T THEN [Absente EXCEPT !.sujet = s, !.la = TRUE,
                                          !.plan = \E c \in lu : c[2].plan]
                    ELSE taches[t]]
        /\ Terminer(x)
        /\ UNCHANGED <<chat, bornes, histoire>>

(* handleRenameNoSubject(): a new Subject, then one update for each task   *)
(* of the group, all sent at once.  A task of a converted plan is refused  *)
(* (another project), and one that is gone.                                *)
Nommer(x) ==
    /\ Attend(x, "nommer")
    /\ \E s \in Sujet :
          /\ SujetNeuf(s)
          /\ etat' = [etat EXCEPT ![s] = "actif"]
          /\ requetes' = [requetes EXCEPT ![x].s = s, ![x].lu = requetes[x].annonce,
                                          ![x].reste = Tail(@)]
    /\ UNCHANGED <<taches, chat, bornes, histoire>>

Deplacable(t, s) ==
    /\ taches[t].la
    /\ s # AucunSujet => s \in Existants /\ ~taches[t].plan

DeplacerUne(x, t) ==
    LET q == requetes[x]
    IN  /\ Attend(x, "deplacerTous") /\ t \in q.lu
        /\ taches' = IF Deplacable(t, q.s) THEN [taches EXCEPT ![t].sujet = q.s] ELSE taches
        /\ IF q.lu = {t} THEN Terminer(x)
           ELSE requetes' = [requetes EXCEPT ![x].lu = @ \ {t}]
        /\ UNCHANGED <<etat, chat, bornes, histoire>>

-----------------------------------------------------------------------------
(* Requests of one statement. *)

(* createSubject() from elsewhere than the chat. *)
Creer(s) ==
    /\ Permise("creer") /\ SujetNeuf(s)
    /\ etat' = [etat EXCEPT ![s] = "actif"]
    /\ UNCHANGED <<taches, requetes, chat, bornes, histoire>>

(* createTache(), the processor: under a Subject, an archived one too.     *)
Ajouter(t, s) ==
    /\ Permise("ajouter") /\ s \in Existants \cup {AucunSujet}
    /\ {t} \in TachesNeuves(1)
    /\ taches' = [taches EXCEPT ![t] = [Absente EXCEPT !.la = TRUE, !.sujet = s]]
    /\ UNCHANGED <<etat, requetes, chat, bornes, histoire>>

(* convertPlan(): a task of the plan belongs to the project it makes.      *)
Convertir(t) ==
    /\ Permise("convertir") /\ {t} \in TachesNeuves(1)
    /\ taches' = [taches EXCEPT ![t] = [Absente EXCEPT !.la = TRUE, !.plan = TRUE]]
    /\ UNCHANGED <<etat, requetes, chat, bornes, histoire>>

(* update() with another conversationId. *)
Deplacer(t, s) ==
    /\ Permise("deplacer") /\ Deplacable(t, s) /\ taches[t].sujet # s
    /\ taches' = [taches EXCEPT ![t].sujet = s]
    /\ UNCHANGED <<etat, requetes, chat, bornes, histoire>>

Achever(t) ==
    /\ Permise("terminer") /\ taches[t].la /\ ~taches[t].faite
    /\ taches' = [taches EXCEPT ![t].faite = TRUE]
    /\ UNCHANGED <<etat, requetes, chat, bornes, histoire>>

-----------------------------------------------------------------------------
(* The chat: SubjectsChat. *)

Premier(liste) == IF liste = {} THEN AucunSujet ELSE CHOOSE s \in liste : \A r \in liste : r <= s

(* The first load, and every 20 seconds. *)
Periodique == [garde |-> affiches # {}, puis |-> AucunSujet]

Sonder ==
    /\ bornes.chat /\ Periodique \notin demandes
    /\ demandes' = demandes \cup {Periodique}
    /\ UNCHANGED <<lignes, requetes, affiches, actif, reponses, bornes, histoire>>

(* handleCreate(): one at a time; the new Subject is shown after the load. *)
CreerAuChat(s) ==
    /\ bornes.chat /\ Permise("creer") /\ affiches # {} /\ SujetNeuf(s)
    /\ \A d \in demandes \cup reponses : d.puis = AucunSujet
    /\ etat' = [etat EXCEPT ![s] = "actif"]
    /\ demandes' = demandes \cup {[garde |-> TRUE, puis |-> s]}
    /\ UNCHANGED <<taches, requetes, affiches, actif, reponses, bornes, histoire>>

(* listSubjects(): archived ones too, the newest first. *)
LireListe(d) ==
    /\ d \in demandes /\ Cardinality(reponses) < 2
    /\ demandes' = demandes \ {d}
    /\ reponses' = reponses \cup {[liste |-> Existants, garde |-> d.garde, puis |-> d.puis]}
    /\ UNCHANGED <<lignes, requetes, affiches, actif, bornes, histoire>>

GarderToujours(r) == r.garde /\ actif # AucunSujet    \* mutant: even if it is gone
Garder(r) == r.garde /\ actif \in r.liste

(* Answers arrive in any order. *)
Recevoir(r) ==
    /\ r \in reponses
    /\ reponses' = reponses \ {r}
    /\ affiches' = r.liste
    /\ actif' = IF r.puis # AucunSujet THEN r.puis
                ELSE IF Garder(r) THEN actif ELSE Premier(r.liste)
    /\ UNCHANGED <<lignes, requetes, demandes, bornes, histoire>>

Choisir(s) ==
    /\ s \in affiches /\ s # actif
    /\ actif' = s
    /\ UNCHANGED <<lignes, requetes, affiches, demandes, reponses, bornes, histoire>>

-----------------------------------------------------------------------------
Traiter(x) ==
    \/ \E op \in Operation, s \in Sujet \cup {AucunSujet}, f \in BOOLEAN : DepuisOnglet(x, op, s, f)
    \/ \E s \in Sujet : DepuisChat(x, s)
    \/ Confirmer(x)
    \/ Renoncer(x)
    \/ Lister(x)
    \/ Supprimer(x)
    \/ Archiver(x)
    \/ LireTaches(x)
    \/ Copier(x)
    \/ Nommer(x)
    \/ \E t \in Tache : DeplacerUne(x, t)

LireUneListe == \E d \in demandes : LireListe(d)
RecevoirUne == \E r \in reponses : Recevoir(r)

Next ==
    \/ \E x \in Requete : Traiter(x)
    \/ \E s \in Sujet : Creer(s)
    \/ \E s \in Sujet : CreerAuChat(s)
    \/ \E s \in Sujet : Desarchiver(s)
    \/ \E t \in Tache, s \in Sujet \cup {AucunSujet} : Ajouter(t, s)
    \/ \E t \in Tache : Convertir(t)
    \/ \E t \in Tache, s \in Sujet \cup {AucunSujet} : Deplacer(t, s)
    \/ \E t \in Tache : Achever(t)
    \/ Sonder
    \/ LireUneListe
    \/ RecevoirUne
    \/ \E s \in Sujet : Choisir(s)

(* The timer of the chat goes on, and calls are answered. *)
Spec ==
    Init /\ [][Next]_vars /\ WF_vars(Sonder) /\ WF_vars(LireUneListe) /\ WF_vars(RecevoirUne)

-----------------------------------------------------------------------------
(* Properties. *)

TypeSujets ==
    /\ etat \in [Sujet -> EtatSujet]
    /\ \A t \in Presentes : taches[t].sujet \in Existants \cup {AucunSujet}
    /\ \A x \in Requete : Occupee(x) => requetes[x].op \in Operation /\ requetes[x].reste # << >>
    /\ affiches \subseteq Sujet /\ actif \in Sujet \cup {AucunSujet}
    /\ chevauche \in BOOLEAN /\ actifOte \in BOOLEAN

(* "Un organizer doit garder au moins un Subject": whatever the order of   *)
(* deletions, archivals and duplications, the last one goes only when a    *)
(* request listed the Subjects while another was about to take one away.   *)
(* The same of the last active one, which a deletion may take besides: it  *)
(* counts the archived ones.                                               *)
DernierSujet ==
    /\ Existants # {} \/ chevauche
    /\ Actifs # {} \/ chevauche \/ actifOte

(* The chat does not stay on a Subject that is gone, whoever deleted it and*)
(* in whatever order the answers arrive.                                   *)
ChatSuit == \A s \in Sujet : (actif = s /\ etat[s] = "supprime") ~> (actif # s)

(* Stated by the source and refuted. *)

(* "Un organizer doit garder au moins un Subject actif", without any       *)
(* requests that overlap.                                                  *)
UnSujetActif == Actifs # {} \/ chevauche

(* "Duplique un Subject et ses taches actives": validated ones are copied. *)
CopieDesActives ==
    \A x \in Requete : Attend(x, "copier") => \A c \in requetes[x].lu : ~c[2].faite

(* "This deletes the subject and its N tasks": what the dialog counts when *)
(* it opens is all that the Subject has.                                   *)
AnnonceComplete ==
    [][\A x \in Requete :
          ~Occupee(x) /\ requetes'[x].op = "supprimer" /\ requetes'[x].de = "taches"
              => requetes'[x].annonce = Contenu(requetes'[x].s)]_vars

(* "Archiver masque le Subject": the chat is not given archived ones.      *)
ArchiveMasque ==
    [][\A r \in reponses' \ reponses : \A s \in r.liste : etat[s] # "archive"]_vars

================================================================================
