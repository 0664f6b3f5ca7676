------------------------------- MODULE Rapports -------------------------------
(***************************************************************************)
(* A written report (rapports.service) and the pages that edit it          *)
(* (reporting/[id]/page.tsx): a draft per page and requests, each a        *)
(* sequence of statements that interleave with the others', those of the   *)
(* same page included: only Save and Cancel wait, for a save.  The page    *)
(* loads the report again after most of what it does, and the answer       *)
(* replaces the draft.                                                     *)
(*                                                                         *)
(* A text is a number, fresh each time somebody types; a report has two    *)
(* parts, written by different statements: its head (name, content of a    *)
(* general report) and the days of a weekly one, of which one stands for   *)
(* the seven.  Images are files beside the text: only the reload after     *)
(* them is kept, nor is the page shown from the cache before it has loaded. *)
(***************************************************************************)
EXTENDS Naturals, Sequences, FiniteSets

CONSTANTS
    User,          \* members of the organisation
    Admins,        \* those with the role ADMIN
    Createur,      \* who creates the report
    Nul,
    Place,         \* bound: requests that may be in hand at a time
    MaxTextes,     \* bound: texts typed and changes of the people mentioned
    MaxDemandes,   \* bound: requests of the pages, loads aside
    MaxIncidents   \* bound: statements that fail, stops of the process

ASSUME RapportsAssumption ==
    /\ IsFiniteSet(Place)
    /\ Admins \subseteq User /\ Createur \in User /\ Nul \notin User
    /\ MaxTextes \in Nat /\ MaxDemandes \in Nat /\ MaxIncidents \in Nat

VARIABLES
    rapport,     \* the row, or Nul
    jours,       \* its RapportJour rows have been created
    ecrit,       \* the text of each part, in the database
    mentions,    \* RapportMention rows
    annonces,    \* MENTION_RAPPORT notifications, per user
    pages,       \* per user, the page of the report
    requetes,    \* the requests in hand
    textes,      \* texts and mentions changed so far (bound)
    demandes,    \* requests made so far (bound)
    incidents,   \* failures so far (bound)
    enCours,     \* save that last began to write, whose, and whether it met
                 \* another one or found no days (history)
    ajouts       \* mentions by somebody else added, per user (history)

base == <<rapport, jours, ecrit, mentions, annonces>>
histoire == <<enCours, ajouts>>
vars == <<base, pages, requetes, textes, demandes, incidents, histoire>>

Partie == {"entete", "jours"}
Texte == 0..MaxTextes
TypeRapport == {"GENERAL", "WEEKLY"}

Parties(type) == IF type = "WEEKLY" THEN Partie ELSE {"entete"}

Fermee == [vue |-> Nul, edite |-> FALSE,
           brouillon |-> [x \in Partie |-> 0], cites |-> {}]
Libre == [op |-> "aucune", par |-> Nul, attend |-> FALSE, reste |-> << >>,
          brouillon |-> Fermee.brouillon, cites |-> {}, dela |-> {}, nouveaux |-> {}]

Instruction == {"creer", "creerJours", "charger", "verifier", "ecrire", "ecrireJours",
                "lireMentions", "retirer", "ajouter", "annoncer", "relire", "basculer",
                "supprimer"}

AnnoncerAvant ==   \* mutant: told first
    <<"verifier", "ecrire", "ecrireJours", "lireMentions", "retirer", "annoncer", "ajouter",
      "relire", "charger">>
SansAttendre ==   \* mutant: the days not awaited
    <<"verifier", "ecrire", "lireMentions", "retirer", "ajouter", "annoncer", "relire",
      "charger", "ecrireJours">>
Enregistrement ==
    <<"verifier", "ecrire", "ecrireJours", "lireMentions", "retirer", "ajouter", "annoncer",
      "relire", "charger">>

Programme == [
    creerGENERAL |-> <<"creer">>,
    creerWEEKLY  |-> <<"creer", "creerJours">>,
    ouvrir       |-> <<"charger">>,
    enregistrer  |-> Enregistrement,
    joindre      |-> <<"verifier", "charger">>,
    archiver     |-> <<"verifier", "charger">>,
    visibilite   |-> <<"basculer", "charger">>,
    supprimer    |-> <<"verifier", "supprimer">>]

Operation == DOMAIN Programme
Executee == Operation \cup {"tardive"}

-----------------------------------------------------------------------------
Occupee(a) == requetes[a].op # "aucune"
Existe == rapport # Nul

(* A request of the page that is open: one asked for by a page that was     *)
(* left sets nothing any more.                                             *)
EnAttente(u, op) ==
    \E a \in Place : requetes[a].op = op /\ requetes[a].par = u /\ requetes[a].attend

(* assertAccess(): a private report is for Authorities alone. *)
Accede(u) == Existe /\ (rapport.prive => u \in Admins)
(* assertEditRights(). *)
Modifie(u) == u \in Admins \cup {Createur}

Init ==
    /\ rapport = Nul /\ jours = FALSE
    /\ ecrit = [x \in Partie |-> 0]
    /\ mentions = {} /\ annonces = [u \in User |-> 0]
    /\ pages = [u \in User |-> Fermee]
    /\ requetes = [a \in Place |-> Libre]
    /\ textes = 0 /\ demandes = 0 /\ incidents = 0
    /\ enCours = [envoi |-> ecrit, melee |-> FALSE, par |-> Nul]
    /\ ajouts = [u \in User |-> 0]

-----------------------------------------------------------------------------
(* The page. *)

(* The list of reports: one report is created here, of either type. *)
Nouveau(u) == demandes = 0 /\ u = Createur

(* Buttons: Edit, Save, Archive, Delete are for the creator and for        *)
(* Authorities, the padlock for Authorities, images for who is editing.    *)
(* Save waits for the save of this page (busy); the others for nothing.    *)
Offre(u, op) ==
    CASE op \in {"creerGENERAL", "creerWEEKLY"} -> Nouveau(u)
      [] op = "ouvrir" -> Existe /\ pages[u].vue = Nul /\ ~EnAttente(u, "ouvrir")
      [] op = "enregistrer" -> pages[u].edite /\ ~EnAttente(u, "enregistrer")
      [] op = "joindre" -> pages[u].edite
      [] op \in {"archiver", "supprimer"} -> pages[u].vue # Nul /\ Modifie(u)
      [] op = "visibilite" -> pages[u].vue # Nul /\ u \in Admins

Demander(u, a, op) ==
    /\ ~Occupee(a) /\ Offre(u, op)
    /\ op # "ouvrir" => demandes < MaxDemandes
    /\ demandes' = demandes + (IF op = "ouvrir" THEN 0 ELSE 1)
    /\ requetes' = [requetes EXCEPT ![a] =
           [Libre EXCEPT !.op = op, !.par = u, !.attend = TRUE, !.reste = Programme[op],
                         !.brouillon = pages[u].brouillon, !.cites = pages[u].cites]]
    /\ UNCHANGED <<base, pages, textes, incidents, histoire>>

Editer(u) ==
    /\ pages[u].vue # Nul /\ ~pages[u].edite /\ Modifie(u)
    /\ pages' = [pages EXCEPT ![u].edite = TRUE]
    /\ UNCHANGED <<base, requetes, textes, demandes, incidents, histoire>>

(* Typing does not wait for a request of the page. *)
Taper(u, x) ==
    /\ pages[u].edite /\ textes < MaxTextes /\ x \in Parties(pages[u].vue)
    /\ textes' = textes + 1
    /\ pages' = [pages EXCEPT ![u].brouillon[x] = textes']
    /\ UNCHANGED <<base, requetes, demandes, incidents, histoire>>

Citer(u, cites) ==
    /\ pages[u].edite /\ textes < MaxTextes /\ cites # pages[u].cites
    /\ textes' = textes + 1
    /\ pages' = [pages EXCEPT ![u].cites = cites]
    /\ UNCHANGED <<base, requetes, demandes, incidents, histoire>>

(* Cancel leaves the editor and loads. *)
Annuler(u, a) ==
    /\ pages[u].edite /\ ~Occupee(a) /\ ~EnAttente(u, "enregistrer")
    /\ pages' = [pages EXCEPT ![u].edite = FALSE]
    /\ requetes' = [requetes EXCEPT ![a] = [Libre EXCEPT !.op = "ouvrir", !.par = u,
                                              !.attend = TRUE, !.reste = <<"charger">>]]
    /\ UNCHANGED <<base, textes, demandes, incidents, histoire>>

(* Leaving the page loses the draft, and busy with it; its requests go on. *)
Quitter(u) ==
    /\ pages[u].vue # Nul
    /\ pages' = [pages EXCEPT ![u] = Fermee]
    /\ requetes' = [a \in Place |->
           [requetes[a] EXCEPT !.attend = @ /\ requetes[a].par # u]]
    /\ UNCHANGED <<base, textes, demandes, incidents, histoire>>

-----------------------------------------------------------------------------
(* The statements of a request. *)

Auteur(a) == requetes[a].par
Suivante(a, i) == Occupee(a) /\ Head(requetes[a].reste) = i
Passee(a) == IF Len(requetes[a].reste) = 1 THEN Libre
             ELSE [requetes[a] EXCEPT !.reste = Tail(@)]
Passer(a) == requetes' = [requetes EXCEPT ![a] = Passee(a)]
Page == <<pages, textes, demandes, incidents>>

Creer(a) ==
    /\ Suivante(a, "creer")
    /\ rapport' = [type |-> IF requetes[a].op = "creerWEEKLY" THEN "WEEKLY" ELSE "GENERAL",
                   prive |-> FALSE]
    /\ Passer(a)
    /\ UNCHANGED <<jours, ecrit, mentions, annonces, Page, histoire>>

CreerJours(a) ==
    /\ Suivante(a, "creerJours") /\ Existe
    /\ jours' = TRUE
    /\ Passer(a)
    /\ UNCHANGED <<rapport, ecrit, mentions, annonces, Page, histoire>>

Verifier(a) ==
    /\ Suivante(a, "verifier") /\ Accede(Auteur(a)) /\ Modifie(Auteur(a))
    /\ Passer(a)
    /\ UNCHANGED <<base, Page, histoire>>

EcritDesJours == {"ecrireJours", "lireMentions", "retirer", "ajouter", "annoncer", "relire"}
Ecrit(a) ==
    requetes[a].op \in {"enregistrer", "tardive"} /\ Head(requetes[a].reste) \in EcritDesJours

Ecrire(a) ==
    /\ Suivante(a, "ecrire") /\ Existe
    /\ ecrit' = [ecrit EXCEPT !["entete"] = requetes[a].brouillon["entete"]]
    /\ enCours' = [envoi |-> [x \in Partie |-> IF x \in Parties(rapport.type)
                                               THEN requetes[a].brouillon[x] ELSE 0],
                   melee |-> \E b \in Place : Ecrit(b), par |-> a]
    /\ Passer(a)
    /\ UNCHANGED <<rapport, jours, mentions, annonces, Page, ajouts>>

(* updateMany() of each day: nothing happens to rows that are not there. *)
LignesOubliees == {}   \* mutant: the days left out
LignesDesJours == IF jours /\ Existe THEN Parties(rapport.type) \ {"entete"} ELSE {}
SansJours == Existe /\ rapport.type = "WEEKLY" /\ ~jours
EcrireJours(a) ==
    /\ Suivante(a, "ecrireJours")
    /\ ecrit' = [x \in Partie |-> IF x \in LignesDesJours THEN requetes[a].brouillon[x] ELSE ecrit[x]]
    /\ enCours' = [enCours EXCEPT !.melee =
           @ \/ SansJours \/ \E b \in Place \ {a} : Ecrit(b)]
    /\ Passer(a)
    /\ UNCHANGED <<rapport, jours, mentions, annonces, Page, ajouts>>

(* syncMentions(): what is missing and what is too many, as read here. *)
Nouveaux(cites) == cites \ mentions
LireMentions(a) ==
    /\ Suivante(a, "lireMentions")
    /\ requetes' = [requetes EXCEPT ![a] =
           [Passee(a) EXCEPT !.nouveaux = Nouveaux(requetes[a].cites),
                             !.dela = mentions \ requetes[a].cites]]
    /\ UNCHANGED <<base, Page, histoire>>

Retirer(a) ==
    /\ Suivante(a, "retirer")
    /\ mentions' = mentions \ requetes[a].dela
    /\ Passer(a)
    /\ UNCHANGED <<rapport, jours, ecrit, annonces, Page, histoire>>

(* All but the one who mentions himself. *)
Prevenus(a) == requetes[a].nouveaux \ {Auteur(a)}

(* createMany(): all or nothing, the pair (report, user) is unique. *)
AjoutRefuse(a) == requetes[a].nouveaux \cap mentions # {} \/ ~Existe
Ajouter(a) ==
    /\ Suivante(a, "ajouter") /\ (requetes[a].nouveaux = {} \/ ~AjoutRefuse(a))
    /\ mentions' = mentions \cup requetes[a].nouveaux
    /\ ajouts' = [v \in User |-> ajouts[v] + (IF v \in Prevenus(a) THEN 1 ELSE 0)]
    /\ Passer(a)
    /\ UNCHANGED <<rapport, jours, ecrit, annonces, Page, enCours>>

(* The name of the report is read, and the new ones are told. *)
SansNom(a) == requetes[a].op = "enregistrer" /\ requetes[a].nouveaux # {} /\ ~Existe
Annoncer(a) ==
    /\ Suivante(a, "annoncer") /\ ~SansNom(a)
    /\ annonces' = [v \in User |-> annonces[v] + (IF v \in Prevenus(a) THEN 1 ELSE 0)]
    /\ Passer(a)
    /\ UNCHANGED <<rapport, jours, ecrit, mentions, Page, histoire>>

Relire(a) ==
    /\ Suivante(a, "relire") /\ Accede(Auteur(a))
    /\ Passer(a)
    /\ UNCHANGED <<base, Page, histoire>>

Basculer(a) ==
    /\ Suivante(a, "basculer") /\ Existe
    /\ \E prive \in BOOLEAN : rapport' = [rapport EXCEPT !.prive = prive]
    /\ Passer(a)
    /\ UNCHANGED <<jours, ecrit, mentions, annonces, Page, histoire>>

(* delete: days, images and mentions go with the report. *)
Supprimer(a) ==
    /\ Suivante(a, "supprimer") /\ Existe
    /\ rapport' = Nul /\ jours' = FALSE
    /\ ecrit' = [x \in Partie |-> 0] /\ mentions' = {}
    /\ Passer(a)
    /\ pages' = IF requetes[a].attend THEN [pages EXCEPT ![Auteur(a)] = Fermee] ELSE pages
    /\ UNCHANGED <<annonces, textes, demandes, incidents, histoire>>

(* load(): the answer replaces the draft, and a save then leaves the editor. *)
Charger(a) ==
    /\ Suivante(a, "charger") /\ Accede(Auteur(a))
    /\ pages' = IF requetes[a].attend
                THEN [pages EXCEPT ![Auteur(a)] =
                         [vue |-> rapport.type, edite |-> @.edite /\ requetes[a].op # "enregistrer",
                          brouillon |-> ecrit, cites |-> mentions]]
                ELSE pages
    /\ Passer(a)
    /\ UNCHANGED <<base, textes, demandes, incidents, histoire>>

-----------------------------------------------------------------------------
(* What makes a request end early: the report has gone or become private,  *)
(* a mention exists already, a statement fails.  The page says so and      *)
(* stays as it is.                                                         *)
Refusee(a) ==
    \/ Head(requetes[a].reste) \in {"verifier", "relire", "charger"} /\ ~Accede(Auteur(a))
    \/ Head(requetes[a].reste) \in {"creerJours", "ecrire", "basculer", "supprimer"} /\ ~Existe
    \/ Suivante(a, "ajouter") /\ requetes[a].nouveaux # {} /\ AjoutRefuse(a)
    \/ Suivante(a, "annoncer") /\ SansNom(a)

Refuser(a) ==
    /\ Occupee(a) /\ Refusee(a)
    /\ requetes' = [requetes EXCEPT ![a] = Libre]
    /\ UNCHANGED <<base, Page, histoire>>

(* Promise.all(): at the first statement that fails the page has its        *)
(* answer, and the others go on.  The failure may be of another day, or of *)
(* the notification of another person, than those that come late.          *)
Tardive(a, nouveaux) ==
    [requetes[a] EXCEPT !.op = "tardive", !.attend = FALSE,
                        !.reste = <<Head(@)>>, !.nouveaux = nouveaux]
Restant(a) ==
    IF requetes[a].op = "enregistrer" /\ Head(requetes[a].reste) \in {"ecrireJours", "annoncer"}
    THEN {Tardive(a, nouveaux) : nouveaux \in SUBSET requetes[a].nouveaux} ELSE {}

Echouer(a) ==
    /\ Occupee(a) /\ incidents < MaxIncidents
    /\ incidents' = incidents + 1
    /\ \E q \in Restant(a) \cup {Libre} : requetes' = [requetes EXCEPT ![a] = q]
    /\ UNCHANGED <<base, pages, textes, demandes, histoire>>

Arret ==
    /\ incidents < MaxIncidents /\ \E a \in Place : Occupee(a)
    /\ incidents' = incidents + 1
    /\ requetes' = [a \in Place |-> Libre]
    /\ UNCHANGED <<base, pages, textes, demandes, histoire>>

Statement(a) ==
    \/ Creer(a) \/ CreerJours(a) \/ Verifier(a) \/ Ecrire(a) \/ EcrireJours(a)
    \/ LireMentions(a) \/ Retirer(a) \/ Ajouter(a) \/ Annoncer(a) \/ Relire(a)
    \/ Basculer(a) \/ Supprimer(a) \/ Charger(a) \/ Refuser(a)

Edition(u) ==
    \/ \E a \in Place, op \in Operation : Demander(u, a, op)
    \/ \E a \in Place : Annuler(u, a)
    \/ Editer(u) \/ Quitter(u)
    \/ \E x \in Partie : Taper(u, x)
    \/ \E cites \in SUBSET User : Citer(u, cites)

Next ==
    \/ \E u \in User : Edition(u)
    \/ \E a \in Place : Statement(a) \/ Echouer(a)
    \/ Arret

Spec == Init /\ [][Next]_vars

-----------------------------------------------------------------------------
(* Properties. *)

Requete == [op : Executee \cup {"aucune"}, par : User \cup {Nul}, attend : BOOLEAN,
            reste : Seq(Instruction), brouillon : [Partie -> Texte], cites : SUBSET User,
            dela : SUBSET User, nouveaux : SUBSET User]

TypeRapports ==
    /\ rapport \in [type : TypeRapport, prive : BOOLEAN] \cup {Nul}
    /\ jours \in BOOLEAN /\ mentions \subseteq User
    /\ ecrit \in [Partie -> Texte]
    /\ pages \in [User -> [vue : TypeRapport \cup {Nul}, edite : BOOLEAN, brouillon : [Partie -> Texte],
                           cites : SUBSET User]]
    /\ requetes \in [Place -> Requete]

(* With no save under way the report is, part for part, what the last save *)
(* to begin sent, not a mixture of two people's texts: unless two saves    *)
(* overlapped, a statement failed or the days had not been created.        *)
UnSeulEnregistrement ==
    (Existe /\ incidents = 0 /\ ~enCours.melee /\ \A a \in Place : ~Ecrit(a))
        => ecrit = enCours.envoi

(* "Report saved" is only said of a text the API has written: at that      *)
(* moment the report is, part for part, what was sent, unless another save *)
(* has begun since, or met this one, or creation had not written the days. *)
ConfirmeEcrit ==
    \A a \in Place : (Suivante(a, "charger") /\ requetes[a].op = "enregistrer" /\ Existe) =>
        \A x \in Parties(rapport.type) :
            \/ ecrit[x] = requetes[a].brouillon[x]
            \/ enCours.melee \/ enCours.par # a

(* Whoever is newly mentioned by somebody else is told once, however many  *)
(* saves repeat the mention or add it at the same time.                    *)
MentionAnnoncee ==
    \A u \in User :
        /\ annonces[u] <= ajouts[u]
        /\ (incidents = 0 /\ Existe /\ \A a \in Place : ~Suivante(a, "annoncer"))
               => annonces[u] = ajouts[u]

(* "A private report cannot be found by who is not an Authority, no hint   *)
(* that it exists" (rapports.service.ts): refuted, a mention in it is      *)
(* announced with its name.                                                *)
PriveIntrouvable ==
    [][\A u \in User \ Admins : (Existe /\ rapport.prive) => annonces'[u] = annonces[u]]_vars

(* What somebody has typed stays in his draft until he saves or cancels:   *)
(* refuted, the reload after an image replaces the draft.                  *)
BrouillonGarde ==
    [][\A u \in User :
          (pages[u].edite /\ pages'[u].edite)
              => \A x \in Partie : pages'[u].brouillon[x] \in {pages[u].brouillon[x], textes'}]_vars

=============================================================================
