----------------------------- MODULE TacheRequetes -----------------------------
(***************************************************************************)
(* The requests of TacheCycle statement by statement.  A request reads the *)
(* row and checks (Charger), then awaits one database statement after the  *)
(* other, none of them in a transaction, so that the statements of two     *)
(* requests on the same task interleave: a double click, two tabs, an      *)
(* assignee and a manager.  The process may stop between two statements.   *)
(*                                                                         *)
(* TacheCycle is what the requests promise when they do not overlap:       *)
(* ImplementeLeCycle is the refinement, and isole says how far it reaches. *)
(*                                                                         *)
(* The checks that read other tables (membership, co-assignee, owner) are  *)
(* part of Charger.  A deleted task's uuid is never given again: a new row *)
(* appears only once the requests on the old one have ended.               *)
(***************************************************************************)
EXTENDS TacheCycle, Sequences, FiniteSets

CONSTANT Requete     \* requests that may be in hand at the same time

ASSUME RequeteAssumption == IsFiniteSet(Requete) /\ Requete # {}

VARIABLES
    requetes,    \* per request: what it does, for whom, what it read, what is left
    isole        \* no request has overlapped anything else so far (history)

varsRequetes == <<vars, requetes, isole>>

-----------------------------------------------------------------------------
(* The write statements of each handler, in the order they are awaited. *)
AvecChrono == <<"mettreAJour", "chercherSession", "creerSession">>
SansArret == <<"mettreAJour">>                                \* mutant: keeps counting
AvecArret == <<"mettreAJour", "fermerSiennes">>

Programme == [
    assigner           |-> <<"retirerCo", "mettreAJour">>,
    assignerCo         |-> <<"ajouterCo">>,
    retirerAssigne     |-> <<"retirerCo">>,
    accepter           |-> <<"mettreAJour">>,
    retourner          |-> <<"retirerCo", "fermerToutes", "mettreAJour">>,
    demarrer           |-> AvecChrono,
    pauser             |-> <<"fermerSiennes">>,
    reprendre          |-> <<"chercherSession", "creerSession">>,
    declarer           |-> AvecArret,
    annulerDeclaration |-> AvecChrono,
    validerOk          |-> <<"mettreAJour">>,
    validerLitige      |-> <<"mettreAJour">>,
    reouvrir           |-> <<"mettreAJour">>,
    supprimer          |-> <<"supprimer">>]

Operation == DOMAIN Programme
Instruction == {"mettreAJour", "chercherSession", "creerSession", "fermerSiennes",
                "fermerToutes", "retirerCo", "ajouterCo", "supprimer"}

(* What a handler still uses, at its update, of the row it has read. *)
Lecture == UserOuNul \cup DateOuNul
LectureDe(op, t) ==
    CASE op = "accepter" -> t.assigneA
      [] op = "retourner" -> t.assignePar
      [] op = "demarrer" -> t.dateDebut
      [] OTHER -> Nul

EnMain == [op : Operation, u : User, a : User, lu : Lecture, reste : Seq(Instruction)]

Libre == [op |-> "aucune", u |-> Nul, a |-> Nul, lu |-> Nul, reste |-> << >>]

Occupee(r) == requetes[r] # Libre
AucuneEnMain == \A r \in Requete : ~Occupee(r)

InitRequetes == Init /\ requetes = [r \in Requete |-> Libre] /\ isole = TRUE

-----------------------------------------------------------------------------
(* The checks, on the row just read. *)
Permise(op, u, a, replace) ==
    \/ op = "assigner" /\ AssignationPermise(u, a) /\ (replace \/ tache.assigneA \in {Nul, a})
    \/ op = "assignerCo" /\ AssignationPermise(u, a) /\ ~replace /\ tache.assigneA \notin {Nul, a}
    \/ op = "retirerAssigne" /\ PeutRetirer(u, a)
    \/ op = "accepter" /\ PeutAccepter(u)
    \/ op = "retourner" /\ PeutRetourner(u)
    \/ op = "demarrer" /\ PeutDemarrer(u)
    \/ op \in {"pauser", "reprendre"} /\ PeutChronometrer(u)
    \/ op = "declarer" /\ PeutDeclarer(u)
    \/ op = "annulerDeclaration" /\ PeutAnnulerDeclaration(u)
    \/ op \in {"validerOk", "validerLitige"} /\ PeutValider(u)
    \/ op = "reouvrir" /\ PeutReouvrir(u)
    \/ op = "supprimer" /\ PeutSupprimer(u)

(* A target other than the caller exists only where the route names one. *)
AvecCible == {"assigner", "assignerCo", "retirerAssigne"}

Charger(r, op, u, a, replace) ==
    /\ ~Occupee(r)
    /\ op \notin AvecCible => a = u /\ ~replace
    /\ Permise(op, u, a, replace)
    /\ requetes' = [requetes EXCEPT ![r] =
                      [op |-> op, u |-> u, a |-> a, lu |-> LectureDe(op, tache),
                       reste |-> Programme[op]]]
    /\ isole' = (isole /\ AucuneEnMain)
    /\ UNCHANGED vars

-----------------------------------------------------------------------------
(* The statements. *)

(* tache.update(): the columns the handler names, with values it computed  *)
(* from what it had read; the others keep what other requests wrote.       *)
DebutLu(s) == IF s.lu = Nul THEN horloge ELSE s.lu

LigneMiseAJour(s) ==
    CASE s.op = "assigner" ->
           [tache EXCEPT !.assigneA = s.a, !.assignePar = s.u]
      [] s.op = "accepter" /\ s.lu # Nul ->
           [tache EXCEPT !.statut = "ACCEPTEE"]
      [] s.op = "accepter" /\ s.lu = Nul ->
           [tache EXCEPT !.statut = "ACCEPTEE", !.assigneA = s.u, !.assignePar = s.u]
      [] s.op = "retourner" ->
           [tache EXCEPT !.statut = "A_FAIRE", !.assigneA = s.lu,
                         !.dateDebut = Nul, !.dateDeclaration = Nul]
      [] s.op = "demarrer" ->
           [tache EXCEPT !.statut = "EN_COURS", !.dateDebut = DebutLu(s)]
      [] s.op = "declarer" ->
           [tache EXCEPT !.statut = "DECLARE", !.dateDeclaration = horloge]
      [] s.op = "annulerDeclaration" ->
           [tache EXCEPT !.statut = "EN_COURS", !.dateDeclaration = Nul]
      [] s.op = "validerOk" ->
           [tache EXCEPT !.statut = "VALIDE", !.dateValidation = horloge, !.validePar = s.u]
      [] s.op = "validerLitige" ->
           [tache EXCEPT !.statut = "A_REVOIR", !.dateRenvoiRework = horloge]
      [] s.op = "reouvrir" ->
           [tache EXCEPT !.statut = "A_FAIRE", !.dateDebut = Nul, !.dateDeclaration = Nul,
                         !.dateValidation = Nul, !.validePar = Nul]

Terminer(r) == requetes' = [requetes EXCEPT ![r] = Libre]
Poursuivre(r) ==
    IF Len(requetes[r].reste) = 1 THEN Terminer(r)
    ELSE requetes' = [requetes EXCEPT ![r].reste = Tail(@)]

Attend(r, i) == Occupee(r) /\ Head(requetes[r].reste) = i

(* The accounts whose keys the statement at hand writes.                   *)
Nommes(s) ==
    CASE Head(s.reste) = "creerSession" -> {s.u}
      [] Head(s.reste) = "ajouterCo" -> {s.a}
      [] Head(s.reste) = "mettreAJour" /\ s.op = "assigner" -> {s.u, s.a}
      [] Head(s.reste) = "mettreAJour" /\ s.op = "accepter" /\ s.lu = Nul -> {s.u}
      [] Head(s.reste) = "mettreAJour" /\ s.op = "retourner" -> {s.lu} \ {Nul}
      [] Head(s.reste) = "mettreAJour" /\ s.op = "validerOk" -> {s.u}
      [] OTHER -> {}

(* The row is gone, or a foreign key names an account that is. *)
Refusee(s) == ~existe \/ ~(Nommes(s) \subseteq comptes)

MettreAJour(r) ==
    /\ Attend(r, "mettreAJour")
    /\ ~Refusee(requetes[r])
    /\ tache' = LigneMiseAJour(requetes[r])
    /\ Poursuivre(r)
    /\ UNCHANGED <<equipe, existe, coAssignes, ouvertes, horloge, isole>>

(* findFirst: an open session of one's own ends the request, with an error *)
(* for reprendre().                                                        *)
SessionPresente(u) == ouvertes[u] > 1          \* mutant: off by one
SessionTrouvee(u) == ouvertes[u] # 0

ChercherSession(r) ==
    /\ Attend(r, "chercherSession")
    /\ IF SessionTrouvee(requetes[r].u) THEN Terminer(r) ELSE Poursuivre(r)
    /\ UNCHANGED <<vars, isole>>

CreerSession(r) ==
    /\ Attend(r, "creerSession")
    /\ ~Refusee(requetes[r])
    /\ ouvertes' = [ouvertes EXCEPT ![requetes[r].u] = @ + 1]
    /\ Poursuivre(r)
    /\ UNCHANGED <<equipe, existe, tache, coAssignes, horloge, isole>>

FermerSiennes(r) ==
    /\ Attend(r, "fermerSiennes")
    /\ ouvertes' = SessionsSiennesFermees(requetes[r].u)
    /\ Poursuivre(r)
    /\ UNCHANGED <<equipe, existe, tache, coAssignes, horloge, isole>>

FermerToutes(r) ==
    /\ Attend(r, "fermerToutes")
    /\ ouvertes' = ToutesSessionsFermees
    /\ Poursuivre(r)
    /\ UNCHANGED <<equipe, existe, tache, coAssignes, horloge, isole>>

RetirerCo(r) ==
    /\ Attend(r, "retirerCo")
    /\ coAssignes' = coAssignes \ {requetes[r].a}
    /\ Poursuivre(r)
    /\ UNCHANGED <<equipe, existe, tache, ouvertes, horloge, isole>>

AjouterCo(r) ==
    /\ Attend(r, "ajouterCo")
    /\ ~Refusee(requetes[r])
    /\ coAssignes' = coAssignes \cup {requetes[r].a}
    /\ Poursuivre(r)
    /\ UNCHANGED <<equipe, existe, tache, ouvertes, horloge, isole>>

SupprimerLigne(r) ==
    /\ Attend(r, "supprimer")
    /\ existe
    /\ LigneSupprimee
    /\ Poursuivre(r)
    /\ UNCHANGED <<equipe, horloge, isole>>

Echouer(r) ==
    /\ Attend(r, "mettreAJour") \/ Attend(r, "creerSession") \/ Attend(r, "ajouterCo")
       \/ Attend(r, "supprimer")
    /\ Refusee(requetes[r])
    /\ Terminer(r)
    /\ UNCHANGED <<vars, isole>>

-----------------------------------------------------------------------------
(* Everything around the requests. *)

Ailleurs ==
    /\ Creation /\ AucuneEnMain
    /\ UNCHANGED <<requetes, isole>>

(* Staff changes and cascades fall between two statements as well. *)
Autour ==
    /\ Equipe \/ SupprimerParCascade
    /\ isole' = (isole /\ AucuneEnMain)
    /\ UNCHANGED requetes

Temps == PasserLeTemps /\ UNCHANGED <<requetes, isole>>

(* The process stops: what a request had still to do is never done. *)
Arret ==
    /\ ~AucuneEnMain
    /\ requetes' = [r \in Requete |-> Libre]
    /\ isole' = FALSE
    /\ UNCHANGED vars

Recevoir(r) ==
    \E op \in Operation, u, a \in User, replace \in BOOLEAN : Charger(r, op, u, a, replace)

Statement(r) ==
    \/ MettreAJour(r)
    \/ ChercherSession(r)
    \/ CreerSession(r)
    \/ FermerSiennes(r)
    \/ FermerToutes(r)
    \/ RetirerCo(r)
    \/ AjouterCo(r)
    \/ SupprimerLigne(r)
    \/ Echouer(r)

NextRequetes ==
    \/ \E r \in Requete : Recevoir(r)
    \/ \E r \in Requete : Statement(r)
    \/ Ailleurs
    \/ Autour
    \/ Temps
    \/ Arret

SpecRequetes == InitRequetes /\ [][NextRequetes]_varsRequetes

-----------------------------------------------------------------------------
(* The refinement: a request happens at its first write; what it has still *)
(* to write after that counts as done.                                     *)

Entamee(r) ==
    /\ Occupee(r)
    /\ Len(requetes[r].reste) < Len(Programme[requetes[r].op])
    /\ requetes[r].op # "reprendre"

EnCours == CHOOSE r \in Requete : Entamee(r)
UneEntamee == \E r \in Requete : Entamee(r)
Reste(i) == UneEntamee /\ \E k \in 1..Len(requetes[EnCours].reste) : requetes[EnCours].reste[k] = i

TacheAchevee == IF Reste("mettreAJour") THEN LigneMiseAJour(requetes[EnCours]) ELSE tache

OuvertesAchevees ==
    LET u == requetes[EnCours].u
    IN  IF Reste("fermerToutes") THEN ToutesSessionsFermees
        ELSE IF Reste("fermerSiennes") THEN SessionsSiennesFermees(u)
        ELSE IF Reste("chercherSession") THEN SessionAssuree(u)
        ELSE IF Reste("creerSession") THEN [ouvertes EXCEPT ![u] = @ + 1]
        ELSE ouvertes

Cycle == INSTANCE TacheCycle WITH tache <- TacheAchevee, ouvertes <- OuvertesAchevees

-----------------------------------------------------------------------------
(* Properties. *)

TypeRequetes ==
    /\ TypeOK
    /\ requetes \in [Requete -> EnMain \cup {Libre}]
    /\ isole \in BOOLEAN

(* As long as requests on the task have not overlapped one another, a      *)
(* staff change or a stop of the process, the statements of each handler   *)
(* add up to the single step TacheCycle describes.                         *)
ImplementeLeCycle ==
    Cycle!Init /\ [][isole' => (Cycle!Next \/ UNCHANGED Cycle!vars)]_varsRequetes

(* Overlapping starts, resumptions and cancelled declarations each find no *)
(* open session and each create one; but the sessions one person gets that *)
(* way never exceed the requests in hand at a time, however long it goes   *)
(* on: an excess is not built up further.                                  *)
SessionsBornees ==
    \A u \in User :
        ouvertes[u] + Cardinality({r \in Requete : Attend(r, "creerSession") /\ requetes[r].u = u})
            <= Cardinality(Requete)

(* A personal task stays with its owner through every interleaving too:    *)
(* no stale update writes somebody else into it.                           *)
PersonnelleProtegee == PersonnelleResteAuProprietaire

=============================================================================
