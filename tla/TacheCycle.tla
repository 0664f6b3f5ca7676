------------------------------ MODULE TacheCycle ------------------------------
(***************************************************************************)
(* The life cycle of one task (taches.service.ts): who it is assigned to,  *)
(* its status, the dates of its row and the stopwatch sessions of the      *)
(* people who work on it.  One action is one request, with every database  *)
(* statement it makes: what a request promises when its statements are not *)
(* interleaved with those of another request on the same task.             *)
(*                                                                         *)
(* Left out because nothing here reads them back: title, description,      *)
(* priority, due date, comments, dateAssignation (modifier() therefore     *)
(* changes nothing modelled here), and the notifications sent.  Health and *)
(* blockers are the subject of Blocages.tla.                               *)
(***************************************************************************)
EXTENDS Naturals

CONSTANTS
    User,              \* members of the organisation
    Proprietaire,      \* organisation.proprietaireId
    Nul,               \* SQL NULL
    RoleInitial,       \* role in each user's token at the start
    MembresInitiaux,   \* users with a UserBureau row for the office at the start
    MaxHorloge,        \* bound: instants that dates tell apart
    MaxMouvements      \* bound: changes of role, membership and staff

RoleGlobal == {"ADMIN", "MANAGER", "MEMBRE"}
StatutTache == {"A_FAIRE", "ACCEPTEE", "EN_COURS", "DECLARE", "VALIDE", "A_REVOIR"}

ASSUME ProprietaireAssumption == Proprietaire \in User
ASSUME NulAssumption == Nul \notin User /\ Nul \notin Nat
ASSUME DepartAssumption == /\ RoleInitial \in [User -> RoleGlobal]
                           /\ MembresInitiaux \subseteq User
ASSUME BorneAssumption == MaxHorloge \in Nat /\ MaxMouvements \in Nat

VARIABLES
    comptes,      \* users not removed from the organisation
    role,         \* roleGlobal carried by each user's access token
    membres,      \* users with a UserBureau row for the task's office
    existe,       \* the task has a row
    tache,        \* that row
    coAssignes,   \* its TacheAssignee rows
    ouvertes,     \* per user, how many TacheSession rows have fin = null
    horloge,      \* new Date()
    mouvements    \* changes of staff so far (bounded by MaxMouvements)

equipe == <<comptes, role, membres, mouvements>>
vars == <<equipe, existe, tache, coAssignes, ouvertes, horloge>>

Instant == 0..MaxHorloge
DateOuNul == Instant \cup {Nul}
UserOuNul == User \cup {Nul}

Tache == [proprio : UserOuNul,          \* projet.proprietaireId: Nul for an office task
          statut : StatutTache,
          assigneA : UserOuNul,
          assignePar : UserOuNul,
          dateDebut : DateOuNul,
          dateDeclaration : DateOuNul,
          dateRenvoiRework : DateOuNul,
          dateValidation : DateOuNul,
          validePar : UserOuNul]

NouvelleTache(proprio, assigneA, assignePar) ==
    [proprio |-> proprio, statut |-> "A_FAIRE",
     assigneA |-> assigneA, assignePar |-> assignePar,
     dateDebut |-> Nul, dateDeclaration |-> Nul, dateRenvoiRework |-> Nul,
     dateValidation |-> Nul, validePar |-> Nul]

AucuneSession == [u \in User |-> 0]

Init ==
    /\ comptes = User
    /\ role = RoleInitial
    /\ membres = MembresInitiaux
    /\ existe = FALSE
    /\ tache = NouvelleTache(Nul, Nul, Nul)
    /\ coAssignes = {}
    /\ ouvertes = AucuneSession
    /\ horloge = 0
    /\ mouvements = 0

-----------------------------------------------------------------------------
(* Who may do what. *)

Personnelle == tache.proprio # Nul

(* loadWithBureau(): an office task is visible to the organisation, a      *)
(* personal one to its owner.                                              *)
PeutCharger(u) == existe /\ u \in comptes /\ tache.proprio \in {Nul, u}

(* assertManager() and isManager(). *)
EstManager(u) ==
    \/ Personnelle
    \/ role[u] = "ADMIN"
    \/ role[u] = "MANAGER" /\ u \in membres

(* assertBureauMember(). *)
EstMembre(u) == Personnelle \/ role[u] = "ADMIN" \/ u \in membres

EstAssigne(u) == tache.assigneA = u \/ u \in coAssignes

-----------------------------------------------------------------------------
(* The stopwatch: statements on TacheSession shared by the handlers. *)

(* findFirst own open session, create one if there is none. *)
SessionToujoursCreee(u) == [ouvertes EXCEPT ![u] = @ + 1]   \* mutant: no findFirst
SessionAssuree(u) ==
    IF ouvertes[u] = 0 THEN [ouvertes EXCEPT ![u] = 1] ELSE ouvertes

SessionsSiennesFermees(u) == [ouvertes EXCEPT ![u] = 0]
SessionsInchangees == ouvertes                               \* mutant: none closed
ToutesSessionsFermees == AucuneSession

-----------------------------------------------------------------------------
(* Creation and deletion of the row. *)

Creer(proprio, assigneA, assignePar) ==
    /\ ~existe
    /\ existe' = TRUE
    /\ tache' = NouvelleTache(proprio, assigneA, assignePar)
    /\ UNCHANGED <<equipe, coAssignes, ouvertes, horloge>>

(* organizer.createTache() on a personal Organizer, and the AI processor   *)
(* there.                                                                  *)
CreerPersonnelle(u) == u \in comptes /\ Creer(u, u, u)

(* organizer.createTache() on an office's Organizer. *)
CreerDansBureau(u) ==
    /\ u \in comptes
    /\ role[u] = "ADMIN" \/ u \in membres
    /\ Creer(Nul, u, u)

(* The AI processor assigns to the author of the message, who may have     *)
(* left the office since.                                                  *)
CreerParIA(auteur) == auteur \in comptes /\ Creer(Nul, auteur, auteur)

(* projets.createTache(), and convertPlan() for a task of the plan with an  *)
(* assignee.                                                               *)
CreerDansProjet(u, a) ==
    /\ u \in comptes
    /\ role[u] = "ADMIN" \/ (role[u] = "MANAGER" /\ u \in membres)
    /\ a \in membres \cup {u}
    /\ Creer(Nul, a, u)

(* A task nobody has: dupliquer() and dupliquerSubject(), personal tasks   *)
(* included, and convertPlan() for an office task without assignee.        *)
CreerSansAssigne(u, proprio) ==
    /\ u \in comptes
    /\ proprio = u \/ (proprio = Nul /\ (role[u] = "ADMIN" \/ u \in membres))
    /\ Creer(proprio, Nul, Nul)

(* The row goes, and with it its co-assignees and sessions. *)
LigneSupprimee ==
    /\ existe' = FALSE
    /\ tache' = NouvelleTache(Nul, Nul, Nul)
    /\ coAssignes' = {}
    /\ ouvertes' = AucuneSession

PeutSupprimer(u) == PeutCharger(u) /\ EstManager(u)

Supprimer(u) ==
    /\ PeutSupprimer(u)
    /\ LigneSupprimee
    /\ UNCHANGED <<equipe, horloge>>

(* Deleting the Subject, the project or the office deletes the task too. *)
SupprimerParCascade ==
    /\ existe
    /\ LigneSupprimee
    /\ UNCHANGED <<equipe, horloge>>

-----------------------------------------------------------------------------
(* Assignment. *)

(* assigner(), up to the test that separates principal from co-assignee:   *)
(* assigning oneself takes membership, assigning someone else takes a      *)
(* manager; the assignee is a member, or the organisation's owner.         *)
AssignationAussiPersonnelle(u, a) ==   \* mutant: personal tasks not refused
    /\ PeutCharger(u)
    /\ IF u = a THEN u = Proprietaire \/ EstMembre(u) ELSE EstManager(u)
    /\ a \in membres \cup {Proprietaire}

AssignationPermise(u, a) ==
    /\ PeutCharger(u)
    /\ ~Personnelle
    /\ IF u = a THEN u = Proprietaire \/ EstMembre(u) ELSE EstManager(u)
    /\ a \in membres \cup {Proprietaire}

AssignerPrincipal(u, a, replace) ==
    /\ AssignationPermise(u, a)
    /\ replace \/ tache.assigneA \in {Nul, a}
    /\ coAssignes' = coAssignes \ {a}
    /\ tache' = [tache EXCEPT !.assigneA = a, !.assignePar = u]
    /\ UNCHANGED <<equipe, existe, ouvertes, horloge>>

AssignerCoAssigne(u, a) ==
    /\ AssignationPermise(u, a)
    /\ tache.assigneA \notin {Nul, a}
    /\ coAssignes' = coAssignes \cup {a}
    /\ UNCHANGED <<equipe, existe, tache, ouvertes, horloge>>

PeutRetirer(u, a) == PeutCharger(u) /\ (EstManager(u) \/ u = a)

RetirerAssigne(u, a) ==
    /\ PeutRetirer(u, a)
    /\ coAssignes' = coAssignes \ {a}
    /\ UNCHANGED <<equipe, existe, tache, ouvertes, horloge>>

PeutAccepter(u) ==
    /\ PeutCharger(u)
    /\ EstMembre(u)
    /\ tache.assigneA \in {Nul, u}
    /\ tache.statut = "A_FAIRE"

Accepter(u) ==
    /\ PeutAccepter(u)
    /\ tache' = IF tache.assigneA = u
                THEN [tache EXCEPT !.statut = "ACCEPTEE"]
                ELSE [tache EXCEPT !.statut = "ACCEPTEE",
                                   !.assigneA = u, !.assignePar = u]
    /\ UNCHANGED <<equipe, existe, coAssignes, ouvertes, horloge>>

(* retourner(): back to whoever assigned it, from any status; the dates of *)
(* a validation are left in the row.                                       *)
RendueSansStatut ==   \* mutant: the status is kept
    [tache EXCEPT !.assigneA = tache.assignePar]

TacheRendue ==
    [tache EXCEPT !.statut = "A_FAIRE", !.assigneA = tache.assignePar,
                  !.dateDebut = Nul, !.dateDeclaration = Nul]

PeutRetourner(u) == PeutCharger(u) /\ EstAssigne(u)

Retourner(u) ==
    /\ PeutRetourner(u)
    /\ coAssignes' = coAssignes \ {u}
    /\ ouvertes' = ToutesSessionsFermees
    /\ tache' = TacheRendue
    /\ UNCHANGED <<equipe, existe, horloge>>

-----------------------------------------------------------------------------
(* Work. *)

(* demarrer() keeps the first start when a task is resumed after rework. *)
DebutEcrase == horloge   \* mutant: no "tache.dateDebut ??"
PremierDebut == IF tache.dateDebut = Nul THEN horloge ELSE tache.dateDebut

PeutDemarrer(u) ==
    /\ PeutCharger(u)
    /\ EstMembre(u)
    /\ tache.assigneA = u
    /\ tache.statut \in {"ACCEPTEE", "A_REVOIR"}

Demarrer(u) ==
    /\ PeutDemarrer(u)
    /\ tache' = [tache EXCEPT !.statut = "EN_COURS", !.dateDebut = PremierDebut]
    /\ ouvertes' = SessionAssuree(u)
    /\ UNCHANGED <<equipe, existe, coAssignes, horloge>>

(* pauser() and reprendre() ask no membership. *)
PeutChronometrer(u) ==
    /\ PeutCharger(u)
    /\ tache.assigneA = u
    /\ tache.statut = "EN_COURS"

Pauser(u) ==
    /\ PeutChronometrer(u)
    /\ ouvertes[u] # 0
    /\ ouvertes' = SessionsSiennesFermees(u)
    /\ UNCHANGED <<equipe, existe, tache, coAssignes, horloge>>

Reprendre(u) ==
    /\ PeutChronometrer(u)
    /\ ouvertes[u] = 0
    /\ ouvertes' = SessionAssuree(u)
    /\ UNCHANGED <<equipe, existe, tache, coAssignes, horloge>>

PeutDeclarer(u) ==
    /\ PeutCharger(u)
    /\ EstMembre(u)
    /\ tache.assigneA = u
    /\ tache.statut = "EN_COURS"

Declarer(u) ==
    /\ PeutDeclarer(u)
    /\ tache' = [tache EXCEPT !.statut = "DECLARE", !.dateDeclaration = horloge]
    /\ ouvertes' = SessionsSiennesFermees(u)
    /\ UNCHANGED <<equipe, existe, coAssignes, horloge>>

PeutAnnulerDeclaration(u) ==
    /\ PeutCharger(u)
    /\ EstMembre(u)
    /\ tache.assigneA = u
    /\ tache.statut = "DECLARE"

AnnulerDeclaration(u) ==
    /\ PeutAnnulerDeclaration(u)
    /\ tache' = [tache EXCEPT !.statut = "EN_COURS", !.dateDeclaration = Nul]
    /\ ouvertes' = SessionAssuree(u)
    /\ UNCHANGED <<equipe, existe, coAssignes, horloge>>

-----------------------------------------------------------------------------
(* Validation. *)

PeutValider(u) ==
    /\ PeutCharger(u)
    /\ tache.assignePar = u \/ EstManager(u)
    /\ tache.statut = "DECLARE"

ValiderOk(u) ==
    /\ PeutValider(u)
    /\ tache' = [tache EXCEPT !.statut = "VALIDE",
                              !.dateValidation = horloge, !.validePar = u]
    /\ UNCHANGED <<equipe, existe, coAssignes, ouvertes, horloge>>

ValiderLitige(u) ==
    /\ PeutValider(u)
    /\ tache' = [tache EXCEPT !.statut = "A_REVOIR", !.dateRenvoiRework = horloge]
    /\ UNCHANGED <<equipe, existe, coAssignes, ouvertes, horloge>>

(* reouvrir(): personal tasks only, whatever the status; the stopwatch is  *)
(* left as it is.                                                          *)
PeutReouvrir(u) == PeutCharger(u) /\ Personnelle /\ tache.assigneA = u

Reouvrir(u) ==
    /\ PeutReouvrir(u)
    /\ tache' = [tache EXCEPT !.statut = "A_FAIRE",
                              !.dateDebut = Nul, !.dateDeclaration = Nul,
                              !.dateValidation = Nul, !.validePar = Nul]
    /\ UNCHANGED <<equipe, existe, coAssignes, ouvertes, horloge>>

-----------------------------------------------------------------------------
(* What the other modules of the API do to the people around the task. *)

Mouvement == mouvements < MaxMouvements /\ mouvements' = mouvements + 1

(* JwtStrategy.validate() trusts the role in the token, so a new role      *)
(* counts from the user's next token on.                                   *)
NouveauJeton(u, r) ==
    /\ Mouvement
    /\ u \in comptes \ {Proprietaire}
    /\ role' = [role EXCEPT ![u] = r]
    /\ UNCHANGED <<comptes, membres, existe, tache, coAssignes, ouvertes, horloge>>

(* bureaux.acceptInvitation(), or a promotion to ADMIN. *)
RejoindreBureau(u) ==
    /\ Mouvement
    /\ u \in comptes \ membres
    /\ membres' = membres \cup {u}
    /\ UNCHANGED <<comptes, role, existe, tache, coAssignes, ouvertes, horloge>>

(* bureaux.removeMembre(): assignments and sessions stay. *)
QuitterBureau(u) ==
    /\ Mouvement
    /\ u \in membres
    /\ membres' = membres \ {u}
    /\ UNCHANGED <<comptes, role, existe, tache, coAssignes, ouvertes, horloge>>

OublierUser(u, v) == IF v = u THEN Nul ELSE v

(* organisation.removeMembre() deletes the User row: personal projects,    *)
(* co-assignments and sessions cascade, the columns of the task that name  *)
(* the user are set to NULL.                                               *)
SupprimerMembre(u) ==
    /\ Mouvement
    /\ u \in comptes \ {Proprietaire}
    /\ comptes' = comptes \ {u}
    /\ membres' = membres \ {u}
    /\ IF existe /\ tache.proprio = u
       THEN LigneSupprimee
       ELSE /\ coAssignes' = coAssignes \ {u}
            /\ ouvertes' = SessionsSiennesFermees(u)
            /\ tache' = [tache EXCEPT !.assigneA = OublierUser(u, tache.assigneA),
                                      !.assignePar = OublierUser(u, tache.assignePar),
                                      !.validePar = OublierUser(u, tache.validePar)]
            /\ UNCHANGED existe
    /\ UNCHANGED <<role, horloge>>

PasserLeTemps ==
    /\ horloge < MaxHorloge
    /\ horloge' = horloge + 1
    /\ UNCHANGED <<equipe, existe, tache, coAssignes, ouvertes>>

-----------------------------------------------------------------------------
Creation ==
    \/ \E u \in User : CreerPersonnelle(u)
    \/ \E u \in User : CreerDansBureau(u)
    \/ \E u \in User : CreerParIA(u)
    \/ \E u, a \in User : CreerDansProjet(u, a)
    \/ \E u \in User, proprio \in UserOuNul : CreerSansAssigne(u, proprio)

Assignation ==
    \/ \E u, a \in User, replace \in BOOLEAN : AssignerPrincipal(u, a, replace)
    \/ \E u, a \in User : AssignerCoAssigne(u, a)
    \/ \E u, a \in User : RetirerAssigne(u, a)
    \/ \E u \in User : Accepter(u)
    \/ \E u \in User : Retourner(u)

Travail ==
    \/ \E u \in User : Demarrer(u)
    \/ \E u \in User : Pauser(u)
    \/ \E u \in User : Reprendre(u)
    \/ \E u \in User : Declarer(u)
    \/ \E u \in User : AnnulerDeclaration(u)

Decision ==
    \/ \E u \in User : ValiderOk(u)
    \/ \E u \in User : ValiderLitige(u)
    \/ \E u \in User : Reouvrir(u)
    \/ \E u \in User : Supprimer(u)
    \/ SupprimerParCascade

Equipe ==
    \/ \E u \in User, r \in RoleGlobal : NouveauJeton(u, r)
    \/ \E u \in User : RejoindreBureau(u)
    \/ \E u \in User : QuitterBureau(u)
    \/ \E u \in User : SupprimerMembre(u)

Next == Creation \/ Assignation \/ Travail \/ Decision \/ Equipe \/ PasserLeTemps

Spec == Init /\ [][Next]_vars

-----------------------------------------------------------------------------
(* Properties. *)

TypeOK ==
    /\ comptes \subseteq User
    /\ role \in [User -> RoleGlobal]
    /\ membres \subseteq User
    /\ existe \in BOOLEAN
    /\ tache \in Tache
    /\ coAssignes \subseteq User
    /\ ouvertes \in [User -> Nat]
    /\ horloge \in Instant
    /\ mouvements \in Nat

(* One person never has two open sessions on the task: tempsReelMinutes()  *)
(* adds all sessions up, so an overlap would count the same hour twice.    *)
SessionUnique == \A u \in User : ouvertes[u] <= 1

(* An office task that is "to do" or "accepted" has no running stopwatch,  *)
(* whoever worked on it before it was handed back: demarrer() is the only  *)
(* way in, and retourner() the only way back.                              *)
ChronoEteintAvantDemarrage ==
    (~Personnelle /\ tache.statut \in {"A_FAIRE", "ACCEPTEE"}) => ouvertes = AucuneSession

(* A personal task stays with its owner through every cycle of rendering   *)
(* and accepting it: nobody else becomes assignee, assigner, co-assignee   *)
(* or has a session on it ("only you can see it", docs/tasks).  It may be  *)
(* without assignee, as a duplicate is.                                    *)
PersonnelleResteAuProprietaire ==
    Personnelle =>
        /\ {tache.assigneA, tache.assignePar} \subseteq {tache.proprio, Nul}
        /\ coAssignes = {}
        /\ \A u \in User \ {tache.proprio} : ouvertes[u] = 0

Ordonnees(d, e) == d # Nul /\ e # Nul /\ d <= e

(* The dates the reports replay are in the order of the life cycle, also   *)
(* after reworks, cancelled declarations and handovers: nothing before the *)
(* start, then the first start, the declaration, the decision on it.       *)
DatesOrdonnees ==
    /\ tache.statut \in {"A_FAIRE", "ACCEPTEE"} =>
          tache.dateDebut = Nul /\ tache.dateDeclaration = Nul
    /\ tache.statut = "EN_COURS" =>
          /\ tache.dateDebut # Nul
          /\ tache.dateDeclaration # Nul => tache.dateDebut <= tache.dateDeclaration
    /\ tache.statut \in {"DECLARE", "A_REVOIR", "VALIDE"} =>
          Ordonnees(tache.dateDebut, tache.dateDeclaration)
    /\ tache.statut = "A_REVOIR" => Ordonnees(tache.dateDeclaration, tache.dateRenvoiRework)
    /\ tache.statut = "VALIDE" => Ordonnees(tache.dateDeclaration, tache.dateValidation)

(* A task somebody is engaged on loses its assignee only when that person  *)
(* leaves the organisation; handing it back always puts it "to do" again.  *)
EngageeJusquAuDepart ==
    [][(existe' /\ tache.assigneA # Nul /\ tache'.assigneA = Nul)
         => \/ tache'.statut = "A_FAIRE"
            \/ tache.assigneA \notin comptes']_vars

-----------------------------------------------------------------------------
(* What the documentation says of the program and the code does not do:    *)
(* each of these is refuted by a run of its own.                           *)

(* "The stopwatch follows the life cycle: a session opens and closes       *)
(* automatically with demarrer()/declarer()" (chronoStatut): a declared or *)
(* validated office task has no running session.                           *)
ChronoSuitLeCycle ==
    (~Personnelle /\ tache.statut \in {"DECLARE", "VALIDE"}) => ouvertes = AucuneSession

(* "Validated: a manager approved it. This is the final state."            *)
ValideeEstFinal ==
    [][(existe' /\ ~Personnelle /\ tache.statut = "VALIDE") => tache'.statut = "VALIDE"]_vars

(* "Only a manager (or Authority) can move a Declared task to Validated".  *)
SeulUnManagerValide ==
    [][(~Personnelle /\ tache.statut = "DECLARE" /\ tache'.statut = "VALIDE")
         => EstManager(tache'.validePar)]_vars

=============================================================================
