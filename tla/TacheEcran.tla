------------------------------ MODULE TacheEcran ------------------------------
(***************************************************************************)
(* What the web application offers to do with a task (task-item.tsx, the   *)
(* check-in page, the task modal, the dashboard's alerts), beside what the *)
(* API accepts (TacheCycle).  A card is a record of its buttons; the API's *)
(* answer is a record with the same fields.  The card is up to date: a     *)
(* stale one is the subject of Pages.tla, and the API decides anyway.      *)
(***************************************************************************)
EXTENDS TacheCycle

-----------------------------------------------------------------------------
(* Where a person sees the task: the list of the office (listForBureau()), *)
(* "my tasks" (mesTaches(): assigned to me, or mine), the check-in of the  *)
(* office for those who validate.  A card knows whether its reader manages *)
(* the task: "my tasks" says so of Authorities and of personal tasks only. *)

VoitAuBureau(u) == existe /\ u \in comptes /\ ~Personnelle /\ EstMembre(u)
VoitDansLesSiennes(u) ==
    existe /\ u \in comptes /\ u \in {tache.assigneA, tache.proprio}
VoitAuCheckIn(u) == VoitAuBureau(u) /\ EstManager(u) /\ tache.statut = "DECLARE"

Lieux == {"bureau", "miennes"}
Voit(u, lieu) == IF lieu = "bureau" THEN VoitAuBureau(u) ELSE VoitDansLesSiennes(u)
Chef(u, lieu) == IF lieu = "bureau" THEN EstManager(u) ELSE Personnelle \/ role[u] = "ADMIN"
Proposables(lieu) == IF lieu = "bureau" THEN membres ELSE {}   \* assignableMembres

-----------------------------------------------------------------------------
(* The buttons of a card.  The stopwatch it shows is the task's first open *)
(* session, whoever opened it (tache.sessions[0]).                         *)

Principal(u) == tache.assigneA = u
Courante == \E v \in User : ouvertes[v] > 0

(* Accept: the assignee's icon on a task to do, or the button of a task    *)
(* without assignee, which does not look at the status.                    *)
OffreAccepterSansEgard(u) ==   \* mutant: nor at who the assignee is
    ~Personnelle /\ tache.statut = "A_FAIRE"
OffreAccepter(u) ==
    /\ ~Personnelle
    /\ \/ Principal(u) /\ tache.statut = "A_FAIRE"
       \/ tache.assigneA = Nul

OffreRendre(u) ==
    ~Personnelle /\ EstAssigne(u) /\ tache.assigneA # Nul /\ tache.statut # "VALIDE"

(* Mark as done: for a personal task the box chains accept, start, declare *)
(* and validate from the status it shows, and unchecking it reopens.       *)
OffreCocher(u) == Personnelle /\ Principal(u) /\ tache.statut # "VALIDE"
OffreDecocher(u) == Personnelle /\ tache.statut = "VALIDE"

(* "Assign to" when nobody is assigned; "Assigned to" of the edit modal,   *)
(* which replaces; "Add co-assignee" there.                                *)
OffreAttribuerAFaire(u, lieu) ==   \* mutant: of a task to do only
    ~Personnelle /\ Chef(u, lieu) /\ Proposables(lieu) # {} /\ tache.statut = "A_FAIRE"
OffreAttribuer(u, lieu) == ~Personnelle /\ Chef(u, lieu) /\ Proposables(lieu) # {}

Carte(u, lieu) ==
    [accepter |-> OffreAccepter(u),
     demarrer |-> ~Personnelle /\ Principal(u) /\ tache.statut \in {"ACCEPTEE", "A_REVOIR"},
     pauser |-> ~Personnelle /\ Principal(u) /\ tache.statut = "EN_COURS" /\ Courante,
     reprendre |-> ~Personnelle /\ Principal(u) /\ tache.statut = "EN_COURS" /\ ~Courante,
     declarer |-> ~Personnelle /\ Principal(u) /\ tache.statut = "EN_COURS",
     rendre |-> OffreRendre(u),
     cocher |-> OffreCocher(u),
     decocher |-> OffreDecocher(u),
     attribuer |-> OffreAttribuer(u, lieu),
     retirer |-> Chef(u, lieu) /\ coAssignes # {},
     dupliquer |-> Chef(u, lieu),
     supprimer |-> role[u] = "ADMIN" \/ Chef(u, lieu) \/ (Personnelle /\ Principal(u)),
     decider |-> VoitAuCheckIn(u)]

(* The form of the task modal, which every card opens, and the icon that   *)
(* leads to it.                                                            *)
OffreSignaler(u, lieu) == Chef(u, lieu) \/ Principal(u)
IconeSignaler(u) == EstAssigne(u) /\ tache.statut = "EN_COURS"

(* The dashboard's rows (alertes()): tasks of one's own and of the offices *)
(* one manages, whatever it is that asks for attention; "Reassign" of an   *)
(* office task lists the members of the office.                            *)
BureauGere(u) == ~Personnelle /\ (role[u] = "ADMIN" \/ (role[u] = "MANAGER" /\ u \in membres))
VoitEnAlerte(u) ==
    existe /\ u \in comptes /\ tache.statut # "VALIDE" /\ (VoitDansLesSiennes(u) \/ BureauGere(u))
OffreReassigner(u) == VoitEnAlerte(u) /\ BureauGere(u)

-----------------------------------------------------------------------------
(* What the API accepts.  completePersonalTask(): each call leaves the     *)
(* task in the status the next one asks for.                               *)
PeutCocher(u) ==
    /\ PeutCharger(u)
    /\ tache.assigneA \in {Nul, u}
    /\ tache.statut # "A_FAIRE" => tache.assigneA = u

(* assigner() to anyone the selector lists. *)
PeutAttribuer(u, lieu) == \A a \in Proposables(lieu) : AssignationPermise(u, a)

(* assigner() without replace. *)
PeutReassigner(u) == \A a \in membres : AssignationPermise(u, a)

(* creerBlocage(). *)
PeutSignaler(u) == PeutCharger(u) /\ EstAssigne(u) /\ EstMembre(u)

Reponse(u, lieu) ==
    [accepter |-> PeutAccepter(u), demarrer |-> PeutDemarrer(u),
     pauser |-> PeutChronometrer(u) /\ ouvertes[u] # 0,
     reprendre |-> PeutChronometrer(u) /\ ouvertes[u] = 0,
     declarer |-> PeutDeclarer(u), rendre |-> PeutRetourner(u),
     cocher |-> PeutCocher(u), decocher |-> PeutReouvrir(u),
     attribuer |-> PeutAttribuer(u, lieu),
     retirer |-> \A a \in coAssignes : PeutRetirer(u, a),
     dupliquer |-> PeutSupprimer(u), supprimer |-> PeutSupprimer(u),
     decider |-> PeutValider(u)]

-----------------------------------------------------------------------------
(* Properties. *)

(* When the API refuses a button of an up-to-date card (three findings):   *)
(*  - "Accept" of a task without assignee that is no longer to do;         *)
(*  - "Accept", "Start" or "Done" read among "my tasks" by somebody who    *)
(*    has left the office;                                                 *)
(*  - "Break" while the stopwatch that runs is somebody else's session,    *)
(*    left by a handover.                                                  *)
CasDeRefus(u, b) ==
    CASE b = "accepter" -> (tache.assigneA = Nul /\ tache.statut # "A_FAIRE") \/ ~EstMembre(u)
      [] b \in {"demarrer", "declarer"} -> ~EstMembre(u)
      [] b = "pauser" -> ouvertes[u] = 0
      [] OTHER -> FALSE

(* The API refuses a button that is shown in those cases, and in no other, *)
(* wherever the card is read and after any sequence of requests and changes*)
(* of staff; it never refuses "Reassign" of the dashboard.  The conditions *)
(* of the browser and of the API are written apart: this says exactly where*)
(* they differ.                                                            *)
RefusExacts ==
    \A u \in User :
        /\ OffreReassigner(u) => PeutReassigner(u)
        /\ \A lieu \in Lieux : Voit(u, lieu) => \A b \in DOMAIN Carte(u, lieu) :
              Carte(u, lieu)[b] => (Reponse(u, lieu)[b] <=> ~CasDeRefus(u, b))

(* "Each task card shows only the actions that make sense for its current  *)
(* status and for who's looking at it" (docs/tasks, line 75): refuted by   *)
(* each of those cases, one statement per case.                            *)
Suivi(b, u, lieu) == (Voit(u, lieu) /\ Carte(u, lieu)[b]) => Reponse(u, lieu)[b]

AccepterSelonLeStatut ==       \* whoever is a member
    \A u \in User, lieu \in Lieux : EstMembre(u) => Suivi("accepter", u, lieu)
DemarrerSelonLeLecteur == \A u \in User, lieu \in Lieux : Suivi("demarrer", u, lieu)
PauserSaSession == \A u \in User, lieu \in Lieux : Suivi("pauser", u, lieu)

(* Nobody has to leave the web application to get a task out of where it   *)
(* stands: as long as it is not validated somebody sees a button that      *)
(* moves it on and that the API accepts.  The exceptions are a personal    *)
(* task without assignee, as duplicates are, which has no box to check, and*)
(* an office everybody has left, whose tasks can be given to nobody.       *)
Avance == {"accepter", "demarrer", "declarer", "decider", "cocher", "attribuer"}

PasDImpasse ==
    (existe /\ tache.statut # "VALIDE") =>
        \/ Personnelle /\ tache.assigneA = Nul
        \/ ~Personnelle /\ membres = {}
        \/ \E u \in User, lieu \in Lieux :
              Voit(u, lieu) /\ \E b \in Avance : Carte(u, lieu)[b] /\ Reponse(u, lieu)[b]

(* "The assignee or a manager can report a blocker ... on any task that's  *)
(* In progress" (docs/tasks): refuted, the form is offered to managers,    *)
(* whom the API refuses, and not to the co-assignees, who have the icon.   *)
SignalerOffert ==
    \A u \in User, lieu \in Lieux :
        (Voit(u, lieu) /\ tache.statut = "EN_COURS") =>
            /\ OffreSignaler(u, lieu) => PeutSignaler(u)
            /\ IconeSignaler(u) => OffreSignaler(u, lieu)

(* "Checking it off validates it immediately" (docs/tasks, of a personal   *)
(* task): refuted by a duplicate, which has no box.                        *)
PersonnelleCochable ==
    \A u \in User :
        (VoitDansLesSiennes(u) /\ Personnelle /\ tache.statut # "VALIDE") => OffreCocher(u)

(* The dashboard's "Reassign" (TECH.md:66) calls assigner() without        *)
(* replace: it makes its choice the assignee only of a task without one.   *)
ReassignerDonneLaTache ==
    [][\A u, a \in User : AssignerCoAssigne(u, a) => tache'.assigneA = a]_vars

=============================================================================
