------------------------------- MODULE Blocages -------------------------------
(***************************************************************************)
(* The blockers of one task and the health they give it (taches.service.ts *)
(* creerBlocage, resoudreBlocage, retirerBlocage, recalculerSante-         *)
(* ApresBlocage).  Requests run concurrently: each one awaits the database *)
(* between its statements, so the others' statements fall in between.  One *)
(* action is one statement, or one transaction.                            *)
(*                                                                         *)
(* Left out: the type, cause and responsible person of a blocker, and its  *)
(* dates except that dateFin is set or not.  The task, its assignees and   *)
(* the office's managers stay the same; TacheCycle.tla moves them.  A      *)
(* request names a blocker of this task, as the task's page always does.   *)
(***************************************************************************)
EXTENDS Naturals

CONSTANTS
    Appel,       \* requests the API serves at the same time
    Blocage,     \* ids of TacheBlocage rows: bounds how many exist at a time
    Assigne,     \* principal and co-assignees of the task, members of its office
    Manager      \* users for whom isManager() holds

VARIABLES
    lignes,          \* the TacheBlocage rows
    sante,           \* tache.sante
    requete,         \* where each request stands, between two statements
    recalculPerdu    \* history: a crash cut the recalculation of the last blocker short

varsSante == <<lignes, sante, requete, recalculPerdu>>

Absente == [etat |-> "absente"]
Ligne == {Absente} \cup [etat : {"actif", "resolu"}, signalePar : Assigne]

Repos == [phase |-> "repos"]
EnCompte == [phase |-> "compter"]
EnNormalisation == [phase |-> "normaliser"]
EnRetrait(b) == [phase |-> "retirer", blocage |-> b]
PhaseRequete == {Repos, EnCompte, EnNormalisation} \cup {EnRetrait(b) : b \in Blocage}

(* Active blockers: dateFin is null. *)
Actifs == {b \in Blocage : lignes[b].etat = "actif"}
RecalculsEnCours == {r \in Appel : requete[r] \in {EnCompte, EnNormalisation}}

InitSante ==
    /\ lignes = [b \in Blocage |-> Absente]
    /\ sante = "NORMAL"
    /\ requete = [r \in Appel |-> Repos]
    /\ recalculPerdu = FALSE

-----------------------------------------------------------------------------
LigneSignalee(u) == [etat |-> "actif", signalePar |-> u]

(* creerBlocage(): an assignee reports, one transaction writes both rows.  *)
(* The id is a new uuid: no other request holds it.                        *)
CreerBlocage(r, u, b) ==
    /\ requete[r] = Repos
    /\ u \in Assigne
    /\ lignes[b] = Absente /\ \A q \in Appel : requete[q] # EnRetrait(b)
    /\ lignes' = [lignes EXCEPT ![b] = LigneSignalee(u)]
    /\ sante' = "BLOQUEE"
    /\ recalculPerdu' = FALSE
    /\ UNCHANGED requete

(* resoudreBlocage() by a manager, up to the await of the recalculation;   *)
(* an already resolved blocker is accepted again.                          *)
Resoudre(r, u, b) ==
    /\ requete[r] = Repos
    /\ u \in Manager
    /\ lignes[b] # Absente
    /\ lignes' = [lignes EXCEPT ![b].etat = "resolu"]
    /\ requete' = [requete EXCEPT ![r] = EnCompte]
    /\ UNCHANGED <<sante, recalculPerdu>>

(* retirerBlocage() reads the row and checks it: still active, and the     *)
(* user is its author or a manager...                                      *)
LireRetrait(r, u, b) ==
    /\ requete[r] = Repos
    /\ lignes[b].etat = "actif"
    /\ u = lignes[b].signalePar \/ u \in Manager
    /\ requete' = [requete EXCEPT ![r] = EnRetrait(b)]
    /\ UNCHANGED <<lignes, sante, recalculPerdu>>

(* ... then deletes it, whatever it has become.  Deleting a row that is    *)
(* gone is an error, and ends the request.                                 *)
ApresRetraitSansRecalcul(b) == Repos   \* mutant: the health is not recalculated
ApresRetrait(b) == IF lignes[b] = Absente THEN Repos ELSE EnCompte

Retirer(r, b) ==
    /\ requete[r] = EnRetrait(b)
    /\ lignes' = [lignes EXCEPT ![b] = Absente]
    /\ requete' = [requete EXCEPT ![r] = ApresRetrait(b)]
    /\ UNCHANGED <<sante, recalculPerdu>>

-----------------------------------------------------------------------------
(* recalculerSanteApresBlocage(): count the active blockers...             *)
RestantsTousEtats == {b \in Blocage : lignes[b] # Absente}   \* mutant: no "dateFin: null"
Restants == Actifs

Compter(r) ==
    /\ requete[r] = EnCompte
    /\ requete' = [requete EXCEPT ![r] = IF Restants = {} THEN EnNormalisation ELSE Repos]
    /\ UNCHANGED <<lignes, sante, recalculPerdu>>

(* ... and if none was left then, make the task healthy now.               *)
Normaliser(r) ==
    /\ requete[r] = EnNormalisation
    /\ sante' = "NORMAL"
    /\ requete' = [requete EXCEPT ![r] = Repos]
    /\ recalculPerdu' = FALSE
    /\ UNCHANGED lignes

(* The API process stops and starts again: the rows stay, every request in *)
(* progress is gone.                                                       *)
Panne ==
    /\ \E r \in Appel : requete[r] # Repos
    /\ requete' = [r \in Appel |-> Repos]
    /\ recalculPerdu' = (recalculPerdu \/ (RecalculsEnCours # {} /\ Actifs = {}))
    /\ UNCHANGED <<lignes, sante>>

-----------------------------------------------------------------------------
Avancer(r) ==
    \/ \E b \in Blocage : Retirer(r, b)
    \/ Compter(r)
    \/ Normaliser(r)

Router(r) ==
    \/ \E u \in Assigne \cup Manager, b \in Blocage : CreerBlocage(r, u, b)
    \/ \E u \in Assigne \cup Manager, b \in Blocage : Resoudre(r, u, b)
    \/ \E u \in Assigne \cup Manager, b \in Blocage : LireRetrait(r, u, b)

NextSante ==
    \/ \E r \in Appel : Router(r) \/ Avancer(r)
    \/ Panne

(* The event loop resumes a request when its statement has answered.       *)
Equite == \A r \in Appel : WF_varsSante(Avancer(r))

SpecSante == InitSante /\ [][NextSante]_varsSante /\ Equite

-----------------------------------------------------------------------------
(* Properties. *)

TypeSante ==
    /\ lignes \in [Blocage -> Ligne]
    /\ sante \in {"NORMAL", "BLOQUEE"}
    /\ requete \in [Appel -> PhaseRequete]
    /\ recalculPerdu \in BOOLEAN

(* However creations, resolutions and withdrawals interleave, a task never *)
(* stays "blocked" without an active blocker: a recalculation that will    *)
(* set it back is under way, or a crash has cut one short.                 *)
NormaleSansBlocage ==
    (Actifs = {} /\ sante = "BLOQUEE") => (RecalculsEnCours # {} \/ recalculPerdu)

(* "Resolving it sets the health back to Normal when no blocker is active  *)
(* any more": once the last blocker has ended, the task becomes healthy,   *)
(* unless it is blocked again or the process crashes first.                *)
SanteRetrouvee ==
    (Actifs = {} /\ ~recalculPerdu) ~> (sante = "NORMAL" \/ Actifs # {} \/ recalculPerdu)

-----------------------------------------------------------------------------
(* What the documentation says and the code does not do, refuted by a run. *)

(* "Opening a blocker sets the health to Blocked": when no request is in   *)
(* progress, a task with an active blocker is blocked.                     *)
BloqueeTantQueBlocage ==
    (Actifs # {} /\ \A r \in Appel : requete[r] = Repos) => sante = "BLOQUEE"

=============================================================================
