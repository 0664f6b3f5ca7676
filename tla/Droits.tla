-------------------------------- MODULE Droits ---------------------------------
(***************************************************************************)
(* Who may do what: the guards of the API's controllers, the calls the web *)
(* application makes (lib/api.ts), and the pages that make them: the calls *)
(* a page needs before it shows anything, the buttons it shows to whom and *)
(* the calls behind each button.  Tasks, Subjects and reports have their   *)
(* own modules (TacheEcran, Sujets, Rapports).                             *)
(*                                                                         *)
(* All three sides only look at a person's situation: the role, whether    *)
(* the office is theirs, who owns the organisation, and who is looked at.  *)
(* The tables are evaluated once per situation; which situations occur is  *)
(* what Membres says.  Token and screen are up to date (Comptes, Pages).   *)
(***************************************************************************)
EXTENDS Membres

Situation == [role : RoleGlobal, dedans : BOOLEAN, proprio : BOOLEAN,
              soi : BOOLEAN, cibleProprio : BOOLEAN]

(* u in office b (or in none: Nul), looking at v. *)
SituationDe(u, b, v) ==
    [role |-> role[u], dedans |-> <<u, b>> \in adhesions, proprio |-> u = proprietaire,
     soi |-> u = v, cibleProprio |-> v = proprietaire]

Si(condition, ensemble) == IF condition THEN ensemble ELSE {}

(* Two tables in one. *)
Avec(f, g) == [x \in DOMAIN f \cup DOMAIN g |-> IF x \in DOMAIN f THEN f[x] ELSE g[x]]

-----------------------------------------------------------------------------
(* The API. *)

Autorite(s) == s.role = "ADMIN"

(* BureauRoleGuard; OrganizerAccessGuard and ProjetAccessGuard let the same *)
(* people in as ANY_MEMBER.                                                 *)
MembreDuBureau(s) == Autorite(s) \/ s.dedans
ManagerDuBureau(s) == Autorite(s) \/ (s.role = "MANAGER" /\ s.dedans)

(* What the guards and checks named in the tables below ask. *)
Satisfait(s, garde) ==
    \/ garde = "tous"
    \/ garde = "autorite" /\ Autorite(s)
    \/ garde = "soi" /\ (s.soi \/ Autorite(s))
    \/ garde = "membre" /\ MembreDuBureau(s)
    \/ garde = "manager" /\ ManagerDuBureau(s)
    \/ garde = "saufProprio" /\ Autorite(s) /\ ~s.cibleProprio
    \/ garde = "retrait" /\ Autorite(s) /\ ~s.cibleProprio /\ ~s.soi
    \/ garde = "cession" /\ Autorite(s) /\ s.proprio /\ ~s.cibleProprio
    \/ garde = "proprio" /\ Autorite(s) /\ s.proprio

RoutesOrganisation == [
    findOne |-> "tous", listMembres |-> "tous", getStats |-> "tous",
    getMembreStats |-> "soi", getMembreEvolution |-> "soi", getMembreJournal |-> "soi",
    update |-> "autorite", uploadLogo |-> "autorite", removeLogo |-> "autorite",
    getBureauEvolution |-> "autorite", addMembre |-> "autorite",
    listInvitations |-> "autorite", cancelInvitation |-> "autorite",
    updateMembrePoste |-> "autorite", updateMembreRole |-> "saufProprio",
    transferOwnership |-> "cession", removeMembre |-> "retrait", remove |-> "proprio"]

(* The offices themselves. *)
RoutesBureaux == [
    findAll |-> "tous", listMyInvitations |-> "tous", getAValider |-> "tous",
    acceptInvitation |-> "tous", declineInvitation |-> "tous",
    create |-> "autorite", reorder |-> "autorite", removeBureau |-> "autorite",
    setAlerte |-> "autorite", findBureau |-> "membre", getBureauStats |-> "membre",
    updateBureau |-> "manager", updateParametres |-> "manager", uploadPhoto |-> "manager",
    removePhoto |-> "manager"]

(* Their members. *)
RoutesAdhesions == [
    addMembreBureau |-> "manager", listInvitationsBureau |-> "manager",
    cancelInvitationBureau |-> "manager", updateMembre |-> "manager",
    removeMembreBureau |-> "manager"]

(* The Organizers, the daily brief, the lists of tasks and messages. *)
RoutesOrganizer == [
    findForBureau |-> "membre", findPersonal |-> "tous", subjects |-> "membre"]
RoutesTaches == [
    mesTaches |-> "tous", alertes |-> "tous", organisationTaches |-> "autorite",
    listForBureau |-> "membre", brief |-> "membre", validationsAujourdhui |-> "tous",
    valider |-> "manager", listMessages |-> "membre", directMessages |-> "tous"]

Routes == Avec(RoutesOrganisation, Avec(RoutesBureaux, Avec(RoutesAdhesions,
              Avec(RoutesOrganizer, RoutesTaches))))

-----------------------------------------------------------------------------
(* lib/api.ts: the handler each call reaches. *)

AppelsBureaux == [
    listBureaux |-> "findAll", getBureauxAValider |-> "getAValider", createBureau |-> "create",
    getBureau |-> "findBureau", updateBureau |-> "updateBureau",
    updateBureauParametres |-> "updateParametres", deleteBureau |-> "removeBureau",
    setBureauAlerte |-> "setAlerte", reorderBureaux |-> "reorder",
    uploadBureauPhoto |-> "uploadPhoto", removeBureauPhoto |-> "removePhoto",
    addMembre |-> "addMembreBureau", listBureauInvitations |-> "listInvitationsBureau",
    cancelBureauInvitation |-> "cancelInvitationBureau",
    listMyBureauInvitations |-> "listMyInvitations",
    acceptBureauInvitation |-> "acceptInvitation",
    declineBureauInvitation |-> "declineInvitation", removeMembre |-> "removeMembreBureau"]

AppelsOrganisation == [
    getOrganisation |-> "findOne", updateOrganisation |-> "update",
    deleteOrganisation |-> "remove", uploadOrganisationLogo |-> "uploadLogo",
    removeOrganisationLogo |-> "removeLogo",
    updateOrganisationMembreRole |-> "updateMembreRole",
    removeOrganisationMembre |-> "removeMembre", transferOwnership |-> "transferOwnership",
    listOrganisationMembres |-> "listMembres", getOrganisationStats |-> "getStats",
    getMembreStats |-> "getMembreStats", getMembreJournal |-> "getMembreJournal",
    getBureauStats |-> "getBureauStats"]

AppelsInvitations == [
    addOrganisationMembre |-> "addMembre", updateMembrePoste |-> "updateMembrePoste",
    listOrganisationInvitations |-> "listInvitations",
    cancelOrganisationInvitation |-> "cancelInvitation"]

AppelsTaches == [
    getBureauOrganizer |-> "findForBureau", getMyOrganizer |-> "findPersonal",
    listOrganizerSubjects |-> "subjects", createOrganizerSubject |-> "subjects",
    renameOrganizerSubject |-> "subjects", deleteOrganizerSubject |-> "subjects",
    archiveOrganizerSubject |-> "subjects", dupliquerOrganizerSubject |-> "subjects",
    createTache |-> "subjects", getMyTasks |-> "mesTaches",
    getOrganisationTasks |-> "organisationTaches", listBureauTaches |-> "listForBureau",
    validerTache |-> "valider", listMessages |-> "listMessages",
    listDirectConversations |-> "directMessages", startDirectConversation |-> "directMessages"]

AppelsJour == [
    getAlertes |-> "alertes", getValidationsAujourdhui |-> "validationsAujourdhui",
    getMembreEvolution |-> "getMembreEvolution", getBureauEvolution |-> "getBureauEvolution",
    getDailyBrief |-> "brief"]

Appels == Avec(AppelsBureaux, Avec(AppelsOrganisation, Avec(AppelsInvitations,
              Avec(AppelsTaches, AppelsJour))))

Accepte(s, appel) == Satisfait(s, Routes[Appels[appel]])

-----------------------------------------------------------------------------
(* The pages.  isManager of the office pages, and of the Validations page. *)

Gere(s) == s.role = "ADMIN" \/ (s.role = "MANAGER" /\ s.dedans)
ValideQuelquePart(s) == s.role \in {"ADMIN", "MANAGER"}

(* An office is entered from the list of one's offices (findAllForUser()). *)
Entre(s) == s.role = "ADMIN" \/ s.dedans

(* The sidebar, and the tabs of an office. *)
PagesDuMenu(s) ==
    {"tableau", "performance", "validations", "members", "chat", "calendrier", "monEspace"}
    \cup Si(s.role = "ADMIN" \/ s.dedans, {"bureaux"})
    \cup Si(s.role = "ADMIN", {"parametres"})
OngletsDuBureau(s) ==
    {"apercu", "organizer", "taches"} \cup Si(Gere(s), {"checkIn", "parametresBureau"})
PagesOffertes(s) == PagesDuMenu(s) \cup Si(Entre(s), OngletsDuBureau(s))

(* The calls a page waits for. *)
ChargeApercuPourTous(s) ==   \* mutant: the invitations read whoever asks
    {"getBureau", "listOrganisationMembres", "getBureauStats", "listMessages",
     "listBureauInvitations"}
ChargeApercu(s) ==
    {"getBureau", "listOrganisationMembres", "getBureauStats", "listMessages"}
    \cup Si(Gere(s), {"listBureauInvitations"})
ChargeBureaux == {"listBureaux", "listMyBureauInvitations"}
ChargeMembres == {"listOrganisationMembres", "listOrganisationInvitations"}
ChargeOrganizer == {"getBureauOrganizer", "getBureau", "listOrganizerSubjects"}
ChargeTaches == {"listBureauTaches", "getBureau", "getBureauOrganizer"}
ChargeCheckIn == {"getBureau", "getDailyBrief", "listBureauTaches"}
ChargeTableau ==
    {"getOrganisationStats", "getOrganisation", "listBureaux", "getAlertes", "getMyTasks"}
ChargePerformance(s) ==
    {"getMembreStats", "getMembreJournal", "getMembreEvolution"}
    \cup Si(s.role = "ADMIN", {"listOrganisationMembres", "listBureaux", "getBureauEvolution"})
ChargeValidations(s) ==
    {"getValidationsAujourdhui"} \cup Si(ValideQuelquePart(s), {"getBureauxAValider"})
ChargeCalendrier(s) ==
    {"getMyTasks", "getMyOrganizer"} \cup Si(s.role = "ADMIN", {"getOrganisationTasks"})
ChargeParametres == {"getOrganisation"}
ChargeMonEspace == {"getMyOrganizer", "getMyTasks"}

Charge(s, page) ==
    CASE page = "tableau" -> ChargeTableau
      [] page = "bureaux" -> ChargeBureaux
      [] page = "performance" -> ChargePerformance(s)
      [] page = "validations" -> ChargeValidations(s)
      [] page = "members" -> ChargeMembres
      [] page = "chat" -> {"listDirectConversations"}
      [] page = "calendrier" -> ChargeCalendrier(s)
      [] page = "monEspace" -> ChargeMonEspace
      [] page = "parametres" -> ChargeParametres
      [] page = "apercu" -> ChargeApercu(s)
      [] page = "organizer" -> ChargeOrganizer
      [] page = "taches" -> ChargeTaches
      [] page = "checkIn" -> ChargeCheckIn
      [] page = "parametresBureau" -> {"getBureau"}

(* What the buttons a page shows call. *)
BoutonsMembresSansEgard(s) ==   \* mutant: the owner's own row like the others
    Si(s.role = "ADMIN", {"updateMembrePoste", "updateOrganisationMembreRole"})
BoutonsMembres(s) ==
    Si(s.role = "ADMIN",
       {"addOrganisationMembre", "cancelOrganisationInvitation", "updateMembrePoste"}
       \cup Si(~s.cibleProprio, {"updateOrganisationMembreRole"})
       \cup Si(~s.cibleProprio /\ s.proprio, {"transferOwnership"})
       \cup Si(~s.cibleProprio /\ ~s.soi, {"removeOrganisationMembre"}))

BoutonsBureaux(s) ==
    {"acceptBureauInvitation", "declineBureauInvitation"}
    \cup Si(s.role = "ADMIN", {"createBureau", "reorderBureaux"})

BoutonsApercu(s) ==
    Si(Gere(s), {"addMembre", "removeMembre", "cancelBureauInvitation"})
StatistiquesDunMembre == {"getMembreStats"}   \* "Task stats", beside every member

BoutonsOrganizer(s) ==
    Si(Gere(s) \/ s.dedans, {"createTache"})
    \cup Si(Gere(s), {"createOrganizerSubject", "renameOrganizerSubject", "deleteOrganizerSubject"})
BoutonsTaches(s) ==
    Si(Gere(s), {"createOrganizerSubject", "renameOrganizerSubject", "dupliquerOrganizerSubject",
                 "archiveOrganizerSubject", "deleteOrganizerSubject"})
BoutonsCheckIn(s) == Si(Gere(s), {"validerTache"})

(* The page says "no access" to who does not manage the office. *)
BoutonsParametresBureau(s) ==
    Si(Gere(s), {"updateBureau", "updateBureauParametres", "uploadBureauPhoto", "removeBureauPhoto"}
                \cup Si(s.role = "ADMIN", {"setBureauAlerte", "deleteBureau"}))

BoutonsParametres(s) ==
    Si(s.role = "ADMIN",
       {"updateOrganisation", "uploadOrganisationLogo", "removeOrganisationLogo"}
       \cup Si(s.proprio, {"deleteOrganisation"}))

(* The choice of a member and of an office; of one's own it is as loaded. *)
BoutonsPerformance(s) ==
    Si(s.role = "ADMIN", {"getMembreStats", "getMembreJournal", "getMembreEvolution",
                          "getBureauEvolution"})

Boutons(s, page) ==
    CASE page = "members" -> BoutonsMembres(s)
      [] page = "bureaux" -> BoutonsBureaux(s)
      [] page = "apercu" -> BoutonsApercu(s)
      [] page = "organizer" -> BoutonsOrganizer(s)
      [] page = "taches" -> BoutonsTaches(s)
      [] page = "checkIn" -> BoutonsCheckIn(s)
      [] page = "parametresBureau" -> BoutonsParametresBureau(s)
      [] page = "parametres" -> BoutonsParametres(s)
      [] page = "performance" -> BoutonsPerformance(s)
      [] page = "chat" -> {"startDirectConversation"}
      [] OTHER -> {}

-----------------------------------------------------------------------------
(* The calendar: the tasks it lists, and its two buttons on a due task.    *)
(* A task is of an office and assigned to the reader, of an office and     *)
(* somebody else's, personal, or the personal task of somebody else.       *)

TacheDuCalendrier == {"aMoi", "aUnAutre", "personnelle", "personnelleDAutrui"}

(* mesTaches(), or organisationTaches() for the whole organisation. *)
ListeDuCalendrier(s) ==
    {"aMoi", "personnelle"} \cup Si(s.role = "ADMIN", TacheDuCalendrier)

(* supprimer(). *)
PeutSupprimerTache(s, t) ==
    t = "personnelle" \/ (t \in {"aMoi", "aUnAutre"} /\ ManagerDuBureau(s))

-----------------------------------------------------------------------------
(* Properties.  A situation is safe when each of these holds of it.        *)

(* "Soi" is decided by the page: the charts of "performance" are one's own *)
(* until another member is chosen.                                         *)
Chargee(s, page) ==
    \A a \in Charge(s, page) :
        Accepte(IF page = "performance" THEN [s EXCEPT !.soi = TRUE] ELSE s, a)

SituationsOuvertes ==
    {s \in Situation : \A page \in PagesOffertes(s) \ {"members"} : Chargee(s, page)}
SituationsAcceptees ==
    {s \in Situation : \A page \in PagesOffertes(s) : \A a \in Boutons(s, page) : Accepte(s, a)}

Situations ==
    {SituationDe(u, b, v) : u \in users, b \in bureaux \cup {Nul}, v \in users}

(* In whatever order people join, leave, are promoted or invited, every    *)
(* page the sidebar, the list of offices and the tabs lead a person to     *)
(* gets all it asks the API before showing anything.  The Members page is  *)
(* the exception (MembresPourTous).                                        *)
PagesOuvertes == AucuneEnMain => Situations \subseteq SituationsOuvertes

(* And every button of these pages is accepted: the condition under which  *)
(* the browser shows it asks at least what the guard behind it asks.       *)
BoutonsDesPages == AucuneEnMain => Situations \subseteq SituationsAcceptees

(* What the web application offers is what the API grants. *)
PagesTenues == PagesOuvertes /\ BoutonsDesPages

(* members/page.tsx: "Everyone in your organisation."  The sidebar leads   *)
(* everybody there; load() asks for the invitations, which only an         *)
(* Authority may read, together with the members, and keeps neither.       *)
MembresPourTous == \A s \in Situations : Chargee(s, "members")

(* docs/performance: "Anyone can see their own stats [...] An Authority    *)
(* can see anyone's."  The office shows "Task stats" of everyone to        *)
(* everyone.                                                               *)
StatistiquesOffertes ==
    \A s \in Situations : Entre(s) => \A a \in StatistiquesDunMembre : Accepte(s, a)

(* docs/performance: the journal is there "so you (or your manager) can    *)
(* look back at any past date".                                            *)
JournalDuManager ==
    \A u \in users, adhesion \in adhesions :
        LET s == SituationDe(u, adhesion[2], adhesion[1])
        IN  ManagerDuBureau(s) => Accepte(s, "getMembreJournal")

(* task-calendar-modal.tsx: a task of an office "se modifie ailleurs [...] *)
(* le calendrier n'y touche que la programmation".  It also offers to      *)
(* delete it, which is refused to who does not manage the office.          *)
CalendrierSupprime ==
    \A s \in Situations : PeutSupprimerTache(s, "aMoi")

(* organizer-access.guard.ts: "Organizer personnel : strictement le        *)
(* proprietaire, meme les admins n'y ont pas acces."  The calendar of the  *)
(* whole organisation lists everybody's personal tasks.                    *)
PersonnelPrive ==
    \A s \in Situations : "personnelleDAutrui" \notin ListeDuCalendrier(s)

================================================================================
