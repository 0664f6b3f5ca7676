-------------------------------- MODULE Membres --------------------------------
(***************************************************************************)
(* Who belongs to an organisation and to its offices: organisation.service,*)
(* bureaux.service, admin.service and the invitation endpoints of          *)
(* auth.service.  A handler checks, then awaits its database statements    *)
(* one after the other, without a transaction around them: the statements  *)
(* of two requests interleave, and the process may stop between two.       *)
(*                                                                         *)
(* One organisation; of the others only whether an account has a User row  *)
(* there too.  The caller's own rights come from the token (see Comptes)   *)
(* and are left out, except where a handler compares the caller with the   *)
(* owner.  Handlers of one statement are one step; names, photos, order,   *)
(* internal roles, mails and notifications are left out.                   *)
(***************************************************************************)
EXTENDS Naturals, Sequences, FiniteSets

CONSTANTS
    User,          \* people: their account, and their User row here
    Fondateur,     \* who registered the organisation
    Depart,        \* what there may be at the start: the other members, the
                   \* accounts with a User row elsewhere; and as bounds the
                   \* offices, the addresses, the people invited to offices and
                   \* the operations that ever come into play
    Requete,       \* requests that may be in hand at the same time
    MaxIdentite,   \* identities of offices, that TLC may use at a time
    MaxBureaux,    \* MAX_BUREAUX_PAR_ORGANISATION
    Nul

Bureau == 1..MaxIdentite
RoleGlobal == {"ADMIN", "MANAGER", "MEMBRE"}
LectureDabord == <<"lireBureaux", "ecrireRole", "adherer">>   \* mutant: offices read first
Promotion == <<"ecrireRole", "lireBureaux", "adherer">>
Creation == <<"creerBureau", "lireAdmins", "adherer", "creerOrganizer">>
RetraitSeul == <<"supprimerUser">>                    \* mutant: the account stays
Retrait == <<"supprimerUser", "compterRestants", "supprimerCompte">>
Rattachement == <<"creerUser", "creerPersonnel">>

(* The statements of each handler after its checks. *)
Programme == [
    creerBureau      |-> Creation,
    promouvoir       |-> Promotion,
    changerRole      |-> <<"ecrireRole">>,
    transferer       |-> <<"ecrireProprietaire">>,
    transfererPromu  |-> <<"ecrireProprietaire">> \o Promotion,
    retirer          |-> Retrait,
    retirerAilleurs  |-> <<"quitterAilleurs", "compterRestants", "supprimerCompte">>,
    ajouter          |-> Rattachement,
    accepter         |-> <<"creerCompte">> \o Rattachement]

Operation == DOMAIN Programme

ASSUME MembresAssumption ==
    /\ Fondateur \in User
    /\ \A d \in Depart : /\ d.membres \subseteq User /\ d.ailleurs \subseteq User
                         /\ d.bureaux \in 0..MaxIdentite /\ d.adresses \subseteq User
                         /\ d.conviables \subseteq User /\ d.operations \subseteq Operation
    /\ MaxBureaux \in Nat \ {0}
    /\ MaxIdentite \in Nat /\ Nul \notin User /\ Nul \notin 0..MaxIdentite
    /\ User \cap (0..MaxIdentite) = {}
    /\ IsFiniteSet(Requete) /\ Requete # {}

VARIABLES
    comptes,       \* accounts
    users,         \* accounts with a User row here
    ailleurs,      \* accounts with a User row in another organisation
    role,          \* role_global
    proprietaire,  \* organisation.proprietaireId: no foreign key
    bureaux,       \* offices
    adhesions,     \* UserBureau rows
    invitations,   \* BureauInvitation rows
    invites,       \* pending Invitation rows, by e-mail address
    organizers,    \* offices and users that have their Organizer
    requetes,      \* per request: what it does, what it read, what is left
    manques,       \* memberships and Organizers (<<Nul, b>>) lost, or taken
                   \* away on purpose (history)
    orphelins,     \* accounts a cut or refused request left behind (history)
    bornes,        \* the bounds taken from Depart
    croise         \* a transfer of ownership has met another request (history)

lignes == <<comptes, users, ailleurs, role, proprietaire, bureaux, adhesions,
            invitations, invites, organizers, bornes>>
vars == <<comptes, users, ailleurs, role, proprietaire, bureaux, adhesions,
          invitations, invites, organizers, requetes, manques, orphelins, bornes, croise>>

-----------------------------------------------------------------------------
Transferts == {"transferer", "transfererPromu"}

Libre == [op |-> "aucune", u |-> Nul, r |-> Nul, b |-> Nul, lu |-> {}, reste |-> << >>]
Occupee(x) == requetes[x] # Libre
SansOrganizer(b) == {Nul} \X ({b} \cap bureaux)
AucuneEnMain == \A x \in Requete : ~Occupee(x)
Reste(x, i) == \E k \in 1..Len(requetes[x].reste) : requetes[x].reste[k] = i

Init ==
    /\ \E d \in Depart :
          /\ users = {Fondateur} \cup d.membres /\ ailleurs = d.ailleurs
          /\ comptes = users \cup ailleurs
          /\ bornes = [bureaux |-> d.bureaux, adresses |-> d.adresses,
                     conviables |-> d.conviables, operations |-> d.operations]
    /\ role = [u \in User |-> IF u = Fondateur THEN "ADMIN" ELSE "MEMBRE"]
    /\ proprietaire = Fondateur
    /\ bureaux = {} /\ adhesions = {} /\ invitations = {} /\ invites = {}
    /\ organizers = users
    /\ requetes = [x \in Requete |-> Libre]
    /\ manques = {} /\ orphelins = {} /\ croise = FALSE

-----------------------------------------------------------------------------
(* The checks. *)

(* bureaux.create(): the count, and the row much later. *)
PlaceLibre == Cardinality(bureaux) < MaxBureaux

(* A row gets an identity no row or request has (the least, of no matter). *)
Pris == bureaux \cup UNION {{requetes[x].b} \cup {m[2] : m \in requetes[x].lu} : x \in Requete}
IdentiteNeuve(b) ==
    /\ b \in 1..bornes.bureaux \ Pris
    /\ 1..(b - 1) \subseteq Pris

CibleQuelconque(u) == u \in users                     \* mutant: the owner not refused
Cible(u) == u \in users \ {proprietaire}

Convient(op, u, r, b) ==
    \/ op = "creerBureau" /\ u = Nul /\ r = Nul /\ b # Nul /\ PlaceLibre /\ IdentiteNeuve(b)
    \/ /\ b = Nul
       /\ \/ op = "promouvoir" /\ u \in users /\ r = "ADMIN"
          \/ op = "changerRole" /\ Cible(u) /\ r \in RoleGlobal \ {"ADMIN"}
          \/ /\ op = "transferer" /\ proprietaire \in users /\ Cible(u)
             /\ role[u] = "ADMIN" /\ r = Nul
          \/ /\ op = "transfererPromu" /\ proprietaire \in users /\ Cible(u)
             /\ role[u] # "ADMIN" /\ r = "ADMIN"
          \/ op = "retirer" /\ Cible(u) /\ r = Nul
          \/ op = "retirerAilleurs" /\ u \in ailleurs /\ r = Nul
          \/ op = "ajouter" /\ u \in comptes \ users /\ r = "MEMBRE"
          \/ op = "accepter" /\ u \in invites \ users /\ r = "MEMBRE"

Permise(op, u, r, b) ==
    /\ op \in bornes.operations
    /\ Convient(op, u, r, b)

(* A transfer and a request on roles or members read each other's rows.     *)
Concerne(op) == op \in {"promouvoir", "changerRole", "retirer", "retirerAilleurs"} \cup Transferts
Rencontre(op) ==
    \/ op \in Transferts /\ \E x \in Requete : Occupee(x) /\ Concerne(requetes[x].op)
    \/ Concerne(op) /\ \E x \in Requete : Occupee(x) /\ requetes[x].op \in Transferts

Charger(x, op, u, r, b) ==
    /\ ~Occupee(x)
    /\ Permise(op, u, r, b)
    /\ requetes' = [requetes EXCEPT ![x] =
          [op |-> op, u |-> u, r |-> r, b |-> b, lu |-> {},
           reste |-> IF op = "accepter" /\ u \in comptes THEN Rattachement ELSE Programme[op]]]
    /\ croise' = (croise \/ Rencontre(op))
    /\ UNCHANGED <<lignes, manques, orphelins>>

-----------------------------------------------------------------------------
(* The statements. *)

Attend(x, i) == Occupee(x) /\ Head(requetes[x].reste) = i
Terminer(x) == requetes' = [requetes EXCEPT ![x] = Libre]
Poursuivre(x) ==
    IF Len(requetes[x].reste) = 1 THEN Terminer(x)
    ELSE requetes' = [requetes EXCEPT ![x].reste = Tail(@)]
Lire(x, s) == requetes' = [requetes EXCEPT ![x].lu = s, ![x].reste = Tail(@)]

EcrireRole(x) ==
    LET q == requetes[x]
    IN  /\ Attend(x, "ecrireRole")
        /\ IF q.u \in users
           THEN /\ role' = [role EXCEPT ![q.u] = q.r]
                /\ manques' = manques \ ({q.u} \X Bureau)
                /\ Poursuivre(x)
           ELSE Terminer(x) /\ UNCHANGED <<role, manques>>
        /\ UNCHANGED <<comptes, users, ailleurs, proprietaire, bureaux, adhesions, invitations,
                       invites, organizers, orphelins, croise, bornes>>

EcrireProprietaire(x) ==
    /\ Attend(x, "ecrireProprietaire")
    /\ proprietaire' = requetes[x].u
    /\ Poursuivre(x)
    /\ UNCHANGED <<comptes, users, ailleurs, role, bureaux, adhesions, invitations, invites,
                   organizers, manques, orphelins, croise, bornes>>

CreerBureau(x) ==
    /\ Attend(x, "creerBureau")
    /\ bureaux' = bureaux \cup {requetes[x].b}
    /\ Poursuivre(x)
    /\ UNCHANGED <<comptes, users, ailleurs, role, proprietaire, adhesions, invitations, invites,
                   organizers, manques, orphelins, croise, bornes>>

Admins == {u \in users : role[u] = "ADMIN"}

LireAdmins(x) ==
    /\ Attend(x, "lireAdmins")
    /\ Lire(x, Admins \X {requetes[x].b})
    /\ UNCHANGED <<lignes, manques, orphelins, croise>>

LireBureaux(x) ==
    /\ Attend(x, "lireBureaux")
    /\ Lire(x, {requetes[x].u} \X bureaux)
    /\ UNCHANGED <<lignes, manques, orphelins, croise>>

Existent(q) == q.lu \subseteq users \X bureaux

(* createMany(skipDuplicates): all the rows, or none if one of them names  *)
(* a user or an office that is gone.                                       *)
Adherer(x) ==
    LET q == requetes[x]
        refuse == ~Existent(q)
    IN  /\ Attend(x, "adherer")
        /\ adhesions' = IF refuse THEN adhesions ELSE adhesions \cup q.lu
        /\ manques' = IF refuse
                      THEN manques \cup (q.lu \cap (Admins \X bureaux))
                                   \cup (IF Reste(x, "creerOrganizer") THEN SansOrganizer(q.b) ELSE {})
                      ELSE manques \ q.lu
        /\ IF refuse \/ Len(q.reste) = 1 THEN Terminer(x) ELSE Lire(x, {})
        /\ UNCHANGED <<comptes, users, ailleurs, role, proprietaire, bureaux, invitations, invites,
                       organizers, orphelins, croise, bornes>>

(* The daily jobs are scheduled first: without Redis the handler fails     *)
(* there, and the office stays without its Organizer.                      *)
CreerOrganizer(x) ==
    LET b == requetes[x].b
    IN  /\ Attend(x, "creerOrganizer")
        /\ \/ b \in bureaux /\ organizers' = organizers \cup {b} /\ UNCHANGED manques
           \/ manques' = manques \cup SansOrganizer(b) /\ UNCHANGED organizers
        /\ Poursuivre(x)
        /\ UNCHANGED <<comptes, users, ailleurs, role, proprietaire, bureaux, adhesions,
                       invitations, invites, orphelins, croise, bornes>>

CreerCompte(x) ==
    LET u == requetes[x].u
    IN  /\ Attend(x, "creerCompte")
        /\ IF u \in comptes THEN Terminer(x) ELSE Poursuivre(x)
        /\ comptes' = comptes \cup {u}
        /\ UNCHANGED <<users, ailleurs, role, proprietaire, bureaux, adhesions, invitations,
                       invites, organizers, manques, orphelins, croise, bornes>>

(* The User row, unique per account and organisation; accepting an         *)
(* invitation also closes it, in one transaction, or undoes both.          *)
CreerUser(x) ==
    LET q == requetes[x]
        refuse == \/ q.u \notin comptes \/ q.u \in users
                  \/ q.op = "accepter" /\ q.u \notin invites
    IN  /\ Attend(x, "creerUser")
        /\ IF refuse
           THEN /\ orphelins' = orphelins \cup {q.u}
                /\ Terminer(x)
                /\ UNCHANGED <<users, role, invites>>
           ELSE /\ users' = users \cup {q.u}
                /\ role' = [role EXCEPT ![q.u] = q.r]
                /\ invites' = IF q.op = "accepter" THEN invites \ {q.u} ELSE invites
                /\ orphelins' = orphelins \ {q.u}
                /\ Poursuivre(x)
        /\ UNCHANGED <<comptes, ailleurs, proprietaire, bureaux, adhesions, invitations,
                       organizers, manques, croise, bornes>>

CreerPersonnel(x) ==
    LET u == requetes[x].u
    IN  /\ Attend(x, "creerPersonnel")
        /\ organizers' = IF u \in users THEN organizers \cup {u} ELSE organizers
        /\ Poursuivre(x)
        /\ UNCHANGED <<comptes, users, ailleurs, role, proprietaire, bureaux, adhesions,
                       invitations, invites, manques, orphelins, croise, bornes>>

(* The User row goes with its memberships, invitations and Organizer. *)
SansUser(u) ==
    /\ users' = users \ {u}
    /\ role' = [role EXCEPT ![u] = "MEMBRE"]     \* of the row a new member gets
    /\ adhesions' = {p \in adhesions : p[1] # u}
    /\ invitations' = {p \in invitations : p[1] # u}
    /\ organizers' = organizers \ {u}
    /\ manques' = {m \in manques : m[1] # u}

SupprimerUser(x) ==
    LET u == requetes[x].u
    IN  /\ Attend(x, "supprimerUser")
        /\ IF u \in users
           THEN SansUser(u) /\ Poursuivre(x)
           ELSE Terminer(x) /\ UNCHANGED <<users, role, adhesions, invitations, organizers, manques>>
        /\ UNCHANGED <<comptes, ailleurs, proprietaire, bureaux, invites, orphelins, croise, bornes>>

QuitterAilleurs(x) ==
    LET u == requetes[x].u
    IN  /\ Attend(x, "quitterAilleurs")
        /\ ailleurs' = ailleurs \ {u}
        /\ IF u \in ailleurs THEN Poursuivre(x) ELSE Terminer(x)
        /\ UNCHANGED <<comptes, users, role, proprietaire, bureaux, adhesions, invitations,
                       invites, organizers, manques, orphelins, croise, bornes>>

AucunRestant(u) == u \notin users \cup ailleurs

CompterRestants(x) ==
    /\ Attend(x, "compterRestants")
    /\ IF AucunRestant(requetes[x].u) THEN Poursuivre(x) ELSE Terminer(x)
    /\ UNCHANGED <<lignes, manques, orphelins, croise>>

(* Deleting the account deletes every User row it may have got since.      *)
SansCompte(u) ==
    /\ comptes' = comptes \ {u}
    /\ ailleurs' = ailleurs \ {u}
    /\ orphelins' = orphelins \ {u}
    /\ SansUser(u)

SupprimerCompte(x) ==
    LET u == requetes[x].u
    IN  /\ Attend(x, "supprimerCompte")
        /\ SansCompte(u)
        /\ croise' = (croise \/ u = proprietaire)
        /\ Terminer(x)
        /\ UNCHANGED <<proprietaire, bureaux, invites, bornes>>

Statement(x) ==
    \/ EcrireRole(x)
    \/ EcrireProprietaire(x)
    \/ CreerBureau(x)
    \/ LireAdmins(x)
    \/ LireBureaux(x)
    \/ Adherer(x)
    \/ CreerOrganizer(x)
    \/ CreerCompte(x)
    \/ CreerUser(x)
    \/ CreerPersonnel(x)
    \/ SupprimerUser(x)
    \/ QuitterAilleurs(x)
    \/ CompterRestants(x)
    \/ SupprimerCompte(x)

-----------------------------------------------------------------------------
(* Handlers whose effect is one statement or one transaction. *)

horsAdhesions == <<comptes, users, ailleurs, role, proprietaire, bureaux, invites, organizers,
                   requetes, orphelins, bornes, croise>>

InviterAuBureau(u, b) ==
    /\ u \in users \cap bornes.conviables /\ b \in bureaux
    /\ <<u, b>> \notin adhesions \cup invitations
    /\ invitations' = invitations \cup {<<u, b>>}
    /\ UNCHANGED <<adhesions, manques, horsAdhesions>>

(* Accepting inserts the membership: it fails for who is already a member. *)
AccepterAuBureau(u, b) ==
    /\ <<u, b>> \in invitations /\ <<u, b>> \notin adhesions
    /\ adhesions' = adhesions \cup {<<u, b>>}
    /\ invitations' = invitations \ {<<u, b>>}
    /\ manques' = manques \ {<<u, b>>}
    /\ UNCHANGED horsAdhesions

(* declineInvitation(), cancelInvitation() *)
OublierInvitation(u, b) ==
    /\ <<u, b>> \in invitations
    /\ invitations' = invitations \ {<<u, b>>}
    /\ UNCHANGED <<adhesions, manques, horsAdhesions>>

QuitterBureau(u, b) ==
    /\ <<u, b>> \in adhesions
    /\ adhesions' = adhesions \ {<<u, b>>}
    /\ manques' = manques \cup ({<<u, b>>} \cap (Admins \X bureaux))
    /\ UNCHANGED <<invitations, horsAdhesions>>

SupprimerBureau(b) ==
    /\ b \in bureaux
    /\ bureaux' = bureaux \ {b}
    /\ adhesions' = {p \in adhesions : p[2] # b}
    /\ invitations' = {p \in invitations : p[2] # b}
    /\ organizers' = organizers \ {b}
    /\ manques' = {m \in manques : m[2] # b}
    /\ UNCHANGED <<comptes, users, ailleurs, role, proprietaire, invites, requetes, orphelins, croise, bornes>>

(* organisation.addMembre() for an address without account. *)
Inviter(u) ==
    /\ u \in bornes.adresses \ (comptes \cup invites)
    /\ invites' = invites \cup {u}
    /\ UNCHANGED <<comptes, users, ailleurs, role, proprietaire, bureaux, adhesions, invitations,
                   organizers, requetes, manques, orphelins, croise, bornes>>

(* cancelInvitation(), declineInvitation(), or seven days. *)
Desinviter(u) ==
    /\ u \in invites
    /\ invites' = invites \ {u}
    /\ UNCHANGED <<comptes, users, ailleurs, role, proprietaire, bureaux, adhesions, invitations,
                   organizers, requetes, manques, orphelins, croise, bornes>>

(* register(), createOrganisation() of somebody: a User row elsewhere. *)
Inscrire(u) ==
    /\ u \in bornes.adresses \ ailleurs
    /\ comptes' = comptes \cup {u}
    /\ ailleurs' = ailleurs \cup {u}
    /\ orphelins' = orphelins \ {u}
    /\ UNCHANGED <<users, role, proprietaire, bureaux, adhesions, invitations, invites,
                   organizers, requetes, manques, croise, bornes>>

(* admin.deleteAccount(). *)
SupprimerCompteAdmin(u) ==
    /\ u \in comptes
    /\ SansCompte(u)
    /\ croise' = (croise \/ u = proprietaire
                   \/ \E x \in Requete : Occupee(x) /\ requetes[x].op \in Transferts)
    /\ UNCHANGED <<proprietaire, bureaux, invites, requetes, bornes>>

(* The process stops: what a request had still to write is lost. *)
Arret ==
    /\ ~AucuneEnMain
    /\ manques' = manques \cup UNION
         {(IF Reste(x, "lireBureaux") THEN ({requetes[x].u} \cap Admins) \X bureaux ELSE {})
          \cup (IF Reste(x, "lireAdmins") THEN Admins \X ({requetes[x].b} \cap bureaux) ELSE {})
          \cup (IF Reste(x, "creerOrganizer") THEN SansOrganizer(requetes[x].b) ELSE {})
          \cup (requetes[x].lu \cap (Admins \X bureaux)) : x \in {y \in Requete : Occupee(y)}}
    /\ orphelins' = orphelins \cup {requetes[x].u : x \in {y \in Requete :
         Occupee(y) /\ (Reste(y, "creerUser") \/ Reste(y, "supprimerCompte"))}}
    /\ croise' = (croise \/ \E x \in Requete : Occupee(x) /\ requetes[x].op \in Transferts)
    /\ requetes' = [x \in Requete |-> Libre]
    /\ UNCHANGED lignes

-----------------------------------------------------------------------------
Recevoir(x) ==
    \E op \in Operation, u \in User \cup {Nul}, r \in RoleGlobal \cup {Nul},
       b \in Bureau \cup {Nul} : Charger(x, op, u, r, b)

Immediat ==
    \/ \E u \in User, b \in Bureau : InviterAuBureau(u, b)
    \/ \E u \in User, b \in Bureau : AccepterAuBureau(u, b)
    \/ \E u \in User, b \in Bureau : OublierInvitation(u, b)
    \/ \E u \in User, b \in Bureau : QuitterBureau(u, b)
    \/ \E b \in Bureau : SupprimerBureau(b)
    \/ \E u \in User : Inviter(u)
    \/ \E u \in User : Desinviter(u)
    \/ \E u \in User : Inscrire(u)
    \/ \E u \in User : SupprimerCompteAdmin(u)

Next ==
    \/ \E x \in Requete : Recevoir(x)
    \/ \E x \in Requete : Statement(x)
    \/ Immediat
    \/ Arret

Spec == Init /\ [][Next]_vars

-----------------------------------------------------------------------------
(* Properties. *)

Instruction == UNION {{Programme[op][k] : k \in 1..Len(Programme[op])} : op \in Operation}

TypeOK ==
    /\ users \subseteq comptes /\ ailleurs \subseteq comptes /\ comptes \subseteq User
    /\ role \in [User -> RoleGlobal] /\ proprietaire \in User
    /\ bureaux \subseteq Bureau
    /\ adhesions \subseteq users \X bureaux /\ invitations \subseteq users \X bureaux
    /\ invites \subseteq User /\ organizers \subseteq users \cup bureaux
    /\ \A x \in Requete : Occupee(x) =>
          /\ requetes[x].op \in Operation
          /\ requetes[x].u \in User \cup {Nul} /\ requetes[x].r \in RoleGlobal \cup {Nul}
          /\ requetes[x].b \in Bureau \cup {Nul} /\ requetes[x].lu \subseteq User \X Bureau
          /\ requetes[x].reste \in Seq(Instruction) /\ requetes[x].reste # << >>
    /\ manques \subseteq (User \cup {Nul}) \X Bureau
    /\ orphelins \subseteq User /\ croise \in BOOLEAN

(* Somebody is about to add u to b. *)
EnCours(u, b) ==
    \E x \in Requete : Occupee(x) /\
        \/ requetes[x].u = u /\ Reste(x, "lireBureaux")
        \/ requetes[x].b = b /\ Reste(x, "lireAdmins")
        \/ <<u, b>> \in requetes[x].lu /\ Reste(x, "adherer")

(* Every admin is a member of every office ("sans cette ligne il resterait *)
(* invisible dans les listes de membres"), also when the office is created *)
(* while the person is promoted: each of the two handlers writes its row   *)
(* before it reads the other's, so that one of them sees the other.  The   *)
(* exceptions are removals on purpose and requests that were cut short.    *)
AdminsPartout ==
    \A u \in Admins, b \in bureaux :
        <<u, b>> \in adhesions \/ EnCours(u, b) \/ <<u, b>> \in manques

(* The limit of offices is checked before the row is created: requests     *)
(* that overlap can exceed it, by one less than there are of them, however *)
(* long it goes on.                                                        *)
BureauxBornes ==
    Cardinality(bureaux) + Cardinality({x \in Requete : Attend(x, "creerBureau")})
        <= MaxBureaux + Cardinality(Requete) - 1

(* An office always has its Organizer (its page cannot be opened without), *)
(* except after a request that failed or was cut in between.               *)
OrganizerPresent ==
    \A b \in bureaux :
        b \in organizers \/ <<Nul, b>> \in manques \/ \E x \in Requete : requetes[x].b = b

(* What holds of every office, whatever requests overlap. *)
BureauxEnRegle == AdminsPartout /\ OrganizerPresent /\ BureauxBornes

(* The owner is a member, and an admin or about to be: roles, removals and *)
(* transfers one after the other never take that away.  The owner's column *)
(* has no foreign key, and each handler reads it before it writes.         *)
ProprietaireAutorite ==
    ~croise =>
        /\ proprietaire \in users
        /\ \/ role[proprietaire] = "ADMIN"
           \/ \E x \in Requete : requetes[x].u = proprietaire /\ Reste(x, "ecrireRole")

(* An account without any organisation is deleted with its last membership,*)
(* whichever of two organisations removes it first; only a request cut     *)
(* short or an invitation withdrawn during its acceptance leaves one.      *)
CompteRattache ==
    \A c \in comptes :
        \/ c \in users \cup ailleurs \cup orphelins
        \/ \E x \in Requete : requetes[x].u = c /\ (Reste(x, "supprimerCompte") \/ Reste(x, "creerUser"))

================================================================================
