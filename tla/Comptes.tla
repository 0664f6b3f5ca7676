-------------------------------- MODULE Comptes --------------------------------
(***************************************************************************)
(* The sessions of one account: the refresh token rows of the API          *)
(* (auth.service.ts) and the web client that shares one pair of tokens     *)
(* between its tabs (lib/api.ts, auth-context.tsx, socket.ts).  A call is  *)
(* sent with the pair in localStorage; a 401 has the tab renew the pair    *)
(* once for all its waiting calls, then the call is sent again.  Renewing  *)
(* takes several statements of the API, outside of a transaction.  A tab   *)
(* may have any of its calls in hand at the same time: its page's own, a   *)
(* login, a switch, a logout.  A switch stores its pair and leaves the     *)
(* page; until the browser has left it, the page's calls go on.            *)
(*                                                                         *)
(* The account has one User row per organisation; tokens name one of them. *)
(* bcrypt compares 72 bytes, and in them all refresh tokens of one User    *)
(* agree: findMatchingToken() finds any live row of that User, whichever   *)
(* token is presented.  Passwords, codes and mails only decide who may log *)
(* in; they are left out, as are the role and the expiry instants.         *)
(***************************************************************************)
EXTENDS Naturals, FiniteSets

CONSTANTS
    Membre,            \* the account's User rows, one per organisation
    Navigateur,        \* browsers: one localStorage each
    Onglet,            \* tabs
    Appel,             \* calls a tab may have in hand at the same time
    NavigateurDe,      \* the browser of a tab
    OngletDe,          \* the tab of a call
    Depart,            \* what there may be at the start: User rows, open tabs,
                       \* and two bounds: how many revocations (restarts of the
                       \* API included) and network failures are to come
    Nul,
    MaxLignes          \* bound: refresh token rows told apart, per User

ASSUME ComptesAssumption ==
    /\ NavigateurDe \in [Onglet -> Navigateur] /\ OngletDe \in [Appel -> Onglet]
    /\ \A d \in Depart : /\ d.membres \subseteq Membre /\ d.onglets \subseteq Onglet
                         /\ d.revocations \in Nat /\ d.pannes \in Nat
    /\ MaxLignes \in Nat \ {0}
    /\ Nul \notin Membre \cup (Membre \X (1..MaxLignes))

VARIABLES
    lignes,        \* the live refresh token rows
    membres,       \* User rows that exist
    ouverts,       \* the tabs that are open
    banni,         \* account.banned
    stockage,      \* localStorage, per browser
    ecran,         \* the user a tab shows (AuthProvider)
    appels,        \* the calls in hand
    renouvellement,\* refreshPromise of each tab, and what the API does for it
    revocations, pannes,   \* still to come
    rompu,         \* a session has been ended or an answer cut short (history)
    substitue      \* a browser's pair was replaced while another tab went by
                   \* another user, or by a login while calls of the tab did (history)

serveur == <<lignes, membres, banni, ouverts>>
bornes == <<revocations, pannes>>
vars == <<lignes, membres, banni, ouverts, stockage, ecran, appels, renouvellement,
          revocations, pannes, rompu, substitue>>

-----------------------------------------------------------------------------
Ligne == Membre \X (1..MaxLignes)
Age == {"valide", "accesExpire", "expire"}
Paire == [m : Membre, age : Age]
Quoi == {"aucun", "rest", "moi", "connexion", "bascule", "deconnexion"}
Phase == {"libre", "envoye", "attend", "renvoye", "recu", "quitte",
          "chercher", "revoquer", "effacer"}
Etape == {"aucune", "chercher", "revoquer", "creer", "reponse", "echec"}

Libre == [quoi |-> "aucun", phase |-> "libre", paire |-> Nul, ligne |-> Nul]
Repos == [etape |-> "aucune", paire |-> Nul, ligne |-> Nul]

Nav(a) == NavigateurDe[OngletDe[a]]
AppelsDe(o) == {a \in Appel : OngletDe[a] = o}
Occupe(a) == appels[a].phase # "libre"
Renouvelle(o) == renouvellement[o].etape # "aucune"

LignesDe(m) == {l \in lignes : l[1] = m}
Neuve(m) == [m |-> m, age |-> "valide"]

(* Rows some request is about to revoke: their uuid is not given again. *)
Designees == {appels[a].ligne : a \in Appel} \cup {renouvellement[o].ligne : o \in Onglet}

(* issueTokens(): a further row.  Beyond MaxLignes they are not counted.   *)
LignesAvec(m) ==
    LET libres == {k \in 1..MaxLignes : <<m, k>> \notin lignes \cup Designees}
    IN  IF libres = {} THEN lignes
        ELSE lignes \cup {<<m, CHOOSE k \in libres : \A j \in libres : k <= j>>}

Init ==
    /\ lignes = {} /\ banni = FALSE
    /\ \E d \in Depart : /\ membres = d.membres /\ ouverts = d.onglets
                         /\ revocations = d.revocations /\ pannes = d.pannes
    /\ stockage = [n \in Navigateur |-> Nul]
    /\ ecran = [o \in Onglet |-> Nul]
    /\ appels = [a \in Appel |-> Libre]
    /\ renouvellement = [o \in Onglet |-> Repos]
    /\ rompu = FALSE /\ substitue = [n \in Navigateur |-> FALSE]

-----------------------------------------------------------------------------
(* The tab: what it starts. *)

En(a, quoi, phase, paire) ==
    appels' = [appels EXCEPT ![a] = [quoi |-> quoi, phase |-> phase,
                                     paire |-> paire, ligne |-> Nul]]
Finir(a) == appels' = [appels EXCEPT ![a] = Libre]

(* The switch has stored its pair: the page is being left. *)
Quittee(o) == \E a \in AppelsDe(o) : appels[a].phase = "quitte"

(* authorizedFetch() reads the pair first; without one it throws. *)
Appeler(a) ==
    /\ ~Occupe(a)
    /\ ecran[OngletDe[a]] # Nul /\ stockage[Nav(a)] # Nul
    /\ En(a, "rest", "envoye", stockage[Nav(a)])
    /\ UNCHANGED <<serveur, stockage, ecran, renouvellement, bornes, rompu, substitue>>

(* Opening or reloading a tab: what it had in hand is forgotten, and       *)
(* AuthProvider.refresh() asks who is logged in.  (What the API has begun  *)
(* for the tab it ends: the reload is seen after that.)                    *)
SansServeur(o) ==
    /\ renouvellement[o].etape \in {"aucune", "chercher", "reponse", "echec"}
    /\ \A a \in AppelsDe(o) : appels[a].phase # "revoquer"
Seul(a, quoi, phase, paire) ==
    appels' = [b \in Appel |->
                 IF b = a /\ paire # Nul
                 THEN [quoi |-> quoi, phase |-> phase, paire |-> paire, ligne |-> Nul]
                 ELSE IF b \in AppelsDe(OngletDe[a]) THEN Libre ELSE appels[b]]

Recharger(a) ==
    LET o == OngletDe[a]
    IN  /\ ~Occupe(a) /\ o \in ouverts
        /\ SansServeur(o)
        /\ Seul(a, "moi", "envoye", stockage[Nav(a)])
        /\ renouvellement' = [renouvellement EXCEPT ![o] = Repos]
        /\ ecran' = [ecran EXCEPT ![o] = Nul]
        /\ UNCHANGED <<serveur, stockage, bornes, rompu, substitue>>

(* The login form: login(), verifyOtp(), acceptInvitation() and the OAuth  *)
(* callback all end in issueTokens(), whose row is the first effect of the *)
(* request; login() does not look at a ban.  The form is there whoever the *)
(* tab shows.                                                              *)
Connecter(a, m) ==
    /\ ~Occupe(a)
    /\ OngletDe[a] \in ouverts
    /\ m \in membres
    /\ lignes' = LignesAvec(m)
    /\ En(a, "connexion", "recu", Neuve(m))
    /\ UNCHANGED <<membres, banni, ouverts, stockage, ecran, renouvellement, bornes, rompu, substitue>>

(* The organisation switcher, or a new organisation. *)
Basculer(a) ==
    /\ ~Occupe(a)
    /\ ecran[OngletDe[a]] # Nul /\ stockage[Nav(a)] # Nul
    /\ membres \ {ecran[OngletDe[a]]} # {}
    /\ En(a, "bascule", "envoye", stockage[Nav(a)])
    /\ UNCHANGED <<serveur, stockage, ecran, renouvellement, bornes, rompu, substitue>>

(* logout(), from the menu or after five hours without activity. *)
Deconnecter(a) ==
    /\ ~Occupe(a)
    /\ ecran[OngletDe[a]] # Nul
    /\ En(a, "deconnexion", IF stockage[Nav(a)] = Nul THEN "effacer" ELSE "chercher",
          stockage[Nav(a)])
    /\ rompu' = TRUE
    /\ UNCHANGED <<serveur, stockage, ecran, renouvellement, bornes, substitue>>

-----------------------------------------------------------------------------
(* What the answers do. *)

Vide(n) == stockage' = [stockage EXCEPT ![n] = Nul]
Depose(n, m) == stockage' = [stockage EXCEPT ![n] = Neuve(m)]

(* What a tab has in hand goes by the pairs of one user. *)
VaAvec(o, m) ==
    /\ Renouvelle(o) => renouvellement[o].paire.m = m
    /\ \A a \in AppelsDe(o) : appels[a].phase \in {"envoye", "renvoye"} => appels[a].paire.m = m

(* Another tab of the browser, which is not being left, goes by another    *)
(* user than the one whose pair tab o stores.                              *)
AilleursUnAutre(o, m) ==
    \E q \in Onglet \ {o} : /\ NavigateurDe[q] = NavigateurDe[o] /\ ~Quittee(q)
                            /\ ~(VaAvec(q, m) /\ ecran[q] \in {Nul, m})
Remplacement(o, constat) == substitue' = [substitue EXCEPT ![NavigateurDe[o]] = @ \/ constat]

(* getMe() failed, whatever the reason: the pair is thrown away. *)
MoiEchoue(a) ==
    /\ Vide(Nav(a))
    /\ ecran' = [ecran EXCEPT ![OngletDe[a]] = Nul]

Admis(p) == ~banni /\ p.age = "valide"      \* JwtStrategy.validate()

Accepte(a) ==
    /\ appels[a].phase \in {"envoye", "renvoye"}
    /\ Admis(appels[a].paire)
    /\ \/ /\ appels[a].quoi = "rest"
          /\ Finir(a)
          /\ UNCHANGED <<lignes, stockage, ecran>>
       \/ /\ appels[a].quoi = "moi"
          /\ Finir(a)
          /\ IF appels[a].paire.m \in membres
             THEN /\ ecran' = [ecran EXCEPT ![OngletDe[a]] = appels[a].paire.m]
                  /\ UNCHANGED stockage
             ELSE MoiEchoue(a)
          /\ UNCHANGED lignes
       \/ /\ appels[a].quoi = "bascule"
          /\ \E m \in membres \ {appels[a].paire.m} :
                lignes' = LignesAvec(m) /\ En(a, "bascule", "recu", Neuve(m))
          /\ UNCHANGED <<stockage, ecran>>
       \/ /\ appels[a].quoi = "bascule"
          /\ membres \subseteq {appels[a].paire.m}
          /\ Finir(a)
          /\ UNCHANGED <<lignes, stockage, ecran>>
    /\ UNCHANGED <<membres, banni, ouverts, renouvellement, bornes, rompu, substitue>>

(* A first 401: wait for the tab's renewal, and start it if there is none. *)
Refuse401(a) ==
    LET o == OngletDe[a]
    IN  /\ appels[a].phase = "envoye"
        /\ ~Admis(appels[a].paire)
        /\ appels' = [appels EXCEPT ![a].phase = "attend", ![a].paire = Nul]
        /\ renouvellement' =
             IF Renouvelle(o) THEN renouvellement
             ELSE [renouvellement EXCEPT ![o] = [etape |-> "chercher",
                                                 paire |-> appels[a].paire, ligne |-> Nul]]
        /\ UNCHANGED <<serveur, stockage, ecran, bornes, rompu, substitue>>

(* A second 401 is an error like any other. *)
Refuse401Encore(a) ==
    /\ appels[a].phase = "renvoye"
    /\ ~Admis(appels[a].paire)
    /\ Finir(a)
    /\ IF appels[a].quoi = "moi" THEN MoiEchoue(a) ELSE UNCHANGED <<stockage, ecran>>
    /\ UNCHANGED <<serveur, renouvellement, bornes, rompu, substitue>>

(* The network fails under a call: the first time the error passes, the    *)
(* second time it counts as the end of the session.                        *)
CoupureAppel(a) ==
    /\ appels[a].phase \in {"envoye", "renvoye"}
    /\ pannes > 0 /\ pannes' = pannes - 1
    /\ Finir(a)
    /\ IF appels[a].quoi = "moi" THEN MoiEchoue(a)
       ELSE /\ IF appels[a].phase = "renvoye" THEN Vide(Nav(a)) ELSE UNCHANGED stockage
            /\ UNCHANGED ecran
    /\ UNCHANGED <<serveur, renouvellement, revocations, rompu, substitue>>

(* The form stores the pair and asks who that is, on the same page; the    *)
(* switcher stores it and has the browser load the page anew.              *)
SansRechargement(a) ==                   \* mutant: a client-side navigation
    Finir(a)
ApresBascule(a) == En(a, "bascule", "quitte", Nul)

ApresConnexion(a) == En(a, "moi", "envoye", appels[a].paire)

Installer(a) ==
    LET o == OngletDe[a]
        m == appels[a].paire.m
    IN  /\ appels[a].phase = "recu"
        /\ Depose(Nav(a), m)
        /\ IF appels[a].quoi = "bascule"
           THEN ApresBascule(a) /\ Remplacement(o, AilleursUnAutre(o, m))
           ELSE ApresConnexion(a) /\ Remplacement(o, AilleursUnAutre(o, m) \/ ~VaAvec(o, m))
        /\ UNCHANGED <<serveur, ecran, renouvellement, bornes, rompu>>

(* The page is left: whatever it still had in hand goes with it, and the   *)
(* new one starts from the pair that is stored by then.                    *)
Partir(a) ==
    LET o == OngletDe[a]
    IN  /\ appels[a].phase = "quitte"
        /\ SansServeur(o)
        /\ Seul(a, "moi", "envoye", stockage[Nav(a)])
        /\ renouvellement' = [renouvellement EXCEPT ![o] = Repos]
        /\ ecran' = [ecran EXCEPT ![o] = Nul]
        /\ UNCHANGED <<serveur, stockage, bornes, rompu, substitue>>

CoupureReponse(a) ==
    /\ appels[a].phase = "recu"
    /\ pannes > 0 /\ pannes' = pannes - 1
    /\ Finir(a)
    /\ UNCHANGED <<serveur, stockage, ecran, renouvellement, revocations, rompu, substitue>>

-----------------------------------------------------------------------------
(* logout() *)

ChercherDeconnexion(a) ==
    /\ appels[a].phase = "chercher"
    /\ \/ \E l \in LignesDe(appels[a].paire.m) :
             /\ appels[a].paire.age # "expire"
             /\ appels' = [appels EXCEPT ![a].phase = "revoquer", ![a].ligne = l]
       \/ /\ LignesDe(appels[a].paire.m) = {} \/ appels[a].paire.age = "expire"
          /\ appels' = [appels EXCEPT ![a].phase = "effacer", ![a].paire = Nul]
    /\ UNCHANGED <<serveur, stockage, ecran, renouvellement, bornes, rompu, substitue>>

RevoquerDeconnexion(a) ==
    /\ appels[a].phase = "revoquer"
    /\ lignes' = lignes \ {appels[a].ligne}
    /\ appels' = [appels EXCEPT ![a].phase = "effacer", ![a].paire = Nul, ![a].ligne = Nul]
    /\ UNCHANGED <<membres, banni, ouverts, stockage, ecran, renouvellement, bornes, rompu, substitue>>

(* Whatever the API answered, or did not. *)
Effacer(a) ==
    /\ appels[a].phase = "effacer"
    /\ Vide(Nav(a))
    /\ ecran' = [ecran EXCEPT ![OngletDe[a]] = Nul]
    /\ Finir(a)
    /\ UNCHANGED <<serveur, renouvellement, bornes, rompu, substitue>>

-----------------------------------------------------------------------------
(* refreshOnce() and AuthService.refresh() *)

(* The API rejected the socket's token: the tab renews it. *)
RenouvelerPourSocket(o) ==
    /\ ecran[o] # Nul /\ stockage[NavigateurDe[o]] # Nul
    /\ ~Renouvelle(o)
    /\ renouvellement' = [renouvellement EXCEPT ![o] =
          [etape |-> "chercher", paire |-> stockage[NavigateurDe[o]], ligne |-> Nul]]
    /\ UNCHANGED <<serveur, stockage, ecran, appels, bornes, rompu, substitue>>

A(o, etape) == renouvellement' = [renouvellement EXCEPT ![o].etape = etape]

Chercher(o) ==
    /\ renouvellement[o].etape = "chercher"
    /\ \/ \E l \in LignesDe(renouvellement[o].paire.m) :
             /\ renouvellement[o].paire.age # "expire"
             /\ renouvellement' = [renouvellement EXCEPT ![o].etape = "revoquer", ![o].ligne = l]
       \/ /\ LignesDe(renouvellement[o].paire.m) = {} \/ renouvellement[o].paire.age = "expire"
          /\ A(o, "echec")
    /\ UNCHANGED <<serveur, stockage, ecran, appels, bornes, rompu, substitue>>

Revoquer(o) ==
    /\ renouvellement[o].etape = "revoquer"
    /\ lignes' = lignes \ {renouvellement[o].ligne}
    /\ renouvellement' = [renouvellement EXCEPT ![o].etape = "creer", ![o].ligne = Nul]
    /\ UNCHANGED <<membres, banni, ouverts, stockage, ecran, appels, bornes, rompu, substitue>>

(* The User is read again before the row is created: it may be gone.       *)
LignesNonRenouvelees(m) == lignes        \* mutant: revoked, nothing created
LignesRenouvelees(m) == LignesAvec(m)

Creer(o) ==
    LET m == renouvellement[o].paire.m
    IN  /\ renouvellement[o].etape = "creer"
        /\ lignes' = IF m \in membres THEN LignesRenouvelees(m) ELSE lignes
        /\ A(o, IF m \in membres THEN "reponse" ELSE "echec")
        /\ UNCHANGED <<membres, banni, ouverts, stockage, ecran, appels, bornes, rompu, substitue>>

(* Every call that shares the promise goes on with the new pair ... *)
PremierAttendant(o) ==                   \* mutant: the promise is not shared
    IF \E a \in AppelsDe(o) : appels[a].phase = "attend"
    THEN {CHOOSE a \in AppelsDe(o) : appels[a].phase = "attend"} ELSE {}
Attendants(o) == {a \in AppelsDe(o) : appels[a].phase = "attend"}

Resoudre(o) ==
    LET p == Neuve(renouvellement[o].paire.m)
    IN  /\ renouvellement[o].etape = "reponse"
        /\ Depose(NavigateurDe[o], p.m)
        /\ Remplacement(o, AilleursUnAutre(o, p.m))
        /\ renouvellement' = [renouvellement EXCEPT ![o] = Repos]
        /\ appels' = [a \in Appel |->
                        IF a \in Attendants(o)
                        THEN [appels[a] EXCEPT !.phase = "renvoye", !.paire = p]
                        ELSE appels[a]]
        /\ UNCHANGED <<serveur, ecran, bornes, rompu>>

(* ... or throws the pair away; the socket alone leaves it. *)
Rejeter(o) ==
    /\ renouvellement[o].etape = "echec"
    /\ renouvellement' = [renouvellement EXCEPT ![o] = Repos]
    /\ IF Attendants(o) # {} THEN Vide(NavigateurDe[o]) ELSE UNCHANGED stockage
    /\ ecran' = [ecran EXCEPT ![o] =
                   IF \E a \in Attendants(o) : appels[a].quoi = "moi" THEN Nul ELSE @]
    /\ appels' = [a \in Appel |-> IF a \in Attendants(o) THEN Libre ELSE appels[a]]
    /\ UNCHANGED <<serveur, bornes, rompu, substitue>>

(* The request never arrives, or its answer never comes back. *)
CoupureRenouvellement(o) ==
    /\ renouvellement[o].etape \in {"chercher", "reponse"}
    /\ pannes > 0 /\ pannes' = pannes - 1
    /\ A(o, "echec")
    /\ UNCHANGED <<serveur, stockage, ecran, appels, revocations, rompu, substitue>>

-----------------------------------------------------------------------------
(* Around the tabs. *)

(* The access token lives 15 minutes; the refresh token, and its row, 5 h. *)
AccesExpire(n) ==
    /\ stockage[n] # Nul /\ stockage[n].age = "valide"
    /\ stockage' = [stockage EXCEPT ![n].age = "accesExpire"]
    /\ UNCHANGED <<serveur, ecran, appels, renouvellement, bornes, rompu, substitue>>

Revocation ==
    /\ revocations > 0 /\ revocations' = revocations - 1
    /\ rompu' = TRUE
    /\ UNCHANGED <<ouverts, ecran, pannes, substitue>>

SessionExpire(n, l) ==
    /\ Revocation
    /\ stockage[n] # Nul /\ stockage[n].age = "accesExpire" /\ l \in LignesDe(stockage[n].m)
    /\ stockage' = [stockage EXCEPT ![n].age = "expire"]
    /\ lignes' = lignes \ {l}
    /\ UNCHANGED <<membres, banni, appels, renouvellement>>

ReinitialiserMotDePasse ==
    /\ Revocation
    /\ lignes' = {}
    /\ UNCHANGED <<membres, banni, stockage, appels, renouvellement>>

Bannir ==
    /\ Revocation
    /\ lignes' = {} /\ banni' = TRUE
    /\ UNCHANGED <<membres, stockage, appels, renouvellement>>

(* organisation.removeMembre(): the rows go with the User. *)
Retirer(m) ==
    /\ Revocation
    /\ m \in membres
    /\ membres' = membres \ {m}
    /\ lignes' = lignes \ LignesDe(m)
    /\ UNCHANGED <<banni, stockage, appels, renouvellement>>

(* The API stops: what it had in hand is answered by an error. *)
Arret ==
    /\ Revocation
    /\ renouvellement' = [o \in Onglet |->
          IF renouvellement[o].etape \in {"revoquer", "creer"}
          THEN [renouvellement[o] EXCEPT !.etape = "echec", !.ligne = Nul]
          ELSE renouvellement[o]]
    /\ appels' = [a \in Appel |->
          IF appels[a].phase = "revoquer"
          THEN [appels[a] EXCEPT !.phase = "effacer", !.paire = Nul, !.ligne = Nul]
          ELSE appels[a]]
    /\ UNCHANGED <<serveur, stockage>>

-----------------------------------------------------------------------------
Demande(a) ==
    \/ Appeler(a)
    \/ Recharger(a)
    \/ \E m \in Membre : Connecter(a, m)
    \/ Basculer(a)
    \/ Deconnecter(a)

Suite(a) ==
    \/ Accepte(a)
    \/ Refuse401(a)
    \/ Refuse401Encore(a)
    \/ Installer(a)
    \/ ChercherDeconnexion(a)
    \/ RevoquerDeconnexion(a)
    \/ Effacer(a)

SuiteRenouvellement(o) ==
    \/ Chercher(o)
    \/ Revoquer(o)
    \/ Creer(o)
    \/ Resoudre(o)
    \/ Rejeter(o)

Autour ==
    \/ \E a \in Appel : Partir(a)
    \/ \E a \in Appel : CoupureAppel(a)
    \/ \E a \in Appel : CoupureReponse(a)
    \/ \E o \in Onglet : CoupureRenouvellement(o)
    \/ \E o \in Onglet : RenouvelerPourSocket(o)
    \/ \E n \in Navigateur : AccesExpire(n)
    \/ \E n \in Navigateur, l \in Ligne : SessionExpire(n, l)
    \/ ReinitialiserMotDePasse
    \/ Bannir
    \/ \E m \in Membre : Retirer(m)
    \/ Arret

Next ==
    \/ \E a \in Appel : Demande(a)
    \/ \E a \in Appel : Suite(a)
    \/ \E o \in Onglet : SuiteRenouvellement(o)
    \/ Autour

Spec == Init /\ [][Next]_vars

(* The API and the network answer; nobody has to log in or to ask, and no  *)
(* page has to be left.                                                    *)
Equite ==
    /\ \A a \in Appel : WF_vars(Suite(a))
    /\ \A o \in Onglet : WF_vars(SuiteRenouvellement(o))

SpecEquitable == Spec /\ Equite

-----------------------------------------------------------------------------
(* Properties. *)

TypeOK ==
    /\ lignes \subseteq Ligne
    /\ membres \subseteq Membre /\ ouverts \subseteq Onglet
    /\ stockage \in [Navigateur -> Paire \cup {Nul}]
    /\ ecran \in [Onglet -> Membre \cup {Nul}]
    /\ appels \in [Appel -> [quoi : Quoi, phase : Phase, paire : Paire \cup {Nul},
                             ligne : Ligne \cup {Nul}]]
    /\ renouvellement \in [Onglet -> [etape : Etape, paire : Paire \cup {Nul},
                                      ligne : Ligne \cup {Nul}]]
    /\ revocations \in Nat /\ pannes \in Nat
    /\ banni \in BOOLEAN /\ rompu \in BOOLEAN
    /\ substitue \in [Navigateur -> BOOLEAN]

EnRenouvellement(m) == \E o \in Onglet : Renouvelle(o) /\ renouvellement[o].paire.m = m

(* The tokens a browser keeps can be renewed: two tabs, two devices and    *)
(* lost answers may revoke each other's rows, but whoever revokes creates, *)
(* so that no browser is left with a dead pair unless a session was ended. *)
PaireUtilisable ==
    \A n \in Navigateur :
        (stockage[n] # Nul /\ ~rompu /\ ~EnRenouvellement(stockage[n].m))
            => LignesDe(stockage[n].m) # {}

(* A tab acts in the organisation it shows: its tokens name the user on    *)
(* screen, whatever its calls, renewals, switches and logouts were doing   *)
(* to each other.  It does not while it asks who it is, nor on the page a  *)
(* switch is leaving; and no longer once a pair was stored while another   *)
(* tab of the browser went by another user, or by a login while calls of   *)
(* the tab itself did.                                                     *)
SeDemande(o) == \E a \in AppelsDe(o) : /\ appels[a].quoi = "moi"
                                        /\ appels[a].phase \in {"envoye", "attend", "renvoye"}
EcranSuitLesJetons ==
    \A o \in Onglet :
        LET n == NavigateurDe[o]
        IN  (/\ ecran[o] # Nul /\ stockage[n] # Nul
             /\ ~substitue[n] /\ ~Quittee(o) /\ ~SeDemande(o)) => stockage[n].m = ecran[o]

(* The same without the last exception, for a tab that is alone in its     *)
(* browser: what a page may be showing "remains attached to the former     *)
(* organisation" otherwise (org-switcher.tsx).                             *)
EcranSuitLaConnexion ==
    \A o \in ouverts :
        LET n == NavigateurDe[o]
        IN  (/\ ecran[o] # Nul /\ stockage[n] # Nul
             /\ \A q \in ouverts \ {o} : NavigateurDe[q] # n
             /\ ~Quittee(o) /\ ~SeDemande(o)) => stockage[n].m = ecran[o]

(* Every call ends, though calls of a tab wait on a renewal they share:    *)
(* whatever happens to it, each of them gets its answer or its error.      *)
Aboutie(a) == appels[a].phase \in {"libre", "quitte"}
AppelAboutit == \A a \in Appel : []<>Aboutie(a)

(* "Throws only if there is no session, or the refresh itself fails        *)
(* (session truly over)" (authorizedFetch): a failed call throws a pair    *)
(* away only when no refresh token of its user is left.                    *)
JeteSeulementSiFinie ==
    [][\A n \in Navigateur :
         (stockage[n] # Nul /\ stockage'[n] = Nul /\ ~rompu) => LignesDe(stockage[n].m) = {}]_vars

================================================================================
