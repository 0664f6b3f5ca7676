--------------------------------- MODULE Pages ---------------------------------
(***************************************************************************)
(* What the pages of the web application show.  None of them uses a data   *)
(* library: each has a load() that fetches, sets the state and puts the    *)
(* answer in the tab's page-cache; a list of its own of what it does after *)
(* a change; sometimes an interval of 20 seconds.  Nothing orders the      *)
(* answers.  An instance is one page; its record says which of these       *)
(* habits it has.                                                          *)
(*                                                                         *)
(* Changes are numbered; what the server holds under a key (an office, a   *)
(* report, a scope...) and what the page shows of it are the sets of the   *)
(* changes they include.  The several GETs of one load() are one reading,  *)
(* and what the page sorts, filters, edits in its forms or toasts is left  *)
(* out.  React ignores a state set by a page that has gone; what its       *)
(* promises do besides still happens.                                      *)
(***************************************************************************)
EXTENDS Naturals, FiniteSets, FiniteSetsExt

CONSTANTS
    Ecran,         \* pages
    Cle,           \* what a page can be about
    Premiere,      \* the only one of a page without a choice
    Requete,       \* calls of the API that may be under way
    MaxChangements, MaxMontages, MaxEchecs,
    Nul

(* What a page shows, or the cache keeps: data of a key, and the changes   *)
(* they include.                                                           *)
Vu == [cle : Cle, vus : SUBSET (1..MaxChangements)]

ASSUME PagesAssumption ==
    /\ Premiere \in Cle /\ IsFiniteSet(Requete)
    /\ Nul \notin Cle \cup Vu /\ \A n \in SUBSET (1..MaxChangements) : n # Nul
    /\ {MaxChangements, MaxMontages, MaxEchecs} \subseteq Nat
    /\ \A e \in Ecran :
          /\ {e.sonde, e.cache, e.retient} \subseteq BOOLEAN
          /\ e.choix \in {"unique", "remonte", "garde"} /\ e.ecritures \in {1, 2}
          /\ e.actes \subseteq {"recharge", "rechargeToujours", "reponse", "apres", "optimiste"}
          /\ e.choix = "garde" => e.actes \cap {"apres", "optimiste"} = {}

VARIABLES
    ecran,         \* the page
    serveur,       \* per key, the changes the database holds
    monte, cle,    \* whether the page is mounted, and on what
    affiche,       \* its state: the key and changes of the data shown, or null
    cache,         \* page-cache.ts, which survives the page
    requetes,      \* calls under way
    changements, montages, echecs,
    reussis,       \* changes of this mounting that succeeded (history)
    croisees       \* two calls of this mounting have overlapped (history)

compteurs == <<changements, montages, echecs>>
vars == <<ecran, serveur, monte, cle, affiche, cache, requetes, compteurs, reussis, croisees>>

-----------------------------------------------------------------------------
(* The pages: whether an interval calls load(); what a change of what it   *)
(* is about does (there is none; the router mounts another page; the same  *)
(* page keeps its state and loads again); whether it uses the cache; what  *)
(* it does after its changes (load() on success; load() whatever happens;  *)
(* show the answer; apply the change to what is shown, after the call or   *)
(* before it); calls one change may take; whether a change applied on the  *)
(* spot is put in the cache.                                               *)

Page(sonde, choix, enCache, actes, ecritures, retient) ==
    [sonde |-> sonde, choix |-> choix, cache |-> enCache, actes |-> actes,
     ecritures |-> ecritures, retient |-> retient]

TachesBureau == Page(TRUE, "remonte", TRUE, {"recharge"}, 2, FALSE)
Bureau == Page(TRUE, "remonte", TRUE, {"recharge"}, 1, FALSE)
CheckIn == Page(TRUE, "remonte", TRUE, {"recharge"}, 1, FALSE)
OrganizerBureau == Page(FALSE, "remonte", TRUE, {"recharge"}, 1, FALSE)
ParametresBureau == Page(FALSE, "remonte", TRUE, {"recharge"}, 2, FALSE)
Rapport == Page(FALSE, "remonte", TRUE, {"recharge"}, 1, FALSE)
Sujets == Page(TRUE, "remonte", FALSE, {"recharge"}, 1, FALSE)
DetailTache == Page(FALSE, "remonte", FALSE, {"recharge"}, 1, FALSE)
StatsMembre == Page(FALSE, "remonte", FALSE, {}, 1, FALSE)
Bureaux == Page(TRUE, "unique", TRUE, {"recharge", "rechargeToujours", "optimiste"}, 1, FALSE)
Membres == Page(TRUE, "unique", TRUE, {"recharge"}, 1, FALSE)
ConversationDirecte == Page(TRUE, "unique", TRUE, {}, 1, FALSE)
Administration == Page(FALSE, "unique", TRUE, {"recharge"}, 1, FALSE)
TableauDeBord == Page(FALSE, "unique", TRUE, {"recharge"}, 1, FALSE)
ParametresOrganisation == Page(FALSE, "unique", TRUE, {"reponse"}, 1, FALSE)
Notifications == Page(FALSE, "unique", TRUE, {"apres", "optimiste"}, 1, TRUE)
Conversations == Page(FALSE, "unique", TRUE, {}, 1, FALSE)
Rapports == Page(FALSE, "unique", TRUE, {}, 1, FALSE)
AValider == Page(FALSE, "unique", TRUE, {}, 1, FALSE)
ValidationsDuJour == Page(FALSE, "unique", FALSE, {}, 1, FALSE)
Cloche == Page(TRUE, "unique", FALSE, {"apres", "optimiste"}, 1, FALSE)
BarreLaterale == Page(TRUE, "unique", FALSE, {}, 1, FALSE)
MesTaches == Page(FALSE, "unique", FALSE, {"recharge"}, 2, FALSE)
MonOrganizer == Page(FALSE, "unique", FALSE, {"recharge"}, 1, FALSE)
Performance == Page(FALSE, "garde", TRUE, {}, 1, FALSE)
Calendrier == Page(FALSE, "garde", TRUE, {"recharge"}, 1, FALSE)

-----------------------------------------------------------------------------
Aucune == [genre |-> "aucune", cle |-> Premiere, vive |-> FALSE, reste |-> {}, moi |-> {},
           vus |-> Nul]
Lecture(k, vive) == [Aucune EXCEPT !.genre = "lecture", !.cle = k, !.vive = vive]
Libre(r) == requetes[r] = Aucune
Vives(q) == {r \in Requete : q[r] # Aucune /\ q[r].vive}
Donnees(k, vus) == [cle |-> k, vus |-> vus]
Cles == IF ecran.choix = "unique" THEN {Premiere} ELSE Cle

Init ==
    /\ ecran \in Ecran
    /\ serveur = [k \in Cle |-> {}]
    /\ monte = FALSE /\ cle = Premiere /\ affiche = Nul
    /\ cache = [k \in Cle |-> Nul]
    /\ requetes = [r \in Requete |-> Aucune]
    /\ changements = 0 /\ montages = 0 /\ echecs = 0
    /\ reussis = {} /\ croisees = FALSE

(* Every call of the mounting goes through here: the overlap is recorded.  *)
Appels(q) ==
    /\ requetes' = q
    /\ croisees' = (croisees \/ Cardinality(Vives(q)) > 1)
Afficher(d) == affiche' = d
SousLaCleDuMoment(d) ==                         \* mutant: not the key of the load()
    cache' = IF ecran.cache THEN [cache EXCEPT ![cle] = d] ELSE cache
Memoriser(d) == cache' = IF ecran.cache THEN [cache EXCEPT ![d.cle] = d] ELSE cache
Delaissees == [r \in Requete |->
    IF Libre(r) THEN Aucune ELSE [requetes[r] EXCEPT !.vive = FALSE]]

-----------------------------------------------------------------------------
(* useState takes what the cache has, and the first effect loads.          *)
MonterSur(k) ==
    /\ montages < MaxMontages
    /\ monte' = TRUE /\ cle' = k /\ montages' = montages + 1
    /\ Afficher(cache[k])
    /\ \E r \in Requete : Libre(r) /\ requetes' = [Delaissees EXCEPT ![r] = Lecture(k, TRUE)]
    /\ reussis' = {} /\ croisees' = FALSE
    /\ UNCHANGED <<ecran, serveur, cache, changements, echecs>>

Monter(k) == ~monte /\ k \in Cles /\ MonterSur(k)

(* The same page, its effects run again, its state stays.                  *)
Garder(k) ==
    /\ montages < MaxMontages
    /\ cle' = k /\ montages' = montages + 1
    /\ \E r \in Requete : Libre(r) /\ Appels([requetes EXCEPT ![r] = Lecture(k, TRUE)])
    /\ UNCHANGED <<ecran, serveur, monte, affiche, cache, changements, echecs, reussis>>

ToujoursGarder(k) == Garder(k)                  \* mutant: the page is not mounted again
Remplacer(k) == IF ecran.choix = "garde" THEN Garder(k) ELSE MonterSur(k)
Choisir(k) == monte /\ k \in Cles \ {cle} /\ Remplacer(k)

Quitter ==
    /\ monte
    /\ monte' = FALSE /\ affiche' = Nul
    /\ requetes' = Delaissees
    /\ reussis' = {} /\ croisees' = FALSE
    /\ UNCHANGED <<ecran, serveur, cle, cache, compteurs>>

(* setInterval(load, 20_000), until the clean-up of the effect.            *)
UneFois == FALSE                                \* mutant: no interval
Sonde == ecran.sonde
Sonder ==
    /\ monte /\ Sonde
    /\ \E r \in Requete : Libre(r) /\ Appels([requetes EXCEPT ![r] = Lecture(cle, TRUE)])
    /\ UNCHANGED <<ecran, serveur, monte, cle, affiche, cache, compteurs, reussis>>

-----------------------------------------------------------------------------
(* load(): the server reads, then the answer arrives.                      *)
Lire(r) ==
    /\ requetes[r].genre = "lecture" /\ requetes[r].vus = Nul
    /\ requetes' = [requetes EXCEPT ![r].vus = serveur[requetes[r].cle]]
    /\ UNCHANGED <<ecran, serveur, monte, cle, affiche, cache, compteurs, reussis, croisees>>

Arriver(r) ==
    LET d == Donnees(requetes[r].cle, requetes[r].vus)
    IN  /\ requetes[r].genre = "lecture" /\ requetes[r].vus # Nul
        /\ Afficher(IF requetes[r].vive THEN d ELSE affiche)
        /\ Memoriser(d)
        /\ Appels([requetes EXCEPT ![r] = Aucune])
        /\ UNCHANGED <<ecran, serveur, monte, cle, compteurs, reussis>>

Echouer == echecs < MaxEchecs /\ echecs' = echecs + 1

(* Nothing catches it, or a toast: what is shown stays.                    *)
EchouerLecture(r) ==
    /\ requetes[r].genre = "lecture" /\ Echouer
    /\ Appels([requetes EXCEPT ![r] = Aucune])
    /\ UNCHANGED <<ecran, serveur, monte, cle, affiche, cache, changements, montages, reussis>>

-----------------------------------------------------------------------------
(* A change: the calls of the handler, one after the other.                *)

Appliquee(n) == Donnees(affiche.cle, affiche.vus \cup n)
SurPlace(n) ==
    /\ Afficher(Appliquee(n))
    /\ IF ecran.retient THEN Memoriser(Appliquee(n)) ELSE UNCHANGED cache

Agir(a) ==
    LET n == changements + 1 .. changements + ecran.ecritures
    IN  /\ monte /\ affiche # Nul /\ a \in ecran.actes
        /\ changements + ecran.ecritures <= MaxChangements
        /\ changements' = changements + ecran.ecritures
        /\ \E r \in Requete :
              /\ Libre(r)
              /\ Appels([requetes EXCEPT ![r] =
                    [Lecture(cle, TRUE) EXCEPT !.genre = a, !.reste = n, !.moi = n]])
        /\ IF a = "optimiste" THEN SurPlace(n) ELSE UNCHANGED <<affiche, cache>>
        /\ UNCHANGED <<ecran, serveur, monte, cle, montages, echecs, reussis>>

Acte(r) == requetes[r].genre \notin {"aucune", "lecture"}

(* The server does the next call; the last one answers with what it has.   *)
Ecrire(r) ==
    LET e == Min(requetes[r].reste)
        k == requetes[r].cle
    IN  /\ Acte(r) /\ requetes[r].reste # {}
        /\ serveur' = [serveur EXCEPT ![k] = @ \cup {e}]
        /\ requetes' = [requetes EXCEPT ![r].reste = @ \ {e}, ![r].vus = serveur'[k]]
        /\ UNCHANGED <<ecran, monte, cle, affiche, cache, compteurs, reussis, croisees>>

SansRecharger(r) == Aucune                      \* mutant: no load() after the change
Relire(r) == Lecture(requetes[r].cle, requetes[r].vive)

(* What follows the calls.  A state that is computed from the former one   *)
(* (the cache with it, when it is written there) is not once the page has  *)
(* gone.                                                                   *)
Suivre(r) ==
    LET q == requetes[r]
        d == Donnees(q.cle, q.vus)
    IN  CASE q.genre \in {"recharge", "rechargeToujours"} ->
                 /\ Appels([requetes EXCEPT ![r] = Relire(r)])
                 /\ UNCHANGED <<affiche, cache>>
          [] q.genre = "reponse" ->
                 /\ Appels([requetes EXCEPT ![r] = Aucune])
                 /\ Afficher(IF q.vive THEN d ELSE affiche) /\ Memoriser(d)
          [] q.genre = "apres" ->
                 /\ Appels([requetes EXCEPT ![r] = Aucune])
                 /\ IF q.vive THEN SurPlace(q.moi) ELSE UNCHANGED <<affiche, cache>>
          [] q.genre = "optimiste" ->
                 /\ Appels([requetes EXCEPT ![r] = Aucune])
                 /\ UNCHANGED <<affiche, cache>>

Aboutir(r) ==
    /\ Acte(r) /\ requetes[r].reste = {}
    /\ Suivre(r)
    /\ reussis' = IF requetes[r].vive THEN reussis \cup requetes[r].moi ELSE reussis
    /\ UNCHANGED <<ecran, serveur, monte, cle, compteurs>>

(* A call fails, before the server does it or after: the rest is not made. *)
EchouerActe(r) ==
    /\ Acte(r) /\ Echouer
    /\ Appels([requetes EXCEPT ![r] =
          IF requetes[r].genre = "rechargeToujours" THEN Relire(r) ELSE Aucune])
    /\ UNCHANGED <<ecran, serveur, monte, cle, affiche, cache, changements, montages, reussis>>

(* Somebody else, or another tab.                                          *)
Autrui(k) ==
    /\ k \in Cles /\ changements < MaxChangements
    /\ changements' = changements + 1
    /\ serveur' = [serveur EXCEPT ![k] = @ \cup {changements'}]
    /\ UNCHANGED <<ecran, monte, cle, affiche, cache, requetes, montages, echecs, reussis, croisees>>

-----------------------------------------------------------------------------
Avancer(r) == Lire(r) \/ Arriver(r) \/ Ecrire(r) \/ Aboutir(r)

Next ==
    \/ \E k \in Cle : Monter(k) \/ Choisir(k) \/ Autrui(k)
    \/ Quitter
    \/ Sonder
    \/ \E r \in Requete : Lire(r) \/ Arriver(r) \/ Ecrire(r) \/ Aboutir(r)
    \/ \E r \in Requete : EchouerLecture(r) \/ EchouerActe(r)
    \/ \E a \in {"recharge", "rechargeToujours", "reponse", "apres", "optimiste"} : Agir(a)

(* Calls end and the interval fires; nobody has to do anything.            *)
Equite == WF_vars(Sonder) /\ \A r \in Requete : WF_vars(Avancer(r))
Spec == Init /\ [][Next]_vars /\ Equite

-----------------------------------------------------------------------------
(* Properties *)

(* Types; nothing is shown by a page that is gone. *)
TypeOK ==
    /\ ecran \in Ecran /\ monte \in BOOLEAN /\ cle \in Cle /\ croisees \in BOOLEAN
    /\ serveur \in [Cle -> SUBSET (1..MaxChangements)]
    /\ affiche \in Vu \cup {Nul} /\ cache \in [Cle -> Vu \cup {Nul}]
    /\ \A r \in Requete : requetes[r].vive => monte
    /\ ~monte => affiche = Nul

(* A page that is mounted again on each choice (an office, a report) never *)
(* shows another one's data, whatever answers of the former page are late  *)
(* and whatever the cache holds.                                           *)
AfficheDuChoix == ecran.choix # "garde" /\ affiche # Nul => affiche.cle = cle

(* Neither a page nor the cache claims a change the server does not have   *)
(* and that is not on its way, except a change applied on the spot whose   *)
(* call has failed; and the cache has each key's own data.                 *)
EnRoute == UNION {requetes[r].reste : r \in Requete}
Invente(d) == ~(d.vus \subseteq serveur[d.cle] \cup EnRoute)
RienDInvente ==
    /\ \A k \in Cle : cache[k] # Nul => cache[k].cle = k
    /\ "optimiste" \notin ecran.actes \/ echecs = 0 =>
          \A d \in ({affiche} \cup {cache[k] : k \in Cle}) \ {Nul} : ~Invente(d)

(* Once its calls are over, a page used one gesture at a time shows the    *)
(* changes made on it, whatever it reloaded, kept or applied itself.       *)
PropreVisible ==
    monte /\ ecran.choix # "garde" /\ echecs = 0 /\ ~croisees /\ Vives(requetes) = {}
        => affiche # Nul /\ reussis \subseteq affiche.vus

(* "On repasse periodiquement pour refleter les changements": a page with  *)
(* an interval that stays mounted comes to show what the server has, after *)
(* any overlap of its answers, failure, or change applied and refused.     *)
Rafraichi == []<>(~monte \/ ~ecran.sonde \/ affiche = Donnees(cle, serveur[cle]))

================================================================================
