----------------------------- MODULE Conversation -----------------------------
(***************************************************************************)
(* A chat window (chat.tsx) on a conversation, the gateway and             *)
(* chat.service behind it.  One person's window and socket, and somebody   *)
(* else who writes.  The window learns of messages two  *)
(* ways that do not know of each other: events of the socket.io room, and  *)
(* the history, a REST request.  The socket delivers in order but may be   *)
(* cut; the gateway's handlers await the database and overlap.             *)
(*                                                                         *)
(* Messages are numbered in the order of their createdAt, and a date is    *)
(* the number of messages there were.  The conversations of an instance    *)
(* are of one nature: offices, Subjects of an Organizer or direct; the     *)
(* three windows listen to different events.  Access, mentions, files,     *)
(* quotes, edits (which change no list), the other's reading ("Seen") and   *)
(* notifications are left out.                                             *)
(***************************************************************************)
EXTENDS Naturals, Sequences, SequencesExt, FiniteSets

CONSTANTS
    Conv,          \* conversations
    Depart,        \* instances: the nature of the conversations, which of them
                   \* the window opens, and as bounds the openings, the cuts of
                   \* the socket, the messages written, and whether the window
                   \* deletes messages or asks for older ones
    Fil,           \* handlers of the gateway that may overlap
    Requete,       \* histories that may be on their way
    Page,          \* PAGE_SIZE, the limit of listMessages()
    Nul

ASSUME ConversationAssumption ==
    /\ \A d \in Depart :
          /\ d.nature \in {"bureau", "organizer", "dm"} /\ d.convs \subseteq Conv
          /\ {d.ouvertures, d.coupures, d.messages} \subseteq Nat
          /\ {d.suppressions, d.anciens} \subseteq BOOLEAN
    /\ IsFiniteSet(Fil) /\ IsFiniteSet(Requete) /\ Nul \notin Conv
    /\ Page \in Nat \ {0} /\ Nul \notin Seq(Nat)

VARIABLES
    bornes,        \* the element of Depart
    ecrits,        \* every message written: its conversation and author
    supprimes,     \* those deleted
    salles,        \* rooms the window's socket is in
    lu,            \* per conversation, the date of the window's last reading
    fils,          \* handlers of the gateway in progress
    montants,      \* events of the window on their way to the server
    descendants,   \* events of the rooms on their way to the window
    connecte,
    ouverte,       \* the conversation the window shows
    affiche,       \* messages: the list on display, or null while it loads
    chargements,   \* histories asked for
    ouvertures, coupures,
    surs           \* messages written while the window was settled (history)

serveur == <<ecrits, supprimes, lu>>
fenetre == <<ouverte, affiche, ouvertures>>
vars == <<bornes, ecrits, supprimes, salles, lu, fils, montants, descendants, connecte,
          ouverte, affiche, chargements, ouvertures, coupures, surs>>

-----------------------------------------------------------------------------
nature == bornes.nature
Personne == {"moi", "autre"}
Maintenant == Len(ecrits)                       \* new Date()
Messages(c) == {m \in 1..Len(ecrits) : ecrits[m].conv = c} \ supprimes

Rang(S, m) == Cardinality({n \in S : n <= m})
EnOrdre(S) == [i \in 1..Cardinality(S) |-> CHOOSE m \in S : Rang(S, m) = i]

(* listMessages(): the last ones, or the last ones before a given one; a    *)
(* message that is gone has no date, which asks for the last ones again.   *)
PageDe(c, avant) ==
    LET S == {m \in Messages(c) : avant \in supprimes \cup {0} \/ m < avant}
    IN  EnOrdre({m \in S : Cardinality({n \in S : n > m}) < Page})

Repos == [op |-> "aucune", par |-> "moi", c |-> Nul, m |-> 0, reste |-> << >>]
Aucun == [c |-> Nul, actif |-> FALSE, avant |-> 0, etape |-> "aucune", page |-> << >>]

(* What each handler awaits, in its order, once access is checked. *)
Programme(op) ==
    CASE op = "rejoindre" /\ nature = "dm"        -> <<"entrer", "marquer">>
      [] op = "rejoindre" /\ nature = "bureau"    -> <<"entrer", "marquer">>
      [] op = "rejoindre" /\ nature = "organizer" -> <<"entrer">>
      [] op = "marquer"                           -> <<"marquer">>
      [] op = "envoyer"                           -> <<"creer", "diffuser">>
      [] op = "supprimer"                         -> <<"supprimer", "annoncerSuppression">>

Init ==
    /\ bornes \in Depart
    /\ ecrits = << >> /\ supprimes = {} /\ salles = {}
    /\ lu = [c \in Conv |-> 0]
    /\ fils = [f \in Fil |-> Repos]
    /\ montants = << >> /\ descendants = << >> /\ connecte = FALSE
    /\ ouverte = Nul /\ affiche = Nul
    /\ chargements = [r \in Requete |-> Aucun]
    /\ ouvertures = 0 /\ coupures = 0 /\ surs = {}

-----------------------------------------------------------------------------
(* The window. *)

Libre(r) == chargements[r] = Aucun
Demande(c, avant) == [c |-> c, actif |-> TRUE, avant |-> avant,
                      etape |-> IF nature = "organizer" THEN "lire" ELSE "marquer", page |-> << >>]
Oublies ==
    [r \in Requete |-> IF Libre(r) THEN Aucun ELSE [chargements[r] EXCEPT !.actif = FALSE]]
Monter(e) == montants' = montants \o e

(* Effect of a mounted window: the list is null, the history is asked for  *)
(* and the room joined; the events wait for the socket if it is not        *)
(* connected.  Its clean-up leaves the previous room first.                *)
Ouvrir(c) ==
    /\ ouvertures < bornes.ouvertures /\ c \in bornes.convs \ {ouverte}
    /\ ouverte' = c /\ affiche' = Nul /\ ouvertures' = ouvertures + 1
    /\ Monter((IF ouverte = Nul THEN << >> ELSE <<[op |-> "quitter", c |-> ouverte, m |-> 0]>>)
              \o <<[op |-> "rejoindre", c |-> c, m |-> 0]>>)
    /\ \E r \in Requete : Libre(r) /\ chargements' = [Oublies EXCEPT ![r] = Demande(c, 0)]
    /\ UNCHANGED <<bornes, serveur, salles, fils, descendants, connecte, coupures, surs>>

Fermer ==
    /\ ouverte # Nul
    /\ ouverte' = Nul /\ affiche' = Nul
    /\ Monter(<<[op |-> "quitter", c |-> ouverte, m |-> 0]>>)
    /\ chargements' = Oublies
    /\ UNCHANGED <<bornes, serveur, salles, fils, descendants, connecte, ouvertures, coupures, surs>>

SansRejoindre ==                                \* mutant: no join on reconnection
    IF ouverte = Nul THEN UNCHANGED <<montants, chargements>>
    ELSE /\ UNCHANGED montants
         /\ \E r \in Requete :
               Libre(r) /\ chargements' = [chargements EXCEPT ![r] = Demande(ouverte, 0)]
SansHistorique ==                               \* mutant: no history on reconnection
    IF ouverte = Nul THEN UNCHANGED <<montants, chargements>>
    ELSE Monter(<<[op |-> "rejoindre", c |-> ouverte, m |-> 0]>>) /\ UNCHANGED chargements

(* join(), on each connection. *)
RejoindreEncore ==
    IF ouverte = Nul THEN UNCHANGED <<montants, chargements>>
    ELSE /\ Monter(<<[op |-> "rejoindre", c |-> ouverte, m |-> 0]>>)
         /\ \E r \in Requete :
               Libre(r) /\ chargements' = [chargements EXCEPT ![r] = Demande(ouverte, 0)]
(* What was emitted without a connection is sent first. *)
Connexion ==
    /\ ~connecte
    /\ connecte' = TRUE
    /\ RejoindreEncore
    /\ UNCHANGED <<bornes, serveur, salles, fils, descendants, fenetre, coupures, surs>>

SansEntrer(reste) == IF Head(reste) = "entrer" THEN Tail(reste) ELSE reste

(* socket.io: the events under way are lost, the rooms are left; a handler *)
(* that still has the old socket lets it join for nothing.                 *)
Coupure ==
    /\ connecte /\ coupures < bornes.coupures
    /\ connecte' = FALSE /\ salles' = {} /\ coupures' = coupures + 1
    /\ montants' = << >> /\ descendants' = << >>
    /\ fils' = [f \in Fil |->
          IF fils[f] = Repos \/ fils[f].reste = <<"entrer">> THEN Repos
          ELSE [fils[f] EXCEPT !.reste = SansEntrer(@)]]
    /\ UNCHANGED <<bornes, serveur, chargements, fenetre, surs>>

(* The bound on messages counts those on their way. *)
EncoreUn ==
    Len(ecrits) + Cardinality({k \in 1..Len(montants) : montants[k].op = "envoyer"})
        + Cardinality({f \in Fil : fils[f].op = "envoyer" /\ fils[f].m = 0}) < bornes.messages

EcrireMessage ==
    /\ ouverte # Nul
    /\ Monter(<<[op |-> "envoyer", c |-> ouverte, m |-> 0]>>)
    /\ EncoreUn
    /\ UNCHANGED <<bornes, serveur, salles, fils, descendants, connecte, fenetre, chargements,
                   coupures, surs>>

(* Only one's own messages have the button. *)
SupprimerMessage(m) ==
    /\ bornes.suppressions /\ affiche # Nul /\ m \in ToSet(affiche) /\ ecrits[m].auteur = "moi"
    /\ Monter(<<[op |-> "supprimer", c |-> ecrits[m].conv, m |-> m]>>)
    /\ ~\E k \in 1..Len(montants) : montants[k].op = "supprimer"
    /\ UNCHANGED <<bornes, serveur, salles, fils, descendants, connecte, fenetre, chargements,
                   coupures, surs>>

(* handleLoadMore(): loadingMore is a state of the mounted window. *)
ChargerPlus ==
    /\ bornes.anciens /\ affiche # Nul /\ affiche # << >> /\ Len(affiche) >= Page
    /\ ~\E r \in Requete : chargements[r].actif /\ chargements[r].avant # 0
    /\ \E r \in Requete :
          Libre(r) /\ chargements' = [chargements EXCEPT ![r] = Demande(ouverte, affiche[1])]
    /\ UNCHANGED <<bornes, serveur, salles, fils, montants, descendants, connecte, fenetre,
                   coupures, surs>>

SansMarquer(e) ==                               \* mutant: read only on opening
    /\ affiche' = IF affiche = Nul THEN <<e.m>> ELSE Append(affiche, e.m)
    /\ UNCHANGED montants

(* onMessage(): any message of the event, into the list on display. *)
SurMessage(e) ==
    /\ affiche' = IF affiche = Nul THEN <<e.m>> ELSE Append(affiche, e.m)
    /\ IF nature = "dm" /\ ecrits[e.m].auteur # "moi"
       THEN Monter(<<[op |-> "marquer", c |-> ouverte, m |-> 0]>>)
       ELSE UNCHANGED montants
Sauf(s, m) ==
    LET gardes == EnOrdre({k \in DOMAIN s : s[k] # m})
    IN  [i \in DOMAIN gardes |-> s[gardes[i]]]
SurSuppression(e) ==
    /\ affiche' = IF affiche = Nul THEN Nul ELSE Sauf(affiche, e.m)
    /\ UNCHANGED montants

RecevoirEvenement ==
    /\ connecte /\ descendants # << >>
    /\ descendants' = Tail(descendants)
    /\ LET e == Head(descendants)
       IN  IF ouverte = Nul THEN UNCHANGED <<montants, affiche>>
           ELSE \/ e.op = "message" /\ SurMessage(e)
                \/ e.op = "supprime" /\ SurSuppression(e)
    /\ UNCHANGED <<bornes, serveur, salles, fils, connecte, ouverte, ouvertures, chargements,
                   coupures, surs>>

(* The page replaces the list; an older page goes before it.  Another room *)
(* is another mounted window on the three pages (a key, or the segment of   *)
(* the office's page): what the former one asked for sets nothing.         *)
RecevoirHistorique(r) ==
    /\ chargements[r].etape = "repondre"
    /\ chargements' = [chargements EXCEPT ![r] = Aucun]
    /\ affiche' = IF ~chargements[r].actif THEN affiche
                  ELSE IF chargements[r].avant = 0 THEN chargements[r].page
                  ELSE chargements[r].page \o (IF affiche = Nul THEN << >> ELSE affiche)
    /\ UNCHANGED <<bornes, serveur, salles, fils, montants, descendants, connecte, ouverte,
                   ouvertures, coupures, surs>>

-----------------------------------------------------------------------------
(* The server. *)

Lecture(c) == lu' = [lu EXCEPT ![c] = Maintenant]

(* The history of offices and of direct conversations marks it read first. *)
MarquerHistorique(r) ==
    /\ chargements[r].etape = "marquer"
    /\ Lecture(chargements[r].c)
    /\ chargements' = [chargements EXCEPT ![r].etape = "lire"]
    /\ UNCHANGED <<bornes, ecrits, supprimes, salles, fils, montants, descendants, connecte,
                   fenetre, coupures, surs>>

LireHistorique(r) ==
    /\ chargements[r].etape = "lire"
    /\ chargements' = [chargements EXCEPT ![r].etape = "repondre",
                          ![r].page = PageDe(chargements[r].c, chargements[r].avant)]
    /\ UNCHANGED <<bornes, serveur, salles, fils, montants, descendants, connecte, fenetre,
                   coupures, surs>>

Commencer(f, op, par, c, m) ==
    /\ fils[f] = Repos
    /\ fils' = [fils EXCEPT ![f] = [op |-> op, par |-> par, c |-> c, m |-> m,
                                    reste |-> Programme(op)]]

(* Events are taken in their order; leaving awaits nothing. *)
Prendre(f) ==
    /\ connecte /\ montants # << >>
    /\ montants' = Tail(montants)
    /\ LET e == Head(montants)
       IN  IF e.op = "quitter" THEN salles' = salles \ {e.c} /\ UNCHANGED fils
           ELSE Commencer(f, e.op, "moi", e.c, e.m) /\ UNCHANGED salles
    /\ UNCHANGED <<bornes, serveur, descendants, connecte, fenetre, chargements, coupures, surs>>

(* The other person: a message, by socket or as a file, an opening or the  *)
(* mark of a live message.                                                 *)
Autrui(f) ==
    /\ EncoreUn
    /\ \E c \in bornes.convs : Commencer(f, "envoyer", "autre", c, 0)
    /\ UNCHANGED <<bornes, serveur, salles, montants, descendants, connecte, fenetre, chargements,
                   coupures, surs>>

Etape(f, i) == fils[f].reste # << >> /\ Head(fils[f].reste) = i
Avancer(f) ==
    LET reste == fils[f].reste
    IN  fils' = [fils EXCEPT ![f] = IF Len(reste) = 1 THEN Repos
                                    ELSE [fils[f] EXCEPT !.reste = Tail(reste)]]
Diffuser(c, e) ==
    descendants' = IF c \in salles /\ connecte THEN Append(descendants, e) ELSE descendants

Entrer(f) ==
    /\ Etape(f, "entrer") /\ Avancer(f)
    /\ salles' = salles \cup {fils[f].c}
    /\ UNCHANGED <<bornes, serveur, montants, descendants, connecte, fenetre, chargements,
                   coupures, surs>>

Marquer(f) ==
    /\ Etape(f, "marquer") /\ Avancer(f)
    /\ Lecture(fils[f].c)
    /\ UNCHANGED <<bornes, ecrits, supprimes, salles, montants, descendants, connecte, fenetre,
                   chargements, coupures, surs>>

(* The window is settled: in the room and about to stay there, its list    *)
(* loaded, no history under way.                                           *)
Etablie(c) ==
    /\ ouverte = c /\ c \in salles /\ affiche # Nul /\ \A r \in Requete : Libre(r)
    /\ \A k \in 1..Len(montants) : montants[k].op \notin {"quitter", "rejoindre"}
    /\ \A g \in Fil : fils[g].op # "rejoindre"

Creer(f) ==
    /\ Etape(f, "creer")
    /\ ecrits' = Append(ecrits, [conv |-> fils[f].c, auteur |-> fils[f].par])
    /\ fils' = [fils EXCEPT ![f].reste = Tail(@), ![f].m = Len(ecrits) + 1]
    /\ surs' = IF Etablie(fils[f].c) THEN surs \cup {Len(ecrits) + 1} ELSE surs
    /\ UNCHANGED <<bornes, supprimes, lu, salles, montants, descendants, connecte, fenetre,
                   chargements, coupures>>

DiffuserMessage(f) ==
    /\ Etape(f, "diffuser") /\ Avancer(f)
    /\ Diffuser(fils[f].c, [op |-> "message", c |-> fils[f].c, par |-> fils[f].par, m |-> fils[f].m])
    /\ UNCHANGED <<bornes, serveur, salles, montants, connecte, fenetre, chargements, coupures, surs>>

Supprimer(f) ==
    /\ Etape(f, "supprimer")
    /\ IF fils[f].m \in supprimes THEN fils' = [fils EXCEPT ![f] = Repos] ELSE Avancer(f)
    /\ supprimes' = supprimes \cup {fils[f].m}
    /\ UNCHANGED <<bornes, ecrits, lu, salles, montants, descendants, connecte, fenetre,
                   chargements, coupures, surs>>

AnnoncerSuppression(f) ==
    /\ Etape(f, "annoncerSuppression") /\ Avancer(f)
    /\ Diffuser(fils[f].c, [op |-> "supprime", c |-> fils[f].c, par |-> "moi", m |-> fils[f].m])
    /\ UNCHANGED <<bornes, serveur, salles, montants, connecte, fenetre, chargements, coupures, surs>>

-----------------------------------------------------------------------------
Next ==
    \/ \E c \in Conv : Ouvrir(c)
    \/ Fermer
    \/ Connexion
    \/ Coupure
    \/ EcrireMessage
    \/ \E m \in 1..Len(ecrits) : SupprimerMessage(m)
    \/ ChargerPlus
    \/ RecevoirEvenement
    \/ \E r \in Requete : RecevoirHistorique(r) \/ MarquerHistorique(r) \/ LireHistorique(r)
    \/ \E f \in Fil :
          \/ Prendre(f) \/ Autrui(f) \/ Entrer(f) \/ Marquer(f)
          \/ Creer(f) \/ DiffuserMessage(f) \/ Supprimer(f) \/ AnnoncerSuppression(f)

Spec == Init /\ [][Next]_vars

-----------------------------------------------------------------------------
(* Properties. *)

TypeOK ==
    /\ bornes \in Depart
    /\ \A m \in 1..Len(ecrits) : ecrits[m].conv \in Conv /\ ecrits[m].auteur \in Personne
    /\ supprimes \subseteq 1..Len(ecrits) /\ salles \subseteq Conv
    /\ \A c \in Conv : lu[c] \in 0..Len(ecrits)
    /\ connecte \in BOOLEAN /\ (~connecte => salles = {} /\ descendants = << >>)
    /\ ouverte \in Conv \cup {Nul} /\ (ouverte = Nul => affiche = Nul)
    /\ affiche # Nul => ToSet(affiche) \subseteq 1..Len(ecrits)
    /\ \A r \in Requete : chargements[r].actif => chargements[r].c = ouverte
    /\ surs \subseteq 1..Len(ecrits)

(* Nothing is on its way. *)
Calme ==
    /\ connecte /\ montants = << >> /\ descendants = << >>
    /\ \A f \in Fil : fils[f] = Repos
    /\ \A r \in Requete : Libre(r)

Dernieres(c) == ToSet(PageDe(c, 0))

(* The socket of an open window is in its room, however often it was cut   *)
(* and whatever was opened before: "sinon le client reste hors de la room".*)
DansLaSalle == Calme /\ ouverte # Nul => ouverte \in salles

(* A direct conversation that is open and shows the other's last message   *)
(* does not count as unread.                                               *)
VuEstLu ==
    \A c \in Conv :
        Calme /\ nature = "dm" /\ ouverte = c =>
            \A m \in ToSet(affiche) \cap Messages(c) : m <= lu[c] \/ ecrits[m].auteur = "moi"

(* No whole page has been written since, deleted messages included.        *)
Recentes(c) ==
    {m \in Messages(c) : Cardinality({n \in (m + 1)..Len(ecrits) : ecrits[n].conv = c}) < Page}

(* A message written while the window was settled is on display, also when *)
(* the socket was cut before it came, unless a whole page was written      *)
(* after it: a history read then has no room for it, and a deletion that   *)
(* makes room later reads nothing again.                                   *)
SurAffiche ==
    \A c \in Conv :
        Calme /\ ouverte = c => surs \cap Recentes(c) \subseteq ToSet(affiche)

(* "On a pu manquer des messages pendant la coupure : on resynchronise     *)
(* l'historique": after a cut, the last page is on display.                *)
Resynchronise ==
    \A c \in Conv : Calme /\ coupures > 0 /\ ouverte = c => Dernieres(c) \subseteq ToSet(affiche)

================================================================================
